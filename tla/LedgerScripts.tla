---------------------------- MODULE LedgerScripts ---------------------------
(***************************************************************************)
(* The command line scripts of executors and providers                     *)
(* (buidler/tasks/gelato/core and src/demo/provider_functions) composed    *)
(* with the ledger of GelatoCore they act on.                              *)
(*                                                                         *)
(* A run of a script reads the contract, and some steps later sends a      *)
(* transaction that is mined later still: by then the owner may have set   *)
(* another minimum stake, an executor may have charged the provider, and   *)
(* other scripts may have done their part.  The network mines the          *)
(* transactions of an account in the order they were sent; a transaction   *)
(* reverts exactly when the contract does not accept the call.             *)
(***************************************************************************)
EXTENDS GelatoExecutors, Sequences, SequencesExt

CONSTANTS
    Runs,            \* the runs of scripts
    Kinds,           \* the scripts that may be started
    FirstSigner,     \* ethers.getSigners()[0], used where a script names no signer
    ExecutorWallet,  \* getExecutor()
    ProviderWallet,  \* getProvider()
    SignerTwo,       \* ethers.getSigners()[2], "the gelatoProvider"
    DefaultAmount    \* stands for an amount that is not given

LedgerScriptsAssumption ==
    /\ {FirstSigner, ExecutorWallet, ProviderWallet, SignerTwo} \subseteq Accounts
    /\ DefaultAmount \notin Nat

VARIABLES
    runs,    \* the process of each run
    queue    \* per account, the transactions sent and not yet mined

scriptVars == <<runs, queue>>
allVars == <<vars, runs, queue>>

-----------------------------------------------------------------------------
(* Processes *)

Idle == [pc |-> "idle", kind |-> "stake", amount |-> DefaultAmount,
         read |-> 0, cause |-> "none"]

Running(r) == runs[r].pc \notin {"idle", "done", "error"}

Goto(r, pc) == runs' = [runs EXCEPT ![r].pc = pc]
Die(r, cause) == runs' = [runs EXCEPT ![r].pc = "error", ![r].cause = cause]
Read(r, value) == runs' = [runs EXCEPT ![r].pc = "send", ![r].read = value]

Send(r, sender, call, amount) ==
    /\ queue' = [queue EXCEPT ![sender] =
                    Append(@, [run |-> r, call |-> call, amount |-> amount])]
    /\ Goto(r, "wait")

\* The amount of the command line, or what the script falls back to.
AmountOr(r, value) ==
    IF runs[r].amount = DefaultAmount THEN value ELSE runs[r].amount

At(r, kind, pc) == runs[r].kind = kind /\ runs[r].pc = pc

ScriptsInit ==
    /\ runs = [r \in Runs |-> Idle]
    /\ queue = [a \in Accounts |-> <<>>]

Start(r, kind, amount) ==
    /\ runs[r].pc = "idle"
    /\ runs' = [runs EXCEPT ![r].kind = kind, ![r].amount = amount, ![r].pc = "read"]
    /\ UNCHANGED queue

-----------------------------------------------------------------------------
(* Scripts of the executor *)

ReadMinStake(r) ==
    /\ At(r, "stake", "read")
    /\ runs[r].amount = DefaultAmount
    /\ Read(r, params.minExecutorStake)
    /\ UNCHANGED queue

SendStake(r) ==
    /\ At(r, "stake", IF runs[r].amount = DefaultAmount THEN "send" ELSE "read")
    /\ Send(r, ExecutorWallet, "stakeExecutor", AmountOr(r, runs[r].read))

\* With providers left the script says so and ends.
ReadProvidersCount(r) ==
    /\ At(r, "unstake", "read")
    /\ IF executorProvidersCount[ExecutorWallet] = 0
       THEN Read(r, 0) ELSE Goto(r, "done")
    /\ UNCHANGED queue

\* The contract was instantiated without the executor's wallet.
SendUnstake(r) ==
    /\ At(r, "unstake", "send")
    /\ Send(r, FirstSigner, "unstakeExecutor", 0)

SendReassign(r) ==
    /\ At(r, "reassign", "read")
    /\ Send(r, FirstSigner, "multiReassignProviders", 0)

ReadMinimum(r) ==
    /\ At(r, "withdrawExcess", "read")
    /\ runs' = [runs EXCEPT ![r].pc = "read2", ![r].read = params.minExecutorStake]
    /\ UNCHANGED queue

ReadExcessStake(r) ==
    /\ At(r, "withdrawExcess", "read2")
    /\ LET excessStake == executorStake[ExecutorWallet] - runs[r].read
       IN  IF excessStake <= 0 THEN Die(r, "no excess stake") ELSE Read(r, excessStake)
    /\ UNCHANGED queue

\* On mainnet the script sleeps for ten seconds in between.
SendWithdrawExcess(r) ==
    /\ At(r, "withdrawExcess", "send")
    /\ Send(r, ExecutorWallet, "withdrawExcessExecutorStake", AmountOr(r, runs[r].read))

-----------------------------------------------------------------------------
(* Scripts of the provider *)

SendProvideFunds(r) ==
    /\ At(r, "provideFunds", "read")
    /\ Send(r, SignerTwo, "provideFunds", AmountOr(r, 0))

SendDemoProvideFunds(r) ==
    /\ At(r, "demoProvideFunds", "read")
    /\ Send(r, ProviderWallet, "provideFunds", AmountOr(r, 0))

\* The amount of the command line is a string, the funds are a BigNumber:
\* `>` makes a string of it and compares their digits from the left.
Digits[n \in Nat] == IF n < 10 THEN <<n>> ELSE Append(Digits[n \div 10], n % 10)

GreaterAsString(a, b) ==
    LET s == Digits[a]
        t == Digits[b]
    IN  \/ IsStrictPrefix(t, s)
        \/ \E i \in DOMAIN s \cap DOMAIN t :
              /\ \A j \in 1 .. (i - 1) : s[j] = t[j]
              /\ s[i] > t[i]

\* gc-providerfunds is asked for the funds of getProvider(), whoever is
\* going to withdraw.
ReadProviderFunds(r) ==
    /\ At(r, "unprovideFunds", "read")
    /\ LET availableFunds == providerFunds[ProviderWallet]
       IN  IF availableFunds = 0 THEN Die(r, "out of funds")
           ELSE IF /\ runs[r].amount # DefaultAmount
                   /\ GreaterAsString(runs[r].amount, availableFunds)
                THEN runs' = [runs EXCEPT ![r].pc = "error", ![r].read = availableFunds,
                                          ![r].cause = "insufficient funds"]
                ELSE Read(r, availableFunds)
    /\ UNCHANGED queue

SendUnprovideFunds(r) ==
    /\ At(r, "unprovideFunds", "send")
    /\ Send(r, SignerTwo, "unprovideFunds", AmountOr(r, runs[r].read))

ReadDemoProviderFunds(r) ==
    /\ At(r, "demoUnprovideFunds", "read")
    /\ IF providerFunds[ProviderWallet] = 0 THEN Die(r, "out of funds")
       ELSE Read(r, providerFunds[ProviderWallet])
    /\ UNCHANGED queue

SendDemoUnprovideFunds(r) ==
    /\ At(r, "demoUnprovideFunds", "send")
    /\ Send(r, ProviderWallet, "unprovideFunds", AmountOr(r, 0))

\* GelatoCore has no function assignProviderExecutor...
AssignProviderExecutor(r) ==
    /\ At(r, "assignExecutor", "read")
    /\ Die(r, "not a function")
    /\ UNCHANGED queue

\* ... and no function unregisterProvider.
UnregisterProvider(r) ==
    /\ At(r, "multiUnprovide", "read")
    /\ Die(r, "not a function")
    /\ UNCHANGED queue

SendDemoAssignExecutor(r) ==
    /\ At(r, "demoAssignExecutor", "read")
    /\ Send(r, ProviderWallet, "providerAssignsExecutor", 0)

SendAddModules(r) ==
    /\ At(r, "addModules", "read")
    /\ Send(r, SignerTwo, "addProviderModules", 0)

SendDemoAddModule(r) ==
    /\ At(r, "demoAddModule", "read")
    /\ Send(r, ProviderWallet, "addProviderModules", 0)

SendProvideTaskSpecOld(r) ==
    /\ At(r, "provideTaskSpec", "read")
    /\ Send(r, SignerTwo, "provideTaskSpecs", 0)

SendDemoProvideTaskSpec(r) ==
    /\ At(r, "demoProvideTaskSpec", "read")
    /\ Send(r, ProviderWallet, "provideTaskSpecs", 0)

SendMultiProvide(r) ==
    /\ At(r, "multiProvide", "read")
    /\ Send(r, SignerTwo, "multiProvide", AmountOr(r, 0))

Step(r) ==
    \/ ReadMinStake(r) \/ SendStake(r)
    \/ ReadProvidersCount(r) \/ SendUnstake(r)
    \/ SendReassign(r)
    \/ ReadMinimum(r) \/ ReadExcessStake(r) \/ SendWithdrawExcess(r)
    \/ SendProvideFunds(r) \/ SendDemoProvideFunds(r)
    \/ ReadProviderFunds(r) \/ SendUnprovideFunds(r)
    \/ ReadDemoProviderFunds(r) \/ SendDemoUnprovideFunds(r)
    \/ AssignProviderExecutor(r) \/ UnregisterProvider(r)
    \/ SendDemoAssignExecutor(r)
    \/ SendAddModules(r) \/ SendDemoAddModule(r)
    \/ SendProvideTaskSpecOld(r) \/ SendDemoProvideTaskSpec(r)
    \/ SendMultiProvide(r)

\* An await rejects, or the user stops the script ("hit ctrl+c to abort").
Reject(r) ==
    /\ Running(r)
    /\ Die(r, "rejected")
    /\ UNCHANGED queue

-----------------------------------------------------------------------------
(* The network *)

\* What the contract does for one transaction; the whitelisting scripts name
\* one module, or task specs without a price ceiling.
Call(sender, tx) ==
    CASE tx.call = "stakeExecutor" -> StakeExecutor(sender, tx.amount)
      [] tx.call = "unstakeExecutor" -> UnstakeExecutor(sender)
      [] tx.call = "withdrawExcessExecutorStake" ->
            WithdrawExcessExecutorStake(sender, tx.amount)
      [] tx.call = "multiReassignProviders" ->
            MultiReassignProviders(sender, AssignedTo(ExecutorWallet), FirstSigner)
      [] tx.call = "provideFunds" -> ProvideFunds(ProviderWallet, tx.amount)
      [] tx.call = "unprovideFunds" -> UnprovideFunds(sender, tx.amount)
      [] tx.call = "providerAssignsExecutor" ->
            ProviderAssignsExecutor(sender, ExecutorWallet)
      [] tx.call = "addProviderModules" -> AddProviderModules(sender, Modules)
      [] tx.call = "provideTaskSpecs" ->
            ProvideTaskSpecs(sender, [s \in TaskSpecs |-> 0])
      [] tx.call = "multiProvide" ->
            MultiProvide(sender, tx.amount, ExecutorWallet, [s \in TaskSpecs |-> 0], Modules)

\* How wait() ends, for a run that still waits.
Settle(r, pc, cause) ==
    runs' = IF runs[r].pc = "wait"
            THEN [runs EXCEPT ![r].pc = pc, ![r].cause = cause] ELSE runs

Mine(a) ==
    /\ queue[a] # <<>>
    /\ LET tx == Head(queue[a]) IN
       \/ /\ Call(a, tx)
          /\ Settle(tx.run, "done", "none")
       \/ /\ ~ ENABLED Call(a, tx)
          /\ Settle(tx.run, "error", "reverted")
          /\ UNCHANGED vars
    /\ queue' = [queue EXCEPT ![a] = Tail(@)]

\* An executor is paid one unit for an execution: GelatoCore takes it from
\* the provider's funds and adds it to the executor's stake.
ChargeProvider(p) ==
    /\ executorByProvider[p] # NoAccount
    /\ providerFunds[p] > 0
    /\ providerFunds' = [providerFunds EXCEPT ![p] = @ - 1]
    /\ executorStake' = [executorStake EXCEPT ![executorByProvider[p]] = @ + 1]
    /\ UNCHANGED <<sysAdminVars, assignmentVars, whitelistVars>>

\* The owner sets another minimum stake.
OwnerSetsMinimum(s) ==
    /\ \E a \in Owners : SetMinExecutorStake(a, s)
    /\ params' # params
    /\ UNCHANGED providerVars

-----------------------------------------------------------------------------
Init == LedgerInit /\ ScriptsInit

Next ==
    \/ /\ \/ \E r \in Runs, kind \in Kinds, amount \in Amounts \cup {DefaultAmount} :
                Start(r, kind, amount)
          \/ \E r \in Runs : Step(r) \/ Reject(r)
       /\ UNCHANGED vars
    \/ \E a \in Accounts : Mine(a)
    \/ /\ \/ \E p \in Accounts : ChargeProvider(p)
          \/ \E s \in Stakes : OwnerSetsMinimum(s)
       /\ UNCHANGED scriptVars

\* A script that was started runs on, and the network mines what was sent.
Fairness ==
    /\ \A r \in Runs : WF_allVars(Step(r) /\ UNCHANGED vars)
    /\ \A a \in Accounts : WF_allVars(Mine(a))

Spec == Init /\ [][Next]_allVars /\ Fairness

-----------------------------------------------------------------------------
(* Properties *)

Calls == {"stakeExecutor", "unstakeExecutor", "withdrawExcessExecutorStake",
          "multiReassignProviders", "provideFunds", "unprovideFunds",
          "providerAssignsExecutor", "addProviderModules", "provideTaskSpecs",
          "multiProvide"}

TypeOK ==
    /\ LedgerTypeOK
    /\ \A r \in Runs :
          /\ runs[r].pc \in {"idle", "read", "read2", "send", "wait", "done", "error"}
          /\ runs[r].read \in Nat
    /\ \A a \in Accounts : \A i \in DOMAIN queue[a] : queue[a][i].call \in Calls

\* The network takes the next transaction of an account, and it reverts.
Mines(a, call) ==
    queue[a] # <<>> /\ queue'[a] = Tail(queue[a]) /\ Head(queue[a]).call = call
Reverts(a) ==
    LET r == Head(queue[a]).run
    IN  runs'[r].cause = "reverted" /\ runs[r].cause # "reverted"

\* gc-stakeexecutor without an amount stakes the minimum it has read ("Defaults
\* to gelatoCore.minExecutorStake()"): whatever has been staked, withdrawn or
\* earned since it read, its transaction succeeds unless the owner has raised
\* the minimum in between.
StakeScriptStakes ==
    [][\A a \in Accounts :
          Mines(a, "stakeExecutor") /\ Reverts(a) =>
             LET r == Head(queue[a]).run
             IN  runs[r].amount = DefaultAmount => params.minExecutorStake > runs[r].read
      ]_allVars

\* The contract caps a withdrawal at the funds there are, so that however stale
\* the funds are that a script has read, however much executors have been paid
\* since, and however often it is run, its withdrawal does not revert.
UnprovideNeverReverts ==
    [][\A a \in Accounts : ~ (Mines(a, "unprovideFunds") /\ Reverts(a))]_allVars

\* gc-withdrawexcessexecutorstake says how much it takes out before it does:
\* it never takes out more than that, and not the last of the minimum.
WithdrawsExcessOnly ==
    [][\A a \in Accounts :
          Mines(a, "withdrawExcessExecutorStake") /\ executorStake'[a] < executorStake[a] =>
             /\ executorStake'[a] >= params.minExecutorStake
             /\ executorStake[a] - executorStake'[a] <= Head(queue[a]).amount]_allVars

\* What unstakeExecutor says ("Unstaking to" the executor's address), having
\* found that this executor has no providers: no one but the executor unstakes.
UnstakesTheExecutor ==
    [][\A a \in Accounts : Mines(a, "unstakeExecutor") => a = ExecutorWallet]_allVars
=============================================================================
