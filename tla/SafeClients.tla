---------------------------- MODULE SafeClients ----------------------------
(***************************************************************************)
(* The command line scripts that put a Gelato task into a user's Gnosis    *)
(* Safe (buidler/tasks/dapps/gnosis) and the two scripts they end in:      *)
(* gsp-exectransaction for a Safe that exists and                          *)
(* gc-submitgelatouserproxyoncpk for one that is still to be created.      *)
(*                                                                         *)
(* A run of a script is a process.  Between two of its steps lies an       *)
(* await: other runs take steps and the network mines transactions, so     *)
(* what a run read earlier may be stale when it is used.  Any await may    *)
(* reject; the process then ends, and a transaction it has sent stays      *)
(* pending.  A transaction is mined later, in the order its sender signed. *)
(*                                                                         *)
(* The Safe, the factory, MultiSend and the token are not in the           *)
(* repository (nor are their artifacts): they are external and do what the *)
(* scripts rely on.                                                        *)
(***************************************************************************)
EXTENDS Naturals, Sequences, FiniteSets

CONSTANTS Runs,         \* the runs of scripts
          Signers,      \* ethers.getSigners()
          FirstSigner,  \* the signer every contract gets by default
          Users,        \* the signers --mnemonicIndex may select
          Kinds,        \* the scripts that may be started
          SellAmount,   \* --sellAmount
          Frequency,    \* --frequency
          Fee,          \* what the provider's fee contract asks for the sell token
          Balance       \* sell tokens each signer owns at first

SafeClientsAssumption ==
  /\ FirstSigner \in Signers
  /\ Users \subseteq Signers
  /\ Kinds \subseteq {"timeTrade", "balanceTrade", "kyberPriceTrade",
                      "tradeAndWithdraw", "withdraw"}
  /\ {SellAmount, Frequency, Fee, Balance} \subseteq Nat

VARIABLES runs,       \* the process of each run
          queue,      \* per signer, the transactions sent and not yet mined
          deployed,   \* the safes that exist
          modules,    \* the safes on which GelatoCore is an enabled module
          allowance,  \* tokens a safe may still take from its user
          balance,    \* tokens of each signer
          tasks,      \* submitted tasks: which run sent them, from which safe
          provided    \* the task specs the provider has whitelisted

vars == <<runs, queue, deployed, modules, allowance, balance, tasks, provided>>
chain == <<deployed, modules, allowance, balance, tasks, provided>>

----------------------------------------------------------------------------
(* Addresses and scripts *)

(* The address CREATE2 gives a safe depends on who creates it and on the   *)
(* salt; the withdraw script uses a salt of its own.                       *)
Salt(kind) == IF kind = "withdraw" THEN "cpk69" ELSE "cpk65"
Safes == [owner : Signers, salt : {"cpk65", "cpk69"}]
CpkAddress(user, salt) == [owner |-> user, salt |-> salt]

SafeOf(r) == CpkAddress(runs[r].user, Salt(runs[r].kind))

(* What a script lets the safe take from the user: the empty set where it  *)
(* throws before it approves anything.  The balance must exceed what is    *)
(* sold, and what is sold the fee, which a token that is not accepted does *)
(* not have.                                                               *)
TimeTradeApproval(u) == {a \in {SellAmount * Frequency} : balance[u] > SellAmount}
BalanceTradeApproval(u) == {a \in {SellAmount * Frequency} : balance[u] > SellAmount}
KyberPriceTradeApproval(u) ==
  {a \in {SellAmount} : Fee # 0 /\ balance[u] > SellAmount /\ SellAmount > Fee}
TradeAndWithdrawApproval(u) ==
  {a \in {SellAmount} : Fee # 0 /\ SellAmount > Fee /\ balance[u] > SellAmount}

Approval(kind, u) ==
  CASE kind = "timeTrade"       -> TimeTradeApproval(u)
    [] kind = "balanceTrade"    -> BalanceTradeApproval(u)
    [] kind = "kyberPriceTrade" -> KyberPriceTradeApproval(u)
    [] OTHER                    -> TradeAndWithdrawApproval(u)

(* The specs of the tasks a script builds; it goes on if the provider has  *)
(* whitelisted them all.  The task of kyberPriceTrade submits another one. *)
TimeTradeSpecs == {"placeOrder"}
BalanceTradeSpecs == {"placeOrder, setRefBalance"}
KyberPriceTradeSpecs == {"withdraw", "placeOrder, submitTask"}

Specs(kind) ==
  CASE kind = "timeTrade"       -> TimeTradeSpecs
    [] kind = "balanceTrade"    -> BalanceTradeSpecs
    [] kind = "kyberPriceTrade" -> KyberPriceTradeSpecs
    [] OTHER                    -> {}

(* The calls MultiSend makes for the safe, after GelatoCore is enabled     *)
(* where it is not.                                                        *)
TimeTradeBatch == <<"placeOrder", "submitTask">>
BalanceTradeBatch == <<"setRefBalance", "submitTask">>
KyberPriceTradeBatch == <<"submitTask">>
WithdrawBatch == <<"withdraw">>

Batch(kind, whitelisted) ==
  CASE kind = "withdraw" -> WithdrawBatch
    [] OTHER -> (IF whitelisted THEN <<>> ELSE <<"enableModule">>)
                \o CASE kind = "timeTrade"    -> TimeTradeBatch
                     [] kind = "balanceTrade" -> BalanceTradeBatch
                     [] OTHER                 -> KyberPriceTradeBatch

(* The scripts that hand their salt on to the creation script.             *)
PassesSalt(kind) == kind \in {"timeTrade", "balanceTrade"}

----------------------------------------------------------------------------
(* Processes *)

Idle == [pc |-> "idle", kind |-> "withdraw", user |-> FirstSigner,
         safeDeployed |-> FALSE, whitelisted |-> FALSE, cause |-> "none"]

Running(r) == runs[r].pc \notin {"idle", "done", "error"}

Goto(r, pc) == runs' = [runs EXCEPT ![r].pc = pc]
Die(r, cause) == runs' = [runs EXCEPT ![r].pc = "error", ![r].cause = cause]
Send(signer, tx) == queue' = [queue EXCEPT ![signer] = Append(@, tx)]

Init ==
  /\ runs = [r \in Runs |-> Idle]
  /\ queue = [s \in Signers |-> <<>>]
  /\ deployed \in SUBSET {CpkAddress(u, salt) : u \in Users, salt \in {"cpk65", "cpk69"}}
  /\ modules \in SUBSET deployed
  /\ allowance = [a \in Safes |-> 0]
  /\ balance = [s \in Signers |-> Balance]
  /\ tasks = {}
  /\ provided = UNION {Specs(kind) : kind \in Kinds}

(* The script is called; it checks --seconds and computes the address of   *)
(* the user's safe.                                                        *)
Start(r, kind, user) ==
  /\ runs[r].pc = "idle"
  /\ runs' = [runs EXCEPT ![r].kind = kind, ![r].user = user,
                          ![r].pc = IF kind = "withdraw" THEN "safe" ELSE "approve"]
  /\ UNCHANGED <<queue, chain>>

(* The token was instantiated without a signer: the approval is the first  *)
(* signer's, whoever the user is, and the script does not wait for it.     *)
Approve(r) ==
  /\ runs[r].pc = "approve"
  /\ \/ /\ Approval(runs[r].kind, runs[r].user) = {}
        /\ Die(r, "throws") /\ UNCHANGED queue
     \/ \E a \in Approval(runs[r].kind, runs[r].user) :
          /\ Goto(r, IF runs[r].kind = "tradeAndWithdraw" THEN "core" ELSE "safe")
          /\ Send(FirstSigner, [call |-> "approve", run |-> r, safe |-> SafeOf(r),
                                batch |-> <<>>, amount |-> a])
  /\ UNCHANGED chain

(* tradeAndWithdraw names a signer that no scope declares. *)
InstantiateCore(r) ==
  /\ runs[r].pc = "core"
  /\ Die(r, "provider is not defined")
  /\ UNCHANGED <<queue, chain>>

(* "Do a test call to see if contract exist".  timeTrade does not await    *)
(* the call, so its rejection is not caught there.                         *)
CheckSafe(r) ==
  /\ runs[r].pc = "safe"
  /\ runs' = [runs EXCEPT ![r].safeDeployed = (runs[r].kind = "timeTrade" \/ SafeOf(r) \in deployed),
                          ![r].pc = "modules"]
  /\ UNCHANGED <<queue, chain>>

\* Variant: any enabled module is taken for GelatoCore
ReadModulesAny(r) ==
  /\ runs[r].pc = "modules"
  /\ IF runs[r].safeDeployed /\ SafeOf(r) \notin deployed
     THEN Die(r, "no safe")
     ELSE runs' = [runs EXCEPT ![r].whitelisted = runs[r].safeDeployed,
                               ![r].pc = IF runs[r].kind = "withdraw" THEN "send" ELSE "provided"]
  /\ UNCHANGED <<queue, chain>>

(* The modules of a safe that was found.  A safe without code has none to  *)
(* return; withdraw does not use what it reads.                            *)
ReadModules(r) ==
  /\ runs[r].pc = "modules"
  /\ IF runs[r].safeDeployed /\ SafeOf(r) \notin deployed
     THEN Die(r, "no safe")
     ELSE runs' = [runs EXCEPT ![r].whitelisted = runs[r].safeDeployed /\ SafeOf(r) \in modules,
                               ![r].pc = IF runs[r].kind = "withdraw" THEN "send" ELSE "provided"]
  /\ UNCHANGED <<queue, chain>>

(* gc-check-if-provided, for every task the script has built.              *)
CheckIfProvided(r) ==
  /\ runs[r].pc = "provided"
  /\ IF Specs(runs[r].kind) \subseteq provided THEN Goto(r, "send") ELSE Die(r, "throws")
  /\ UNCHANGED <<queue, chain>>

(* gsp-exectransaction: sent by the first signer with the signature of a   *)
(* message sender who is an owner.                                         *)
ExecTransaction(r) ==
  /\ runs[r].pc = "send"
  /\ runs[r].safeDeployed
  /\ Send(FirstSigner, [call |-> "exec", run |-> r, safe |-> SafeOf(r),
                        amount |-> 0,
                               batch |-> Batch(runs[r].kind, runs[r].whitelisted)])
  /\ Goto(r, "wait")
  /\ UNCHANGED chain

(* gc-submitgelatouserproxyoncpk: the factory creates the safe of whoever  *)
(* sends the transaction, which is the first signer.  A script that passes *)
(* no salt gets the default one, or an error where the task runner does    *)
(* not fill defaults in.                                                   *)
CreateOnCpk(r) ==
  /\ runs[r].pc = "send"
  /\ ~runs[r].safeDeployed
  /\ \/ /\ Send(FirstSigner, [call |-> "create", run |-> r,
                               safe |-> CpkAddress(FirstSigner, "cpk65"),
                               amount |-> 0,
                               batch |-> Batch(runs[r].kind, runs[r].whitelisted)])
        /\ Goto(r, "wait")
     \/ ~PassesSalt(runs[r].kind) /\ Die(r, "no salt") /\ UNCHANGED queue
  /\ UNCHANGED chain

(* An await rejects: an ABI does not fit its arguments, the node does not  *)
(* answer, the user stops the script.                                      *)
Reject(r) ==
  /\ Running(r)
  /\ Die(r, "rejected")
  /\ UNCHANGED <<queue, chain>>

(* withdraw catches what its module check throws and goes on. *)
CaughtReject(r) ==
  /\ runs[r].pc = "modules"
  /\ runs[r].kind = "withdraw"
  /\ Goto(r, "send")
  /\ UNCHANGED <<queue, chain>>

----------------------------------------------------------------------------
(* The chain (external) *)

Pop(s) == queue' = [queue EXCEPT ![s] = Tail(@)]

\* Variant: a revert does not end the wait
SettleDone(r, pc) ==
  runs' = IF runs[r].pc = "wait" /\ pc = "done"
          THEN [runs EXCEPT ![r].pc = pc] ELSE runs

(* How wait() ends for a run that still waits. *)
Settle(r, pc) ==
  runs' = IF runs[r].pc = "wait"
          THEN [runs EXCEPT ![r].pc = pc, ![r].cause = IF pc = "done" THEN @ ELSE "reverted"]
          ELSE runs

(* One call of a batch can be made by the safe: a module is enabled once,  *)
(* and only by the safe itself; an address without code accepts any call.  *)
CallSucceeds(tx, call, exists) ==
  CASE call = "enableModule" -> \/ SafeOf(tx.run) \notin exists
                                \/ SafeOf(tx.run) = tx.safe /\ tx.safe \notin modules
    [] call = "submitTask"   -> Specs(runs[tx.run].kind) \subseteq provided
    [] call = "placeOrder"   -> /\ allowance[tx.safe] >= SellAmount
                                /\ balance[runs[tx.run].user] >= SellAmount
                                /\ runs[tx.run].user = tx.safe.owner
    [] OTHER                 -> TRUE

In(call, batch) == \E i \in DOMAIN batch : batch[i] = call

(* MultiSend makes every call of the batch or none; GelatoCore and the     *)
(* exchange may refuse theirs.                                             *)
Execute(tx, exists) ==
  LET user == runs[tx.run].user
      ok   == \A i \in DOMAIN tx.batch : CallSucceeds(tx, tx.batch[i], exists)
  IN \/ UNCHANGED <<modules, allowance, balance, tasks>>
     \/ /\ ok
        /\ modules' = IF In("enableModule", tx.batch) /\ SafeOf(tx.run) = tx.safe
                      THEN modules \union {tx.safe} ELSE modules
        /\ IF In("placeOrder", tx.batch)
           THEN /\ allowance' = [allowance EXCEPT ![tx.safe] = @ - SellAmount]
                /\ balance' = [balance EXCEPT ![user] = @ - SellAmount]
           ELSE UNCHANGED <<allowance, balance>>
        /\ tasks' = IF In("submitTask", tx.batch)
                    THEN tasks \union {[run |-> tx.run, safe |-> tx.safe]} ELSE tasks

(* ERC20.approve sets the allowance; it does not add to it. *)
MineApprove(s) ==
  /\ queue[s] # <<>> /\ Head(queue[s]).call = "approve"
  /\ allowance' = IF Head(queue[s]).safe.owner = s
                  THEN [allowance EXCEPT ![Head(queue[s]).safe] = Head(queue[s]).amount]
                  ELSE allowance
  /\ Pop(s)
  /\ UNCHANGED <<runs, deployed, modules, balance, tasks, provided>>

(* execTransaction reverts for a sender who is no owner.  A batch that     *)
(* fails does not make it revert, and neither does a missing safe.         *)
MineExec(s) ==
  /\ queue[s] # <<>> /\ Head(queue[s]).call = "exec"
  /\ LET tx == Head(queue[s]) IN
     IF tx.safe \in deployed /\ tx.safe.owner # s
     THEN /\ Settle(tx.run, "error")
          /\ UNCHANGED chain
     ELSE /\ Settle(tx.run, "done")
          /\ IF tx.safe \in deployed THEN Execute(tx, deployed)
             ELSE UNCHANGED <<modules, allowance, balance, tasks>>
          /\ UNCHANGED <<deployed, provided>>
  /\ Pop(s)

(* createProxyAndExecTransaction reverts if the address is taken.          *)
MineCreate(s) ==
  /\ queue[s] # <<>> /\ Head(queue[s]).call = "create"
  /\ LET tx == Head(queue[s]) IN
     IF tx.safe \in deployed
     THEN /\ Settle(tx.run, "error")
          /\ UNCHANGED chain
     ELSE /\ Settle(tx.run, "done")
          /\ deployed' = deployed \union {tx.safe}
          /\ Execute(tx, deployed')
          /\ UNCHANGED provided
  /\ Pop(s)

(* The provider withdraws or grants a whitelisting at any time.            *)
Unprovide(spec) == provided' = provided \ {spec} /\ UNCHANGED <<runs, queue, deployed, modules, allowance, balance, tasks>>
Provide(spec) == provided' = provided \union {spec} /\ UNCHANGED <<runs, queue, deployed, modules, allowance, balance, tasks>>

----------------------------------------------------------------------------
Step(r) == Approve(r) \/ InstantiateCore(r) \/ CheckSafe(r) \/ ReadModules(r)
           \/ CheckIfProvided(r) \/ ExecTransaction(r) \/ CreateOnCpk(r)
Mine(s) == MineApprove(s) \/ MineExec(s) \/ MineCreate(s)

Next ==
  \/ \E r \in Runs, kind \in Kinds, user \in Users : Start(r, kind, user)
  \/ \E r \in Runs : Step(r) \/ Reject(r) \/ CaughtReject(r)
  \/ \E s \in Signers : Mine(s)
  \/ \E kind \in Kinds : \E spec \in Specs(kind) : Unprovide(spec) \/ Provide(spec)

Spec == Init /\ [][Next]_vars

(* A script that was started keeps running until it ends, and the network  *)
(* mines what was sent; nobody has to start a script.                      *)
Fairness == /\ \A r \in Runs : WF_vars(Step(r))
            /\ \A s \in Signers : WF_vars(Mine(s))
FairSpec == Spec /\ Fairness

----------------------------------------------------------------------------
(* Properties *)

Pcs == {"idle", "approve", "core", "safe", "modules", "provided", "send", "wait", "done", "error"}
Causes == {"none", "throws", "provider is not defined", "no safe", "no salt",
           "rejected", "reverted"}
Calls == {"enableModule", "placeOrder", "setRefBalance", "submitTask", "withdraw"}

Txs == [call : {"approve", "exec", "create"}, run : Runs, safe : Safes, batch : Seq(Calls),
        amount : Nat]

(* Types of the variables: processes, queues, safes, tokens and tasks.     *)
TypeOK ==
  /\ runs \in [Runs -> [pc : Pcs, kind : Kinds \union {"withdraw"}, user : Signers,
                        safeDeployed : BOOLEAN, whitelisted : BOOLEAN, cause : Causes]]
  /\ queue \in [Signers -> Seq(Txs)]
  /\ deployed \subseteq Safes
  /\ modules \subseteq deployed
  /\ allowance \in [Safes -> Nat]
  /\ balance \in [Signers -> Nat]
  /\ tasks \subseteq [run : Runs, safe : Safes]
  /\ provided \subseteq UNION {Specs(kind) : kind \in Kinds}

(* GelatoCore executes a task as a module of the user's safe: whatever     *)
(* the interleaving of scripts, every safe that has submitted a task has   *)
(* GelatoCore enabled.                                                     *)
ModuleBeforeTask == \A t \in tasks : t.safe \in modules

(* The approval is not waited for: still, when the task of a trade reaches *)
(* the chain, the approval its run sent is no longer pending.              *)
ApprovalMinedFirst ==
  \A t \in tasks : \A s \in Signers : \A i \in DOMAIN queue[s] :
    ~(queue[s][i].call = "approve" /\ queue[s][i].run = t.run)

(* The first trade of timeTrade and its task are one batch: what the user  *)
(* has paid is one sell amount for each timeTrade task there is.           *)
PaidPerTask ==
  \A u \in Signers :
    Balance - balance[u] =
      SellAmount * Cardinality({t \in tasks : runs[t.run].kind = "timeTrade" /\ t.safe.owner = u})

(* "If proxy was deployed, only execTx, if not, createProxyAndExecTx": no  *)
(* run fails because the safe does not exist yet.                          *)
MissingSafeIsCreated == \A r \in Runs : runs[r].cause # "no safe"

(* --mnemonicIndex "will be used for the user address": the safe that      *)
(* submits a script's task is the one of the user the script was run for.  *)
UsersOwnSafe == \A t \in tasks : t.safe.owner = runs[t.run].user

(* "Creates a gelato task": once GelatoCore accepts it, a script that ends *)
(* without an error has sent a batch that can be executed.                 *)
ReportedBatchWasPossible ==
  [][\A s \in Signers :
       queue[s] # <<>> /\ queue'[s] = Tail(queue[s]) /\ Head(queue[s]).call = "exec" =>
         LET tx == Head(queue[s]) IN
           runs[tx.run].pc = "wait" /\ runs'[tx.run].pc = "done" =>
             \A i \in DOMAIN tx.batch : CallSucceeds(tx, tx.batch[i], deployed)]_vars

(* "how often it should be done, important for accurate approvals": after  *)
(* a timeTrade task is submitted, the safe may take what its further       *)
(* trades need.                                                            *)
AllowanceCoversTrades ==
  \A t \in tasks :
    runs[t.run].kind = "timeTrade" => allowance[t.safe] >= SellAmount * (Frequency - 1)
============================================================================
