-------------------------- MODULE SelfProviderDapp --------------------------
(***************************************************************************)
(* The demo dapp whose user is its own provider (src/demo/automated_dapps, *)
(* exampleThree): the user's proxy whitelists the provider module, funds   *)
(* itself on GelatoCore and chooses an executor, each in a transaction the *)
(* script sends and does not wait for, before it submits its task cycle.   *)
(*                                                                         *)
(* A call of an address without code succeeds and does nothing: it only    *)
(* leaves its ether there, where the proxy finds it once it is created.    *)
(* The salt of the proxy is the default one; the timer of the task is left *)
(* to TimedDapps.                                                          *)
(***************************************************************************)
EXTENDS Naturals, Sequences

CONSTANTS Runs,             \* the runs of the script, all of one user
          Prices,           \* the gas prices the oracle answers
          Gas,              \* estimatedGasConsumption, 500000 in the code
          Overhead,         \* what minExecProviderFunds adds: EXEC_TX_OVERHEAD and the shares
          Cycles,           \* --cycles
          InitialDeployed,  \* whether the user's proxy may exist at the start
          InitialFunds      \* what the address may own on GelatoCore at the start

SelfProviderAssumption ==
  /\ Prices \subseteq Nat \ {0}
  /\ {Gas, Overhead, Cycles} \subseteq Nat \ {0}
  /\ InitialDeployed \subseteq BOOLEAN
  /\ InitialFunds \subseteq Nat

VARIABLES runs,      \* the process of each run
          pending,   \* the user's transactions, sent and not yet mined
          price,     \* GelatoCore's gas price
          deployed,  \* whether the user's proxy exists
          balance,   \* the ether at its address
          funds,     \* providerFunds of the proxy
          module,    \* whether it has whitelisted ProviderModuleGelatoUserProxy
          executor,  \* whether it has an executor
          left,      \* per run, the executions still due of the cycle it submitted
          paid,      \* ether the user has sent
          charged,   \* ether executors and the owner have been paid
          lost       \* the runs a setup transaction of which had no effect

ether == <<balance, funds, paid, charged>>
chain == <<price, deployed, ether, module, executor, left, lost>>
vars == <<runs, pending, chain>>

RequiredBalance(p) == Gas * p

MinExecProviderFunds(p) == (Gas + Overhead) * p

----------------------------------------------------------------------------
(* The script *)

Idle == [pc |-> "idle", funds |-> 0, required |-> 0, isDeployed |-> FALSE]
Running(r) == runs[r].pc \notin {"idle", "done", "error"}
Goto(r, pc) == runs' = [runs EXCEPT ![r].pc = pc]

Tx(r, call, value) == [run |-> r, call |-> call, value |-> value]
Send(tx) == pending' = Append(pending, tx)

Start(r) ==
  /\ runs[r].pc = "idle"
  /\ Goto(r, "module")
  /\ UNCHANGED pending

AddModule(r) ==
  /\ runs[r].pc = "module"
  /\ IF module THEN UNCHANGED pending ELSE Send(Tx(r, "addModule", 0))
  /\ Goto(r, "funds")

ReadFunds(r) ==
  /\ runs[r].pc = "funds"
  /\ runs' = [runs EXCEPT ![r].pc = "topUp", ![r].funds = funds]
  /\ UNCHANGED pending

TopUp(r) ==
  /\ runs[r].pc = "topUp"
  /\ IF RequiredBalance(price) >= runs[r].funds
     THEN Send(Tx(r, "provideFunds", RequiredBalance(price))) ELSE UNCHANGED pending
  /\ runs' = [runs EXCEPT ![r].pc = "executor", ![r].required = RequiredBalance(price)]

(* Once more requiredBalance goes along, for an action without any value.  *)
AssignExecutor(r) ==
  /\ runs[r].pc = "executor"
  /\ IF executor THEN UNCHANGED pending
     ELSE Send(Tx(r, "assignExecutor", runs[r].required))
  /\ Goto(r, "check")

CheckDeployed(r) ==
  /\ runs[r].pc = "check"
  /\ runs' = [runs EXCEPT ![r].pc = "submit", ![r].isDeployed = deployed]
  /\ UNCHANGED pending

\* Variant: the submission overtakes the setup.
SubmitFirst(r) ==
  /\ runs[r].pc = "submit"
  /\ pending' = <<Tx(r, IF runs[r].isDeployed THEN "submit" ELSE "createTwo", 0)>> \o pending
  /\ Goto(r, "wait")

Submit(r) ==
  /\ runs[r].pc = "submit"
  /\ Send(Tx(r, IF runs[r].isDeployed THEN "submit" ELSE "createTwo", 0))
  /\ Goto(r, "wait")

Step(r) == \/ AddModule(r) \/ ReadFunds(r) \/ TopUp(r) \/ AssignExecutor(r)
           \/ CheckDeployed(r) \/ Submit(r)

(* An await rejects, or the user stops the script. *)
Reject(r) ==
  /\ Running(r)
  /\ Goto(r, "error")
  /\ UNCHANGED pending

----------------------------------------------------------------------------
(* The contracts *)

Settle(r, pc) ==
  runs' = IF runs[r].pc = "wait" THEN [runs EXCEPT ![r].pc = pc] ELSE runs

(* Whether the call reverts: addProviderModules and providerAssignsExecutor *)
(* refuse what is already so, createTwo a proxy that exists.               *)
Redundant(tx) ==
  \/ tx.call = "addModule" /\ deployed /\ module
  \/ tx.call = "assignExecutor" /\ deployed /\ executor
Possible(tx) == ~ Redundant(tx) /\ (tx.call = "createTwo" => ~ deployed)

Setup == {"addModule", "provideFunds", "assignExecutor"}

(* A setup transaction goes through execAction of the proxy, which forwards *)
(* the value of the action and keeps the rest.                             *)
Effect(tx) ==
  /\ paid' = paid + tx.value
  /\ module' = (module \/ (deployed /\ tx.call = "addModule"))
  /\ executor' = (executor \/ (deployed /\ tx.call = "assignExecutor"))
  /\ IF deployed /\ tx.call = "provideFunds"
     THEN funds' = funds + tx.value /\ UNCHANGED balance
     ELSE balance' = balance + tx.value /\ UNCHANGED funds
  /\ deployed' = (deployed \/ tx.call = "createTwo")
  /\ left' = IF tx.call \in Setup THEN left ELSE [left EXCEPT ![tx.run] = Cycles]
  /\ lost' = IF tx.call \in Setup /\ ~ deployed THEN lost \cup {tx.run} ELSE lost

(* Any transaction may also fail, for the gas it was given say. *)
Mine ==
  /\ pending # <<>>
  /\ LET tx == Head(pending) IN
     \/ /\ Possible(tx)
        /\ Effect(tx)
        /\ Settle(tx.run, IF tx.call \in Setup THEN "wait" ELSE "done")
        /\ UNCHANGED <<price, charged>>
     \/ /\ lost' = IF Redundant(tx) THEN lost ELSE lost \cup {tx.run}
        /\ Settle(tx.run, IF tx.call \in Setup THEN "wait" ELSE "error")
        /\ UNCHANGED <<price, deployed, ether, module, executor, left>>
  /\ pending' = Tail(pending)

Liquid == MinExecProviderFunds(price) <= funds

(* The executor executes the next task of the cycle run r has submitted.   *)
Exec(r) ==
  /\ left[r] > 0 /\ module /\ executor /\ Liquid
  /\ \E cost \in RequiredBalance(price) .. MinExecProviderFunds(price) :
       funds' = funds - cost /\ charged' = charged + cost
  /\ left' = [left EXCEPT ![r] = @ - 1]
  /\ UNCHANGED <<runs, pending, price, deployed, balance, paid, module, executor, lost>>

PriceChanges(p) ==
  /\ p # price /\ price' = p
  /\ UNCHANGED <<runs, pending, deployed, ether, module, executor, left, lost>>

----------------------------------------------------------------------------
Init ==
  /\ runs = [r \in Runs |-> Idle]
  /\ pending = <<>>
  /\ price \in Prices
  /\ deployed \in InitialDeployed
  /\ module = FALSE /\ executor = FALSE
  /\ balance = 0 /\ funds \in InitialFunds
  /\ left = [r \in Runs |-> 0]
  /\ paid = funds /\ charged = 0
  /\ lost = {}

Next ==
  \/ (\E r \in Runs : Start(r) \/ Step(r) \/ Reject(r)) /\ UNCHANGED chain
  \/ Mine
  \/ \E r \in Runs : Exec(r)
  \/ \E p \in Prices : PriceChanges(p)

(* A script runs on; what was sent is mined. *)
Fairness == /\ \A r \in Runs : WF_vars(Step(r) /\ UNCHANGED chain)
            /\ WF_vars(Mine)

Spec == Init /\ [][Next]_vars /\ Fairness

----------------------------------------------------------------------------
(* Properties *)

(* Types of the variables: amounts are natural numbers. *)
TypeOK ==
  /\ \A r \in Runs : runs[r].pc \in {"idle", "module", "funds", "topUp", "executor", "check",
                                      "submit", "wait", "done", "error"}
  /\ price \in Prices
  /\ {deployed, module, executor} \subseteq BOOLEAN
  /\ {balance, funds, paid, charged} \subseteq Nat
  /\ left \in [Runs -> 0 .. Cycles]
  /\ lost \subseteq Runs

(* No transaction of the setup is waited for, and a second run of the      *)
(* script may repeat it: yet a task that is submitted finds the module and *)
(* the executor in place, unless a setup transaction of its own failed or  *)
(* came before the proxy existed.                                          *)
SetupPrecedesTask ==
  \A r \in Runs \ lost : left[r] > 0 => module /\ executor

(* The ether the user has sent is at the proxy, is its funds on GelatoCore *)
(* or has paid for executions, also what went to the proxy before it       *)
(* existed or with a call that had no use for it.                          *)
EtherAccounted == paid = balance + funds + charged

(* "how to swap tokens ... without the user requiring a provider to deposit *)
(* ETH on gelato on its behalf": when the script reports its task, the     *)
(* proxy has what a provider needs.                                        *)
SubmittedTaskIsProvided ==
  [][\A r \in Runs : runs[r].pc = "wait" /\ runs'[r].pc = "done" =>
        module' /\ executor' /\ funds' > 0]_vars

(* The balance the script calls required, and tops up, is enough for the   *)
(* first execution at the price it was computed for.                       *)
TopUpCoversExecution ==
  [][\A r \in Runs :
        runs[r].pc = "wait" /\ runs'[r].pc = "done" /\ r \notin lost =>
          MinExecProviderFunds(runs[r].required) <= funds + charged]_vars
============================================================================
