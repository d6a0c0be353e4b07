----------------------------- MODULE TimedDapps -----------------------------
(***************************************************************************)
(* The demo dapps that repeat a token transfer every so many seconds       *)
(* (src/demo/automated_dapps: exampleOne, exampleTwo, balanceTransfer)     *)
(* with what they use of the contracts: GelatoUserProxyFactory.createTwo,  *)
(* GelatoUserProxy.execActionsAndSubmitTaskCycle, ConditionTimeStateful    *)
(* and the cycles of GelatoCore.  Of the task's provider it is told what   *)
(* canExec asks: its executor and terms, and whether its balance pays.     *)
(*                                                                         *)
(* A run of a script is a process of the one user whose key it is given;   *)
(* it steps from await to await, and the user's transactions are mined     *)
(* one by one in the order they were sent.  A reference time is modelled   *)
(* by the time that is left until it passes, so that time has no bound.    *)
(***************************************************************************)
EXTENDS Naturals, Sequences, FiniteSets

CONSTANTS Runs,          \* the runs of dapp scripts
          Dapps,         \* the dapps that may be started
          SaltNonces,    \* the values of --saltnonce the user may pass
          DefaultNonce,  \* "42069", the default of every script
          SecondsDelta,  \* --secondsdelta
          CycleCounts,   \* the values of --cycles; 0 is an endless cycle
          MaxRounds,     \* bound: task receipts of one run
          MaxOthers      \* bound: task receipts that other proxies submit

TimedDappsAssumption ==
  /\ IsFiniteSet(Runs)
  /\ Dapps \subseteq {"one", "two", "balance"}
  /\ DefaultNonce \in SaltNonces
  /\ {SecondsDelta, MaxRounds} \subseteq Nat \ {0}
  /\ MaxOthers \in Nat
  /\ CycleCounts \subseteq 0 .. MaxRounds

VARIABLES runs,       \* the process of each run
          pending,    \* the user's transactions that are sent and not yet mined
          deployed,   \* the user's proxies that exist, each named by its salt
          timer,      \* refTime: what is left of it, for a proxy and a receipt id
          receipts,   \* the live task receipts of the user's proxies
          lastId,     \* GelatoCore.currentTaskReceiptId
          others,     \* receipts submitted by other proxies so far
          transfers,  \* per run, how often tokens left the user's account
          since,      \* per run, time since the last of them (at most SecondsDelta)
          served,     \* the provider has a min-staked executor, and its module and
                      \* gas price ceil admit the task
          liquid      \* isProviderLiquid: its funds cover the next execution

provider == <<served, liquid>>
vars == <<runs, pending, deployed, timer, receipts, lastId, others, transfers, since, provider>>
chain == <<deployed, timer, receipts, lastId, others, transfers, since, provider>>

Ids == 1 .. (MaxOthers + (MaxRounds + 1) * Cardinality(Runs))

----------------------------------------------------------------------------
(* What the scripts build *)

(* gelato-predict-gelato-proxy-address is run with the user's address      *)
(* only: the salt is the default one whatever --saltnonce says.  This is   *)
(* the proxy the user approves tokens for, and the one the condition asks. *)
Predicted == DefaultNonce

(* The actions of a task: "transfer" moves tokens from the user's account, *)
(* "setRefTime" winds the timer of the next receipt.                       *)
TaskOne == <<"transfer", "setRefTime">>
TaskTwo == <<"transfer", "setRefTime">>

(* The actions that precede the submission.  exampleTwo has the fee as its *)
(* first action: its second one is the trade, not the timer.               *)
InitialOne == <<TaskOne[2]>>
InitialTwo == <<"transfer">>

Task(dapp) == IF dapp = "one" THEN TaskOne ELSE TaskTwo
----------------------------------------------------------------------------
(* Processes *)

Idle == [pc |-> "idle", dapp |-> "one", salt |-> DefaultNonce, cycles |-> 0, isDeployed |-> FALSE]
Running(r) == runs[r].pc \notin {"idle", "done", "error"}

Goto(r, pc) == runs' = [runs EXCEPT ![r].pc = pc]
Send(tx) == pending' = Append(pending, tx)

Init ==
  /\ runs = [r \in Runs |-> Idle]
  /\ pending = <<>>
  /\ deployed \in SUBSET SaltNonces
  /\ timer = [p \in SaltNonces |-> [id \in Ids |-> 0]]
  /\ receipts = {}
  /\ lastId = 0
  /\ others = 0
  /\ transfers = [r \in Runs |-> 0]
  /\ since = [r \in Runs |-> SecondsDelta]
  /\ served \in BOOLEAN /\ liquid \in BOOLEAN

Start(r, dapp, salt, cycles) ==
  /\ runs[r].pc = "idle"
  /\ runs' = [runs EXCEPT ![r] = [pc |-> "build", dapp |-> dapp, salt |-> salt,
                                  cycles |-> cycles, isDeployed |-> FALSE]]
  /\ UNCHANGED <<pending, chain>>

(* balanceTransfer encodes a call of ConditionBalanceStateful that this    *)
(* contract does not have, which throws.                                   *)
BuildBalanceTransfer(r) ==
  /\ runs[r].pc = "build" /\ runs[r].dapp = "balance"
  /\ Goto(r, "error")
  /\ UNCHANGED <<pending, chain>>

BuildTask(r) ==
  /\ runs[r].pc = "build" /\ runs[r].dapp # "balance"
  /\ Goto(r, "check")
  /\ UNCHANGED <<pending, chain>>

CheckDeployed(r) ==
  /\ runs[r].pc = "check"
  /\ runs' = [runs EXCEPT ![r].isDeployed = Predicted \in deployed, ![r].pc = "submit"]
  /\ UNCHANGED <<pending, chain>>

(* execActionsAndSubmitTaskCycle on a proxy that is deployed, otherwise    *)
(* createTwoExecActionsSubmitTaskCycle with the salt of the command line.  *)
SubmitOne(r) ==
  /\ runs[r].pc = "submit" /\ runs[r].dapp = "one"
  /\ Send([run |-> r, create |-> ~runs[r].isDeployed, actions |-> InitialOne,
           proxy |-> IF runs[r].isDeployed THEN Predicted ELSE runs[r].salt])
  /\ Goto(r, "wait")
  /\ UNCHANGED chain

SubmitTwo(r) ==
  /\ runs[r].pc = "submit" /\ runs[r].dapp = "two"
  /\ Send([run |-> r, create |-> ~runs[r].isDeployed, actions |-> InitialTwo,
           proxy |-> IF runs[r].isDeployed THEN Predicted ELSE runs[r].salt])
  /\ Goto(r, "wait")
  /\ UNCHANGED chain

(* An await rejects or the user stops the script: process.exit(1).         *)
Reject(r) ==
  /\ Running(r)
  /\ Goto(r, "error")
  /\ UNCHANGED <<pending, chain>>

Settle(r, pc) == runs' = IF runs[r].pc = "wait" THEN [runs EXCEPT ![r].pc = pc] ELSE runs

----------------------------------------------------------------------------
(* The contracts *)

Includes(actions, action) == \E i \in DOMAIN actions : actions[i] = action

\* Variant: the timer of the latest receipt is wound.
SetRefTimeCurrent(proxy, actions) ==
  timer' = IF Includes(actions, "setRefTime") /\ lastId > 0
           THEN [timer EXCEPT ![proxy][lastId] = SecondsDelta] ELSE timer

(* setRefTime: the receipt id after the present one, for the calling proxy. *)
SetRefTime(proxy, actions) ==
  timer' = IF Includes(actions, "setRefTime")
           THEN [timer EXCEPT ![proxy][lastId + 1] = SecondsDelta] ELSE timer

(* Tokens leave the user's account, where the user approved the proxy.     *)
Transfer(r, actions) ==
  IF Includes(actions, "transfer")
  THEN /\ transfers' = [transfers EXCEPT ![r] = @ + 1]
       /\ since' = [since EXCEPT ![r] = 0]
  ELSE UNCHANGED <<transfers, since>>

CanPay(proxy, actions) == Includes(actions, "transfer") => proxy = Predicted

(* _storeTaskReceipt. *)
Store(r, proxy, left) ==
  [id |-> lastId + 1, run |-> r, proxy |-> proxy, left |-> left]

(* The user's next transaction.  createTwo reverts if the proxy exists;    *)
(* the actions and the submission revert as a whole.                       *)
Mine ==
  /\ pending # <<>>
  /\ LET tx == Head(pending) IN
     \/ /\ Settle(tx.run, "error")
        /\ UNCHANGED chain
     \/ /\ tx.create => tx.proxy \notin deployed
        /\ CanPay(tx.proxy, tx.actions)
        /\ deployed' = deployed \union {tx.proxy}
        /\ SetRefTime(tx.proxy, tx.actions)
        /\ transfers' = IF Includes(tx.actions, "transfer")
                        THEN [transfers EXCEPT ![tx.run] = @ + 1] ELSE transfers
        /\ since' = [since EXCEPT ![tx.run] = 0]
        /\ receipts' = receipts \union {Store(tx.run, tx.proxy, runs[tx.run].cycles)}
        /\ lastId' = lastId + 1
        /\ Settle(tx.run, "done")
        /\ UNCHANGED <<others, provider>>
  /\ pending' = Tail(pending)

(* The receipt is deleted and the next one of its cycle is submitted: one  *)
(* submission less is left, of endless ones none.                          *)
NextReceipts(tr) ==
  receipts' = (receipts \ {tr}) \union
              IF tr.left # 1
              THEN {Store(tr.run, tr.proxy, IF tr.left = 0 THEN 0 ELSE tr.left - 1)} ELSE {}

(* checkRefTime, for the proxy the condition data names. *)
ConditionOk(tr) == timer[Predicted][tr.id] = 0

(* What canExec asks of the provider and of the condition. *)
CanExec(tr) == served /\ liquid /\ ConditionOk(tr)

(* The provider pays a reward or a refund. *)
Charged == liquid' \in {liquid, FALSE} /\ UNCHANGED served

\* Bound: endless cycles are followed for so many receipts.
WithinRounds(tr) == tr.left = 0 => transfers[tr.run] + 1 < MaxRounds

(* GelatoCore.exec by the provider's executor.  *)
Exec(tr) ==
  /\ tr \in receipts /\ WithinRounds(tr)
  /\ CanExec(tr)
  /\ CanPay(tr.proxy, Task(runs[tr.run].dapp))
  /\ Transfer(tr.run, Task(runs[tr.run].dapp))
  /\ SetRefTime(tr.proxy, Task(runs[tr.run].dapp))
  /\ NextReceipts(tr)
  /\ lastId' = lastId + (IF tr.left # 1 THEN 1 ELSE 0)
  /\ Charged
  /\ UNCHANGED <<runs, pending, deployed, others>>

(* An action reverts although the executor sent all the gas: the receipt   *)
(* is deleted, and with it the rest of the cycle.                          *)
ExecReverted(tr) ==
  /\ tr \in receipts
  /\ CanExec(tr)
  /\ receipts' = receipts \ {tr}
  /\ Charged
  /\ UNCHANGED <<runs, pending, deployed, timer, lastId, others, transfers, since>>

(* An executor, of this provider or another, passes a struct with the id   *)
(* of the receipt whose checks abort.                                      *)
ExecAborted(tr) ==
  /\ tr \in receipts
  /\ receipts' = receipts \ {tr}
  /\ Charged
  /\ UNCHANGED <<runs, pending, deployed, timer, lastId, others, transfers, since>>

(* provideFunds, unprovideFunds, or another gas price. *)
FundsChange ==
  /\ liquid' = ~ liquid
  /\ UNCHANGED <<runs, pending, deployed, timer, receipts, lastId, others, transfers, since, served>>

(* The provider, its executor, the owner or the gas price oracle change    *)
(* executor, stake, module, ceil or price.                                 *)
TermsChange ==
  /\ served' = ~ served
  /\ UNCHANGED <<runs, pending, deployed, timer, receipts, lastId, others, transfers, since, liquid>>

(* Somebody else's task receipt takes the next id. *)
OtherSubmits ==
  /\ others < MaxOthers
  /\ others' = others + 1
  /\ lastId' = lastId + 1
  /\ UNCHANGED <<runs, pending, deployed, timer, receipts, transfers, since, provider>>

Tick ==
  /\ \E r \in Runs : since[r] < SecondsDelta
  /\ timer' = [p \in SaltNonces |-> [id \in Ids |-> IF timer[p][id] = 0 THEN 0 ELSE timer[p][id] - 1]]
  /\ since' = [r \in Runs |-> IF since[r] = SecondsDelta THEN since[r] ELSE since[r] + 1]
  /\ UNCHANGED <<runs, pending, deployed, receipts, lastId, others, transfers, provider>>

----------------------------------------------------------------------------
Step(r) == BuildBalanceTransfer(r) \/ BuildTask(r) \/ CheckDeployed(r) \/ SubmitOne(r) \/ SubmitTwo(r)

Next ==
  \/ \E r \in Runs, dapp \in Dapps, salt \in SaltNonces, cycles \in CycleCounts :
       Start(r, dapp, salt, cycles)
  \/ \E r \in Runs : Step(r) \/ Reject(r)
  \/ Mine
  \/ \E tr \in receipts : Exec(tr) \/ ExecReverted(tr) \/ ExecAborted(tr)
  \/ FundsChange \/ TermsChange
  \/ OtherSubmits
  \/ Tick

Spec == Init /\ [][Next]_vars

(* Scripts run on, transactions are mined, time passes, and executors      *)
(* execute what can be executed ("Gelato will monitor the specified        *)
(* condition, and when it is fulfilled, an Executor will execute").        *)
(* Nobody is bound to fund or to admit a task.                             *)
Fairness ==
  /\ \A r \in Runs : WF_vars(Step(r))
  /\ WF_vars(Mine)
  /\ WF_vars(Tick)
  /\ \A r \in Runs : WF_vars(\E tr \in receipts : tr.run = r /\ Exec(tr))
FairSpec == Spec /\ Fairness

----------------------------------------------------------------------------
(* Properties *)

(* Types of the variables. *)
TypeOK ==
  /\ runs \in [Runs -> [pc : {"idle", "build", "check", "submit", "wait", "done", "error"},
                        dapp : {"one", "two", "balance"}, salt : SaltNonces,
                        cycles : 0 .. MaxRounds, isDeployed : BOOLEAN]]
  /\ \A i \in DOMAIN pending :
       pending[i] \in [run : Runs, create : BOOLEAN, proxy : SaltNonces,
                       actions : {InitialOne, InitialTwo}]
  /\ deployed \subseteq SaltNonces
  /\ timer \in [SaltNonces -> [Ids -> 0 .. SecondsDelta]]
  /\ receipts \subseteq [id : Ids, run : Runs, proxy : SaltNonces, left : Nat]
  /\ lastId \in 0 .. (MaxOthers + (MaxRounds + 1) * Cardinality(Runs))
  /\ others \in 0 .. MaxOthers
  /\ transfers \in [Runs -> Nat]
  /\ since \in [Runs -> 0 .. SecondsDelta]
  /\ {served, liquid} \subseteq BOOLEAN

(* "every 2 minutes": tokens leave the user's account no sooner than       *)
(* SecondsDelta after the submission and after the time before, although   *)
(* the timer is wound for a receipt that does not exist yet and other      *)
(* receipts are submitted all the time.                                    *)
SpacedTransferOf(r) ==
  transfers'[r] > transfers[r] =>
    since[r] = SecondsDelta /\ \E tr \in receipts : tr.run = r
TransfersSpaced == [][\A r \in Runs : SpacedTransferOf(r)]_vars

(* "for 5 times": the transfers made and those the live receipt still      *)
(* stands for are never more than the cycles asked for, whatever the order *)
(* of executions, reverts and further runs of the script.  An endless      *)
(* cycle stays one, and no other becomes one.                              *)
AtMostCyclesOf(r) ==
  IF runs[r].cycles = 0 THEN \A tr \in receipts : tr.run = r => tr.left = 0
  ELSE /\ transfers[r] <= runs[r].cycles
       /\ \A tr \in receipts :
            tr.run = r => tr.left # 0 /\ transfers[r] + tr.left <= runs[r].cycles


(* "Saltnonce to ensure we use the same proxy we approved tokens to":      *)
(* tasks are submitted by the proxy that was predicted.                    *)
ApprovedProxySubmits == \A tr \in receipts : tr.proxy = Predicted
============================================================================
