---------------------------- MODULE ReceiptClients ----------------------------
(***************************************************************************)
(* The scripts that submit, check, execute and cancel a task on GelatoCore *)
(* (buidler/tasks/gelato/core/execution and .../task_receipts).            *)
(*                                                                         *)
(* GelatoCore keeps only the hash of a receipt, so a script has to find    *)
(* the receipt among the logs: iTask.fetchTaskReceipt takes the log at the *)
(* position the id names, and turns the array it is decoded to into an     *)
(* object.  Meanwhile receipts are submitted, executed and cancelled by    *)
(* others, and by the other script.  Each transaction is a block.          *)
(***************************************************************************)
EXTENDS Naturals, Sequences, FiniteSets

CONSTANTS Scripts,      \* the runs of scripts
          Kinds,        \* the scripts that are run
          MaxIds,       \* bound: receipts ever submitted
          DefaultFrom,  \* filters.defaultFromBlock: the block of the deployment
          Contents,     \* what users submit
          Froms, Tos,   \* blocks --fromblock and --toblock may name
          Hashes, Txs   \* blocks --blockhash may name, and those of --txhash

ReceiptClientsAssumption ==
  /\ Kinds \subseteq {"submit", "canExec", "canExecExec", "exec", "cancel"}
  /\ {MaxIds, DefaultFrom} \subseteq Nat
  /\ Contents \subseteq {"single", "cycle", "valued"}
  /\ Froms \cup Tos \cup Hashes \cup Txs \subseteq Nat

VARIABLES blocks,     \* how many blocks there are
          logs,       \* LogTaskSubmitted: block and receipt
          stored,     \* the receipts whose hash GelatoCore keeps
          executed,   \* ids in the order they were executed
          cancelled,  \* ids in the order they were cancelled
          sameUser,   \* whether USER_PK is the first signer's key
          script

contract == <<blocks, logs, stored, executed, cancelled>>
vars == <<contract, sameUser, script>>

None == 0

----------------------------------------------------------------------------
(* Receipts: as arrays (the order of the struct) and as objects *)

Delegatecall == 1
ActionArray(operation, value) == <<1, 1, operation, 0, value, FALSE>>
TaskArray(actions) == <<<<>>, actions, 0, 0>>
ReceiptArray(id, userProxy, index, tasks, cycleId, left) ==
  <<id, userProxy, <<1, 1>>, index, tasks, 0, cycleId, left>>

(* A task of one action, a cycle of two, a delegatecall with a value. *)
Tasks(content) ==
  CASE content = "single" -> <<TaskArray(<<ActionArray(1, 0)>>)>>
    [] content = "cycle" -> <<TaskArray(<<ActionArray(1, 0)>>), TaskArray(<<ActionArray(0, 1)>>)>>
    [] content = "valued" -> <<TaskArray(<<ActionArray(1, 1)>>)>>

NewReceipt(id, userProxy, content) ==
  IF content = "cycle" THEN ReceiptArray(id, userProxy, 0, Tasks(content), id, 2)
  ELSE ReceiptArray(id, userProxy, 0, Tasks(content), 0, 1)

ActionObj(a) == [addr |-> a[1], data |-> a[2], operation |-> a[3], dataFlow |-> a[4],
                 value |-> a[5], termsOkCheck |-> a[6]]
TaskObj(t) == [conditions |-> t[1], actions |-> [i \in DOMAIN t[2] |-> ActionObj(t[2][i])],
               selfProviderGasLimit |-> t[3], selfProviderGasPriceCeil |-> t[4]]

\* Variant: the index is read from the place of the submissions left.
ToObjShifted(r) ==
  [id |-> r[1], userProxy |-> r[2], provider |-> [addr |-> r[3][1], module |-> r[3][2]],
   index |-> r[8], tasks |-> [i \in DOMAIN r[5] |-> TaskObj(r[5][i])],
   expiryDate |-> r[6], cycleId |-> r[7], submissionsLeft |-> r[8]]

ToObj(r) ==
  [id |-> r[1], userProxy |-> r[2], provider |-> [addr |-> r[3][1], module |-> r[3][2]],
   index |-> r[4], tasks |-> [i \in DOMAIN r[5] |-> TaskObj(r[5][i])],
   expiryDate |-> r[6], cycleId |-> r[7], submissionsLeft |-> r[8]]

(* The constructors of the objects throw. *)
BadAction(a) == a[3] = Delegatecall /\ a[5] # 0
BadTask(t) == t[2] = <<>> \/ \E i \in DOMAIN t[2] : BadAction(t[2][i])
Unconvertible(r) == r[5] = <<>> \/ \E i \in DOMAIN r[5] : BadTask(r[5][i])

(* What GelatoCore hashes when it is called with an object. *)
ActionOf(o) == <<o.addr, o.data, o.operation, o.dataFlow, o.value, o.termsOkCheck>>
TaskOf(o) == <<o.conditions, [i \in DOMAIN o.actions |-> ActionOf(o.actions[i])],
               o.selfProviderGasLimit, o.selfProviderGasPriceCeil>>
ToArray(o) == <<o.id, o.userProxy, <<o.provider.addr, o.provider.module>>, o.index,
                [i \in DOMAIN o.tasks |-> TaskOf(o.tasks[i])],
                o.expiryDate, o.cycleId, o.submissionsLeft>>

----------------------------------------------------------------------------
(* GelatoCore *)

Log(block, receipts) == [i \in DOMAIN receipts |-> [block |-> block, receipt |-> receipts[i]]]

Submitted == Len(logs)

(* A user proxy submits one task, or two at once. *)
UserSubmits ==
  \E n \in 1 .. 2 : \E batch \in [1 .. n -> Contents], userProxy \in {"safe", "proxy"} :
    LET receipts == [i \in 1 .. n |-> NewReceipt(Submitted + i, userProxy, batch[i])]
    IN  /\ Submitted + n <= MaxIds
        /\ blocks' = blocks + 1
        /\ logs' = logs \o Log(blocks + 1, receipts)
        /\ stored' = stored \cup {receipts[i] : i \in 1 .. n}
        /\ UNCHANGED <<executed, cancelled, sameUser, script>>

(* The receipt that follows in a cycle. *)
NextOf(r) ==
  ReceiptArray(Submitted + 1, r[2], (r[4] + 1) % Len(r[5]), r[5], r[7],
               IF r[8] = 0 THEN 0 ELSE r[8] - 1)

(* exec: for a receipt that is not stored, whose condition does not hold   *)
(* or whose actions revert nothing is changed, except that the latter may  *)
(* cost a self-provider the receipt.                                       *)
Exec(r) ==
  \/ /\ r \in stored
     /\ (r[8] # 1 => Submitted < MaxIds)
     /\ executed' = Append(executed, r[1])
     /\ logs' = IF r[8] # 1 THEN logs \o Log(blocks + 1, <<NextOf(r)>>) ELSE logs
     /\ stored' = (stored \ {r}) \cup IF r[8] # 1 THEN {NextOf(r)} ELSE {}
     /\ UNCHANGED cancelled
  \/ /\ r \in stored
     /\ stored' = stored \ {r}
     /\ UNCHANGED <<logs, executed, cancelled>>
  \/ UNCHANGED <<logs, stored, executed, cancelled>>

\* Variant: a receipt that is not stored does not stop cancelTask.
CanCancelAny(r, sender) == r[2] = sender

(* The script cancels through the user's proxy; a provider would do the    *)
(* same as OthersCancel.                                                    *)
CanCancel(r, sender) == r[2] = sender /\ r \in stored

(* cancelTask, without its reverts. *)
CancelTask(r, sender) ==
  /\ CanCancel(r, sender)
  /\ stored' = stored \ {r}
  /\ cancelled' = Append(cancelled, r[1])
  /\ UNCHANGED <<logs, executed>>

(* The receipts other executors and users work on. *)
OthersExec ==
  /\ \E r \in stored : Exec(r)
  /\ stored' # stored
  /\ blocks' = blocks + 1
  /\ UNCHANGED <<sameUser, script>>

OthersCancel ==
  /\ \E r \in stored : CancelTask(r, r[2])
  /\ blocks' = blocks + 1
  /\ UNCHANGED <<sameUser, script>>

----------------------------------------------------------------------------
(* The scripts *)

NoReceipt == <<>>
AllLogs == [from |-> None, to |-> None, hash |-> None, inTx |-> None]
Idle == [kind |-> "exec", id |-> 1, where |-> AllLogs, account |-> "executor",
         proxyType |-> "proxy", address |-> FALSE, pc |-> "idle", got |-> NoReceipt,
         said |-> "nothing", tx |-> "none"]

Running(s, pc) == script[s].pc = pc
Goto(s, pc) == script' = [script EXCEPT ![s].pc = pc]
Fail(s) == Goto(s, "failed")
KeepChain == UNCHANGED <<contract, sameUser>>

(* Where to look for the log: --fromblock, --toblock, --blockhash and      *)
(* --txhash, each None when it is not given.                               *)
Options == [from : Froms \cup {None}, to : Tos \cup {None},
            hash : Hashes \cup {None}, inTx : Txs \cup {None}]

(* gc-cancel-task has none of these options, it is given the type of the   *)
(* user's proxy and perhaps its address; gc-exec is signed by the account  *)
(* with the index of the executor, or by another.                          *)
Start(s, kind) ==
  /\ Running(s, "idle")
  /\ \E id \in 1 .. MaxIds, where \in Options, account \in {"executor", "other"},
        proxyType \in {"safe", "proxy"}, address \in BOOLEAN :
       /\ kind \in {"cancel", "submit"} => where = AllLogs /\ account = "executor"
       /\ kind # "cancel" => proxyType = "safe" /\ ~ address
       /\ kind = "submit" => id = 1
       /\ kind = "canExec" => account = "executor"
       /\ script' = [script EXCEPT ![s] =
            [Idle EXCEPT !.kind = kind, !.id = id, !.where = where, !.account = account,
                         !.proxyType = proxyType, !.address = address,
                         !.pc = IF kind = "submit" THEN "prepare" ELSE "fetch"]]
  /\ KeepChain

(* gc-submittask: without a task object its parts are put together from    *)
(* the command line.  A wrong name ends the script; so does a condition    *)
(* without data, which is stored in a task that does not exist yet.  The   *)
(* provider is declared where the parts are, and is out of scope where the *)
(* transaction is made.                                                    *)
PrepareTask(s) ==
  /\ Running(s, "prepare")
  /\ \/ Fail(s)
     \/ Goto(s, "inputs")
  /\ KeepChain

SubmitTask(s) ==
  /\ Running(s, "inputs")
  /\ Fail(s)
  /\ KeepChain

(* Defaults of options are filled in for a script run from the command     *)
(* line; whether for one that another runs depends on Buidler's version.   *)
FromOptions(where) == IF where.from # None THEN {where.from} ELSE {0, DefaultFrom}

(* A block is not named alongside a range. *)
Refused(where) == where.hash # None /\ (where.from # None \/ where.to # None)

Within(where, from, block) ==
  IF where.hash # None THEN block = where.hash
  ELSE block >= from /\ (where.to # None => block <= where.to)

(* The logs before the first block of a range, or before the block. *)
CutOff(where, from) ==
  {i \in DOMAIN logs : logs[i].block < IF where.hash # None THEN where.hash ELSE from}

(* The node returns the logs of the range in the order of the blocks.  Of  *)
(* these the script takes the first of the transaction, or the one at the  *)
(* position of the id.                                                     *)
Found(s, from) ==
  LET where == script[s].where
      found == {i \in DOMAIN logs : Within(where, from, logs[i].block)}
      wanted == IF where.inTx # None THEN {i \in found : logs[i].block = where.inTx}
                ELSE {i \in found : i = Cardinality(CutOff(where, from)) + script[s].id}
  IN  IF Refused(where) \/ wanted = {} THEN NoReceipt
      ELSE logs[CHOOSE i \in wanted : \A j \in wanted : i <= j].receipt

AfterFetch(kind) ==
  CASE kind \in {"canExec", "canExecExec"} -> "check"
    [] kind = "exec" -> "price"
    [] kind = "cancel" -> "address"

FetchTaskReceipt(s) ==
  /\ Running(s, "fetch")
  /\ \E from \in FromOptions(script[s].where) :
       LET r == Found(s, from) IN
       IF r = NoReceipt \/ Unconvertible(r) THEN Fail(s)
       ELSE script' = [script EXCEPT ![s].pc = AfterFetch(script[s].kind),
                                     ![s].got = ToArray(ToObj(r))]
  /\ KeepChain

(* canExec is called without an account: when all else is well the answer  *)
(* is InvalidExecutor.  A call that throws leaves the answer undefined.    *)
CanExec(s) ==
  /\ Running(s, "check")
  /\ \E said \in {"NotOK", "undefined"} \cup
                 (IF script[s].got \in stored THEN {"InvalidExecutor"} ELSE {}) :
       script' = [script EXCEPT ![s].said = said,
                                ![s].pc = IF script[s].kind = "canExecExec" THEN "decide"
                                          ELSE "done"]
  /\ KeepChain

(* gc-canexec-exec goes on if the answer is "ok", with the arguments       *)
(* gc-canexec has put the receipt in.                                      *)
Decide(s) ==
  /\ Running(s, "decide")
  /\ Goto(s, IF script[s].said = "ok" THEN "price" ELSE "done")
  /\ KeepChain

FetchGelatoGasPrice(s) ==
  /\ Running(s, "price")
  /\ Goto(s, "send")
  /\ KeepChain

(* There is no script that determines the address of a GelatoUserProxy.    *)
ProxyAddress(s) ==
  /\ Running(s, "address")
  /\ IF script[s].proxyType = "proxy" /\ ~ script[s].address THEN Fail(s) ELSE Goto(s, "send")
  /\ KeepChain

(* A transaction the node does not take: gc-exec catches the error and     *)
(* trips over the transaction it does not have.                            *)
Send(s) ==
  /\ Running(s, "send")
  /\ \/ Fail(s)
     \/ script' = [script EXCEPT ![s].tx = "pending", ![s].pc = "wait"]
  /\ KeepChain

Mined(s, status) == script' = [script EXCEPT ![s].tx = status]

(* Only the executor of the provider may execute.  *)
ExecTx(s) ==
  /\ script[s].tx = "pending" /\ script[s].kind \in {"exec", "canExecExec"}
  /\ IF script[s].account = "executor" THEN Exec(script[s].got) /\ Mined(s, "mined")
     ELSE Mined(s, "reverted") /\ UNCHANGED <<logs, stored, executed, cancelled>>
  /\ blocks' = blocks + 1
  /\ UNCHANGED sameUser

(* The safe is owned by the user but called by the first signer.  The      *)
(* safe's transaction does not revert when cancelTask does; the proxy's    *)
(* does.                                                                   *)
CancelTx(s) ==
  /\ script[s].tx = "pending" /\ script[s].kind = "cancel"
  /\ IF script[s].proxyType = "safe" /\ ~ sameUser
     THEN Mined(s, "reverted") /\ UNCHANGED <<logs, stored, executed, cancelled>>
     ELSE IF CanCancel(script[s].got, script[s].proxyType)
     THEN CancelTask(script[s].got, script[s].proxyType) /\ Mined(s, "mined")
     ELSE /\ Mined(s, IF script[s].proxyType = "safe" THEN "refused" ELSE "reverted")
          /\ UNCHANGED <<logs, stored, executed, cancelled>>
  /\ blocks' = blocks + 1
  /\ UNCHANGED sameUser

\* Variant: the error of wait is ignored when cancelling, too.
ReportAll(s) ==
  /\ Running(s, "wait") /\ script[s].tx # "pending"
  /\ Goto(s, "done")
  /\ KeepChain

(* gc-exec catches the error of wait.  gsp-exectransaction has waited and  *)
(* returns a transaction receipt, which gc-cancel-task then asks to wait.  *)
Report(s) ==
  /\ Running(s, "wait") /\ script[s].tx # "pending"
  /\ IF script[s].kind = "cancel" /\ (script[s].tx = "reverted" \/ script[s].proxyType = "safe")
     THEN Fail(s) ELSE Goto(s, "done")
  /\ KeepChain

(* A call of the node that fails, in any step. *)
Reject(s) ==
  /\ script[s].pc \in {"prepare", "fetch", "price", "address"}
  /\ Fail(s)
  /\ KeepChain

Init ==
  /\ blocks = DefaultFrom /\ logs = <<>> /\ stored = {}
  /\ executed = <<>> /\ cancelled = <<>>
  /\ sameUser \in BOOLEAN
  /\ script = [s \in Scripts |-> Idle]

Step(s) ==
  \/ PrepareTask(s) \/ SubmitTask(s) \/ FetchTaskReceipt(s) \/ CanExec(s) \/ Decide(s)
  \/ FetchGelatoGasPrice(s) \/ ProxyAddress(s) \/ Send(s) \/ Report(s)

Mine(s) == ExecTx(s) \/ CancelTx(s)

Next ==
  \/ UserSubmits \/ OthersExec \/ OthersCancel
  \/ \E s \in Scripts : \/ \E kind \in Kinds : Start(s, kind)
                        \/ Step(s) \/ Mine(s) \/ Reject(s)

Fairness == \A s \in Scripts : WF_vars(Step(s)) /\ WF_vars(Mine(s))

Spec == Init /\ [][Next]_vars /\ Fairness

----------------------------------------------------------------------------
(* Properties *)

Ids(receipts) == {r[1] : r \in receipts}

(* Types: the receipts that are stored are receipts that were logged, one  *)
(* for each id, and the ids are the numbers of the logs.                   *)
TypeOK ==
  /\ stored \subseteq {logs[i].receipt : i \in DOMAIN logs}
  /\ \A i \in DOMAIN logs : logs[i].receipt[1] = i
  /\ \A i \in DOMAIN executed : executed[i] \in DOMAIN logs
  /\ \A i \in DOMAIN cancelled : cancelled[i] \in DOMAIN logs
  /\ \A s \in Scripts : script[s].tx \in {"none", "pending", "mined", "refused", "reverted"}

(* What a script has found, unless it looked for a transaction, is the     *)
(* receipt it was asked for, or as many further on as there were before    *)
(* the range it looked in; of a transaction it is the first receipt,       *)
(* whatever the id.  Right or wrong, as long as GelatoCore keeps that      *)
(* receipt it is, converted to an object and encoded again, the very       *)
(* receipt the hash is of.                                                 *)
FetchedIsAsked ==
  \A s \in Scripts : script[s].got # NoReceipt =>
    LET where == script[s].where
        got == script[s].got
        ofTx == {i \in DOMAIN logs : logs[i].block = where.inTx}
    IN  /\ IF where.inTx # None THEN got[1] \in ofTx /\ \A i \in ofTx : got[1] <= i
           ELSE got[1] = Cardinality(CutOff(where, where.from)) + script[s].id
        /\ got[1] \in Ids(stored) => got \in stored

(* "Returns the <taskReceiptArray>": the one with the id, for whatever     *)
(* range or transaction.                                                   *)
FetchedHasTheId ==
  \A s \in Scripts : script[s].got # NoReceipt => script[s].got[1] = script[s].id

(* However many executors and users race for a receipt, it is executed at  *)
(* most once, cancelled at most once, and never both.                      *)
ExecutedOrCancelledOnce ==
  LET ended == executed \o cancelled IN
  \A i, j \in DOMAIN ended : ended[i] = ended[j] => i = j

(* When gc-cancel-task reports success the task it was asked to cancel is  *)
(* cancelled, and was not executed just before.                            *)
CancelReportIsTrue ==
  \A s \in Scripts : script[s].kind = "cancel" /\ script[s].pc = "done" =>
    /\ \E i \in DOMAIN cancelled : cancelled[i] = script[s].id
    /\ \A i \in DOMAIN executed : executed[i] # script[s].id

Busy(s) == script[s].pc \notin {"idle", "done", "failed"}

(* "Calls GelatoCore.canExec prior to .exec": a task for which canExec     *)
(* answers what the script itself prints as OK is sent to exec.            *)
CheckedIsSent ==
  \A s \in Scripts :
    script[s].kind = "canExecExec" /\ script[s].pc = "done" /\ script[s].said = "InvalidExecutor"
      => script[s].tx # "none"

(* "Task Successfully cancelled!": a task the script has cancelled is      *)
(* reported.                                                               *)
CancelledIsReported ==
  \A s \in Scripts :
    script[s].kind = "cancel" /\ script[s].tx = "mined" => script[s].pc # "failed"
=============================================================================
