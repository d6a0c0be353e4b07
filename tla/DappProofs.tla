------------------------------ MODULE DappProofs ------------------------------
(***************************************************************************)
(* The scripts that give a user a task, for any number of runs, amounts,   *)
(* prices, cycles and salts.  The parts of MCDapps share no state: a step  *)
(* of one is a stuttering step of the others, so that the inductive        *)
(* invariants of the three kinds of script hold side by side.              *)
(***************************************************************************)
EXTENDS MCDapps, FiniteSetTheorems, TLAPS

-----------------------------------------------------------------------------
(* Queues: the transactions of an account are mined in the order they were  *)
(* sent.  Among is said of the first k of them.                             *)

Among(q, k, r, call) == \E j \in 1 .. k : q[j].run = r /\ q[j].call = call

LEMMA Sent ==
  ASSUME NEW T, NEW q \in Seq(T), NEW tx \in T
  PROVE  /\ Append(q, tx) \in Seq(T) /\ Len(Append(q, tx)) = Len(q) + 1 /\ Len(q) \in Nat
         /\ DOMAIN q = 1 .. Len(q) /\ DOMAIN Append(q, tx) = 1 .. Len(q) + 1
         /\ \A i \in 1 .. Len(q) : Append(q, tx)[i] = q[i]
         /\ Append(q, tx)[Len(q) + 1] = tx
  OBVIOUS

LEMMA Taken ==
  ASSUME NEW T, NEW q \in Seq(T), q # <<>>
  PROVE  /\ Tail(q) \in Seq(T) /\ Len(Tail(q)) = Len(q) - 1 /\ Len(q) \in Nat /\ Len(q) > 0
         /\ DOMAIN q = 1 .. Len(q) /\ DOMAIN Tail(q) = 1 .. Len(q) - 1
         /\ \A i \in 1 .. Len(q) - 1 : Tail(q)[i] = q[i + 1]
         /\ Head(q) = q[1] /\ Head(q) \in T
  OBVIOUS

LEMMA AmongSent ==
  ASSUME NEW T, NEW q \in Seq(T), NEW tx \in T, NEW k \in 0 .. Len(q), NEW r, NEW call
  PROVE  /\ Among(q, k, r, call) => Among(Append(q, tx), k, r, call)
         /\ Among(q, k, r, call) => Among(Append(q, tx), k + 1, r, call)
         /\ tx.run = r /\ tx.call = call => Among(Append(q, tx), Len(q) + 1, r, call)
<1>1. \A j \in 1 .. k : j \in 1 .. Len(q) /\ j \in 1 .. k + 1
  BY Sent
<1>2. Len(q) + 1 \in 1 .. Len(q) + 1
  BY Sent
<1> QED
  BY <1>1, <1>2, Sent DEF Among

LEMMA AmongTaken ==
  ASSUME NEW T, NEW q \in Seq(T), q # <<>>, NEW k \in 0 .. Len(q), NEW r, NEW call,
         Among(q, k, r, call)
  PROVE  \/ k # 0 /\ Among(Tail(q), k - 1, r, call)
         \/ Head(q).run = r /\ Head(q).call = call
<1>1. PICK j \in 1 .. k : q[j].run = r /\ q[j].call = call
  BY DEF Among
<1>2. CASE j = 1
  BY <1>1, <1>2, Taken
<1>3. CASE j # 1
  <2>1. Len(q) \in Nat
    BY Taken
  <2>2. j - 1 \in 1 .. k - 1 /\ j - 1 \in 1 .. Len(q) - 1 /\ (j - 1) + 1 = j /\ k # 0
    BY <1>3, <2>1
  <2>3. Tail(q)[j - 1] = q[j]
    BY <2>2, Taken
  <2> QED
    BY <1>1, <2>2, <2>3 DEF Among
<1> QED
  BY <1>2, <1>3

-----------------------------------------------------------------------------
(* The dapp whose user is its own provider.                                 *)

SelfRun == [pc : {"idle", "module", "funds", "topUp", "executor", "check", "submit", "wait",
                  "done", "error"},
            funds : Nat, required : Nat, isDeployed : BOOLEAN]

SelfTx == [run : Runs, call : Self!Setup \cup {"submit", "createTwo"}, value : Nat]

SelfTypes ==
  /\ selfRuns \in [Runs -> SelfRun]
  /\ selfPending \in Seq(SelfTx)
  /\ price \in Prices
  /\ {proxyDeployed, module, executor} \subseteq BOOLEAN
  /\ {proxyBalance, funds, paid, charged} \subseteq Nat
  /\ left \in [Runs -> 0 .. Cycles]
  /\ lost \subseteq Runs

\* Module and executor are there or come with the first k transactions of q.
SetUp(q, k, r, m, e) ==
  /\ m \/ Among(q, k, r, "addModule")
  /\ e \/ Among(q, k, r, "assignExecutor")

\* What a run of pc c has sent of its setup, and what comes before each submission.
RunSetUp(c, q, r, m, e) ==
  /\ c \in {"funds", "topUp", "executor", "check", "submit"} => m \/ Among(q, Len(q), r, "addModule")
  /\ c \in {"check", "submit"} => e \/ Among(q, Len(q), r, "assignExecutor")

SubmissionsSetUp(q, gone, m, e) ==
  \A i \in DOMAIN q :
    q[i].call \notin Self!Setup /\ q[i].run \notin gone => SetUp(q, i - 1, q[i].run, m, e)

SelfInv ==
  /\ SelfTypes
  /\ Self!EtherAccounted
  /\ Self!SetupPrecedesTask
  /\ \A r \in Runs \ lost : RunSetUp(selfRuns[r].pc, selfPending, r, module, executor)
  /\ SubmissionsSetUp(selfPending, lost, module, executor)

LEMMA SelfInit == ASSUME Self!SelfProviderAssumption, Self!Init PROVE SelfInv
<1>1. SelfTypes /\ Self!EtherAccounted
  <2>1. /\ Cycles \in Nat /\ funds \in Nat /\ proxyDeployed \in BOOLEAN /\ price \in Prices
        /\ module = FALSE /\ executor = FALSE /\ proxyBalance = 0 /\ paid = funds /\ charged = 0
        /\ selfPending = <<>> /\ lost = {}
    BY DEF Self!Init, Self!SelfProviderAssumption
  <2>2. left \in [Runs -> 0 .. Cycles]
    BY <2>1 DEF Self!Init
  <2>3. selfRuns \in [Runs -> SelfRun]
    BY DEF Self!Init, Self!Idle, SelfRun
  <2>4. selfPending \in Seq(SelfTx)
    BY <2>1
  <2>5. {proxyDeployed, module, executor} \subseteq BOOLEAN /\ lost \subseteq Runs
    BY <2>1
  <2>6. {proxyBalance, funds, paid, charged} \subseteq Nat
    BY <2>1
  <2>7. SelfTypes
    BY <2>1, <2>2, <2>3, <2>4, <2>5, <2>6 DEF SelfTypes
  <2> QED
    BY <2>1, <2>7 DEF Self!EtherAccounted
<1>2. /\ \A r \in Runs : selfRuns[r].pc = "idle" /\ left[r] = 0
      /\ selfPending = <<>>
  BY DEF Self!Init, Self!Idle
<1> QED
  BY <1>1, <1>2 DEF SelfInv, Self!SetupPrecedesTask, RunSetUp, SubmissionsSetUp

\* A run goes on without sending anything.
LEMMA SelfGoesOn ==
  ASSUME SelfInv, UNCHANGED <<selfPending, selfChain>>, NEW r \in Runs,
         selfRuns' \in [Runs -> SelfRun], \A q \in Runs \ {r} : selfRuns'[q] = selfRuns[q],
         r \notin lost => RunSetUp(selfRuns'[r].pc, selfPending, r, module, executor)
  PROVE  SelfInv'
<1>1. SelfTypes' /\ Self!EtherAccounted' /\ Self!SetupPrecedesTask'
  BY DEF SelfInv, SelfTypes, selfChain, Self!EtherAccounted, Self!SetupPrecedesTask
<1>2. SubmissionsSetUp(selfPending, lost, module, executor)'
  BY DEF SelfInv, selfChain, SubmissionsSetUp, SetUp, Among
<1>3. ASSUME NEW q \in Runs \ lost
      PROVE  RunSetUp(selfRuns'[q].pc, selfPending, q, module, executor)
  BY DEF SelfInv
<1> QED
  BY <1>1, <1>2, <1>3 DEF SelfInv, selfChain, RunSetUp, Among

\* A run sends a transaction, a submission only after its setup.
LEMMA SelfSends ==
  ASSUME SelfInv, UNCHANGED selfChain, NEW r \in Runs, NEW tx \in SelfTx,
         tx.run = r, selfPending' = Append(selfPending, tx),
         selfRuns' \in [Runs -> SelfRun], \A q \in Runs \ {r} : selfRuns'[q] = selfRuns[q],
         tx.call \notin Self!Setup => selfRuns[r].pc = "submit",
         r \notin lost =>
           RunSetUp(selfRuns'[r].pc, selfPending, r, module \/ tx.call = "addModule",
                    executor \/ tx.call = "assignExecutor")
  PROVE  SelfInv'
<1> DEFINE p == Append(selfPending, tx)
           n == Len(selfPending)
<1>1. /\ selfPending \in Seq(SelfTx) /\ n \in Nat /\ n \in 0 .. n
      /\ p \in Seq(SelfTx) /\ Len(p) = n + 1
      /\ DOMAIN selfPending = 1 .. n /\ DOMAIN p = 1 .. n + 1
      /\ \A i \in 1 .. n : p[i] = selfPending[i]
      /\ p[n + 1] = tx
  BY Sent DEF SelfInv, SelfTypes
<1>2. \A k \in 0 .. n : \A q, call :
        Among(selfPending, k, q, call) => Among(p, k, q, call) /\ Among(p, k + 1, q, call)
  BY <1>1, AmongSent
<1>3. Among(p, n + 1, r, tx.call)
  BY <1>1, AmongSent
<1> HIDE DEF p, n
<1>4. SelfTypes' /\ Self!EtherAccounted' /\ Self!SetupPrecedesTask'
  BY <1>1 DEF SelfInv, SelfTypes, selfChain, Self!EtherAccounted, Self!SetupPrecedesTask, p
<1>5. ASSUME NEW q \in Runs \ lost
      PROVE  RunSetUp(selfRuns'[q].pc, p, q, module, executor)
  <2>1. CASE q = r
    BY <1>1, <1>2, <1>3, <1>5, <2>1 DEF RunSetUp, n
  <2>2. CASE q # r
    <3>1. RunSetUp(selfRuns[q].pc, selfPending, q, module, executor) /\ selfRuns'[q] = selfRuns[q]
      BY <1>5, <2>2 DEF SelfInv
    <3> QED
      BY <1>1, <1>2, <3>1 DEF RunSetUp, n
  <2> QED
    BY <2>1, <2>2
<1>6. ASSUME NEW i \in DOMAIN p, p[i].call \notin Self!Setup, p[i].run \notin lost
      PROVE  SetUp(p, i - 1, p[i].run, module, executor)
  <2>1. CASE i = n + 1
    <3>1. p[i] = tx /\ i - 1 = n /\ selfRuns[r].pc = "submit"
      BY <1>1, <1>6, <2>1
    <3>2. RunSetUp("submit", selfPending, r, module, executor)
      BY <1>6, <3>1 DEF SelfInv
    <3> QED
      BY <1>1, <1>2, <3>1, <3>2 DEF SetUp, RunSetUp, n
  <2>2. CASE i \in 1 .. n
    <3>1. p[i] = selfPending[i] /\ i - 1 \in 0 .. n /\ i \in DOMAIN selfPending
      BY <1>1, <2>2
    <3>2. SetUp(selfPending, i - 1, p[i].run, module, executor)
      BY <1>6, <3>1 DEF SelfInv, SubmissionsSetUp
    <3> QED
      BY <1>2, <3>1, <3>2 DEF SetUp
  <2> QED
    BY <1>1, <2>1, <2>2
<1>7. SubmissionsSetUp(p, lost, module, executor)
  BY <1>6 DEF SubmissionsSetUp
<1>8. selfPending' = p /\ UNCHANGED <<lost, module, executor>>
  BY DEF p, selfChain
<1> QED
  BY <1>4, <1>5, <1>7, <1>8 DEF SelfInv

LEMMA SelfSteps ==
  ASSUME Self!SelfProviderAssumption, SelfInv, NEW r \in Runs,
         Self!Start(r) \/ Self!Step(r) \/ Self!Reject(r), UNCHANGED Self!chain
  PROVE  SelfInv'
<1>1. UNCHANGED selfChain
  BY DEF Self!chain, Self!ether, selfChain
<1>2. /\ selfRuns \in [Runs -> SelfRun] /\ selfRuns[r] \in SelfRun
      /\ funds \in Nat /\ Self!RequiredBalance(price) \in Nat /\ proxyDeployed \in BOOLEAN
  <2>1. /\ selfRuns \in [Runs -> SelfRun] /\ funds \in Nat /\ proxyDeployed \in BOOLEAN
        /\ price \in Prices
    BY DEF SelfInv, SelfTypes
  <2>2. Gas \in Nat /\ price \in Nat
    BY <2>1 DEF Self!SelfProviderAssumption
  <2>3. Gas * price \in Nat
    BY <2>2
  <2> QED
    BY <2>1, <2>3 DEF Self!RequiredBalance
<1>3. r \notin lost => RunSetUp(selfRuns[r].pc, selfPending, r, module, executor)
  BY DEF SelfInv
<1>4. \A q : Len(selfPending) \in 0 .. Len(selfPending)
  BY DEF SelfInv, SelfTypes
<1>5. ASSUME Self!Start(r) \/ Self!ReadFunds(r) \/ Self!CheckDeployed(r) \/ Self!Reject(r)
      PROVE  SelfInv'
  <2> DEFINE From(a, b) == selfRuns[r].pc = a /\ selfRuns'[r].pc = b
             Others == /\ selfRuns' \in [Runs -> SelfRun]
                       /\ \A q \in Runs \ {r} : selfRuns'[q] = selfRuns[q]
                       /\ UNCHANGED selfPending
  <2>1. Self!Start(r) => Others /\ From("idle", "module")
    BY <1>2 DEF Self!Start, Self!Goto, SelfRun
  <2>2. ASSUME Self!ReadFunds(r) PROVE Others /\ From("funds", "topUp")
    <3>1. selfRuns' = [selfRuns EXCEPT ![r] = [selfRuns[r] EXCEPT !.pc = "topUp", !.funds = funds]]
      BY <1>2, <2>2 DEF Self!ReadFunds
    <3>2. [selfRuns[r] EXCEPT !.pc = "topUp", !.funds = funds] \in SelfRun
      BY <1>2 DEF SelfRun
    <3> QED
      BY <1>2, <2>2, <3>1, <3>2 DEF Self!ReadFunds, SelfRun
  <2>3. ASSUME Self!CheckDeployed(r) PROVE Others /\ From("check", "submit")
    <3>1. selfRuns' = [selfRuns EXCEPT ![r] = [selfRuns[r] EXCEPT !.pc = "submit", !.isDeployed = proxyDeployed]]
      BY <1>2, <2>3 DEF Self!CheckDeployed
    <3>2. [selfRuns[r] EXCEPT !.pc = "submit", !.isDeployed = proxyDeployed] \in SelfRun
      BY <1>2 DEF SelfRun
    <3> QED
      BY <1>2, <2>3, <3>1, <3>2 DEF Self!CheckDeployed, SelfRun
  <2>4. Self!Reject(r) => Others /\ selfRuns'[r].pc = "error"
    BY <1>2 DEF Self!Reject, Self!Goto, SelfRun
  <2> QED
    BY <1>1, <1>3, <1>5, <2>1, <2>2, <2>3, <2>4, SelfGoesOn DEF RunSetUp
<1>6. ASSUME Self!AddModule(r) PROVE SelfInv'
  <2> DEFINE tx == Self!Tx(r, "addModule", 0)
  <2>1. /\ selfRuns' \in [Runs -> SelfRun] /\ \A q \in Runs \ {r} : selfRuns'[q] = selfRuns[q]
        /\ selfRuns'[r].pc = "funds"
        /\ (module /\ UNCHANGED selfPending) \/ selfPending' = Append(selfPending, tx)
    BY <1>2, <1>6 DEF Self!AddModule, Self!Goto, Self!Send, SelfRun
  <2>2. tx \in SelfTx /\ tx.run = r /\ tx.call = "addModule" /\ tx.call \in Self!Setup
    BY DEF Self!Tx, SelfTx, Self!Setup
  <2> QED
    BY <1>1, <2>1, <2>2, SelfGoesOn, SelfSends DEF RunSetUp
<1>7. ASSUME Self!TopUp(r) PROVE SelfInv'
  <2> DEFINE tx == Self!Tx(r, "provideFunds", Self!RequiredBalance(price))
  <2>1. /\ selfRuns' \in [Runs -> SelfRun] /\ \A q \in Runs \ {r} : selfRuns'[q] = selfRuns[q]
        /\ selfRuns[r].pc = "topUp" /\ selfRuns'[r].pc = "executor"
        /\ UNCHANGED selfPending \/ selfPending' = Append(selfPending, tx)
    BY <1>2, <1>7 DEF Self!TopUp, Self!Send, SelfRun
  <2>2. tx \in SelfTx /\ tx.run = r /\ tx.call \in Self!Setup
    BY <1>2 DEF Self!Tx, SelfTx, Self!Setup
  <2> HIDE DEF tx
  <2> QED
    BY <1>1, <1>3, <2>1, <2>2, SelfGoesOn, SelfSends DEF RunSetUp
<1>8. ASSUME Self!AssignExecutor(r) PROVE SelfInv'
  <2> DEFINE tx == Self!Tx(r, "assignExecutor", selfRuns[r].required)
  <2>1. /\ selfRuns' \in [Runs -> SelfRun] /\ \A q \in Runs \ {r} : selfRuns'[q] = selfRuns[q]
        /\ selfRuns[r].pc = "executor" /\ selfRuns'[r].pc = "check"
        /\ (executor /\ UNCHANGED selfPending) \/ selfPending' = Append(selfPending, tx)
    BY <1>2, <1>8 DEF Self!AssignExecutor, Self!Goto, Self!Send, SelfRun
  <2>2. tx \in SelfTx /\ tx.run = r /\ tx.call = "assignExecutor" /\ tx.call \in Self!Setup
    BY <1>2 DEF Self!Tx, SelfTx, Self!Setup, SelfRun
  <2> HIDE DEF tx
  <2> QED
    BY <1>1, <1>3, <2>1, <2>2, SelfGoesOn, SelfSends DEF RunSetUp
<1>9. ASSUME Self!Submit(r) PROVE SelfInv'
  <2> DEFINE tx == Self!Tx(r, IF selfRuns[r].isDeployed THEN "submit" ELSE "createTwo", 0)
  <2>1. /\ selfRuns' \in [Runs -> SelfRun] /\ \A q \in Runs \ {r} : selfRuns'[q] = selfRuns[q]
        /\ selfRuns[r].pc = "submit" /\ selfRuns'[r].pc = "wait"
        /\ selfPending' = Append(selfPending, tx)
    BY <1>2, <1>9 DEF Self!Submit, Self!Goto, Self!Send, SelfRun
  <2>2. tx \in SelfTx /\ tx.run = r
    BY DEF Self!Tx, SelfTx
  <2> HIDE DEF tx
  <2> QED
    BY <1>1, <2>1, <2>2, SelfSends DEF RunSetUp
<1> QED
  BY <1>5, <1>6, <1>7, <1>8, <1>9 DEF Self!Step

LEMMA SelfSettles ==
  ASSUME SelfTypes, NEW r \in Runs, NEW pc \in {"wait", "done", "error"}, Self!Settle(r, pc)
  PROVE  /\ selfRuns' \in [Runs -> SelfRun]
         /\ \A q \in Runs : selfRuns'[q].pc \in {selfRuns[q].pc, "wait", "done", "error"}
<1>1. selfRuns \in [Runs -> SelfRun]
  BY DEF SelfTypes
<1>2. CASE selfRuns' = selfRuns
  BY <1>1, <1>2
<1>3. CASE selfRuns' = [selfRuns EXCEPT ![r].pc = pc]
  BY <1>1, <1>3 DEF SelfRun
<1> QED
  BY <1>2, <1>3 DEF Self!Settle

\* What is mined has taken effect, unless the run is among the lost: so what was
\* sent before the rest is now there.
LEMMA SelfMined ==
  ASSUME SelfInv, selfPending # <<>>, selfPending' = Tail(selfPending),
         module => module', executor => executor', lost \subseteq lost',
         \A r \in Runs : selfRuns'[r].pc \in {selfRuns[r].pc, "wait", "done", "error"},
         Head(selfPending).run \notin lost' =>
           /\ Head(selfPending).call = "addModule" => module'
           /\ Head(selfPending).call = "assignExecutor" => executor'
  PROVE  /\ \A r \in Runs \ lost' :
              RunSetUp(selfRuns'[r].pc, selfPending', r, module', executor')
         /\ SubmissionsSetUp(selfPending', lost', module', executor')
<1> DEFINE p == selfPending
           t == Tail(selfPending)
           n == Len(selfPending)
<1>1. /\ p \in Seq(SelfTx) /\ t \in Seq(SelfTx) /\ Len(t) = n - 1 /\ n \in Nat /\ n > 0
      /\ DOMAIN p = 1 .. n /\ DOMAIN t = 1 .. n - 1 /\ n \in 0 .. n
      /\ \A i \in 1 .. n - 1 : t[i] = p[i + 1]
  BY Taken DEF SelfInv, SelfTypes
<1>2. ASSUME NEW k \in 0 .. n, NEW r, r \notin lost'
      PROVE  /\ (module \/ Among(p, k, r, "addModule"))
                  => module' \/ (k # 0 /\ Among(t, k - 1, r, "addModule"))
             /\ (executor \/ Among(p, k, r, "assignExecutor"))
                  => executor' \/ (k # 0 /\ Among(t, k - 1, r, "assignExecutor"))
  BY <1>1, <1>2, AmongTaken
<1>3. ASSUME NEW r \in Runs \ lost' PROVE RunSetUp(selfRuns'[r].pc, t, r, module', executor')
  <2>1. RunSetUp(selfRuns[r].pc, p, r, module, executor)
    BY <1>3 DEF SelfInv
  <2>2. selfRuns'[r].pc \in {selfRuns[r].pc, "wait", "done", "error"}
    OBVIOUS
  <2> HIDE DEF p, t
  <2> QED
    BY <1>1, <1>2, <2>1, <2>2 DEF RunSetUp, n
<1>4. ASSUME NEW i \in DOMAIN t, t[i].call \notin Self!Setup, t[i].run \notin lost'
      PROVE  SetUp(t, i - 1, t[i].run, module', executor')
  <2>1. /\ i + 1 \in DOMAIN p /\ t[i] = p[i + 1] /\ (i + 1) - 1 = i /\ i \in 0 .. n
        /\ i \in 1 .. n - 1
    BY <1>1
  <2>2. SetUp(p, i, t[i].run, module, executor)
    BY <1>4, <2>1 DEF SelfInv, SubmissionsSetUp
  <2> HIDE DEF p, t
  <2> QED
    BY <1>2, <1>4, <2>1, <2>2 DEF SetUp
<1> QED
  BY <1>3, <1>4 DEF SubmissionsSetUp

LEMMA SelfMine == ASSUME Self!SelfProviderAssumption, SelfInv, Self!Mine PROVE SelfInv'
<1> DEFINE tx == Head(selfPending)
<1>1. /\ selfPending # <<>> /\ selfPending' = Tail(selfPending) /\ selfPending' \in Seq(SelfTx)
      /\ tx \in SelfTx /\ tx.run \in Runs /\ tx.value \in Nat
      /\ DOMAIN selfPending = 1 .. Len(selfPending) /\ 1 \in DOMAIN selfPending
      /\ selfPending[1] = tx
  <2>1. selfPending # <<>> /\ selfPending' = Tail(selfPending) /\ selfPending \in Seq(SelfTx)
    BY DEF Self!Mine, SelfInv, SelfTypes
  <2>2. tx \in SelfTx /\ selfPending' \in Seq(SelfTx) /\ selfPending[1] = tx
        /\ DOMAIN selfPending = 1 .. Len(selfPending) /\ 1 \in DOMAIN selfPending
    BY <2>1, Taken
  <2> QED
    BY <2>1, <2>2 DEF SelfTx
<1>2. tx.call \notin Self!Setup /\ tx.run \notin lost => module /\ executor
  <2>1. ~ Among(selfPending, 1 - 1, tx.run, "addModule")
        /\ ~ Among(selfPending, 1 - 1, tx.run, "assignExecutor")
    BY DEF Among
  <2> QED
    BY <1>1, <2>1 DEF SelfInv, SubmissionsSetUp, SetUp
<1> HIDE DEF tx
<1>3. /\ Cycles \in Nat /\ {proxyDeployed, module, executor} \subseteq BOOLEAN
      /\ proxyBalance \in Nat /\ funds \in Nat /\ paid \in Nat /\ charged \in Nat
      /\ left \in [Runs -> 0 .. Cycles] /\ lost \subseteq Runs /\ price \in Prices
      /\ paid = proxyBalance + funds + charged
      /\ \A r \in Runs \ lost : left[r] > 0 => module /\ executor
  BY DEF SelfInv, SelfTypes, Self!SelfProviderAssumption, Self!EtherAccounted,
         Self!SetupPrecedesTask
<1>4. CASE /\ Self!Possible(tx) /\ Self!Effect(tx)
           /\ Self!Settle(tx.run, IF tx.call \in Self!Setup THEN "wait" ELSE "done")
           /\ UNCHANGED <<price, charged>>
  <2>1. /\ selfRuns' \in [Runs -> SelfRun]
        /\ \A q \in Runs : selfRuns'[q].pc \in {selfRuns[q].pc, "wait", "done", "error"}
    BY <1>1, <1>4, SelfSettles DEF SelfInv
  <2>2. /\ {proxyDeployed', module', executor'} \subseteq BOOLEAN
        /\ module => module'
        /\ executor => executor'
        /\ proxyDeployed /\ tx.call = "addModule" => module'
        /\ proxyDeployed /\ tx.call = "assignExecutor" => executor'
    BY <1>3, <1>4 DEF Self!Effect
  <2>3. /\ lost \subseteq lost' /\ lost' \subseteq Runs
        /\ tx.call \in Self!Setup /\ ~ proxyDeployed => tx.run \in lost'
    BY <1>1, <1>3, <1>4 DEF Self!Effect
  <2>4. /\ paid' \in Nat /\ funds' \in Nat /\ proxyBalance' \in Nat /\ charged' \in Nat
        /\ paid' = proxyBalance' + funds' + charged'
    <3>1. /\ paid' = paid + tx.value /\ charged' = charged
          /\ \/ funds' = funds + tx.value /\ proxyBalance' = proxyBalance
             \/ proxyBalance' = proxyBalance + tx.value /\ funds' = funds
      BY <1>4 DEF Self!Effect
    <3>2. /\ tx.value \in Nat /\ proxyBalance \in Nat /\ funds \in Nat /\ paid \in Nat
          /\ charged \in Nat /\ paid = proxyBalance + funds + charged
      BY <1>1, <1>3
    <3> QED
      BY ONLY <3>1, <3>2
  <2>5. /\ left' \in [Runs -> 0 .. Cycles]
        /\ \A r \in Runs : left'[r] = left[r] \/ (r = tx.run /\ tx.call \notin Self!Setup)
    <3>1. \/ left' = left
          \/ tx.call \notin Self!Setup /\ left' = [left EXCEPT ![tx.run] = Cycles]
      BY <1>4 DEF Self!Effect
    <3> QED
      BY SMTT(40), <1>1, <1>3, <3>1
  <2>6. \A r \in Runs \ lost' : left'[r] > 0 => module' /\ executor'
    BY <1>2, <1>3, <2>2, <2>3, <2>5
  <2>7. SelfTypes'
    BY <1>1, <1>3, <1>4, <2>1, <2>2, <2>3, <2>4, <2>5 DEF SelfTypes
  <2>8. tx.run \notin lost' => /\ tx.call = "addModule" => module'
                               /\ tx.call = "assignExecutor" => executor'
    BY <1>3, <2>2, <2>3 DEF Self!Setup
  <2>9. /\ \A r \in Runs \ lost' :
             RunSetUp(selfRuns'[r].pc, selfPending', r, module', executor')
        /\ SubmissionsSetUp(selfPending', lost', module', executor')
    BY <1>1, <2>1, <2>2, <2>3, <2>8, SelfMined DEF tx
  <2> QED
    BY <2>4, <2>6, <2>7, <2>9 DEF SelfInv, Self!EtherAccounted, Self!SetupPrecedesTask
<1>5. CASE /\ lost' = IF Self!Redundant(tx) THEN lost ELSE lost \cup {tx.run}
           /\ Self!Settle(tx.run, IF tx.call \in Self!Setup THEN "wait" ELSE "error")
           /\ UNCHANGED <<price, proxyDeployed, Self!ether, module, executor, left>>
  <2>1. /\ selfRuns' \in [Runs -> SelfRun]
        /\ \A q \in Runs : selfRuns'[q].pc \in {selfRuns[q].pc, "wait", "done", "error"}
    BY <1>1, <1>5, SelfSettles DEF SelfInv
  <2>2. /\ lost \subseteq lost' /\ lost' \subseteq Runs
        /\ tx.run \notin lost' => Self!Redundant(tx)
    BY <1>1, <1>3, <1>5
  <2>3. UNCHANGED <<price, proxyDeployed, proxyBalance, funds, paid, charged, module, executor, left>>
    BY <1>5 DEF Self!ether
  <2>4. tx.run \notin lost' => /\ tx.call = "addModule" => module'
                               /\ tx.call = "assignExecutor" => executor'
    BY <2>2, <2>3 DEF Self!Redundant
  <2>5. SelfTypes'
    BY <1>1, <2>1, <2>2, <2>3 DEF SelfInv, SelfTypes
  <2>6. Self!EtherAccounted' /\ Self!SetupPrecedesTask'
    BY <1>3, <2>2, <2>3 DEF Self!EtherAccounted, Self!SetupPrecedesTask
  <2>7. /\ \A r \in Runs \ lost' :
             RunSetUp(selfRuns'[r].pc, selfPending', r, module', executor')
        /\ SubmissionsSetUp(selfPending', lost', module', executor')
    BY <1>1, <2>1, <2>2, <2>3, <2>4, SelfMined DEF tx
  <2> QED
    BY <2>5, <2>6, <2>7 DEF SelfInv
<1> QED
  BY <1>4, <1>5 DEF Self!Mine, tx

\* The cost of an execution is at most what the proxy owns on GelatoCore.
LEMMA SelfExec ==
  ASSUME Self!SelfProviderAssumption, SelfInv, NEW r \in Runs, Self!Exec(r)
  PROVE  SelfInv'
<1>1. /\ Cycles \in Nat /\ funds \in Nat /\ charged \in Nat /\ left \in [Runs -> 0 .. Cycles]
      /\ paid = proxyBalance + funds + charged /\ proxyBalance \in Nat
      /\ Self!RequiredBalance(price) \in Nat /\ Self!MinExecProviderFunds(price) \in Nat
  BY SMTT(40) DEF SelfInv, SelfTypes, Self!SelfProviderAssumption, Self!EtherAccounted,
         Self!RequiredBalance, Self!MinExecProviderFunds
<1>2. PICK cost \in Self!RequiredBalance(price) .. Self!MinExecProviderFunds(price) :
        funds' = funds - cost /\ charged' = charged + cost
  BY DEF Self!Exec
<1>3. /\ left[r] > 0 /\ module /\ executor /\ Self!MinExecProviderFunds(price) <= funds
      /\ left' = [left EXCEPT ![r] = @ - 1]
      /\ UNCHANGED <<selfRuns, selfPending, price, proxyDeployed, proxyBalance, paid, module,
                     executor, lost>>
  BY DEF Self!Exec, Self!Liquid
<1>4. funds' \in Nat /\ charged' \in Nat /\ paid' = proxyBalance' + funds' + charged'
  BY <1>1, <1>2, <1>3
<1>5. left' \in [Runs -> 0 .. Cycles]
  BY <1>1, <1>3
<1>6. SelfTypes'
  BY <1>3, <1>4, <1>5 DEF SelfInv, SelfTypes
<1> QED
  BY <1>3, <1>4, <1>6
  DEF SelfInv, Self!EtherAccounted, Self!SetupPrecedesTask, RunSetUp, SubmissionsSetUp, SetUp, Among

LEMMA SelfStep ==
  ASSUME Self!SelfProviderAssumption, SelfInv, [Self!Next]_Self!vars
  PROVE  SelfInv'
<1>1. ASSUME UNCHANGED <<selfRuns, selfPending, proxyDeployed, proxyBalance, funds, module,
                         executor, left, paid, charged, lost>>,
             price' \in Prices
      PROVE  SelfInv'
  <2>1. SelfTypes'
    BY <1>1 DEF SelfInv, SelfTypes
  <2>2. Self!EtherAccounted' /\ Self!SetupPrecedesTask'
    BY <1>1 DEF SelfInv, Self!EtherAccounted, Self!SetupPrecedesTask
  <2>3. \A r \in Runs \ lost' : RunSetUp(selfRuns'[r].pc, selfPending', r, module', executor')
    BY <1>1 DEF SelfInv
  <2>4. SubmissionsSetUp(selfPending', lost', module', executor')
    BY <1>1 DEF SelfInv
  <2> QED
    BY <2>1, <2>2, <2>3, <2>4 DEF SelfInv
<1>2. ASSUME NEW p \in Prices, Self!PriceChanges(p) PROVE SelfInv'
  BY <1>1, <1>2 DEF Self!PriceChanges, Self!ether
<1>3. CASE UNCHANGED Self!vars
  BY <1>1, <1>3 DEF Self!vars, Self!chain, Self!ether, SelfInv, SelfTypes
<1> QED
  BY <1>2, <1>3, SelfSteps, SelfMine, SelfExec DEF Self!Next

-----------------------------------------------------------------------------
(* The scripts for a Gnosis Safe, run for the account that signs.           *)

Unsent == {"idle", "approve", "core", "safe", "modules", "provided", "send"}
Unread == {"idle", "approve", "core", "safe", "modules"}

SafeRun == [pc : Pcs, kind : Kinds \cup {"withdraw"}, user : Signers,
            safeDeployed : BOOLEAN, whitelisted : BOOLEAN, cause : Causes]

SafeFor(c) == CpkAddress(c.user, Salt(c.kind))

\* What run r, of process c, has sent (q) and submitted (T), and what it knows
\* of the safes with GelatoCore as a module (M).
ProcessOK(c, r, q, T, M) ==
  /\ c.user = FirstSigner
  /\ c.pc \in {"idle", "approve"} => \A i \in DOMAIN q : q[i].run # r
  /\ c.pc \in Unsent => /\ \A i \in DOMAIN q : q[i].run = r => q[i].call = "approve"
                        /\ \A t \in T : t.run # r
  /\ c.pc \in Unread => ~ c.whitelisted
  /\ c.whitelisted => c.safeDeployed /\ SafeFor(c) \in M

\* A batch that is sent has the call that enables GelatoCore, unless it is enabled.
BatchOK(tx, c, M) ==
  tx.call # "approve" =>
    /\ c.pc \notin Unsent
    /\ \E w \in BOOLEAN : tx.batch = Batch(c.kind, w) /\ (w => tx.safe \in M)
    /\ c.kind # "withdraw" => tx.safe = SafeFor(c)

SentOK(q, P, M) == \A i \in DOMAIN q : BatchOK(q[i], P[q[i].run], M)

\* The submission of a run is the last it sends, and gone before its task is there.
LastOK(q, T) ==
  /\ \A i, j \in DOMAIN q : i < j /\ q[i].run = q[j].run => q[i].call = "approve"
  /\ \A t \in T : \A i \in DOMAIN q : q[i].run # t.run

TimeTrades(u, T, P) == {t \in T : P[t.run].kind = "timeTrade" /\ t.safe.owner = u}
PaidFor(u, T, P, b) == Balance - b[u] = SellAmount * Cardinality(TimeTrades(u, T, P))

SafeInv ==
  /\ TypeOK /\ IsFiniteSet(tasks)
  /\ \A s \in Signers \ {FirstSigner} : queue[s] = <<>>
  /\ \A r \in Runs : ProcessOK(runs[r], r, queue[FirstSigner], tasks, modules)
  /\ SentOK(queue[FirstSigner], runs, modules)
  /\ LastOK(queue[FirstSigner], tasks)
  /\ \A t \in tasks : t.safe \in modules
  /\ \A u \in Signers : PaidFor(u, tasks, runs, balance)

\* What is among the calls of a batch.
LEMMA CallsOfOne ==
  ASSUME NEW T, NEW a \in T
  PROVE  <<a>> \in Seq(T) /\ \A c : In(c, <<a>>) <=> c = a
<1>1. DOMAIN <<a>> = {1} /\ <<a>>[1] = a
  OBVIOUS
<1> QED
  BY <1>1 DEF In

LEMMA CallsOfTwo ==
  ASSUME NEW T, NEW a \in T, NEW b \in T
  PROVE  <<a, b>> \in Seq(T) /\ \A c : In(c, <<a, b>>) <=> c \in {a, b}
<1>1. DOMAIN <<a, b>> = {1, 2} /\ <<a, b>>[1] = a /\ <<a, b>>[2] = b
  OBVIOUS
<1> QED
  BY <1>1 DEF In

LEMMA CallsBefore ==
  ASSUME NEW T, NEW a \in T, NEW s \in Seq(T)
  PROVE  <<a>> \o s \in Seq(T) /\ \A c : In(c, <<a>> \o s) <=> c = a \/ In(c, s)
<1> DEFINE p == <<a>> \o s
<1>1. p \in Seq(T)
  OBVIOUS
<1>2. Len(s) \in Nat /\ DOMAIN s = 1 .. Len(s) /\ DOMAIN p = 1 .. Len(s) + 1
  OBVIOUS
<1>3. p[1] = a /\ \A i \in 1 .. Len(s) : p[i + 1] = s[i]
  OBVIOUS
<1> HIDE DEF p
<1>4. ASSUME NEW i \in DOMAIN p, i # 1 PROVE \E j \in DOMAIN s : p[i] = s[j]
  <2>1. i - 1 \in 1 .. Len(s) /\ (i - 1) + 1 = i
    BY <1>2, <1>4
  <2> QED
    BY <1>2, <1>3, <2>1
<1>5. \A i \in DOMAIN s : i + 1 \in DOMAIN p /\ p[i + 1] = s[i] /\ 1 \in DOMAIN p
  BY <1>2, <1>3
<1>6. 1 \in DOMAIN p
  BY <1>2
<1>7. \A c : In(c, p) <=> c = a \/ In(c, s)
  BY <1>3, <1>4, <1>5, <1>6 DEF In
<1> QED
  BY <1>1, <1>7 DEF p

LEMMA CallsAlone == ASSUME NEW T, NEW s \in Seq(T) PROVE <<>> \o s = s
  OBVIOUS

\* The calls of a batch, by the script it is made by.
LEMMA Batches ==
  ASSUME NEW kind \in Kinds \cup {"withdraw"}, NEW w \in BOOLEAN
  PROVE  /\ Batch(kind, w) \in Seq(Calls)
         /\ In("placeOrder", Batch(kind, w)) <=> kind = "timeTrade"
         /\ In("submitTask", Batch(kind, w)) <=> kind # "withdraw"
         /\ In("enableModule", Batch(kind, w)) <=> kind # "withdraw" /\ ~ w
<1> DEFINE Own == CASE kind = "timeTrade"    -> TimeTradeBatch
                    [] kind = "balanceTrade" -> BalanceTradeBatch
                    [] OTHER                 -> KyberPriceTradeBatch
           whole == Batch(kind, w)
<1>1. /\ "withdraw" \in Calls /\ "placeOrder" \in Calls /\ "submitTask" \in Calls
      /\ "setRefBalance" \in Calls /\ "enableModule" \in Calls
  BY DEF Calls
<1>2. CASE kind = "withdraw"
  <2>1. whole = <<"withdraw">>
    BY <1>2 DEF Batch, WithdrawBatch
  <2> HIDE DEF whole
  <2>2. whole \in Seq(Calls) /\ \A c : In(c, whole) <=> c = "withdraw"
    BY <1>1, <2>1, CallsOfOne
  <2> QED
    BY <1>2, <2>2 DEF whole
<1>3. CASE kind # "withdraw"
  <2>1. whole = (IF w THEN <<>> ELSE <<"enableModule">>) \o Own
    BY <1>3 DEF Batch
  <2> HIDE DEF whole
  <2>2. /\ Own \in Seq(Calls)
        /\ \A c : In(c, Own) <=>
             \/ c = "submitTask"
             \/ kind = "timeTrade" /\ c = "placeOrder"
             \/ kind = "balanceTrade" /\ c = "setRefBalance"
    <3>1. CASE kind = "timeTrade"
      <4>1. Own = <<"placeOrder", "submitTask">>
        BY <3>1 DEF TimeTradeBatch
      <4> HIDE DEF Own
      <4>2. Own \in Seq(Calls) /\ \A c : In(c, Own) <=> c \in {"placeOrder", "submitTask"}
        BY <1>1, <4>1, CallsOfTwo
      <4> QED
        BY <3>1, <4>2
    <3>2. CASE kind = "balanceTrade"
      <4>1. Own = <<"setRefBalance", "submitTask">>
        BY <3>2 DEF BalanceTradeBatch
      <4> HIDE DEF Own
      <4>2. Own \in Seq(Calls) /\ \A c : In(c, Own) <=> c \in {"setRefBalance", "submitTask"}
        BY <1>1, <4>1, CallsOfTwo
      <4> QED
        BY <3>2, <4>2
    <3>3. CASE kind # "timeTrade" /\ kind # "balanceTrade"
      <4>1. Own = <<"submitTask">>
        BY <3>3 DEF KyberPriceTradeBatch
      <4> HIDE DEF Own
      <4>2. Own \in Seq(Calls) /\ \A c : In(c, Own) <=> c = "submitTask"
        BY <1>1, <4>1, CallsOfOne
      <4> QED
        BY <3>3, <4>2
    <3> QED
      BY <3>1, <3>2, <3>3
  <2> HIDE DEF Own
  <2>3. CASE w
    <3>1. whole = Own
      BY <2>1, <2>2, <2>3, CallsAlone
    <3>2. /\ whole \in Seq(Calls)
          /\ In("placeOrder", whole) <=> kind = "timeTrade"
          /\ In("submitTask", whole)
          /\ ~ In("enableModule", whole)
      BY <2>2, <3>1
    <3> QED
      BY <1>3, <2>3, <3>2 DEF whole
  <2>4. CASE ~ w
    <3>1. whole = <<"enableModule">> \o Own
      BY <2>1, <2>4
    <3>2. whole \in Seq(Calls) /\ \A c : In(c, whole) <=> c = "enableModule" \/ In(c, Own)
      BY <1>1, <2>2, <3>1, CallsBefore
    <3> QED
      BY <1>3, <2>2, <2>4, <3>2 DEF whole
  <2> QED
    BY <2>3, <2>4
<1> QED
  BY <1>2, <1>3

LEMMA SafeInit ==
  ASSUME SafeClientsAssumption, Users \subseteq {FirstSigner}, Init
  PROVE  SafeInv
<1>1. /\ FirstSigner \in Signers /\ Balance \in Nat /\ SellAmount \in Nat
      /\ runs = [r \in Runs |-> Idle] /\ queue = [s \in Signers |-> <<>>] /\ tasks = {}
      /\ allowance = [a \in Safes |-> 0] /\ balance = [s \in Signers |-> Balance]
      /\ provided = UNION {Specs(kind) : kind \in Kinds} /\ modules \subseteq deployed
  BY DEF SafeClientsAssumption, Init
<1>2. deployed \subseteq Safes
  BY DEF SafeClientsAssumption, Init, Safes, CpkAddress
<1>3. Idle \in SafeRun
  BY <1>1 DEF Idle, SafeRun, Pcs, Causes
<1>4. TypeOK
  <2>1. runs \in [Runs -> SafeRun]
    BY <1>1, <1>3
  <2>2. queue \in [Signers -> Seq(Txs)] /\ balance \in [Signers -> Nat]
    BY <1>1
  <2>3. allowance \in [Safes -> Nat]
    BY <1>1
  <2> QED
    BY <1>1, <1>2, <2>1, <2>2, <2>3 DEF TypeOK, SafeRun
<1>5. \A u \in Signers : PaidFor(u, tasks, runs, balance)
  <2>1. \A u : TimeTrades(u, tasks, runs) = {}
    BY <1>1 DEF TimeTrades
  <2>2. Cardinality({}) = 0 /\ SellAmount * 0 = 0
    BY <1>1, FS_EmptySet
  <2>3. \A u \in Signers : balance[u] = Balance /\ Balance - Balance = 0
    BY <1>1
  <2> QED
    BY <2>1, <2>2, <2>3 DEF PaidFor
<1>6. IsFiniteSet(tasks)
  BY <1>1, FS_EmptySet
<1>7. /\ \A s \in Signers : queue[s] = <<>>
      /\ \A r \in Runs : runs[r] = Idle
  BY <1>1
<1>8. \A r \in Runs : ProcessOK(runs[r], r, queue[FirstSigner], tasks, modules)
  BY <1>1, <1>7 DEF ProcessOK, Idle
<1>9. DOMAIN queue[FirstSigner] = {}
  BY <1>1, <1>7
<1> QED
  BY <1>1, <1>4, <1>5, <1>6, <1>7, <1>8, <1>9 DEF SafeInv, LastOK, SentOK

\* A run goes on without sending anything.
LEMMA SafeGoesOn ==
  ASSUME FirstSigner \in Signers, SafeInv, UNCHANGED <<queue, chain>>, NEW r \in Runs, NEW c \in SafeRun,
         runs' = [runs EXCEPT ![r] = c],
         ProcessOK(c, r, queue[FirstSigner], tasks, modules),
         c.pc \in Unsent => runs[r].pc \in Unsent,
         runs[r].pc = "idle" \/ (c.kind = runs[r].kind /\ c.user = runs[r].user)
  PROVE  SafeInv'
<1>1. /\ runs' \in [Runs -> SafeRun] /\ runs'[r] = c /\ \A q \in Runs \ {r} : runs'[q] = runs[q]
      /\ UNCHANGED <<deployed, modules, allowance, balance, tasks, provided>>
      /\ tasks \subseteq [run : Runs, safe : Safes] /\ queue[FirstSigner] \in Seq(Txs)
  BY DEF SafeInv, TypeOK, SafeRun, chain
<1>2. TypeOK'
  BY <1>1 DEF SafeInv, TypeOK, SafeRun
<1>3. SentOK(queue[FirstSigner], runs', modules)
  <2> DEFINE q == queue[FirstSigner]
  <2>1. q \in Seq(Txs) /\ SentOK(q, runs, modules)
    BY <1>1 DEF SafeInv
  <2> HIDE DEF q
  <2>2. ASSUME NEW i \in DOMAIN q PROVE BatchOK(q[i], runs'[q[i].run], modules)
    <3>1. q[i] \in Txs /\ BatchOK(q[i], runs[q[i].run], modules)
      BY <2>1, <2>2 DEF SentOK
    <3>2. CASE q[i].run = r
      BY <1>1, <3>1, <3>2 DEF BatchOK, SafeFor, Unsent
    <3>3. CASE q[i].run # r
      BY <1>1, <3>1, <3>3 DEF Txs
    <3> QED
      BY <3>2, <3>3
  <2> QED
    BY <2>2 DEF SentOK, q
<1>4. \A u \in Signers : PaidFor(u, tasks, runs', balance)
  <2>1. ASSUME NEW t \in tasks PROVE runs'[t.run].kind = runs[t.run].kind
    <3>1. t.run \in Runs /\ (t.run = r => runs[r].pc \notin Unsent)
      BY <1>1, <2>1 DEF SafeInv, ProcessOK
    <3> QED
      BY <1>1, <3>1 DEF Unsent
  <2>2. \A u : TimeTrades(u, tasks, runs') = TimeTrades(u, tasks, runs)
    BY <2>1 DEF TimeTrades
  <2> QED
    BY <2>2 DEF SafeInv, PaidFor
<1>5. \A q \in Runs : ProcessOK(runs'[q], q, queue[FirstSigner], tasks, modules)
  BY <1>1 DEF SafeInv
<1> QED
  BY <1>1, <1>2, <1>3, <1>4, <1>5 DEF SafeInv

\* A run sends its approval, or its submission.
LEMMA SafeSends ==
  ASSUME FirstSigner \in Signers, SafeInv, UNCHANGED chain, NEW r \in Runs, NEW c \in SafeRun, NEW tx \in Txs,
         runs' = [runs EXCEPT ![r] = c],
         queue' = [queue EXCEPT ![FirstSigner] = Append(@, tx)],
         tx.run = r, BatchOK(tx, c, modules),
         runs[r].pc \in Unsent, c.pc \notin {"idle", "approve"},
         c.pc \in Unsent => tx.call = "approve",
         c.pc \in Unread => ~ c.whitelisted,
         c.kind = runs[r].kind, c.user = runs[r].user,
         c.whitelisted => runs[r].whitelisted, c.safeDeployed = runs[r].safeDeployed
  PROVE  SafeInv'
<1> DEFINE q == queue[FirstSigner]
           p == Append(q, tx)
           n == Len(q)
<1>1. /\ runs \in [Runs -> SafeRun] /\ runs' \in [Runs -> SafeRun]
      /\ runs'[r] = c /\ \A o \in Runs \ {r} : runs'[o] = runs[o]
      /\ UNCHANGED <<deployed, modules, allowance, balance, tasks, provided>>
      /\ tasks \subseteq [run : Runs, safe : Safes]
  BY DEF SafeInv, TypeOK, SafeRun, chain
<1>2. q \in Seq(Txs)
  BY DEF SafeInv, TypeOK
<1>3. /\ p \in Seq(Txs) /\ n \in Nat /\ DOMAIN q = 1 .. n /\ DOMAIN p = 1 .. n + 1
      /\ \A i \in 1 .. n : p[i] = q[i] /\ q[i] \in Txs
      /\ p[n + 1] = tx
  BY <1>2, Sent
<1>4. queue' \in [Signers -> Seq(Txs)] /\ queue'[FirstSigner] = p
      /\ \A s \in Signers \ {FirstSigner} : queue'[s] = queue[s]
  BY <1>3 DEF SafeInv, TypeOK
<1>5. /\ runs[r].user = FirstSigner
      /\ \A i \in 1 .. n : q[i].run = r => q[i].call = "approve"
      /\ \A t \in tasks : t.run # r
      /\ runs[r].whitelisted => runs[r].safeDeployed /\ SafeFor(runs[r]) \in modules
  BY <1>3 DEF SafeInv, ProcessOK
<1>6. \A i \in 1 .. n : BatchOK(q[i], runs[q[i].run], modules)
  BY <1>3 DEF SafeInv, SentOK
<1>7. /\ \A i, j \in 1 .. n : i < j /\ q[i].run = q[j].run => q[i].call = "approve"
      /\ \A t \in tasks : \A i \in 1 .. n : q[i].run # t.run
  BY <1>3 DEF SafeInv, LastOK
<1>8. \A o \in Runs : ProcessOK(runs[o], o, q, tasks, modules)
  BY DEF SafeInv
<1> HIDE DEF q, p, n
<1>9. TypeOK'
  BY <1>1, <1>4 DEF SafeInv, TypeOK, SafeRun
<1>10. ASSUME NEW o \in Runs PROVE ProcessOK(runs'[o], o, p, tasks, modules)
  <2>1. CASE o = r
    BY <1>1, <1>3, <1>5, <2>1 DEF ProcessOK, SafeFor
  <2>2. CASE o # r
    <3>1. runs'[o] = runs[o] /\ \A i \in DOMAIN p : p[i].run = o => i \in DOMAIN q /\ p[i] = q[i]
      BY <1>1, <1>3, <2>2
    <3> QED
      BY <1>8, <3>1 DEF ProcessOK
  <2> QED
    BY <2>1, <2>2
<1>11. ASSUME NEW i \in DOMAIN p PROVE BatchOK(p[i], runs'[p[i].run], modules)
  <2>1. CASE i = n + 1
    BY <1>1, <1>3, <2>1
  <2>2. CASE i \in 1 .. n
    <3>1. p[i] = q[i] /\ q[i].run \in Runs /\ (q[i].run = r => q[i].call = "approve")
      BY <1>3, <1>5, <2>2 DEF Txs
    <3> QED
      BY <1>1, <1>6, <2>2, <3>1 DEF BatchOK
  <2> QED
    BY <1>3, <2>1, <2>2
<1>12. LastOK(p, tasks)
  <2>1. ASSUME NEW i \in 1 .. n + 1, NEW j \in 1 .. n + 1, i < j, p[i].run = p[j].run
        PROVE  p[i].call = "approve"
    <3>1. i \in 1 .. n /\ p[i] = q[i]
      BY <1>3, <2>1
    <3>2. CASE j = n + 1
      BY <1>3, <1>5, <2>1, <3>1, <3>2
    <3>3. CASE j \in 1 .. n
      BY <1>3, <1>7, <2>1, <3>1, <3>3
    <3> QED
      BY <1>3, <3>2, <3>3
  <2>2. ASSUME NEW t \in tasks, NEW i \in 1 .. n + 1 PROVE p[i].run # t.run
    BY <1>3, <1>5, <1>7
  <2> QED
    BY <1>3, <2>1, <2>2 DEF LastOK
<1>13. \A u \in Signers : PaidFor(u, tasks, runs', balance)
  <2>1. \A t \in tasks : runs'[t.run].kind = runs[t.run].kind
    BY <1>1, <1>5
  <2>2. \A u : TimeTrades(u, tasks, runs') = TimeTrades(u, tasks, runs)
    BY <2>1 DEF TimeTrades
  <2> QED
    BY <2>2 DEF SafeInv, PaidFor
<1>14. \A s \in Signers \ {FirstSigner} : queue'[s] = <<>>
  BY <1>4 DEF SafeInv
<1>15. SentOK(p, runs', modules)
  BY <1>11 DEF SentOK
<1>16. IsFiniteSet(tasks) /\ \A t \in tasks : t.safe \in modules
  BY DEF SafeInv
<1> QED
  BY ONLY <1>1, <1>4, <1>9, <1>10, <1>12, <1>13, <1>14, <1>15, <1>16 DEF SafeInv

\* The runs' steps; nothing is sent but an approval and what the script ends in.
LEMMA SafeSteps ==
  ASSUME SafeClientsAssumption, Users \subseteq {FirstSigner}, SafeInv, NEW r \in Runs,
         \/ \E kind \in Kinds, user \in Users : Start(r, kind, user)
         \/ Step(r) \/ Reject(r) \/ CaughtReject(r)
  PROVE  SafeInv'
<1> DEFINE a == runs[r]
<1>1. /\ FirstSigner \in Signers /\ SellAmount \in Nat /\ Frequency \in Nat
      /\ SellAmount * Frequency \in Nat
  BY DEF SafeClientsAssumption
<1>2. runs \in [Runs -> SafeRun] /\ a \in SafeRun
  BY DEF SafeInv, TypeOK, SafeRun
<1>3. ProcessOK(a, r, queue[FirstSigner], tasks, modules)
  BY DEF SafeInv
<1>4. SafeOf(r) = SafeFor(a) /\ SafeOf(r) \in Safes
  BY <1>2 DEF SafeOf, SafeFor, Safes, CpkAddress, Salt, SafeRun
<1>5. UNCHANGED chain
  BY DEF Start, Step, Reject, CaughtReject, Approve, InstantiateCore, CheckSafe, ReadModules,
         CheckIfProvided, ExecTransaction, CreateOnCpk
<1>6. ASSUME NEW kind \in Kinds, NEW user \in Users, Start(r, kind, user) PROVE SafeInv'
  <2> DEFINE c == [a EXCEPT !.kind = kind, !.user = user,
                            !.pc = IF kind = "withdraw" THEN "safe" ELSE "approve"]
  <2>1. runs' = [runs EXCEPT ![r] = c] /\ a.pc = "idle" /\ UNCHANGED queue
    BY <1>2, <1>6 DEF Start
  <2>2. c \in SafeRun /\ c.user = FirstSigner /\ c.pc \in {"safe", "approve"} /\ c.whitelisted = a.whitelisted
    BY <1>1, <1>2, <1>6 DEF SafeRun, Pcs
  <2> HIDE DEF c
  <2>3. ProcessOK(c, r, queue[FirstSigner], tasks, modules)
    BY <1>3, <2>1, <2>2 DEF ProcessOK, Unsent, Unread
  <2> QED
    BY <1>1, <1>5, <2>1, <2>2, <2>3, SafeGoesOn DEF Unsent
<1>7. ASSUME NEW pc \in Pcs, NEW cause \in Causes,
             runs' = [runs EXCEPT ![r] = [a EXCEPT !.pc = pc, !.cause = cause]], UNCHANGED queue,
             \/ pc = "error"
             \/ a.pc = "approve" /\ pc \in {"core", "safe"}
             \/ a.pc = "provided" /\ pc = "send"
             \/ a.pc = "modules" /\ pc = "send"
      PROVE  SafeInv'
  <2> DEFINE c == [a EXCEPT !.pc = pc, !.cause = cause]
  <2>1. /\ c \in SafeRun /\ c.pc = pc /\ c.kind = a.kind /\ c.user = a.user
        /\ c.whitelisted = a.whitelisted /\ c.safeDeployed = a.safeDeployed
    BY <1>2, <1>7 DEF SafeRun
  <2>2. runs' = [runs EXCEPT ![r] = c]
    BY <1>7
  <2> HIDE DEF c
  <2>3. ProcessOK(c, r, queue[FirstSigner], tasks, modules)
    BY <1>3, <1>7, <2>1 DEF ProcessOK, SafeFor, Unsent, Unread
  <2> QED
    BY <1>1, <1>5, <1>7, <2>1, <2>2, <2>3, SafeGoesOn DEF Unsent
<1>8. \A pc, cause : [runs EXCEPT ![r].pc = pc, ![r].cause = cause]
                       = [runs EXCEPT ![r] = [a EXCEPT !.pc = pc, !.cause = cause]]
  BY <1>2
<1>9. \A pc : [runs EXCEPT ![r].pc = pc]
                = [runs EXCEPT ![r] = [a EXCEPT !.pc = pc, !.cause = a.cause]]
  BY <1>2 DEF SafeRun
<1>10. a.cause \in Causes /\ {"error", "core", "safe", "send", "wait"} \subseteq Pcs
       /\ {"throws", "provider is not defined", "no safe", "no salt", "rejected"} \subseteq Causes
  BY <1>2 DEF SafeRun, Pcs, Causes
<1>11. ASSUME NEW cause \in Causes, Die(r, cause), UNCHANGED queue PROVE SafeInv'
  <2>1. runs' = [runs EXCEPT ![r] = [a EXCEPT !.pc = "error", !.cause = cause]]
    BY <1>8, <1>11 DEF Die
  <2> QED
    BY <1>7, <1>10, <1>11, <2>1
<1>12. ASSUME Approve(r) PROVE SafeInv'
  <2>1. CASE Die(r, "throws") /\ UNCHANGED queue
    BY <1>10, <1>11, <2>1
  <2>2. CASE ~ (Die(r, "throws") /\ UNCHANGED queue)
    <3> DEFINE pc == IF a.kind = "tradeAndWithdraw" THEN "core" ELSE "safe"
               c == [a EXCEPT !.pc = pc, !.cause = a.cause]
    <3>1. PICK m \in Approval(a.kind, a.user) :
            /\ Goto(r, pc)
            /\ Send(FirstSigner, [call |-> "approve", run |-> r, safe |-> SafeOf(r),
                                  batch |-> <<>>, amount |-> m])
      BY <1>12, <2>2 DEF Approve
    <3> DEFINE tx == [call |-> "approve", run |-> r, safe |-> SafeOf(r), batch |-> <<>>, amount |-> m]
    <3>2. a.pc = "approve"
      BY <1>12 DEF Approve
    <3>3. m \in Nat
      BY <1>1, <3>1 DEF Approval, TimeTradeApproval, BalanceTradeApproval, KyberPriceTradeApproval,
                        TradeAndWithdrawApproval
    <3>4. tx \in Txs /\ tx.run = r /\ tx.call = "approve"
      BY <1>4, <3>3 DEF Txs
    <3>5. queue' = [queue EXCEPT ![FirstSigner] = Append(@, tx)] /\ runs' = [runs EXCEPT ![r] = c]
      BY <1>9, <3>1 DEF Send, Goto
    <3>6. /\ c \in SafeRun /\ c.pc \in {"core", "safe"} /\ c.kind = a.kind /\ c.user = a.user
          /\ c.whitelisted = a.whitelisted /\ c.safeDeployed = a.safeDeployed
      BY <1>2, <1>10 DEF SafeRun
    <3> HIDE DEF tx, c
    <3>7. BatchOK(tx, c, modules) /\ (c.pc \in Unread => ~ c.whitelisted)
      BY <1>3, <3>2, <3>4, <3>6 DEF BatchOK, ProcessOK, Unread
    <3> QED
      BY <1>1, <1>5, <3>2, <3>4, <3>5, <3>6, <3>7, SafeSends DEF Unsent
  <2> QED
    BY <2>1, <2>2
<1>13. ASSUME CheckSafe(r) PROVE SafeInv'
  <2> DEFINE c == [a EXCEPT !.safeDeployed = (a.kind = "timeTrade" \/ SafeOf(r) \in deployed),
                            !.pc = "modules"]
  <2>1. runs' = [runs EXCEPT ![r] = c] /\ a.pc = "safe" /\ UNCHANGED queue
    BY <1>2, <1>13 DEF CheckSafe
  <2>2. /\ c \in SafeRun /\ c.pc = "modules" /\ c.kind = a.kind /\ c.user = a.user
        /\ c.whitelisted = a.whitelisted
    BY <1>2 DEF SafeRun, Pcs
  <2> HIDE DEF c
  <2>3. ProcessOK(c, r, queue[FirstSigner], tasks, modules)
    BY <1>3, <2>1, <2>2 DEF ProcessOK, Unsent, Unread
  <2> QED
    BY <1>1, <1>5, <2>1, <2>2, <2>3, SafeGoesOn DEF Unsent
<1>14. ASSUME ReadModules(r) PROVE SafeInv'
  <2>1. CASE Die(r, "no safe")
    BY <1>10, <1>11, <1>14, <2>1 DEF ReadModules
  <2>2. CASE ~ Die(r, "no safe")
    <3> DEFINE c == [a EXCEPT !.whitelisted = a.safeDeployed /\ SafeOf(r) \in modules,
                              !.pc = IF a.kind = "withdraw" THEN "send" ELSE "provided"]
    <3>1. runs' = [runs EXCEPT ![r] = c] /\ a.pc = "modules" /\ UNCHANGED queue
      BY <1>2, <1>14, <2>2 DEF ReadModules
    <3>2. /\ c \in SafeRun /\ c.pc \in {"send", "provided"} /\ c.kind = a.kind /\ c.user = a.user
          /\ c.safeDeployed = a.safeDeployed
          /\ c.whitelisted => a.safeDeployed /\ SafeOf(r) \in modules
      BY <1>2 DEF SafeRun, Pcs
    <3> HIDE DEF c
    <3>3. ProcessOK(c, r, queue[FirstSigner], tasks, modules)
      BY <1>3, <1>4, <3>1, <3>2 DEF ProcessOK, SafeFor, Unsent, Unread
    <3> QED
      BY <1>1, <1>5, <3>1, <3>2, <3>3, SafeGoesOn DEF Unsent
  <2> QED
    BY <2>1, <2>2
<1>15. ASSUME CheckIfProvided(r) PROVE SafeInv'
  <2>1. CASE Die(r, "throws")
    BY <1>10, <1>11, <1>15, <2>1 DEF CheckIfProvided
  <2>2. CASE ~ Die(r, "throws")
    <3>1. /\ runs' = [runs EXCEPT ![r] = [a EXCEPT !.pc = "send", !.cause = a.cause]]
          /\ a.pc = "provided" /\ UNCHANGED queue
      BY <1>9, <1>15, <2>2 DEF CheckIfProvided, Goto
    <3> QED
      BY <1>7, <1>10, <3>1
  <2> QED
    BY <2>1, <2>2
<1>16. ASSUME CaughtReject(r) PROVE SafeInv'
  BY <1>7, <1>9, <1>10, <1>16 DEF CaughtReject, Goto
<1>17. ASSUME ExecTransaction(r) \/ CreateOnCpk(r) PROVE SafeInv'
  <2>1. CASE Die(r, "no salt") /\ UNCHANGED queue
    BY <1>10, <1>11, <2>1
  <2>2. CASE ~ (Die(r, "no salt") /\ UNCHANGED queue)
    <3> DEFINE call == IF a.safeDeployed THEN "exec" ELSE "create"
               safe == IF a.safeDeployed THEN SafeOf(r) ELSE CpkAddress(FirstSigner, "cpk65")
               batch == Batch(a.kind, a.whitelisted)
               tx == [call |-> call, run |-> r, safe |-> safe, amount |-> 0, batch |-> batch]
               c == [a EXCEPT !.pc = "wait", !.cause = a.cause]
    <3>1. a.pc = "send" /\ Goto(r, "wait") /\ Send(FirstSigner, tx)
      BY <1>17, <2>2 DEF ExecTransaction, CreateOnCpk
    <3>2. safe \in Safes /\ (a.kind # "withdraw" => safe = SafeFor(a))
      BY <1>1, <1>3, <1>4 DEF Safes, CpkAddress, SafeFor, Salt, ProcessOK
    <3>3. batch \in Seq(Calls) /\ a.whitelisted \in BOOLEAN
      BY <1>2, Batches DEF SafeRun
    <3>4. a.whitelisted => safe \in modules
      BY <1>3, <1>4 DEF ProcessOK
    <3>5. tx \in Txs /\ tx.run = r /\ tx.call # "approve" /\ tx.batch = batch /\ tx.safe = safe
      <4> HIDE DEF safe, batch
      <4> QED
        BY <3>2, <3>3 DEF Txs
    <3>6. /\ c \in SafeRun /\ c.pc = "wait" /\ c.kind = a.kind /\ c.user = a.user
          /\ c.whitelisted = a.whitelisted /\ c.safeDeployed = a.safeDeployed
      BY <1>2, <1>10 DEF SafeRun
    <3>7. queue' = [queue EXCEPT ![FirstSigner] = Append(@, tx)] /\ runs' = [runs EXCEPT ![r] = c]
      BY <1>9, <3>1 DEF Send, Goto
    <3> HIDE DEF tx, c, safe
    <3>8. BatchOK(tx, c, modules)
      <4>1. \E w \in BOOLEAN : tx.batch = Batch(c.kind, w) /\ (w => tx.safe \in modules)
        BY <3>3, <3>4, <3>5, <3>6
      <4> QED
        BY <3>2, <3>5, <3>6, <4>1 DEF BatchOK, SafeFor, Unsent
    <3> QED
      BY <1>1, <1>5, <3>1, <3>5, <3>6, <3>7, <3>8, SafeSends DEF Unsent, Unread
  <2> QED
    BY <2>1, <2>2
<1>18. ASSUME InstantiateCore(r) \/ Reject(r) PROVE SafeInv'
  BY <1>10, <1>11, <1>18 DEF InstantiateCore, Reject
<1> QED
  BY <1>6, <1>12, <1>13, <1>14, <1>15, <1>16, <1>17, <1>18 DEF Step

\* How a wait ends: the process changes its pc and its cause, if it waited.
LEMMA SafeSettles ==
  ASSUME runs \in [Runs -> SafeRun], NEW r \in Runs, NEW pc \in {"done", "error"}, Settle(r, pc)
  PROVE  /\ runs' \in [Runs -> SafeRun]
         /\ \A q \in Runs : /\ runs'[q].pc \in Unsent => runs'[q] = runs[q]
                            /\ runs'[q].pc \notin Unsent => runs[q].pc \notin Unsent
                            /\ runs'[q].kind = runs[q].kind /\ runs'[q].user = runs[q].user
                            /\ runs'[q].safeDeployed = runs[q].safeDeployed
                            /\ runs'[q].whitelisted = runs[q].whitelisted
<1> DEFINE c == [runs[r] EXCEPT !.pc = pc, !.cause = IF pc = "done" THEN @ ELSE "reverted"]
<1>1. \/ runs' = runs
      \/ runs[r].pc = "wait" /\ runs' = [runs EXCEPT ![r] = c]
  BY DEF Settle
<1>2. /\ c \in SafeRun /\ c.pc \notin Unsent /\ c.kind = runs[r].kind /\ c.user = runs[r].user
      /\ c.safeDeployed = runs[r].safeDeployed /\ c.whitelisted = runs[r].whitelisted
  BY DEF SafeRun, Pcs, Causes, Unsent
<1> HIDE DEF c
<1> QED
  BY <1>1, <1>2 DEF Unsent

\* The first transaction is mined; if it submits a task, that task's safe has its module.
LEMMA SafeMined ==
  ASSUME FirstSigner \in Signers, SafeInv, queue[FirstSigner] # <<>>,
         queue' = [queue EXCEPT ![FirstSigner] = Tail(@)],
         NEW tx, tx = Head(queue[FirstSigner]),
         runs' \in [Runs -> SafeRun],
         \A q \in Runs : /\ runs'[q].pc \in Unsent => runs'[q] = runs[q]
                         /\ runs'[q].pc \notin Unsent => runs[q].pc \notin Unsent
                         /\ runs'[q].kind = runs[q].kind /\ runs'[q].user = runs[q].user
                         /\ runs'[q].safeDeployed = runs[q].safeDeployed
                         /\ runs'[q].whitelisted = runs[q].whitelisted,
         modules \subseteq modules', modules' \subseteq deployed', deployed' \subseteq Safes,
         allowance' \in [Safes -> Nat], balance' \in [Signers -> Nat], UNCHANGED provided,
         tasks' \subseteq tasks \cup {[run |-> tx.run, safe |-> tx.safe]},
         tasks' # tasks => tx.call # "approve" /\ tx.safe \in modules',
         tasks \subseteq tasks',
         \A u \in Signers : PaidFor(u, tasks', runs', balance')
  PROVE  SafeInv'
<1> DEFINE q == queue[FirstSigner]
           p == Tail(q)
           n == Len(q)
           new == [run |-> tx.run, safe |-> tx.safe]
<1>1. /\ runs \in [Runs -> SafeRun] /\ tasks \subseteq [run : Runs, safe : Safes]
      /\ provided \subseteq UNION {Specs(kind) : kind \in Kinds}
  BY DEF SafeInv, TypeOK, SafeRun
<1>2. q \in Seq(Txs) /\ q # <<>>
  BY DEF SafeInv, TypeOK
<1>3. /\ p \in Seq(Txs) /\ n \in Nat /\ n > 0 /\ DOMAIN q = 1 .. n /\ DOMAIN p = 1 .. n - 1
      /\ \A i \in 1 .. n - 1 : p[i] = q[i + 1] /\ i + 1 \in 1 .. n
      /\ \A i \in 1 .. n : q[i] \in Txs
      /\ q[1] = tx /\ tx \in Txs /\ 1 \in 1 .. n
  BY <1>2, Taken
<1>4. queue' \in [Signers -> Seq(Txs)] /\ queue'[FirstSigner] = p
      /\ \A s \in Signers \ {FirstSigner} : queue'[s] = <<>>
  BY <1>3 DEF SafeInv, TypeOK
<1>5. \A i \in 1 .. n : BatchOK(q[i], runs[q[i].run], modules)
  BY <1>3 DEF SafeInv, SentOK
<1>6. /\ \A i, j \in 1 .. n : i < j /\ q[i].run = q[j].run => q[i].call = "approve"
      /\ \A t \in tasks : \A i \in 1 .. n : q[i].run # t.run
  BY <1>3 DEF SafeInv, LastOK
<1>7. \A o \in Runs : ProcessOK(runs[o], o, q, tasks, modules)
  BY DEF SafeInv
<1>8. \A t \in tasks' : t \in tasks \/ (t.run = tx.run /\ t.safe = tx.safe /\ tx.call # "approve"
                                        /\ tx.safe \in modules')
  OBVIOUS
<1>9. IsFiniteSet(tasks')
  <2>1. tasks' \in SUBSET (tasks \cup {new})
    OBVIOUS
  <2>2. IsFiniteSet(tasks \cup {new})
    BY ZenonT(60), FS_AddElement DEF SafeInv
  <2> QED
    BY <2>1, <2>2, FS_Subset
<1>10. TypeOK'
  <2>1. new \in [run : Runs, safe : Safes]
    BY <1>3 DEF Txs
  <2>2. tasks' \subseteq [run : Runs, safe : Safes]
    BY <1>1, <2>1
  <2> QED
    BY <1>1, <1>4, <2>2 DEF TypeOK, SafeRun
<1> HIDE DEF q, p, n, new
<1>11. ASSUME NEW o \in Runs PROVE ProcessOK(runs'[o], o, p, tasks', modules')
  <2>1. \A i \in DOMAIN p : p[i].run = o => \E j \in DOMAIN q : p[i] = q[j]
    BY <1>3
  <2>2. ProcessOK(runs[o], o, q, tasks, modules)
    BY <1>7
  <2>3. CASE runs'[o].pc \in Unsent
    <3>1. runs'[o] = runs[o]
      BY <2>3
    <3>2. /\ \A i \in 1 .. n : q[i].run = o => q[i].call = "approve"
          /\ \A t \in tasks : t.run # o
      BY <1>3, <2>2, <2>3, <3>1 DEF ProcessOK
    <3>3. \A t \in tasks' : t.run # o
      BY <1>3, <1>8, <3>2
    <3> QED
      BY <2>1, <2>2, <3>1, <3>3 DEF ProcessOK
  <2>4. CASE runs'[o].pc \notin Unsent
    BY <2>2, <2>4 DEF ProcessOK, SafeFor, Unsent, Unread
  <2> QED
    BY <2>3, <2>4
<1>12. SentOK(p, runs', modules')
  <2>1. ASSUME NEW i \in DOMAIN p PROVE BatchOK(p[i], runs'[p[i].run], modules')
    <3>1. p[i] \in Txs /\ BatchOK(p[i], runs[p[i].run], modules)
      BY <1>3, <1>5, <2>1
    <3>2. p[i].run \in Runs
      BY <3>1 DEF Txs
    <3> QED
      BY <3>1, <3>2 DEF BatchOK, SafeFor
  <2> QED
    BY <2>1 DEF SentOK
<1>13. LastOK(p, tasks')
  <2>1. ASSUME NEW i \in 1 .. n - 1, NEW j \in 1 .. n - 1, i < j, p[i].run = p[j].run
        PROVE  p[i].call = "approve"
    <3>1. i + 1 \in 1 .. n /\ j + 1 \in 1 .. n /\ i + 1 < j + 1 /\ p[i] = q[i + 1] /\ p[j] = q[j + 1]
      BY <1>3, <2>1
    <3> QED
      BY <1>6, <2>1, <3>1
  <2>2. ASSUME NEW t \in tasks', NEW i \in 1 .. n - 1 PROVE p[i].run # t.run
    <3>1. i + 1 \in 1 .. n /\ 1 < i + 1 /\ p[i] = q[i + 1]
      BY <1>3, <2>2
    <3> QED
      BY SMTT(40), <1>3, <1>6, <1>8, <2>2, <3>1
  <2> QED
    BY <1>3, <2>1, <2>2 DEF LastOK
<1>14. \A t \in tasks' : t.safe \in modules'
  BY <1>8 DEF SafeInv
<1> QED
  BY <1>4, <1>9, <1>10, <1>11, <1>12, <1>13, <1>14 DEF SafeInv

\* A safe makes the calls of a batch, or none of them.
LEMMA SafeExecutes ==
  ASSUME FirstSigner \in Signers, SellAmount \in Nat, Balance \in Nat,
         SafeInv, NEW tx \in Txs, NEW exists,
         BatchOK(tx, runs[tx.run], modules), tx.call # "approve",
         runs[tx.run].user = FirstSigner, \A t \in tasks : t.run # tx.run,
         Execute(tx, exists),
         runs' \in [Runs -> SafeRun], \A q \in Runs : runs'[q].kind = runs[q].kind
  PROVE  /\ modules \subseteq modules' /\ modules' \subseteq modules \cup {tx.safe}
         /\ allowance' \in [Safes -> Nat] /\ balance' \in [Signers -> Nat]
         /\ tasks \subseteq tasks' /\ tasks' \subseteq tasks \cup {[run |-> tx.run, safe |-> tx.safe]}
         /\ tasks' # tasks => tx.safe \in modules'
         /\ \A u \in Signers : PaidFor(u, tasks', runs', balance')
<1> DEFINE kind == runs[tx.run].kind
           batch == tx.batch
           new == [run |-> tx.run, safe |-> tx.safe]
<1>1. /\ allowance \in [Safes -> Nat] /\ balance \in [Signers -> Nat]
      /\ runs \in [Runs -> SafeRun] /\ tasks \subseteq [run : Runs, safe : Safes]
      /\ IsFiniteSet(tasks)
      /\ tx.run \in Runs /\ tx.safe \in Safes
  BY DEF SafeInv, TypeOK, SafeRun, Txs
<1>2. kind \in Kinds \cup {"withdraw"} /\ \A t \in tasks : runs'[t.run].kind = runs[t.run].kind
  BY <1>1 DEF SafeRun
<1>3. \A u \in Signers : PaidFor(u, tasks, runs', balance)
  <2>1. \A u : TimeTrades(u, tasks, runs') = TimeTrades(u, tasks, runs)
    BY <1>2 DEF TimeTrades
  <2> QED
    BY <2>1 DEF SafeInv, PaidFor
<1>4. PICK w \in BOOLEAN : batch = Batch(kind, w) /\ (w => tx.safe \in modules)
  BY DEF BatchOK
<1>5. /\ In("placeOrder", batch) <=> kind = "timeTrade"
      /\ In("submitTask", batch) <=> kind # "withdraw"
      /\ In("enableModule", batch) <=> kind # "withdraw" /\ ~ w
  BY <1>2, <1>4, Batches
<1>6. kind # "withdraw" => SafeOf(tx.run) = tx.safe
  BY DEF BatchOK, SafeFor, SafeOf
<1> HIDE DEF batch, kind, new
<1>7. CASE UNCHANGED <<modules, allowance, balance, tasks>>
  BY <1>1, <1>3, <1>7
<1>8. CASE ~ UNCHANGED <<modules, allowance, balance, tasks>>
  <2>1. /\ \A i \in DOMAIN batch : CallSucceeds(tx, batch[i], exists)
        /\ modules' = IF In("enableModule", batch) /\ SafeOf(tx.run) = tx.safe
                      THEN modules \cup {tx.safe} ELSE modules
        /\ IF In("placeOrder", batch)
           THEN /\ allowance' = [allowance EXCEPT ![tx.safe] = @ - SellAmount]
                /\ balance' = [balance EXCEPT ![runs[tx.run].user] = @ - SellAmount]
           ELSE UNCHANGED <<allowance, balance>>
        /\ tasks' = IF In("submitTask", batch) THEN tasks \cup {new} ELSE tasks
    BY <1>8 DEF Execute, batch, new
  <2>2. /\ modules \subseteq modules' /\ modules' \subseteq modules \cup {tx.safe}
        /\ tasks \subseteq tasks' /\ tasks' \subseteq tasks \cup {new}
    BY <2>1
  <2>3. tasks' # tasks => tx.safe \in modules'
    BY <1>4, <1>5, <1>6, <2>1
  <2>4. CASE kind = "timeTrade"
    <3>1. tasks' = tasks \cup {new} /\ tx.safe = SafeOf(tx.run)
      BY <1>5, <1>6, <2>1, <2>4
    <3>2. /\ allowance[tx.safe] >= SellAmount /\ balance[FirstSigner] >= SellAmount
          /\ tx.safe.owner = FirstSigner
      <4>1. PICK i \in DOMAIN batch : batch[i] = "placeOrder"
        BY <1>5, <2>4 DEF In
      <4>2. CallSucceeds(tx, "placeOrder", exists)
        BY <2>1, <4>1
      <4> QED
        BY <4>2 DEF CallSucceeds
    <3>3. /\ allowance' = [allowance EXCEPT ![tx.safe] = @ - SellAmount]
          /\ balance' = [balance EXCEPT ![FirstSigner] = @ - SellAmount]
      BY <1>5, <2>1, <2>4
    <3>4. allowance[tx.safe] - SellAmount \in Nat /\ balance[FirstSigner] - SellAmount \in Nat
      BY <1>1, <3>2
    <3>5. allowance' \in [Safes -> Nat] /\ balance' \in [Signers -> Nat]
      BY <1>1, <3>3, <3>4
    <3>6. ASSUME NEW u \in Signers PROVE PaidFor(u, tasks', runs', balance')
      <4> DEFINE before == TimeTrades(u, tasks, runs')
                 after == TimeTrades(u, tasks', runs')
      <4>1. new.run = tx.run /\ new.safe = tx.safe /\ runs'[new.run].kind = "timeTrade" /\ new \notin tasks
        BY <1>1, <2>4 DEF new, kind
      <4>2. PaidFor(u, tasks, runs', balance)
        BY <1>3
      <4>3. CASE u = FirstSigner
        <5>1. after = before \cup {new} /\ new \notin before
          BY <3>1, <3>2, <4>1, <4>3 DEF TimeTrades
        <5>2. IsFiniteSet(before)
          BY <1>1, FS_Subset DEF TimeTrades
        <5> DEFINE k == Cardinality(before)
        <5>3. k \in Nat /\ Cardinality(after) = k + 1
          BY <5>1, <5>2, FS_AddElement, FS_CardinalityType
        <5>4. Balance - balance[u] = SellAmount * k
          BY <4>2 DEF PaidFor
        <5>5. balance'[u] = balance[u] - SellAmount /\ balance[u] \in Nat
          BY <1>1, <3>3, <4>3
        <5> HIDE DEF k, after
        <5>6. SellAmount * (k + 1) = SellAmount * k + SellAmount
          BY <5>3
        <5>7. SellAmount * k \in Nat
          BY <5>3
        <5>8. Balance - balance'[u] = SellAmount * Cardinality(after)
          <6>1. Cardinality(after) = k + 1
            BY <5>3
          <6> DEFINE m == SellAmount * k
          <6>2. SellAmount * Cardinality(after) = m + SellAmount /\ m \in Nat /\ Balance - balance[u] = m
            BY <5>4, <5>6, <5>7, <6>1
          <6> HIDE DEF m
          <6>3. Balance \in Nat /\ SellAmount \in Nat /\ balance[u] \in Nat /\ balance'[u] = balance[u] - SellAmount
            BY <5>5
          <6> QED
            BY ONLY <6>2, <6>3
        <5> QED
          BY <5>8 DEF PaidFor, after
      <4>4. CASE u # FirstSigner
        <5>1. after = before
          BY <3>1, <3>2, <4>1, <4>4 DEF TimeTrades
        <5>2. balance'[u] = balance[u]
          BY <1>1, <3>3, <4>4
        <5> QED
          BY <4>2, <5>1, <5>2 DEF PaidFor
      <4> QED
        BY <4>3, <4>4
    <3> QED
      BY <2>2, <2>3, <3>5, <3>6 DEF new
  <2>5. CASE kind # "timeTrade"
    <3>1. UNCHANGED <<allowance, balance>>
      BY <1>5, <2>1, <2>5
    <3>2. ASSUME NEW u \in Signers PROVE PaidFor(u, tasks', runs', balance')
      <4>1. new.run = tx.run /\ runs'[new.run].kind # "timeTrade"
        BY <1>1, <2>5 DEF new, kind
      <4>2. TimeTrades(u, tasks', runs') = TimeTrades(u, tasks, runs')
        BY <2>2, <4>1 DEF TimeTrades
      <4> QED
        BY <1>3, <3>1, <4>2 DEF PaidFor
    <3> QED
      BY <1>1, <2>2, <2>3, <3>1, <3>2 DEF new
  <2> QED
    BY <2>4, <2>5
<1> QED
  BY <1>7, <1>8

LEMMA SafeMines ==
  ASSUME SafeClientsAssumption, SafeInv, NEW s \in Signers, Mine(s)
  PROVE  SafeInv'
<1> DEFINE tx == Head(queue[FirstSigner])
           new == [run |-> tx.run, safe |-> tx.safe]
           Agrees == \A q \in Runs : /\ runs'[q].pc \in Unsent => runs'[q] = runs[q]
                                     /\ runs'[q].pc \notin Unsent => runs[q].pc \notin Unsent
                                     /\ runs'[q].kind = runs[q].kind /\ runs'[q].user = runs[q].user
                                     /\ runs'[q].safeDeployed = runs[q].safeDeployed
                                     /\ runs'[q].whitelisted = runs[q].whitelisted
<1>1. FirstSigner \in Signers /\ SellAmount \in Nat /\ Balance \in Nat
  BY DEF SafeClientsAssumption
<1>2. s = FirstSigner /\ queue[FirstSigner] # <<>>
  BY DEF SafeInv, Mine, MineApprove, MineExec, MineCreate
<1>3. queue' = [queue EXCEPT ![FirstSigner] = Tail(@)]
  BY <1>2 DEF Mine, MineApprove, MineExec, MineCreate, Pop
<1>4. /\ runs \in [Runs -> SafeRun] /\ modules \subseteq deployed /\ deployed \subseteq Safes
      /\ allowance \in [Safes -> Nat] /\ balance \in [Signers -> Nat]
      /\ queue[FirstSigner] \in Seq(Txs)
  BY <1>1 DEF SafeInv, TypeOK, SafeRun
<1>5. tx \in Txs /\ 1 \in DOMAIN queue[FirstSigner] /\ tx = queue[FirstSigner][1]
  BY <1>2, <1>4, Taken
<1>6. /\ BatchOK(tx, runs[tx.run], modules) /\ \A t \in tasks : t.run # tx.run
      /\ tx.run \in Runs /\ tx.safe \in Safes /\ tx.amount \in Nat
      /\ runs[tx.run].user = FirstSigner
  BY <1>5 DEF SafeInv, SentOK, LastOK, Txs, ProcessOK
<1>7. \A u \in Signers : PaidFor(u, tasks, runs, balance)
  BY DEF SafeInv
<1>8. UNCHANGED provided
  BY DEF Mine, MineApprove, MineExec, MineCreate, chain
<1> HIDE DEF tx
<1>9. ASSUME MineApprove(s) PROVE SafeInv'
  <2>1. /\ UNCHANGED <<runs, deployed, modules, balance, tasks>>
        /\ allowance' = IF tx.safe.owner = s THEN [allowance EXCEPT ![tx.safe] = tx.amount]
                        ELSE allowance
    BY <1>2, <1>9 DEF MineApprove, tx
  <2>2. allowance' \in [Safes -> Nat]
    BY <1>4, <1>6, <2>1
  <2> QED
    BY <1>1, <1>2, <1>3, <1>4, <1>7, <1>8, <2>1, <2>2, SafeMined DEF tx
<1>10. ASSUME NEW pc \in {"done", "error"}, Settle(tx.run, pc) PROVE runs' \in [Runs -> SafeRun] /\ Agrees
  BY <1>4, <1>6, <1>10, SafeSettles
<1>11. ASSUME runs' \in [Runs -> SafeRun], Agrees, deployed \subseteq deployed', deployed' \subseteq Safes,
              UNCHANGED <<modules, allowance, balance, tasks>>
       PROVE  SafeInv'
  <2>1. \A u \in Signers : PaidFor(u, tasks', runs', balance')
    <3>1. tasks \subseteq [run : Runs, safe : Safes]
      BY DEF SafeInv, TypeOK
    <3>2. \A u : TimeTrades(u, tasks', runs') = TimeTrades(u, tasks, runs)
      BY <1>11, <3>1 DEF TimeTrades
    <3> QED
      BY <1>7, <1>11, <3>2 DEF PaidFor
  <2> HIDE DEF Agrees
  <2>2. /\ tasks' \subseteq tasks \cup {new} /\ tasks \subseteq tasks' /\ tasks' = tasks
        /\ modules \subseteq modules' /\ modules' \subseteq deployed'
        /\ allowance' \in [Safes -> Nat] /\ balance' \in [Signers -> Nat]
    BY <1>4, <1>11
  <2> USE DEF Agrees
  <2> QED
    BY <1>1, <1>2, <1>3, <1>8, <1>11, <2>1, <2>2, SafeMined DEF tx
<1>12. ASSUME runs' \in [Runs -> SafeRun], Agrees, deployed \subseteq deployed', deployed' \subseteq Safes,
              tx.safe \in deployed', NEW exists, Execute(tx, exists), tx.call # "approve"
       PROVE  SafeInv'
  <2>1. \A q \in Runs : runs'[q].kind = runs[q].kind
    BY <1>12
  <2>2. /\ modules \subseteq modules' /\ modules' \subseteq modules \cup {tx.safe}
        /\ allowance' \in [Safes -> Nat] /\ balance' \in [Signers -> Nat]
        /\ tasks \subseteq tasks' /\ tasks' \subseteq tasks \cup {new}
        /\ tasks' # tasks => tx.safe \in modules'
        /\ \A u \in Signers : PaidFor(u, tasks', runs', balance')
    BY <1>1, <1>5, <1>6, <1>12, <2>1, SafeExecutes
  <2>3. modules' \subseteq deployed'
    BY <1>4, <1>12, <2>2
  <2>4. tasks' # tasks => tx.call # "approve" /\ tx.safe \in modules'
    BY <1>12, <2>2
  <2> QED
    BY <1>1, <1>2, <1>3, <1>8, <1>12, <2>2, <2>3, <2>4, SafeMined DEF tx
<1>13. ASSUME MineExec(s) PROVE SafeInv'
  <2>1. tx.call # "approve" /\ deployed' = deployed
    BY <1>2, <1>13 DEF MineExec, chain, tx
  <2>2. /\ runs' \in [Runs -> SafeRun] /\ Agrees
        /\ \/ UNCHANGED <<modules, allowance, balance, tasks>>
           \/ tx.safe \in deployed /\ Execute(tx, deployed)
    BY <1>2, <1>10, <1>13 DEF MineExec, chain, tx
  <2> HIDE DEF Agrees
  <2> QED
    BY <1>4, <1>11, <1>12, <2>1, <2>2
<1>14. ASSUME MineCreate(s) PROVE SafeInv'
  <2>1. tx.call # "approve"
    BY <1>2, <1>14 DEF MineCreate, tx
  <2>2. CASE Settle(tx.run, "error") /\ UNCHANGED chain
    <3>1. UNCHANGED <<deployed, modules, allowance, balance, tasks>>
      BY <2>2 DEF chain
    <3>2. runs' \in [Runs -> SafeRun] /\ Agrees
      BY <1>10, <2>2
    <3> HIDE DEF Agrees
    <3> QED
      BY <1>4, <1>11, <3>1, <3>2
  <2>3. CASE ~ (Settle(tx.run, "error") /\ UNCHANGED chain)
    <3>1. Settle(tx.run, "done") /\ deployed' = deployed \cup {tx.safe} /\ Execute(tx, deployed')
      BY <1>2, <1>14, <2>3 DEF MineCreate, tx
    <3>2. runs' \in [Runs -> SafeRun] /\ Agrees
      BY <1>10, <3>1
    <3> HIDE DEF Agrees
    <3> QED
      BY <1>4, <1>6, <1>12, <2>1, <3>1, <3>2
  <2> QED
    BY <2>2, <2>3
<1> QED
  BY <1>9, <1>13, <1>14 DEF Mine

LEMMA SafeStep ==
  ASSUME SafeClientsAssumption, Users \subseteq {FirstSigner}, SafeInv, [Next]_vars
  PROVE  SafeInv'
<1>1. ASSUME UNCHANGED <<runs, queue, deployed, modules, allowance, balance, tasks>>,
             provided' \subseteq UNION {Specs(kind) : kind \in Kinds}
      PROVE  SafeInv'
  <2>1. TypeOK'
    BY <1>1 DEF SafeInv, TypeOK
  <2> QED
    BY <1>1, <2>1 DEF SafeInv
<1>2. provided \subseteq UNION {Specs(kind) : kind \in Kinds}
  BY DEF SafeInv, TypeOK
<1>3. CASE UNCHANGED vars
  BY <1>1, <1>2, <1>3 DEF vars
<1>4. ASSUME NEW kind \in Kinds, NEW spec \in Specs(kind), Unprovide(spec) \/ Provide(spec)
      PROVE  SafeInv'
  BY <1>1, <1>2, <1>4 DEF Unprovide, Provide
<1> QED
  BY <1>3, <1>4, SafeSteps, SafeMines DEF Next

LEMMA SafePrepared == ASSUME FirstSigner \in Signers, SafeInv PROVE SafeIsPrepared
<1>1. TypeOK /\ ModuleBeforeTask
  BY DEF SafeInv, ModuleBeforeTask
<1>2. ApprovalMinedFirst
  <2>1. ASSUME NEW t \in tasks, NEW s \in Signers, NEW i \in DOMAIN queue[s]
        PROVE  queue[s][i].run # t.run
    <3>1. s = FirstSigner
      <4>1. DOMAIN <<>> = {}
        OBVIOUS
      <4> QED
        BY <2>1, <4>1 DEF SafeInv
    <3> QED
      BY <2>1, <3>1 DEF SafeInv, LastOK
  <2> QED
    BY <2>1 DEF ApprovalMinedFirst
<1>3. PaidPerTask
  BY DEF SafeInv, PaidFor, TimeTrades, PaidPerTask
<1> QED
  BY <1>1, <1>2, <1>3 DEF SafeIsPrepared

-----------------------------------------------------------------------------
(* The dapps that repeat a transfer.                                        *)

TimedUnsent == {"idle", "build", "check", "submit"}

TimedRun == [pc : {"idle", "build", "check", "submit", "wait", "done", "error"},
             dapp : {"one", "two", "balance"}, salt : SaltNonces,
             cycles : 0 .. MaxRounds, isDeployed : BOOLEAN]

TimedTx == [run : Runs, create : BOOLEAN, proxy : SaltNonces,
            actions : {Timed!InitialOne, Timed!InitialTwo}]

\* A run, of pc c, whose submission is not mined yet.
Unmined(c, q, r) == c \in TimedUnsent \/ \E i \in DOMAIN q : q[i].run = r

\* The receipts that follow on tr, of an endless cycle as far as it is followed,
\* and itself.
RoundsLeft(tr, n) == IF tr.left = 0 THEN MaxRounds - n[tr.run] ELSE tr.left

\* The receipts that the user's runs may still be given.
Due(P, q, T, n) ==
  {e \in Runs \X (1 .. MaxRounds) : \/ Unmined(P[e[1]].pc, q, e[1])
                                 \/ \E tr \in T : tr.run = e[1] /\ e[2] < RoundsLeft(tr, n)}

\* A run submits once, the actions of its dapp first.
OneSubmission(P, q) ==
  /\ \A i \in DOMAIN q : /\ P[q[i].run].pc \notin TimedUnsent
                         /\ q[i].actions = IF P[q[i].run].dapp = "two" THEN Timed!InitialTwo
                                           ELSE Timed!InitialOne
  /\ \A i, j \in DOMAIN q : q[i].run = q[j].run => i = j

\* It has one receipt at a time, and none before its submission is mined.
OneReceipt(P, q, T, n) ==
  /\ \A r \in Runs : Unmined(P[r].pc, q, r) => n[r] = 0 /\ \A tr \in T : tr.run # r
  /\ \A a, b \in T : a.run = b.run => a = b

\* Tokens moved with those still to be moved, and the timer with the time gone by.
ReceiptOK(tr, c, n, t, e) ==
  /\ tr.left \in 0 .. MaxRounds
  /\ tr.left = 0 <=> c.cycles = 0
  /\ c.dapp # "two" => /\ c.cycles # 0 => n[tr.run] + tr.left <= c.cycles
                       /\ t[tr.proxy][tr.id] + e[tr.run] >= SecondsDelta

TimedTypes ==
  /\ timedRuns \in [Runs -> TimedRun]
  /\ timedPending \in Seq(TimedTx)
  /\ proxies \subseteq SaltNonces
  /\ timer \in [SaltNonces -> [Timed!Ids -> 0 .. SecondsDelta]]
  /\ receipts \subseteq [id : Timed!Ids, run : Runs, proxy : SaltNonces, left : Nat]
  /\ lastId \in Nat
  /\ others \in 0 .. MaxOthers
  /\ transfers \in [Runs -> Nat]
  /\ since \in [Runs -> 0 .. SecondsDelta]
  /\ {served, liquid} \subseteq BOOLEAN

\* The transfers of a finite cycle.
FewTransfers(P, n) == \A r \in Runs : P[r].dapp # "two" /\ P[r].cycles # 0 => n[r] <= P[r].cycles

TimedInv ==
  /\ TimedTypes
  /\ OneSubmission(timedRuns, timedPending)
  /\ OneReceipt(timedRuns, timedPending, receipts, transfers)
  /\ \A tr \in receipts : ReceiptOK(tr, timedRuns[tr.run], transfers, timer, since)
  /\ FewTransfers(timedRuns, transfers)
  /\ lastId + Cardinality(Due(timedRuns, timedPending, receipts, transfers)) <= others + MaxRounds * Cardinality(Runs)

\* TimedDapps counts with FiniteSets as this module does.
LEMMA TimedCounts ==
  ASSUME NEW S
  PROVE  Timed!IsFiniteSet(S) = IsFiniteSet(S) /\ Timed!Cardinality(S) = Cardinality(S)
<1>1. Timed!IsFiniteSet(S) = IsFiniteSet(S)
  BY DEF Timed!IsFiniteSet, IsFiniteSet
<1>2. Timed!Cardinality(S) = Cardinality(S)
  BY DEF Timed!Cardinality, Cardinality
<1> QED
  BY <1>1, <1>2

LEMMA TimedConstants ==
  ASSUME Timed!TimedDappsAssumption
  PROVE  /\ MaxRounds \in Nat \ {0} /\ SecondsDelta \in Nat \ {0} /\ MaxOthers \in Nat
         /\ DefaultNonce \in SaltNonces /\ IsFiniteSet(Runs)
         /\ Timed!Ids = 1 .. (MaxOthers + (MaxRounds + 1) * Cardinality(Runs))
  BY TimedCounts DEF Timed!TimedDappsAssumption, Timed!Ids

\* As many receipts are due at first as the runs' cycles have.
LEMMA DueAtMost ==
  ASSUME Timed!TimedDappsAssumption
  PROVE  /\ IsFiniteSet(Runs \X (1 .. MaxRounds))
         /\ Cardinality(Runs \X (1 .. MaxRounds)) = MaxRounds * Cardinality(Runs)
         /\ Cardinality(Runs) \in Nat /\ MaxRounds * Cardinality(Runs) \in Nat
<1>1. MaxRounds \in Nat /\ IsFiniteSet(Runs)
  BY TimedConstants
<1>2. IsFiniteSet(1 .. MaxRounds) /\ Cardinality(1 .. MaxRounds) = MaxRounds
  BY <1>1, FS_Interval
<1>3. Cardinality(Runs) \in Nat
  BY <1>1, FS_CardinalityType
<1>4. /\ IsFiniteSet(Runs \X (1 .. MaxRounds))
      /\ Cardinality(Runs \X (1 .. MaxRounds)) = Cardinality(Runs) * MaxRounds
  BY <1>1, <1>2, FS_Product
<1> QED
  BY <1>1, <1>3, <1>4

LEMMA DueCount ==
  ASSUME Timed!TimedDappsAssumption, NEW before, NEW after, NEW l \in Nat, NEW k \in Nat,
         NEW o \in Nat, NEW m \in Nat,
         before \subseteq Runs \X (1 .. MaxRounds), after \subseteq before,
         l + Cardinality(before) <= o + MaxRounds * Cardinality(Runs),
         \/ k = l /\ m = o
         \/ k = l + 1 /\ m = o + 1
         \/ k = l + 1 /\ m = o /\ \E e \in before : e \notin after
  PROVE  k + Cardinality(after) <= m + MaxRounds * Cardinality(Runs)
<1>1. MaxRounds \in Nat /\ IsFiniteSet(Runs)
  BY TimedConstants
<1>2. IsFiniteSet(before)
  <2>1. IsFiniteSet(Runs \X (1 .. MaxRounds))
    BY DueAtMost
  <2> QED
    BY <2>1, FS_Subset
<1>3. IsFiniteSet(after) /\ Cardinality(after) <= Cardinality(before)
  BY <1>2, FS_Subset
<1>4. /\ Cardinality(before) \in Nat /\ Cardinality(after) \in Nat
      /\ MaxRounds * Cardinality(Runs) \in Nat
  BY <1>1, <1>2, <1>3, FS_CardinalityType
<1>5. ASSUME NEW e \in before, e \notin after PROVE Cardinality(after) + 1 <= Cardinality(before)
  <2>1. after \subseteq before \ {e}
    BY <1>5
  <2>2. IsFiniteSet(before \ {e}) /\ Cardinality(before \ {e}) = Cardinality(before) - 1
    BY <1>2, <1>5, FS_RemoveElement
  <2>3. Cardinality(after) <= Cardinality(before \ {e})
    BY <2>1, <2>2, FS_Subset
  <2> QED
    BY <1>4, <2>2, <2>3
<1> DEFINE all == MaxRounds * Cardinality(Runs)
           b == Cardinality(before)
           a == Cardinality(after)
<1>6. a \in Nat /\ b \in Nat /\ all \in Nat /\ a <= b /\ l + b <= o + all
  BY <1>3, <1>4
<1>7. \/ k = l /\ m = o
      \/ k = l + 1 /\ m = o + 1
      \/ k = l + 1 /\ m = o /\ a + 1 <= b
  BY <1>5
<1> HIDE DEF all, a, b
<1>8. k + a <= m + all
  BY <1>6, <1>7
<1> QED
  BY <1>8 DEF all, a

\* There is an id for the next receipt, and one for the timer wound after the last.
LEMMA NextId ==
  ASSUME Timed!TimedDappsAssumption, TimedInv
  PROVE  /\ lastId \in 0 .. MaxOthers + (MaxRounds + 1) * Cardinality(Runs)
         /\ Runs # {} => lastId + 1 \in Timed!Ids
<1> DEFINE N == Cardinality(Runs)
           due == Cardinality(Due(timedRuns, timedPending, receipts, transfers))
           all == MaxRounds * N
           room == (MaxRounds + 1) * N
<1>1. MaxRounds \in Nat /\ MaxOthers \in Nat /\ IsFiniteSet(Runs)
  BY TimedConstants
<1>2. N \in Nat /\ (Runs # {} => N # 0)
  BY <1>1, FS_CardinalityType, FS_EmptySet
<1>3. due \in Nat
  <2>1. IsFiniteSet(Runs \X (1 .. MaxRounds))
    BY DueAtMost
  <2>2. IsFiniteSet(Due(timedRuns, timedPending, receipts, transfers))
    BY <2>1, FS_Subset DEF Due
  <2> QED
    BY <2>2, FS_CardinalityType
<1>4. lastId + due <= others + all /\ others \in 0 .. MaxOthers /\ lastId \in Nat
  BY DEF TimedInv, TimedTypes
<1> HIDE DEF N, due
<1>5. room = all + N /\ all \in Nat
  BY <1>1, <1>2
<1> HIDE DEF all, room
<1>6. lastId \in 0 .. MaxOthers + room /\ (Runs # {} => lastId + 1 \in 1 .. MaxOthers + room)
  BY <1>1, <1>2, <1>3, <1>4, <1>5
<1> QED
  BY <1>6, TimedConstants DEF room, N

LEMMA TimedTypeOK == ASSUME Timed!TimedDappsAssumption, TimedInv PROVE Timed!TypeOK
<1>1. \A i \in DOMAIN timedPending : timedPending[i] \in TimedTx
  BY DEF TimedInv, TimedTypes
<1>2. lastId \in 0 .. MaxOthers + (MaxRounds + 1) * Timed!Cardinality(Runs)
  BY NextId, TimedCounts
<1> QED
  BY <1>1, <1>2 DEF TimedInv, TimedTypes, TimedRun, TimedTx, Timed!TypeOK

LEMMA TimedInit == ASSUME Timed!TimedDappsAssumption, Timed!Init PROVE TimedInv
<1>1. /\ MaxRounds \in Nat /\ SecondsDelta \in Nat /\ MaxOthers \in Nat /\ IsFiniteSet(Runs)
      /\ DefaultNonce \in SaltNonces
      /\ timedRuns = [r \in Runs |-> Timed!Idle] /\ timedPending = <<>> /\ receipts = {}
      /\ lastId = 0 /\ others = 0 /\ proxies \subseteq SaltNonces
      /\ timer = [p \in SaltNonces |-> [id \in Timed!Ids |-> 0]]
      /\ transfers = [r \in Runs |-> 0] /\ since = [r \in Runs |-> SecondsDelta]
      /\ {served, liquid} \subseteq BOOLEAN
  BY TimedConstants DEF Timed!Init
<1> DEFINE N == Cardinality(Runs)
           all == Runs \X (1 .. MaxRounds)
<1>2. N \in Nat /\ IsFiniteSet(all) /\ Cardinality(all) = MaxRounds * N /\ MaxRounds * N \in Nat
  BY DueAtMost
<1>3. Due(timedRuns, timedPending, receipts, transfers) = all
  BY <1>1 DEF Due, Unmined, TimedUnsent, Timed!Idle
<1>4. TimedTypes
  <2>1. timedRuns \in [Runs -> TimedRun]
    <3>1. 0 \in 0 .. MaxRounds
      BY TimedConstants
    <3> QED
      BY <1>1, <3>1 DEF Timed!Idle, TimedRun
  <2>2. 0 \in 0 .. MaxOthers /\ 0 \in 0 .. SecondsDelta /\ SecondsDelta \in 0 .. SecondsDelta
    BY <1>1
  <2>3. /\ timer \in [SaltNonces -> [Timed!Ids -> 0 .. SecondsDelta]]
        /\ since \in [Runs -> 0 .. SecondsDelta] /\ transfers \in [Runs -> Nat]
    BY <1>1, <2>2
  <2> QED
    BY <1>1, <2>1, <2>2, <2>3 DEF TimedTypes
<1>5. timedPending \in Seq(TimedTx) /\ DOMAIN timedPending = {}
  BY <1>1
<1>6. OneSubmission(timedRuns, timedPending) /\ OneReceipt(timedRuns, timedPending, receipts, transfers)
  BY <1>1, <1>5 DEF OneSubmission, OneReceipt
<1>7. FewTransfers(timedRuns, transfers)
  BY <1>1 DEF FewTransfers, Timed!Idle
<1>8. lastId + Cardinality(all) <= others + MaxRounds * N
  BY <1>1, <1>2
<1> QED
  BY <1>1, <1>3, <1>4, <1>5, <1>6, <1>7, <1>8 DEF TimedInv

\* A run moves; the contracts do not.
LEMMA TimedGoesOn ==
  ASSUME Timed!TimedDappsAssumption, TimedInv, NEW r \in Runs, NEW c \in TimedRun,
         timedRuns' = [timedRuns EXCEPT ![r] = c], UNCHANGED Timed!chain,
         timedPending' \in Seq(TimedTx), OneSubmission(timedRuns', timedPending'),
         \A o \in Runs : Unmined(timedRuns'[o].pc, timedPending', o)
                           => Unmined(timedRuns[o].pc, timedPending, o),
         timedRuns[r].pc = "idle" \/ (c.dapp = timedRuns[r].dapp /\ c.cycles = timedRuns[r].cycles)
  PROVE  TimedInv'
<1>1. /\ timedRuns \in [Runs -> TimedRun] /\ timedRuns' \in [Runs -> TimedRun]
      /\ timedRuns'[r] = c /\ \A o \in Runs \ {r} : timedRuns'[o] = timedRuns[o]
  BY DEF TimedInv, TimedTypes
<1>2. UNCHANGED <<proxies, timer, receipts, lastId, others, transfers, since, served, liquid>>
  BY DEF Timed!chain, Timed!provider
<1>3. TimedTypes'
  BY <1>1, <1>2 DEF TimedInv, TimedTypes
<1>4. OneReceipt(timedRuns, timedPending, receipts, transfers)
  BY DEF TimedInv
<1>5. OneReceipt(timedRuns', timedPending', receipts, transfers)
  BY <1>4 DEF OneReceipt
<1>6. \A o \in Runs : \/ /\ timedRuns'[o].dapp = timedRuns[o].dapp
                         /\ timedRuns'[o].cycles = timedRuns[o].cycles
                      \/ transfers[o] = 0 /\ \A tr \in receipts : tr.run # o
  BY <1>1, <1>4 DEF OneReceipt, Unmined, TimedUnsent
<1>7. \A tr \in receipts : tr.run \in Runs /\ ReceiptOK(tr, timedRuns[tr.run], transfers, timer, since)
  BY DEF TimedInv, TimedTypes
<1>8. \A tr \in receipts : ReceiptOK(tr, timedRuns'[tr.run], transfers, timer, since)
  BY <1>6, <1>7 DEF ReceiptOK
<1>9. FewTransfers(timedRuns', transfers)
  <2>1. \A o \in Runs : timedRuns'[o].cycles \in Nat
    BY <1>1, TimedConstants DEF TimedRun
  <2> QED
    BY <1>6, <2>1 DEF TimedInv, FewTransfers
<1>10. lastId + Cardinality(Due(timedRuns', timedPending', receipts, transfers)) <= others + MaxRounds * Cardinality(Runs)
  <2> DEFINE before == Due(timedRuns, timedPending, receipts, transfers)
             after == Due(timedRuns', timedPending', receipts, transfers)
  <2>1. after \subseteq before /\ before \subseteq Runs \X (1 .. MaxRounds)
    BY DEF Due
  <2>2. lastId \in Nat /\ others \in Nat /\ lastId + Cardinality(before) <= others + MaxRounds * Cardinality(Runs)
    BY TimedConstants DEF TimedInv, TimedTypes
  <2> HIDE DEF before, after
  <2>3. lastId + Cardinality(after) <= others + MaxRounds * Cardinality(Runs)
    BY <2>1, <2>2, DueCount
  <2> QED
    BY <2>3 DEF after
<1> QED
  BY <1>2, <1>3, <1>5, <1>8, <1>9, <1>10 DEF TimedInv

LEMMA TimedSteps ==
  ASSUME Timed!TimedDappsAssumption, TimedInv, NEW r \in Runs,
         \/ \E dapp \in Dapps, salt \in SaltNonces, cycles \in CycleCounts :
              Timed!Start(r, dapp, salt, cycles)
         \/ Timed!Step(r) \/ Timed!Reject(r)
  PROVE  TimedInv'
<1> DEFINE a == timedRuns[r]
           q == timedPending
<1>1. timedRuns \in [Runs -> TimedRun] /\ a \in TimedRun /\ q \in Seq(TimedTx)
      /\ DefaultNonce \in SaltNonces
  BY TimedConstants DEF TimedInv, TimedTypes
<1>2. OneSubmission(timedRuns, q)
  BY DEF TimedInv
<1>3. UNCHANGED Timed!chain
  BY DEF Timed!Start, Timed!Step, Timed!Reject, Timed!BuildBalanceTransfer, Timed!BuildTask,
         Timed!CheckDeployed, Timed!SubmitOne, Timed!SubmitTwo
<1>4. ASSUME NEW c \in TimedRun, timedRuns' = [timedRuns EXCEPT ![r] = c], UNCHANGED timedPending,
             c.pc \in TimedUnsent => a.pc \in TimedUnsent,
             a.pc = "idle" \/ (c.dapp = a.dapp /\ c.cycles = a.cycles)
      PROVE  TimedInv'
  <2>1. timedRuns'[r] = c /\ \A o \in Runs \ {r} : timedRuns'[o] = timedRuns[o]
    BY <1>1, <1>4
  <2>2. OneSubmission(timedRuns', timedPending')
    <3>1. \A i \in DOMAIN q : q[i].run \in Runs
      <4>1. \A i \in DOMAIN q : q[i] \in TimedTx
        BY <1>1
      <4> QED
        BY <4>1 DEF TimedTx
    <3> QED
      BY <1>2, <1>4, <2>1, <3>1 DEF OneSubmission, TimedUnsent
  <2>3. \A o \in Runs : Unmined(timedRuns'[o].pc, timedPending', o) => Unmined(timedRuns[o].pc, timedPending, o)
    BY <1>4, <2>1 DEF Unmined
  <2> QED
    BY <1>1, <1>3, <1>4, <2>2, <2>3, TimedGoesOn
<1>5. ASSUME NEW tx \in TimedTx, timedRuns' = [timedRuns EXCEPT ![r].pc = "wait"],
             timedPending' = Append(timedPending, tx), a.pc = "submit", tx.run = r,
             tx.actions = IF a.dapp = "two" THEN Timed!InitialTwo ELSE Timed!InitialOne
      PROVE  TimedInv'
  <2> DEFINE c == [a EXCEPT !.pc = "wait"]
             p == Append(q, tx)
             n == Len(q)
  <2>1. /\ c \in TimedRun /\ c.dapp = a.dapp /\ c.cycles = a.cycles /\ c.pc = "wait"
        /\ timedRuns' = [timedRuns EXCEPT ![r] = c]
    BY <1>1, <1>5 DEF TimedRun
  <2> HIDE DEF c
  <2>2. timedRuns'[r] = c /\ \A o \in Runs \ {r} : timedRuns'[o] = timedRuns[o]
    BY <1>1, <2>1
  <2>3. /\ p \in Seq(TimedTx) /\ n \in Nat /\ DOMAIN q = 1 .. n /\ DOMAIN p = 1 .. n + 1
        /\ \A i \in 1 .. n : p[i] = q[i]
        /\ p[n + 1] = tx
    BY <1>1, Sent
  <2>4. \A i \in 1 .. n : q[i].run \in Runs /\ q[i].run # r
    <3>1. \A i \in DOMAIN q : q[i] \in TimedTx
      BY <1>1
    <3> QED
      BY <1>2, <1>5, <2>3, <3>1 DEF OneSubmission, TimedUnsent, TimedTx
  <2> HIDE DEF p, n
  <2>5. OneSubmission(timedRuns', p)
    <3>1. ASSUME NEW i \in DOMAIN p
          PROVE  /\ timedRuns'[p[i].run].pc \notin TimedUnsent
                 /\ p[i].actions = IF timedRuns'[p[i].run].dapp = "two" THEN Timed!InitialTwo
                                   ELSE Timed!InitialOne
      <4>1. CASE i = n + 1
        BY <1>5, <2>1, <2>2, <2>3, <4>1 DEF TimedUnsent
      <4>2. CASE i \in 1 .. n
        BY <1>2, <2>2, <2>3, <2>4, <4>2 DEF OneSubmission
      <4> QED
        BY <2>3, <4>1, <4>2
    <3>2. ASSUME NEW i \in DOMAIN p, NEW j \in DOMAIN p, p[i].run = p[j].run PROVE i = j
      BY <1>2, <1>5, <2>3, <2>4, <3>2 DEF OneSubmission
    <3> QED
      BY <3>1, <3>2 DEF OneSubmission
  <2>6. ASSUME NEW o \in Runs, Unmined(timedRuns'[o].pc, p, o) PROVE Unmined(timedRuns[o].pc, q, o)
    <3>1. CASE o = r
      BY <1>5, <3>1 DEF Unmined, TimedUnsent
    <3>2. CASE o # r
      <4>1. timedRuns'[o] = timedRuns[o] /\ \A i \in DOMAIN p : p[i].run = o => i \in DOMAIN q /\ p[i] = q[i]
        BY <1>5, <2>2, <2>3, <3>2
      <4> QED
        BY <2>6, <4>1 DEF Unmined
    <3> QED
      BY <3>1, <3>2
  <2>7. timedPending' = p
    BY <1>5 DEF p
  <2> QED
    BY <1>3, <2>1, <2>3, <2>5, <2>6, <2>7, TimedGoesOn
<1>6. ASSUME NEW dapp \in Dapps, NEW salt \in SaltNonces, NEW cycles \in CycleCounts,
             Timed!Start(r, dapp, salt, cycles)
      PROVE  TimedInv'
  <2> DEFINE c == [pc |-> "build", dapp |-> dapp, salt |-> salt, cycles |-> cycles, isDeployed |-> FALSE]
  <2>1. dapp \in {"one", "two", "balance"} /\ cycles \in 0 .. MaxRounds
    BY DEF Timed!TimedDappsAssumption
  <2>2. c \in TimedRun
    BY <2>1 DEF TimedRun
  <2> QED
    BY <1>4, <1>6, <2>2 DEF Timed!Start, TimedUnsent
<1>7. ASSUME NEW pc \in {"error", "check"}, a.pc = "build" \/ pc = "error",
             Timed!Goto(r, pc), UNCHANGED timedPending
      PROVE  TimedInv'
  <2> DEFINE c == [a EXCEPT !.pc = pc]
  <2>1. c \in TimedRun /\ c.dapp = a.dapp /\ c.cycles = a.cycles /\ c.pc = pc /\ timedRuns' = [timedRuns EXCEPT ![r] = c]
    BY <1>1, <1>7 DEF TimedRun, Timed!Goto
  <2> HIDE DEF c
  <2> QED
    BY <1>4, <1>7, <2>1 DEF TimedUnsent
<1>8. ASSUME Timed!CheckDeployed(r) PROVE TimedInv'
  <2> DEFINE found == Timed!Predicted \in proxies
             c == [a EXCEPT !.isDeployed = found, !.pc = "submit"]
  <2>0. found \in BOOLEAN /\ timedRuns' = [timedRuns EXCEPT ![r].isDeployed = found, ![r].pc = "submit"]
    BY <1>8 DEF Timed!CheckDeployed
  <2> HIDE DEF found
  <2>1. timedRuns' = [timedRuns EXCEPT ![r] = c]
    BY <1>1, <2>0
  <2>2. c \in TimedRun /\ c.dapp = a.dapp /\ c.cycles = a.cycles
    BY <1>1, <2>0 DEF TimedRun
  <2> HIDE DEF c
  <2> QED
    BY <1>4, <1>8, <2>1, <2>2 DEF Timed!CheckDeployed, TimedUnsent
<1>9. ASSUME Timed!SubmitOne(r) \/ Timed!SubmitTwo(r) PROVE TimedInv'
  <2> DEFINE tx == [run |-> r, create |-> ~ a.isDeployed,
                    actions |-> IF a.dapp = "two" THEN Timed!InitialTwo ELSE Timed!InitialOne,
                    proxy |-> IF a.isDeployed THEN Timed!Predicted ELSE a.salt]
  <2>1. /\ timedPending' = Append(timedPending, tx) /\ timedRuns' = [timedRuns EXCEPT ![r].pc = "wait"]
        /\ a.pc = "submit"
    BY <1>9 DEF Timed!SubmitOne, Timed!SubmitTwo, Timed!Send, Timed!Goto
  <2>2. tx \in TimedTx
    <3>1. a.salt \in SaltNonces /\ a.isDeployed \in BOOLEAN /\ Timed!Predicted \in SaltNonces
      BY <1>1 DEF TimedRun, Timed!Predicted
    <3> QED
      BY <3>1 DEF TimedTx
  <2>3. tx.run = r /\ tx.actions = IF a.dapp = "two" THEN Timed!InitialTwo ELSE Timed!InitialOne
    OBVIOUS
  <2> HIDE DEF tx
  <2> QED
    BY <1>5, <2>1, <2>2, <2>3
<1>10. Timed!BuildBalanceTransfer(r) \/ Timed!BuildTask(r) \/ Timed!Reject(r) => TimedInv'
  BY <1>7 DEF Timed!BuildBalanceTransfer, Timed!BuildTask, Timed!Reject
<1> QED
  BY <1>6, <1>8, <1>9, <1>10 DEF Timed!Step

\* What the actions are that come before a submission, and those of a task.
LEMMA TimedActions ==
  /\ Timed!Includes(Timed!InitialOne, "setRefTime") /\ ~ Timed!Includes(Timed!InitialOne, "transfer")
  /\ ~ Timed!Includes(Timed!InitialTwo, "setRefTime")
  /\ \A dapp : /\ Timed!Includes(Timed!Task(dapp), "setRefTime")
               /\ Timed!Includes(Timed!Task(dapp), "transfer")
<1>1. \A a : DOMAIN <<a>> = {1} /\ <<a>>[1] = a
  OBVIOUS
<1>2. \A a, b : DOMAIN <<a, b>> = {1, 2} /\ <<a, b>>[1] = a /\ <<a, b>>[2] = b
  OBVIOUS
<1>3. \A a, c : Timed!Includes(<<a>>, c) <=> c = a
  BY <1>1 DEF Timed!Includes
<1>4. \A a, b, c : Timed!Includes(<<a, b>>, c) <=> c \in {a, b}
  BY <1>2 DEF Timed!Includes
<1>5. Timed!InitialOne = <<"setRefTime">> /\ Timed!InitialTwo = <<"transfer">>
  BY <1>2 DEF Timed!InitialOne, Timed!InitialTwo, Timed!TaskOne
<1>6. \A dapp : Timed!Task(dapp) = <<"transfer", "setRefTime">>
  BY DEF Timed!Task, Timed!TaskOne, Timed!TaskTwo
<1> QED
  BY <1>3, <1>4, <1>5, <1>6

\* Winding a timer shortens none.
LEMMA Wound ==
  ASSUME Timed!TimedDappsAssumption, TimedInv, Runs # {}, NEW proxy \in SaltNonces, NEW actions,
         Timed!SetRefTime(proxy, actions)
  PROVE  /\ timer' \in [SaltNonces -> [Timed!Ids -> 0 .. SecondsDelta]]
         /\ \A p \in SaltNonces, id \in Timed!Ids : timer'[p][id] >= timer[p][id]
         /\ Timed!Includes(actions, "setRefTime") => timer'[proxy][lastId + 1] = SecondsDelta
<1>1. /\ timer \in [SaltNonces -> [Timed!Ids -> 0 .. SecondsDelta]] /\ lastId + 1 \in Timed!Ids
      /\ SecondsDelta \in Nat
  BY NextId, TimedConstants DEF TimedInv, TimedTypes
<1> DEFINE id == lastId + 1
<1>2. \/ timer' = timer /\ ~ Timed!Includes(actions, "setRefTime")
      \/ timer' = [timer EXCEPT ![proxy][id] = SecondsDelta]
  BY DEF Timed!SetRefTime
<1>3. SecondsDelta \in 0 .. SecondsDelta /\ id \in Timed!Ids
  BY <1>1
<1> HIDE DEF id
<1>4. CASE timer' = [timer EXCEPT ![proxy][id] = SecondsDelta]
  <2>1. timer' \in [SaltNonces -> [Timed!Ids -> 0 .. SecondsDelta]]
    BY <1>1, <1>3, <1>4
  <2>2. \A p \in SaltNonces, i \in Timed!Ids : timer'[p][i] = SecondsDelta \/ timer'[p][i] = timer[p][i]
    BY <1>1, <1>3, <1>4
  <2>3. timer'[proxy][id] = SecondsDelta
    BY <1>1, <1>3, <1>4
  <2>4. \A p \in SaltNonces, i \in Timed!Ids : timer[p][i] \in 0 .. SecondsDelta
    BY <1>1
  <2>5. \A p \in SaltNonces, i \in Timed!Ids : timer'[p][i] >= timer[p][i]
    BY <1>1, <2>2, <2>4
  <2> QED
    BY <2>1, <2>3, <2>5 DEF id
<1>5. CASE timer' = timer /\ ~ Timed!Includes(actions, "setRefTime")
  <2>1. \A p \in SaltNonces, i \in Timed!Ids : timer[p][i] \in 0 .. SecondsDelta
    BY <1>1
  <2> QED
    BY <1>1, <1>5, <2>1
<1> QED
  BY <1>2, <1>4, <1>5

LEMMA TimedMine == ASSUME Timed!TimedDappsAssumption, TimedInv, Timed!Mine PROVE TimedInv'
<1> DEFINE q == timedPending
           p == Tail(q)
           n == Len(q)
           tx == Head(q)
<1>1. /\ timedRuns \in [Runs -> TimedRun] /\ q \in Seq(TimedTx) /\ q # <<>>
      /\ timer \in [SaltNonces -> [Timed!Ids -> 0 .. SecondsDelta]]
      /\ receipts \subseteq [id : Timed!Ids, run : Runs, proxy : SaltNonces, left : Nat]
      /\ transfers \in [Runs -> Nat] /\ since \in [Runs -> 0 .. SecondsDelta]
      /\ proxies \subseteq SaltNonces /\ lastId \in Nat /\ others \in 0 .. MaxOthers
      /\ {served, liquid} \subseteq BOOLEAN
  BY DEF TimedInv, TimedTypes, Timed!Mine
<1>2. /\ p \in Seq(TimedTx) /\ n \in Nat /\ n > 0 /\ DOMAIN q = 1 .. n /\ DOMAIN p = 1 .. n - 1
      /\ \A i \in 1 .. n - 1 : p[i] = q[i + 1] /\ i + 1 \in 1 .. n /\ i + 1 # 1
      /\ \A i \in 1 .. n : q[i] \in TimedTx
      /\ tx = q[1] /\ tx \in TimedTx /\ 1 \in 1 .. n
  BY <1>1, Taken
<1>3. /\ MaxRounds \in Nat \ {0} /\ SecondsDelta \in Nat \ {0} /\ MaxOthers \in Nat
  BY TimedConstants
<1>4. OneSubmission(timedRuns, q) /\ OneReceipt(timedRuns, q, receipts, transfers)
  BY DEF TimedInv
<1>5. \A i \in 1 .. n : q[i].run \in Runs
  BY <1>2 DEF TimedTx
<1>6. timedPending' = p
  BY DEF Timed!Mine
<1>7. \/ Timed!Settle(tx.run, "error") /\ UNCHANGED Timed!chain
      \/ /\ proxies' = proxies \cup {tx.proxy}
         /\ Timed!SetRefTime(tx.proxy, tx.actions)
         /\ transfers' = IF Timed!Includes(tx.actions, "transfer")
                         THEN [transfers EXCEPT ![tx.run] = @ + 1] ELSE transfers
         /\ since' = [since EXCEPT ![tx.run] = 0]
         /\ receipts' = receipts \cup {Timed!Store(tx.run, tx.proxy, timedRuns[tx.run].cycles)}
         /\ lastId' = lastId + 1
         /\ Timed!Settle(tx.run, "done")
         /\ UNCHANGED <<others, served, liquid>>
  BY DEF Timed!Mine, Timed!provider
<1> HIDE DEF p, n, tx, q
<1> DEFINE r == tx.run
<1>8. /\ r \in Runs /\ tx.proxy \in SaltNonces /\ timedRuns[r].pc \notin TimedUnsent
      /\ tx.actions = IF timedRuns[r].dapp = "two" THEN Timed!InitialTwo ELSE Timed!InitialOne
      /\ \A i \in 1 .. n : q[i].run = r => i = 1
  BY <1>2, <1>4 DEF OneSubmission, TimedTx
<1>9. /\ timedRuns' \in [Runs -> TimedRun]
      /\ \A o \in Runs : /\ timedRuns'[o].dapp = timedRuns[o].dapp
                         /\ timedRuns'[o].cycles = timedRuns[o].cycles
                         /\ timedRuns'[o].pc \in TimedUnsent <=> timedRuns[o].pc \in TimedUnsent
  <2>1. PICK pc \in {"done", "error"} : Timed!Settle(r, pc)
    BY <1>7
  <2> DEFINE c == [timedRuns[r] EXCEPT !.pc = pc]
  <2>2. timedRuns' = timedRuns \/ timedRuns' = [timedRuns EXCEPT ![r] = c]
    BY <1>1, <1>8, <2>1 DEF Timed!Settle
  <2>3. c \in TimedRun /\ c.dapp = timedRuns[r].dapp /\ c.cycles = timedRuns[r].cycles
        /\ c.pc \notin TimedUnsent
    <3>1. timedRuns[r] \in TimedRun
      BY <1>1, <1>8
    <3> QED
      BY <2>1, <3>1 DEF TimedRun, TimedUnsent
  <2> HIDE DEF c
  <2>4. CASE timedRuns' = [timedRuns EXCEPT ![r] = c]
    BY <1>1, <1>8, <2>3, <2>4
  <2> QED
    BY <1>1, <2>2, <2>4
<1>10. OneSubmission(timedRuns', p)
  <2>1. ASSUME NEW i \in 1 .. n - 1
        PROVE  /\ timedRuns'[p[i].run].pc \notin TimedUnsent
               /\ p[i].actions = IF timedRuns'[p[i].run].dapp = "two" THEN Timed!InitialTwo
                                 ELSE Timed!InitialOne
    <3>1. p[i] = q[i + 1] /\ i + 1 \in DOMAIN q /\ p[i].run \in Runs
      BY <1>2, <1>5
    <3> QED
      BY <1>4, <1>9, <3>1 DEF OneSubmission
  <2>2. ASSUME NEW i \in 1 .. n - 1, NEW j \in 1 .. n - 1, p[i].run = p[j].run PROVE i = j
    <3>1. q[i + 1].run = q[j + 1].run /\ i + 1 \in DOMAIN q /\ j + 1 \in DOMAIN q
      BY <1>2, <2>2
    <3>2. i + 1 = j + 1
      BY <1>4, <3>1 DEF OneSubmission
    <3> QED
      BY <1>2, <3>2
  <2> QED
    BY <1>2, <2>1, <2>2 DEF OneSubmission
<1>11. \A o \in Runs : Unmined(timedRuns'[o].pc, p, o) => Unmined(timedRuns[o].pc, q, o) /\ o # r
  <2>1. \A i \in DOMAIN p : p[i] = q[i + 1] /\ i + 1 \in DOMAIN q /\ p[i].run # r
    BY <1>2, <1>8
  <2> QED
    BY <1>8, <1>9, <2>1 DEF Unmined
<1>12. Unmined(timedRuns[r].pc, q, r)
  BY <1>2 DEF Unmined
<1>13. transfers[r] = 0 /\ \A tr \in receipts : tr.run # r
  BY <1>4, <1>8, <1>12 DEF OneReceipt
<1>14. \A tr \in receipts : /\ ReceiptOK(tr, timedRuns[tr.run], transfers, timer, since)
                            /\ tr.run \in Runs /\ tr.proxy \in SaltNonces /\ tr.id \in Timed!Ids
  BY <1>1 DEF TimedInv
<1> DEFINE before == Due(timedRuns, q, receipts, transfers)
<1>15. /\ before \subseteq Runs \X (1 .. MaxRounds)
       /\ lastId + Cardinality(before) <= others + MaxRounds * Cardinality(Runs)
  BY DEF TimedInv, Due, q
<1>16. FewTransfers(timedRuns, transfers)
  BY DEF TimedInv
<1>17. others \in Nat /\ lastId + 1 \in Nat
  BY <1>1, <1>3
<1>18. CASE UNCHANGED Timed!chain
  <2>1. UNCHANGED <<proxies, timer, receipts, lastId, others, transfers, since, served, liquid>>
    BY <1>18 DEF Timed!chain, Timed!provider
  <2>2. TimedTypes'
    BY <1>1, <1>2, <1>6, <1>9, <2>1 DEF TimedTypes
  <2>3. OneReceipt(timedRuns', p, receipts, transfers)
    BY <1>4, <1>11 DEF OneReceipt
  <2>4. \A tr \in receipts : ReceiptOK(tr, timedRuns'[tr.run], transfers, timer, since)
    BY <1>9, <1>14 DEF ReceiptOK
  <2>5. FewTransfers(timedRuns', transfers)
    BY <1>9, <1>16 DEF FewTransfers
  <2> DEFINE after == Due(timedRuns', p, receipts, transfers)
  <2>6. after \subseteq before
    BY <1>11 DEF Due
  <2> HIDE DEF before, after
  <2>7. lastId + Cardinality(after) <= others + MaxRounds * Cardinality(Runs)
    BY <1>1, <1>15, <1>17, <2>6, DueCount
  <2> QED
    BY <1>6, <1>10, <2>1, <2>2, <2>3, <2>4, <2>5, <2>7 DEF TimedInv, after
<1>19. CASE ~ UNCHANGED Timed!chain
  <2> DEFINE new == [id |-> lastId + 1, run |-> r, proxy |-> tx.proxy,
                     left |-> timedRuns[r].cycles]
  <2>1. /\ proxies' = proxies \cup {tx.proxy} /\ Timed!SetRefTime(tx.proxy, tx.actions)
        /\ since' = [since EXCEPT ![r] = 0] /\ receipts' = receipts \cup {new}
        /\ lastId' = lastId + 1 /\ UNCHANGED <<others, served, liquid>>
    BY <1>7, <1>19 DEF Timed!Store
  <2>2. transfers' = IF Timed!Includes(tx.actions, "transfer")
                     THEN [transfers EXCEPT ![r] = @ + 1] ELSE transfers
    BY <1>7, <1>19
  <2>3. /\ lastId + 1 \in Timed!Ids /\ new \in [id : Timed!Ids, run : Runs, proxy : SaltNonces, left : Nat]
        /\ timedRuns[r].cycles \in 0 .. MaxRounds
    <3>1. timedRuns[r].cycles \in 0 .. MaxRounds
      BY <1>1, <1>8 DEF TimedRun
    <3> QED
      BY <1>3, <1>8, <3>1, NextId
  <2>4. new.id = lastId + 1 /\ new.run = r /\ new.proxy = tx.proxy /\ new.left = timedRuns[r].cycles
    OBVIOUS
  <2>5. /\ timer' \in [SaltNonces -> [Timed!Ids -> 0 .. SecondsDelta]]
        /\ \A s \in SaltNonces, id \in Timed!Ids : timer'[s][id] >= timer[s][id]
        /\ Timed!Includes(tx.actions, "setRefTime") => timer'[tx.proxy][lastId + 1] = SecondsDelta
    BY <1>8, <2>1, Wound
  <2> HIDE DEF new
  <2>6. /\ transfers' \in [Runs -> Nat] /\ \A o \in Runs \ {r} : transfers'[o] = transfers[o]
        /\ timedRuns[r].dapp # "two" => transfers'[r] = 0
    BY <1>1, <1>8, <1>13, <2>2, TimedActions
  <2>7. /\ since' \in [Runs -> 0 .. SecondsDelta] /\ since'[r] = 0
        /\ \A o \in Runs \ {r} : since'[o] = since[o]
    <3>1. 0 \in 0 .. SecondsDelta
      BY <1>3
    <3> QED
      BY <1>1, <1>8, <2>1, <3>1
  <2>8. TimedTypes'
    <3>1. proxies' \subseteq SaltNonces /\ lastId' \in Nat
      BY <1>1, <1>8, <2>1
    <3>2. receipts' \subseteq [id : Timed!Ids, run : Runs, proxy : SaltNonces, left : Nat]
      BY <1>1, <2>1, <2>3
    <3> QED
      BY <1>1, <1>2, <1>6, <1>9, <2>1, <2>5, <2>6, <2>7, <3>1, <3>2 DEF TimedTypes
  <2>9. OneReceipt(timedRuns', p, receipts', transfers')
    <3>1. ASSUME NEW o \in Runs, Unmined(timedRuns'[o].pc, p, o)
          PROVE  transfers'[o] = 0 /\ \A tr \in receipts' : tr.run # o
      BY <1>4, <1>11, <2>1, <2>4, <2>6, <3>1 DEF OneReceipt
    <3>2. \A a, b \in receipts' : a.run = b.run => a = b
      BY <1>4, <1>13, <2>1, <2>4 DEF OneReceipt
    <3> QED
      BY <3>1, <3>2 DEF OneReceipt
  <2>10. ASSUME NEW tr \in receipts' PROVE ReceiptOK(tr, timedRuns'[tr.run], transfers', timer', since')
    <3>1. CASE tr = new
      <4>1. tr.left \in 0 .. MaxRounds /\ tr.left = timedRuns[r].cycles /\ 0 + tr.left <= timedRuns[r].cycles
        BY <1>3, <2>3, <2>4, <3>1
      <4>2. timedRuns[r].dapp # "two" => timer'[tr.proxy][tr.id] + since'[r] >= SecondsDelta
        BY <1>3, <1>8, <2>4, <2>5, <2>7, <3>1, TimedActions
      <4> QED
        BY <1>8, <1>9, <2>4, <2>6, <3>1, <4>1, <4>2 DEF ReceiptOK
    <3>2. CASE tr \in receipts
      <4>1. /\ tr.run \in Runs \ {r} /\ ReceiptOK(tr, timedRuns[tr.run], transfers, timer, since)
            /\ tr.proxy \in SaltNonces /\ tr.id \in Timed!Ids
        BY <1>13, <1>14, <3>2
      <4> DEFINE old == timer[tr.proxy][tr.id]
                 now == timer'[tr.proxy][tr.id]
                 gone == since[tr.run]
      <4>2. old \in Nat /\ now \in Nat /\ now >= old /\ gone \in Nat
        BY <1>1, <2>5, <4>1
      <4>3. since'[tr.run] = gone /\ transfers'[tr.run] = transfers[tr.run]
            /\ timedRuns'[tr.run].dapp = timedRuns[tr.run].dapp
            /\ timedRuns'[tr.run].cycles = timedRuns[tr.run].cycles
        BY <1>9, <2>6, <2>7, <4>1
      <4>4. timedRuns[tr.run].dapp # "two" => old + gone >= SecondsDelta
        BY <4>1 DEF ReceiptOK
      <4>5. old + gone >= SecondsDelta => now + gone >= SecondsDelta
        <5> HIDE DEF old, now, gone
        <5> QED
          BY <1>3, <4>2
      <4> QED
        BY <4>1, <4>3, <4>4, <4>5 DEF ReceiptOK
    <3> QED
      BY <2>1, <3>1, <3>2
  <2>11. FewTransfers(timedRuns', transfers')
    <3>1. \A o \in Runs : timedRuns[o].cycles \in Nat
      BY <1>1, <1>3 DEF TimedRun
    <3> QED
      BY <1>3, <1>9, <1>16, <2>6, <3>1 DEF FewTransfers
  <2> DEFINE after == Due(timedRuns', p, receipts', transfers')
             last == <<r, MaxRounds>>
  <2>12. ASSUME NEW e \in after PROVE e \in before /\ e # last
    <3>1. e \in Runs \X (1 .. MaxRounds)
      BY DEF Due
    <3>2. CASE Unmined(timedRuns'[e[1]].pc, p, e[1])
      BY <1>11, <3>1, <3>2 DEF Due
    <3>3. CASE ~ Unmined(timedRuns'[e[1]].pc, p, e[1])
      <4>1. PICK tr \in receipts' : tr.run = e[1] /\ e[2] < RoundsLeft(tr, transfers')
        BY <3>3 DEF Due
      <4>2. CASE tr = new
        <5>1. RoundsLeft(tr, transfers') <= MaxRounds /\ RoundsLeft(tr, transfers') \in Int
          BY <1>3, <1>8, <2>3, <2>4, <2>6, <4>2 DEF RoundsLeft
        <5> QED
          BY <1>3, <1>12, <2>4, <3>1, <4>1, <4>2, <5>1 DEF Due
      <4>3. CASE tr \in receipts
        <5>1. tr.run # r /\ RoundsLeft(tr, transfers') = RoundsLeft(tr, transfers)
          BY <1>13, <1>14, <2>6, <4>3 DEF RoundsLeft
        <5> QED
          BY <3>1, <4>1, <4>3, <5>1 DEF Due
      <4> QED
        BY <2>1, <4>1, <4>2, <4>3
    <3> QED
      BY <3>2, <3>3
  <2>13. last \in before
    BY <1>3, <1>8, <1>12 DEF Due
  <2> HIDE DEF before, after, last
  <2>14. after \subseteq before /\ last \notin after
    BY <2>12
  <2>15. (lastId + 1) + Cardinality(after) <= others + MaxRounds * Cardinality(Runs)
    BY <1>1, <1>15, <1>17, <2>13, <2>14, DueCount
  <2>16. lastId' + Cardinality(Due(timedRuns', timedPending', receipts', transfers')) <= others' + MaxRounds * Cardinality(Runs)
    BY <1>6, <2>1, <2>15 DEF after
  <2> QED
    BY <1>6, <1>10, <2>8, <2>9, <2>10, <2>11, <2>16 DEF TimedInv
<1> QED
  BY <1>18, <1>19

\* An execution: one transfer more, and one receipt less to come.
LEMMA TimedExec ==
  ASSUME Timed!TimedDappsAssumption, TimedInv, NEW tr \in receipts, Timed!Exec(tr)
  PROVE  TimedInv'
<1> DEFINE r == tr.run
           q == timedPending
<1>1. /\ timedRuns \in [Runs -> TimedRun] /\ q \in Seq(TimedTx)
      /\ timer \in [SaltNonces -> [Timed!Ids -> 0 .. SecondsDelta]]
      /\ receipts \subseteq [id : Timed!Ids, run : Runs, proxy : SaltNonces, left : Nat]
      /\ transfers \in [Runs -> Nat] /\ since \in [Runs -> 0 .. SecondsDelta]
      /\ proxies \subseteq SaltNonces /\ lastId \in Nat /\ others \in 0 .. MaxOthers
      /\ {served, liquid} \subseteq BOOLEAN
  BY DEF TimedInv, TimedTypes
<1>2. /\ MaxRounds \in Nat \ {0} /\ SecondsDelta \in Nat \ {0} /\ MaxOthers \in Nat
  BY TimedConstants
<1>3. \A x \in receipts : /\ ReceiptOK(x, timedRuns[x.run], transfers, timer, since)
                          /\ x.run \in Runs /\ x.proxy \in SaltNonces /\ x.id \in Timed!Ids
  BY <1>1 DEF TimedInv
<1>4. OneReceipt(timedRuns, q, receipts, transfers)
  BY DEF TimedInv
<1> DEFINE more == RoundsLeft(tr, transfers)
           fewer == IF tr.left = 0 THEN 0 ELSE tr.left - 1
<1>5. /\ r \in Runs /\ tr.proxy \in SaltNonces /\ tr.left \in 0 .. MaxRounds
      /\ tr.left # 1 => fewer \in 0 .. MaxRounds /\ (fewer = 0 <=> tr.left = 0)
      /\ tr.left # 1 => more \in 2 .. MaxRounds
  <2>1. r \in Runs /\ tr.proxy \in SaltNonces /\ tr.left \in 0 .. MaxRounds
    BY <1>3 DEF ReceiptOK
  <2>2. transfers[r] \in Nat /\ (tr.left = 0 => transfers[r] + 1 < MaxRounds)
    BY <1>1, <2>1 DEF Timed!Exec, Timed!WithinRounds
  <2> QED
    BY <1>2, <2>1, <2>2 DEF RoundsLeft
<1>6. ~ Unmined(timedRuns[r].pc, q, r)
  BY <1>4, <1>5 DEF OneReceipt
<1>7. /\ UNCHANGED <<timedRuns, timedPending, proxies, others>>
      /\ Timed!SetRefTime(tr.proxy, Timed!Task(timedRuns[r].dapp))
      /\ transfers' = [transfers EXCEPT ![r] = @ + 1] /\ since' = [since EXCEPT ![r] = 0]
      /\ lastId' = lastId + (IF tr.left # 1 THEN 1 ELSE 0)
      /\ served' = served /\ liquid' \in {liquid, FALSE}
  BY TimedActions DEF Timed!Exec, Timed!Transfer, Timed!Charged
<1> DEFINE new == [id |-> lastId + 1, run |-> r, proxy |-> tr.proxy, left |-> fewer]
<1>8. receipts' = (receipts \ {tr}) \cup IF tr.left # 1 THEN {new} ELSE {}
  BY DEF Timed!Exec, Timed!NextReceipts, Timed!Store
<1>9. /\ lastId + 1 \in Timed!Ids
      /\ tr.left # 1 => new \in [id : Timed!Ids, run : Runs, proxy : SaltNonces, left : Nat]
  BY <1>2, <1>5, NextId
<1>10. new.id = lastId + 1 /\ new.run = r /\ new.proxy = tr.proxy /\ new.left = fewer
  OBVIOUS
<1>11. /\ timer' \in [SaltNonces -> [Timed!Ids -> 0 .. SecondsDelta]]
       /\ \A s \in SaltNonces, id \in Timed!Ids : timer'[s][id] >= timer[s][id]
       /\ timer'[tr.proxy][lastId + 1] = SecondsDelta
  BY <1>5, <1>7, Wound, TimedActions
<1> HIDE DEF new
<1>12. /\ transfers' \in [Runs -> Nat] /\ transfers'[r] = transfers[r] + 1
       /\ \A o \in Runs \ {r} : transfers'[o] = transfers[o]
  BY <1>1, <1>5, <1>7
<1>13. /\ since' \in [Runs -> 0 .. SecondsDelta] /\ since'[r] = 0
       /\ \A o \in Runs \ {r} : since'[o] = since[o]
  <2>1. 0 \in 0 .. SecondsDelta
    BY <1>2
  <2> QED
    BY <1>1, <1>5, <1>7, <2>1
<1>14. TimedTypes'
  <2>1. receipts' \subseteq [id : Timed!Ids, run : Runs, proxy : SaltNonces, left : Nat]
    BY <1>1, <1>8, <1>9
  <2>2. lastId' \in Nat
    BY <1>1, <1>7
  <2>3. {served, liquid}' \subseteq BOOLEAN
    BY <1>1, <1>7
  <2> QED
    BY <1>1, <1>7, <1>11, <1>12, <1>13, <2>1, <2>2, <2>3 DEF TimedTypes
<1>15. \A x \in receipts : x.run = r => x = tr
  BY <1>4 DEF OneReceipt
<1>16. OneReceipt(timedRuns, q, receipts', transfers')
  <2>1. ASSUME NEW o \in Runs, Unmined(timedRuns[o].pc, q, o)
        PROVE  transfers'[o] = 0 /\ \A x \in receipts' : x.run # o
    <3>1. o # r /\ transfers[o] = 0 /\ \A x \in receipts : x.run # o
      BY <1>4, <1>6, <2>1 DEF OneReceipt
    <3> QED
      BY <1>8, <1>10, <1>12, <3>1
  <2>2. \A a, b \in receipts' : a.run = b.run => a = b
    BY <1>4, <1>8, <1>10, <1>15 DEF OneReceipt
  <2> QED
    BY <2>1, <2>2 DEF OneReceipt
<1>17. /\ tr.left = 0 <=> timedRuns[r].cycles = 0
       /\ timedRuns[r].dapp # "two" /\ timedRuns[r].cycles # 0
            => transfers[r] + tr.left <= timedRuns[r].cycles
  BY <1>3 DEF ReceiptOK
<1>18. ASSUME NEW x \in receipts' PROVE ReceiptOK(x, timedRuns[x.run], transfers', timer', since')
  <2>1. CASE tr.left # 1 /\ x = new
    <3>1. x.run = r /\ x.left = fewer /\ x.proxy = tr.proxy /\ x.id = lastId + 1
      BY <1>10, <2>1
    <3>2. fewer \in 0 .. MaxRounds /\ (fewer = 0 <=> timedRuns[r].cycles = 0)
      BY <1>2, <1>5, <1>17, <2>1
    <3>3. /\ timedRuns[r].dapp # "two" /\ timedRuns[r].cycles # 0
               => (transfers[r] + 1) + fewer <= timedRuns[r].cycles
      <4>1. timedRuns[r].cycles \in Nat
        BY <1>1, <1>2, <1>5 DEF TimedRun
      <4> QED
        BY <1>1, <1>2, <1>5, <1>17, <4>1
    <3>4. SecondsDelta + 0 >= SecondsDelta
      BY <1>2
    <3> QED
      BY <1>11, <1>12, <1>13, <1>17, <3>1, <3>2, <3>3, <3>4 DEF ReceiptOK
  <2>2. CASE ~ (tr.left # 1 /\ x = new)
    <3>1. /\ x \in receipts /\ x.run \in Runs \ {r}
          /\ ReceiptOK(x, timedRuns[x.run], transfers, timer, since)
          /\ x.proxy \in SaltNonces /\ x.id \in Timed!Ids
      BY <1>3, <1>8, <1>15, <2>2
    <3> DEFINE old == timer[x.proxy][x.id]
               now == timer'[x.proxy][x.id]
               gone == since[x.run]
    <3>2. old \in Nat /\ now \in Nat /\ now >= old /\ gone \in Nat
      <4>1. old \in 0 .. SecondsDelta /\ now \in 0 .. SecondsDelta /\ gone \in 0 .. SecondsDelta
        <5>1. /\ \A s \in SaltNonces, id \in Timed!Ids : timer[s][id] \in 0 .. SecondsDelta
              /\ \A s \in SaltNonces, id \in Timed!Ids : timer'[s][id] \in 0 .. SecondsDelta
              /\ \A o \in Runs : since[o] \in 0 .. SecondsDelta
          BY <1>1, <1>11
        <5> QED
          BY <3>1, <5>1
      <4>2. now >= old
        BY <1>11, <3>1
      <4> HIDE DEF old, now, gone
      <4> QED
        BY <1>2, <4>1, <4>2
    <3>3. since'[x.run] = gone /\ transfers'[x.run] = transfers[x.run]
      BY <1>12, <1>13, <3>1
    <3>4. timedRuns[x.run].dapp # "two" => old + gone >= SecondsDelta
      BY <3>1 DEF ReceiptOK
    <3>5. old + gone >= SecondsDelta => now + gone >= SecondsDelta
      <4> HIDE DEF old, now, gone
      <4> QED
        BY <1>2, <3>2
    <3> QED
      BY <3>1, <3>3, <3>4, <3>5 DEF ReceiptOK
  <2> QED
    BY <2>1, <2>2
<1>19. FewTransfers(timedRuns, transfers')
  <2>1. timedRuns[r].dapp # "two" /\ timedRuns[r].cycles # 0 => transfers[r] + 1 <= timedRuns[r].cycles
    <3>1. timedRuns[r].cycles \in Nat
      BY <1>1, <1>2, <1>5 DEF TimedRun
    <3> QED
      BY <1>1, <1>2, <1>5, <1>17, <3>1
  <2>2. FewTransfers(timedRuns, transfers)
    BY DEF TimedInv
  <2> QED
    BY <1>12, <2>1, <2>2 DEF FewTransfers
<1> DEFINE before == Due(timedRuns, q, receipts, transfers)
           after == Due(timedRuns, q, receipts', transfers')
           last == <<r, more - 1>>
<1>20. /\ before \subseteq Runs \X (1 .. MaxRounds)
       /\ lastId + Cardinality(before) <= others + MaxRounds * Cardinality(Runs)
  BY DEF TimedInv, Due
<1>21. ASSUME NEW e \in after PROVE e \in before /\ e # last
  <2>1. e \in Runs \X (1 .. MaxRounds)
    BY DEF Due
  <2>2. CASE Unmined(timedRuns[e[1]].pc, q, e[1])
    BY <1>6, <2>1, <2>2 DEF Due
  <2>3. CASE ~ Unmined(timedRuns[e[1]].pc, q, e[1])
    <3>1. PICK x \in receipts' : x.run = e[1] /\ e[2] < RoundsLeft(x, transfers')
      BY <2>3 DEF Due
    <3>2. CASE x \in receipts \ {tr}
      <4>1. x.run \in Runs \ {r} /\ RoundsLeft(x, transfers') = RoundsLeft(x, transfers)
        BY <1>3, <1>12, <1>15, <3>2 DEF RoundsLeft
      <4> QED
        BY <2>1, <3>1, <3>2, <4>1 DEF Due
    <3>3. CASE tr.left # 1 /\ x = new
      <4>1. RoundsLeft(x, transfers') = more - 1
        BY <1>1, <1>2, <1>5, <1>10, <1>12, <3>3 DEF RoundsLeft
      <4>2. e[1] = r /\ e[2] < more - 1 /\ e[2] < more /\ e[2] # more - 1
        BY <1>2, <1>5, <1>10, <2>1, <3>1, <3>3, <4>1
      <4> QED
        BY <2>1, <4>2 DEF Due
    <3> QED
      BY <1>8, <3>1, <3>2, <3>3
  <2> QED
    BY <2>2, <2>3
<1>22. tr.left # 1 => last \in before
  <2>1. tr.left # 1 => more - 1 \in 1 .. MaxRounds /\ more - 1 < more
    BY <1>2, <1>5
  <2> QED
    BY <1>5, <2>1 DEF Due
<1>23. others \in Nat /\ lastId + 1 \in Nat
  BY <1>1, <1>2
<1> HIDE DEF before, after, last
<1>24. after \subseteq before /\ last \notin after
  BY <1>21
<1>25. lastId' + Cardinality(after) <= others + MaxRounds * Cardinality(Runs)
  <2>1. CASE tr.left # 1
    <3>1. (lastId + 1) + Cardinality(after) <= others + MaxRounds * Cardinality(Runs)
      BY <1>1, <1>20, <1>22, <1>23, <1>24, <2>1, DueCount
    <3> QED
      BY <1>7, <2>1, <3>1
  <2>2. CASE tr.left = 1
    <3>1. lastId + Cardinality(after) <= others + MaxRounds * Cardinality(Runs)
      BY <1>1, <1>20, <1>23, <1>24, DueCount
    <3>2. lastId' = lastId
      BY <1>1, <1>7, <2>2
    <3> QED
      BY <3>1, <3>2
  <2> QED
    BY <2>1, <2>2
<1>26. OneSubmission(timedRuns, q)
  BY DEF TimedInv
<1> QED
  BY <1>7, <1>14, <1>16, <1>18, <1>19, <1>25, <1>26 DEF TimedInv, after

LEMMA TimedReverts ==
  ASSUME Timed!TimedDappsAssumption, TimedInv, NEW tr \in receipts,
         Timed!ExecReverted(tr) \/ Timed!ExecAborted(tr)
  PROVE  TimedInv'
<1>1. /\ receipts' = receipts \ {tr}
      /\ UNCHANGED <<timedRuns, timedPending, proxies, timer, lastId, others, transfers, since>>
      /\ served' = served /\ liquid' \in {liquid, FALSE}
  BY DEF Timed!ExecReverted, Timed!ExecAborted, Timed!Charged
<1>2. TimedTypes'
  BY <1>1 DEF TimedInv, TimedTypes
<1>3. OneReceipt(timedRuns, timedPending, receipts', transfers)
  BY <1>1 DEF TimedInv, OneReceipt
<1> DEFINE before == Due(timedRuns, timedPending, receipts, transfers)
           after == Due(timedRuns, timedPending, receipts', transfers)
<1>4. after \subseteq before /\ before \subseteq Runs \X (1 .. MaxRounds)
  BY <1>1 DEF Due
<1>5. lastId \in Nat /\ others \in Nat /\ lastId + Cardinality(before) <= others + MaxRounds * Cardinality(Runs)
  BY TimedConstants DEF TimedInv, TimedTypes
<1> HIDE DEF before, after
<1>6. lastId + Cardinality(after) <= others + MaxRounds * Cardinality(Runs)
  BY <1>4, <1>5, DueCount
<1> QED
  BY <1>1, <1>2, <1>3, <1>6 DEF TimedInv, after

LEMMA TimedOthers ==
  ASSUME Timed!TimedDappsAssumption, TimedInv, Timed!OtherSubmits
  PROVE  TimedInv'
<1>1. /\ others < MaxOthers /\ others' = others + 1 /\ lastId' = lastId + 1
      /\ UNCHANGED <<timedRuns, timedPending, proxies, timer, receipts, transfers, since, served, liquid>>
  BY DEF Timed!OtherSubmits, Timed!provider
<1>2. others \in Nat /\ lastId \in Nat /\ others' \in 0 .. MaxOthers /\ lastId' \in Nat /\ others' \in Nat
  BY <1>1, TimedConstants DEF TimedInv, TimedTypes
<1>3. TimedTypes'
  BY <1>1, <1>2 DEF TimedInv, TimedTypes
<1> DEFINE due == Due(timedRuns, timedPending, receipts, transfers)
<1>4. due \subseteq Runs \X (1 .. MaxRounds) /\ lastId + Cardinality(due) <= others + MaxRounds * Cardinality(Runs)
  BY DEF Due, TimedInv
<1> HIDE DEF due
<1>5. lastId' + Cardinality(due) <= others' + MaxRounds * Cardinality(Runs)
  BY <1>1, <1>2, <1>4, DueCount
<1> QED
  BY <1>1, <1>3, <1>5 DEF TimedInv, due

\* Each timer and the time since a run's transfer go together.
LEMMA TimedTick ==
  ASSUME Timed!TimedDappsAssumption, TimedInv, Timed!Tick
  PROVE  TimedInv'
<1>1. /\ timer' = [p \in SaltNonces |-> [id \in Timed!Ids |-> IF timer[p][id] = 0 THEN 0 ELSE timer[p][id] - 1]]
      /\ since' = [r \in Runs |-> IF since[r] = SecondsDelta THEN since[r] ELSE since[r] + 1]
      /\ UNCHANGED <<timedRuns, timedPending, proxies, receipts, lastId, others, transfers, served, liquid>>
  BY DEF Timed!Tick, Timed!provider
<1>2. /\ timer \in [SaltNonces -> [Timed!Ids -> 0 .. SecondsDelta]]
      /\ since \in [Runs -> 0 .. SecondsDelta] /\ SecondsDelta \in Nat
      /\ receipts \subseteq [id : Timed!Ids, run : Runs, proxy : SaltNonces, left : Nat]
  BY TimedConstants DEF TimedInv, TimedTypes
<1>3. \A k \in 0 .. SecondsDelta : /\ (IF k = 0 THEN 0 ELSE k - 1) \in 0 .. SecondsDelta
                                   /\ (IF k = SecondsDelta THEN k ELSE k + 1) \in 0 .. SecondsDelta
  BY <1>2
<1>4. timer' \in [SaltNonces -> [Timed!Ids -> 0 .. SecondsDelta]]
  <2>1. \A p \in SaltNonces, id \in Timed!Ids : timer[p][id] \in 0 .. SecondsDelta
    BY <1>2
  <2> QED
    BY <1>1, <1>3, <2>1
<1>5. since' \in [Runs -> 0 .. SecondsDelta]
  BY <1>1, <1>2, <1>3
<1>6. TimedTypes'
  BY <1>1, <1>4, <1>5 DEF TimedInv, TimedTypes
<1>7. \A k, g \in 0 .. SecondsDelta :
        k + g >= SecondsDelta =>
          (IF k = 0 THEN 0 ELSE k - 1) + (IF g = SecondsDelta THEN g ELSE g + 1) >= SecondsDelta
  BY <1>2
<1>8. ASSUME NEW tr \in receipts
      PROVE  ReceiptOK(tr, timedRuns[tr.run], transfers, timer', since')
  <2>1. /\ tr.run \in Runs /\ tr.proxy \in SaltNonces /\ tr.id \in Timed!Ids
        /\ ReceiptOK(tr, timedRuns[tr.run], transfers, timer, since)
    BY <1>2 DEF TimedInv
  <2>2. /\ timer'[tr.proxy][tr.id] = IF timer[tr.proxy][tr.id] = 0 THEN 0 ELSE timer[tr.proxy][tr.id] - 1
        /\ since'[tr.run] = IF since[tr.run] = SecondsDelta THEN since[tr.run] ELSE since[tr.run] + 1
        /\ timer[tr.proxy][tr.id] \in 0 .. SecondsDelta /\ since[tr.run] \in 0 .. SecondsDelta
    BY <1>1, <1>2, <2>1
  <2>3. timer[tr.proxy][tr.id] + since[tr.run] >= SecondsDelta
          => timer'[tr.proxy][tr.id] + since'[tr.run] >= SecondsDelta
    BY <1>7, <2>2
  <2> QED
    BY <2>1, <2>3 DEF ReceiptOK
<1> QED
  BY <1>1, <1>6, <1>8 DEF TimedInv

\* The provider's state is its own.
LEMMA TimedProvider ==
  ASSUME TimedInv, Timed!FundsChange \/ Timed!TermsChange
  PROVE  TimedInv'
<1>1. UNCHANGED <<timedRuns, timedPending, proxies, timer, receipts, lastId, others, transfers, since>>
  BY DEF Timed!FundsChange, Timed!TermsChange
<1>2. {served, liquid}' \subseteq BOOLEAN
  BY DEF Timed!FundsChange, Timed!TermsChange, TimedInv, TimedTypes
<1>3. TimedTypes'
  BY <1>1, <1>2 DEF TimedInv, TimedTypes
<1> QED
  BY <1>1, <1>3 DEF TimedInv

LEMMA TimedStep ==
  ASSUME Timed!TimedDappsAssumption, TimedInv, [Timed!Next]_(Timed!vars)
  PROVE  TimedInv'
<1>1. CASE UNCHANGED Timed!vars
  BY <1>1 DEF Timed!vars, Timed!provider, TimedInv, TimedTypes
<1> QED
  BY <1>1, TimedSteps, TimedMine, TimedExec, TimedReverts, TimedProvider, TimedOthers, TimedTick
     DEF Timed!Next

\* Tokens leave the account where the timer of the receipt has run out.
LEMMA TimedSpaced ==
  ASSUME Timed!TimedDappsAssumption, TimedInv, [Timed!Next]_(Timed!vars),
         NEW r \in Runs, timedRuns[r].dapp # "two"
  PROVE  Timed!SpacedTransferOf(r)
<1>1. /\ transfers \in [Runs -> Nat] /\ timer \in [SaltNonces -> [Timed!Ids -> 0 .. SecondsDelta]]
      /\ since \in [Runs -> 0 .. SecondsDelta] /\ SecondsDelta \in Nat
      /\ receipts \subseteq [id : Timed!Ids, run : Runs, proxy : SaltNonces, left : Nat]
      /\ timedPending \in Seq(TimedTx)
  BY TimedConstants DEF TimedInv, TimedTypes
<1>2. SUFFICES ASSUME transfers'[r] > transfers[r]
               PROVE  since[r] = SecondsDelta /\ \E tr \in receipts : tr.run = r
  BY DEF Timed!SpacedTransferOf
<1>3. transfers' # transfers
  BY <1>1, <1>2
<1>4. ~ Timed!Mine
  <2> SUFFICES ASSUME Timed!Mine PROVE FALSE
    OBVIOUS
  <2> DEFINE tx == Head(timedPending)
  <2>1. /\ tx \in TimedTx /\ 1 \in DOMAIN timedPending /\ tx = timedPending[1]
    BY <1>1, Taken DEF Timed!Mine
  <2>2. transfers' = [transfers EXCEPT ![tx.run] = @ + 1] /\ Timed!Includes(tx.actions, "transfer")
    BY <1>3 DEF Timed!Mine, Timed!chain
  <2>3. tx.actions = IF timedRuns[tx.run].dapp = "two" THEN Timed!InitialTwo ELSE Timed!InitialOne
    BY <2>1 DEF TimedInv, OneSubmission
  <2> HIDE DEF tx
  <2>4. tx.run # r
    BY <2>2, <2>3, TimedActions
  <2> QED
    BY <1>1, <1>2, <2>2, <2>4
<1>5. PICK tr \in receipts : Timed!Exec(tr)
  <2>1. UNCHANGED transfers \/ \E tr \in receipts : Timed!Exec(tr)
    BY <1>4 DEF Timed!Next, Timed!vars, Timed!chain, Timed!Start, Timed!Step, Timed!Reject,
                Timed!BuildBalanceTransfer, Timed!BuildTask, Timed!CheckDeployed, Timed!SubmitOne,
                Timed!SubmitTwo, Timed!ExecReverted, Timed!ExecAborted, Timed!OtherSubmits, Timed!Tick,
                Timed!FundsChange, Timed!TermsChange
  <2> QED
    BY <1>3, <2>1
<1>6. transfers' = [transfers EXCEPT ![tr.run] = @ + 1] /\ timer[DefaultNonce][tr.id] = 0
      /\ tr.proxy = DefaultNonce
  BY <1>5, TimedActions DEF Timed!Exec, Timed!Transfer, Timed!CanExec, Timed!ConditionOk, Timed!CanPay,
                            Timed!Predicted
<1>7. tr.run = r
  BY <1>1, <1>2, <1>6
<1>8. timer[tr.proxy][tr.id] + since[r] >= SecondsDelta /\ since[r] \in 0 .. SecondsDelta
  BY <1>1, <1>7 DEF TimedInv, ReceiptOK
<1>9. since[r] = SecondsDelta
  BY <1>1, <1>6, <1>8
<1> QED
  BY <1>7, <1>9

LEMMA TimedAtMost ==
  ASSUME TimedInv, NEW r \in Runs, timedRuns[r].dapp # "two"
  PROVE  Timed!AtMostCyclesOf(r)
  BY DEF TimedInv, ReceiptOK, FewTransfers, Timed!AtMostCyclesOf

-----------------------------------------------------------------------------
(* The scripts side by side.                                                *)

LEMMA DappsStep ==
  ASSUME [DappsNext]_dappsVars
  PROVE  [Next]_vars /\ [Timed!Next]_(Timed!vars) /\ [Self!Next]_(Self!vars)
<1>1. ASSUME UNCHANGED timedVars PROVE UNCHANGED Timed!vars
  BY <1>1 DEF timedVars, Timed!vars, Timed!provider
<1>2. ASSUME UNCHANGED selfVars PROVE UNCHANGED Self!vars
  BY <1>2 DEF selfVars, selfChain, Self!vars, Self!chain, Self!ether
<1> QED
  BY <1>1, <1>2 DEF DappsNext, SafeMoves, TimedMoves, SelfMoves, dappsVars

\* For every number of runs, amount, fee and frequency, when scripts are run for
\* the account that signs: no task before its module, no approval still pending,
\* and one sell amount for each task of timeTrade.
THEOREM SafeIsPreparedTheorem ==
  ASSUME Users \subseteq {FirstSigner}
  PROVE  DappsSpec => []SafeIsPrepared
<1>1. SafeClientsAssumption /\ FirstSigner \in Signers
  BY DappsAssumption DEF SafeClientsAssumption
<1>2. DappsInit => SafeInv
  BY <1>1, SafeInit DEF DappsInit
<1>3. SafeInv /\ [DappsNext]_dappsVars => SafeInv'
  BY <1>1, SafeStep, DappsStep
<1>4. SafeInv => SafeIsPrepared
  BY <1>1, SafePrepared
<1> QED
  BY <1>2, <1>3, <1>4, PTL DEF DappsSpec

\* For every number of runs, cycles, interval and salt: the transfers of a run
\* keep their distance and their number.
THEOREM TransfersSpacedTheorem == DappsSpec => TransfersSpaced
<1>1. Timed!TimedDappsAssumption
  BY DappsAssumption
<1>2. DappsInit => TimedInv
  BY <1>1, TimedInit DEF DappsInit
<1>3. TimedInv /\ [DappsNext]_dappsVars => TimedInv'
  BY <1>1, TimedStep, DappsStep
<1>4. TimedInv => Timed!TypeOK
  BY <1>1, TimedTypeOK
<1>5. TimedInv => \A r \in Runs : timedRuns[r].dapp # "two" => Timed!AtMostCyclesOf(r)
  BY TimedAtMost
<1>6. TimedInv /\ [DappsNext]_dappsVars
        => [\A r \in Runs : timedRuns[r].dapp # "two" => Timed!SpacedTransferOf(r)]_dappsVars
  BY <1>1, TimedSpaced, DappsStep
<1> QED
  BY <1>2, <1>3, <1>4, <1>5, <1>6, PTL DEF DappsSpec, TransfersSpaced

\* For every number of runs, gas price, gas and funds: the setup of exampleThree
\* precedes its task, and no ether is lost.
THEOREM SetupPrecedesTaskTheorem == DappsSpec => []SetupPrecedesTask
<1>1. Self!SelfProviderAssumption
  BY DappsAssumption
<1>2. DappsInit => SelfInv
  BY <1>1, SelfInit DEF DappsInit
<1>3. SelfInv /\ [DappsNext]_dappsVars => SelfInv'
  BY <1>1, SelfStep, DappsStep
<1>4. SelfInv => SetupPrecedesTask
  BY DEF SelfInv, SetupPrecedesTask, SelfTypes, SelfRun, SelfTx, Self!TypeOK
<1> QED
  BY <1>2, <1>3, <1>4, PTL DEF DappsSpec
=============================================================================
