---------------------------- MODULE ReceiptProofs ----------------------------
(* Proofs about the scripts that fetch, execute and cancel task receipts:   *)
(* for any number of runs of scripts, of users and of receipts.             *)
EXTENDS ReceiptClients, SequenceTheorems, FiniteSetTheorems, TLAPS

-----------------------------------------------------------------------------
(* Receipts: what is decoded from a log, made an object and encoded again   *)
(* is what it was.                                                          *)

Receipts ==
  {ReceiptArray(id, userProxy, index, Tasks(content), cycleId, left) :
     id \in Nat, userProxy \in {"safe", "proxy"}, index \in Nat, content \in Contents,
     cycleId \in Nat, left \in Nat}

IsList(s) == s = [i \in DOMAIN s |-> s[i]]

LEMMA ActionConverts ==
  ASSUME NEW operation, NEW value
  PROVE  LET a == ActionArray(operation, value) IN ActionOf(ActionObj(a)) = a
  BY DEF ActionArray, ActionObj, ActionOf

LEMMA TaskConverts ==
  ASSUME NEW operation, NEW value
  PROVE  LET t == TaskArray(<<ActionArray(operation, value)>>) IN TaskOf(TaskObj(t)) = t
<1> DEFINE a == ActionArray(operation, value)
           t == TaskArray(<<a>>)
           o == TaskObj(t)
<1>1. ActionOf(ActionObj(a)) = a
  BY ActionConverts
<1> HIDE DEF a
<1>2. t = <<<<>>, <<a>>, 0, 0>>
  BY DEF TaskArray
<1>3. /\ o.conditions = <<>> /\ o.selfProviderGasLimit = 0 /\ o.selfProviderGasPriceCeil = 0
      /\ o.actions = [i \in DOMAIN <<a>> |-> ActionObj(<<a>>[i])]
  BY <1>2 DEF TaskObj
<1> HIDE DEF t, o
<1>4. [i \in DOMAIN o.actions |-> ActionOf(o.actions[i])] = <<a>>
  <2>1. DOMAIN o.actions = 1..1 /\ DOMAIN <<a>> = 1..1
    BY <1>3
  <2>2. \A i \in 1..1 : ActionOf(o.actions[i]) = <<a>>[i]
    BY <1>1, <1>3
  <2> QED
    BY <2>1, <2>2
<1>5. TaskOf(o) = t
  BY <1>2, <1>3, <1>4 DEF TaskOf
<1> QED
  BY <1>5 DEF t, o, a

LEMMA TasksConvert ==
  ASSUME ReceiptClientsAssumption, NEW content \in Contents
  PROVE  LET ts == Tasks(content) IN
         /\ Len(ts) \in Nat \ {0} /\ IsList(ts)
         /\ \A i \in DOMAIN ts : TaskOf(TaskObj(ts[i])) = ts[i]
<1> DEFINE t1 == TaskArray(<<ActionArray(1, 0)>>)
           t2 == TaskArray(<<ActionArray(0, 1)>>)
           t3 == TaskArray(<<ActionArray(1, 1)>>)
<1>1. TaskOf(TaskObj(t1)) = t1 /\ TaskOf(TaskObj(t2)) = t2 /\ TaskOf(TaskObj(t3)) = t3
  BY TaskConverts
<1>2. Tasks(content) \in {<<t1>>, <<t1, t2>>, <<t3>>}
  BY DEF Tasks, ReceiptClientsAssumption
<1> HIDE DEF t1, t2, t3
<1>3. ASSUME NEW t, TaskOf(TaskObj(t)) = t
      PROVE  /\ Len(<<t>>) \in Nat \ {0} /\ IsList(<<t>>)
             /\ \A i \in DOMAIN <<t>> : TaskOf(TaskObj(<<t>>[i])) = <<t>>[i]
  BY <1>3 DEF IsList
<1>4. ASSUME NEW t, NEW u, TaskOf(TaskObj(t)) = t, TaskOf(TaskObj(u)) = u
      PROVE  /\ Len(<<t, u>>) \in Nat \ {0} /\ IsList(<<t, u>>)
             /\ \A i \in DOMAIN <<t, u>> : TaskOf(TaskObj(<<t, u>>[i])) = <<t, u>>[i]
  BY <1>4 DEF IsList
<1> QED
  BY <1>1, <1>2, <1>3, <1>4

LEMMA ReceiptFields ==
  ASSUME NEW r \in Receipts
  PROVE  /\ r = ReceiptArray(r[1], r[2], r[4], r[5], r[7], r[8]) /\ r # <<>>
         /\ r[1] \in Nat /\ r[2] \in {"safe", "proxy"} /\ r[4] \in Nat
         /\ \E content \in Contents : r[5] = Tasks(content)
         /\ r[7] \in Nat /\ r[8] \in Nat
<1>1. PICK id \in Nat, userProxy \in {"safe", "proxy"}, index \in Nat,
           content \in Contents, cycleId \in Nat, left \in Nat :
        r = ReceiptArray(id, userProxy, index, Tasks(content), cycleId, left)
  BY DEF Receipts
<1> QED
  BY <1>1 DEF ReceiptArray

\* What a script hands to GelatoCore is, byte for byte, what GelatoCore has
\* logged: convertTaskReceiptObjToArray undoes convertTaskReceiptArrayToObj.
THEOREM ConversionIsExact ==
  ReceiptClientsAssumption => \A r \in Receipts : ToArray(ToObj(r)) = r
<1> SUFFICES ASSUME ReceiptClientsAssumption, NEW r \in Receipts
             PROVE  ToArray(ToObj(r)) = r
  OBVIOUS
<1> DEFINE o == ToObj(r)
           ts == r[5]
<1>1. r = <<r[1], r[2], <<1, 1>>, r[4], r[5], 0, r[7], r[8]>>
  BY ReceiptFields DEF ReceiptArray
<1>2. IsList(ts) /\ \A i \in DOMAIN ts : TaskOf(TaskObj(ts[i])) = ts[i]
  BY ReceiptFields, TasksConvert
<1>3. /\ o.id = r[1] /\ o.userProxy = r[2] /\ o.provider.addr = 1 /\ o.provider.module = 1
      /\ o.index = r[4] /\ o.expiryDate = 0 /\ o.cycleId = r[7]
      /\ o.submissionsLeft = r[8] /\ o.tasks = [i \in DOMAIN ts |-> TaskObj(ts[i])]
  <2>1. r[3][1] = 1 /\ r[3][2] = 1 /\ r[6] = 0
    BY <1>1
  <2> QED
    BY <2>1 DEF ToObj
<1> HIDE DEF o
<1>4. [i \in DOMAIN o.tasks |-> TaskOf(o.tasks[i])] = ts
  BY <1>2, <1>3 DEF IsList
<1>5. ToArray(o) = <<r[1], r[2], <<1, 1>>, r[4], ts, 0, r[7], r[8]>>
  BY <1>3, <1>4 DEF ToArray
<1> QED
  BY <1>1, <1>5 DEF o

LEMMA SuccessorIsReceipt ==
  ASSUME ReceiptClientsAssumption, NEW r \in Receipts, Submitted \in Nat
  PROVE  NextOf(r) \in Receipts /\ NextOf(r)[1] = Submitted + 1
<1> DEFINE id == Submitted + 1
           index == (r[4] + 1) % Len(r[5])
           left == IF r[8] = 0 THEN 0 ELSE r[8] - 1
<1>1. PICK content \in Contents : r[5] = Tasks(content) /\ Len(r[5]) \in Nat \ {0}
  BY ReceiptFields, TasksConvert
<1>2. id \in Nat /\ index \in Nat /\ left \in Nat
  BY <1>1, ReceiptFields
<1>3. NextOf(r) = ReceiptArray(id, r[2], index, Tasks(content), r[7], left)
  BY <1>1 DEF NextOf
<1> HIDE DEF id, index, left
<1>4. NextOf(r) \in Receipts /\ NextOf(r)[1] = id
  BY SMTT(40), <1>2, <1>3, ReceiptFields DEF Receipts, ReceiptArray
<1> QED
  BY <1>4 DEF id

LEMMA NewIsReceipt ==
  ASSUME NEW id \in Nat, NEW userProxy \in {"safe", "proxy"}, NEW content \in Contents
  PROVE  /\ NewReceipt(id, userProxy, content) \in Receipts
         /\ NewReceipt(id, userProxy, content)[1] = id
  BY DEF NewReceipt, Receipts, ReceiptArray

-----------------------------------------------------------------------------
(* The contract: a receipt is stored under the number of its log until it   *)
(* is executed, cancelled or annulled, and no number ends twice.            *)

Entries == [block : Nat, receipt : Receipts]

LogsOK(l) ==
  /\ l \in Seq(Entries)
  /\ \A i \in DOMAIN l : l[i].receipt[1] = i /\ l[i].block >= DefaultFrom

StoredOK(l, S) ==
  \A r \in S : r \in Receipts /\ r[1] \in DOMAIN l /\ l[r[1]].receipt = r

\* Numbers of receipts that are no longer stored, each once.
EndedOK(e, l, S) ==
  /\ e \in Seq(Nat)
  /\ \A i \in DOMAIN e : e[i] \in DOMAIN l /\ \A r \in S : r[1] # e[i]
  /\ \A i, j \in DOMAIN e : e[i] = e[j] => i = j

Disjoint(e, f) == \A i \in DOMAIN e, j \in DOMAIN f : e[i] # f[j]

Dated == \A i \in DOMAIN logs : logs[i].block <= blocks

ChainInv ==
  /\ blocks \in Nat /\ blocks >= DefaultFrom /\ Dated
  /\ LogsOK(logs) /\ StoredOK(logs, stored)
  /\ EndedOK(executed, logs, stored) /\ EndedOK(cancelled, logs, stored)
  /\ Disjoint(executed, cancelled)

\* New receipts are logged on top, in the order of their numbers.
LEMMA LogsGrow ==
  ASSUME ReceiptClientsAssumption, ChainInv, NEW rs \in Seq(Receipts),
         \A i \in DOMAIN rs : rs[i][1] = Submitted + i,
         logs' = logs \o Log(blocks + 1, rs)
  PROVE  /\ LogsOK(logs')
         /\ \A i \in DOMAIN logs : i \in DOMAIN logs' /\ logs'[i] = logs[i]
         /\ \A i \in DOMAIN logs' : i \in DOMAIN logs \/ logs'[i].block = blocks + 1
         /\ \A i \in DOMAIN rs : /\ rs[i][1] \in DOMAIN logs' /\ rs[i][1] \notin DOMAIN logs
                                 /\ logs'[rs[i][1]].receipt = rs[i]
<1> DEFINE l == logs'
           new == Log(blocks + 1, rs)
<1>l. l = logs \o new
  OBVIOUS
<1> HIDE DEF l
<1>1. /\ new \in Seq(Entries) /\ Len(new) = Len(rs) /\ Len(rs) \in Nat
      /\ DOMAIN rs = 1..Len(rs)
      /\ \A i \in 1..Len(rs) : new[i] = [block |-> blocks + 1, receipt |-> rs[i]]
  <2>1. /\ DOMAIN rs = 1..Len(rs) /\ Len(rs) \in Nat
        /\ \A i \in 1..Len(rs) : rs[i] \in Receipts
    OBVIOUS
  <2>2. \A i \in 1..Len(rs) : [block |-> blocks + 1, receipt |-> rs[i]] \in Entries
    BY <2>1 DEF ChainInv, Entries
  <2> QED
    BY <2>1, <2>2 DEF Log
<1>2. /\ logs \in Seq(Entries) /\ Len(logs) \in Nat /\ DOMAIN logs = 1..Len(logs)
      /\ blocks \in Nat /\ blocks >= DefaultFrom /\ DefaultFrom \in Nat
  BY DEF ChainInv, LogsOK, ReceiptClientsAssumption
<1> HIDE DEF new
<1>3. /\ l \in Seq(Entries) /\ Len(l) = Len(logs) + Len(rs) /\ DOMAIN l = 1..Len(l)
      /\ \A i \in 1..Len(logs) : l[i] = logs[i]
      /\ \A i \in 1..Len(rs) : l[Len(logs) + i] = new[i]
  <2>1. l = logs \o new
    BY <1>l DEF new
  <2>2. /\ l \in Seq(Entries) /\ Len(l) = Len(logs) + Len(new)
        /\ \A i \in 1..Len(l) : l[i] = IF i <= Len(logs) THEN logs[i]
                                     ELSE new[i - Len(logs)]
    <3>1. logs \in Seq(Entries) /\ new \in Seq(Entries)
      BY <1>1, <1>2
    <3>2. /\ (logs \o new) \in Seq(Entries) /\ Len(logs \o new) = Len(logs) + Len(new)
          /\ \A i \in 1..Len(logs) + Len(new) :
                (logs \o new)[i] = IF i <= Len(logs) THEN logs[i]
                                   ELSE new[i - Len(logs)]
      BY ONLY <3>1, ConcatProperties
    <3> QED
      BY <2>1, <3>2
  <2>3. ASSUME NEW i \in 1..Len(rs) PROVE l[Len(logs) + i] = new[i]
    <3>1. /\ Len(logs) + i \in 1..Len(l) /\ ~ (Len(logs) + i <= Len(logs))
          /\ (Len(logs) + i) - Len(logs) = i
      BY <1>1, <1>2, <2>2
    <3> QED
      BY <2>2, <3>1
  <2>4. \A i \in 1..Len(logs) : l[i] = logs[i]
    BY <1>1, <1>2, <2>2
  <2> QED
    BY <1>1, <2>2, <2>3, <2>4
<1>4. ASSUME NEW i \in DOMAIN l
      PROVE  /\ l[i].receipt[1] = i /\ l[i].block >= DefaultFrom
             /\ i \in DOMAIN logs \/ l[i].block = blocks + 1
  <2>1. CASE i \in 1..Len(logs)
    BY <1>2, <1>3, <2>1 DEF ChainInv, LogsOK
  <2>2. CASE i \notin 1..Len(logs)
    <3>1. PICK k \in 1..Len(rs) : i = Len(logs) + k
      <4>1. i - Len(logs) \in 1..Len(rs) /\ i = Len(logs) + (i - Len(logs))
        BY <1>1, <1>2, <1>3, <2>2
      <4> QED
        BY <4>1
    <3>2. l[i] = [block |-> blocks + 1, receipt |-> rs[k]] /\ rs[k][1] = Len(logs) + k
      BY <1>1, <1>3, <3>1 DEF Submitted
    <3> QED
      BY <1>2, <3>1, <3>2
  <2> QED
    BY <2>1, <2>2
<1>5. ASSUME NEW i \in DOMAIN rs
      PROVE  /\ rs[i][1] \in DOMAIN l /\ rs[i][1] \notin DOMAIN logs
             /\ l[rs[i][1]].receipt = rs[i]
  <2>1. rs[i][1] = Len(logs) + i /\ i \in 1..Len(rs)
    BY <1>1 DEF Submitted
  <2>2. l[Len(logs) + i] = [block |-> blocks + 1, receipt |-> rs[i]]
    BY <1>1, <1>3, <2>1
  <2> QED
    BY <1>1, <1>2, <1>3, <2>1, <2>2
<1> QED
  BY <1>2, <1>3, <1>4, <1>5 DEF LogsOK, l

\* A number that ends is that of a receipt no longer stored.
LEMMA EndedGrows ==
  ASSUME NEW e, NEW l, NEW S, EndedOK(e, l, S), StoredOK(l, S),
         NEW r \in S, NEW l2, NEW S2,
         \A i \in DOMAIN l : i \in DOMAIN l2,
         \A q \in S2 : q \in S \ {r} \/ q[1] \notin DOMAIN l
  PROVE  EndedOK(e, l2, S2) /\ EndedOK(Append(e, r[1]), l2, S2)
<1>1. /\ e \in Seq(Nat) /\ DOMAIN e = 1..Len(e) /\ Len(e) \in Nat
      /\ r[1] \in Nat /\ r[1] \in DOMAIN l /\ l[r[1]].receipt = r
  BY ReceiptFields DEF EndedOK, StoredOK
<1>2. EndedOK(e, l2, S2)
  BY DEF EndedOK
<1>3. /\ Append(e, r[1]) \in Seq(Nat) /\ DOMAIN Append(e, r[1]) = 1..Len(e) + 1
      /\ Append(e, r[1])[Len(e) + 1] = r[1]
      /\ \A i \in 1..Len(e) : Append(e, r[1])[i] = e[i] /\ e[i] # r[1]
  BY <1>1 DEF EndedOK
<1>4. \A q \in S2 : q[1] # r[1]
  BY <1>1 DEF StoredOK
<1>5. \A i \in DOMAIN Append(e, r[1]) : i \in 1..Len(e) \/ i = Len(e) + 1
  BY <1>1, <1>3
<1> HIDE DEF EndedOK
<1>6. EndedOK(Append(e, r[1]), l2, S2)
  <2>1. ASSUME NEW i \in DOMAIN Append(e, r[1])
        PROVE  /\ Append(e, r[1])[i] \in DOMAIN l2
               /\ \A q \in S2 : q[1] # Append(e, r[1])[i]
    BY <1>1, <1>2, <1>3, <1>4, <1>5 DEF EndedOK
  <2>2. ASSUME NEW i \in DOMAIN Append(e, r[1]), NEW j \in DOMAIN Append(e, r[1]),
               Append(e, r[1])[i] = Append(e, r[1])[j]
        PROVE  i = j
    BY <1>1, <1>2, <1>3, <1>5, <2>2 DEF EndedOK
  <2> QED
    BY <1>3, <2>1, <2>2 DEF EndedOK
<1> QED
  BY <1>2, <1>6

LEMMA EndedStays ==
  ASSUME NEW e, NEW l, NEW S, EndedOK(e, l, S), NEW l2, NEW S2,
         \A i \in DOMAIN l : i \in DOMAIN l2,
         \A q \in S2 : q \in S \/ q[1] \notin DOMAIN l
  PROVE  EndedOK(e, l2, S2)
  BY DEF EndedOK

LEMMA DisjointGrows ==
  ASSUME NEW e \in Seq(Nat), NEW f, Disjoint(e, f), NEW x,
         \A j \in DOMAIN f : f[j] # x
  PROVE  Disjoint(Append(e, x), f) /\ Disjoint(f, Append(e, x))
<1>1. /\ DOMAIN Append(e, x) = 1..Len(e) + 1 /\ DOMAIN e = 1..Len(e) /\ Len(e) \in Nat
      /\ Append(e, x)[Len(e) + 1] = x
      /\ \A i \in 1..Len(e) : Append(e, x)[i] = e[i]
  OBVIOUS
<1>2. \A i \in DOMAIN Append(e, x) : i \in DOMAIN e \/ i = Len(e) + 1
  BY <1>1
<1> QED
  BY <1>1, <1>2 DEF Disjoint

\* What becomes of the contract in a block: receipts are added on top, and at
\* most one, of D, is taken away.
NewerOnly == \A i \in DOMAIN logs' : i \in DOMAIN logs \/ logs'[i].block = blocks + 1

Keeps(D) ==
  /\ LogsOK(logs') /\ StoredOK(logs', stored') /\ NewerOnly
  /\ \A i \in DOMAIN logs : i \in DOMAIN logs' /\ logs'[i] = logs[i]
  /\ \A q \in stored' : q \in stored \ D \/ q[1] \notin DOMAIN logs

LEMMA SubmittingKeeps ==
  ASSUME ReceiptClientsAssumption, ChainInv, NEW D, NEW rs \in Seq(Receipts),
         \A i \in DOMAIN rs : rs[i][1] = Submitted + i,
         logs' = logs \o Log(blocks + 1, rs),
         stored' = (stored \ D) \cup {rs[i] : i \in DOMAIN rs}
  PROVE  Keeps(D)
<1>1. /\ LogsOK(logs') /\ NewerOnly
      /\ \A i \in DOMAIN logs : i \in DOMAIN logs' /\ logs'[i] = logs[i]
      /\ \A i \in DOMAIN rs : /\ rs[i][1] \in DOMAIN logs' /\ rs[i][1] \notin DOMAIN logs
                              /\ logs'[rs[i][1]].receipt = rs[i]
  BY LogsGrow DEF NewerOnly
<1>2. \A i \in DOMAIN rs : rs[i] \in Receipts
  OBVIOUS
<1>3. StoredOK(logs', stored')
  BY <1>1, <1>2 DEF StoredOK, ChainInv
<1> QED
  BY <1>1, <1>3 DEF Keeps

LEMMA NothingSubmitted ==
  ASSUME ChainInv, NEW D, UNCHANGED logs, stored' = stored \ D
  PROVE  Keeps(D)
  BY DEF Keeps, ChainInv, StoredOK, NewerOnly

ChainGrows ==
  /\ NewerOnly
  /\ \A i \in DOMAIN logs : i \in DOMAIN logs' /\ logs'[i] = logs[i]
  /\ \A i \in DOMAIN cancelled : i \in DOMAIN cancelled' /\ cancelled'[i] = cancelled[i]

LEMMA DatedStays ==
  ASSUME ChainInv, blocks' = blocks + 1, NEW D, Keeps(D)
  PROVE  Dated'
<1> SUFFICES ASSUME NEW i \in DOMAIN logs' PROVE logs'[i].block <= blocks'
  BY DEF Dated
<1>1. CASE i \in DOMAIN logs
  <2>1. logs[i] \in Entries
    BY <1>1 DEF ChainInv, LogsOK
  <2>2. logs[i].block \in Nat /\ logs[i].block <= blocks /\ logs'[i] = logs[i]
    BY <1>1, <2>1 DEF ChainInv, Dated, Keeps, Entries
  <2> QED
    BY <2>2 DEF ChainInv
<1>2. CASE i \notin DOMAIN logs
  BY <1>2 DEF ChainInv, Keeps, NewerOnly
<1> QED
  BY <1>1, <1>2

LEMMA OneEnds ==
  ASSUME ReceiptClientsAssumption, ChainInv, blocks' = blocks + 1,
         NEW r \in stored, Keeps({r}),
         \/ executed' \in {executed, Append(executed, r[1])} /\ UNCHANGED cancelled
         \/ cancelled' = Append(cancelled, r[1]) /\ UNCHANGED executed
  PROVE  ChainInv' /\ ChainGrows
<1>1. /\ LogsOK(logs') /\ StoredOK(logs', stored')
      /\ \A i \in DOMAIN logs : i \in DOMAIN logs' /\ logs'[i] = logs[i]
      /\ \A q \in stored' : q \in stored \ {r} \/ q[1] \notin DOMAIN logs
  BY DEF Keeps
<1>2. /\ EndedOK(executed, logs, stored) /\ EndedOK(cancelled, logs, stored)
      /\ StoredOK(logs, stored) /\ Disjoint(executed, cancelled)
      /\ executed \in Seq(Nat) /\ cancelled \in Seq(Nat)
      /\ \A i \in DOMAIN executed : executed[i] # r[1]
      /\ \A i \in DOMAIN cancelled : cancelled[i] # r[1]
  BY DEF ChainInv, EndedOK
<1>3. /\ EndedOK(executed, logs', stored') /\ EndedOK(cancelled, logs', stored')
      /\ EndedOK(Append(executed, r[1]), logs', stored')
      /\ EndedOK(Append(cancelled, r[1]), logs', stored')
  BY <1>1, <1>2, EndedGrows
<1>4. /\ Disjoint(Append(executed, r[1]), cancelled)
      /\ Disjoint(executed, Append(cancelled, r[1]))
  <2>1. Disjoint(cancelled, executed)
    BY <1>2 DEF Disjoint
  <2> QED
    BY <1>2, <2>1, DisjointGrows
<1>5. /\ \A i \in DOMAIN cancelled : i \in DOMAIN Append(cancelled, r[1])
      /\ \A i \in DOMAIN cancelled : Append(cancelled, r[1])[i] = cancelled[i]
  BY <1>2
<1>6. blocks' \in Nat /\ blocks' >= DefaultFrom /\ Dated' /\ NewerOnly
  <2>1. Dated'
    BY DatedStays
  <2> QED
    BY <2>1 DEF ChainInv, ReceiptClientsAssumption, Keeps
<1> QED
  BY <1>1, <1>2, <1>3, <1>4, <1>5, <1>6 DEF ChainInv, ChainGrows

LEMMA NoneEnds ==
  ASSUME ReceiptClientsAssumption, ChainInv, blocks' = blocks + 1, Keeps({}),
         UNCHANGED <<executed, cancelled>>
  PROVE  ChainInv' /\ ChainGrows
<1>1. /\ LogsOK(logs') /\ StoredOK(logs', stored')
      /\ \A i \in DOMAIN logs : i \in DOMAIN logs' /\ logs'[i] = logs[i]
      /\ \A q \in stored' : q \in stored \/ q[1] \notin DOMAIN logs
  BY DEF Keeps
<1>2. EndedOK(executed, logs', stored') /\ EndedOK(cancelled, logs', stored')
  BY <1>1, EndedStays DEF ChainInv
<1>3. blocks' \in Nat /\ blocks' >= DefaultFrom /\ Dated' /\ NewerOnly
  <2>1. Dated'
    BY DatedStays
  <2> QED
    BY <2>1 DEF ChainInv, ReceiptClientsAssumption, Keeps
<1> QED
  BY <1>1, <1>2, <1>3 DEF ChainInv, ChainGrows

LEMMA ExecMoves ==
  ASSUME ReceiptClientsAssumption, ChainInv, NEW r, Exec(r), blocks' = blocks + 1
  PROVE  ChainInv' /\ ChainGrows
<1>1. ASSUME r \in stored, r[8] # 1, executed' = Append(executed, r[1]),
             logs' = logs \o Log(blocks + 1, <<NextOf(r)>>),
             stored' = (stored \ {r}) \cup {NextOf(r)}, UNCHANGED cancelled
      PROVE  ChainInv' /\ ChainGrows
  <2> DEFINE next == NextOf(r)
             rs == <<next>>
  <2>1. r \in Receipts /\ Submitted \in Nat
    BY <1>1 DEF ChainInv, StoredOK, LogsOK, Submitted
  <2>2. next \in Receipts /\ next[1] = Submitted + 1
    BY <2>1, SuccessorIsReceipt
  <2> HIDE DEF next
  <2>3. /\ rs \in Seq(Receipts) /\ DOMAIN rs = {1} /\ rs[1] = next
        /\ {rs[i] : i \in DOMAIN rs} = {next}
    BY <2>2
  <2>4. \A i \in DOMAIN rs : rs[i][1] = Submitted + i
    BY <2>2, <2>3
  <2>5. logs' = logs \o Log(blocks + 1, rs) /\ stored' = (stored \ {r}) \cup {next}
    BY <1>1 DEF next
  <2> HIDE DEF rs
  <2>6. Keeps({r})
    BY <2>3, <2>4, <2>5, SubmittingKeeps
  <2> QED
    BY <1>1, <2>6, OneEnds
<1>2. ASSUME r \in stored, executed' \in {executed, Append(executed, r[1])},
             stored' = stored \ {r}, UNCHANGED <<logs, cancelled>>
      PROVE  ChainInv' /\ ChainGrows
  BY <1>2, NothingSubmitted, OneEnds
<1>3. ASSUME UNCHANGED <<logs, stored, executed, cancelled>>
      PROVE  ChainInv' /\ ChainGrows
  <2>1. stored' = stored \ {}
    BY <1>3
  <2> QED
    BY <1>3, <2>1, NothingSubmitted, NoneEnds
<1> QED
  BY <1>1, <1>2, <1>3 DEF Exec

LEMMA CancelMoves ==
  ASSUME ReceiptClientsAssumption, ChainInv, NEW r, NEW sender, CancelTask(r, sender),
         blocks' = blocks + 1
  PROVE  ChainInv' /\ ChainGrows
<1>1. /\ r \in stored /\ stored' = stored \ {r} /\ UNCHANGED <<logs, executed>>
      /\ cancelled' = Append(cancelled, r[1])
  BY DEF CancelTask, CanCancel
<1>2. Keeps({r})
  BY <1>1, NothingSubmitted
<1> QED
  BY <1>1, <1>2, OneEnds

LEMMA UserMoves ==
  ASSUME ReceiptClientsAssumption, ChainInv, UserSubmits
  PROVE  ChainInv' /\ ChainGrows
<1>a. PICK n \in 1 .. 2 : \E batch \in [1 .. n -> Contents], userProxy \in {"safe", "proxy"} :
        LET receipts == [i \in 1 .. n |-> NewReceipt(Submitted + i, userProxy, batch[i])]
        IN  /\ logs' = logs \o Log(blocks + 1, receipts)
            /\ stored' = stored \cup {receipts[i] : i \in 1 .. n}
            /\ blocks' = blocks + 1 /\ UNCHANGED <<executed, cancelled>>
  BY DEF UserSubmits
<1>1. PICK batch \in [1 .. n -> Contents], userProxy \in {"safe", "proxy"} :
        LET receipts == [i \in 1 .. n |-> NewReceipt(Submitted + i, userProxy, batch[i])]
        IN  /\ logs' = logs \o Log(blocks + 1, receipts)
            /\ stored' = stored \cup {receipts[i] : i \in 1 .. n}
            /\ blocks' = blocks + 1 /\ UNCHANGED <<executed, cancelled>>
  BY <1>a
<1> DEFINE rs == [i \in 1 .. n |-> NewReceipt(Submitted + i, userProxy, batch[i])]
<1>2. Submitted \in Nat
  BY DEF ChainInv, LogsOK, Submitted
<1>3. ASSUME NEW i \in 1 .. n
      PROVE  rs[i] \in Receipts /\ rs[i][1] = Submitted + i
  <2>1. Submitted + i \in Nat /\ batch[i] \in Contents
    BY <1>2
  <2> QED
    BY <2>1, NewIsReceipt
<1>4. rs \in Seq(Receipts) /\ DOMAIN rs = 1 .. n
  <2>1. n \in Nat /\ rs \in [1 .. n -> Receipts]
    BY <1>3
  <2> QED
    BY <2>1
<1>5. stored' = (stored \ {}) \cup {rs[i] : i \in DOMAIN rs}
  BY <1>1, <1>4
<1> HIDE DEF rs
<1>6. Keeps({})
  BY <1>1, <1>3, <1>4, <1>5, SubmittingKeeps DEF rs
<1> QED
  BY <1>1, <1>6, NoneEnds

\* In every step the chain grows, whatever scripts and others do.
LEMMA ChainStep ==
  ASSUME ReceiptClientsAssumption, ChainInv, [Next]_vars
  PROVE  ChainInv' /\ ChainGrows
<1>1. CASE UNCHANGED contract
  BY <1>1 DEF contract, ChainInv, ChainGrows, Dated, NewerOnly
<1>2. CASE OthersExec \/ OthersCancel
  BY <1>2, ExecMoves, CancelMoves DEF OthersExec, OthersCancel
<1>3. ASSUME NEW s \in Scripts, Mine(s) PROVE ChainInv' /\ ChainGrows
  <2>1. CASE UNCHANGED <<logs, stored, executed, cancelled>> /\ blocks' = blocks + 1
    <3>1. stored' = stored \ {}
      BY <2>1
    <3> QED
      BY <2>1, <3>1, NothingSubmitted, NoneEnds
  <2>2. CASE blocks' = blocks + 1 /\ Exec(script[s].got)
    BY <2>2, ExecMoves
  <2>3. CASE blocks' = blocks + 1 /\ CancelTask(script[s].got, script[s].proxyType)
    BY <2>3, CancelMoves
  <2> QED
    BY <1>3, <2>1, <2>2, <2>3 DEF Mine, ExecTx, CancelTx
<1>4. ASSUME NEW s \in Scripts,
             (\E kind \in Kinds : Start(s, kind)) \/ Step(s) \/ Reject(s)
      PROVE  UNCHANGED contract
  BY <1>4
  DEF Start, Step, Reject, PrepareTask, SubmitTask, FetchTaskReceipt, CanExec, Decide,
      FetchGelatoGasPrice, ProxyAddress, Send, Report, KeepChain
<1> QED
  BY <1>1, <1>2, <1>3, <1>4, UserMoves DEF Next, vars

LEMMA ChainInit == ASSUME ReceiptClientsAssumption, Init PROVE ChainInv
  BY DEF Init, ChainInv, Dated, LogsOK, StoredOK, EndedOK, Disjoint, ReceiptClientsAssumption

\* The inductive invariant of what GelatoCore keeps, logs and has ended.
THEOREM ChainInvariant == ASSUME ReceiptClientsAssumption PROVE Spec => []ChainInv
<1>1. Init => ChainInv
  BY ChainInit
<1>2. ChainInv /\ [Next]_vars => ChainInv'
  BY ChainStep
<1> QED
  BY <1>1, <1>2, PTL DEF Spec

LEMMA EndedOnce == ASSUME ChainInv PROVE ExecutedOrCancelledOnce
<1> DEFINE ended == executed \o cancelled
           n == Len(executed)
<1>1. executed \in Seq(Nat) /\ cancelled \in Seq(Nat)
  BY DEF ChainInv, EndedOK
<1>2. /\ ended \in Seq(Nat) /\ Len(ended) = Len(executed) + Len(cancelled)
      /\ \A i \in 1..Len(executed) + Len(cancelled) :
           ended[i] = IF i <= Len(executed) THEN executed[i]
                      ELSE cancelled[i - Len(executed)]
  BY ONLY <1>1, ConcatProperties
<1>3. /\ n \in Nat /\ DOMAIN executed = 1..n
      /\ DOMAIN cancelled = 1..Len(cancelled) /\ Len(cancelled) \in Nat
      /\ DOMAIN ended = 1..n + Len(cancelled)
  BY <1>1, <1>2
<1> HIDE DEF ended
<1>4. ASSUME NEW i \in DOMAIN ended, NEW j \in DOMAIN ended, ended[i] = ended[j]
      PROVE  i = j
  <2>1. CASE i \in 1..n /\ j \in 1..n
    BY <1>2, <1>3, <1>4, <2>1 DEF ChainInv, EndedOK
  <2>2. CASE i \notin 1..n /\ j \notin 1..n
    <3>1. ASSUME NEW k \in DOMAIN ended, k \notin 1..n
          PROVE  k - n \in DOMAIN cancelled /\ ended[k] = cancelled[k - n]
      <4>1. k \in 1..n + Len(cancelled) /\ ~ (k <= n) /\ k - n \in 1..Len(cancelled)
        BY <1>3, <3>1
      <4> QED
        BY <1>2, <1>3, <4>1
    <3>2. i - n = j - n
      BY <1>4, <2>2, <3>1 DEF ChainInv, EndedOK
    <3> QED
      BY <1>3, <3>2
  <2>3. ASSUME NEW k \in 1..n, NEW m \in DOMAIN ended, m \notin 1..n
        PROVE  ended[k] # ended[m]
    <3>1. /\ m \in 1..n + Len(cancelled) /\ ~ (m <= n)
          /\ m - n \in 1..Len(cancelled)
      BY <1>3, <2>3
    <3>2. k \in 1..n + Len(cancelled) /\ k <= n
      BY <1>3
    <3>3. ended[m] = cancelled[m - n] /\ m - n \in DOMAIN cancelled
      BY <1>2, <1>3, <3>1
    <3>4. ended[k] = executed[k] /\ k \in DOMAIN executed
      BY <1>2, <1>3, <3>2
    <3> QED
      BY <3>3, <3>4 DEF ChainInv, Disjoint
  <2> QED
    BY <1>4, <2>1, <2>2, <2>3
<1> QED
  BY <1>4 DEF ExecutedOrCancelledOnce, ended

\* However many executors, users and scripts race for a receipt, and however
\* many receipts there are, none ends twice.
THEOREM EndsOnce == ASSUME ReceiptClientsAssumption PROVE Spec => []ExecutedOrCancelledOnce
<1>1. ChainInv => ExecutedOrCancelledOnce
  BY EndedOnce
<1> QED
  BY ChainInvariant, <1>1, PTL

-----------------------------------------------------------------------------
(* The scripts: what they have found, and what they say they have done.     *)

Fields == {"kind", "id", "where", "account", "proxyType", "address", "pc", "got",
           "said", "tx"}

IsRun(c) == c = [f \in Fields |-> c[f]]

Asked(c) == c.where \in Options /\ c.id \in Nat

FirstBlock(where) == IF where.hash # None THEN where.hash ELSE where.from

Older(l, block) == {j \in DOMAIN l : l[j].block < block}

\* The position of what is found, among all the logs.
Position(where, id, l, i) ==
  IF where.inTx # None
  THEN l[i].block = where.inTx /\ \A j \in DOMAIN l : l[j].block = where.inTx => i <= j
  ELSE l[i].block >= FirstBlock(where) /\ i = Cardinality(Older(l, FirstBlock(where))) + id

FoundOK(c, l) ==
  c.got # NoReceipt =>
    \E i \in DOMAIN l : c.got = l[i].receipt /\ Position(c.where, c.id, l, i)

\* gc-cancel-task has a receipt before it has an address, a transaction before
\* it waits, and its task is among those cancelled once it is mined.
CancellingOK(c, k) ==
  c.kind = "cancel" =>
    /\ c.where = AllLogs
    /\ c.pc \in {"fetch", "address", "send", "wait", "done", "failed"}
    /\ c.pc \in {"address", "send", "wait", "done"} \/ c.tx # "none" => c.got # NoReceipt
    /\ c.pc = "wait" => c.tx # "none"
    /\ c.tx = "refused" => c.proxyType = "safe"
    /\ c.pc = "done" => c.tx = "mined"
    /\ c.tx = "mined" => \E i \in DOMAIN k : k[i] = c.id

RunOK(c, l, k) ==
  /\ IsRun(c) /\ Asked(c) /\ FoundOK(c, l) /\ CancellingOK(c, k)
  /\ c.tx \in {"none", "pending", "mined", "refused", "reverted"}

RunsOK ==
  /\ script = [s \in Scripts |-> script[s]]
  /\ \A s \in Scripts : RunOK(script[s], logs, cancelled)

\* What is logged later changes nothing at or before a block there was.
LEMMA PositionStays ==
  ASSUME ReceiptClientsAssumption, ChainInv, ChainGrows, NEW where \in Options,
         NEW id, NEW i \in DOMAIN logs, Position(where, id, logs, i)
  PROVE  i \in DOMAIN logs' /\ logs'[i] = logs[i] /\ Position(where, id, logs', i)
<1>1. /\ blocks \in Nat /\ i \in DOMAIN logs' /\ logs'[i] = logs[i]
      /\ \A j \in DOMAIN logs : j \in DOMAIN logs' /\ logs'[j] = logs[j]
      /\ \A j \in DOMAIN logs' : j \in DOMAIN logs \/ logs'[j].block = blocks + 1
  BY DEF ChainInv, ChainGrows, NewerOnly
<1>2. logs[i].block \in Nat /\ logs[i].block <= blocks
  <2>1. logs[i] \in Entries
    BY DEF ChainInv, LogsOK
  <2> QED
    BY <2>1 DEF Entries, ChainInv, Dated
<1>3. \A j \in DOMAIN logs' : j \in DOMAIN logs \/ logs'[j].block > logs[i].block
  BY <1>1, <1>2
<1>4. CASE where.inTx # None
  BY <1>1, <1>3, <1>2, <1>4 DEF Position
<1>5. CASE where.inTx = None
  <2> DEFINE first == FirstBlock(where)
  <2>1. first \in Nat
    <3>1. where.hash \in Hashes \cup {None} /\ where.from \in Froms \cup {None}
      BY DEF Options
    <3>2. where.hash \in Nat /\ where.from \in Nat
      BY <3>1 DEF ReceiptClientsAssumption, None
    <3> QED
      BY <3>2 DEF FirstBlock
  <2>2. logs[i].block >= first
    BY <1>5 DEF Position
  <2> HIDE DEF first
  <2>3. \A j \in DOMAIN logs' : logs'[j].block < first => j \in DOMAIN logs
    <3>1. ASSUME NEW j \in DOMAIN logs', logs'[j].block < first, j \notin DOMAIN logs
          PROVE  FALSE
      <4>1. logs'[j].block = blocks + 1
        BY <1>1, <3>1
      <4> QED
        BY <1>1, <1>2, <2>1, <2>2, <3>1, <4>1
    <3> QED
      BY <3>1
  <2>4. Older(logs', first) = Older(logs, first)
    BY <1>1, <2>3 DEF Older
  <2> QED
    BY <1>1, <1>5, <2>4 DEF Position, first
<1> QED
  BY <1>1, <1>4, <1>5

LEMMA RunStays ==
  ASSUME ReceiptClientsAssumption, ChainInv, ChainGrows, NEW c, RunOK(c, logs, cancelled)
  PROVE  RunOK(c, logs', cancelled')
<1>1. FoundOK(c, logs')
  <2>1. CASE c.got = NoReceipt
    BY <2>1 DEF FoundOK
  <2>2. CASE c.got # NoReceipt
    <3>1. PICK i \in DOMAIN logs : /\ c.got = logs[i].receipt
                                   /\ Position(c.where, c.id, logs, i)
      BY <2>2 DEF RunOK, FoundOK
    <3>2. c.where \in Options
      BY DEF RunOK, Asked
    <3>3. /\ i \in DOMAIN logs' /\ logs'[i] = logs[i]
          /\ Position(c.where, c.id, logs', i)
      BY <3>1, <3>2, PositionStays
    <3> QED
      BY <3>1, <3>3 DEF FoundOK
  <2> QED
    BY <2>1, <2>2
<1>2. CancellingOK(c, cancelled')
  BY DEF RunOK, CancellingOK, ChainGrows
<1> QED
  BY <1>1, <1>2 DEF RunOK

LEMMA OthersRun ==
  ASSUME ReceiptClientsAssumption, ChainInv, ChainGrows, RunsOK, UNCHANGED script
  PROVE  RunsOK'
  BY RunStays DEF RunsOK

LEMMA OneRuns ==
  ASSUME ReceiptClientsAssumption, ChainInv, ChainGrows, RunsOK, NEW s \in Scripts, NEW c, RunOK(c, logs', cancelled'),
         script' = [script EXCEPT ![s] = c]
  PROVE  RunsOK'
<1>1. /\ script' = [q \in Scripts |-> script'[q]] /\ script'[s] = c
      /\ \A q \in Scripts : q # s => script'[q] = script[q]
  BY DEF RunsOK
<1>2. \A q \in Scripts : RunOK(script'[q], logs', cancelled')
  BY <1>1, RunStays DEF RunsOK
<1> QED
  BY <1>1, <1>2 DEF RunsOK

\* A step of a script that only takes it somewhere else.
LEMMA Goes ==
  ASSUME NEW c, NEW l, NEW k, RunOK(c, l, k), NEW pc,
         c.kind = "cancel" =>
           /\ pc \in {"fetch", "address", "send", "wait", "done", "failed"}
           /\ pc \in {"address", "send", "wait", "done"} => c.got # NoReceipt
           /\ pc = "wait" => c.tx # "none"
           /\ pc = "done" => c.tx = "mined"
  PROVE  RunOK([c EXCEPT !.pc = pc], l, k)
<1> DEFINE d == [c EXCEPT !.pc = pc]
<1>1. /\ IsRun(d) /\ d.kind = c.kind /\ d.id = c.id /\ d.where = c.where
      /\ d.proxyType = c.proxyType /\ d.got = c.got /\ d.tx = c.tx /\ d.pc = pc
  BY DEF RunOK, IsRun, Fields
<1> HIDE DEF d
<1>2. Asked(d) /\ FoundOK(d, l)
  BY <1>1 DEF RunOK, Asked, FoundOK
<1>3. CancellingOK(d, k)
  BY <1>1 DEF RunOK, CancellingOK
<1>4. RunOK(d, l, k)
  BY <1>1, <1>2, <1>3 DEF RunOK
<1> QED
  BY <1>4 DEF d

LEMMA GoesOn ==
  ASSUME ReceiptClientsAssumption, ChainInv, ChainGrows, RunsOK, NEW s \in Scripts, NEW pc, Goto(s, pc),
         script[s].kind = "cancel" =>
           /\ pc \in {"fetch", "address", "send", "wait", "done", "failed"}
           /\ pc \in {"address", "send", "wait", "done"} => script[s].got # NoReceipt
           /\ pc = "wait" => script[s].tx # "none"
           /\ pc = "done" => script[s].tx = "mined"
  PROVE  RunsOK'
<1> DEFINE c == script[s]
           d == [c EXCEPT !.pc = pc]
<1>1. RunOK(c, logs', cancelled')
  BY RunStays DEF RunsOK
<1>2. RunOK(d, logs', cancelled')
  BY <1>1, Goes
<1>3. script' = [script EXCEPT ![s] = d]
  BY DEF Goto
<1> QED
  BY <1>2, <1>3, OneRuns

LEMMA Starts ==
  ASSUME ReceiptClientsAssumption, ChainInv, ChainGrows, RunsOK, NEW s \in Scripts, NEW kind \in Kinds, Start(s, kind)
  PROVE  RunsOK'
<1>1. PICK id \in 1 .. MaxIds, where \in Options, account \in {"executor", "other"},
           proxyType \in {"safe", "proxy"}, address \in BOOLEAN :
        /\ kind \in {"cancel", "submit"} => where = AllLogs /\ account = "executor"
        /\ kind # "cancel" => proxyType = "safe" /\ ~ address
        /\ kind = "submit" => id = 1
        /\ kind = "canExec" => account = "executor"
        /\ script' = [script EXCEPT ![s] =
             [Idle EXCEPT !.kind = kind, !.id = id, !.where = where, !.account = account,
                          !.proxyType = proxyType, !.address = address,
                          !.pc = IF kind = "submit" THEN "prepare" ELSE "fetch"]]
  BY Zenon DEF Start
<1> DEFINE pc == IF kind = "submit" THEN "prepare" ELSE "fetch"
           c == [kind |-> kind, id |-> id, where |-> where,
                 account |-> account, proxyType |-> proxyType, address |-> address,
                 pc |-> pc, got |-> NoReceipt, said |-> "nothing", tx |-> "none"]
<1>2. script' = [script EXCEPT ![s] = c]
  <2>1. [Idle EXCEPT !.kind = kind, !.id = id, !.where = where,
                     !.account = account, !.proxyType = proxyType, !.address = address,
                     !.pc = pc] = c
    <3> DEFINE i == [Idle EXCEPT !.kind = kind, !.id = id, !.where = where,
                     !.account = account, !.proxyType = proxyType, !.address = address,
                     !.pc = pc]
    <3>1. DOMAIN i = DOMAIN c
      BY DEF Idle
    <3>2. /\ i.kind = kind /\ i.id = id /\ i.where = where
          /\ i.account = account /\ i.proxyType = proxyType /\ i.address = address
          /\ i.pc = pc
      BY DEF Idle
    <3>3. i.got = NoReceipt /\ i.said = "nothing" /\ i.tx = "none"
      BY DEF Idle
    <3>4. i = [f \in DOMAIN i |-> i[f]]
      OBVIOUS
    <3> HIDE DEF i
    <3>5. i = c
      BY <3>1, <3>2, <3>3, <3>4
    <3> QED
      BY <3>5 DEF i
  <2> QED
    BY <1>1, <2>1
<1>3. /\ IsRun(c) /\ c.kind = kind /\ c.id = id /\ c.where = where /\ c.got = NoReceipt
      /\ c.tx = "none" /\ c.pc = pc
  BY DEF IsRun, Fields
<1>4. /\ kind = "cancel" => pc = "fetch" /\ where = AllLogs
      /\ id \in Nat /\ where \in Options
  BY <1>1 DEF ReceiptClientsAssumption
<1> HIDE DEF c, pc
<1>5. RunOK(c, logs', cancelled')
  BY <1>3, <1>4 DEF RunOK, Asked, FoundOK, CancellingOK
<1> QED
  BY <1>2, <1>5, OneRuns


LEMMA HasLeast ==
  ASSUME NEW S \in SUBSET Nat, S # {}
  PROVE  \E i \in S : \A j \in S : i <= j
<1> DEFINE R == OpToRel(<, Nat)
<1>1. IsWellFoundedOn(R, Nat)
  BY NatLessThanWellFounded
<1> HIDE DEF R
<1>2. PICK i \in S : \A j \in S : ~ (<<j, i>> \in R)
  BY <1>1, WFMin
<1>3. ASSUME NEW j \in S PROVE i <= j
  <2>1. i \in Nat /\ j \in Nat /\ ~ (<<j, i>> \in R)
    BY <1>2
  <2>2. ~ (j < i)
    BY <2>1 DEF R, OpToRel
  <2> QED
    BY <2>1, <2>2
<1> QED
  BY <1>2, <1>3

\* What is found is a receipt that was logged, at the position the id names in
\* the range, or the first of the transaction; and it survives its conversion.
LEMMA Finds ==
  ASSUME ReceiptClientsAssumption, ChainInv, NEW s \in Scripts,
         script[s].where \in Options, NEW from \in FromOptions(script[s].where),
         Found(s, from) # NoReceipt
  PROVE  LET r == Found(s, from) IN
         /\ \E i \in DOMAIN logs :
              r = logs[i].receipt /\ Position(script[s].where, script[s].id, logs, i)
         /\ ToArray(ToObj(r)) = r
<1> DEFINE where == script[s].where
           first == IF where.hash # None THEN where.hash ELSE from
           found == {i \in DOMAIN logs : Within(where, from, logs[i].block)}
           wanted == IF where.inTx # None THEN {i \in found : logs[i].block = where.inTx}
                     ELSE {i \in found :
                             i = Cardinality(CutOff(where, from)) + script[s].id}
           i == CHOOSE k \in wanted : \A j \in wanted : k <= j
<1>1. /\ logs \in Seq(Entries) /\ DefaultFrom \in Nat /\ DOMAIN logs \subseteq Nat
      /\ \A k \in DOMAIN logs : logs[k] \in Entries /\ logs[k].block >= DefaultFrom
  BY DEF ChainInv, LogsOK, ReceiptClientsAssumption
<1>2. \A k \in DOMAIN logs : logs[k].block \in Nat /\ logs[k].receipt \in Receipts
  BY <1>1 DEF Entries
<1>3. ~ Refused(where) /\ wanted # {} /\ Found(s, from) = logs[i].receipt
  BY DEF Found
<1>4. /\ where.hash \in Nat /\ where.from \in Nat /\ from \in Nat
      /\ from = where.from \/ (where.from = 0 /\ from \in {0, DefaultFrom})
  <2>1. where.hash \in Hashes \cup {None} /\ where.from \in Froms \cup {None}
    BY DEF Options
  <2>2. where.hash \in Nat /\ where.from \in Nat
    BY <2>1 DEF ReceiptClientsAssumption, None
  <2>3. from \in IF where.from # None THEN {where.from} ELSE {0, DefaultFrom}
    BY DEF FromOptions
  <2> HIDE DEF where
  <2> QED
    BY <1>1, <2>2, <2>3 DEF None
<1>5. CutOff(where, from) = Older(logs, FirstBlock(where))
  BY <1>1, <1>2, <1>4 DEF CutOff, Older, FirstBlock
<1>6. \A k \in found : k \in DOMAIN logs /\ logs[k].block >= FirstBlock(where)
  <2>1. ASSUME NEW k \in found PROVE logs[k].block >= FirstBlock(where)
    <3>1. k \in DOMAIN logs /\ Within(where, from, logs[k].block)
      OBVIOUS
    <3>2. CASE where.hash # None
      BY <1>2, <1>4, <3>1, <3>2 DEF Within, FirstBlock
    <3>3. CASE where.hash = None
      <4>1. logs[k].block >= from
        BY <3>1, <3>3 DEF Within
      <4>2. logs[k].block \in Nat /\ from >= where.from /\ FirstBlock(where) = where.from
        BY <1>1, <1>2, <1>4, <3>1, <3>3 DEF FirstBlock
      <4> HIDE DEF where
      <4> QED
        BY <1>4, <4>1, <4>2
    <3> QED
      BY <3>2, <3>3
  <2> QED
    BY <2>1
<1>7. CASE where.inTx # None
  <2>1. wanted = {k \in found : logs[k].block = where.inTx}
    BY <1>7
  <2>2. wanted \in SUBSET Nat
    BY <1>1, <2>1
  <2> HIDE DEF wanted
  <2>3. i \in wanted /\ \A j \in wanted : i <= j
    BY <1>3, <2>2, HasLeast
  <2> HIDE DEF i
  <2>4. i \in found /\ logs[i].block = where.inTx
    BY <2>1, <2>3
  <2>5. \A j \in DOMAIN logs : logs[j].block = where.inTx => j \in wanted
    BY <2>1, <2>4
  <2>6. i \in DOMAIN logs /\ Position(where, script[s].id, logs, i)
    BY <1>7, <2>3, <2>4, <2>5 DEF Position
  <2> HIDE DEF where, found
  <2>7. logs[i].receipt \in Receipts
    BY <1>2, <2>6
  <2> QED
    BY <1>3, <2>6, <2>7, ConversionIsExact DEF where
<1>8. CASE where.inTx = None
  <2> DEFINE k == Cardinality(CutOff(where, from)) + script[s].id
  <2>1. wanted = {j \in found : j = k}
    BY <1>8
  <2> HIDE DEF k, wanted
  <2>2. k \in wanted /\ k \in found /\ \A j \in wanted : j = k
    BY <1>3, <2>1
  <2>3. k \in DOMAIN logs /\ k \in Nat
    BY <1>1, <2>2
  <2>4. i = k
    <3>1. k <= k
      BY <2>3
    <3>2. i \in wanted
      BY <2>2, <3>1
    <3> QED
      BY <2>2, <3>2
  <2> HIDE DEF i
  <2>5. k \in DOMAIN logs /\ Position(where, script[s].id, logs, k)
    BY <1>5, <1>6, <1>8, <2>2 DEF Position, k
  <2> HIDE DEF where, found
  <2>6. logs[k].receipt \in Receipts
    BY <1>2, <2>5
  <2> QED
    BY <1>3, <2>4, <2>5, <2>6, ConversionIsExact DEF where
<1> QED
  BY <1>7, <1>8

LEMMA Fetches ==
  ASSUME ReceiptClientsAssumption, ChainInv, ChainGrows, RunsOK, NEW s \in Scripts,
         UNCHANGED <<logs, cancelled>>, FetchTaskReceipt(s)
  PROVE  RunsOK'
<1> DEFINE c == script[s]
<1>1. PICK from \in FromOptions(script[s].where) :
        LET r == Found(s, from) IN
        IF r = NoReceipt \/ Unconvertible(r) THEN Fail(s)
        ELSE script' = [script EXCEPT ![s].pc = AfterFetch(script[s].kind),
                                      ![s].got = ToArray(ToObj(r))]
  BY DEF FetchTaskReceipt
<1>2. CASE Fail(s)
  BY <1>2, GoesOn DEF Fail
<1>3. CASE ~ Fail(s)
  <2> DEFINE r == Found(s, from)
             pc == AfterFetch(c.kind)
             got == ToArray(ToObj(r))
             d == [c EXCEPT !.pc = pc, !.got = got]
  <2>1. r # NoReceipt /\ script' = [script EXCEPT ![s] = d]
    BY <1>1, <1>3
  <2>2. /\ got # NoReceipt
        /\ \E i \in DOMAIN logs : got = logs[i].receipt /\ Position(c.where, c.id, logs, i)
    <3>1. c.where \in Options
      BY DEF RunsOK, RunOK, Asked
    <3> QED
      BY <2>1, <3>1, Finds
  <2>3. c.kind = "cancel" => pc = "address"
    BY DEF AfterFetch
  <2> HIDE DEF r, pc, got
  <2>4. RunOK(c, logs, cancelled)
    BY DEF RunsOK
  <2> HIDE DEF c
  <2>5. /\ IsRun(d) /\ d.kind = c.kind /\ d.id = c.id /\ d.where = c.where
        /\ d.proxyType = c.proxyType /\ d.got = got /\ d.tx = c.tx /\ d.pc = pc
    BY <2>4 DEF RunOK, IsRun, Fields
  <2> HIDE DEF d
  <2>6. Asked(d) /\ FoundOK(d, logs)
    BY <2>2, <2>4, <2>5 DEF RunOK, Asked, FoundOK
  <2>7. CancellingOK(d, cancelled)
    BY <2>2, <2>3, <2>4, <2>5 DEF RunOK, CancellingOK
  <2>8. RunOK(d, logs', cancelled')
    BY <2>4, <2>5, <2>6, <2>7 DEF RunOK
  <2> QED
    BY <2>1, <2>8, OneRuns
<1> QED
  BY <1>2, <1>3

\* The answer of canExec, and that a transaction is sent.
LEMMA Answers ==
  ASSUME ReceiptClientsAssumption, ChainInv, ChainGrows, RunsOK, NEW s \in Scripts, CanExec(s)
  PROVE  RunsOK'
<1> DEFINE c == script[s]
           pc == IF script[s].kind = "canExecExec" THEN "decide" ELSE "done"
<1>1. c.pc = "check" /\ \E said : script' = [script EXCEPT ![s].said = said, ![s].pc = pc]
  BY DEF CanExec, Running
<1>2. PICK said : script' = [script EXCEPT ![s].said = said, ![s].pc = pc]
  BY <1>1
<1> DEFINE d == [c EXCEPT !.said = said, !.pc = pc]
<1>3. script' = [script EXCEPT ![s] = d]
  BY <1>2
<1>4. RunOK(c, logs', cancelled') /\ c.kind # "cancel"
  BY <1>1, RunStays DEF RunsOK, RunOK, CancellingOK
<1> HIDE DEF c, pc
<1>5. /\ IsRun(d) /\ d.kind = c.kind /\ d.id = c.id /\ d.where = c.where
      /\ d.proxyType = c.proxyType /\ d.got = c.got /\ d.tx = c.tx
  BY <1>4 DEF RunOK, IsRun, Fields
<1> HIDE DEF d
<1>6. RunOK(d, logs', cancelled')
  BY <1>4, <1>5 DEF RunOK, Asked, FoundOK, CancellingOK
<1> QED
  BY <1>3, <1>6, OneRuns

LEMMA Sends ==
  ASSUME ReceiptClientsAssumption, ChainInv, ChainGrows, RunsOK, NEW s \in Scripts, Send(s)
  PROVE  RunsOK'
<1> DEFINE c == script[s]
           d == [c EXCEPT !.tx = "pending", !.pc = "wait"]
<1>1. c.pc = "send" /\ (Fail(s) \/ script' = [script EXCEPT ![s] = d])
  BY DEF Send, Running
<1>2. CASE Fail(s)
  BY <1>2, GoesOn DEF Fail
<1>3. CASE script' = [script EXCEPT ![s] = d]
  <2>1. RunOK(c, logs', cancelled')
    BY RunStays DEF RunsOK
  <2> HIDE DEF c
  <2>2. /\ IsRun(d) /\ d.kind = c.kind /\ d.id = c.id /\ d.where = c.where
        /\ d.proxyType = c.proxyType /\ d.got = c.got /\ d.tx = "pending" /\ d.pc = "wait"
    BY <2>1 DEF RunOK, IsRun, Fields
  <2> HIDE DEF d
  <2>3. RunOK(d, logs', cancelled')
    BY <1>1, <2>1, <2>2 DEF RunOK, Asked, FoundOK, CancellingOK
  <2> QED
    BY <1>3, <2>3, OneRuns
<1> QED
  BY <1>1, <1>2, <1>3

\* A transaction is mined: what a cancelling script may say of it.
LEMMA Mines ==
  ASSUME ReceiptClientsAssumption, ChainInv, ChainGrows, RunsOK, NEW s \in Scripts, script[s].tx = "pending",
         NEW status \in {"mined", "refused", "reverted"}, Mined(s, status),
         script[s].kind = "cancel" =>
           /\ status = "refused" => script[s].proxyType = "safe"
           /\ status = "mined" => \E i \in DOMAIN cancelled' : cancelled'[i] = script[s].id
  PROVE  RunsOK'
<1> DEFINE c == script[s]
           d == [c EXCEPT !.tx = status]
<1>1. RunOK(c, logs', cancelled')
  BY RunStays DEF RunsOK
<1>2. script' = [script EXCEPT ![s] = d]
  BY DEF Mined
<1> HIDE DEF c
<1>3. /\ IsRun(d) /\ d.kind = c.kind /\ d.id = c.id /\ d.where = c.where
      /\ d.proxyType = c.proxyType /\ d.got = c.got /\ d.tx = status /\ d.pc = c.pc
  BY <1>1 DEF RunOK, IsRun, Fields
<1> HIDE DEF d
<1>4. Asked(d) /\ FoundOK(d, logs')
  BY <1>1, <1>3 DEF RunOK, Asked, FoundOK
<1>5. CancellingOK(d, cancelled')
  BY <1>1, <1>3 DEF RunOK, CancellingOK, c
<1>6. RunOK(d, logs', cancelled')
  BY <1>1, <1>3, <1>4, <1>5 DEF RunOK
<1> QED
  BY <1>2, <1>6, OneRuns


\* The receipt a cancelling script sends has the id it was asked for.
LEMMA CancelsAsked ==
  ASSUME ChainInv, RunsOK, NEW s \in Scripts, script[s].kind = "cancel",
         CancelTask(script[s].got, script[s].proxyType)
  PROVE  \E i \in DOMAIN cancelled' : cancelled'[i] = script[s].id
<1> DEFINE c == script[s]
           r == c.got
<1>1. r \in stored /\ cancelled' = Append(cancelled, r[1]) /\ cancelled \in Seq(Nat)
  BY DEF CancelTask, CanCancel, ChainInv, EndedOK
<1>2. r \in Receipts /\ r # NoReceipt
  BY <1>1, ReceiptFields DEF ChainInv, StoredOK, NoReceipt
<1>3. c.id \in DOMAIN logs /\ r = logs[c.id].receipt
  <2>1. PICK i \in DOMAIN logs : r = logs[i].receipt /\ Position(c.where, c.id, logs, i)
    BY <1>2 DEF RunsOK, RunOK, FoundOK
  <2>2. c.where = AllLogs /\ c.id \in Nat
    BY DEF RunsOK, RunOK, Asked, CancellingOK
  <2>3. Older(logs, 0) = {}
    <3>1. ASSUME NEW j \in DOMAIN logs PROVE ~ (logs[j].block < 0)
      <4>1. logs[j] \in Entries
        BY DEF ChainInv, LogsOK
      <4> QED
        BY <4>1 DEF Entries
    <3> QED
      BY <3>1 DEF Older
  <2>4. i = Cardinality(Older(logs, 0)) + c.id
    BY <2>1, <2>2 DEF Position, FirstBlock, AllLogs, None
  <2>5. i = c.id
    BY <2>2, <2>3, <2>4, FS_EmptySet
  <2> QED
    BY <2>1, <2>5
<1>4. r[1] = c.id
  BY <1>3 DEF ChainInv, LogsOK
<1> HIDE DEF r
<1>5. /\ Len(cancelled) + 1 \in DOMAIN Append(cancelled, r[1])
      /\ Append(cancelled, r[1])[Len(cancelled) + 1] = r[1]
  BY <1>1
<1> QED
  BY <1>1, <1>4, <1>5

LEMMA RunStep ==
  ASSUME ReceiptClientsAssumption, ChainInv, RunsOK, [Next]_vars
  PROVE  RunsOK'
<1>1. ChainGrows
  BY ChainStep
<1>2. CASE UNCHANGED script
  BY <1>1, <1>2, OthersRun
<1>3. UserSubmits \/ OthersExec \/ OthersCancel \/ UNCHANGED vars => UNCHANGED script
  BY DEF UserSubmits, OthersExec, OthersCancel, vars
<1>4. ASSUME NEW s \in Scripts,
             \/ PrepareTask(s) \/ SubmitTask(s) \/ Decide(s) \/ FetchGelatoGasPrice(s)
             \/ ProxyAddress(s) \/ Report(s) \/ Reject(s)
      PROVE  RunsOK'
  <2> DEFINE c == script[s]
  <2>1. CancellingOK(c, cancelled)
    BY DEF RunsOK, RunOK
  <2>2. CASE Goto(s, "failed")
    BY <1>1, <2>2, GoesOn
  <2>3. ASSUME NEW pc, Goto(s, pc), c.pc \in {"prepare", "inputs", "decide", "price"}
        PROVE  RunsOK'
    <3>1. c.kind # "cancel"
      BY <2>1, <2>3 DEF CancellingOK
    <3> QED
      BY <1>1, <2>3, <3>1, GoesOn
  <2>4. CASE c.pc = "address" /\ Goto(s, "send")
    <3>1. c.kind = "cancel" => c.got # NoReceipt
      BY <2>1, <2>4 DEF CancellingOK
    <3> QED
      BY <1>1, <2>4, <3>1, GoesOn
  <2>5. CASE Report(s) /\ ~ Fail(s)
    <3>1. /\ c.pc = "wait" /\ c.tx # "pending" /\ Goto(s, "done")
          /\ c.kind = "cancel" => c.tx # "reverted" /\ c.proxyType # "safe"
      BY <2>5 DEF Report, Running
    <3>2. c.kind = "cancel" => c.got # NoReceipt /\ c.tx = "mined"
      <4>1. c.tx \in {"none", "pending", "mined", "refused", "reverted"}
        BY DEF RunsOK, RunOK
      <4> QED
        BY <2>1, <3>1, <4>1 DEF CancellingOK
    <3> QED
      BY <1>1, <3>1, <3>2, GoesOn
  <2>6. \/ Goto(s, "failed")
        \/ \E pc : Goto(s, pc) /\ c.pc \in {"prepare", "inputs", "decide", "price"}
        \/ c.pc = "address" /\ Goto(s, "send")
        \/ Report(s) /\ ~ Fail(s)
    BY <1>4 DEF PrepareTask, SubmitTask, Decide, FetchGelatoGasPrice, ProxyAddress, Report,
                Reject, Running, Fail
  <2> QED
    BY <2>2, <2>3, <2>4, <2>5, <2>6
<1>5. ASSUME NEW s \in Scripts, FetchTaskReceipt(s) PROVE RunsOK'
  <2>1. UNCHANGED <<logs, cancelled>>
    BY <1>5 DEF FetchTaskReceipt, KeepChain, contract
  <2> QED
    BY <1>1, <1>5, <2>1, Fetches
<1>6. ASSUME NEW s \in Scripts, ExecTx(s) PROVE RunsOK'
  <2>1. /\ script[s].tx = "pending" /\ script[s].kind # "cancel"
        /\ Mined(s, "mined") \/ Mined(s, "reverted")
    BY <1>6 DEF ExecTx
  <2> QED
    BY <1>1, <2>1, Mines
<1>7. ASSUME NEW s \in Scripts, CancelTx(s) PROVE RunsOK'
  <2> DEFINE c == script[s]
  <2>1. /\ c.tx = "pending" /\ c.kind = "cancel"
        /\ \/ Mined(s, "reverted")
           \/ Mined(s, "refused") /\ c.proxyType = "safe"
           \/ Mined(s, "mined") /\ CancelTask(c.got, c.proxyType)
    BY <1>7 DEF CancelTx
  <2>2. CASE Mined(s, "reverted")
    BY <1>1, <2>1, <2>2, Mines
  <2>3. CASE Mined(s, "refused") /\ c.proxyType = "safe"
    BY <1>1, <2>1, <2>3, Mines
  <2>4. CASE Mined(s, "mined") /\ CancelTask(c.got, c.proxyType)
    BY <1>1, <2>1, <2>4, CancelsAsked, Mines
  <2> QED
    BY <2>1, <2>2, <2>3, <2>4
<1> QED
  BY <1>1, <1>2, <1>3, <1>4, <1>5, <1>6, <1>7, Starts, Answers, Sends DEF Next, Step, Mine

LEMMA RunInit == ASSUME Init PROVE RunsOK
<1>1. IsRun(Idle) /\ script = [s \in Scripts |-> Idle]
  BY DEF Init, Idle, IsRun, Fields
<1>2. AllLogs \in Options
  BY DEF AllLogs, Options
<1>3. RunOK(Idle, logs, cancelled)
  BY <1>1, <1>2 DEF RunOK, Asked, FoundOK, CancellingOK, Idle
<1> QED
  BY <1>1, <1>3 DEF RunsOK

\* The inductive invariant of the scripts, which needs that of the contract.
THEOREM RunsInvariant ==
  ASSUME ReceiptClientsAssumption PROVE Spec => [](ChainInv /\ RunsOK)
<1>1. Init => ChainInv /\ RunsOK
  BY ChainInit, RunInit
<1>2. ChainInv /\ RunsOK /\ [Next]_vars => (ChainInv /\ RunsOK)'
  BY ChainStep, RunStep
<1> QED
  BY <1>1, <1>2, PTL DEF Spec

LEMMA ReceiptTypes == ASSUME ChainInv, RunsOK PROVE TypeOK
<1>1. stored \subseteq {logs[i].receipt : i \in DOMAIN logs}
  BY DEF ChainInv, StoredOK
<1> QED
  BY <1>1 DEF ChainInv, LogsOK, EndedOK, RunsOK, RunOK, TypeOK

\* Types: what is stored and what has ended are receipts that were logged, under
\* their numbers, and every transaction is in one of its states.
THEOREM ReceiptTypeCorrect == ASSUME ReceiptClientsAssumption PROVE Spec => []TypeOK
<1>1. ChainInv /\ RunsOK => TypeOK
  BY ReceiptTypes
<1> QED
  BY RunsInvariant, <1>1, PTL

LEMMA ReportFollows == ASSUME ChainInv, RunsOK PROVE CancelReportIsTrue
<1> SUFFICES ASSUME NEW s \in Scripts, script[s].kind = "cancel",
                    script[s].pc = "done"
             PROVE  /\ \E i \in DOMAIN cancelled : cancelled[i] = script[s].id
                    /\ \A i \in DOMAIN executed : executed[i] # script[s].id
  BY DEF CancelReportIsTrue
<1>1. PICK i \in DOMAIN cancelled : cancelled[i] = script[s].id
  BY DEF RunsOK, RunOK, CancellingOK
<1> QED
  BY <1>1 DEF ChainInv, Disjoint

\* When gc-cancel-task says that it has cancelled its task, the task is cancelled
\* and was not executed, whoever else went for it and whatever type of proxy,
\* option or transaction the other scripts were given.
THEOREM CancelReportHolds ==
  ASSUME ReceiptClientsAssumption PROVE Spec => []CancelReportIsTrue
<1>1. ChainInv /\ RunsOK => CancelReportIsTrue
  BY ReportFollows
<1> QED
  BY RunsInvariant, <1>1, PTL

LEMMA FetchedFollows == ASSUME ChainInv, RunsOK PROVE FetchedIsAsked
<1> SUFFICES ASSUME NEW s \in Scripts, script[s].got # NoReceipt
             PROVE  LET where == script[s].where
                        got == script[s].got
                        ofTx == {i \in DOMAIN logs : logs[i].block = where.inTx}
                    IN  /\ IF where.inTx # None
                           THEN got[1] \in ofTx /\ \A i \in ofTx : got[1] <= i
                           ELSE got[1] = Cardinality(CutOff(where, where.from)) + script[s].id
                        /\ got[1] \in Ids(stored) => got \in stored
  BY DEF FetchedIsAsked
<1> DEFINE where == script[s].where
           got == script[s].got
<1>1. PICK i \in DOMAIN logs : got = logs[i].receipt /\ Position(where, script[s].id, logs, i)
  BY DEF RunsOK, RunOK, FoundOK
<1>2. got[1] = i
  BY <1>1 DEF ChainInv, LogsOK
<1>3. CutOff(where, where.from) = Older(logs, FirstBlock(where))
  BY DEF CutOff, Older, FirstBlock
<1>4. ASSUME got[1] \in Ids(stored) PROVE got \in stored
  <2>1. PICK r \in stored : r[1] = got[1]
    BY <1>4 DEF Ids
  <2>2. logs[r[1]].receipt = r
    BY DEF ChainInv, StoredOK
  <2> QED
    BY <1>1, <1>2, <2>1, <2>2
<1> QED
  BY <1>1, <1>2, <1>3, <1>4 DEF Position

\* What a script has found, for every range and transaction it may be given, is
\* the receipt its id names in the range, and what it sends is the very receipt
\* GelatoCore keeps.
THEOREM FetchedAsAsked == ASSUME ReceiptClientsAssumption PROVE Spec => []FetchedIsAsked
<1>1. ChainInv /\ RunsOK => FetchedIsAsked
  BY FetchedFollows
<1> QED
  BY RunsInvariant, <1>1, PTL
=============================================================================
