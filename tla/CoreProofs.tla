----------------------------- MODULE CoreProofs -----------------------------
(* Theorems about GelatoCore, for every value of the constants.             *)
(*                                                                          *)
(* Executions nest, and one that fails brings back an earlier state: the    *)
(* invariant therefore speaks of every state that can come back.  It says   *)
(* of the present state and of the state each execution under way has saved *)
(* that every receipt issued is accounted for there, given the receipts the *)
(* executions around it have taken.                                         *)
EXTENDS GelatoCore, LedgerProofs, SequenceTheorems

Events == {"rewarded", "refunded", "cancelled", "annulled"}

Stores == [Ids -> TaskReceipt \cup {NoReceipt}]

Snapshots ==
    [params : Params, sysAdminFunds : Nat, gelatoBalance : Nat,
     providerFunds : [Accounts -> Nat], executorStake : [Addresses -> Nat],
     executorByProvider : [Accounts -> Addresses],
     executorProvidersCount : [Addresses -> Int],
     taskSpecGasPriceCeil : [Accounts -> [TaskSpecs -> Nat]],
     providerModules : [Accounts -> SUBSET Modules],
     currentTaskReceiptId : 0..MaxReceipts, taskReceiptHash : Stores,
     receipts : Stores, outcomes : [Ids -> Seq(Events)]]

Calls == [receipt : TaskReceipt, executor : Accounts, gasLimit : Nat,
          gasPrice : Nat, fullGas : BOOLEAN, saved : Snapshots]

CoreTypes ==
    /\ LedgerTypeOK
    /\ currentTaskReceiptId \in 0..MaxReceipts
    /\ taskReceiptHash \in Stores /\ receipts \in Stores
    /\ outcomes \in [Ids -> Seq(Events)]
    /\ calls \in Seq(Calls) /\ Len(calls) <= MaxDepth
    /\ now \in 1..MaxTime

\* The receipts taken by the first k executions of c.
Taken(c, k) == {c[j].receipt.id : j \in 1..k}

WellFormed(r, id) ==
    /\ r \in TaskReceipt /\ r.id = id /\ r.cycleId <= id
    /\ r.index < Len(r.tasks)

\* The receipt with this id is stored, taken or closed.
Placed(stored, issued, events, taken) ==
    \/ stored = issued /\ events = <<>> /\ ~ taken
    \/ stored = NoReceipt /\ events = <<>> /\ taken
    \/ stored = NoReceipt /\ Len(events) = 1 /\ ~ taken

Accounted(last, hash, issued, events, T) ==
    /\ T \subseteq 1..last
    /\ \A id \in Ids :
        IF id <= last
        THEN /\ WellFormed(issued[id], id)
             /\ Placed(hash[id], issued[id], events[id], id \in T)
        ELSE issued[id] = NoReceipt /\ hash[id] = NoReceipt /\ events[id] = <<>>

\* What the owner and the oracle have set.
SettingsOK(ps) ==
    /\ ps.totalSuccessShare = ps.executorSuccessShare + ps.sysAdminSuccessShare
    /\ ps.executorSuccessShare \in Shares /\ ps.sysAdminSuccessShare \in Shares
    /\ ps.gelatoGasPrice \in GasPrices

\* The funds that the liquidity check of an execution asks for, if nothing
\* overflows.
Asked(f) ==
    LET maxCost == (ExecTxOverhead + f.gasLimit) * f.gasPrice
    IN  maxCost + (maxCost * f.saved.params.totalSuccessShare) \div 100

\* What the k-th execution of c has found, and would bring back.
FrameOK(c, k) ==
    LET f == c[k]
        s == c[k].saved
    IN  /\ s.taskReceiptHash[f.receipt.id] = f.receipt
        /\ f.receipt.id \in 1..s.currentTaskReceiptId
        /\ Accounted(s.currentTaskReceiptId, s.taskReceiptHash, s.receipts,
                     s.outcomes, Taken(c, k - 1))
        /\ SettingsOK(s.params)
        /\ f.gasPrice \in GasPrices /\ f.gasPrice > 0
        /\ f.fullGas => f.gasLimit <= BlockGas
        /\ LimitOverflows(f) \/ Asked(f) <= s.providerFunds[f.receipt.provider.addr]

CoreInv ==
    /\ CoreTypes
    /\ SettingsOK(params)
    /\ Accounted(currentTaskReceiptId, taskReceiptHash, receipts, outcomes,
                 Taken(calls, Len(calls)))
    /\ \A k \in 1..Len(calls) : FrameOK(calls, k)

-----------------------------------------------------------------------------
(* Receipts move between their three places. *)

Put(f, id, r) == [f EXCEPT ![id] = r]
Log(events, id, e) == [events EXCEPT ![id] = Append(@, e)]
Cleared(hash, S) == [id \in Ids |-> IF id \in S THEN NoReceipt ELSE hash[id]]
LogAll(events, S, e) ==
    [id \in Ids |-> IF id \in S THEN Append(events[id], e) ELSE events[id]]

LEMMA IdsAreNumbers == Ids \subseteq Nat \ {0} /\ \A n \in 0..MaxReceipts : 1..n \subseteq Ids
  BY CoreAssumption DEF Ids

\* Issuing a receipt under the next id.
LEMMA Issuing ==
    ASSUME NEW last \in 0..MaxReceipts, NEW hash \in Stores, NEW issued \in Stores,
           NEW events, NEW T, Accounted(last, hash, issued, events, T),
           NEW r, WellFormed(r, last + 1), last + 1 <= MaxReceipts
    PROVE  Accounted(last + 1, Put(hash, last + 1, r), Put(issued, last + 1, r),
                     events, T)
<1> DEFINE n == last + 1
           h == Put(hash, n, r)
           s == Put(issued, n, r)
<1>1. n \in Ids /\ n \notin T /\ T \subseteq 1..n
  BY CoreAssumption DEF Accounted, Ids
<1>2. ASSUME NEW id \in Ids, id <= n
      PROVE  WellFormed(s[id], id) /\ Placed(h[id], s[id], events[id], id \in T)
  <2>1. CASE id = n
    <3>1. s[id] = r /\ h[id] = r
      BY <1>1, <2>1 DEF Stores, Put
    <3>2. events[id] = <<>>
      BY <2>1, CoreAssumption DEF Accounted, Ids
    <3> QED
      BY <1>1, <2>1, <3>1, <3>2 DEF Placed
  <2>2. CASE id # n
    <3>1. s[id] = issued[id] /\ h[id] = hash[id] /\ id <= last
      BY <1>2, <2>2, CoreAssumption DEF Stores, Ids, Put
    <3> QED
      BY <3>1 DEF Accounted
  <2> QED
    BY <2>1, <2>2
<1>3. ASSUME NEW id \in Ids, ~ (id <= n)
      PROVE  s[id] = NoReceipt /\ h[id] = NoReceipt /\ events[id] = <<>>
  <2>1. ~ (id <= last) /\ id # n
    BY <1>3, CoreAssumption DEF Ids
  <2> QED
    BY <2>1 DEF Accounted, Stores, Put
<1> HIDE DEF n, h, s
<1> QED
  <2>1. Accounted(n, h, s, events, T)
    BY <1>1, <1>2, <1>3 DEF Accounted
  <2> QED
    BY <2>1 DEF n, h, s

\* An execution takes a receipt that is stored.
LEMMA Taking ==
    ASSUME NEW last \in 0..MaxReceipts, NEW hash \in Stores, NEW issued,
           NEW events, NEW T, Accounted(last, hash, issued, events, T),
           NEW id \in 1..last, hash[id] # NoReceipt
    PROVE  /\ Accounted(last, Put(hash, id, NoReceipt), issued, events,
                        T \cup {id})
           /\ id \notin T /\ hash[id] = issued[id] /\ events[id] = <<>>
<1> DEFINE h == Put(hash, id, NoReceipt)
           U == T \cup {id}
<1>1. id \in Ids /\ id <= last
  BY CoreAssumption DEF Ids
<1>2. id \notin T /\ hash[id] = issued[id] /\ events[id] = <<>>
  BY <1>1 DEF Accounted, Placed
<1>3. ASSUME NEW i \in Ids, i <= last
      PROVE  WellFormed(issued[i], i) /\ Placed(h[i], issued[i], events[i], i \in U)
  <2>1. CASE i = id
    <3>1. h[i] = NoReceipt /\ i \in U /\ events[i] = <<>>
      BY <1>1, <1>2, <2>1 DEF Stores, Put
    <3> QED
      BY <1>3, <3>1 DEF Accounted, Placed
  <2>2. CASE i # id
    <3>1. h[i] = hash[i] /\ (i \in U <=> i \in T)
      BY <2>2 DEF Stores, Put
    <3> QED
      BY <1>3, <3>1 DEF Accounted, Placed
  <2> QED
    BY <2>1, <2>2
<1>4. ASSUME NEW i \in Ids, ~ (i <= last)
      PROVE  issued[i] = NoReceipt /\ h[i] = NoReceipt /\ events[i] = <<>>
  BY <1>1, <1>4 DEF Accounted, Stores, Put
<1>5. U \subseteq 1..last
  BY DEF Accounted
<1> HIDE DEF h, U
<1>6. Accounted(last, h, issued, events, U)
  BY <1>3, <1>4, <1>5 DEF Accounted
<1> QED
  BY <1>2, <1>6 DEF h, U

\* An execution that has taken a receipt closes it.
LEMMA ClosingTaken ==
    ASSUME NEW last \in 0..MaxReceipts, NEW hash, NEW issued,
           NEW events \in [Ids -> Seq(Events)], NEW T, NEW id \in 1..last,
           id \notin T, Accounted(last, hash, issued, events, T \cup {id}),
           NEW e \in Events
    PROVE  Accounted(last, hash, issued, Log(events, id, e), T)
<1> DEFINE v == Log(events, id, e)
           U == T \cup {id}
<1>1. id \in Ids /\ id <= last
  BY CoreAssumption DEF Ids
<1>2. v[id] = Append(events[id], e) /\ events[id] \in Seq(Events)
  BY <1>1 DEF Log
<1>3. hash[id] = NoReceipt /\ events[id] = <<>>
  BY <1>1 DEF Accounted, Placed
<1>4. Len(v[id]) = 1
  BY <1>2, <1>3
<1>5. ASSUME NEW i \in Ids, i <= last
      PROVE  WellFormed(issued[i], i) /\ Placed(hash[i], issued[i], v[i], i \in T)
  <2>1. CASE i = id
    BY <1>1, <1>3, <1>4, <2>1 DEF Accounted, Placed
  <2>2. CASE i # id
    <3>1. v[i] = events[i] /\ (i \in U <=> i \in T)
      BY <2>2 DEF Log
    <3> QED
      BY <1>5, <3>1 DEF Accounted, Placed
  <2> QED
    BY <2>1, <2>2
<1>6. ASSUME NEW i \in Ids, ~ (i <= last)
      PROVE  issued[i] = NoReceipt /\ hash[i] = NoReceipt /\ v[i] = <<>>
  BY <1>1, <1>6 DEF Accounted, Log
<1>7. T \subseteq 1..last
  BY DEF Accounted
<1> HIDE DEF v
<1>8. Accounted(last, hash, issued, v, T)
  BY <1>5, <1>6, <1>7 DEF Accounted
<1> QED
  BY <1>8 DEF v

\* Receipts that are stored are closed: cancelled, refunded or annulled.
LEMMA ClosingStored ==
    ASSUME NEW last \in 0..MaxReceipts, NEW hash \in Stores, NEW issued,
           NEW events \in [Ids -> Seq(Events)], NEW T,
           Accounted(last, hash, issued, events, T),
           NEW S \in SUBSET (1..last), \A id \in S : hash[id] # NoReceipt,
           NEW e \in Events
    PROVE  Accounted(last, Cleared(hash, S), issued, LogAll(events, S, e), T)
<1> DEFINE h == Cleared(hash, S)
           v == LogAll(events, S, e)
<1>1. ASSUME NEW i \in Ids, i <= last
      PROVE  WellFormed(issued[i], i) /\ Placed(h[i], issued[i], v[i], i \in T)
  <2>1. CASE i \in S
    <3>1. i \notin T /\ events[i] = <<>>
      BY <1>1, <2>1 DEF Accounted, Placed
    <3>2. h[i] = NoReceipt /\ Len(v[i]) = 1 /\ v[i] \in Seq(Events)
      BY <2>1, <3>1 DEF Cleared, LogAll
    <3> QED
      BY <1>1, <3>1, <3>2 DEF Accounted, Placed
  <2>2. CASE i \notin S
    BY <1>1, <2>2 DEF Accounted, Cleared, LogAll
  <2> QED
    BY <2>1, <2>2
<1>2. ASSUME NEW i \in Ids, ~ (i <= last)
      PROVE  issued[i] = NoReceipt /\ h[i] = NoReceipt /\ v[i] = <<>>
  <2>1. i \notin S
    BY <1>2
  <2> QED
    BY <1>2, <2>1 DEF Accounted, Cleared, LogAll
<1>3. T \subseteq 1..last
  BY DEF Accounted
<1> HIDE DEF h, v
<1>4. Accounted(last, h, issued, v, T)
  BY <1>1, <1>2, <1>3 DEF Accounted
<1> QED
  BY <1>4 DEF h, v

\* What an aborted check does to the stored receipts and to what closed them.
Annulled(hash, events, id) ==
    [events EXCEPT ![id] =
        IF hash[id] = NoReceipt THEN @ ELSE Append(@, "annulled")]

\* Checks that abort close a receipt that is stored, and no other.
LEMMA Aborting ==
    ASSUME NEW last \in 0..MaxReceipts, NEW hash \in Stores, NEW issued,
           NEW events \in [Ids -> Seq(Events)], NEW T,
           Accounted(last, hash, issued, events, T), NEW id \in Ids
    PROVE  Accounted(last, Put(hash, id, NoReceipt), issued,
                     Annulled(hash, events, id), T)
<1>1. CASE hash[id] = NoReceipt
  <2>1. Put(hash, id, NoReceipt) = hash
    BY <1>1 DEF Put, Stores
  <2>2. Annulled(hash, events, id) = events
    BY <1>1 DEF Annulled
  <2> QED
    BY <2>1, <2>2
<1>2. CASE hash[id] # NoReceipt
  <2>1. id \in 1..last
    <3>1. id <= last
      BY <1>2 DEF Accounted
    <3> QED
      BY <3>1, CoreAssumption DEF Ids
  <2>2. Accounted(last, Cleared(hash, {id}), issued, LogAll(events, {id}, "annulled"), T)
    BY <1>2, <2>1, ClosingStored DEF Events
  <2>3. Put(hash, id, NoReceipt) = Cleared(hash, {id})
    BY DEF Put, Cleared, Stores
  <2>4. Annulled(hash, events, id) = LogAll(events, {id}, "annulled")
    BY <1>2 DEF Annulled, LogAll
  <2> QED
    BY <2>2, <2>3, <2>4
<1> QED
  BY <1>1, <1>2

-----------------------------------------------------------------------------
(* Executions are pushed and popped. *)

LEMMA Pushing ==
    ASSUME NEW c \in Seq(Calls), NEW f \in Calls
    PROVE  LET d == Append(c, f) IN
           /\ d \in Seq(Calls) /\ Len(d) = Len(c) + 1 /\ d[Len(d)] = f
           /\ Taken(d, Len(c)) = Taken(c, Len(c))
           /\ Taken(d, Len(d)) = Taken(c, Len(c)) \cup {f.receipt.id}
           /\ \A k \in 1..Len(c) : FrameOK(c, k) => FrameOK(d, k)
<1> DEFINE d == Append(c, f)
<1>1. /\ d \in Seq(Calls) /\ Len(d) = Len(c) + 1 /\ d[Len(d)] = f
      /\ Len(c) \in Nat /\ \A j \in 1..Len(c) : d[j] = c[j]
  OBVIOUS
<1> HIDE DEF d
<1>2. \A k \in 0..Len(c) : Taken(d, k) = Taken(c, k)
  BY <1>1 DEF Taken
<1>3. Taken(d, Len(d)) = Taken(c, Len(c)) \cup {f.receipt.id}
  BY <1>1 DEF Taken
<1>4. ASSUME NEW k \in 1..Len(c), FrameOK(c, k) PROVE FrameOK(d, k)
  <2>1. d[k] = c[k] /\ k - 1 \in 0..Len(c)
    BY <1>1
  <2> QED
    BY <1>2, <1>4, <2>1 DEF FrameOK
<1> QED
  BY <1>1, <1>2, <1>3, <1>4 DEF d

LEMMA FrontOfSeq ==
    ASSUME NEW S, NEW c \in Seq(S), c # <<>>
    PROVE  LET d == SubSeq(c, 1, Len(c) - 1) IN
           /\ d \in Seq(S) /\ Len(d) = Len(c) - 1
           /\ \A j \in 1..Len(d) : d[j] = c[j]
<1>0. Len(c) \in Nat \ {0}
  BY EmptySeq
<1>1. \A i \in 1..(Len(c) - 1) : c[i] \in S
  OBVIOUS
<1>2. PICK n \in Nat : n = Len(c) - 1
  BY <1>0
<1>3. Len(SubSeq(c, 1, n)) = IF 1 <= n THEN n - 1 + 1 ELSE 0
  BY <1>1, <1>2, SubSeqProperties
<1>4. SubSeq(c, 1, n) \in Seq(S) /\ \A j \in 1..n : SubSeq(c, 1, n)[j] = c[j]
  BY <1>1, <1>2
<1> QED
  BY <1>2, <1>3, <1>4

LEMMA Popping ==
    ASSUME NEW c \in Seq(Calls), c # <<>>
    PROVE  LET d == SubSeq(c, 1, Len(c) - 1) IN
           /\ d \in Seq(Calls) /\ Len(d) = Len(c) - 1 /\ Len(c) \in Nat \ {0}
           /\ c[Len(c)] \in Calls
           /\ Taken(d, Len(d)) = Taken(c, Len(c) - 1)
           /\ Taken(c, Len(c)) = Taken(c, Len(c) - 1) \cup {c[Len(c)].receipt.id}
           /\ \A k \in 1..Len(d) : FrameOK(c, k) => FrameOK(d, k)
<1> DEFINE d == SubSeq(c, 1, Len(c) - 1)
<1>1. Len(c) \in Nat \ {0} /\ c[Len(c)] \in Calls
  BY EmptySeq
<1>2. /\ d \in Seq(Calls) /\ Len(d) = Len(c) - 1
      /\ \A j \in 1..Len(d) : d[j] = c[j]
  BY FrontOfSeq
<1> HIDE DEF d
<1>3. \A k \in 0..Len(d) : Taken(d, k) = Taken(c, k)
  BY <1>2 DEF Taken
<1>4. Taken(c, Len(c)) = Taken(c, Len(c) - 1) \cup {c[Len(c)].receipt.id}
  BY <1>1 DEF Taken
<1>5. ASSUME NEW k \in 1..Len(d), FrameOK(c, k) PROVE FrameOK(d, k)
  <2>1. d[k] = c[k] /\ k - 1 \in 0..Len(d)
    BY <1>1, <1>2
  <2> QED
    BY <1>3, <1>5, <2>1 DEF FrameOK
<1> QED
  BY <1>1, <1>2, <1>3, <1>4, <1>5 DEF d

\* What is known of the innermost execution and of its receipt.
LEMMA InnermostFrame ==
    ASSUME CoreInv, calls # <<>>
    PROVE  LET n == Len(calls)
               f == Frame
               id == f.receipt.id
               s == f.saved
           IN  /\ n \in Nat \ {0} /\ f \in Calls /\ FrameOK(calls, n)
               /\ id \in 1..currentTaskReceiptId /\ id \in 1..s.currentTaskReceiptId
               /\ WellFormed(f.receipt, id)
               /\ id \notin Taken(calls, n - 1)
               /\ Taken(calls, n) = Taken(calls, n - 1) \cup {id}
               /\ s.taskReceiptHash[id] # NoReceipt
<1> DEFINE n == Len(calls)
           f == calls[Len(calls)]
           id == f.receipt.id
           s == f.saved
           T == Taken(calls, n - 1)
<1>1. calls \in Seq(Calls)
  BY DEF CoreInv, CoreTypes
<1>2. /\ n \in Nat \ {0} /\ f \in Calls
      /\ Taken(calls, n) = T \cup {id}
  BY <1>1, Popping
<1>3. FrameOK(calls, n)
  BY <1>2 DEF CoreInv
<1>4. /\ s.taskReceiptHash[id] = f.receipt /\ id \in 1..s.currentTaskReceiptId
      /\ Accounted(s.currentTaskReceiptId, s.taskReceiptHash, s.receipts,
                   s.outcomes, T)
  BY <1>3 DEF FrameOK
<1>5. f.receipt # NoReceipt /\ s \in Snapshots
  BY <1>2, CoreAssumption DEF Calls
<1>6. s.currentTaskReceiptId \in 0..MaxReceipts /\ s.taskReceiptHash \in Stores
  BY <1>5 DEF Snapshots
<1>7. id \notin T /\ s.taskReceiptHash[id] = s.receipts[id]
  <2> HIDE DEF n, f, id, s, T
  <2> DEFINE last == s.currentTaskReceiptId
             hash == s.taskReceiptHash
  <2>1. /\ last \in 0..MaxReceipts /\ hash \in Stores /\ id \in 1..last
        /\ Accounted(last, hash, s.receipts, s.outcomes, T)
        /\ hash[id] # NoReceipt
    BY <1>4, <1>5, <1>6
  <2> HIDE DEF last, hash
  <2>2. id \in Ids /\ id <= last
    BY <2>1, CoreAssumption DEF Ids
  <2>3. id \notin T /\ hash[id] = s.receipts[id]
    BY <2>1, <2>2 DEF Accounted, Placed
  <2> QED
    BY <2>3 DEF hash
<1>8. WellFormed(f.receipt, id)
  <2>1. id \in Ids /\ id <= s.currentTaskReceiptId
    BY <1>4, <1>6, CoreAssumption DEF Ids
  <2> QED
    BY <1>4, <1>7, <2>1 DEF Accounted
<1>9. id \in 1..currentTaskReceiptId
  BY <1>2 DEF CoreInv, Accounted
<1> QED
  BY <1>2, <1>3, <1>4, <1>5, <1>7, <1>8, <1>9 DEF Frame

-----------------------------------------------------------------------------
(* Arithmetic of fees *)

LEMMA ProductIsNat == \A a, b \in Nat : a * b \in Nat /\ (a * b) \div 100 \in Nat
  OBVIOUS

LEMMA ProductGrows ==
    ASSUME NEW a \in Nat, NEW b \in Nat, NEW x \in Nat, a <= b
    PROVE  a * x <= b * x
  OBVIOUS

LEMMA SmallModulo ==
    ASSUME NEW a \in Nat, NEW n \in Nat, a < n
    PROVE  a % n = a
  OBVIOUS

LEMMA SharesOfACost ==
    ASSUME NEW a \in Nat, NEW b \in Nat, NEW x \in Nat, NEW y \in Nat, a <= b
    PROVE  a + (a * x) \div 100 + (a * y) \div 100
                <= b + (b * (x + y)) \div 100
<1>1. a * x \in Nat /\ a * y \in Nat /\ b * (x + y) \in Nat
  BY ProductIsNat
<1>2. a * x + a * y = a * (x + y)
  OBVIOUS
<1>3. a * (x + y) <= b * (x + y)
  BY ProductGrows
<1>4. ASSUME NEW p \in Nat, NEW q \in Nat, NEW r \in Nat, p + q <= r
      PROVE  p \div 100 + q \div 100 <= r \div 100
  BY <1>4
<1>5. (a * x) \div 100 + (a * y) \div 100 <= (b * (x + y)) \div 100
  <2> DEFINE p == a * x
             q == a * y
             r == b * (x + y)
  <2>1. p \in Nat /\ q \in Nat /\ r \in Nat /\ p + q <= r
    BY <1>1, <1>2, <1>3
  <2> HIDE DEF p, q, r
  <2>2. p \div 100 + q \div 100 <= r \div 100
    BY <2>1, <1>4
  <2> QED
    BY <2>2 DEF p, q, r
<1>6. /\ (a * x) \div 100 \in Nat /\ (a * y) \div 100 \in Nat
      /\ (b * (x + y)) \div 100 \in Nat
  BY ProductIsNat
<1> QED
  BY <1>5, <1>6

LEMMA CostsAreNat ==
    ASSUME params \in Params, NEW f \in Calls, NEW gas \in GasUsed
    PROVE  /\ cappedGas(gas, f.gasLimit) \in Nat
           /\ cappedGas(gas, f.gasLimit) <= ExecTxOverhead + f.gasLimit
           /\ RefundOf(f, gas) \in Nat
           /\ ExecutorFee(f, gas) \in Nat /\ SysAdminFee(f, gas) \in Nat
<1>1. /\ gas \in Nat /\ f.gasLimit \in Nat /\ f.gasPrice \in Nat
      /\ ExecTxOverhead \in Nat
      /\ params.executorSuccessShare \in Nat /\ params.sysAdminSuccessShare \in Nat
  BY CoreAssumption, SysAdminAssumption DEF Calls, Params
<1>2. /\ cappedGas(gas, f.gasLimit) \in Nat
      /\ cappedGas(gas, f.gasLimit) <= ExecTxOverhead + f.gasLimit
  BY <1>1 DEF cappedGas, Lesser
<1>3. PICK g \in Nat : g = cappedGas(gas, f.gasLimit)
  BY <1>2
<1>4. PICK c \in Nat : c = g * f.gasPrice
  BY <1>1, ProductIsNat
<1>5. RefundOf(f, gas) = c
  BY <1>3, <1>4 DEF RefundOf
<1>6. /\ ExecutorFee(f, gas) = c + (c * params.executorSuccessShare) \div 100
      /\ SysAdminFee(f, gas) = (c * params.sysAdminSuccessShare) \div 100
  BY <1>3, <1>4 DEF ExecutorFee, SysAdminFee, executorSuccessFee, sysAdminSuccessFee
<1>7. /\ (c * params.executorSuccessShare) \div 100 \in Nat
      /\ (c * params.sysAdminSuccessShare) \div 100 \in Nat
  BY <1>1, ProductIsNat
<1> QED
  BY <1>2, <1>5, <1>6, <1>7

\* Nobody can send the gas of a limit that overflows.
LEMMA FullGasFits ==
    ASSUME calls \in Seq(Calls), NEW k \in 1..Len(calls), FrameOK(calls, k),
           calls[k].fullGas
    PROVE  ~ LimitOverflows(calls[k])
<1>1. PICK f \in Calls : f = calls[k]
  OBVIOUS
<1>2. PICK limit \in Nat, price \in Nat : limit = f.gasLimit /\ price = f.gasPrice
  BY DEF Calls
<1>3. PICK x \in Shares, y \in Shares : /\ x = f.saved.params.executorSuccessShare
                                       /\ y = f.saved.params.sysAdminSuccessShare
  BY <1>1 DEF FrameOK, SettingsOK
<1>4. /\ f.saved.params.totalSuccessShare = x + y
      /\ price \in GasPrices /\ price > 0 /\ limit <= BlockGas
  BY <1>1, <1>2, <1>3 DEF FrameOK, SettingsOK
<1>5. PICK total \in Nat : total = x + y
  BY SysAdminAssumption
<1>6. ExecTxOverhead \in Nat /\ BlockGas \in Nat /\ Word \in Nat
  BY SysAdminAssumption, CoreAssumption
<1>7. PICK m \in Nat, n \in Nat : /\ m = ExecTxOverhead + limit
                                 /\ n = ExecTxOverhead + BlockGas
  BY <1>6
<1>8. PICK a \in Nat, b \in Nat : a = m * price /\ b = n * price
  BY ProductIsNat
<1>9. PICK c \in Nat, d \in Nat : c = a * total /\ d = b * total
  BY ProductIsNat
<1>10. b + d < Word
  BY <1>3, <1>4, <1>5, <1>7, <1>8, <1>9, BlockGasAssumption
<1>11. a <= b /\ c <= d
  <2>1. m <= n
    BY <1>4, <1>6, <1>7
  <2>2. a <= b
    BY <1>8, <2>1, ProductGrows
  <2> QED
    BY <1>9, <2>2, ProductGrows
<1>12. a < Word /\ c < Word /\ a + c \div 100 < Word
  BY <1>6, <1>10, <1>11
<1>13. LimitOverflows(f) <=> a >= Word \/ c >= Word \/ a + c \div 100 >= Word
  BY <1>2, <1>4, <1>5, <1>7, <1>8, <1>9 DEF LimitOverflows
<1> QED
  BY <1>1, <1>6, <1>12, <1>13

\* What canExec found the provider to have covers the fees at unchanged shares,
\* and a refund.
LEMMA CheckedFundsCover ==
    ASSUME params \in Params, NEW k \in 1..Len(calls), calls \in Seq(Calls),
           FrameOK(calls, k), ~ LimitOverflows(calls[k]), NEW gas \in GasUsed
    PROVE  LET f == calls[k]
               s == calls[k].saved
           IN  /\ RefundOf(f, gas) <= s.providerFunds[f.receipt.provider.addr]
               /\ /\ params.executorSuccessShare = s.params.executorSuccessShare
                  /\ params.sysAdminSuccessShare = s.params.sysAdminSuccessShare
                  => ExecutorFee(f, gas) + SysAdminFee(f, gas)
                        <= s.providerFunds[f.receipt.provider.addr]
<1>1. PICK f \in Calls : f = calls[k]
  OBVIOUS
<1>2. PICK s \in Snapshots : s = f.saved
  BY DEF Calls
<1>3. PICK funds \in Nat : funds = s.providerFunds[f.receipt.provider.addr]
  BY DEF Calls, TaskReceipt, Snapshots
<1>4. /\ f.gasLimit \in Nat /\ f.gasPrice \in Nat /\ ExecTxOverhead \in Nat
      /\ s.params.executorSuccessShare \in Nat
      /\ s.params.sysAdminSuccessShare \in Nat
  BY SysAdminAssumption DEF Calls, Snapshots, Params
<1>5. PICK x \in Nat, y \in Nat : /\ x = s.params.executorSuccessShare
                                 /\ y = s.params.sysAdminSuccessShare
  BY <1>4
<1>6. PICK b \in Nat : b = (ExecTxOverhead + f.gasLimit) * f.gasPrice
  BY <1>4, ProductIsNat
<1>7. b + (b * (x + y)) \div 100 <= funds
  BY <1>1, <1>2, <1>3, <1>5, <1>6 DEF FrameOK, SettingsOK, Asked
<1>8. PICK g \in Nat : g = cappedGas(gas, f.gasLimit) /\ g <= ExecTxOverhead + f.gasLimit
  BY CostsAreNat
<1>9. PICK a \in Nat : a = g * f.gasPrice
  BY <1>4, ProductIsNat
<1>10. a <= b
  <2>1. PICK m \in Nat, price \in Nat : /\ m = ExecTxOverhead + f.gasLimit
                                       /\ price = f.gasPrice
    BY <1>4
  <2>2. g * price <= m * price
    BY <1>8, <2>1, ProductGrows
  <2> QED
    BY <1>6, <1>9, <2>1, <2>2
<1>11. RefundOf(f, gas) <= funds
  <2>1. RefundOf(f, gas) = a
    BY <1>8, <1>9 DEF RefundOf
  <2>2. (b * (x + y)) \div 100 \in Nat
    BY ProductIsNat
  <2> QED
    BY <1>7, <1>10, <2>1, <2>2
<1>12. ASSUME params.executorSuccessShare = x, params.sysAdminSuccessShare = y
       PROVE  ExecutorFee(f, gas) + SysAdminFee(f, gas) <= funds
  <2>1. /\ ExecutorFee(f, gas) = a + (a * x) \div 100
        /\ SysAdminFee(f, gas) = (a * y) \div 100
    BY <1>8, <1>9, <1>12
    DEF ExecutorFee, SysAdminFee, executorSuccessFee, sysAdminSuccessFee
  <2>2. a + (a * x) \div 100 + (a * y) \div 100 <= b + (b * (x + y)) \div 100
    BY <1>10, SharesOfACost
  <2>3. /\ (a * x) \div 100 \in Nat /\ (a * y) \div 100 \in Nat
        /\ (b * (x + y)) \div 100 \in Nat
    BY ProductIsNat
  <2> QED
    BY <1>7, <2>1, <2>2, <2>3
<1> QED
  BY <1>1, <1>2, <1>3, <1>5, <1>11, <1>12

-----------------------------------------------------------------------------
(* The initial states and the steps that leave the stack alone *)

LEMMA CoreInvInit == CoreInit => CoreInv
<1> SUFFICES ASSUME CoreInit PROVE CoreInv
  OBVIOUS
<1>1. LedgerTypeOK
  BY InitInv DEF CoreInit, LedgerInv
<1>2. NoReceipt \in TaskReceipt \cup {NoReceipt} /\ <<>> \in Seq(Events)
  OBVIOUS
<1>3. CoreTypes
  BY <1>1, <1>2, CoreAssumption DEF CoreInit, CoreTypes, Stores
<1>4. SettingsOK(params)
  BY DEF CoreInit, LedgerInit, SysAdminInit, SettingsOK
<1>5. calls = <<>> /\ Len(calls) = 0 /\ Taken(calls, 0) = {}
  BY DEF CoreInit, Taken
<1>6. Accounted(currentTaskReceiptId, taskReceiptHash, receipts, outcomes, {})
  BY CoreAssumption DEF CoreInit, Accounted, Ids
<1>7. \A k \in 1..Len(calls) : FrameOK(calls, k)
  BY <1>5
<1> QED
  BY <1>3, <1>4, <1>5, <1>6, <1>7 DEF CoreInv

\* FrameOK speaks of the stack alone.
LEMMA StackUnchanged ==
    ASSUME CoreInv, UNCHANGED calls
    PROVE  /\ calls' \in Seq(Calls) /\ Len(calls') <= MaxDepth
           /\ Taken(calls, Len(calls))' = Taken(calls, Len(calls))
           /\ (\A k \in 1..Len(calls) : FrameOK(calls, k))'
<1>1. /\ calls \in Seq(Calls) /\ Len(calls) <= MaxDepth
      /\ \A k \in 1..Len(calls) : FrameOK(calls, k)
  BY DEF CoreInv, CoreTypes
<1>2. calls' = calls
  OBVIOUS
<1>3. Taken(calls', Len(calls')) = Taken(calls, Len(calls))
  BY <1>2
<1>4. \A k \in 1..Len(calls') : FrameOK(calls', k)
  BY <1>1, <1>2
<1> QED
  BY <1>1, <1>2, <1>3, <1>4

\* Whoever sets a share sets the total with it.
LEMMA SettingsStayOK ==
    ASSUME CoreInv, [LedgerNext]_ledgerVars
    PROVE  SettingsOK(params')
<1>1. /\ params \in Params /\ SettingsOK(params)
  BY DEF CoreInv, CoreTypes, LedgerTypeOK, SysAdminTypeOK
<1>2. CASE UNCHANGED params
  BY <1>1, <1>2
<1>3. ASSUME NEW sender, SysAdminStep(sender) PROVE SettingsOK(params')
  <2>1. CASE \E x \in Shares : SetExecutorSuccessShare(sender, x)
    BY <1>1, <2>1 DEF SetExecutorSuccessShare, OwnerSets, Params, SettingsOK
  <2>2. CASE \E x \in Shares : SetSysAdminSuccessShare(sender, x)
    BY <1>1, <2>2 DEF SetSysAdminSuccessShare, OwnerSets, Params, SettingsOK
  <2>3. CASE ~ \E x \in Shares : \/ SetExecutorSuccessShare(sender, x)
                                 \/ SetSysAdminSuccessShare(sender, x)
    <3>1. /\ params'.totalSuccessShare = params.totalSuccessShare
          /\ params'.executorSuccessShare = params.executorSuccessShare
          /\ params'.sysAdminSuccessShare = params.sysAdminSuccessShare
          /\ params'.gelatoGasPrice \in GasPrices
      BY <1>1, <1>3, <2>3
      DEF SysAdminStep, OwnerSets, TransferOwnership, RenounceOwnership,
          SetGelatoMaxGas, SetInternalGasRequirement, SetMinExecutorStake,
          SetGelatoGasPriceOracle, WithdrawSysAdminFunds, Params, SettingsOK
    <3> QED
      BY <1>1, <3>1 DEF SettingsOK
  <2> QED
    BY <2>1, <2>2, <2>3
<1>4. CASE \E p \in GasPrices : OracleAnswers(p)
  BY <1>1, <1>4 DEF OracleAnswers, Params, SettingsOK
<1>5. ASSUME NEW sender, ProvidersStep(sender) PROVE UNCHANGED params
  BY <1>5 DEF ProvidersStep, ProvideFunds, UnprovideFunds, ProviderAssignsExecutor,
      ProvideTaskSpecs, UnprovideTaskSpecs, SetTaskSpecGasPriceCeil,
      AddProviderModules, RemoveProviderModules, MultiProvide, MultiUnprovide,
      sysAdminVars
<1>6. ASSUME NEW sender, ExecutorsStep(sender) PROVE UNCHANGED params
  BY <1>6 DEF ExecutorsStep, StakeExecutor, UnstakeExecutor,
      WithdrawExcessExecutorStake, ExecutorAssignsExecutor,
      MultiReassignProviders, sysAdminVars
<1>7. CASE UNCHANGED ledgerVars
  BY <1>2, <1>7 DEF ledgerVars, vars, sysAdminVars
<1>8. CASE LedgerNext
  BY <1>2, <1>3, <1>4, <1>5, <1>6, <1>8 DEF LedgerNext, LedgerStep
<1> QED
  BY <1>7, <1>8

\* A call that has nothing to do with tasks, and a new answer of the oracle.
LEMMA LedgerCallPreserves ==
    ASSUME CoreInv, [LedgerNext]_ledgerVars, UNCHANGED <<taskVars, calls>>,
           now' \in 1..MaxTime
    PROVE  CoreInv'
<1>1. LedgerTypeOK'
  BY TypeStep DEF CoreInv, CoreTypes, ledgerVars
<1>2. CoreTypes'
  BY <1>1, StackUnchanged DEF CoreInv, CoreTypes, taskVars
<1>3. Accounted(currentTaskReceiptId, taskReceiptHash, receipts, outcomes,
                Taken(calls, Len(calls)))'
  BY StackUnchanged DEF CoreInv, taskVars
<1> QED
  BY <1>2, <1>3, SettingsStayOK, StackUnchanged DEF CoreInv

LEMMA TickPreserves == ASSUME CoreInv, Tick PROVE CoreInv'
<1>1. now' \in 1..MaxTime
  BY CoreAssumption DEF Tick, CoreInv, CoreTypes
<1> QED
  BY <1>1, LedgerCallPreserves DEF Tick

-----------------------------------------------------------------------------
(* Submissions and cancellations *)

LEMMA StorePreserves ==
    ASSUME CoreInv, NEW newCycle \in BOOLEAN, NEW draft \in TaskReceipt,
           draft.cycleId <= currentTaskReceiptId + 1,
           draft.index < Len(draft.tasks),
           storeTaskReceipt(newCycle, draft),
           NEW events, NEW T,
           Accounted(currentTaskReceiptId, taskReceiptHash, receipts, events, T)
    PROVE  /\ currentTaskReceiptId' \in 0..MaxReceipts
           /\ taskReceiptHash' \in Stores /\ receipts' \in Stores
           /\ Accounted(currentTaskReceiptId', taskReceiptHash', receipts', events, T)
<1> DEFINE n == currentTaskReceiptId + 1
           r == [draft EXCEPT !.id = n, !.cycleId = IF newCycle THEN n ELSE @]
<1>1. /\ currentTaskReceiptId \in 0..MaxReceipts /\ n \in Nat /\ n <= MaxReceipts
      /\ taskReceiptHash \in Stores /\ receipts \in Stores
      /\ currentTaskReceiptId' = n
      /\ taskReceiptHash' = Put(taskReceiptHash, n, r)
      /\ receipts' = Put(receipts, n, r)
  BY CoreAssumption DEF CoreInv, CoreTypes, storeTaskReceipt, Put
<1>2. WellFormed(r, n)
  <2>1. r \in TaskReceipt
    BY <1>1 DEF TaskReceipt
  <2>2. r.id = n /\ r.cycleId <= n
    BY <1>1 DEF TaskReceipt
  <2>3. r.index < Len(r.tasks)
    BY DEF TaskReceipt
  <2> QED
    BY <2>1, <2>2, <2>3 DEF WellFormed
<1> HIDE DEF r
<1>3. taskReceiptHash' \in Stores /\ receipts' \in Stores
  BY <1>1, <1>2 DEF Stores, Put, WellFormed
<1>4. Accounted(n, Put(taskReceiptHash, n, r), Put(receipts, n, r), events, T)
  BY <1>1, <1>2, Issuing
<1> QED
  BY <1>1, <1>3, <1>4

LEMMA DefaultsAreTasks ==
    ASSUME params \in Params, NEW tasks \in Seq(Task)
    PROVE  /\ WithSelfProviderGasDefaults(tasks) \in Seq(Task)
           /\ Len(WithSelfProviderGasDefaults(tasks)) = Len(tasks)
<1> DEFINE d == WithSelfProviderGasDefaults(tasks)
<1>1. Len(tasks) \in Nat /\ \A i \in 1..Len(tasks) : tasks[i] \in Task
  OBVIOUS
<1>2. params.gelatoMaxGas \in Nat /\ NO_CEIL \in Nat
  BY ProvidersAssumption DEF Params
<1>3. DOMAIN d = 1..Len(tasks) /\ \A i \in 1..Len(tasks) : d[i] \in Task
  BY <1>1, <1>2 DEF WithSelfProviderGasDefaults, effectiveCeil, Task
<1>4. d \in [1..Len(tasks) -> Task]
  BY <1>3 DEF WithSelfProviderGasDefaults
<1>5. d \in Seq(Task)
  BY <1>1, <1>4, SeqDef
<1>6. Len(d) = Len(tasks)
  BY <1>1, <1>3, <1>5, LenProperties
<1> QED
  BY <1>5, <1>6

LEMMA SubmitPreserves ==
    ASSUME CoreInv, NEW sender \in Accounts, NEW provider \in ProviderStructs,
           NEW tasks \in Seq(Task), Len(tasks) > 0, NEW date \in Nat,
           NEW newCycle \in BOOLEAN, NEW n \in Nat,
           Submit(sender, provider, tasks, date, newCycle, n)
    PROVE  CoreInv'
<1> DEFINE ts == IF sender = provider.addr THEN WithSelfProviderGasDefaults(tasks)
                                           ELSE tasks
           draft == [id |-> 0, userProxy |-> sender, provider |-> provider,
                     index |-> 0, tasks |-> ts, expiryDate |-> date,
                     cycleId |-> 0, submissionsLeft |-> n]
<1>1. params \in Params /\ currentTaskReceiptId \in Nat
  BY DEF CoreInv, CoreTypes, LedgerTypeOK, SysAdminTypeOK
<1>2. ts \in Seq(Task) /\ Len(ts) > 0
  BY <1>1, DefaultsAreTasks
<1>3. provider \in [addr : Accounts, module : Modules]
  BY ProvidersAssumption DEF ProviderStructs
<1> HIDE DEF ts
<1>4. /\ draft \in TaskReceipt /\ draft.cycleId <= currentTaskReceiptId + 1
      /\ draft.index < Len(draft.tasks)
  BY <1>1, <1>2, <1>3 DEF TaskReceipt
<1>5. storeTaskReceipt(newCycle, draft)
      /\ UNCHANGED <<ledgerVars, outcomes, calls, now>>
  BY DEF Submit, ts
<1> HIDE DEF draft
<1>6. /\ currentTaskReceiptId' \in 0..MaxReceipts
      /\ taskReceiptHash' \in Stores /\ receipts' \in Stores
      /\ Accounted(currentTaskReceiptId', taskReceiptHash', receipts', outcomes,
                   Taken(calls, Len(calls)))
  BY <1>4, <1>5, StorePreserves DEF CoreInv
<1>7. LedgerTypeOK' /\ SettingsOK(params')
  BY <1>5, TypeStep, SettingsStayOK DEF CoreInv, CoreTypes, ledgerVars
<1>8. CoreTypes'
  BY <1>5, <1>6, <1>7, StackUnchanged DEF CoreInv, CoreTypes
<1>9. Accounted(currentTaskReceiptId, taskReceiptHash, receipts, outcomes,
                Taken(calls, Len(calls)))'
  BY <1>5, <1>6, StackUnchanged
<1> QED
  BY <1>5, <1>7, <1>8, <1>9, StackUnchanged DEF CoreInv

LEMMA SubmitStepPreserves ==
    ASSUME CoreInv, NEW sender \in Accounts, SubmitStep(sender)
    PROVE  CoreInv'
<1>1. PICK provider \in ProviderStructs, tasks \in TaskLists, date \in Expiries :
        \/ SubmitTask(sender, provider, tasks[1], date)
        \/ \E n \in Submits : SubmitTaskCycle(sender, provider, tasks, date, n)
        \/ \E n \in Submits : SubmitTaskChain(sender, provider, tasks, date, n)
  BY DEF SubmitStep
<1>2. tasks \in Seq(Task) /\ Len(tasks) > 0 /\ date \in Nat
  BY CoreAssumption
<1>3. tasks[1] \in Task /\ <<tasks[1]>> \in Seq(Task) /\ Len(<<tasks[1]>>) > 0
  BY <1>2
<1>4. CASE SubmitTask(sender, provider, tasks[1], date)
  BY <1>2, <1>3, <1>4, SubmitPreserves DEF SubmitTask
<1>5. CASE \E n \in Submits : SubmitTaskCycle(sender, provider, tasks, date, n)
  <2>1. PICK n \in Submits : SubmitTaskCycle(sender, provider, tasks, date, n)
    BY <1>5
  <2>2. PICK m \in Nat : m = n * Len(tasks)
    BY <1>2, CoreAssumption, ProductIsNat
  <2>3. m % Word \in Nat
    BY <2>2, SysAdminAssumption
  <2> QED
    BY <1>2, <2>1, <2>2, <2>3, SubmitPreserves DEF SubmitTaskCycle
<1>6. CASE \E n \in Submits : SubmitTaskChain(sender, provider, tasks, date, n)
  BY <1>2, <1>6, CoreAssumption, SubmitPreserves DEF SubmitTaskChain
<1> QED
  BY <1>1, <1>4, <1>5, <1>6

LEMMA IssuedReceipts ==
    ASSUME CoreInv, NEW r \in Issued
    PROVE  r.id \in 1..currentTaskReceiptId /\ WellFormed(r, r.id)
<1>1. PICK id \in 1..currentTaskReceiptId : r = receipts[id]
  BY DEF Issued
<1>2. id \in Ids /\ id <= currentTaskReceiptId
  BY CoreAssumption DEF CoreInv, CoreTypes, Ids
<1> QED
  BY <1>1, <1>2 DEF CoreInv, Accounted, WellFormed

LEMMA CancelPreserves ==
    ASSUME CoreInv, NEW sender, NEW rs \in SUBSET Issued,
           MultiCancelTasks(sender, rs)
    PROVE  CoreInv'
<1> DEFINE S == {r.id : r \in rs}
<1>1. /\ currentTaskReceiptId \in 0..MaxReceipts /\ taskReceiptHash \in Stores
      /\ outcomes \in [Ids -> Seq(Events)]
      /\ Accounted(currentTaskReceiptId, taskReceiptHash, receipts, outcomes,
                   Taken(calls, Len(calls)))
  BY DEF CoreInv, CoreTypes
<1>2. \A r \in rs : /\ r.id \in 1..currentTaskReceiptId
                    /\ taskReceiptHash[r.id] # NoReceipt
  <2>1. TAKE r \in rs
  <2>2. r.id \in 1..currentTaskReceiptId /\ r \in TaskReceipt
    BY IssuedReceipts DEF WellFormed
  <2> QED
    BY <2>2, CoreAssumption DEF MultiCancelTasks, IsStored
<1>3. S \in SUBSET (1..currentTaskReceiptId) /\ \A id \in S : taskReceiptHash[id] # NoReceipt
  BY <1>2
<1>4. /\ taskReceiptHash' = Cleared(taskReceiptHash, S)
      /\ outcomes' = LogAll(outcomes, S, "cancelled")
      /\ UNCHANGED <<ledgerVars, currentTaskReceiptId, receipts, calls, now>>
  <2>1. \A id \in Ids : (\E r \in rs : r.id = id) <=> id \in S
    OBVIOUS
  <2> HIDE DEF S
  <2> QED
    BY <2>1 DEF MultiCancelTasks, Cleared, LogAll
<1> HIDE DEF S
<1>5. Accounted(currentTaskReceiptId, taskReceiptHash', receipts, outcomes',
                Taken(calls, Len(calls)))
  <2> DEFINE T == Taken(calls, Len(calls))
  <2>1. Accounted(currentTaskReceiptId, taskReceiptHash, receipts, outcomes, T)
    BY <1>1
  <2> HIDE DEF T
  <2>2. "cancelled" \in Events
    BY DEF Events
  <2>3. Accounted(currentTaskReceiptId, Cleared(taskReceiptHash, S), receipts,
                  LogAll(outcomes, S, "cancelled"), T)
    BY <1>1, <1>3, <2>1, <2>2, ClosingStored
  <2>4. Accounted(currentTaskReceiptId, taskReceiptHash', receipts, outcomes', T)
    BY <1>4, <2>3
  <2> QED
    BY <2>4 DEF T
<1>6. taskReceiptHash' \in Stores /\ outcomes' \in [Ids -> Seq(Events)]
  <2>1. taskReceiptHash' \in Stores
    BY <1>1, <1>4 DEF Stores, Cleared
  <2>2. \A id \in Ids : Append(outcomes[id], "cancelled") \in Seq(Events)
    BY <1>1 DEF Events
  <2>3. outcomes' \in [Ids -> Seq(Events)]
    BY <1>1, <1>4, <2>2 DEF LogAll
  <2> QED
    BY <2>1, <2>3
<1>7. LedgerTypeOK' /\ SettingsOK(params')
  BY <1>4, TypeStep, SettingsStayOK DEF CoreInv, CoreTypes, ledgerVars
<1>8. CoreTypes'
  BY <1>4, <1>6, <1>7, StackUnchanged DEF CoreInv, CoreTypes
<1> QED
  BY <1>4, <1>5, <1>7, <1>8, StackUnchanged DEF CoreInv

-----------------------------------------------------------------------------
(* Executions *)

LEMMA SnapshotIsTyped == ASSUME CoreInv PROVE Snapshot \in Snapshots
  BY DEF CoreInv, CoreTypes, LedgerTypeOK, SysAdminTypeOK, ProvidersTypeOK,
         Snapshot, Snapshots

LEMMA GasLimitIsTyped ==
    ASSUME params \in Params, NEW r, WellFormed(r, r.id)
    PROVE  gasLimitOf(r) \in Nat
<1>1. r.tasks \in Seq(Task) /\ r.index \in Nat /\ r.index < Len(r.tasks)
  BY DEF WellFormed, TaskReceipt
<1>2. r.index + 1 \in 1..Len(r.tasks)
  BY <1>1
<1>3. task(r) \in Task
  BY <1>1, <1>2 DEF task
<1> QED
  BY <1>3 DEF gasLimitOf, Task, Params

\* A liquidity check that does not overflow asks for what it says.
LEMMA CheckIsExact ==
    ASSUME params \in Params, NEW f \in Calls, f.saved = Snapshot,
           ~ LimitOverflows(f)
    PROVE  minExecProviderFunds(f.gasLimit, f.gasPrice) = Asked(f)
<1>1. PICK total \in Nat : /\ total = params.totalSuccessShare
                           /\ total = f.saved.params.totalSuccessShare
  BY DEF Params, Snapshot
<1>2. PICK m \in Nat, price \in Nat : /\ m = ExecTxOverhead + f.gasLimit
                                     /\ price = f.gasPrice
  BY SysAdminAssumption DEF Calls
<1>3. PICK a \in Nat : a = m * price
  BY ProductIsNat
<1>4. PICK c \in Nat : c = a * total
  BY ProductIsNat
<1>5. PICK e \in Nat : e = a + c \div 100
  OBVIOUS
<1>6. Word \in Nat /\ a < Word /\ c < Word /\ e < Word
  BY <1>1, <1>2, <1>3, <1>4, <1>5, SysAdminAssumption DEF LimitOverflows
<1>7. a % Word = a /\ c % Word = c /\ e % Word = e
  BY <1>6, SmallModulo
<1>8. Asked(f) = e
  BY <1>1, <1>2, <1>3, <1>4, <1>5 DEF Asked
<1>9. minExecProviderFunds(f.gasLimit, f.gasPrice) = e
  BY <1>1, <1>2, <1>3, <1>4, <1>5, <1>7 DEF minExecProviderFunds
<1> QED
  BY <1>8, <1>9

LEMMA ExecBeginPreserves ==
    ASSUME CoreInv, NEW executor \in Accounts, NEW r \in Issued,
           NEW fullGas \in BOOLEAN, ExecBegin(executor, r, fullGas)
    PROVE  CoreInv'
<1> DEFINE id == r.id
           n == Len(calls)
           f == [receipt |-> r, executor |-> executor, gasLimit |-> gasLimitOf(r),
                 gasPrice |-> params.gelatoGasPrice, fullGas |-> fullGas,
                 saved |-> Snapshot]
           T == Taken(calls, n)
<1>1. /\ currentTaskReceiptId \in 0..MaxReceipts /\ taskReceiptHash \in Stores
      /\ calls \in Seq(Calls) /\ n \in Nat /\ params \in Params /\ SettingsOK(params)
      /\ Accounted(currentTaskReceiptId, taskReceiptHash, receipts, outcomes, T)
  BY DEF CoreInv, CoreTypes, LedgerTypeOK, SysAdminTypeOK
<1>2. /\ id \in 1..currentTaskReceiptId /\ WellFormed(r, id) /\ r \in TaskReceipt
      /\ r # NoReceipt
  BY IssuedReceipts, CoreAssumption DEF WellFormed
<1>3. /\ n < MaxDepth /\ params.gelatoGasPrice > 0
      /\ fullGas => gasLimitOf(r) <= BlockGas
      /\ taskReceiptHash[id] = r
      /\ isProviderLiquid(r.provider.addr, gasLimitOf(r), params.gelatoGasPrice)
      /\ taskReceiptHash' = Put(taskReceiptHash, id, NoReceipt)
      /\ calls' = Append(calls, f)
      /\ UNCHANGED <<ledgerVars, currentTaskReceiptId, receipts, outcomes, now>>
  BY DEF ExecBegin, canExec, IsStored, Put
<1>4. f \in Calls
  <2>1. params.gelatoGasPrice \in Nat
    BY <1>1, <1>3 DEF Params
  <2>2. gasLimitOf(r) \in Nat
    BY <1>1, <1>2, GasLimitIsTyped
  <2> QED
    BY <1>2, <2>1, <2>2, SnapshotIsTyped DEF Calls
<1>5. /\ f.receipt = r /\ f.gasLimit = gasLimitOf(r)
      /\ f.gasPrice = params.gelatoGasPrice /\ f.saved = Snapshot
      /\ f.fullGas = fullGas
  OBVIOUS
<1> HIDE DEF f
<1>6. /\ calls' \in Seq(Calls) /\ Len(calls') = n + 1 /\ calls'[n + 1] = f
      /\ Taken(calls', n) = T /\ Taken(calls', n + 1) = T \cup {id}
      /\ \A k \in 1..n : FrameOK(calls, k) => FrameOK(calls', k)
  BY <1>1, <1>3, <1>4, <1>5, Pushing
<1>7. FrameOK(calls', n + 1)
  <2>1. /\ Snapshot.taskReceiptHash[id] = r
        /\ id \in 1..Snapshot.currentTaskReceiptId
        /\ SettingsOK(Snapshot.params)
    BY <1>1, <1>2, <1>3 DEF Snapshot
  <2>2. Accounted(Snapshot.currentTaskReceiptId, Snapshot.taskReceiptHash,
                  Snapshot.receipts, Snapshot.outcomes, T)
    BY <1>1 DEF Snapshot
  <2>3. \/ LimitOverflows(f)
        \/ Asked(f) <= Snapshot.providerFunds[r.provider.addr]
    BY <1>1, <1>3, <1>4, <1>5, CheckIsExact DEF isProviderLiquid, Snapshot
  <2>4. n + 1 - 1 = n
    BY <1>1
  <2>5. /\ f.gasPrice \in GasPrices /\ f.gasPrice > 0
        /\ f.fullGas => f.gasLimit <= BlockGas
    BY <1>1, <1>3, <1>5 DEF SettingsOK
  <2> HIDE DEF T
  <2> QED
    BY <1>5, <1>6, <2>1, <2>2, <2>3, <2>4, <2>5 DEF FrameOK
<1>8. \A k \in 1..Len(calls') : FrameOK(calls', k)
  BY <1>1, <1>6, <1>7 DEF CoreInv
<1>9. Accounted(currentTaskReceiptId, taskReceiptHash', receipts, outcomes,
                Taken(calls', Len(calls')))
  <2> HIDE DEF T, id
  <2>1. taskReceiptHash[id] # NoReceipt
    BY <1>2, <1>3
  <2>2. Accounted(currentTaskReceiptId, Put(taskReceiptHash, id, NoReceipt),
                  receipts, outcomes, T \cup {id})
    BY <1>1, <1>2, <2>1, Taking
  <2> QED
    BY <1>3, <1>6, <2>2
<1>10. taskReceiptHash' \in Stores
  BY <1>1, <1>3 DEF Stores, Put
<1>11. LedgerTypeOK' /\ SettingsOK(params')
  BY <1>3, TypeStep, SettingsStayOK DEF CoreInv, CoreTypes, ledgerVars
<1>12. CoreTypes'
  <2>1. Len(calls') <= MaxDepth
    BY <1>1, <1>3, <1>6, CoreAssumption
  <2> QED
    BY <1>3, <1>6, <1>10, <1>11, <2>1 DEF CoreInv, CoreTypes
<1> QED
  BY <1>3, <1>8, <1>9, <1>11, <1>12 DEF CoreInv

\* What is left of the stack when the innermost execution ends.
LEMMA StackPopped ==
    ASSUME CoreInv, calls # <<>>, PopFrame
    PROVE  /\ calls' \in Seq(Calls) /\ Len(calls') <= MaxDepth
           /\ Taken(calls', Len(calls')) = Taken(calls, Len(calls) - 1)
           /\ \A k \in 1..Len(calls') : FrameOK(calls', k)
<1>1. calls \in Seq(Calls) /\ Len(calls) <= MaxDepth
  BY DEF CoreInv, CoreTypes
<1>2. /\ calls' \in Seq(Calls) /\ Len(calls') = Len(calls) - 1
      /\ Len(calls) \in Nat \ {0}
      /\ Taken(calls', Len(calls')) = Taken(calls, Len(calls) - 1)
      /\ \A k \in 1..Len(calls') : FrameOK(calls, k) => FrameOK(calls', k)
  BY <1>1, Popping DEF PopFrame
<1>3. \A k \in 1..Len(calls) : FrameOK(calls, k)
  BY DEF CoreInv
<1>4. \A k \in 1..Len(calls') : k \in 1..Len(calls)
  BY <1>2
<1>5. Len(calls') <= MaxDepth
  BY <1>1, <1>2, CoreAssumption
<1> QED
  BY <1>2, <1>3, <1>4, <1>5

\* Everything an execution did is taken back.
LEMMA RevertPreserves ==
    ASSUME CoreInv, calls # <<>>, Restore(Frame.saved), PopFrame, UNCHANGED now
    PROVE  CoreInv'
<1> DEFINE s == Frame.saved
           n == Len(calls)
<1>1. /\ n \in Nat \ {0} /\ Frame \in Calls /\ FrameOK(calls, n) /\ s \in Snapshots
  BY InnermostFrame DEF Calls
<1>2. /\ Accounted(s.currentTaskReceiptId, s.taskReceiptHash, s.receipts,
                   s.outcomes, Taken(calls, n - 1))
      /\ SettingsOK(s.params)
  BY <1>1 DEF FrameOK, Frame
<1> HIDE DEF s
<1>3. Restore(s)
  BY DEF s
<1>4. LedgerTypeOK'
  BY <1>1, <1>3 DEF Restore, RestoreParams, Snapshots, LedgerTypeOK,
                    SysAdminTypeOK, ProvidersTypeOK
<1>5. /\ currentTaskReceiptId' \in 0..MaxReceipts /\ taskReceiptHash' \in Stores
      /\ receipts' \in Stores /\ outcomes' \in [Ids -> Seq(Events)]
  BY <1>1, <1>3 DEF Restore, RestoreParams, Snapshots
<1>6. SettingsOK(params') /\
      Accounted(currentTaskReceiptId', taskReceiptHash', receipts', outcomes',
                Taken(calls', Len(calls')))
  BY <1>2, <1>3, StackPopped DEF Restore, RestoreParams
<1>7. CoreTypes'
  BY <1>4, <1>5, StackPopped DEF CoreInv, CoreTypes
<1> QED
  BY <1>6, <1>7, StackPopped DEF CoreInv

\* One receipt closed is a set of receipts closed.
LEMMA ClosingOne ==
    ASSUME NEW hash \in Stores, NEW events \in [Ids -> Seq(Events)], NEW id, NEW e
    PROVE  /\ Cleared(hash, {id}) = Put(hash, id, NoReceipt)
           /\ LogAll(events, {id}, e) = Log(events, id, e)
<1>1. Cleared(hash, {id}) = Put(hash, id, NoReceipt)
  BY DEF Stores, Cleared, Put
<1>2. LogAll(events, {id}, e) = Log(events, id, e)
  BY DEF LogAll, Log
<1> QED
  BY <1>1, <1>2

LEMMA ClosedIsTyped ==
    ASSUME NEW hash \in Stores, NEW events \in [Ids -> Seq(Events)], NEW id \in Ids,
           NEW e \in Events
    PROVE  /\ Put(hash, id, NoReceipt) \in Stores
           /\ Log(events, id, e) \in [Ids -> Seq(Events)]
<1>1. Put(hash, id, NoReceipt) \in Stores
  BY DEF Stores, Put
<1>2. Append(events[id], e) \in Seq(Events)
  OBVIOUS
<1>3. Log(events, id, e) \in [Ids -> Seq(Events)]
  BY <1>2 DEF Log
<1> QED
  BY <1>1, <1>3

\* Everything is taken back, except that the provider pays for the receipt and
\* loses it.
LEMMA RefundPreserves ==
    ASSUME CoreInv, NEW gas \in GasUsed, ExecRefund(gas)
    PROVE  CoreInv'
<1> DEFINE s == Frame.saved
           n == Len(calls)
           id == Frame.receipt.id
           provider == Frame.receipt.provider.addr
           c == RefundOf(Frame, gas)
           last == s.currentTaskReceiptId
           h == s.taskReceiptHash
           v == s.outcomes
           T == Taken(calls, n - 1)
<1>1. /\ calls # <<>> /\ PopFrame /\ UNCHANGED now /\ RestoreParams(s)
      /\ c <= s.providerFunds[provider]
      /\ taskReceiptHash' = Put(h, id, NoReceipt)
      /\ outcomes' = Log(v, id, "refunded")
      /\ providerFunds' = [s.providerFunds EXCEPT ![provider] = @ - c]
      /\ executorStake' = [s.executorStake EXCEPT ![Frame.executor] = @ + c]
  BY DEF ExecRefund, Put, Log
<1>2. /\ n \in Nat \ {0} /\ Frame \in Calls /\ FrameOK(calls, n)
      /\ s \in Snapshots /\ id \in 1..last /\ h[id] # NoReceipt
  BY <1>1, InnermostFrame DEF Calls
<1>3. Accounted(last, h, s.receipts, v, T) /\ SettingsOK(s.params)
  BY <1>2 DEF FrameOK, Frame
<1>4. /\ provider \in Accounts /\ Frame.executor \in Addresses
      /\ params \in Params
  BY <1>2 DEF Calls, TaskReceipt, Addresses, CoreInv, CoreTypes, LedgerTypeOK,
              SysAdminTypeOK
<1>5. c \in Nat
  BY <1>2, <1>4, CostsAreNat
<1>6. /\ last \in 0..MaxReceipts /\ h \in Stores /\ v \in [Ids -> Seq(Events)]
      /\ s.receipts \in Stores /\ "refunded" \in Events
  BY <1>2 DEF Snapshots, Events
<1>7. id \in Ids
  BY <1>2, <1>6, CoreAssumption DEF Ids
<1>8. /\ providerFunds' \in [Accounts -> Nat] /\ executorStake' \in [Addresses -> Nat]
  <2>1. s.providerFunds \in [Accounts -> Nat] /\ s.executorStake \in [Addresses -> Nat]
    BY <1>2 DEF Snapshots
  <2> HIDE DEF s, c, provider
  <2>2. s.providerFunds[provider] - c \in Nat
    BY <1>1, <1>4, <1>5, <2>1
  <2>3. s.executorStake[Frame.executor] + c \in Nat
    BY <1>4, <1>5, <2>1
  <2> QED
    BY <1>1, <2>1, <2>2, <2>3
<1>9. Accounted(last, taskReceiptHash', s.receipts, outcomes', T)
  <2> HIDE DEF last, h, v, T, id, s
  <2>1. {id} \in SUBSET (1..last) /\ \A i \in {id} : h[i] # NoReceipt
    BY <1>2
  <2>2. Accounted(last, Cleared(h, {id}), s.receipts, LogAll(v, {id}, "refunded"), T)
    BY <1>3, <1>6, <2>1, ClosingStored
  <2> QED
    BY <1>1, <1>6, <2>2, ClosingOne
<1>10. /\ taskReceiptHash' \in Stores /\ outcomes' \in [Ids -> Seq(Events)]
  <2> HIDE DEF h, v, id
  <2> QED
    BY <1>1, <1>6, <1>7, ClosedIsTyped
<1> HIDE DEF s
<1>11. /\ currentTaskReceiptId' = last /\ receipts' = s.receipts
       /\ params' = s.params
  BY <1>1 DEF RestoreParams
<1>12. LedgerTypeOK'
  BY <1>1, <1>2, <1>8
  DEF RestoreParams, Snapshots, LedgerTypeOK, SysAdminTypeOK, ProvidersTypeOK
<1>13. CoreTypes'
  BY <1>1, <1>6, <1>10, <1>11, <1>12, StackPopped DEF CoreInv, CoreTypes
<1>14. Accounted(currentTaskReceiptId', taskReceiptHash', receipts', outcomes',
                 Taken(calls', Len(calls')))
  BY <1>1, <1>9, <1>11, StackPopped
<1> QED
  BY <1>1, <1>3, <1>11, <1>13, <1>14, StackPopped DEF CoreInv

\* The execution stays done: its receipt is closed, the next one issued, and
\* the reward paid.
LEMMA SuccessPreserves ==
    ASSUME CoreInv, NEW gas \in GasUsed, ExecSuccess(gas)
    PROVE  CoreInv'
<1> DEFINE f == Frame
           r == Frame.receipt
           id == Frame.receipt.id
           n == Len(calls)
           T == Taken(calls, n - 1)
           provider == r.provider.addr
           fees == ExecutorFee(f, gas) + SysAdminFee(f, gas)
           draft == [r EXCEPT !.index = nextIndex(r),
                              !.submissionsLeft = submissionsLeftAfter(r)]
           v == Log(outcomes, id, "rewarded")
<1>1. /\ calls # <<>> /\ PopFrame /\ fees <= providerFunds[provider]
      /\ PayReward(f, gas) /\ outcomes' = v
      /\ UNCHANGED <<params, gelatoBalance, assignmentVars, whitelistVars, now>>
      /\ \/ storeTaskReceipt(FALSE, draft)
         \/ UNCHANGED <<currentTaskReceiptId, taskReceiptHash, receipts>>
  BY DEF ExecSuccess, FeesAreCovered, Log
<1>2. /\ n \in Nat \ {0} /\ f \in Calls /\ id \in 1..currentTaskReceiptId
      /\ WellFormed(r, id) /\ id \notin T
      /\ Taken(calls, n) = T \cup {id}
  BY <1>1, InnermostFrame
<1>3. /\ currentTaskReceiptId \in 0..MaxReceipts /\ taskReceiptHash \in Stores
      /\ receipts \in Stores /\ outcomes \in [Ids -> Seq(Events)]
      /\ params \in Params /\ SettingsOK(params) /\ "rewarded" \in Events
      /\ Accounted(currentTaskReceiptId, taskReceiptHash, receipts, outcomes,
                   Taken(calls, n))
  BY DEF CoreInv, CoreTypes, LedgerTypeOK, SysAdminTypeOK, Events
<1>4. id \in Ids
  BY <1>2, <1>3, CoreAssumption DEF Ids
<1>5. v \in [Ids -> Seq(Events)]
  <2> HIDE DEF id
  <2> QED
    BY <1>3, <1>4, ClosedIsTyped
<1>6. Accounted(currentTaskReceiptId, taskReceiptHash, receipts, v, T)
  <2> HIDE DEF T, id, n
  <2> QED
    BY <1>2, <1>3, ClosingTaken
<1>7. /\ draft \in TaskReceipt /\ draft.cycleId <= currentTaskReceiptId + 1
      /\ draft.index < Len(draft.tasks)
  <2>1. /\ r \in TaskReceipt /\ r.cycleId <= id /\ r.index < Len(r.tasks)
        /\ r.index \in Nat /\ Len(r.tasks) \in Nat /\ r.cycleId \in Nat
        /\ r.submissionsLeft \in Nat
    BY <1>2 DEF WellFormed, TaskReceipt
  <2>2. nextIndex(r) \in Nat /\ nextIndex(r) < Len(r.tasks)
    BY <2>1 DEF nextIndex
  <2>3. submissionsLeftAfter(r) \in Nat
    BY <2>1 DEF submissionsLeftAfter
  <2>4. draft \in TaskReceipt
    BY <2>1, <2>2, <2>3 DEF TaskReceipt
  <2>5. /\ draft.cycleId = r.cycleId /\ draft.index = nextIndex(r)
        /\ draft.tasks = r.tasks
    BY <2>1 DEF TaskReceipt
  <2>6. r.cycleId <= currentTaskReceiptId + 1
    BY <1>2, <1>3, <2>1
  <2> QED
    BY <2>2, <2>4, <2>5, <2>6
<1>8. /\ currentTaskReceiptId' \in 0..MaxReceipts /\ taskReceiptHash' \in Stores
      /\ receipts' \in Stores
      /\ Accounted(currentTaskReceiptId', taskReceiptHash', receipts', v, T)
  <2> HIDE DEF T, v, draft
  <2>1. CASE storeTaskReceipt(FALSE, draft)
    BY <1>6, <1>7, <2>1, StorePreserves
  <2>2. CASE UNCHANGED <<currentTaskReceiptId, taskReceiptHash, receipts>>
    BY <1>3, <1>6, <2>2
  <2> QED
    BY <1>1, <2>1, <2>2
<1>9. /\ provider \in Accounts /\ f.executor \in Addresses
  BY <1>2 DEF Calls, TaskReceipt, Addresses
<1>10. LedgerTypeOK'
  <2>1. /\ providerFunds \in [Accounts -> Nat] /\ executorStake \in [Addresses -> Nat]
        /\ sysAdminFunds \in Nat
    BY DEF CoreInv, CoreTypes, LedgerTypeOK, SysAdminTypeOK, ProvidersTypeOK
  <2>2. PICK x \in Nat, y \in Nat : x = ExecutorFee(f, gas) /\ y = SysAdminFee(f, gas)
    BY <1>2, <1>3, CostsAreNat
  <2>3. /\ providerFunds' = [providerFunds EXCEPT ![provider] = @ - (x + y)]
        /\ executorStake' = [executorStake EXCEPT ![f.executor] = @ + x]
        /\ sysAdminFunds' = sysAdminFunds + y
        /\ x + y <= providerFunds[provider]
    BY <1>1, <2>2 DEF PayReward
  <2> HIDE DEF f, provider
  <2>4. providerFunds[provider] - (x + y) \in Nat
    BY <1>9, <2>1, <2>2, <2>3
  <2>5. executorStake[f.executor] + x \in Nat
    BY <1>9, <2>1, <2>2
  <2>6. /\ providerFunds' \in [Accounts -> Nat] /\ executorStake' \in [Addresses -> Nat]
        /\ sysAdminFunds' \in Nat
    <3>1. providerFunds' \in [Accounts -> Nat]
      BY <2>1, <2>3, <2>4
    <3>2. executorStake' \in [Addresses -> Nat]
      BY <2>1, <2>3, <2>5
    <3>3. sysAdminFunds' \in Nat
      BY <2>1, <2>2, <2>3
    <3> QED
      BY <3>1, <3>2, <3>3
  <2> QED
    BY <1>1, <2>6 DEF CoreInv, CoreTypes, LedgerTypeOK, SysAdminTypeOK,
                      ProvidersTypeOK, assignmentVars, whitelistVars
<1>11. CoreTypes'
  BY <1>1, <1>5, <1>8, <1>10, StackPopped DEF CoreInv, CoreTypes
<1>12. Accounted(currentTaskReceiptId', taskReceiptHash', receipts', outcomes',
                 Taken(calls', Len(calls')))
  BY <1>1, <1>8, StackPopped
<1> QED
  BY <1>1, <1>3, <1>11, <1>12, StackPopped DEF CoreInv

\* What the check of a struct costs that aborts.
AbortCost(gas) == (gas + ExecTxOverhead) * params.gelatoGasPrice

LEMMA AbortCostIsNat ==
    ASSUME params \in Params, params.gelatoGasPrice > 0, NEW gas \in GasUsed
    PROVE  AbortCost(gas) \in Nat
<1>1. PICK price \in Nat : price = params.gelatoGasPrice
  BY DEF Params
<1>2. PICK g \in Nat : g = gas + ExecTxOverhead
  BY CoreAssumption, SysAdminAssumption
<1> QED
  BY <1>1, <1>2, ProductIsNat DEF AbortCost

\* What an execution does whose checks abort.
LEMMA AbortEffects ==
    ASSUME NEW executor, NEW id, NEW provider, NEW gas,
           ExecAbort(executor, id, provider, gas)
    PROVE  /\ params.gelatoGasPrice > 0 /\ executor = executorByProvider[provider]
           /\ AbortCost(gas) <= providerFunds[provider]
           /\ taskReceiptHash' = Put(taskReceiptHash, id, NoReceipt)
           /\ outcomes' = Annulled(taskReceiptHash, outcomes, id)
           /\ providerFunds' = [providerFunds EXCEPT ![provider] = @ - AbortCost(gas)]
           /\ executorStake' = [executorStake EXCEPT ![executor] = @ + AbortCost(gas)]
           /\ UNCHANGED <<sysAdminVars, assignmentVars, whitelistVars,
                          currentTaskReceiptId, receipts, calls, now>>
  BY DEF ExecAbort, AbortCost, Put, Annulled

\* Checks that abort: a receipt is closed if it is stored.
LEMMA AbortPreserves ==
    ASSUME CoreInv, NEW executor \in Accounts, NEW id \in Ids,
           NEW provider \in Accounts, NEW gas \in GasUsed,
           ExecAbort(executor, id, provider, gas)
    PROVE  CoreInv'
<1> DEFINE c == AbortCost(gas)
           T == Taken(calls, Len(calls))
<1>1. /\ params.gelatoGasPrice > 0
      /\ c <= providerFunds[provider]
      /\ taskReceiptHash' = Put(taskReceiptHash, id, NoReceipt)
      /\ outcomes' = Annulled(taskReceiptHash, outcomes, id)
      /\ providerFunds' = [providerFunds EXCEPT ![provider] = @ - c]
      /\ executorStake' = [executorStake EXCEPT ![executor] = @ + c]
      /\ UNCHANGED <<sysAdminVars, assignmentVars, whitelistVars,
                     currentTaskReceiptId, receipts, calls, now>>
  BY AbortEffects
<1>2. /\ currentTaskReceiptId \in 0..MaxReceipts /\ taskReceiptHash \in Stores
      /\ receipts \in Stores /\ outcomes \in [Ids -> Seq(Events)]
      /\ params \in Params /\ SettingsOK(params) /\ "annulled" \in Events
      /\ providerFunds \in [Accounts -> Nat] /\ executorStake \in [Addresses -> Nat]
      /\ Accounted(currentTaskReceiptId, taskReceiptHash, receipts, outcomes, T)
  BY DEF CoreInv, CoreTypes, LedgerTypeOK, SysAdminTypeOK, ProvidersTypeOK, Events
<1>3. executor \in Addresses
  BY DEF Addresses
<1>5. c \in Nat
  BY <1>1, <1>2, AbortCostIsNat
<1>6. Accounted(currentTaskReceiptId, taskReceiptHash', receipts, outcomes', T)
  <2> HIDE DEF T
  <2> QED
    BY <1>1, <1>2, Aborting
<1>7. taskReceiptHash' \in Stores /\ outcomes' \in [Ids -> Seq(Events)]
  <2>1. Append(outcomes[id], "annulled") \in Seq(Events) /\ outcomes[id] \in Seq(Events)
    BY <1>2
  <2> QED
    BY <1>1, <1>2, <2>1 DEF Stores, Put, Annulled
<1>8. providerFunds' \in [Accounts -> Nat] /\ executorStake' \in [Addresses -> Nat]
  <2> HIDE DEF c
  <2>1. providerFunds[provider] - c \in Nat
    BY <1>1, <1>2, <1>5
  <2>2. executorStake[executor] + c \in Nat
    BY <1>2, <1>3, <1>5
  <2> QED
    BY <1>1, <1>2, <2>1, <2>2
<1> HIDE DEF c
<1>9. LedgerTypeOK'
  BY <1>1, <1>8 DEF CoreInv, CoreTypes, LedgerTypeOK, SysAdminTypeOK,
      ProvidersTypeOK, sysAdminVars, assignmentVars, whitelistVars
<1>10. CoreTypes'
  BY <1>1, <1>7, <1>9, StackUnchanged DEF CoreInv, CoreTypes
<1>11. Accounted(currentTaskReceiptId, taskReceiptHash, receipts, outcomes,
                 Taken(calls, Len(calls)))'
  BY <1>1, <1>6, StackUnchanged
<1>12. SettingsOK(params')
  BY <1>1, <1>2 DEF sysAdminVars, SettingsOK
<1> QED
  BY <1>1, <1>10, <1>11, <1>12, StackUnchanged DEF CoreInv

-----------------------------------------------------------------------------
(* The invariant *)

LEMMA CallStepPreserves ==
    ASSUME CoreInv, NEW sender \in Accounts, CallStep(sender)
    PROVE  CoreInv'
<1>1. CASE LedgerStep(sender) /\ UNCHANGED <<taskVars, calls, now>>
  <2>1. LedgerNext
    BY <1>1 DEF LedgerNext
  <2>2. now' \in 1..MaxTime
    BY <1>1 DEF CoreInv, CoreTypes
  <2> QED
    BY <1>1, <2>1, <2>2, LedgerCallPreserves
<1>2. CASE SubmitStep(sender)
  BY <1>2, SubmitStepPreserves
<1>3. CASE CancelStep(sender)
  <2>1. CASE \E r \in Issued : CancelTask(sender, r)
    BY <2>1, CancelPreserves DEF CancelTask
  <2>2. CASE \E rs \in SUBSET Issued : MultiCancelTasks(sender, rs)
    BY <2>2, CancelPreserves
  <2> QED
    BY <1>3, <2>1, <2>2 DEF CancelStep
<1>4. CASE ExecStep(sender)
  BY <1>4, ExecBeginPreserves, AbortPreserves DEF ExecStep
<1> QED
  BY <1>1, <1>2, <1>3, <1>4 DEF CallStep

LEMMA ReturnPreserves == ASSUME CoreInv, Return PROVE CoreInv'
<1>1. CASE \E g \in GasUsed : ExecSuccess(g)
  BY <1>1, SuccessPreserves
<1>2. CASE \E g \in GasUsed : ExecRefund(g)
  BY <1>2, RefundPreserves
<1>3. CASE \E g \in GasUsed : ExecUnderflow(g)
  BY <1>3, RevertPreserves DEF ExecUnderflow
<1>4. CASE ExecRevert
  BY <1>4, RevertPreserves DEF ExecRevert
<1> QED
  BY <1>1, <1>2, <1>3, <1>4 DEF Return

LEMMA OracleStepPreserves == ASSUME CoreInv, OracleStep PROVE CoreInv'
<1>1. PICK p \in GasPrices : OracleAnswers(p)
  BY DEF OracleStep
<1>2. UNCHANGED <<providerVars, taskVars, calls, now>>
  BY DEF OracleStep
<1>3. LedgerNext
  BY <1>1, <1>2 DEF LedgerNext
<1>4. now' \in 1..MaxTime
  BY <1>2 DEF CoreInv, CoreTypes
<1> QED
  BY <1>2, <1>3, <1>4, LedgerCallPreserves

LEMMA CoreInvStep == ASSUME CoreInv, [CoreNext]_coreVars PROVE CoreInv'
<1>1. CASE UNCHANGED coreVars
  <2>1. now' \in 1..MaxTime
    BY <1>1 DEF coreVars, CoreInv, CoreTypes
  <2> QED
    BY <1>1, <2>1, LedgerCallPreserves DEF coreVars
<1>2. CASE CoreNext
  BY <1>2, CallStepPreserves, ReturnPreserves, TickPreserves, OracleStepPreserves
  DEF CoreNext
<1> QED
  BY <1>1, <1>2

\* The strengthening every result below rests on.
THEOREM CoreInvariant == CoreSpec => []CoreInv
<1>1. CoreInv /\ [CoreNext]_coreVars => CoreInv'
  BY CoreInvStep
<1> QED
  BY CoreInvInit, <1>1, PTL DEF CoreSpec

LEMMA TypesFollow == ASSUME CoreInv PROVE CoreTypeOK
<1>1. /\ currentTaskReceiptId \in 0..MaxReceipts /\ MaxReceipts \in Nat
      /\ NoReceipt \notin TaskReceipt
  BY CoreAssumption DEF CoreInv, CoreTypes
<1>2. ASSUME NEW id \in Ids
      PROVE  /\ taskReceiptHash[id] \in {NoReceipt, receipts[id]}
             /\ receipts[id] = NoReceipt <=> id > currentTaskReceiptId
             /\ id <= currentTaskReceiptId =>
                    LET r == receipts[id] IN
                    /\ r \in TaskReceipt /\ r.id = id /\ r.cycleId <= id
                    /\ r.index < Len(r.tasks)
  <2>1. CASE id <= currentTaskReceiptId
    <3>1. ~ (id > currentTaskReceiptId)
      BY <1>1, <2>1 DEF Ids
    <3>2. WellFormed(receipts[id], id) /\ taskReceiptHash[id] \in {NoReceipt, receipts[id]}
      BY <2>1 DEF CoreInv, Accounted, Placed
    <3> QED
      BY <1>1, <2>1, <3>1, <3>2 DEF WellFormed
  <2>2. CASE ~ (id <= currentTaskReceiptId)
    <3>1. id > currentTaskReceiptId
      BY <1>1, <2>2 DEF Ids
    <3>2. receipts[id] = NoReceipt /\ taskReceiptHash[id] = NoReceipt
      BY <2>2 DEF CoreInv, Accounted
    <3> QED
      BY <2>2, <3>1, <3>2
  <2> QED
    BY <2>1, <2>2
<1> QED
  BY <1>2 DEF CoreTypeOK, CoreInv, CoreTypes

\* Types of the whole core: in particular a receipt that is stored is the one
\* that was issued under its id, and its index names one of its tasks.
THEOREM CoreTypeCorrect == CoreSpec => []CoreTypeOK
  BY CoreInvariant, TypesFollow, PTL

LEMMA CoverageFollows == ASSUME CoreInv PROVE ChecksCoverPayments
<1> SUFFICES ASSUME NEW k \in 1..Len(calls), NEW g \in GasUsed
             PROVE  LET f == calls[k]
                        provider == f.receipt.provider.addr
                        shares(x) == <<x.executorSuccessShare, x.sysAdminSuccessShare>>
                    IN  /\ f.fullGas =>
                            /\ ~ LimitOverflows(f)
                            /\ RefundOf(f, g) <= f.saved.providerFunds[provider]
                        /\ \/ FeesAreCovered(f, g)
                           \/ providerFunds[provider] < f.saved.providerFunds[provider]
                           \/ shares(params) # shares(f.saved.params)
                           \/ LimitOverflows(f)
  BY DEF ChecksCoverPayments
<1> DEFINE provider == calls[k].receipt.provider.addr
           s == calls[k].saved
           fees == ExecutorFee(calls[k], g) + SysAdminFee(calls[k], g)
<1>1. /\ params \in Params /\ calls \in Seq(Calls) /\ FrameOK(calls, k)
      /\ providerFunds \in [Accounts -> Nat]
  BY DEF CoreInv, CoreTypes, LedgerTypeOK, SysAdminTypeOK, ProvidersTypeOK
<1>2. ~ LimitOverflows(calls[k]) =>
        /\ RefundOf(calls[k], g) <= s.providerFunds[provider]
        /\ /\ params.executorSuccessShare = s.params.executorSuccessShare
           /\ params.sysAdminSuccessShare = s.params.sysAdminSuccessShare
           => fees <= s.providerFunds[provider]
  BY <1>1, CheckedFundsCover
<1>3. calls[k] \in Calls
  BY <1>1
<1>4. fees \in Nat /\ s.providerFunds[provider] \in Nat /\ providerFunds[provider] \in Nat
  <2>1. ExecutorFee(calls[k], g) \in Nat /\ SysAdminFee(calls[k], g) \in Nat
    BY <1>1, <1>3, CostsAreNat
  <2>2. s \in Snapshots /\ provider \in Accounts
    BY <1>3 DEF Calls, TaskReceipt
  <2>3. s.providerFunds[provider] \in Nat
    BY <2>2 DEF Snapshots
  <2> QED
    BY <1>1, <2>1, <2>2, <2>3
<1>5. FeesAreCovered(calls[k], g) <=> fees <= providerFunds[provider]
  BY DEF FeesAreCovered
<1>6. calls[k].fullGas => ~ LimitOverflows(calls[k])
  BY <1>1, FullGasFits
<1> HIDE DEF fees, provider, s
<1>7. \/ FeesAreCovered(calls[k], g)
      \/ providerFunds[provider] < s.providerFunds[provider]
      \/ ~ /\ params.executorSuccessShare = s.params.executorSuccessShare
           /\ params.sysAdminSuccessShare = s.params.sysAdminSuccessShare
      \/ LimitOverflows(calls[k])
  BY <1>2, <1>4, <1>5
<1> QED
  BY <1>2, <1>6, <1>7 DEF provider, s

\* Whatever nests in an execution, and for every gas price and share and every
\* gas limit, overflowing ones included: the liquidity check covers a refund, and
\* the reward at unchanged funds and shares unless the check itself overflowed.
THEOREM CoreChecksCoverPayments == CoreSpec => []ChecksCoverPayments
  BY CoreInvariant, CoverageFollows, PTL

\* An execution that has taken a receipt is the only one: the receipts of the
\* executions under way differ.
LEMMA DistinctReceipts ==
    ASSUME CoreInv
    PROVE  \A j, k \in 1..Len(calls) :
                calls[j].receipt.id = calls[k].receipt.id => j = k
<1>1. calls \in Seq(Calls) /\ Len(calls) \in Nat
  BY DEF CoreInv, CoreTypes
<1>2. ASSUME NEW j \in 1..Len(calls), NEW k \in 1..Len(calls), j < k
      PROVE  calls[j].receipt.id # calls[k].receipt.id
  <2> DEFINE f == calls[k]
             s == f.saved
             id == f.receipt.id
             last == s.currentTaskReceiptId
             hash == s.taskReceiptHash
             T == Taken(calls, k - 1)
  <2>1. /\ f \in Calls /\ hash[id] = f.receipt /\ id \in 1..last
        /\ Accounted(last, hash, s.receipts, s.outcomes, T)
    BY <1>1 DEF CoreInv, FrameOK
  <2>2. f.receipt # NoReceipt /\ last \in 0..MaxReceipts
    BY <2>1, CoreAssumption DEF Calls, Snapshots
  <2>3. id \notin T
    <3> HIDE DEF f, s, id, T
    <3>1. id \in Ids /\ id <= last /\ hash[id] # NoReceipt
      BY <2>1, <2>2, CoreAssumption DEF Ids
    <3> QED
      BY <2>1, <3>1 DEF Accounted, Placed
  <2>4. j \in 1..(k - 1)
    BY <1>1, <1>2
  <2>5. calls[j].receipt.id \in T
    BY <2>4 DEF Taken
  <2> QED
    BY <2>3, <2>5
<1>3. TAKE j, k \in 1..Len(calls)
<1>4. j < k \/ j = k \/ k < j
  BY <1>1
<1> QED
  BY <1>2, <1>4

LEMMA InExecutionCounts ==
    ASSUME CoreInv, NEW id
    PROVE  InExecution(id) = IF id \in Taken(calls, Len(calls)) THEN 1 ELSE 0
<1> DEFINE K == {k \in 1..Len(calls) : calls[k].receipt.id = id}
<1>1. CASE id \in Taken(calls, Len(calls))
  <2>1. PICK k \in 1..Len(calls) : calls[k].receipt.id = id
    BY <1>1 DEF Taken
  <2>2. K = {k}
    BY <2>1, DistinctReceipts
  <2>3. Cardinality({k}) = 1
    BY FS_Singleton
  <2> QED
    BY <1>1, <2>2, <2>3 DEF InExecution
<1>2. CASE id \notin Taken(calls, Len(calls))
  <2>1. K = {}
    BY <1>2 DEF Taken
  <2>2. Cardinality({}) = 0
    BY FS_EmptySet
  <2> QED
    BY <1>2, <2>1, <2>2 DEF InExecution
<1> QED
  BY <1>1, <1>2

LEMMA AccountingFollows ==
    ASSUME CoreInv PROVE ReceiptsAreAccounted
<1> SUFFICES ASSUME NEW id \in 1..currentTaskReceiptId
             PROVE  (IF Pending(id) THEN 1 ELSE 0) + InExecution(id)
                        + Len(outcomes[id]) = 1
  BY DEF ReceiptsAreAccounted
<1> DEFINE taken == id \in Taken(calls, Len(calls))
<1>1. /\ id \in Ids /\ id <= currentTaskReceiptId /\ outcomes \in [Ids -> Seq(Events)]
      /\ NoReceipt \notin TaskReceipt
  BY CoreAssumption DEF CoreInv, CoreTypes, Ids
<1>2. /\ WellFormed(receipts[id], id)
      /\ Placed(taskReceiptHash[id], receipts[id], outcomes[id], taken)
  BY <1>1 DEF CoreInv, Accounted
<1>3. receipts[id] # NoReceipt
  BY <1>1, <1>2 DEF WellFormed
<1>4. InExecution(id) = IF taken THEN 1 ELSE 0
  BY InExecutionCounts
<1>5. Len(<<>>) = 0
  OBVIOUS
<1> HIDE DEF taken
<1>6. \/ Pending(id) /\ InExecution(id) = 0 /\ Len(outcomes[id]) = 0
      \/ ~ Pending(id) /\ InExecution(id) = 1 /\ Len(outcomes[id]) = 0
      \/ ~ Pending(id) /\ InExecution(id) = 0 /\ Len(outcomes[id]) = 1
  BY <1>2, <1>3, <1>4, <1>5 DEF Placed, Pending
<1>7. CASE Pending(id) /\ InExecution(id) = 0 /\ Len(outcomes[id]) = 0
  BY <1>7
<1>8. CASE ~ Pending(id) /\ InExecution(id) = 1 /\ Len(outcomes[id]) = 0
  BY <1>8
<1>9. CASE ~ Pending(id) /\ InExecution(id) = 0 /\ Len(outcomes[id]) = 1
  BY <1>9
<1> QED
  BY <1>6, <1>7, <1>8, <1>9

\* However executions nest and fail, and whatever structs executors pass, a
\* receipt is in exactly one place and closed once: none is executed twice, or
\* executed after it was cancelled, refunded or annulled - for every number of
\* accounts, tasks, receipts and nested executions.
THEOREM CoreReceiptsAreAccounted == CoreSpec => []ReceiptsAreAccounted
<1>1. CoreInv => ReceiptsAreAccounted
  BY AccountingFollows
<1> QED
  BY CoreInvariant, <1>1, PTL

LEMMA SubmittableFollows == ASSUME CoreInv PROVE SubmittableIsExecutable
<1> SUFFICES ASSUME NEW id \in 1..currentTaskReceiptId, Pending(id),
                    receipts[id].expiryDate # now,
                    canSubmitTask(receipts[id].userProxy, receipts[id].provider,
                                  task(receipts[id]), receipts[id].expiryDate),
                    isProviderLiquid(receipts[id].provider.addr,
                        gasLimitOf(receipts[id]), params.gelatoGasPrice),
                    params.gelatoGasPrice <=
                        IF selfProvider(receipts[id])
                        THEN task(receipts[id]).selfProviderGasPriceCeil
                        ELSE taskSpecGasPriceCeil[receipts[id].provider.addr]
                                                 [task(receipts[id]).spec]
             PROVE  canExec(receipts[id], gasLimitOf(receipts[id]),
                            params.gelatoGasPrice)
  BY DEF SubmittableIsExecutable
<1> DEFINE r == receipts[id]
           t == task(receipts[id])
<1>1. id \in Ids /\ id <= currentTaskReceiptId /\ now \in Nat
  BY CoreAssumption DEF CoreInv, CoreTypes, Ids
<1>2. WellFormed(r, id) /\ taskReceiptHash[id] = r
  BY <1>1 DEF CoreInv, Accounted, Placed, Pending
<1>3. r.id = id /\ r.expiryDate \in Nat
  BY <1>2 DEF WellFormed, TaskReceipt
<1>4. isExecutorMinStaked(executorByProvider[r.provider.addr])
  BY DEF canSubmitTask
<1>5. IsStored(r)
  BY <1>2, <1>3 DEF IsStored
<1>6. r.expiryDate = 0 \/ r.expiryDate > now
  BY <1>1, <1>3 DEF canSubmitTask
<1>7. providerCanExec(r.userProxy, r.provider, t, params.gelatoGasPrice)
  BY DEF canSubmitTask, providerCanExec, isTaskProvided, isTaskSpecProvided,
         selfProvider
<1> QED
  BY <1>4, <1>5, <1>6, <1>7 DEF canExec

\* Whoever is told that a task can be submitted can have it executed, for every
\* choice of stakes, ceilings, modules and dates, once its provider has funds.
THEOREM CoreSubmittableIsExecutable == CoreSpec => []SubmittableIsExecutable
  BY CoreInvariant, SubmittableFollows, PTL

-----------------------------------------------------------------------------
(* What the states of GelatoCore have to do with earlier ones: those saved  *)
(* by the executions under way, and those a reader of the chain saw.  They  *)
(* are in order, every one of them is solvent, and in every one of them the *)
(* receipts of a cycle form a line, run as often as was requested, as       *)
(* TaskCycle promises.                                                      *)
(*                                                                          *)
(* A failing execution brings an earlier state back, so what is said of a   *)
(* cycle holds in each state that an execution under way has saved.         *)

-----------------------------------------------------------------------------
(* A later state: receipts are issued on top of the earlier ones, hashes    *)
(* are only deleted, events are only added, and a provider that cannot call *)
(* in the middle of a transaction, nor its executor, pays for nothing but   *)
(* the receipts that name it.                                               *)

Extends(v, w) ==
    Len(v) <= Len(w) /\ \A i \in 1..Len(v) : w[i] = v[i]

Grows(s, t) ==
    /\ s.currentTaskReceiptId <= t.currentTaskReceiptId
    /\ \A id \in 1..s.currentTaskReceiptId :
        /\ t.receipts[id] = s.receipts[id]
        /\ s.taskReceiptHash[id] = NoReceipt => t.taskReceiptHash[id] = NoReceipt
    /\ \A id \in Ids : Extends(s.outcomes[id], t.outcomes[id])

\* An account of P that has lost funds paid for a receipt, for the first time.
ChargedFor(s, t, p) ==
    \E id \in 1..t.currentTaskReceiptId :
        /\ t.receipts[id].provider.addr = p
        /\ ~ PaidFor(s.outcomes[id]) /\ PaidFor(t.outcomes[id])

Charges(P, s, t) ==
    \A p \in P :
        t.providerFunds[p] < s.providerFunds[p] => ChargedFor(s, t, p)

\* The providers that have no code and whose executors have none.
Quiet(s) == {p \in Accounts : {p, s.executorByProvider[p]} \cap Contracts = {}}

Later(s, t) ==
    /\ Grows(s, t)
    /\ \A p \in Quiet(s) : t.executorByProvider[p] = s.executorByProvider[p]
    /\ Charges(Quiet(s), s, t)

LEMMA ChargesFewer ==
    ASSUME NEW s, NEW t, Charges(Accounts, s, t)
    PROVE  Charges(Quiet(s), s, t)
  BY DEF Charges, Quiet

LEMMA TypedHistory ==
    ASSUME NEW s \in Snapshots
    PROVE  /\ s.currentTaskReceiptId \in Nat
           /\ 1..s.currentTaskReceiptId \subseteq Ids
           /\ \A id \in Ids : /\ s.outcomes[id] \in Seq(Events)
                              /\ Len(s.outcomes[id]) \in Nat
           /\ \A p \in Accounts : s.providerFunds[p] \in Nat
  BY CoreAssumption DEF Snapshots, Ids

LEMMA LaterIsReflexive == ASSUME NEW s \in Snapshots PROVE Later(s, s)
<1>1. s.currentTaskReceiptId \in Nat
  BY TypedHistory
<1>2. \A id \in Ids : Len(s.outcomes[id]) \in Nat
  BY TypedHistory
<1>3. Charges(Quiet(s), s, s)
  <2>1. \A p \in Accounts : ~ (s.providerFunds[p] < s.providerFunds[p])
    BY TypedHistory
  <2> QED
    BY <2>1 DEF Charges, Quiet
<1> QED
  BY <1>1, <1>2, <1>3 DEF Later, Grows, Extends

LEMMA ExtendsIsTransitive ==
    ASSUME NEW u, NEW v, NEW w, Len(u) \in Nat, Len(v) \in Nat, Len(w) \in Nat,
           Extends(u, v), Extends(v, w)
    PROVE  Extends(u, w)
<1>1. Len(u) <= Len(w)
  BY DEF Extends
<1>2. ASSUME NEW i \in 1..Len(u) PROVE w[i] = u[i]
  <2>1. i \in 1..Len(v)
    BY DEF Extends
  <2> QED
    BY <2>1 DEF Extends
<1> QED
  BY <1>1, <1>2 DEF Extends

LEMMA GrowthIsTransitive ==
    ASSUME NEW s \in Snapshots, NEW t \in Snapshots, NEW u \in Snapshots,
           Grows(s, t), Grows(t, u)
    PROVE  Grows(s, u)
<1>1. /\ s.currentTaskReceiptId \in Nat /\ t.currentTaskReceiptId \in Nat
      /\ u.currentTaskReceiptId \in Nat
  BY TypedHistory
<1>2. s.currentTaskReceiptId <= u.currentTaskReceiptId
  BY <1>1 DEF Grows
<1>3. ASSUME NEW id \in 1..s.currentTaskReceiptId
      PROVE  /\ u.receipts[id] = s.receipts[id]
             /\ s.taskReceiptHash[id] = NoReceipt => u.taskReceiptHash[id] = NoReceipt
  <2>1. id \in 1..t.currentTaskReceiptId
    BY <1>1 DEF Grows
  <2> QED
    BY <2>1 DEF Grows
<1>4. ASSUME NEW id \in Ids PROVE Extends(s.outcomes[id], u.outcomes[id])
  <2>1. /\ Len(s.outcomes[id]) \in Nat /\ Len(t.outcomes[id]) \in Nat
        /\ Len(u.outcomes[id]) \in Nat
    BY TypedHistory
  <2>2. /\ Extends(s.outcomes[id], t.outcomes[id])
        /\ Extends(t.outcomes[id], u.outcomes[id])
    BY DEF Grows
  <2> QED
    BY <2>1, <2>2, ExtendsIsTransitive
<1> QED
  BY <1>2, <1>3, <1>4 DEF Grows

\* Events are only added: what was paid for stays paid for.
LEMMA PaidStaysPaid ==
    ASSUME NEW v \in Seq(Events), NEW w \in Seq(Events), Extends(v, w), PaidFor(v)
    PROVE  PaidFor(w)
<1>1. Len(v) >= 1 /\ v[1] \in {"rewarded", "refunded"}
  BY DEF PaidFor
<1>2. Len(w) >= 1 /\ w[1] = v[1]
  BY <1>1 DEF Extends
<1> QED
  BY <1>1, <1>2 DEF PaidFor

LEMMA LaterIsTransitive ==
    ASSUME NEW s \in Snapshots, NEW t \in Snapshots, NEW u \in Snapshots,
           Later(s, t), Later(t, u)
    PROVE  Later(s, u)
<1>1. /\ Grows(s, t) /\ Grows(t, u) /\ Grows(s, u)
      /\ Charges(Quiet(s), s, t) /\ Charges(Quiet(t), t, u)
  BY GrowthIsTransitive DEF Later
<1>2. /\ Quiet(s) \subseteq Quiet(t)
      /\ \A p \in Quiet(s) : u.executorByProvider[p] = s.executorByProvider[p]
  BY DEF Later, Quiet
<1>3. ASSUME NEW p \in Quiet(s), u.providerFunds[p] < s.providerFunds[p]
      PROVE  ChargedFor(s, u, p)
  <2>1. /\ t.currentTaskReceiptId \in Nat /\ u.currentTaskReceiptId \in Nat
        /\ t.currentTaskReceiptId <= u.currentTaskReceiptId
        /\ 1..t.currentTaskReceiptId \subseteq Ids /\ 1..u.currentTaskReceiptId \subseteq Ids
    BY <1>1, TypedHistory DEF Grows
  <2>2. ASSUME NEW id \in Ids
        PROVE  /\ PaidFor(s.outcomes[id]) => PaidFor(t.outcomes[id])
               /\ PaidFor(t.outcomes[id]) => PaidFor(u.outcomes[id])
    <3>1. /\ s.outcomes[id] \in Seq(Events) /\ t.outcomes[id] \in Seq(Events)
          /\ u.outcomes[id] \in Seq(Events)
      BY TypedHistory
    <3>2. /\ Extends(s.outcomes[id], t.outcomes[id])
          /\ Extends(t.outcomes[id], u.outcomes[id])
      BY <1>1 DEF Grows
    <3> QED
      BY <3>1, <3>2, PaidStaysPaid
  <2>3. CASE t.providerFunds[p] < s.providerFunds[p]
    <3>1. PICK id \in 1..t.currentTaskReceiptId :
                /\ t.receipts[id].provider.addr = p
                /\ ~ PaidFor(s.outcomes[id]) /\ PaidFor(t.outcomes[id])
      BY <1>1, <2>3 DEF Charges, ChargedFor
    <3>2. id \in 1..u.currentTaskReceiptId /\ u.receipts[id] = t.receipts[id]
      BY <1>1, <2>1 DEF Grows
    <3>3. PaidFor(u.outcomes[id])
      BY <2>1, <2>2, <3>1
    <3> QED
      BY <3>1, <3>2, <3>3 DEF ChargedFor
  <2>4. CASE ~ (t.providerFunds[p] < s.providerFunds[p])
    <3>1. p \in Accounts /\ p \in Quiet(t)
      BY <1>2 DEF Quiet
    <3>2. u.providerFunds[p] < t.providerFunds[p]
      BY <1>3, <2>4, <3>1, TypedHistory
    <3>3. PICK id \in 1..u.currentTaskReceiptId :
                /\ u.receipts[id].provider.addr = p
                /\ ~ PaidFor(t.outcomes[id]) /\ PaidFor(u.outcomes[id])
      BY <1>1, <3>1, <3>2 DEF Charges, ChargedFor
    <3>4. ~ PaidFor(s.outcomes[id])
      BY <2>1, <2>2, <3>3
    <3> QED
      BY <3>3, <3>4 DEF ChargedFor
  <2> QED
    BY <2>3, <2>4
<1> QED
  BY <1>1, <1>2, <1>3 DEF Later, Charges

LEMMA SnapshotFields ==
    /\ Snapshot.currentTaskReceiptId = currentTaskReceiptId
    /\ Snapshot.taskReceiptHash = taskReceiptHash
    /\ Snapshot.receipts = receipts
    /\ Snapshot.outcomes = outcomes
    /\ Snapshot.providerFunds = providerFunds
    /\ Snapshot.executorByProvider = executorByProvider
    /\ Snapshot'.currentTaskReceiptId = currentTaskReceiptId'
    /\ Snapshot'.taskReceiptHash = taskReceiptHash'
    /\ Snapshot'.receipts = receipts'
    /\ Snapshot'.outcomes = outcomes'
    /\ Snapshot'.providerFunds = providerFunds'
    /\ Snapshot'.executorByProvider = executorByProvider'
  BY DEF Snapshot

\* An event more, a hash less, a receipt on top make a state later.
LEMMA EventsExtend ==
    ASSUME NEW v \in Seq(Events), NEW e
    PROVE  Extends(v, v) /\ Extends(v, Append(v, e))
<1>1. Len(v) \in Nat /\ Len(Append(v, e)) = Len(v) + 1
  OBVIOUS
<1>2. \A i \in 1..Len(v) : Append(v, e)[i] = v[i]
  OBVIOUS
<1> QED
  BY <1>1, <1>2 DEF Extends

LEMMA SnapshotsAreTyped ==
    ASSUME CoreInv, [CoreNext]_coreVars
    PROVE  CoreInv' /\ Snapshot \in Snapshots /\ Snapshot' \in Snapshots
<1>1. CoreInv'
  BY CoreInvStep
<1>2. Snapshot' \in Snapshots
  BY <1>1
  DEF CoreInv, CoreTypes, LedgerTypeOK, SysAdminTypeOK, ProvidersTypeOK,
      Snapshot, Snapshots
<1> QED
  BY <1>1, <1>2, SnapshotIsTyped

LEMMA GrowsByTaskVars ==
    ASSUME NEW s \in Snapshots, NEW t,
           t.currentTaskReceiptId = s.currentTaskReceiptId,
           t.taskReceiptHash = s.taskReceiptHash, t.receipts = s.receipts,
           t.outcomes = s.outcomes
    PROVE  Grows(s, t)
<1>1. /\ s.currentTaskReceiptId \in Nat
      /\ \A id \in Ids : s.outcomes[id] \in Seq(Events)
  BY TypedHistory
<1>2. \A id \in Ids : Extends(s.outcomes[id], t.outcomes[id])
  BY <1>1, EventsExtend
<1> QED
  BY <1>1, <1>2 DEF Grows

LEMMA GrowsByClosing ==
    ASSUME NEW s \in Snapshots, NEW t, NEW S, NEW e,
           t.currentTaskReceiptId = s.currentTaskReceiptId, t.receipts = s.receipts,
           t.taskReceiptHash = Cleared(s.taskReceiptHash, S),
           t.outcomes = LogAll(s.outcomes, S, e) \/ t.outcomes = s.outcomes
    PROVE  Grows(s, t)
<1>1. s.currentTaskReceiptId \in Nat /\ 1..s.currentTaskReceiptId \subseteq Ids
  BY TypedHistory
<1>2. ASSUME NEW id \in Ids
      PROVE  /\ s.taskReceiptHash[id] = NoReceipt => t.taskReceiptHash[id] = NoReceipt
             /\ Extends(s.outcomes[id], t.outcomes[id])
  <2>1. s.outcomes[id] \in Seq(Events)
    BY TypedHistory
  <2>2. s.taskReceiptHash[id] = NoReceipt => t.taskReceiptHash[id] = NoReceipt
    BY DEF Cleared
  <2>3. t.outcomes[id] \in {s.outcomes[id], Append(s.outcomes[id], e)}
    BY DEF LogAll
  <2> QED
    BY <2>1, <2>2, <2>3, EventsExtend
<1> QED
  BY <1>1, <1>2 DEF Grows

LEMMA GrowsByIssuing ==
    ASSUME NEW s \in Snapshots, NEW t, NEW r,
           t.currentTaskReceiptId = s.currentTaskReceiptId + 1,
           t.receipts = Put(s.receipts, s.currentTaskReceiptId + 1, r),
           t.taskReceiptHash = Put(s.taskReceiptHash, s.currentTaskReceiptId + 1, r),
           \/ t.outcomes = s.outcomes
           \/ \E id \in Ids, e \in Events : t.outcomes = Log(s.outcomes, id, e)
    PROVE  Grows(s, t)
<1>1. /\ s.currentTaskReceiptId \in Nat /\ s.receipts \in Stores
      /\ s.taskReceiptHash \in Stores /\ s.outcomes \in [Ids -> Seq(Events)]
  BY TypedHistory DEF Snapshots
<1>2. ASSUME NEW id \in 1..s.currentTaskReceiptId
      PROVE  /\ t.receipts[id] = s.receipts[id]
             /\ t.taskReceiptHash[id] = s.taskReceiptHash[id]
  <2>1. id \in Ids /\ id # s.currentTaskReceiptId + 1
    BY <1>1, TypedHistory
  <2> QED
    BY <1>1, <2>1 DEF Put, Stores
<1>3. ASSUME NEW id \in Ids PROVE Extends(s.outcomes[id], t.outcomes[id])
  <2>1. s.outcomes[id] \in Seq(Events)
    BY <1>1
  <2>2. \/ t.outcomes[id] = s.outcomes[id]
        \/ \E e \in Events : t.outcomes[id] = Append(s.outcomes[id], e)
    BY <1>1 DEF Log
  <2> QED
    BY <2>1, <2>2, EventsExtend
<1> QED
  BY <1>1, <1>2, <1>3 DEF Grows

-----------------------------------------------------------------------------
(* Charges: nobody pays, or one provider pays for one receipt. *)

LEMMA NobodyPays ==
    ASSUME NEW P, NEW s, NEW t,
           \A p \in P : ~ (t.providerFunds[p] < s.providerFunds[p])
    PROVE  Charges(P, s, t)
  BY DEF Charges

LEMMA OneProviderPays ==
    ASSUME NEW s \in Snapshots, NEW t, NEW id \in Ids, NEW payer, NEW cost,
           NEW e \in {"rewarded", "refunded"}, s.outcomes[id] = <<>>,
           id \in 1..t.currentTaskReceiptId, t.receipts[id].provider.addr = payer,
           t.providerFunds = [s.providerFunds EXCEPT ![payer] = @ - cost],
           t.outcomes = Log(s.outcomes, id, e)
    PROVE  Charges(Accounts, s, t)
<1>1. s.outcomes \in [Ids -> Seq(Events)] /\ s.providerFunds \in [Accounts -> Nat]
  BY DEF Snapshots
<1>2. ~ PaidFor(s.outcomes[id]) /\ PaidFor(t.outcomes[id])
  <2>1. t.outcomes[id] = Append(<<>>, e)
    BY <1>1 DEF Log
  <2>2. t.outcomes[id] # <<>> /\ t.outcomes[id][1] = e
    BY <2>1
  <2> QED
    BY <2>2 DEF PaidFor
<1>3. ASSUME NEW p \in Accounts, p # payer PROVE ~ (t.providerFunds[p] < s.providerFunds[p])
  BY <1>1, <1>3
<1>4. ChargedFor(s, t, payer)
  BY <1>2 DEF ChargedFor
<1> QED
  BY <1>3, <1>4 DEF Charges

\* A call to the ledger moves nobody's funds but the sender's, and the
\* provider that loses some is sent them.
LEMMA LedgerMovesOwnFunds ==
    ASSUME LedgerTypeOK, NEW sender \in Accounts, LedgerStep(sender)
    PROVE  \A p \in Accounts : providerFunds'[p] < providerFunds[p] =>
                /\ p = sender
                /\ gelatoBalance' = gelatoBalance - (providerFunds[p] - providerFunds'[p])
<1> USE SysAdminAssumption, ProvidersAssumption
<1>0. /\ gelatoBalance \in Nat /\ providerFunds \in [Accounts -> Nat]
  BY DEF LedgerTypeOK, SysAdminTypeOK, ProvidersTypeOK
<1>1. CASE UNCHANGED providerFunds
  BY <1>0, <1>1
<1>2. ASSUME NEW p \in Accounts, NEW v \in Nat,
             providerFunds' = [providerFunds EXCEPT ![p] = @ + v]
      PROVE  \A q \in Accounts : ~ (providerFunds'[q] < providerFunds[q])
  BY <1>0, <1>2
<1>3. ASSUME NEW v \in Nat, v <= providerFunds[sender],
             providerFunds' = [providerFunds EXCEPT ![sender] = @ - v],
             gelatoBalance' = gelatoBalance - v
      PROVE  \A p \in Accounts : providerFunds'[p] < providerFunds[p] =>
                /\ p = sender
                /\ gelatoBalance' = gelatoBalance - (providerFunds[p] - providerFunds'[p])
  <2>1. /\ \A p \in Accounts : p # sender => providerFunds'[p] = providerFunds[p]
        /\ providerFunds'[sender] = providerFunds[sender] - v
    BY <1>0, <1>3
  <2>2. providerFunds[sender] - providerFunds'[sender] = v
    BY <1>0, <1>3, <2>1
  <2> QED
    BY <1>0, <1>3, <2>1, <2>2
<1>4. CASE SysAdminStep(sender) /\ UNCHANGED providerVars
  BY <1>1, <1>4 DEF providerVars
<1>5. CASE ProvidersStep(sender)
  <2>1. ASSUME NEW p \in Providers, NEW v \in Amounts, ProvideFunds(p, v)
        PROVE  \A q \in Accounts : ~ (providerFunds'[q] < providerFunds[q])
    BY <1>2, <2>1 DEF ProvideFunds
  <2>2. ASSUME NEW v \in Amounts, NEW executor, NEW ceils, NEW M,
               MultiProvide(sender, v, executor, ceils, M)
        PROVE  \A q \in Accounts : ~ (providerFunds'[q] < providerFunds[q])
    BY <1>2, <2>2 DEF MultiProvide
  <2>3. ASSUME NEW v \in Amounts,
               \/ UnprovideFunds(sender, v)
               \/ \E S \in SUBSET TaskSpecs, M \in SUBSET Modules :
                        MultiUnprovide(sender, v, S, M)
        PROVE  \A p \in Accounts : providerFunds'[p] < providerFunds[p] =>
                /\ p = sender
                /\ gelatoBalance' = gelatoBalance - (providerFunds[p] - providerFunds'[p])
    <3> DEFINE w == Lesser(v, providerFunds[sender])
    <3>1. w \in Nat /\ w <= providerFunds[sender]
      BY <1>0 DEF Lesser
    <3>2. /\ providerFunds' = [providerFunds EXCEPT ![sender] = @ - w]
          /\ gelatoBalance' = gelatoBalance - w
      BY <2>3 DEF UnprovideFunds, MultiUnprovide, SendValue
    <3> HIDE DEF w
    <3> QED
      BY <1>3, <3>1, <3>2
  <2> QED
    BY <1>1, <1>5, <2>1, <2>2, <2>3
    DEF ProvidersStep, ProviderAssignsExecutor, ProvideTaskSpecs, UnprovideTaskSpecs,
        SetTaskSpecGasPriceCeil, AddProviderModules, RemoveProviderModules
<1>6. CASE ExecutorsStep(sender)
  BY <1>1, <1>6
  DEF ExecutorsStep, ExecutorAssignsExecutor, MultiReassignProviders, StakeExecutor,
      UnstakeExecutor, WithdrawExcessExecutorStake
<1> QED
  BY <1>4, <1>5, <1>6 DEF LedgerStep

\* Only a provider and its executor assign another executor to it.
LEMMA LedgerReassignsOwn ==
    ASSUME LedgerTypeOK, NEW sender \in Accounts, LedgerStep(sender)
    PROVE  \A p \in Accounts :
                sender \in {p, executorByProvider[p]}
                    \/ executorByProvider'[p] = executorByProvider[p]
<1>0. executorByProvider \in [Accounts -> Addresses]
  BY DEF LedgerTypeOK, ProvidersTypeOK
<1>1. CASE UNCHANGED executorByProvider
  BY <1>1
<1>2. ASSUME NEW e, executorByProvider' = [executorByProvider EXCEPT ![sender] = e]
      PROVE  \A p \in Accounts : p = sender \/ executorByProvider'[p] = executorByProvider[p]
  BY <1>0, <1>2
<1>3. CASE SysAdminStep(sender) /\ UNCHANGED providerVars
  BY <1>1, <1>3 DEF providerVars, assignmentVars
<1>4. CASE ProvidersStep(sender)
  <2>1. ASSUME NEW e, ProviderAssignsExecutor(sender, e)
        PROVE  \A p \in Accounts : p = sender \/ executorByProvider'[p] = executorByProvider[p]
    BY <1>2, <2>1 DEF ProviderAssignsExecutor
  <2>2. ASSUME NEW v, NEW e, NEW ceils, NEW M, MultiProvide(sender, v, e, ceils, M)
        PROVE  \A p \in Accounts : p = sender \/ executorByProvider'[p] = executorByProvider[p]
    BY <1>0, <1>2, <2>2 DEF MultiProvide, assignmentVars
  <2> QED
    BY <1>1, <1>4, <2>1, <2>2
    DEF ProvidersStep, ProvideFunds, UnprovideFunds, ProvideTaskSpecs,
        UnprovideTaskSpecs, SetTaskSpecGasPriceCeil, AddProviderModules,
        RemoveProviderModules, MultiUnprovide, assignmentVars
<1>5. CASE ExecutorsStep(sender)
  <2>1. ASSUME NEW p \in Accounts, NEW e, ExecutorAssignsExecutor(sender, p, e)
        PROVE  \A q \in Accounts : \/ executorByProvider[q] = sender
                                  \/ executorByProvider'[q] = executorByProvider[q]
    BY <1>0, <2>1 DEF ExecutorAssignsExecutor
  <2>2. ASSUME NEW S, NEW e, MultiReassignProviders(sender, S, e)
        PROVE  \A q \in Accounts : \/ executorByProvider[q] = sender
                                  \/ executorByProvider'[q] = executorByProvider[q]
    BY <1>0, <2>2 DEF MultiReassignProviders
  <2> QED
    BY <1>1, <1>5, <2>1, <2>2, ProvidersAssumption
    DEF ExecutorsStep, StakeExecutor, UnstakeExecutor, WithdrawExcessExecutorStake,
        assignmentVars
<1> QED
  BY <1>3, <1>4, <1>5 DEF LedgerStep

-----------------------------------------------------------------------------
(* What is saved is in the order it was saved in. *)

Ordered ==
    \A k \in 1..Len(calls) :
        /\ Later(calls[k].saved, Snapshot)
        /\ \A j \in 1..k : Later(calls[j].saved, calls[k].saved)

\* The receipt taken by the innermost execution is the one issued under its
\* id, and nothing has been logged of it.
LEMMA FrameReceipt ==
    ASSUME CoreInv, Ordered, calls # <<>>
    PROVE  LET r == Frame.receipt IN
           /\ r.id \in 1..currentTaskReceiptId /\ r.id \in Ids
           /\ receipts[r.id] = r /\ r \in TaskReceipt /\ r.index < Len(r.tasks)
           /\ outcomes[r.id] = <<>>
<1> DEFINE r == Frame.receipt
           s == Frame.saved
           id == r.id
           n == Len(calls)
<1>1. /\ n \in Nat \ {0} /\ FrameOK(calls, n)
      /\ id \in 1..currentTaskReceiptId /\ id \in 1..s.currentTaskReceiptId
      /\ WellFormed(r, id) /\ Taken(calls, n) = Taken(calls, n - 1) \cup {id}
      /\ s.taskReceiptHash[id] # NoReceipt /\ s \in Snapshots
  BY InnermostFrame DEF Calls
<1>2. /\ s.taskReceiptHash[id] = r
      /\ Accounted(s.currentTaskReceiptId, s.taskReceiptHash, s.receipts,
                   s.outcomes, Taken(calls, n - 1))
  BY <1>1 DEF FrameOK, Frame
<1>3. /\ currentTaskReceiptId \in 0..MaxReceipts /\ s.currentTaskReceiptId \in 0..MaxReceipts
      /\ id \in Ids /\ id <= s.currentTaskReceiptId /\ id <= currentTaskReceiptId
  BY <1>1, CoreAssumption DEF CoreInv, CoreTypes, Snapshots, Ids
<1>4. Later(s, Snapshot)
  BY <1>1 DEF Ordered, Frame
<1>5. r \in TaskReceipt /\ r.index < Len(r.tasks) /\ r # NoReceipt
  BY <1>1, CoreAssumption DEF WellFormed
<1> HIDE DEF r, s, n
<1>6. s.receipts[id] = r
  BY <1>2, <1>3, <1>5 DEF Accounted, Placed
<1>7. receipts[id] = r
  BY <1>1, <1>4, <1>6, SnapshotFields DEF Later, Grows
<1>8. Placed(taskReceiptHash[id], receipts[id], outcomes[id], id \in Taken(calls, n))
  BY <1>3 DEF CoreInv, Accounted, n
<1>9. outcomes[id] = <<>>
  BY <1>1, <1>8 DEF Placed
<1> QED
  BY <1>1, <1>3, <1>5, <1>7, <1>9 DEF r
-----------------------------------------------------------------------------
(* The steps.  A call makes a later state, except that what an account pays *)
(* or assigns itself is no charge; the end of an execution makes a state    *)
(* that is later than the present one or than what the execution has found. *)

\* What moves a provider's funds or its executor without a receipt.
Spends(sender) ==
    /\ MayCall(sender)
    /\ \/ LedgerStep(sender)
       \/ \E id \in Ids, provider \in Accounts, gas \in GasUsed :
                ExecAbort(sender, id, provider, gas)

Continues ==
    /\ UNCHANGED calls /\ Grows(Snapshot, Snapshot')
    /\ \/ UNCHANGED <<providerFunds, executorByProvider>>
       \/ \E sender \in Accounts : Spends(sender)
Begins ==
    /\ \E f \in Calls : calls' = Append(calls, f) /\ f.saved = Snapshot
    /\ Later(Snapshot, Snapshot') /\ UNCHANGED providerFunds
Ends ==
    /\ calls # <<>> /\ PopFrame
    /\ Later(Snapshot, Snapshot') \/ Later(Frame.saved, Snapshot')

LEMMA NobodyPaysNow ==
    ASSUME CoreInv, UNCHANGED providerFunds
    PROVE  /\ Charges(Accounts, Snapshot, Snapshot')
           /\ Charges(Quiet(Snapshot), Snapshot, Snapshot')
<1>1. Snapshot \in Snapshots
  BY SnapshotIsTyped
<1>2. \A p \in Accounts : ~ (Snapshot'.providerFunds[p] < Snapshot.providerFunds[p])
  BY <1>1, SnapshotFields, TypedHistory
<1> QED
  BY <1>1, <1>2, NobodyPays, ChargesFewer

LEMMA SubmitContinues ==
    ASSUME CoreInv, NEW sender, NEW provider, NEW tasks, NEW date,
           NEW newCycle, NEW n, Submit(sender, provider, tasks, date, newCycle, n)
    PROVE  Continues
<1>1. PICK r : /\ currentTaskReceiptId' = currentTaskReceiptId + 1
               /\ taskReceiptHash' = Put(taskReceiptHash, currentTaskReceiptId + 1, r)
               /\ receipts' = Put(receipts, currentTaskReceiptId + 1, r)
               /\ UNCHANGED <<outcomes, calls, providerFunds, executorByProvider>>
  BY DEF Submit, storeTaskReceipt, Put, ledgerVars, vars, providerVars, assignmentVars
<1>2. Grows(Snapshot, Snapshot')
  BY <1>1, SnapshotIsTyped, SnapshotFields, GrowsByIssuing
<1> QED
  BY <1>1, <1>2 DEF Continues

LEMMA SubmitStepContinues ==
    ASSUME CoreInv, NEW sender, SubmitStep(sender) PROVE Continues
  BY SubmitContinues DEF SubmitStep, SubmitTask, SubmitTaskCycle, SubmitTaskChain

LEMMA CancelContinues ==
    ASSUME CoreInv, NEW sender, NEW rs, MultiCancelTasks(sender, rs)
    PROVE  Continues
<1> DEFINE S == {r.id : r \in rs}
<1>1. /\ taskReceiptHash' = Cleared(taskReceiptHash, S)
      /\ outcomes' = LogAll(outcomes, S, "cancelled")
      /\ UNCHANGED <<currentTaskReceiptId, receipts, calls, providerFunds,
                     executorByProvider>>
  <2>1. \A id \in Ids : (\E r \in rs : r.id = id) <=> id \in S
    OBVIOUS
  <2> HIDE DEF S
  <2> QED
    BY <2>1 DEF MultiCancelTasks, Cleared, LogAll, ledgerVars, vars, providerVars,
                assignmentVars
<1> HIDE DEF S
<1>2. Grows(Snapshot, Snapshot')
  BY <1>1, SnapshotIsTyped, SnapshotFields, GrowsByClosing
<1> QED
  BY <1>1, <1>2, NobodyPaysNow DEF Continues

LEMMA AbortContinues ==
    ASSUME CoreInv, NEW executor \in Accounts, NEW id \in Ids, NEW provider \in Accounts,
           NEW gas \in GasUsed, ExecAbort(executor, id, provider, gas), MayCall(executor)
    PROVE  Continues
<1>1. /\ taskReceiptHash' = Put(taskReceiptHash, id, NoReceipt)
      /\ outcomes' = Annulled(taskReceiptHash, outcomes, id)
      /\ UNCHANGED <<currentTaskReceiptId, receipts, calls>>
  BY DEF ExecAbort, Put, Annulled
<1>2. taskReceiptHash \in Stores /\ outcomes \in [Ids -> Seq(Events)]
  BY DEF CoreInv, CoreTypes
<1>3. \/ outcomes' = outcomes
      \/ outcomes' = LogAll(outcomes, {id}, "annulled")
  BY <1>1, <1>2 DEF Annulled, LogAll
<1>4. taskReceiptHash' = Cleared(taskReceiptHash, {id})
  BY <1>1, <1>2, ClosingOne
<1>5. Grows(Snapshot, Snapshot')
  BY <1>1, <1>3, <1>4, SnapshotIsTyped, SnapshotFields, GrowsByClosing
<1> QED
  BY <1>1, <1>5 DEF Continues, Spends

LEMMA ExecBegins ==
    ASSUME CoreInv, NEW executor \in Accounts, NEW r \in Issued,
           NEW fullGas \in BOOLEAN, ExecBegin(executor, r, fullGas)
    PROVE  Begins
<1> DEFINE f == [receipt |-> r, executor |-> executor, gasLimit |-> gasLimitOf(r),
                 gasPrice |-> params.gelatoGasPrice, fullGas |-> fullGas,
                 saved |-> Snapshot]
<1>1. /\ calls' = Append(calls, f) /\ params.gelatoGasPrice > 0
      /\ taskReceiptHash' = Put(taskReceiptHash, r.id, NoReceipt)
      /\ UNCHANGED <<currentTaskReceiptId, receipts, outcomes, providerFunds,
                     executorByProvider>>
  BY DEF ExecBegin, Put, ledgerVars, vars, providerVars, assignmentVars
<1>2. /\ taskReceiptHash \in Stores /\ outcomes \in [Ids -> Seq(Events)]
      /\ params \in Params
  BY DEF CoreInv, CoreTypes, LedgerTypeOK, SysAdminTypeOK
<1>3. f \in Calls
  <2>1. r \in TaskReceipt /\ WellFormed(r, r.id)
    BY IssuedReceipts DEF WellFormed
  <2>2. gasLimitOf(r) \in Nat
    BY <1>2, <2>1, GasLimitIsTyped
  <2>3. params.gelatoGasPrice \in Nat
    BY <1>1, <1>2 DEF Params
  <2> QED
    BY <2>1, <2>2, <2>3, SnapshotIsTyped DEF Calls
<1>4. taskReceiptHash' = Cleared(taskReceiptHash, {r.id})
  BY <1>1, <1>2, ClosingOne
<1>5. f.saved = Snapshot
  OBVIOUS
<1> HIDE DEF f
<1>6. Grows(Snapshot, Snapshot')
  BY <1>1, <1>4, SnapshotIsTyped, SnapshotFields, GrowsByClosing
<1>7. Later(Snapshot, Snapshot')
  BY <1>1, <1>6, NobodyPaysNow, SnapshotFields DEF Later
<1> QED
  BY <1>1, <1>3, <1>5, <1>7 DEF Begins

LEMMA SuccessEnds ==
    ASSUME CoreInv, Ordered, NEW gas \in GasUsed, ExecSuccess(gas)
    PROVE  Ends
<1> DEFINE r == Frame.receipt
           id == r.id
           fees == ExecutorFee(Frame, gas) + SysAdminFee(Frame, gas)
<1>1. /\ calls # <<>> /\ PopFrame
      /\ outcomes' = Log(outcomes, id, "rewarded")
      /\ providerFunds' = [providerFunds EXCEPT ![r.provider.addr] = @ - fees]
      /\ \/ \E draft : storeTaskReceipt(FALSE, draft)
         \/ UNCHANGED <<currentTaskReceiptId, taskReceiptHash, receipts>>
      /\ UNCHANGED executorByProvider
  BY DEF ExecSuccess, Log, PayReward, assignmentVars
<1>2. /\ id \in 1..currentTaskReceiptId /\ id \in Ids /\ receipts[id] = r
      /\ outcomes[id] = <<>>
      /\ outcomes \in [Ids -> Seq(Events)] /\ "rewarded" \in Events
  BY <1>1, FrameReceipt DEF CoreInv, CoreTypes, Events
<1> HIDE DEF id, r, fees
<1>3. \E i \in Ids, e \in Events : Snapshot'.outcomes = Log(Snapshot.outcomes, i, e)
  BY <1>1, <1>2, SnapshotFields
<1>4. CASE \E draft : storeTaskReceipt(FALSE, draft)
  <2>1. PICK n : /\ currentTaskReceiptId' = currentTaskReceiptId + 1
                 /\ taskReceiptHash' = Put(taskReceiptHash, currentTaskReceiptId + 1, n)
                 /\ receipts' = Put(receipts, currentTaskReceiptId + 1, n)
    BY <1>4 DEF storeTaskReceipt, Put
  <2>2. Grows(Snapshot, Snapshot')
    BY <1>3, <2>1, SnapshotIsTyped, SnapshotFields, GrowsByIssuing
  <2>3. id \in 1..currentTaskReceiptId' /\ receipts'[id] = r
    <3>1. currentTaskReceiptId \in Nat /\ receipts \in Stores
      BY CoreAssumption DEF CoreInv, CoreTypes
    <3> QED
      BY <1>2, <2>1, <3>1 DEF Put, Stores
  <2>4. Charges(Accounts, Snapshot, Snapshot')
    <3> DEFINE s == Snapshot
               t == Snapshot'
               payer == r.provider.addr
    <3>1. s \in Snapshots /\ id \in 1..t.currentTaskReceiptId
          /\ t.receipts[id].provider.addr = payer
      BY <2>3, SnapshotIsTyped, SnapshotFields
    <3>4. s.outcomes[id] = <<>>
      BY <1>2, SnapshotFields
    <3>2. /\ t.providerFunds = [s.providerFunds EXCEPT ![payer] = @ - fees]
          /\ t.outcomes = Log(s.outcomes, id, "rewarded")
      BY <1>1, SnapshotFields
    <3> HIDE DEF s, t, payer
    <3>3. Charges(Accounts, s, t)
      BY ONLY ZenonT(60), <1>2, <3>1, <3>2, <3>4, OneProviderPays
    <3> QED
      BY <3>3 DEF s, t
  <2> QED
    BY <1>1, <2>2, <2>4, ChargesFewer, SnapshotFields DEF Ends, Later
<1>5. CASE UNCHANGED <<currentTaskReceiptId, taskReceiptHash, receipts>>
  <2>1. ASSUME NEW i \in Ids PROVE Extends(outcomes[i], outcomes'[i])
    <3>1. outcomes[i] \in Seq(Events)
      BY <1>2
    <3>2. outcomes'[i] \in {outcomes[i], Append(outcomes[i], "rewarded")}
      BY <1>1, <1>2, <3>1 DEF Log
    <3> QED
      BY <3>1, <3>2, EventsExtend
  <2>2. currentTaskReceiptId \in Nat
    BY CoreAssumption DEF CoreInv, CoreTypes
  <2>3. Grows(Snapshot, Snapshot')
    BY <1>5, <2>1, <2>2, SnapshotFields DEF Grows
  <2>4. Charges(Accounts, Snapshot, Snapshot')
    <3> DEFINE s == Snapshot
               t == Snapshot'
               payer == r.provider.addr
    <3>1. s \in Snapshots /\ id \in 1..t.currentTaskReceiptId
          /\ t.receipts[id].provider.addr = payer
      BY <1>2, <1>5, SnapshotIsTyped, SnapshotFields
    <3>4. s.outcomes[id] = <<>>
      BY <1>2, SnapshotFields
    <3>2. /\ t.providerFunds = [s.providerFunds EXCEPT ![payer] = @ - fees]
          /\ t.outcomes = Log(s.outcomes, id, "rewarded")
      BY <1>1, SnapshotFields
    <3> HIDE DEF s, t, payer
    <3>3. Charges(Accounts, s, t)
      BY ONLY ZenonT(60), <1>2, <3>1, <3>2, <3>4, OneProviderPays
    <3> QED
      BY <3>3 DEF s, t
  <2> QED
    BY <1>1, <2>3, <2>4, ChargesFewer, SnapshotFields DEF Ends, Later
<1> QED
  BY <1>1, <1>4, <1>5

LEMMA RevertEnds ==
    ASSUME CoreInv, calls # <<>>, Restore(Frame.saved), PopFrame
    PROVE  Ends
<1>1. Frame.saved \in Snapshots
  BY InnermostFrame DEF Calls
<1>2. Grows(Frame.saved, Snapshot')
  BY <1>1, SnapshotFields, GrowsByTaskVars DEF Restore, RestoreParams
<1>3. Charges(Accounts, Frame.saved, Snapshot')
  <2>1. \A p \in Accounts :
            ~ (Snapshot'.providerFunds[p] < Frame.saved.providerFunds[p])
    BY <1>1, SnapshotFields, TypedHistory DEF Restore
  <2> QED
    BY <1>1, <2>1, NobodyPays
<1>4. Snapshot'.executorByProvider = Frame.saved.executorByProvider
  BY SnapshotFields DEF Restore, RestoreParams
<1> QED
  BY <1>2, <1>3, <1>4, ChargesFewer DEF Ends, Later

LEMMA RefundEnds ==
    ASSUME CoreInv, NEW gas, ExecRefund(gas)
    PROVE  Ends
<1> DEFINE s == Frame.saved
           r == Frame.receipt
           id == r.id
           cost == RefundOf(Frame, gas)
<1>1. /\ calls # <<>> /\ PopFrame /\ RestoreParams(s)
      /\ taskReceiptHash' = Put(s.taskReceiptHash, id, NoReceipt)
      /\ outcomes' = Log(s.outcomes, id, "refunded")
      /\ providerFunds' = [s.providerFunds EXCEPT ![r.provider.addr] = @ - cost]
  BY DEF ExecRefund, Put, Log
<1>2. s \in Snapshots
  BY <1>1, InnermostFrame DEF Calls
<1>3. /\ s.taskReceiptHash \in Stores /\ s.outcomes \in [Ids -> Seq(Events)]
      /\ s.currentTaskReceiptId \in 0..MaxReceipts
  BY <1>2 DEF Snapshots
<1>4. /\ id \in 1..s.currentTaskReceiptId /\ s.taskReceiptHash[id] = r
      /\ s.taskReceiptHash[id] # NoReceipt /\ FrameOK(calls, Len(calls))
  BY <1>1, InnermostFrame DEF FrameOK, Frame
<1>5. Accounted(s.currentTaskReceiptId, s.taskReceiptHash, s.receipts, s.outcomes,
                Taken(calls, Len(calls) - 1))
  BY <1>4 DEF FrameOK, Frame
<1> HIDE DEF s, r, id, cost
<1>6. id \in Ids /\ id <= s.currentTaskReceiptId
  BY <1>3, <1>4, CoreAssumption DEF Ids
<1>7. s.receipts[id] = r /\ s.outcomes[id] = <<>>
  BY <1>4, <1>5, <1>6 DEF Accounted, Placed
<1>8. /\ taskReceiptHash' = Cleared(s.taskReceiptHash, {id})
      /\ outcomes' = LogAll(s.outcomes, {id}, "refunded")
  BY <1>1, <1>3, ClosingOne
<1>9. /\ currentTaskReceiptId' = s.currentTaskReceiptId /\ receipts' = s.receipts
      /\ executorByProvider' = s.executorByProvider
  BY <1>1 DEF RestoreParams
<1>10. Grows(s, Snapshot')
  BY <1>2, <1>8, <1>9, SnapshotFields, GrowsByClosing
<1>11. Charges(Accounts, s, Snapshot')
  <2> DEFINE t == Snapshot'
             payer == r.provider.addr
  <2>1. id \in 1..t.currentTaskReceiptId /\ t.receipts[id].provider.addr = payer
    BY <1>4, <1>7, <1>9, SnapshotFields
  <2>2. /\ t.providerFunds = [s.providerFunds EXCEPT ![payer] = @ - cost]
        /\ t.outcomes = Log(s.outcomes, id, "refunded")
    BY <1>1, SnapshotFields
  <2> HIDE DEF t, payer
  <2>3. Charges(Accounts, s, t)
    BY ONLY <1>2, <1>6, <1>7, <2>1, <2>2, OneProviderPays
  <2> QED
    BY <2>3 DEF t
<1> QED
  BY <1>1, <1>9, <1>10, <1>11, ChargesFewer, SnapshotFields DEF Ends, Later, s

LEMMA TaskVarsContinue ==
    ASSUME CoreInv, UNCHANGED <<taskVars, calls>>,
           \/ UNCHANGED <<providerFunds, executorByProvider>>
           \/ \E sender \in Accounts : MayCall(sender) /\ LedgerStep(sender)
    PROVE  Continues
<1>1. Grows(Snapshot, Snapshot')
  BY SnapshotIsTyped, SnapshotFields, GrowsByTaskVars DEF taskVars
<1> QED
  BY <1>1 DEF Continues, Spends

LEMMA StepShape ==
    ASSUME CoreInv, Ordered, [CoreNext]_coreVars
    PROVE  Continues \/ Begins \/ Ends
<1>1. ASSUME NEW sender \in Accounts, CallStep(sender)
      PROVE  Continues \/ Begins
  <2>1. CASE LedgerStep(sender) /\ UNCHANGED <<taskVars, calls, now>>
    BY <1>1, <2>1, TaskVarsContinue DEF CallStep
  <2>2. CASE SubmitStep(sender)
    BY <2>2, SubmitStepContinues
  <2>3. CASE CancelStep(sender)
    BY <2>3, CancelContinues DEF CancelStep, CancelTask
  <2>4. CASE ExecStep(sender)
    BY <1>1, <2>4, ExecBegins, AbortContinues DEF ExecStep, CallStep
  <2> QED
    BY <1>1, <2>1, <2>2, <2>3, <2>4 DEF CallStep
<1>2. CASE Return
  BY <1>2, SuccessEnds, RefundEnds, RevertEnds DEF Return, ExecUnderflow, ExecRevert
<1>3. CASE Tick \/ OracleStep \/ UNCHANGED coreVars
  BY <1>3, TaskVarsContinue
  DEF Tick, OracleStep, coreVars, ledgerVars, vars, providerVars, assignmentVars
<1> QED
  BY <1>1, <1>2, <1>3 DEF CoreNext

\* In the middle of an execution only accounts with code call, so a step that
\* is not the end of one makes a later state.
LEMMA ContinuesLater ==
    ASSUME CoreInv, Continues, calls # <<>> PROVE Later(Snapshot, Snapshot')
<1>1. CASE UNCHANGED <<providerFunds, executorByProvider>>
  BY <1>1, NobodyPaysNow, SnapshotFields DEF Continues, Later
<1>2. ASSUME NEW sender \in Accounts, Spends(sender)
      PROVE  Later(Snapshot, Snapshot')
  <2>1. sender \in Contracts
    BY <1>2 DEF Spends, MayCall
  <2>2. ASSUME NEW p \in Quiet(Snapshot)
        PROVE  p \in Accounts /\ sender \notin {p, executorByProvider[p]}
    BY <2>1, SnapshotFields DEF Quiet
  <2>3. ASSUME NEW p \in Quiet(Snapshot)
        PROVE  /\ executorByProvider'[p] = executorByProvider[p]
               /\ ~ (providerFunds'[p] < providerFunds[p])
    <3>1. CASE LedgerStep(sender)
      BY <2>2, <3>1, LedgerMovesOwnFunds, LedgerReassignsOwn DEF CoreInv, CoreTypes
    <3>2. ASSUME NEW id \in Ids, NEW provider \in Accounts, NEW gas \in GasUsed,
                 ExecAbort(sender, id, provider, gas)
          PROVE  /\ executorByProvider'[p] = executorByProvider[p]
                 /\ ~ (providerFunds'[p] < providerFunds[p])
      <4>1. providerFunds \in [Accounts -> Nat]
        BY DEF CoreInv, CoreTypes, LedgerTypeOK, ProvidersTypeOK
      <4>2. p # provider /\ p \in Accounts
        BY <2>2, <3>2 DEF ExecAbort
      <4>3. providerFunds'[p] = providerFunds[p]
        BY <3>2, <4>1, <4>2 DEF ExecAbort
      <4> QED
        BY <3>2, <4>1, <4>2, <4>3 DEF ExecAbort, assignmentVars
    <3> QED
      BY <1>2, <3>1, <3>2 DEF Spends
  <2>4. Charges(Quiet(Snapshot), Snapshot, Snapshot')
    BY <2>3, SnapshotFields, NobodyPays
  <2> QED
    BY <2>3, <2>4, SnapshotFields DEF Continues, Later
<1> QED
  BY <1>1, <1>2 DEF Continues

LEMMA OrderedStep ==
    ASSUME CoreInv, Ordered, [CoreNext]_coreVars
    PROVE  Ordered'
<1>1. /\ calls \in Seq(Calls) /\ Len(calls) \in Nat
      /\ Snapshot \in Snapshots /\ Snapshot' \in Snapshots
      /\ \A k \in 1..Len(calls) : calls[k].saved \in Snapshots
  <2>1. calls \in Seq(Calls)
    BY DEF CoreInv, CoreTypes
  <2>2. \A k \in 1..Len(calls) : calls[k] \in Calls
    BY <2>1
  <2> QED
    BY <2>1, <2>2, SnapshotsAreTyped DEF Calls
<1>2. SUFFICES ASSUME NEW k \in 1..Len(calls')
               PROVE  /\ Later(calls'[k].saved, Snapshot')
                      /\ \A j \in 1..k : Later(calls'[j].saved, calls'[k].saved)
  BY DEF Ordered
<1>3. CASE Continues
  <2>1. k \in 1..Len(calls) /\ calls' = calls /\ Later(Snapshot, Snapshot')
    <3>1. k \in 1..Len(calls) /\ calls' = calls
      BY <1>3 DEF Continues
    <3>2. calls # <<>>
      BY <3>1, EmptySeq
    <3> QED
      BY <1>3, <3>1, <3>2, ContinuesLater
  <2>2. Later(calls[k].saved, Snapshot)
    BY <2>1 DEF Ordered
  <2>3. Later(calls[k].saved, Snapshot')
    BY <1>1, <2>1, <2>2, LaterIsTransitive
  <2> QED
    BY <2>1, <2>3 DEF Ordered
<1>4. CASE Begins
  <2>1. PICK f \in Calls : calls' = Append(calls, f) /\ f.saved = Snapshot
    BY <1>4 DEF Begins
  <2>2. /\ Len(calls') = Len(calls) + 1 /\ calls'[Len(calls) + 1] = f
        /\ \A j \in 1..Len(calls) : calls'[j] = calls[j]
    BY <1>1, <2>1
  <2>3. Later(Snapshot, Snapshot')
    BY <1>4 DEF Begins
  <2>4. CASE k = Len(calls) + 1
    <3>1. ASSUME NEW j \in 1..k PROVE Later(calls'[j].saved, Snapshot)
      <4>1. CASE j = k
        BY <1>1, <2>1, <2>2, <2>4, <4>1, LaterIsReflexive
      <4>2. CASE j # k
        <5>1. j \in 1..Len(calls)
          BY <1>1, <2>4, <4>2
        <5> QED
          BY <2>2, <5>1 DEF Ordered
      <4> QED
        BY <4>1, <4>2
    <3> QED
      BY <2>1, <2>2, <2>3, <2>4, <3>1
  <2>5. CASE k # Len(calls) + 1
    <3>1. k \in 1..Len(calls) /\ calls'[k] = calls[k]
      BY <1>1, <2>2, <2>5
    <3>2. Later(calls[k].saved, Snapshot)
      BY <3>1 DEF Ordered
    <3>3. Later(calls[k].saved, Snapshot')
      BY <1>1, <2>3, <3>1, <3>2, LaterIsTransitive
    <3>4. \A j \in 1..k : calls'[j] = calls[j]
      BY <1>1, <2>2, <3>1
    <3> QED
      BY <3>1, <3>3, <3>4 DEF Ordered
  <2> QED
    BY <2>4, <2>5
<1>5. CASE Ends
  <2>1. /\ Len(calls') = Len(calls) - 1
        /\ \A j \in 1..Len(calls') : calls'[j] = calls[j]
    BY <1>1, <1>5, FrontOfSeq DEF Ends, PopFrame
  <2>2. k \in 1..Len(calls) /\ k <= Len(calls) /\ Len(calls) \in 1..Len(calls)
    BY <1>1, <2>1
  <2>3. /\ Later(calls[k].saved, Snapshot)
        /\ Later(calls[k].saved, Frame.saved) /\ Frame.saved \in Snapshots
    BY <1>1, <2>2 DEF Ordered, Frame
  <2>4. Later(calls[k].saved, Snapshot')
    BY <1>1, <1>5, <2>2, <2>3, LaterIsTransitive DEF Ends
  <2>5. \A j \in 1..k : calls'[j] = calls[j]
    BY <1>1, <2>1
  <2> QED
    BY <2>1, <2>2, <2>4, <2>5 DEF Ordered
<1> QED
  BY <1>3, <1>4, <1>5, StepShape

LEMMA OrderedInit == CoreInit => Ordered
<1> SUFFICES ASSUME CoreInit PROVE Ordered
  OBVIOUS
<1>1. calls = <<>>
  BY DEF CoreInit
<1> QED
  BY <1>1 DEF Ordered

\* What an execution has saved comes before what is saved inside it and before
\* the present state: the inductive invariant behind both properties of history.
THEOREM CoreOrdered == CoreSpec => [](CoreInv /\ Ordered)
<1>1. CoreInit => CoreInv /\ Ordered
  BY CoreInvInit, OrderedInit
<1>2. CoreInv /\ Ordered /\ [CoreNext]_coreVars => CoreInv' /\ Ordered'
  BY CoreInvStep, OrderedStep
<1> QED
  BY <1>1, <1>2, PTL DEF CoreSpec

\* What is committed grows, and in a transaction that is under way it is not
\* changed before its end.
LEMMA CommitsGrow ==
    ASSUME CoreInv, Ordered, [CoreNext]_coreVars
    PROVE  /\ Committed \in Snapshots /\ Committed' \in Snapshots
           /\ Grows(Committed, Committed')
           /\ \/ Charges(Accounts, Committed, Committed')
              \/ calls # <<>> /\ Charges(Quiet(Committed), Committed, Committed')
              \/ /\ calls = <<>> /\ Committed = Snapshot /\ Committed' = Snapshot'
                 /\ \E sender \in Accounts : Spends(sender)
<1>1. /\ calls \in Seq(Calls) /\ Len(calls) \in Nat
      /\ Snapshot \in Snapshots /\ Snapshot' \in Snapshots
      /\ \A k \in 1..Len(calls) : calls[k].saved \in Snapshots
      /\ calls = <<>> <=> Len(calls) = 0
  <2>1. calls \in Seq(Calls)
    BY DEF CoreInv, CoreTypes
  <2>2. \A k \in 1..Len(calls) : calls[k] \in Calls
    BY <2>1
  <2> QED
    BY <2>1, <2>2, SnapshotsAreTyped, EmptySeq DEF Calls
<1>2. Committed \in Snapshots
  BY <1>1 DEF Committed
<1>3. ASSUME Committed' = Committed
      PROVE  /\ Committed' \in Snapshots /\ Grows(Committed, Committed')
             /\ Charges(Accounts, Committed, Committed')
  <2>1. Grows(Committed, Committed)
    BY <1>2, LaterIsReflexive DEF Later
  <2>2. \A p \in Accounts : ~ (Committed.providerFunds[p] < Committed.providerFunds[p])
    BY <1>2, TypedHistory
  <2>3. Charges(Accounts, Committed, Committed)
    BY <2>2, NobodyPays
  <2> QED
    BY <1>2, <1>3, <2>1, <2>3
<1>4. CASE Continues
  <2>1. CASE calls = <<>>
    <3>1. Committed = Snapshot /\ Committed' = Snapshot'
      BY <1>4, <2>1 DEF Committed, Continues
    <3> QED
      BY <1>1, <1>4, <2>1, <3>1, NobodyPaysNow DEF Continues
  <2>2. CASE calls # <<>>
    <3>1. Committed' = Committed
      BY <1>4, <2>2 DEF Committed, Continues
    <3> QED
      BY <1>2, <1>3, <3>1
  <2> QED
    BY <2>1, <2>2
<1>5. CASE Begins
  <2>1. PICK f \in Calls : calls' = Append(calls, f) /\ f.saved = Snapshot
    BY <1>5 DEF Begins
  <2>2. /\ calls' # <<>> /\ calls'[1] = IF calls = <<>> THEN f ELSE calls[1]
    BY <1>1, <2>1
  <2>3. Committed' = Committed
    BY <2>1, <2>2 DEF Committed
  <2> QED
    BY <1>2, <1>3, <2>3
<1>6. CASE Ends
  <2>1. /\ Len(calls') = Len(calls) - 1
        /\ \A j \in 1..Len(calls') : calls'[j] = calls[j]
        /\ calls' \in Seq(Calls) /\ calls # <<>>
    BY <1>1, <1>6, FrontOfSeq DEF Ends, PopFrame
  <2>2. CASE Len(calls) = 1
    <3>1. calls' = <<>>
      BY <2>1, <2>2, EmptySeq
    <3>2. Committed' = Snapshot' /\ Committed = calls[1].saved /\ Frame = calls[1]
      BY <2>1, <2>2, <3>1 DEF Committed, Frame
    <3>3. Later(calls[1].saved, Snapshot)
      BY <2>2 DEF Ordered
    <3>4. Later(calls[1].saved, Snapshot')
      BY <1>1, <1>6, <2>2, <3>2, <3>3, LaterIsTransitive DEF Ends
    <3> QED
      BY <1>1, <1>2, <2>1, <3>2, <3>4 DEF Later
  <2>3. CASE Len(calls) # 1
    <3>1. calls' # <<>> /\ calls'[1] = calls[1]
      BY <1>1, <2>1, <2>3
    <3>2. Committed' = Committed
      BY <2>1, <3>1 DEF Committed
    <3> QED
      BY <1>2, <1>3, <3>2
  <2> QED
    BY <2>2, <2>3
<1> QED
  BY <1>2, <1>4, <1>5, <1>6, StepShape

\* A receipt that a transaction closed stays closed, and what was issued stays
\* issued, for every depth of nesting and every order of failures.
THEOREM CoreClosedStaysClosed == CoreSpec => ClosedStaysClosed
<1>1. CoreInv /\ Ordered /\ [CoreNext]_coreVars =>
        [\A id \in 1..Committed.currentTaskReceiptId :
          /\ Committed'.receipts[id] = Committed.receipts[id]
          /\ Committed.taskReceiptHash[id] = NoReceipt =>
                Committed'.taskReceiptHash[id] = NoReceipt]_coreVars
  BY CommitsGrow DEF Grows
<1> QED
  BY CoreOrdered, <1>1, PTL DEF CoreSpec, ClosedStaysClosed

LEMMA PaymentsStep ==
    ASSUME CoreInv, Ordered, [CoreNext]_coreVars, NEW p \in Accounts,
           NEW loss, loss = Committed.providerFunds[p] - Committed'.providerFunds[p],
           loss > 0,
           NEW executor, executor = Committed.executorByProvider[p]
    PROVE  \/ \E id \in 1..Committed'.currentTaskReceiptId :
                    /\ Committed'.receipts[id].provider.addr = p
                    /\ ~ PaidFor(Committed.outcomes[id])
                    /\ PaidFor(Committed'.outcomes[id])
           \/ calls = <<>> /\ gelatoBalance' = gelatoBalance - loss
           \/ calls = <<>> /\ executorStake'[executor] = executorStake[executor] + loss
           \/ calls # <<>> /\ {p, executor} \cap Contracts # {}
<1>1. /\ Committed \in Snapshots /\ Committed' \in Snapshots
      /\ Committed.providerFunds[p] \in Nat /\ Committed'.providerFunds[p] \in Nat
      /\ Committed'.providerFunds[p] < Committed.providerFunds[p]
  BY CommitsGrow, TypedHistory
<1>2. CASE {p, executor} \cap Contracts # {} /\ calls # <<>>
  BY <1>2
<1>3. ASSUME calls = <<>>, Committed = Snapshot, Committed' = Snapshot',
             NEW sender \in Accounts, Spends(sender)
      PROVE  \/ gelatoBalance' = gelatoBalance - loss
             \/ executorStake'[executor] = executorStake[executor] + loss
  <2>1. /\ Committed.providerFunds[p] = providerFunds[p]
        /\ Committed'.providerFunds[p] = providerFunds'[p]
        /\ executor = executorByProvider[p]
    BY <1>3, SnapshotFields
  <2>2. CASE LedgerStep(sender)
    <3>1. gelatoBalance' = gelatoBalance - (providerFunds[p] - providerFunds'[p])
      BY <1>1, <2>1, <2>2, LedgerMovesOwnFunds DEF CoreInv, CoreTypes
    <3> QED
      BY <2>1, <3>1
  <2>3. ASSUME NEW id \in Ids, NEW provider \in Accounts, NEW gas \in GasUsed,
               ExecAbort(sender, id, provider, gas)
        PROVE  executorStake'[executor] = executorStake[executor] + loss
    <3>1. /\ providerFunds \in [Accounts -> Nat] /\ executorStake \in [Addresses -> Nat]
          /\ sender \in Addresses
      BY DEF CoreInv, CoreTypes, LedgerTypeOK, ProvidersTypeOK, Addresses
    <3>2. PICK refund \in Nat :
            /\ providerFunds' = [providerFunds EXCEPT ![provider] = @ - refund]
            /\ executorStake' = [executorStake EXCEPT ![sender] = @ + refund]
            /\ sender = executorByProvider[provider]
      <4>1. AbortCost(gas) \in Nat
        BY <2>3, AbortEffects, AbortCostIsNat
        DEF CoreInv, CoreTypes, LedgerTypeOK, SysAdminTypeOK
      <4> QED
        BY <2>3, <4>1, AbortEffects
    <3>3. p = provider
      BY <1>1, <2>1, <3>1, <3>2
    <3>4. loss = refund
      <4>1. providerFunds'[p] = providerFunds[p] - refund /\ providerFunds[p] \in Nat
        BY <3>1, <3>2, <3>3
      <4> QED
        BY <2>1, <4>1
    <3> QED
      BY <2>1, <3>1, <3>2, <3>3, <3>4
  <2> QED
    BY <1>3, <2>2, <2>3 DEF Spends
<1>4. ASSUME NEW P, Charges(P, Committed, Committed'), p \in P
      PROVE  \E id \in 1..Committed'.currentTaskReceiptId :
                    /\ Committed'.receipts[id].provider.addr = p
                    /\ ~ PaidFor(Committed.outcomes[id])
                    /\ PaidFor(Committed'.outcomes[id])
  BY <1>1, <1>4 DEF Charges, ChargedFor
<1>5. CASE Charges(Accounts, Committed, Committed')
  BY <1>4, <1>5
<1>6. CASE calls # <<>> /\ Charges(Quiet(Committed), Committed, Committed')
  <2>1. CASE p \in Quiet(Committed)
    BY <1>4, <1>6, <2>1
  <2>2. CASE p \notin Quiet(Committed)
    BY <1>2, <1>6, <2>2 DEF Quiet
  <2> QED
    BY <2>1, <2>2
<1>7. CASE /\ calls = <<>> /\ Committed = Snapshot /\ Committed' = Snapshot'
           /\ \E sender \in Accounts : Spends(sender)
  BY <1>3, <1>7
<1> QED
  BY <1>5, <1>6, <1>7, CommitsGrow

\* What a provider loses, it pays once for a receipt that names it, or takes out
\* itself, or refunds to the executor it is assigned to for checks that aborted,
\* whatever fails, nests or is rolled back meanwhile; in the middle of somebody
\* else's transaction this takes code, of its own or of its executor.
THEOREM CoreProvidersPay == CoreSpec => ProvidersPayForTheirReceipts
<1>1. CoreInv /\ Ordered /\ [CoreNext]_coreVars =>
        [\A p \in Accounts :
          LET loss == Committed.providerFunds[p] - Committed'.providerFunds[p]
              executor == Committed.executorByProvider[p]
          IN  loss > 0 =>
              \/ \E id \in 1..Committed'.currentTaskReceiptId :
                    /\ Committed'.receipts[id].provider.addr = p
                    /\ ~ PaidFor(Committed.outcomes[id])
                    /\ PaidFor(Committed'.outcomes[id])
              \/ calls = <<>> /\ gelatoBalance' = gelatoBalance - loss
              \/ calls = <<>> /\ executorStake'[executor] = executorStake[executor] + loss
              \/ calls # <<>> /\ {p, executor} \cap Contracts # {}]_coreVars
  BY PaymentsStep
<1> QED
  BY CoreOrdered, <1>1, PTL DEF CoreSpec, ProvidersPayForTheirReceipts

-----------------------------------------------------------------------------
(* Solvency.  An execution that fails brings back a ledger, so the ledgers  *)
(* saved by the executions under way are as solvent as the present one.     *)

LEMMA SolventInOwes ==
    ASSUME NEW s
    PROVE  SolventIn(s) <=> Owes(s.gelatoBalance, s.sysAdminFunds, s.providerFunds,
                                 s.executorStake)
  BY DEF SolventIn, Owes, MapThenSumSet, MapThenFoldSet, Sum, SumsOver,
         SumEquation, Pick

LEMMA SnapshotOwes ==
    /\ SolventIn(Snapshot) <=>
            Owes(gelatoBalance, sysAdminFunds, providerFunds, executorStake)
    /\ Solvent <=> SolventIn(Snapshot)
<1>1. /\ Snapshot.gelatoBalance = gelatoBalance
      /\ Snapshot.sysAdminFunds = sysAdminFunds
      /\ Snapshot.providerFunds = providerFunds
      /\ Snapshot.executorStake = executorStake
  BY DEF Snapshot
<1>2. SolventIn(Snapshot) <=>
            Owes(Snapshot.gelatoBalance, Snapshot.sysAdminFunds,
                 Snapshot.providerFunds, Snapshot.executorStake)
  BY SolventInOwes
<1> QED
  BY <1>1, <1>2, SolventOwes

LEMMA NextSnapshotOwes ==
    /\ SolventIn(Snapshot)' <=>
            Owes(gelatoBalance', sysAdminFunds', providerFunds', executorStake')
    /\ Solvent' <=> SolventIn(Snapshot)'
<1>1. /\ Snapshot'.gelatoBalance = gelatoBalance'
      /\ Snapshot'.sysAdminFunds = sysAdminFunds'
      /\ Snapshot'.providerFunds = providerFunds'
      /\ Snapshot'.executorStake = executorStake'
  BY DEF Snapshot
<1>2. SolventIn(Snapshot') <=>
            Owes(Snapshot'.gelatoBalance, Snapshot'.sysAdminFunds,
                 Snapshot'.providerFunds, Snapshot'.executorStake)
  BY SolventInOwes
<1>3. SolventIn(Snapshot)' <=> SolventIn(Snapshot')
  OBVIOUS
<1> QED
  BY <1>1, <1>2, <1>3, SolventOwes

\* The stack of executions as one transaction goes on ...
LEMMA SavedUnchanged ==
    ASSUME SolventThroughout, UNCHANGED calls, SolventIn(Snapshot)'
    PROVE  SolventThroughout'
<1>1. \A k \in 1..Len(calls') : SolventIn(calls'[k].saved)
  BY DEF SolventThroughout
<1> QED
  BY <1>1 DEF SolventThroughout

\* ... as an execution begins, and as one ends.
LEMMA SavedPushed ==
    ASSUME SolventThroughout, NEW f, calls \in Seq(Calls), f.saved = Snapshot,
           calls' = Append(calls, f), SolventIn(Snapshot)'
    PROVE  SolventThroughout'
<1>1. ASSUME NEW k \in 1..Len(calls') PROVE SolventIn(calls'[k].saved)
  <2>1. Len(calls') = Len(calls) + 1 /\ Len(calls) \in Nat
    OBVIOUS
  <2>2. CASE k = Len(calls) + 1
    <3>1. calls'[k] = f
      BY <2>1, <2>2
    <3> QED
      BY <3>1 DEF SolventThroughout
  <2>3. CASE k # Len(calls) + 1
    <3>1. k \in 1..Len(calls)
      BY <2>1, <2>3
    <3>2. calls'[k] = calls[k]
      BY <2>1, <3>1
    <3> QED
      BY <3>1, <3>2 DEF SolventThroughout
  <2> QED
    BY <2>2, <2>3
<1> QED
  BY <1>1 DEF SolventThroughout

LEMMA SavedPopped ==
    ASSUME SolventThroughout, calls \in Seq(Calls), calls # <<>>, PopFrame,
           SolventIn(Snapshot)'
    PROVE  SolventThroughout'
<1>1. /\ Len(calls') = Len(calls) - 1 /\ Len(calls) \in Nat
      /\ \A j \in 1..Len(calls') : calls'[j] = calls[j]
  BY FrontOfSeq DEF PopFrame
<1>2. ASSUME NEW k \in 1..Len(calls') PROVE SolventIn(calls'[k].saved)
  <2>1. k \in 1..Len(calls) /\ calls'[k] = calls[k]
    BY <1>1
  <2> QED
    BY <2>1 DEF SolventThroughout
<1> QED
  BY <1>2 DEF SolventThroughout

\* Funds of p pay the stake of e and the owner.
LEMMA Paying ==
    ASSUME NEW b, NEW y \in Nat, NEW f \in [Accounts -> Nat],
           NEW s \in [Addresses -> Nat], b \in Nat, Owes(b, y, f, s),
           NEW p \in Accounts, NEW e \in Addresses, NEW x \in Nat, NEW z \in Nat
    PROVE  Owes(b, y + z, [f EXCEPT ![p] = @ - (x + z)], [s EXCEPT ![e] = @ + x])
<1> DEFINE df == 0 - (x + z)
           f2 == [f EXCEPT ![p] = @ - (x + z)]
           s2 == [s EXCEPT ![e] = @ + x]
<1>1. Adds(f, f2, p, df, Accounts) /\ Adds(s, s2, e, x, Addresses)
  BY DEF Adds
<1>2. /\ b \in Int /\ y \in Int /\ y + z \in Int
      /\ b - (y + z) = b - y + df + x
  OBVIOUS
<1> HIDE DEF df, f2, s2
<1>3. Owes(b, y + z, f2, s2)
  BY <1>1, <1>2, OwedIsKept
<1> QED
  BY <1>3 DEF f2, s2

LEMMA SuccessSolvent ==
    ASSUME CoreInv, SolventThroughout, NEW gas \in GasUsed, ExecSuccess(gas)
    PROVE  SolventThroughout'
<1> DEFINE f == Frame
           p == Frame.receipt.provider.addr
<1>1. /\ calls # <<>> /\ PopFrame /\ PayReward(f, gas) /\ UNCHANGED gelatoBalance
      /\ calls \in Seq(Calls) /\ params \in Params
  BY DEF ExecSuccess, CoreInv, CoreTypes, LedgerTypeOK, SysAdminTypeOK
<1>2. f \in Calls /\ p \in Accounts /\ f.executor \in Addresses
  BY <1>1, InnermostFrame DEF Calls, TaskReceipt, Addresses
<1>3. PICK x \in Nat, z \in Nat : x = ExecutorFee(f, gas) /\ z = SysAdminFee(f, gas)
  BY <1>1, <1>2, CostsAreNat
<1>4. /\ gelatoBalance \in Nat /\ sysAdminFunds \in Nat
      /\ providerFunds \in [Accounts -> Nat] /\ executorStake \in [Addresses -> Nat]
      /\ Owes(gelatoBalance, sysAdminFunds, providerFunds, executorStake)
  BY SnapshotOwes
  DEF CoreInv, CoreTypes, LedgerTypeOK, SysAdminTypeOK, ProvidersTypeOK,
      SolventThroughout
<1>5. /\ providerFunds' = [providerFunds EXCEPT ![p] = @ - (x + z)]
      /\ executorStake' = [executorStake EXCEPT ![f.executor] = @ + x]
      /\ sysAdminFunds' = sysAdminFunds + z
  BY <1>1, <1>3 DEF PayReward
<1> HIDE DEF f, p
<1>6. Owes(gelatoBalance, sysAdminFunds + z,
           [providerFunds EXCEPT ![p] = @ - (x + z)],
           [executorStake EXCEPT ![f.executor] = @ + x])
  BY <1>2, <1>4, Paying
<1>7. Owes(gelatoBalance', sysAdminFunds', providerFunds', executorStake')
  BY <1>1, <1>5, <1>6
<1>8. SolventIn(Snapshot)'
  BY <1>7, NextSnapshotOwes
<1> QED
  BY <1>1, <1>8, SavedPopped

LEMMA RevertSolvent ==
    ASSUME CoreInv, SolventThroughout, calls # <<>>, Restore(Frame.saved), PopFrame
    PROVE  SolventThroughout'
<1>1. calls \in Seq(Calls) /\ Len(calls) \in 1..Len(calls)
  BY EmptySeq DEF CoreInv, CoreTypes
<1>2. SolventIn(Frame.saved)
  BY <1>1 DEF SolventThroughout, Frame
<1>3. SolventIn(Snapshot)'
  BY <1>2, NextSnapshotOwes, SolventInOwes DEF Restore, RestoreParams
<1> QED
  BY <1>1, <1>3, SavedPopped

LEMMA RefundSolvent ==
    ASSUME CoreInv, SolventThroughout, NEW gas \in GasUsed, ExecRefund(gas)
    PROVE  SolventThroughout'
<1> DEFINE s == Frame.saved
           p == Frame.receipt.provider.addr
           c == RefundOf(Frame, gas)
<1>1. /\ calls # <<>> /\ PopFrame /\ RestoreParams(s)
      /\ providerFunds' = [s.providerFunds EXCEPT ![p] = @ - c]
      /\ executorStake' = [s.executorStake EXCEPT ![Frame.executor] = @ + c]
      /\ params \in Params /\ calls \in Seq(Calls)
  BY DEF ExecRefund, CoreInv, CoreTypes, LedgerTypeOK, SysAdminTypeOK
<1>2. /\ Frame \in Calls /\ p \in Accounts /\ Frame.executor \in Addresses
      /\ s \in Snapshots
  BY <1>1, InnermostFrame DEF Calls, TaskReceipt, Addresses
<1>3. c \in Nat
  BY <1>1, <1>2, CostsAreNat
<1>4. SolventIn(s)
  <2>1. Len(calls) \in 1..Len(calls)
    BY <1>1, EmptySeq
  <2> QED
    BY <2>1 DEF SolventThroughout, Frame
<1>5. /\ s.gelatoBalance \in Nat /\ s.sysAdminFunds \in Nat
      /\ s.providerFunds \in [Accounts -> Nat] /\ s.executorStake \in [Addresses -> Nat]
      /\ Owes(s.gelatoBalance, s.sysAdminFunds, s.providerFunds, s.executorStake)
  BY <1>2, <1>4, SolventInOwes DEF Snapshots
<1>6. gelatoBalance' = s.gelatoBalance /\ sysAdminFunds' = s.sysAdminFunds
  BY <1>1 DEF RestoreParams
<1> HIDE DEF s, p, c
<1>7. Owes(s.gelatoBalance, s.sysAdminFunds + 0,
           [s.providerFunds EXCEPT ![p] = @ - (c + 0)],
           [s.executorStake EXCEPT ![Frame.executor] = @ + c])
  BY <1>2, <1>3, <1>5, Paying
<1>8. c + 0 = c /\ s.sysAdminFunds + 0 = s.sysAdminFunds
  BY <1>3, <1>5
<1>9. Owes(gelatoBalance', sysAdminFunds', providerFunds', executorStake')
  BY <1>1, <1>6, <1>7, <1>8
<1>10. SolventIn(Snapshot)'
  BY <1>9, NextSnapshotOwes
<1> QED
  BY <1>1, <1>10, SavedPopped

LEMMA AbortSolvent ==
    ASSUME CoreInv, SolventThroughout, NEW executor \in Accounts,
           NEW id \in Ids, NEW p \in Accounts, NEW gas \in GasUsed,
           ExecAbort(executor, id, p, gas)
    PROVE  SolventThroughout'
<1> DEFINE c == AbortCost(gas)
<1>1. /\ providerFunds' = [providerFunds EXCEPT ![p] = @ - c]
      /\ executorStake' = [executorStake EXCEPT ![executor] = @ + c]
      /\ UNCHANGED <<sysAdminVars, calls>>
      /\ params.gelatoGasPrice > 0 /\ c <= providerFunds[p]
  BY AbortEffects
<1>2. executor \in Addresses
  BY DEF Addresses
<1>3. /\ gelatoBalance \in Nat /\ sysAdminFunds \in Nat /\ params \in Params
      /\ providerFunds \in [Accounts -> Nat] /\ executorStake \in [Addresses -> Nat]
      /\ Owes(gelatoBalance, sysAdminFunds, providerFunds, executorStake)
  BY SnapshotOwes
  DEF CoreInv, CoreTypes, LedgerTypeOK, SysAdminTypeOK, ProvidersTypeOK,
      SolventThroughout
<1>4. c \in Nat
  BY <1>1, <1>3, AbortCostIsNat
<1> HIDE DEF c
<1>5. Owes(gelatoBalance, sysAdminFunds + 0,
           [providerFunds EXCEPT ![p] = @ - (c + 0)],
           [executorStake EXCEPT ![executor] = @ + c])
  BY <1>2, <1>3, <1>4, Paying
<1>6. c + 0 = c /\ sysAdminFunds + 0 = sysAdminFunds
  BY <1>3, <1>4
<1>7. Owes(gelatoBalance', sysAdminFunds', providerFunds', executorStake')
  BY <1>1, <1>5, <1>6 DEF sysAdminVars
<1>8. SolventIn(Snapshot)'
  BY <1>7, NextSnapshotOwes
<1> QED
  BY <1>1, <1>8, SavedUnchanged

\* A call that touches the ledger alone, or no ether at all.
LEMMA LedgerCallSolvent ==
    ASSUME CoreInv, SolventThroughout, [LedgerNext]_ledgerVars, UNCHANGED calls
    PROVE  SolventThroughout'
<1>1. LedgerTypeOK /\ Solvent
  BY SnapshotOwes DEF CoreInv, CoreTypes, SolventThroughout
<1>2. Solvent'
  BY <1>1, SolventStep DEF ledgerVars
<1> QED
  BY <1>2, NextSnapshotOwes, SavedUnchanged

LEMMA SolventThroughoutStep ==
    ASSUME CoreInv, SolventThroughout, [CoreNext]_coreVars
    PROVE  SolventThroughout'
<1>1. CASE UNCHANGED <<ledgerVars, calls>>
  BY <1>1, LedgerCallSolvent
<1>2. ASSUME NEW sender \in Accounts, CallStep(sender) PROVE SolventThroughout'
  <2>1. CASE LedgerStep(sender) /\ UNCHANGED <<taskVars, calls, now>>
    BY <2>1, LedgerCallSolvent DEF LedgerNext
  <2>2. CASE SubmitStep(sender) \/ CancelStep(sender)
    BY ZenonT(60), <1>1, <2>2 DEF SubmitStep, SubmitTask, SubmitTaskCycle, SubmitTaskChain,
                      Submit, CancelStep, CancelTask, MultiCancelTasks
  <2>3. ASSUME NEW r \in Issued, NEW fullGas, ExecBegin(sender, r, fullGas)
        PROVE  SolventThroughout'
    <3> DEFINE f == [receipt |-> r, executor |-> sender,
                     gasLimit |-> gasLimitOf(r), gasPrice |-> params.gelatoGasPrice,
                     fullGas |-> fullGas, saved |-> Snapshot]
    <3>1. calls' = Append(calls, f) /\ UNCHANGED ledgerVars /\ f.saved = Snapshot
      BY <2>3 DEF ExecBegin
    <3>2. calls \in Seq(Calls) /\ Solvent
      BY SnapshotOwes DEF CoreInv, CoreTypes, SolventThroughout
    <3>3. SolventIn(Snapshot)'
      BY <3>1, <3>2, SolventUnchanged, NextSnapshotOwes
      DEF ledgerVars, vars, sysAdminVars, providerVars
    <3> HIDE DEF f
    <3> QED
      BY <3>1, <3>2, <3>3, SavedPushed
  <2>4. CASE ExecStep(sender)
    BY <2>3, <2>4, AbortSolvent DEF ExecStep
  <2> QED
    BY <1>2, <2>1, <2>2, <2>4 DEF CallStep
<1>3. CASE Return
  BY <1>3, SuccessSolvent, RefundSolvent, RevertSolvent
  DEF Return, ExecUnderflow, ExecRevert
<1>4. CASE Tick
  BY <1>1, <1>4 DEF Tick
<1>5. CASE OracleStep
  <2>1. LedgerNext /\ UNCHANGED calls
    BY <1>5 DEF OracleStep, LedgerNext
  <2> QED
    BY <2>1, LedgerCallSolvent
<1> QED
  BY <1>1, <1>2, <1>3, <1>4, <1>5 DEF CoreNext, coreVars

LEMMA SolventThroughoutInit == CoreInit => SolventThroughout
  BY SolventInit, SnapshotOwes DEF CoreInit, SolventThroughout

\* The contract holds exactly what it owes, in every state of every execution
\* and in every state a failing execution falls back to, for all constants.
THEOREM CoreSolventThroughout == CoreSpec => []SolventThroughout
<1>1. CoreInv /\ SolventThroughout /\ [CoreNext]_coreVars => SolventThroughout'
  BY SolventThroughoutStep
<1> QED
  BY CoreInvariant, SolventThroughoutInit, <1>1, PTL DEF CoreSpec

-----------------------------------------------------------------------------
(* Tasks are counted modulo the length of the cycle. *)

LEMMA Modulo ==
    ASSUME NEW a \in Nat, NEW n \in Nat \ {0}
    PROVE  a % n \in 0..(n - 1) /\ (a < n => a % n = a)
  OBVIOUS

LEMMA ModuloOf ==
    ASSUME NEW q \in Nat, NEW r \in Nat, NEW n \in Nat \ {0}, r < n
    PROVE  (n * q + r) % n = r
  OBVIOUS

LEMMA ModuloNext ==
    ASSUME NEW a \in Nat, NEW n \in Nat \ {0}
    PROVE  (a + 1) % n = IF a % n = n - 1 THEN 0 ELSE (a % n) + 1
<1> DEFINE q == a \div n
           r == a % n
<1>1. a = n * q + r /\ q \in Nat /\ r \in 0..(n - 1)
  OBVIOUS
<1> HIDE DEF q, r
<1>2. CASE r = n - 1
  <2>1. a + 1 = n * (q + 1) + 0
    BY <1>1, <1>2
  <2>2. (n * (q + 1) + 0) % n = 0
    BY <1>1, ModuloOf
  <2> QED
    BY <1>2, <2>1, <2>2 DEF r
<1>3. CASE r # n - 1
  <2>1. a + 1 = n * q + (r + 1) /\ r + 1 \in Nat /\ r + 1 < n
    BY <1>1, <1>3
  <2>2. (n * q + (r + 1)) % n = r + 1
    BY <1>1, <2>1, ModuloOf
  <2> QED
    BY <1>3, <2>1, <2>2 DEF r
<1> QED
  BY <1>2, <1>3

LEMMA ModuloRepeated ==
    ASSUME NEW a \in Nat, NEW n \in Nat \ {0}
    PROVE  ((a % n) + 1) % n = (a + 1) % n
<1>1. PICK r \in 0..(n - 1) : r = a % n
  BY Modulo
<1>2. r \in Nat /\ r % n = r
  BY Modulo
<1>3. (r + 1) % n = IF r = n - 1 THEN 0 ELSE r + 1
  BY <1>2, ModuloNext
<1>4. (a + 1) % n = IF r = n - 1 THEN 0 ELSE r + 1
  BY <1>1, ModuloNext
<1> QED
  BY <1>1, <1>3, <1>4

LEMMA ModuloOfZero == ASSUME NEW n \in Nat \ {0} PROVE 0 % n = 0
  OBVIOUS

\* The task after index i, as nextIndex computes it and as Follows states it.
LEMMA NextIndexIsModulo ==
    ASSUME NEW r \in TaskReceipt, r.index < Len(r.tasks)
    PROVE  /\ Len(r.tasks) \in Nat \ {0} /\ r.index \in Nat
           /\ nextIndex(r) = (r.index + 1) % Len(r.tasks)
<1>1. r.index \in Nat /\ Len(r.tasks) \in Nat \ {0}
  BY DEF TaskReceipt
<1>2. r.index % Len(r.tasks) = r.index
  BY <1>1, Modulo
<1> QED
  BY <1>1, <1>2, ModuloNext DEF nextIndex

-----------------------------------------------------------------------------
(* A line of receipts.  M are the receipts of cycle c, R the ones that ran, *)
(* and f has the receipts.  The receipts before the newest one have all     *)
(* run; if the newest has run too, it was the last one requested.           *)

SameCycle(r, first) ==
    /\ r \in TaskReceipt /\ r.tasks = first.tasks
    /\ r.index < Len(r.tasks)

Line(M, R, f, c) ==
    LET requested == f[c].submissionsLeft
        runs == Cardinality(R)
    IN  /\ c \in M /\ R \subseteq M /\ M \subseteq Nat /\ IsFiniteSet(M)
        /\ \A id \in M : SameCycle(f[id], f[c]) /\ f[id].id = id /\ c <= id
        /\ \A j, id \in M : j < id => j \in R
        /\ \A id \in M \ R :
            /\ f[id].index = runs % Len(f[c].tasks)
            /\ IF requested = 0 THEN f[id].submissionsLeft = 0
               ELSE runs < requested /\ f[id].submissionsLeft = requested - runs
        /\ M = R => requested # 0 /\ runs = requested
        /\ \A id \in M \ {c} : \E k \in M :
            /\ k < id /\ Follows(f[id], f[k])
            /\ \A j \in M : j <= k \/ id <= j
        /\ \A id \in R : f[id].submissionsLeft # 1 => \E k \in M :
            /\ id < k /\ Follows(f[k], f[id])
            /\ \A j \in M : j <= id \/ k <= j

\* A line depends on its own receipts only.
LEMMA LineDepends ==
    ASSUME NEW M, NEW R, NEW f, NEW g, NEW c, Line(M, R, f, c),
           \A id \in M : g[id] = f[id]
    PROVE  Line(M, R, g, c)
<1>1. c \in M /\ R \subseteq M
  BY DEF Line
<1> QED
  BY <1>1 DEF Line

\* A cycle that was just submitted.
LEMMA LineOpens ==
    ASSUME NEW f, NEW c \in Nat, f[c] \in TaskReceipt, f[c].id = c,
           f[c].index = 0, f[c].index < Len(f[c].tasks)
    PROVE  Line({c}, {}, f, c)
<1>1. IsFiniteSet({c}) /\ Cardinality({}) = 0
  BY FS_Singleton, FS_EmptySet
<1>2. Len(f[c].tasks) \in Nat \ {0} /\ f[c].submissionsLeft \in Nat
  BY DEF TaskReceipt
<1>3. 0 % Len(f[c].tasks) = 0
  BY <1>2, ModuloOfZero
<1> QED
  BY <1>1, <1>2, <1>3 DEF Line, SameCycle

\* The newest receipt runs.
LEMMA NewestRuns ==
    ASSUME NEW M, NEW R, NEW f, NEW c, Line(M, R, f, c), NEW id \in M \ R
    PROVE  /\ M = R \cup {id} /\ \A j \in M : j <= id
           /\ IsFiniteSet(R) /\ Cardinality(R) \in Nat
           /\ IsFiniteSet(R \cup {id})
           /\ Cardinality(R \cup {id}) = Cardinality(R) + 1
<1>1. R \subseteq M /\ M \subseteq Nat /\ IsFiniteSet(M)
  BY DEF Line
<1>2. \A j \in M : j <= id
  BY <1>1 DEF Line
<1>3. \A j \in M : j # id => j \in R
  BY <1>1, <1>2 DEF Line
<1>4. IsFiniteSet(R) /\ id \notin R
  BY <1>1, FS_Subset
<1>5. /\ IsFiniteSet(R \cup {id}) /\ Cardinality(R) \in Nat
      /\ Cardinality(R \cup {id}) = Cardinality(R) + 1
  BY <1>4, FS_CardinalityType, FS_AddElement
<1> QED
  BY <1>1, <1>2, <1>3, <1>4, <1>5

LEMMA LineEnds ==
    ASSUME NEW M, NEW R, NEW f, NEW c, Line(M, R, f, c), NEW id \in M \ R,
           f[id].submissionsLeft = 1
    PROVE  Line(M, R \cup {id}, f, c)
<1> DEFINE S == R \cup {id}
<1>1. /\ M = S /\ Cardinality(R) \in Nat
      /\ Cardinality(S) = Cardinality(R) + 1
  BY NewestRuns
<1>2. f[c].submissionsLeft \in Nat
  BY DEF Line, SameCycle, TaskReceipt
<1>3. f[c].submissionsLeft # 0 /\ Cardinality(S) = f[c].submissionsLeft
  BY <1>1, <1>2 DEF Line
<1> HIDE DEF S
<1>4. \A j \in S : j \in R \/ f[j].submissionsLeft = 1
  BY DEF S
<1> QED
  <2>1. Line(M, S, f, c)
    BY <1>1, <1>3, <1>4 DEF Line
  <2> QED
    BY <2>1 DEF S

LEMMA LineGrows ==
    ASSUME NEW M, NEW R, NEW f, NEW g, NEW c, Line(M, R, f, c),
           NEW id \in M \ R, f[id].submissionsLeft # 1,
           NEW n \in Nat, \A j \in M : j < n, \A j \in M : g[j] = f[j],
           g[n] \in TaskReceipt, g[n].id = n, g[n].index < Len(g[n].tasks),
           Follows(g[n], f[id])
    PROVE  Line(M \cup {n}, R \cup {id}, g, c)
<1>0. /\ M = R \cup {id} /\ \A j \in M : j <= id
      /\ Cardinality(R) \in Nat
      /\ Cardinality(R \cup {id}) = Cardinality(R) + 1
  BY ONLY ZenonT(60), Line(M, R, f, c), id \in M \ R, NewestRuns
<1> DEFINE S == R \cup {id}
           N == M \cup {n}
           runs == Cardinality(R)
           requested == f[c].submissionsLeft
           len == Len(f[c].tasks)
<1>1. /\ M = S /\ \A j \in M : j <= id
      /\ runs \in Nat /\ Cardinality(S) = runs + 1
  BY <1>0
<1>2. /\ c \in M /\ R \subseteq M /\ M \subseteq Nat /\ IsFiniteSet(M)
      /\ f[c] \in TaskReceipt /\ f[c].index < Len(f[c].tasks) /\ f[id] \in TaskReceipt /\ f[id].index < Len(f[id].tasks)
      /\ f[id].tasks = f[c].tasks /\ g[c] = f[c] /\ n \notin M
  BY DEF Line, SameCycle
<1>3. /\ N \subseteq Nat /\ c \in N /\ S \subseteq N /\ N # S /\ N \ S = {n}
      /\ IsFiniteSet(N)
  <2>1. IsFiniteSet(N)
    BY <1>2, FS_AddElement
  <2> QED
    BY <1>1, <1>2, <2>1
<1>4. len \in Nat \ {0} /\ requested \in Nat
  <2>1. f[c].tasks \in Seq(Task) /\ f[c].index \in Nat /\ requested \in Nat
    BY <1>2 DEF TaskReceipt
  <2>2. len \in Nat
    BY <2>1
  <2> QED
    BY <1>2, <2>1, <2>2
<1>5. g[n].index = (runs + 1) % len
  <2>1. f[id].index = runs % len /\ g[n].index = (f[id].index + 1) % len
    BY <1>2 DEF Line, Follows
  <2> HIDE DEF runs, len
  <2> QED
    BY <1>1, <1>4, <2>1, ModuloRepeated
<1>6. IF requested = 0 THEN g[n].submissionsLeft = 0
      ELSE runs + 1 < requested /\ g[n].submissionsLeft = requested - (runs + 1)
  <2>1. g[n].submissionsLeft = IF f[id].submissionsLeft = 0 THEN 0
                               ELSE f[id].submissionsLeft - 1
    BY DEF Follows
  <2>2. IF requested = 0 THEN f[id].submissionsLeft = 0
        ELSE runs < requested /\ f[id].submissionsLeft = requested - runs
    BY DEF Line
  <2> HIDE DEF requested, runs
  <2> QED
    BY <1>1, <1>4, <2>1, <2>2
<1>7. \A j \in N : SameCycle(g[j], g[c]) /\ g[j].id = j /\ c <= j
  <2>1. g[n].tasks = f[c].tasks
    BY <1>2 DEF Follows
  <2>2. c <= n
    BY <1>2
  <2> QED
    BY <1>2, <2>1, <2>2 DEF Line, SameCycle
<1>8. \A j, k \in N : j < k => j \in S
  <2>1. \A j \in N : j \in M \/ j = n
    OBVIOUS
  <2> QED
    BY <1>1, <1>2, <1>3, <2>1
<1>9. ASSUME NEW i \in N \ {c}
      PROVE  \E k \in N : /\ k < i /\ Follows(g[i], g[k])
                          /\ \A j \in N : j <= k \/ i <= j
  <2>1. CASE i = n
    <3>1. id < n /\ Follows(g[n], g[id])
      BY <2>1
    <3>2. \A j \in N : j <= id \/ n <= j
      BY <1>1, <1>3
    <3> QED
      BY <2>1, <3>1, <3>2
  <2>2. CASE i # n
    <3>1. PICK k \in M : /\ k < i /\ Follows(f[i], f[k])
                         /\ \A j \in M : j <= k \/ i <= j
      BY <2>2 DEF Line
    <3>2. i <= n /\ g[i] = f[i] /\ g[k] = f[k]
      BY <1>2, <2>2
    <3> QED
      BY <3>1, <3>2
  <2> QED
    BY <2>1, <2>2
<1>10. ASSUME NEW i \in S, g[i].submissionsLeft # 1
       PROVE  \E k \in N : /\ i < k /\ Follows(g[k], g[i])
                           /\ \A j \in N : j <= i \/ k <= j
  <2>1. CASE i = id
    <3>1. \A j \in N : j <= id \/ n <= j
      BY <1>1, <1>3
    <3>2. id < n /\ Follows(g[n], g[id])
      OBVIOUS
    <3> QED
      BY <2>1, <3>1, <3>2
  <2>2. CASE i # id
    <3>1. i \in R /\ g[i] = f[i]
      BY <1>2, <2>2
    <3>2. PICK k \in M : /\ i < k /\ Follows(f[k], f[i])
                         /\ \A j \in M : j <= i \/ k <= j
      BY <1>10, <3>1 DEF Line
    <3>3. k <= n /\ g[k] = f[k]
      BY <1>2
    <3> QED
      BY <3>1, <3>2, <3>3
  <2> QED
    BY <2>1, <2>2
<1>11. g[c].submissionsLeft = requested /\ Len(g[c].tasks) = len
  BY <1>2
<1> HIDE DEF S, N
<1>12. \A i \in N \ S :
            /\ g[i].index = Cardinality(S) % Len(g[c].tasks)
            /\ IF g[c].submissionsLeft = 0 THEN g[i].submissionsLeft = 0
               ELSE /\ Cardinality(S) < g[c].submissionsLeft
                    /\ g[i].submissionsLeft = g[c].submissionsLeft - Cardinality(S)
  BY <1>1, <1>3, <1>5, <1>6, <1>11
<1> QED
  <2>1. Line(N, S, g, c)
    BY <1>3, <1>7, <1>8, <1>9, <1>10, <1>12 DEF Line
  <2> QED
    BY <2>1 DEF N, S

-----------------------------------------------------------------------------
(* The cycles of a state. *)

CycleRuns(s, c) == {id \in CycleOf(s, c) : s.outcomes[id] = <<"rewarded">>}

Lines(s) ==
    \A c \in 1..s.currentTaskReceiptId :
        CycleOf(s, c) # {} => Line(CycleOf(s, c), CycleRuns(s, c), s.receipts, c)

\* The receipts of a state, as Accounted describes them.
Numbered(s) ==
    \A id \in 1..s.currentTaskReceiptId : WellFormed(s.receipts[id], id)

LEMMA CycleMembers ==
    ASSUME NEW s \in Snapshots, NEW c
    PROVE  /\ CycleOf(s, c) \subseteq 1..s.currentTaskReceiptId
           /\ s.currentTaskReceiptId \in Nat
           /\ CycleRuns(s, c) \subseteq CycleOf(s, c)
  BY CoreAssumption DEF Snapshots, CycleOf, CycleRuns

LEMMA NewCycleIsEmpty ==
    ASSUME NEW s \in Snapshots, Numbered(s), NEW id \in 1..s.currentTaskReceiptId
    PROVE  s.receipts[id].cycleId # s.currentTaskReceiptId + 1
<1>1. s.currentTaskReceiptId \in Nat
  BY CycleMembers
<1>2. s.receipts[id].cycleId \in Nat /\ s.receipts[id].cycleId <= id
  BY DEF Numbered, WellFormed, TaskReceipt
<1> QED
  BY <1>1, <1>2

\* Events other than rewards leave the lines as they are.
LEMMA LinesUnchanged ==
    ASSUME NEW s \in Snapshots, Lines(s), NEW t,
           t.currentTaskReceiptId = s.currentTaskReceiptId, t.receipts = s.receipts,
           \A id \in 1..s.currentTaskReceiptId :
                s.outcomes[id] = <<"rewarded">> <=> t.outcomes[id] = <<"rewarded">>
    PROVE  Lines(t)
<1>1. ASSUME NEW c \in 1..s.currentTaskReceiptId
      PROVE  CycleOf(t, c) = CycleOf(s, c) /\ CycleRuns(t, c) = CycleRuns(s, c)
  BY DEF CycleOf, CycleRuns
<1> QED
  BY <1>1 DEF Lines

\* A submission opens a line, or issues a receipt of no cycle.
LEMMA LinesOpen ==
    ASSUME NEW s \in Snapshots, Lines(s), Numbered(s), NEW t, NEW r,
           LET n == s.currentTaskReceiptId + 1 IN
           /\ n \in Ids
           /\ t.currentTaskReceiptId = n /\ t.receipts = Put(s.receipts, n, r)
           /\ t.outcomes = s.outcomes /\ s.outcomes[n] = <<>>
           /\ WellFormed(r, n) /\ r.index = 0 /\ r.cycleId \in {0, n}
    PROVE  Lines(t)
<1> DEFINE n == s.currentTaskReceiptId + 1
<1>1. /\ s.currentTaskReceiptId \in Nat /\ n \in Nat /\ n \in Ids
      /\ s.receipts \in [Ids -> TaskReceipt \cup {NoReceipt}]
  BY CycleMembers DEF Snapshots, Stores
<1>2. /\ \A id \in 1..s.currentTaskReceiptId :
            id \in Ids /\ id # n /\ t.receipts[id] = s.receipts[id]
      /\ t.receipts[n] = r
  BY <1>1, CoreAssumption DEF Put, Ids
<1>3. SUFFICES ASSUME NEW c \in 1..n, CycleOf(t, c) # {}
               PROVE  Line(CycleOf(t, c), CycleRuns(t, c), t.receipts, c)
  BY DEF Lines
<1>4. CASE c = n
  <2>1. CycleOf(t, c) = {n}
    <3>1. \A id \in 1..s.currentTaskReceiptId : t.receipts[id].cycleId # n
      BY <1>2, NewCycleIsEmpty
    <3>2. CycleOf(t, c) \subseteq {n}
      BY <1>1, <1>4, <3>1 DEF CycleOf
    <3> QED
      BY <1>3, <3>2
  <2>2. CycleRuns(t, c) = {}
    <3>1. t.outcomes[n] = <<>> /\ <<>> # <<"rewarded">>
      OBVIOUS
    <3> QED
      BY <2>1, <3>1 DEF CycleRuns
  <2>3. Line({n}, {}, t.receipts, n)
    BY <1>1, <1>2, LineOpens DEF WellFormed
  <2> QED
    BY <1>4, <2>1, <2>2, <2>3
<1>5. CASE c # n
  <2>1. c \in 1..s.currentTaskReceiptId /\ r.cycleId # c
    BY <1>1, <1>5
  <2>2. CycleOf(t, c) = CycleOf(s, c)
    BY <1>1, <1>2, <2>1 DEF CycleOf
  <2>3. CycleRuns(t, c) = CycleRuns(s, c)
    BY <2>2 DEF CycleRuns
  <2>4. Line(CycleOf(s, c), CycleRuns(s, c), s.receipts, c)
    BY <1>3, <2>1, <2>2 DEF Lines
  <2>5. \A id \in CycleOf(s, c) : t.receipts[id] = s.receipts[id]
    BY <1>2, CycleMembers
  <2> QED
    BY <2>2, <2>3, <2>4, <2>5, LineDepends
<1> QED
  BY <1>4, <1>5

RunsWith(s, id, c) ==
    {j \in CycleOf(s, c) : Log(s.outcomes, id, "rewarded")[j] = <<"rewarded">>}

\* A receipt that ran is added to the runs of its cycle, and to no other.
LEMMA RunsGrow ==
    ASSUME NEW s \in Snapshots, NEW id \in 1..s.currentTaskReceiptId,
           s.outcomes[id] = <<>>, NEW c
    PROVE  /\ s.receipts[id].cycleId = c =>
                /\ RunsWith(s, id, c) = CycleRuns(s, c) \cup {id}
                /\ id \in CycleOf(s, c) \ CycleRuns(s, c)
           /\ s.receipts[id].cycleId # c => RunsWith(s, id, c) = CycleRuns(s, c)
<1> DEFINE v == Log(s.outcomes, id, "rewarded")
<1>1. s.currentTaskReceiptId \in 0..MaxReceipts /\ s.outcomes \in [Ids -> Seq(Events)]
  BY DEF Snapshots
<1>2. \A j \in 1..s.currentTaskReceiptId :
        v[j] = IF j = id THEN <<"rewarded">> ELSE s.outcomes[j]
  <2>1. 1..s.currentTaskReceiptId \subseteq Ids /\ id \in Ids
    BY <1>1, CoreAssumption DEF Ids
  <2>2. Append(<<>>, "rewarded") = <<"rewarded">>
    OBVIOUS
  <2> QED
    BY <1>1, <2>1, <2>2 DEF Log
<1>3. <<>> # <<"rewarded">>
  OBVIOUS
<1> HIDE DEF v
<1>4. \A j \in CycleOf(s, c) : j \in 1..s.currentTaskReceiptId /\ s.receipts[j].cycleId = c
  BY DEF CycleOf
<1>5. s.receipts[id].cycleId = c => id \in CycleOf(s, c)
  BY DEF CycleOf
<1> QED
  BY <1>2, <1>3, <1>4, <1>5 DEF v, RunsWith, CycleRuns

\* A receipt that runs and is the last one of its cycle, or belongs to none.
LEMMA LinesEnd ==
    ASSUME NEW s \in Snapshots, Lines(s), NEW t,
           NEW id \in 1..s.currentTaskReceiptId, s.outcomes[id] = <<>>,
           t.currentTaskReceiptId = s.currentTaskReceiptId, t.receipts = s.receipts,
           t.outcomes = Log(s.outcomes, id, "rewarded"),
           s.receipts[id].submissionsLeft = 1
    PROVE  Lines(t)
<1> SUFFICES ASSUME NEW c \in 1..s.currentTaskReceiptId, CycleOf(t, c) # {}
             PROVE  Line(CycleOf(t, c), CycleRuns(t, c), t.receipts, c)
  BY DEF Lines
<1>1. CycleOf(t, c) = CycleOf(s, c)
  BY DEF CycleOf
<1>2. Line(CycleOf(s, c), CycleRuns(s, c), s.receipts, c)
  BY <1>1 DEF Lines
<1>3. CycleRuns(t, c) = RunsWith(s, id, c)
  BY <1>1 DEF CycleRuns, RunsWith
<1>4. CASE s.receipts[id].cycleId = c
  <2>1. /\ CycleRuns(t, c) = CycleRuns(s, c) \cup {id}
        /\ id \in CycleOf(s, c) \ CycleRuns(s, c)
    BY <1>3, <1>4, RunsGrow
  <2>2. Line(CycleOf(s, c), CycleRuns(s, c) \cup {id}, s.receipts, c)
    BY <1>2, <2>1, LineEnds
  <2> QED
    BY <1>1, <2>1, <2>2
<1>5. CASE s.receipts[id].cycleId # c
  <2>1. CycleRuns(t, c) = CycleRuns(s, c)
    BY <1>3, <1>5, RunsGrow
  <2> QED
    BY <1>1, <1>2, <2>1
<1> QED
  BY <1>4, <1>5

\* A receipt that runs and is followed.
LEMMA LinesGrow ==
    ASSUME NEW s \in Snapshots, Lines(s), Numbered(s), NEW t, NEW r,
           NEW id \in 1..s.currentTaskReceiptId, s.outcomes[id] = <<>>,
           LET n == s.currentTaskReceiptId + 1 IN
           /\ n \in Ids
           /\ t.currentTaskReceiptId = n /\ t.receipts = Put(s.receipts, n, r)
           /\ t.outcomes = Log(s.outcomes, id, "rewarded") /\ s.outcomes[n] = <<>>
           /\ WellFormed(r, n) /\ Follows(r, s.receipts[id]),
           s.receipts[id].submissionsLeft # 1
    PROVE  Lines(t)
<1> DEFINE n == s.currentTaskReceiptId + 1
<1>1. /\ s.currentTaskReceiptId \in Nat /\ n \in Nat /\ n \in Ids
      /\ s.receipts \in [Ids -> TaskReceipt \cup {NoReceipt}]
      /\ s.outcomes \in [Ids -> Seq(Events)]
  BY CycleMembers DEF Snapshots, Stores
<1>2. /\ \A j \in 1..s.currentTaskReceiptId :
            j \in Ids /\ j # n /\ t.receipts[j] = s.receipts[j]
      /\ t.receipts[n] = r
      /\ t.outcomes[n] = <<>> /\ <<>> # <<"rewarded">>
  <2>1. \A j \in 1..s.currentTaskReceiptId : j \in Ids /\ j # n
    BY <1>1, CoreAssumption DEF Ids
  <2>2. t.outcomes[n] = s.outcomes[n]
    BY <1>1, <2>1 DEF Log
  <2> QED
    BY <1>1, <2>1, <2>2 DEF Put
<1>3. r.cycleId = s.receipts[id].cycleId
  BY DEF Follows
<1>4. SUFFICES ASSUME NEW c \in 1..n, CycleOf(t, c) # {}
               PROVE  Line(CycleOf(t, c), CycleRuns(t, c), t.receipts, c)
  BY DEF Lines
<1>5. c # n
  <2>1. \A j \in 1..s.currentTaskReceiptId : s.receipts[j].cycleId # n
    BY NewCycleIsEmpty
  <2>2. \A j \in 1..n : j = n \/ j \in 1..s.currentTaskReceiptId
    BY <1>1
  <2> QED
    BY <1>2, <1>3, <1>4, <2>1, <2>2 DEF CycleOf
<1>6. c \in 1..s.currentTaskReceiptId
  BY <1>1, <1>5
<1>7. \A j \in CycleOf(s, c) : j < n /\ t.receipts[j] = s.receipts[j]
  BY <1>1, <1>2, CycleMembers
<1>8. CASE s.receipts[id].cycleId = c
  <2>1. CycleOf(t, c) = CycleOf(s, c) \cup {n}
    BY <1>1, <1>2, <1>3, <1>8 DEF CycleOf
  <2>2. CycleRuns(t, c) = RunsWith(s, id, c)
    BY <1>2, <2>1 DEF CycleRuns, RunsWith
  <2>3. /\ CycleRuns(t, c) = CycleRuns(s, c) \cup {id}
        /\ id \in CycleOf(s, c) \ CycleRuns(s, c)
    BY <1>8, <2>2, RunsGrow
  <2>4. Line(CycleOf(s, c), CycleRuns(s, c), s.receipts, c)
    BY <1>6, <2>3 DEF Lines
  <2>5. /\ t.receipts[n] \in TaskReceipt /\ t.receipts[n].id = n
        /\ t.receipts[n].index < Len(t.receipts[n].tasks)
        /\ Follows(t.receipts[n], s.receipts[id])
    BY <1>2 DEF WellFormed
  <2> DEFINE M == CycleOf(s, c)
             R == CycleRuns(s, c)
             f == s.receipts
             g == t.receipts
  <2>6. /\ Line(M, R, f, c) /\ id \in M \ R /\ f[id].submissionsLeft # 1
        /\ n \in Nat /\ (\A j \in M : j < n) /\ (\A j \in M : g[j] = f[j])
        /\ g[n] \in TaskReceipt /\ g[n].id = n /\ g[n].index < Len(g[n].tasks)
        /\ Follows(g[n], f[id])
    BY <1>1, <1>7, <2>3, <2>4, <2>5
  <2> HIDE DEF n, M, R, f, g
  <2>7. Line(M \cup {n}, R \cup {id}, g, c)
    BY ONLY <2>6, LineGrows
  <2> QED
    BY <2>1, <2>3, <2>7 DEF M, R, g
<1>9. CASE s.receipts[id].cycleId # c
  <2>1. CycleOf(t, c) = CycleOf(s, c)
    BY <1>1, <1>2, <1>3, <1>9 DEF CycleOf
  <2>2. CycleRuns(t, c) = RunsWith(s, id, c)
    BY <2>1 DEF CycleRuns, RunsWith
  <2>3. CycleRuns(t, c) = CycleRuns(s, c)
    BY <1>9, <2>2, RunsGrow
  <2>4. Line(CycleOf(s, c), CycleRuns(s, c), s.receipts, c)
    BY <1>4, <1>6, <2>1 DEF Lines
  <2> QED
    BY <1>7, <2>1, <2>3, <2>4, LineDepends
<1> QED
  BY <1>8, <1>9

-----------------------------------------------------------------------------
(* The steps of GelatoCore keep the lines. *)

LEMMA NumberedStates ==
    ASSUME CoreInv
    PROVE  /\ Numbered(Snapshot)
           /\ \A k \in 1..Len(calls) :
                calls[k].saved \in Snapshots /\ Numbered(calls[k].saved)
<1>1. \A n \in 0..MaxReceipts : 1..n \subseteq Ids
  BY IdsAreNumbers
<1>2. Numbered(Snapshot)
  <2>1. currentTaskReceiptId \in 0..MaxReceipts
    BY DEF CoreInv, CoreTypes
  <2>2. \A id \in 1..currentTaskReceiptId : id \in Ids /\ id <= currentTaskReceiptId
    BY <1>1, <2>1
  <2> QED
    BY <2>2, SnapshotFields DEF CoreInv, Accounted, Numbered
<1>3. ASSUME NEW k \in 1..Len(calls)
      PROVE  calls[k].saved \in Snapshots /\ Numbered(calls[k].saved)
  <2>1. calls \in Seq(Calls)
    BY DEF CoreInv, CoreTypes
  <2>2. calls[k] \in Calls
    BY <2>1
  <2>3. calls[k].saved \in Snapshots
    BY <2>2 DEF Calls
  <2>4. calls[k].saved.currentTaskReceiptId \in 0..MaxReceipts
    BY <2>3 DEF Snapshots
  <2>5. \A id \in 1..calls[k].saved.currentTaskReceiptId :
            id \in Ids /\ id <= calls[k].saved.currentTaskReceiptId
    BY <1>1, <2>4
  <2> QED
    BY <2>3, <2>5 DEF CoreInv, FrameOK, Accounted, Numbered
<1> QED
  BY <1>2, <1>3

\* Issuing a receipt on top of those of the present state.
LEMMA IssuedOnTop ==
    ASSUME CoreInv, CoreInv', NEW newCycle, NEW draft, storeTaskReceipt(newCycle, draft)
    PROVE  LET n == currentTaskReceiptId + 1
               r == [draft EXCEPT !.id = n, !.cycleId = IF newCycle THEN n ELSE @]
           IN  /\ n \in Ids /\ WellFormed(r, n) /\ outcomes[n] = <<>>
               /\ currentTaskReceiptId' = n /\ receipts' = Put(receipts, n, r)
<1> DEFINE n == currentTaskReceiptId + 1
           r == [draft EXCEPT !.id = n, !.cycleId = IF newCycle THEN n ELSE @]
<1>1. /\ n <= MaxReceipts /\ currentTaskReceiptId' = n /\ receipts' = Put(receipts, n, r)
  BY DEF storeTaskReceipt, Put
<1> HIDE DEF r
<1>2. currentTaskReceiptId \in 0..MaxReceipts /\ receipts \in Stores
  BY DEF CoreInv, CoreTypes
<1>3. n \in Ids /\ ~ (n <= currentTaskReceiptId)
  BY <1>1, <1>2, CoreAssumption DEF Ids
<1>4. receipts'[n] = r
  BY <1>1, <1>2, <1>3 DEF Put, Stores
<1>5. WellFormed(r, n)
  BY <1>1, <1>2, <1>3, <1>4 DEF CoreInv, Accounted
<1>6. outcomes[n] = <<>>
  BY <1>3 DEF CoreInv, Accounted
<1> QED
  BY <1>1, <1>3, <1>5, <1>6 DEF r

LEMMA SubmitKeepsLines ==
    ASSUME CoreInv, CoreInv', Lines(Snapshot), NEW sender, NEW provider, NEW tasks,
           NEW date, NEW newCycle \in BOOLEAN, NEW submissions,
           Submit(sender, provider, tasks, date, newCycle, submissions)
    PROVE  Lines(Snapshot')
<1>1. PICK draft : /\ storeTaskReceipt(newCycle, draft)
                   /\ draft = [id |-> 0, userProxy |-> sender, provider |-> provider,
                               index |-> 0,
                               tasks |-> IF sender = provider.addr
                                   THEN WithSelfProviderGasDefaults(tasks) ELSE tasks,
                               expiryDate |-> date, cycleId |-> 0,
                               submissionsLeft |-> submissions]
                   /\ UNCHANGED outcomes
  BY DEF Submit
<1> DEFINE n == currentTaskReceiptId + 1
           r == [draft EXCEPT !.id = n, !.cycleId = IF newCycle THEN n ELSE @]
<1>2. /\ n \in Ids /\ WellFormed(r, n) /\ outcomes[n] = <<>>
      /\ currentTaskReceiptId' = n /\ receipts' = Put(receipts, n, r)
  BY <1>1, IssuedOnTop
<1>3. r.index = 0 /\ r.cycleId \in {0, n}
  BY <1>1
<1> HIDE DEF r
<1>4. Snapshot \in Snapshots /\ Numbered(Snapshot)
  BY SnapshotIsTyped, NumberedStates
<1> QED
  BY <1>1, <1>2, <1>3, <1>4, SnapshotFields, LinesOpen

LEMMA SubmitStepKeepsLines ==
    ASSUME CoreInv, CoreInv', Lines(Snapshot), NEW sender, SubmitStep(sender)
    PROVE  Lines(Snapshot')
  BY SubmitKeepsLines DEF SubmitStep, SubmitTask, SubmitTaskCycle, SubmitTaskChain

\* Closing receipts that are stored.
LEMMA ClosingKeepsLines ==
    ASSUME NEW s \in Snapshots, Lines(s), NEW T,
           Accounted(s.currentTaskReceiptId, s.taskReceiptHash, s.receipts,
                     s.outcomes, T),
           NEW S, \A id \in S : s.taskReceiptHash[id] # NoReceipt,
           NEW e \in {"refunded", "cancelled", "annulled"}, NEW t,
           t.currentTaskReceiptId = s.currentTaskReceiptId, t.receipts = s.receipts,
           t.outcomes = LogAll(s.outcomes, S, e)
    PROVE  Lines(t)
<1>1. s.currentTaskReceiptId \in 0..MaxReceipts
  BY DEF Snapshots
<1>2. ASSUME NEW id \in 1..s.currentTaskReceiptId
      PROVE  s.outcomes[id] = <<"rewarded">> <=> t.outcomes[id] = <<"rewarded">>
  <2>1. id \in Ids /\ id <= s.currentTaskReceiptId
    BY <1>1, CoreAssumption DEF Ids
  <2>2. CASE id \in S
    <3>1. s.outcomes[id] = <<>>
      BY <2>1, <2>2 DEF Accounted, Placed
    <3>2. t.outcomes[id] = Append(s.outcomes[id], e)
      BY <2>1, <2>2 DEF LogAll
    <3>3. <<>> # <<"rewarded">> /\ Append(<<>>, e) # <<"rewarded">>
      OBVIOUS
    <3> QED
      BY <3>1, <3>2, <3>3
  <2>3. CASE id \notin S
    BY <2>1, <2>3 DEF LogAll
  <2> QED
    BY <2>2, <2>3
<1> QED
  BY <1>2, LinesUnchanged

LEMMA CancelKeepsLines ==
    ASSUME CoreInv, Lines(Snapshot), NEW sender, NEW rs \in SUBSET Issued,
           MultiCancelTasks(sender, rs)
    PROVE  Lines(Snapshot')
<1> DEFINE S == {r.id : r \in rs}
<1>1. \A r \in rs : taskReceiptHash[r.id] # NoReceipt
  <2>1. TAKE r \in rs
  <2>2. r \in TaskReceipt
    BY IssuedReceipts DEF WellFormed
  <2> QED
    BY <2>2, CoreAssumption DEF MultiCancelTasks, IsStored
<1>2. \A id \in S : taskReceiptHash[id] # NoReceipt
  BY <1>1
<1>3. /\ outcomes' = LogAll(outcomes, S, "cancelled")
      /\ UNCHANGED <<currentTaskReceiptId, receipts>>
  <2>1. \A id \in Ids : (\E r \in rs : r.id = id) <=> id \in S
    OBVIOUS
  <2> HIDE DEF S
  <2> QED
    BY <2>1 DEF MultiCancelTasks, LogAll
<1> HIDE DEF S
<1>4. Accounted(currentTaskReceiptId, taskReceiptHash, receipts, outcomes,
                Taken(calls, Len(calls)))
  BY DEF CoreInv
<1> QED
  BY <1>2, <1>3, <1>4, SnapshotIsTyped, SnapshotFields, ClosingKeepsLines

LEMMA RefundKeepsLines ==
    ASSUME CoreInv, NEW gas, ExecRefund(gas), Lines(Frame.saved)
    PROVE  Lines(Snapshot')
<1> DEFINE s == Frame.saved
           id == Frame.receipt.id
<1>1. /\ calls # <<>> /\ RestoreParams(s) /\ outcomes' = Log(s.outcomes, id, "refunded")
  BY DEF ExecRefund, Log
<1>2. /\ s \in Snapshots /\ s.taskReceiptHash[id] # NoReceipt
      /\ FrameOK(calls, Len(calls))
  BY <1>1, InnermostFrame DEF Calls
<1>3. Accounted(s.currentTaskReceiptId, s.taskReceiptHash, s.receipts, s.outcomes,
                Taken(calls, Len(calls) - 1))
  BY <1>2 DEF FrameOK, Frame
<1>4. currentTaskReceiptId' = s.currentTaskReceiptId /\ receipts' = s.receipts
  BY <1>1 DEF RestoreParams
<1>5. s.taskReceiptHash \in Stores /\ s.outcomes \in [Ids -> Seq(Events)]
  BY <1>2 DEF Snapshots
<1> HIDE DEF s, id
<1>6. outcomes' = LogAll(s.outcomes, {id}, "refunded")
  BY <1>1, <1>5, ClosingOne
<1>7. Lines(s)
  BY DEF s
<1> QED
  BY <1>2, <1>3, <1>4, <1>6, <1>7, SnapshotFields, ClosingKeepsLines

LEMMA AbortKeepsLines ==
    ASSUME CoreInv, Lines(Snapshot), NEW executor, NEW id \in Ids, NEW provider, NEW gas,
           ExecAbort(executor, id, provider, gas)
    PROVE  Lines(Snapshot')
<1>1. /\ outcomes' = Annulled(taskReceiptHash, outcomes, id)
      /\ UNCHANGED <<currentTaskReceiptId, receipts>>
  BY AbortEffects
<1>2. outcomes \in [Ids -> Seq(Events)]
  BY DEF CoreInv, CoreTypes
<1>3. CASE taskReceiptHash[id] = NoReceipt
  <2>1. outcomes' = outcomes
    BY <1>1, <1>2, <1>3 DEF Annulled
  <2> QED
    BY <1>1, <2>1, SnapshotIsTyped, SnapshotFields, LinesUnchanged
<1>4. CASE taskReceiptHash[id] # NoReceipt
  <2>1. outcomes' = LogAll(outcomes, {id}, "annulled")
    BY <1>1, <1>2, <1>4 DEF Annulled, LogAll
  <2>2. Accounted(currentTaskReceiptId, taskReceiptHash, receipts, outcomes,
                  Taken(calls, Len(calls)))
    BY DEF CoreInv
  <2> QED
    BY <1>1, <1>4, <2>1, <2>2, SnapshotIsTyped, SnapshotFields, ClosingKeepsLines
<1> QED
  BY <1>3, <1>4

LEMMA SuccessKeepsLines ==
    ASSUME CoreInv, CoreInv', Ordered, Lines(Snapshot),
           NEW gas, ExecSuccess(gas)
    PROVE  Lines(Snapshot')
<1> DEFINE r == Frame.receipt
           id == r.id
           draft == [r EXCEPT !.index = nextIndex(r),
                              !.submissionsLeft = submissionsLeftAfter(r)]
<1>1. /\ calls # <<>> /\ outcomes' = Log(outcomes, id, "rewarded")
      /\ IF r.submissionsLeft # 1 THEN storeTaskReceipt(FALSE, draft)
         ELSE UNCHANGED <<currentTaskReceiptId, taskReceiptHash, receipts>>
  BY DEF ExecSuccess, Log
<1>2. /\ id \in 1..currentTaskReceiptId /\ receipts[id] = r /\ r \in TaskReceipt
      /\ r.index < Len(r.tasks) /\ outcomes[id] = <<>>
  BY <1>1, FrameReceipt
<1>3. Snapshot \in Snapshots /\ Numbered(Snapshot)
  BY SnapshotIsTyped, NumberedStates
<1>4. CASE r.submissionsLeft = 1
  <2>1. UNCHANGED <<currentTaskReceiptId, receipts>>
    BY <1>1, <1>4
  <2> HIDE DEF id, r
  <2> QED
    BY <1>1, <1>2, <1>3, <1>4, <2>1, SnapshotFields, LinesEnd
<1>5. CASE r.submissionsLeft # 1
  <2> DEFINE n == currentTaskReceiptId + 1
             next == [draft EXCEPT !.id = n, !.cycleId = IF FALSE THEN n ELSE @]
  <2>1. /\ n \in Ids /\ WellFormed(next, n) /\ outcomes[n] = <<>>
        /\ currentTaskReceiptId' = n /\ receipts' = Put(receipts, n, next)
    BY <1>1, <1>5, IssuedOnTop
  <2>2. Follows(next, r)
    <3>1. nextIndex(r) = (r.index + 1) % Len(r.tasks)
      BY <1>2, NextIndexIsModulo
    <3>2. n > id
      BY <1>2, CoreAssumption DEF CoreInv, CoreTypes
    <3>3. /\ next.id = n /\ next.cycleId = r.cycleId /\ next.tasks = r.tasks
          /\ next.userProxy = r.userProxy /\ next.provider = r.provider
          /\ next.expiryDate = r.expiryDate /\ next.index = nextIndex(r)
          /\ next.submissionsLeft = submissionsLeftAfter(r)
      BY <1>2 DEF TaskReceipt
    <3> HIDE DEF next, n
    <3> QED
      BY <3>1, <3>2, <3>3 DEF Follows, submissionsLeftAfter
  <2> HIDE DEF next, id, r
  <2>3. Follows(next, Snapshot.receipts[id]) /\ Snapshot.receipts[id].submissionsLeft # 1
    BY <1>2, <1>5, <2>2, SnapshotFields
  <2> QED
    BY <1>1, <1>2, <1>3, <2>1, <2>3, SnapshotFields, LinesGrow
<1> QED
  BY <1>4, <1>5

-----------------------------------------------------------------------------
(* In every reachable state, and in every state that can come back. *)

LinesThroughout ==
    Lines(Snapshot) /\ \A k \in 1..Len(calls) : Lines(calls[k].saved)

\* A call makes lines of the present state, the end of an execution of the
\* present state or of the one it found.
LEMMA LinesStep ==
    ASSUME CoreInv, Ordered, LinesThroughout, [CoreNext]_coreVars
    PROVE  Lines(Snapshot')
<1>1. CoreInv' /\ Snapshot \in Snapshots /\ Lines(Snapshot)
  BY SnapshotsAreTyped DEF LinesThroughout
<1>2. ASSUME UNCHANGED <<currentTaskReceiptId, receipts, outcomes>>
      PROVE  Lines(Snapshot')
  BY <1>1, <1>2, SnapshotFields, LinesUnchanged
<1>3. ASSUME NEW sender \in Accounts, CallStep(sender) PROVE Lines(Snapshot')
  <2>1. CASE LedgerStep(sender) /\ UNCHANGED <<taskVars, calls, now>>
    BY <1>2, <2>1 DEF taskVars
  <2>2. CASE SubmitStep(sender)
    BY <1>1, <2>2, SubmitStepKeepsLines
  <2>3. CASE CancelStep(sender)
    <3>1. PICK rs \in SUBSET Issued : MultiCancelTasks(sender, rs)
      BY <2>3 DEF CancelStep, CancelTask
    <3> QED
      BY <1>1, <3>1, CancelKeepsLines
  <2>4. CASE ExecStep(sender)
    <3>1. ASSUME NEW r, NEW fullGas, ExecBegin(sender, r, fullGas) PROVE Lines(Snapshot')
      BY <1>2, <3>1 DEF ExecBegin
    <3> QED
      BY <1>1, <2>4, <3>1, AbortKeepsLines DEF ExecStep
  <2> QED
    BY <1>3, <2>1, <2>2, <2>3, <2>4 DEF CallStep
<1>4. CASE Return
  <2>1. calls # <<>>
    BY <1>4 DEF Return, ExecSuccess, ExecUnderflow, ExecRefund, ExecRevert
  <2>2. Frame.saved \in Snapshots /\ Lines(Frame.saved)
    <3>1. Len(calls) \in 1..Len(calls)
      BY <2>1, InnermostFrame
    <3> QED
      BY <3>1, NumberedStates DEF Frame, LinesThroughout
  <2>3. ASSUME Restore(Frame.saved) PROVE Lines(Snapshot')
    <3>1. /\ currentTaskReceiptId' = Frame.saved.currentTaskReceiptId
          /\ receipts' = Frame.saved.receipts /\ outcomes' = Frame.saved.outcomes
      BY <2>3 DEF Restore, RestoreParams
    <3> QED
      BY <2>2, <3>1, SnapshotFields, LinesUnchanged
  <2>4. ASSUME NEW g, ExecSuccess(g) PROVE Lines(Snapshot')
    BY <1>1, <2>4, SuccessKeepsLines
  <2>5. ASSUME NEW g, ExecRefund(g) PROVE Lines(Snapshot')
    BY <2>2, <2>5, RefundKeepsLines
  <2> QED
    BY <1>4, <2>3, <2>4, <2>5 DEF Return, ExecUnderflow, ExecRevert
<1>5. CASE Tick \/ OracleStep \/ UNCHANGED coreVars
  BY <1>2, <1>5 DEF Tick, OracleStep, coreVars, taskVars
<1> QED
  BY <1>3, <1>4, <1>5 DEF CoreNext

LEMMA LinesThroughoutStep ==
    ASSUME CoreInv, Ordered, LinesThroughout, [CoreNext]_coreVars
    PROVE  LinesThroughout'
<1>1. Lines(Snapshot)'
  <2>1. Lines(Snapshot') <=> Lines(Snapshot)'
    OBVIOUS
  <2> QED
    BY <2>1, LinesStep
<1>2. calls \in Seq(Calls) /\ Len(calls) \in Nat
  BY DEF CoreInv, CoreTypes
<1>3. ASSUME NEW k \in 1..Len(calls') PROVE Lines(calls'[k].saved)
  <2>1. CASE Continues
    BY <1>3, <2>1 DEF Continues, LinesThroughout
  <2>2. CASE Begins
    <3>1. PICK f \in Calls : calls' = Append(calls, f) /\ f.saved = Snapshot
      BY <2>2 DEF Begins
    <3>2. \/ k \in 1..Len(calls) /\ calls'[k] = calls[k]
          \/ calls'[k] = f
      BY <1>2, <1>3, <3>1
    <3> QED
      BY <3>1, <3>2 DEF LinesThroughout
  <2>3. CASE Ends
    <3>1. /\ Len(calls') = Len(calls) - 1
          /\ \A j \in 1..Len(calls') : calls'[j] = calls[j]
      BY <1>2, <2>3, FrontOfSeq DEF Ends, PopFrame
    <3>2. k \in 1..Len(calls) /\ calls'[k] = calls[k]
      BY <1>2, <1>3, <3>1
    <3> QED
      BY <3>2 DEF LinesThroughout
  <2> QED
    BY <2>1, <2>2, <2>3, StepShape
<1> QED
  BY <1>1, <1>3 DEF LinesThroughout

LEMMA LinesThroughoutInit == CoreInit => LinesThroughout
<1> SUFFICES ASSUME CoreInit PROVE LinesThroughout
  OBVIOUS
<1>1. calls = <<>> /\ currentTaskReceiptId = 0
  BY DEF CoreInit
<1>2. Lines(Snapshot)
  BY <1>1, SnapshotFields DEF Lines
<1> QED
  BY <1>1, <1>2 DEF LinesThroughout

\* In every state, and in every state a failing execution would bring back,
\* the receipts of a cycle form a line that has run as far as its newest
\* receipt: what ExecSuccess hands on from one receipt to the next.
THEOREM CoreLines ==
    CoreSpec => [](CoreInv /\ Ordered /\ LinesThroughout)
<1>1. CoreInit => CoreInv /\ Ordered /\ LinesThroughout
  BY CoreInvInit, OrderedInit, LinesThroughoutInit
<1>2. CoreInv /\ Ordered /\ LinesThroughout /\ [CoreNext]_coreVars
        => CoreInv' /\ Ordered' /\ LinesThroughout'
  BY CoreInvStep, OrderedStep, LinesThroughoutStep
<1> QED
  BY <1>1, <1>2, PTL DEF CoreSpec

-----------------------------------------------------------------------------
(* What the lines mean for the receipts that the contract has issued. *)

LEMMA AtMostOne ==
    ASSUME NEW S, \A x, y \in S : x = y
    PROVE  IsFiniteSet(S) /\ Cardinality(S) \in {0, 1}
<1>1. CASE S = {}
  BY <1>1, FS_EmptySet
<1>2. CASE S # {}
  <2>1. PICK x : S = {x}
    BY <1>2
  <2> QED
    BY <2>1, FS_Singleton
<1> QED
  BY <1>1, <1>2

LEMMA PresentCycle ==
    ASSUME NEW c
    PROVE  /\ CycleOf(Snapshot, c) =
                {id \in 1..currentTaskReceiptId : receipts[id].cycleId = c}
           /\ CycleRuns(Snapshot, c) =
                {id \in CycleOf(Snapshot, c) : Rewarded(id)}
  BY SnapshotFields DEF CycleOf, CycleRuns, Rewarded

\* A receipt is not stored and closed at once.
LEMMA PendingIsOpen ==
    ASSUME CoreInv, NEW id \in 1..currentTaskReceiptId, Pending(id)
    PROVE  ~ Rewarded(id)
<1>1. id \in Ids /\ id <= currentTaskReceiptId
  BY CoreAssumption DEF CoreInv, CoreTypes, Ids
<1>2. outcomes[id] = <<>>
  BY <1>1 DEF CoreInv, Accounted, Placed, Pending
<1>3. <<>> # <<"rewarded">>
  OBVIOUS
<1> QED
  BY <1>2, <1>3 DEF Rewarded

LEMMA BoundFollows ==
    ASSUME CoreInv, LinesThroughout PROVE CyclesKeepTheirBound
<1> SUFFICES ASSUME NEW c \in 1..currentTaskReceiptId
             PROVE  LET Cycle == {id \in 1..currentTaskReceiptId : receipts[id].cycleId = c}
                        runs == Cardinality({id \in Cycle : Rewarded(id)})
                        requested == receipts[c].submissionsLeft
                    IN  /\ Cardinality({id \in Cycle : Pending(id)}) <= 1
                        /\ requested # 0 => runs <= requested
                        /\ \A id \in Cycle : Pending(id) =>
                            /\ receipts[id].index = runs % Len(receipts[id].tasks)
                            /\ requested # 0 =>
                                    receipts[id].submissionsLeft = requested - runs
  BY DEF CyclesKeepTheirBound
<1> DEFINE M == {id \in 1..currentTaskReceiptId : receipts[id].cycleId = c}
           R == {id \in M : Rewarded(id)}
           P == {id \in M : Pending(id)}
           requested == receipts[c].submissionsLeft
<1>1. /\ currentTaskReceiptId \in 0..MaxReceipts /\ c \in Ids
      /\ receipts[c].submissionsLeft \in Nat
  BY CoreAssumption DEF CoreInv, CoreTypes, Ids, Accounted, WellFormed, TaskReceipt
<1>2. M # {} => Line(M, R, receipts, c)
  BY ZenonT(60), PresentCycle, SnapshotFields DEF LinesThroughout, Lines
<1>3. M \subseteq 1..currentTaskReceiptId /\ R \subseteq M /\ P \cap R = {} /\ P \subseteq M
  BY PendingIsOpen
<1> HIDE DEF M, R, P
<1>4. CASE M = {}
  <2>1. R = {} /\ P = {} /\ Cardinality({}) = 0
    BY <1>3, <1>4, FS_EmptySet
  <2>2. /\ Cardinality(P) <= 1 /\ (requested # 0 => Cardinality(R) <= requested)
        /\ \A id \in M : id \notin P
    BY <1>1, <2>1
  <2>3. \A id \in M : ~ Pending(id)
    BY <2>2 DEF P
  <2> QED
    BY <2>2, <2>3 DEF M, R, P
<1>5. CASE M # {}
  <2>1. \A x, y \in P : x = y
    <3>1. ASSUME NEW x \in P, NEW y \in P, x < y PROVE FALSE
      BY <1>2, <1>3, <1>5, <3>1 DEF Line
    <3> QED
      BY <1>1, <1>3, <3>1
  <2>2. Cardinality(P) <= 1
    BY <2>1, AtMostOne
  <2>3. IsFiniteSet(R) /\ Cardinality(R) \in Nat
    BY <1>2, <1>5, FS_Subset, FS_CardinalityType DEF Line
  <2>4. requested # 0 => Cardinality(R) <= requested
    <3>1. CASE M = R
      BY <1>2, <1>5, <2>3, <3>1 DEF Line
    <3>2. CASE M # R
      <4>1. PICK id \in M \ R : TRUE
        BY <1>3, <3>2
      <4>2. requested # 0 => Cardinality(R) < requested
        BY <1>2, <1>5, <4>1 DEF Line
      <4> QED
        BY <1>1, <2>3, <4>2
    <3> QED
      BY <3>1, <3>2
  <2>5. ASSUME NEW id \in P
        PROVE  /\ receipts[id].index = Cardinality(R) % Len(receipts[id].tasks)
               /\ requested # 0 =>
                    receipts[id].submissionsLeft = requested - Cardinality(R)
    <3>1. id \in M \ R
      BY <1>3
    <3>2. receipts[id].tasks = receipts[c].tasks
      BY <1>2, <3>1 DEF Line, SameCycle
    <3> QED
      BY <1>2, <3>1, <3>2 DEF Line
  <2> QED
    BY <2>2, <2>4, <2>5 DEF M, R, P
<1> QED
  BY <1>4, <1>5

\* A cycle runs at most as often as was requested, its only stored receipt
\* says what is left of it, and its tasks come up in turn: for every number of
\* cycles, tasks and repetitions, and executions that nest and fail.
THEOREM CoreCyclesKeepTheirBound ==
    CoreSpec => []CyclesKeepTheirBound
<1>1. CoreInv /\ LinesThroughout => CyclesKeepTheirBound
  BY BoundFollows
<1> QED
  BY CoreLines, <1>1, PTL

LEMMA LinesFollow ==
    ASSUME CoreInv, LinesThroughout PROVE CyclesAreLines
<1> DEFINE Chained == {id \in 1..currentTaskReceiptId : receipts[id].cycleId # 0}
           Successors(r) == {id \in Chained : Follows(receipts[id], r)
                                /\ \A k \in Chained : k \in r.id + 1 .. id - 1 =>
                                        receipts[k].cycleId # r.cycleId}
<1>1. /\ currentTaskReceiptId \in 0..MaxReceipts
      /\ \A id \in Chained : /\ id \in Nat /\ receipts[id].id = id
                             /\ receipts[id].cycleId \in 1..currentTaskReceiptId
  <2>1. currentTaskReceiptId \in 0..MaxReceipts
    BY DEF CoreInv, CoreTypes
  <2>2. ASSUME NEW id \in Chained
        PROVE  id \in Nat /\ receipts[id].id = id /\ receipts[id].cycleId \in 1..currentTaskReceiptId
    <3>1. WellFormed(receipts[id], id)
      BY NumberedStates, SnapshotFields DEF Numbered
    <3> QED
      BY <2>1, <3>1 DEF WellFormed, TaskReceipt
  <2> QED
    BY <2>1, <2>2
<1>2. ASSUME NEW id \in Chained
      PROVE  LET c == receipts[id].cycleId
                 M == {j \in Chained : receipts[j].cycleId = c}
             IN  /\ id \in M
                 /\ Line(M, {j \in M : Rewarded(j)}, receipts, c)
  <2> DEFINE c == receipts[id].cycleId
             M == {j \in Chained : receipts[j].cycleId = c}
  <2>1. CycleOf(Snapshot, c) = M /\ id \in M
    BY <1>1, PresentCycle
  <2>2. CycleRuns(Snapshot, c) = {j \in M : Rewarded(j)}
    BY <2>1, PresentCycle
  <2>3. c \in 1..currentTaskReceiptId
    BY <1>1
  <2> HIDE DEF M, Chained, c
  <2>4. Line(CycleOf(Snapshot, c), CycleRuns(Snapshot, c), receipts, c)
    BY <2>1, <2>3, SnapshotFields DEF LinesThroughout, Lines
  <2> QED
    BY <2>1, <2>2, <2>4 DEF M, c
<1>3. ASSUME NEW id \in Chained, Rewarded(id), receipts[id].submissionsLeft # 1
      PROVE  Cardinality(Successors(receipts[id])) = 1
  <2> DEFINE c == receipts[id].cycleId
             M == {j \in Chained : receipts[j].cycleId = c}
  <2>1. id \in M /\ Line(M, {j \in M : Rewarded(j)}, receipts, c)
    BY <1>2
  <2>2. PICK k \in M : /\ id < k /\ Follows(receipts[k], receipts[id])
                       /\ \A j \in M : j <= id \/ k <= j
    BY <1>3, <2>1 DEF Line
  <2>3. k \in Successors(receipts[id])
    <3>1. ASSUME NEW j \in Chained, j \in id + 1 .. k - 1, receipts[j].cycleId = c
          PROVE  FALSE
      BY <1>1, <2>2, <3>1
    <3> QED
      BY <1>1, <2>2, <3>1
  <2>4. ASSUME NEW m \in Successors(receipts[id]) PROVE m = k
    <3>1. m \in M /\ id < m
      BY <1>1 DEF Follows
    <3>2. k <= m
      BY <1>1, <2>2, <3>1
    <3>3. ~ (k \in id + 1 .. m - 1)
      BY <1>1, <2>2
    <3> QED
      BY <1>1, <2>2, <3>1, <3>2, <3>3
  <2>5. Successors(receipts[id]) = {k}
    BY <2>3, <2>4
  <2> HIDE DEF Successors
  <2> QED
    BY <2>5, FS_Singleton
<1>4. ASSUME NEW id \in Chained, receipts[id].cycleId # id
      PROVE  \E k \in Chained : Rewarded(k) /\ id \in Successors(receipts[k])
  <2> DEFINE c == receipts[id].cycleId
             M == {j \in Chained : receipts[j].cycleId = c}
  <2>1. id \in M /\ Line(M, {j \in M : Rewarded(j)}, receipts, c)
    BY <1>2
  <2>2. PICK k \in M : /\ k < id /\ Follows(receipts[id], receipts[k])
                       /\ \A j \in M : j <= k \/ id <= j
    BY <1>4, <2>1 DEF Line
  <2>3. Rewarded(k)
    BY <2>1, <2>2 DEF Line
  <2>4. ASSUME NEW j \in Chained, j \in k + 1 .. id - 1, receipts[j].cycleId = c
        PROVE  FALSE
    BY <1>1, <2>2, <2>4
  <2>5. id \in Successors(receipts[k])
    BY <1>1, <2>2, <2>4
  <2> QED
    BY <2>2, <2>3, <2>5
<1> HIDE DEF Chained, Successors
<1>5. \A id \in Chained :
            /\ Rewarded(id) /\ receipts[id].submissionsLeft # 1 =>
                    Cardinality(Successors(receipts[id])) = 1
            /\ receipts[id].cycleId # id =>
                    \E k \in Chained : Rewarded(k) /\ id \in Successors(receipts[k])
  BY <1>3, <1>4
<1> QED
  BY <1>5 DEF CyclesAreLines, Chained, Successors

\* A cycle or chain never forks and never skips: a rewarded receipt that is not
\* the last has one successor, a receipt that opens no cycle one predecessor.
THEOREM CoreCyclesAreLines ==
    CoreSpec => []CyclesAreLines
<1>1. CoreInv /\ LinesThroughout => CyclesAreLines
  BY LinesFollow
<1> QED
  BY CoreLines, <1>1, PTL

-----------------------------------------------------------------------------
(* The refinement.  A state between transactions has no receipt taken, so   *)
(* the newest receipt of a cycle is stored, or has run, or was stopped.     *)

Settled(s) ==
    /\ s \in Snapshots /\ Lines(s)
    /\ Accounted(s.currentTaskReceiptId, s.taskReceiptHash, s.receipts,
                 s.outcomes, {})

OpenOf(s, c) == {id \in CycleOf(s, c) : s.taskReceiptHash[id] # NoReceipt}
Stops(s, c) == EndedWith(s, c, {"cancelled", "refunded", "annulled"})

StatusOf(s, c) ==
    IF CycleOf(s, c) = {} THEN "absent"
    ELSE IF OpenOf(s, c) # {} THEN "open" ELSE "closed"
RequestedOf(s, c) ==
    IF CycleOf(s, c) = {} THEN 0 ELSE s.receipts[c].submissionsLeft
RunsOf(s, c) == Cardinality(CycleRuns(s, c))
StopsOf(s, c) == Cardinality(Stops(s, c))

LEMMA RunsAreRewards ==
    ASSUME NEW s, NEW c PROVE EndedWith(s, c, {"rewarded"}) = CycleRuns(s, c)
  BY DEF EndedWith, CycleRuns

LEMMA OneElement ==
    ASSUME NEW S, NEW v \in Seq(S), Len(v) = 1
    PROVE  v # <<>> /\ \E e \in S : v = <<e>>
<1>1. v[1] \in S
  OBVIOUS
<1>2. v = <<v[1]>>
  OBVIOUS
<1>3. v # <<>>
  BY <1>2
<1> QED
  BY <1>1, <1>2, <1>3

\* Where a receipt of a settled cycle is.
LEMMA SettledReceipt ==
    ASSUME NEW s, Settled(s), NEW id \in 1..s.currentTaskReceiptId
    PROVE  /\ id \in Ids /\ WellFormed(s.receipts[id], id)
           /\ s.taskReceiptHash[id] # NoReceipt <=> s.outcomes[id] = <<>>
           /\ s.taskReceiptHash[id] = NoReceipt =>
                /\ Len(s.outcomes[id]) = 1
                /\ \E e \in Events : s.outcomes[id] = <<e>>
<1>1. s.currentTaskReceiptId \in 0..MaxReceipts /\ s.outcomes \in [Ids -> Seq(Events)]
  BY DEF Settled, Snapshots
<1>2. id \in Ids /\ id <= s.currentTaskReceiptId
  BY <1>1, CoreAssumption DEF Ids
<1>3. /\ WellFormed(s.receipts[id], id)
      /\ \/ s.taskReceiptHash[id] = s.receipts[id] /\ s.outcomes[id] = <<>>
         \/ s.taskReceiptHash[id] = NoReceipt /\ Len(s.outcomes[id]) = 1
  BY <1>2 DEF Settled, Accounted, Placed
<1>4. s.receipts[id] # NoReceipt
  BY <1>3, CoreAssumption DEF WellFormed
<1>5. ASSUME NEW v \in Seq(Events), Len(v) = 1
      PROVE  v # <<>> /\ \E e \in Events : v = <<e>>
  BY <1>5, OneElement
<1>6. s.outcomes[id] \in Seq(Events) /\ Len(<<>>) = 0
  BY <1>1, <1>2
<1> QED
  BY <1>2, <1>3, <1>4, <1>5, <1>6

LEMMA SettledCycle ==
    ASSUME NEW s, Settled(s), NEW c \in Ids
    PROVE  /\ RunsOf(s, c) \in Nat /\ IsFiniteSet(CycleRuns(s, c))
           /\ CycleOf(s, c) = {} => RunsOf(s, c) = 0 /\ StopsOf(s, c) = 0
           /\ CycleOf(s, c) # {} =>
                /\ RequestedOf(s, c) \in Nat
                /\ RequestedOf(s, c) # 0 => RunsOf(s, c) <= RequestedOf(s, c)
                /\ OpenOf(s, c) # {} =>
                    /\ StopsOf(s, c) = 0
                    /\ RequestedOf(s, c) # 0 => RunsOf(s, c) < RequestedOf(s, c)
                /\ OpenOf(s, c) = {} =>
                    \/ /\ StopsOf(s, c) = 1 /\ CycleRuns(s, c) # CycleOf(s, c)
                       /\ RequestedOf(s, c) # 0 => RunsOf(s, c) < RequestedOf(s, c)
                    \/ /\ StopsOf(s, c) = 0 /\ CycleRuns(s, c) = CycleOf(s, c)
                       /\ RequestedOf(s, c) # 0 /\ RunsOf(s, c) = RequestedOf(s, c)
<1> DEFINE M == CycleOf(s, c)
           R == CycleRuns(s, c)
           C == Stops(s, c)
           O == OpenOf(s, c)
           requested == s.receipts[c].submissionsLeft
<1>1. \A id \in M : id \in 1..s.currentTaskReceiptId
  BY DEF CycleOf
<1>2. s \in Snapshots /\ s.currentTaskReceiptId \in Nat
  BY CycleMembers DEF Settled
<1>3. /\ R \subseteq M /\ C \subseteq M /\ O \subseteq M
      /\ \A id \in M : /\ id \in O \/ id \in R \/ id \in C
                       /\ id \in O => id \notin R /\ id \notin C
                       /\ id \in R => id \notin C
  <2>1. R \subseteq M /\ C \subseteq M /\ O \subseteq M
    BY DEF CycleRuns, Stops, EndedWith, OpenOf
  <2>2. /\ \A d, e : <<d>> = <<e>> => d = e
        /\ \A e : <<e>> # <<>>
    OBVIOUS
  <2>3. ASSUME NEW id \in M
        PROVE  /\ id \in O <=> s.outcomes[id] = <<>>
               /\ id \in R <=> s.outcomes[id] = <<"rewarded">>
               /\ id \in C <=> \E e \in {"cancelled", "refunded", "annulled"} :
                                    s.outcomes[id] = <<e>>
               /\ s.outcomes[id] = <<>> \/ \E e \in Events : s.outcomes[id] = <<e>>
    <3>1. /\ s.taskReceiptHash[id] # NoReceipt <=> s.outcomes[id] = <<>>
          /\ s.taskReceiptHash[id] = NoReceipt => \E e \in Events : s.outcomes[id] = <<e>>
      BY <1>1, SettledReceipt
    <3>2. id \in O <=> s.outcomes[id] = <<>>
      BY <3>1 DEF OpenOf
    <3>3. id \in R <=> s.outcomes[id] = <<"rewarded">>
      BY DEF CycleRuns
    <3>4. id \in C <=> \E e \in {"cancelled", "refunded", "annulled"} :
                                    s.outcomes[id] = <<e>>
      BY DEF Stops, EndedWith
    <3> QED
      BY <3>1, <3>2, <3>3, <3>4
  <2> HIDE DEF M, R, C, O
  <2>4. ASSUME NEW id \in M
        PROVE  /\ id \in O \/ id \in R \/ id \in C
               /\ id \in O => id \notin R /\ id \notin C
               /\ id \in R => id \notin C
    <3>1. CASE s.outcomes[id] = <<>>
      BY <2>2, <2>3, <3>1
    <3>2. ASSUME NEW e \in Events, s.outcomes[id] = <<e>>
          PROVE  /\ id \in O \/ id \in R \/ id \in C
                 /\ id \in O => id \notin R /\ id \notin C
                 /\ id \in R => id \notin C
      <4>1. /\ id \notin O
            /\ id \in R <=> e = "rewarded"
            /\ id \in C <=> e \in {"cancelled", "refunded", "annulled"}
        BY <2>2, <2>3, <3>2
      <4> QED
        BY <4>1 DEF Events
    <3> QED
      BY <2>3, <3>1, <3>2
  <2> QED
    BY <2>1, <2>4
<1>4. M # {} => Line(M, R, s.receipts, c)
  <2>1. \A id \in M : s.receipts[id].cycleId = c /\ WellFormed(s.receipts[id], id)
    BY <1>1, SettledReceipt DEF CycleOf
  <2>2. \A id \in M : c <= id /\ id <= s.currentTaskReceiptId /\ id \in Nat
    BY <1>1, <1>2, <2>1 DEF WellFormed
  <2>3. M # {} => c \in 1..s.currentTaskReceiptId
    BY <1>2, <2>2, CoreAssumption DEF Ids
  <2> QED
    BY <2>3 DEF Settled, Lines
<1> HIDE DEF M, R, C, O
<1>5. CASE M = {}
  <2>1. R = {} /\ C = {} /\ IsFiniteSet({}) /\ Cardinality({}) = 0
    BY <1>3, <1>5, FS_EmptySet
  <2> QED
    BY <1>5, <2>1 DEF RunsOf, StopsOf, M, R, C
<1>6. CASE M # {}
  <2>1. /\ Line(M, R, s.receipts, c) /\ requested \in Nat
        /\ RequestedOf(s, c) = requested
    BY <1>4, <1>6 DEF Line, SameCycle, TaskReceipt, RequestedOf, M
  <2>2. /\ IsFiniteSet(M) /\ M \subseteq Nat /\ IsFiniteSet(R) /\ Cardinality(R) \in Nat
    BY <1>3, <2>1, FS_Subset, FS_CardinalityType DEF Line
  <2>3. \A x, y \in M : x \notin R /\ y \notin R => x = y
    <3>1. ASSUME NEW x \in M, NEW y \in M, x < y, x \notin R PROVE FALSE
      BY <2>1, <3>1 DEF Line
    <3> QED
      BY <2>2, <3>1
  <2>4. \A id \in M : id \notin R => (requested # 0 => Cardinality(R) < requested)
    BY <2>1 DEF Line
  <2>5. M = R => requested # 0 /\ Cardinality(R) = requested
    BY <2>1 DEF Line
  <2>6. requested # 0 => Cardinality(R) <= requested
    <3>1. CASE M = R
      BY <2>2, <2>5, <3>1
    <3>2. CASE M # R
      <4>1. PICK id \in M : id \notin R
        BY <1>3, <3>2
      <4> QED
        BY <2>1, <2>2, <2>4, <4>1
    <3> QED
      BY <3>1, <3>2
  <2> DEFINE stops == Cardinality(C)
  <2>7. ASSUME NEW id \in O
        PROVE  stops = 0 /\ (requested # 0 => Cardinality(R) < requested)
    <3>1. id \in M /\ id \notin R /\ C = {}
      BY <1>3, <2>3
    <3> QED
      BY <2>4, <3>1, FS_EmptySet
  <2>8. ASSUME O = {}
        PROVE  \/ stops = 1 /\ R # M /\ (requested # 0 => Cardinality(R) < requested)
               \/ stops = 0 /\ R = M /\ requested # 0 /\ Cardinality(R) = requested
    <3>1. CASE M = R
      <4>1. C = {}
        BY <1>3, <3>1
      <4> QED
        BY <2>5, <3>1, <4>1, FS_EmptySet
    <3>2. CASE M # R
      <4>1. PICK id \in M : id \notin R
        BY <1>3, <3>2
      <4>2. C = {id}
        BY <1>3, <2>3, <2>8, <4>1
      <4>3. Cardinality({id}) = 1
        BY FS_Singleton
      <4> QED
        BY <2>4, <3>2, <4>1, <4>2, <4>3
    <3> QED
      BY <3>1, <3>2
  <2>9. RunsOf(s, c) = Cardinality(R) /\ StopsOf(s, c) = stops
    BY DEF RunsOf, StopsOf, R, C
  <2> HIDE DEF stops, requested
  <2>10. /\ M = CycleOf(s, c) /\ R = CycleRuns(s, c) /\ O = OpenOf(s, c)
    BY DEF M, R, O
  <2> QED
    BY <1>6, <2>1, <2>2, <2>6, <2>7, <2>8, <2>9, <2>10
<1> QED
  BY <1>5, <1>6

\* A cycle that is closed stays as it is.
LEMMA ClosedCycleStays ==
    ASSUME NEW s, NEW t, Settled(s), Settled(t), Grows(s, t),
           NEW c \in Ids, CycleOf(s, c) # {}
    PROVE  /\ CycleOf(s, c) \subseteq CycleOf(t, c)
           /\ CycleRuns(s, c) \subseteq CycleRuns(t, c)
           /\ RequestedOf(t, c) = RequestedOf(s, c)
           /\ OpenOf(s, c) = {} =>
                /\ CycleOf(t, c) = CycleOf(s, c) /\ OpenOf(t, c) = {}
                /\ CycleRuns(t, c) = CycleRuns(s, c)
                /\ Stops(t, c) = Stops(s, c)
<1>1. /\ s.currentTaskReceiptId \in Nat /\ t.currentTaskReceiptId \in Nat
      /\ s.currentTaskReceiptId <= t.currentTaskReceiptId
      /\ \A id \in 1..s.currentTaskReceiptId :
            id \in 1..t.currentTaskReceiptId /\ t.receipts[id] = s.receipts[id]
  BY CycleMembers DEF Settled, Grows
<1>2. CycleOf(s, c) \subseteq CycleOf(t, c)
  BY <1>1 DEF CycleOf
<1>3. \A id \in CycleOf(s, c) : id \in 1..s.currentTaskReceiptId
  BY DEF CycleOf
<1>4. ASSUME NEW id \in CycleOf(s, c), s.taskReceiptHash[id] = NoReceipt
      PROVE  t.taskReceiptHash[id] = NoReceipt /\ t.outcomes[id] = s.outcomes[id]
  <2>1. id \in 1..s.currentTaskReceiptId /\ id \in 1..t.currentTaskReceiptId /\ id \in Ids
    BY <1>1, <1>3, TypedHistory DEF Settled
  <2>2. t.taskReceiptHash[id] = NoReceipt /\ Extends(s.outcomes[id], t.outcomes[id])
    BY <1>4, <2>1 DEF Grows
  <2>3. PICK e \in Events : s.outcomes[id] = <<e>>
    BY <1>4, <2>1, SettledReceipt
  <2>4. PICK d \in Events : t.outcomes[id] = <<d>>
    BY <2>1, <2>2, SettledReceipt
  <2>5. <<d>>[1] = <<e>>[1]
    BY <2>2, <2>3, <2>4 DEF Extends
  <2> QED
    BY <2>2, <2>3, <2>4, <2>5
<1>5. CycleRuns(s, c) \subseteq CycleRuns(t, c)
  <2>1. ASSUME NEW id \in CycleRuns(s, c) PROVE id \in CycleRuns(t, c)
    <3>1. id \in CycleOf(s, c) /\ s.outcomes[id] = <<"rewarded">> /\ <<"rewarded">> # <<>>
      BY DEF CycleRuns
    <3>2. s.taskReceiptHash[id] = NoReceipt
      BY <1>3, <3>1, SettledReceipt
    <3> QED
      BY <1>2, <1>4, <3>1, <3>2 DEF CycleRuns
  <2> QED
    BY <2>1
<1>6. RequestedOf(t, c) = RequestedOf(s, c)
  <2>1. \A id \in CycleOf(s, c) : WellFormed(s.receipts[id], id) /\ s.receipts[id].cycleId = c
    BY <1>3, SettledReceipt DEF CycleOf
  <2>2. c \in 1..s.currentTaskReceiptId
    BY <1>1, <1>3, <2>1, CoreAssumption DEF WellFormed, Ids
  <2> QED
    BY <1>1, <1>2, <2>2 DEF RequestedOf
<1>7. ASSUME OpenOf(s, c) = {}
      PROVE  /\ CycleOf(t, c) = CycleOf(s, c) /\ OpenOf(t, c) = {}
             /\ CycleRuns(t, c) = CycleRuns(s, c)
             /\ Stops(t, c) = Stops(s, c)
  <2>1. \A id \in CycleOf(s, c) : /\ t.taskReceiptHash[id] = NoReceipt
                                  /\ t.outcomes[id] = s.outcomes[id]
    BY <1>4, <1>7 DEF OpenOf
  <2>2. ASSUME NEW id \in CycleOf(t, c), id \notin CycleOf(s, c) PROVE FALSE
    <3> DEFINE M == CycleOf(t, c)
               R == CycleRuns(t, c)
    <3>1. id \in 1..t.currentTaskReceiptId /\ ~ (id <= s.currentTaskReceiptId)
      BY <1>1, <2>2 DEF CycleOf
    <3>2. c \in 1..t.currentTaskReceiptId
      <4>1. WellFormed(t.receipts[id], id) /\ t.receipts[id].cycleId = c
        BY <2>2, <3>1, SettledReceipt DEF CycleOf
      <4> QED
        BY <1>1, <3>1, <4>1, CoreAssumption DEF WellFormed, Ids
    <3>3. Line(M, R, t.receipts, c)
      BY <2>2, <3>2 DEF Settled, Lines
    <3>4. \A j \in CycleOf(s, c) : j \in R
      <4>1. TAKE j \in CycleOf(s, c)
      <4>2. j < id /\ j \in M
        BY <1>1, <1>2, <1>3, <3>1
      <4> HIDE DEF M, R
      <4> QED
        BY <2>2, <3>3, <4>2 DEF Line, M
    <3>5. CycleRuns(s, c) = CycleOf(s, c)
      <4>1. CycleRuns(s, c) \subseteq CycleOf(s, c)
        BY DEF CycleRuns
      <4>2. \A j \in CycleOf(s, c) : s.outcomes[j] = <<"rewarded">>
        BY <2>1, <3>4 DEF CycleRuns
      <4> QED
        BY <4>1, <4>2 DEF CycleRuns
    <3>6. RequestedOf(s, c) # 0 /\ RunsOf(s, c) = RequestedOf(s, c)
      BY <1>7, <3>5, SettledCycle
    <3>7. /\ RunsOf(t, c) <= RequestedOf(t, c)
          /\ OpenOf(t, c) # {} \/ R # M => RunsOf(t, c) < RequestedOf(t, c)
      BY <1>6, <2>2, <3>6, SettledCycle
    <3>8. /\ IsFiniteSet(R) /\ CycleRuns(s, c) \subseteq R
          /\ RunsOf(t, c) \in Nat /\ RunsOf(s, c) \in Nat /\ id \notin CycleRuns(s, c)
      BY <1>5, <2>2, <3>5, SettledCycle
    <3>9. /\ RunsOf(s, c) <= RunsOf(t, c)
          /\ RunsOf(s, c) = RunsOf(t, c) => CycleRuns(s, c) = R
      BY <3>8, FS_Subset DEF RunsOf
    <3>10. R = M
      BY <1>6, <3>6, <3>7, <3>8, <3>9
    <3> QED
      BY <1>6, <2>2, <3>6, <3>7, <3>8, <3>9, <3>10
  <2>3. CycleOf(t, c) = CycleOf(s, c)
    BY <1>2, <2>2
  <2> QED
    BY <2>1, <2>3 DEF OpenOf, CycleRuns, Stops, EndedWith
<1> QED
  BY <1>2, <1>5, <1>6, <1>7

\* What one transaction does to one cycle.
LEMMA CycleTransaction ==
    ASSUME NEW s, NEW t, Settled(s), Settled(t), Grows(s, t),
           NEW c \in Ids
    PROVE  \/ /\ StatusOf(t, c) = StatusOf(s, c) /\ RequestedOf(t, c) = RequestedOf(s, c)
              /\ RunsOf(t, c) = RunsOf(s, c) /\ StopsOf(t, c) = StopsOf(s, c)
           \/ /\ <<StatusOf(s, c), StatusOf(t, c)>> \in
                    {<<"absent", "open">>, <<"absent", "closed">>,
                     <<"open", "open">>, <<"open", "closed">>}
              /\ StatusOf(s, c) = "open" => RequestedOf(t, c) = RequestedOf(s, c)
              /\ RunsOf(t, c) >= RunsOf(s, c)
              /\ RequestedOf(t, c) # 0 => RunsOf(t, c) <= RequestedOf(t, c)
              /\ StopsOf(s, c) = 0 /\ StopsOf(t, c) \in {0, 1}
              /\ StatusOf(t, c) = "closed" <=>
                    \/ StopsOf(t, c) = 1
                    \/ RequestedOf(t, c) # 0 /\ RunsOf(t, c) = RequestedOf(t, c)
<1>1. /\ RunsOf(s, c) \in Nat /\ RunsOf(t, c) \in Nat
      /\ IsFiniteSet(CycleRuns(t, c))
      /\ CycleOf(s, c) = {} => RunsOf(s, c) = 0 /\ StopsOf(s, c) = 0
      /\ CycleOf(t, c) = {} => RunsOf(t, c) = 0 /\ StopsOf(t, c) = 0
  BY SettledCycle
\* A cycle that is there after the transaction.
<1>2. ASSUME CycleOf(t, c) # {}
      PROVE  /\ StatusOf(t, c) \in {"open", "closed"}
             /\ RequestedOf(t, c) # 0 => RunsOf(t, c) <= RequestedOf(t, c)
             /\ StopsOf(t, c) \in {0, 1}
             /\ StatusOf(t, c) = "closed" <=>
                    \/ StopsOf(t, c) = 1
                    \/ RequestedOf(t, c) # 0 /\ RunsOf(t, c) = RequestedOf(t, c)
  <2>1. RequestedOf(t, c) \in Nat
    BY <1>2, SettledCycle
  <2>2. RequestedOf(t, c) # 0 => RunsOf(t, c) <= RequestedOf(t, c)
    BY <1>2, SettledCycle
  <2>3. CASE OpenOf(t, c) # {}
    <3>1. /\ StopsOf(t, c) = 0
          /\ RequestedOf(t, c) # 0 => RunsOf(t, c) < RequestedOf(t, c)
      BY <1>2, <2>3, SettledCycle
    <3>2. StatusOf(t, c) = "open"
      BY <1>2, <2>3 DEF StatusOf
    <3> QED
      BY <1>1, <2>1, <2>2, <3>1, <3>2
  <2>4. CASE OpenOf(t, c) = {}
    <3>1. \/ StopsOf(t, c) = 1
          \/ /\ StopsOf(t, c) = 0
             /\ RequestedOf(t, c) # 0 /\ RunsOf(t, c) = RequestedOf(t, c)
      BY <1>2, <2>4, SettledCycle
    <3>2. StatusOf(t, c) = "closed"
      BY <1>2, <2>4 DEF StatusOf
    <3> QED
      BY <2>2, <3>1, <3>2
  <2> QED
    BY <2>3, <2>4
<1>3. CASE CycleOf(s, c) = {}
  <2>1. StatusOf(s, c) = "absent" /\ RequestedOf(s, c) = 0
    BY <1>3 DEF StatusOf, RequestedOf
  <2>2. CASE CycleOf(t, c) = {}
    <3>1. StatusOf(t, c) = "absent" /\ RequestedOf(t, c) = 0
      BY <2>2 DEF StatusOf, RequestedOf
    <3> QED
      BY <1>1, <1>3, <2>1, <2>2, <3>1
  <2>3. CASE CycleOf(t, c) # {}
    <3>1. RunsOf(t, c) >= RunsOf(s, c) /\ StopsOf(s, c) = 0
      BY <1>1, <1>3
    <3> QED
      BY <1>2, <2>1, <2>3, <3>1
  <2> QED
    BY <2>2, <2>3
<1>4. CASE CycleOf(s, c) # {} /\ OpenOf(s, c) # {}
  <2>1. CycleOf(t, c) # {} /\ CycleRuns(s, c) \subseteq CycleRuns(t, c)
        /\ RequestedOf(t, c) = RequestedOf(s, c)
    BY <1>4, ClosedCycleStays
  <2>2. RunsOf(t, c) >= RunsOf(s, c)
    BY <1>1, <2>1, FS_Subset DEF RunsOf
  <2>3. StatusOf(s, c) = "open" /\ StopsOf(s, c) = 0
    BY <1>4, SettledCycle DEF StatusOf
  <2> QED
    BY <1>2, <2>1, <2>2, <2>3
<1>5. CASE CycleOf(s, c) # {} /\ OpenOf(s, c) = {}
  <2>1. /\ CycleOf(t, c) = CycleOf(s, c) /\ OpenOf(t, c) = {}
        /\ CycleRuns(t, c) = CycleRuns(s, c)
        /\ Stops(t, c) = Stops(s, c)
        /\ RequestedOf(t, c) = RequestedOf(s, c)
    BY <1>5, ClosedCycleStays
  <2> QED
    BY <1>5, <2>1 DEF StatusOf, RunsOf, StopsOf
<1> QED
  BY <1>3, <1>4, <1>5

LEMMA CommittedIsSettled ==
    ASSUME CoreInv, LinesThroughout PROVE Settled(Committed)
<1>1. CASE calls = <<>>
  <2>1. Taken(calls, Len(calls)) = {} /\ Committed = Snapshot
    BY <1>1 DEF Taken, Committed
  <2> QED
    BY <2>1, SnapshotIsTyped, SnapshotFields DEF CoreInv, LinesThroughout, Settled
<1>2. CASE calls # <<>>
  <2>1. calls \in Seq(Calls) /\ 1 \in 1..Len(calls) /\ calls[1].saved \in Snapshots
    <3>1. calls \in Seq(Calls) /\ 1 \in 1..Len(calls)
      BY <1>2, EmptySeq DEF CoreInv, CoreTypes
    <3> QED
      BY <3>1, NumberedStates
  <2>2. Taken(calls, 1 - 1) = {}
    BY DEF Taken
  <2>3. FrameOK(calls, 1) /\ Lines(calls[1].saved)
    BY <2>1 DEF CoreInv, LinesThroughout
  <2>4. Committed = calls[1].saved
    BY <1>2 DEF Committed
  <2> QED
    BY <2>1, <2>2, <2>3, <2>4 DEF FrameOK, Settled
<1> QED
  BY <1>1, <1>2

\* The variables of TaskCycle, as CycleView gives them.
LEMMA ViewIs ==
    ASSUME NEW c
    PROVE  /\ CycleStatus(c) = StatusOf(Committed, c)
           /\ (IF CycleOf(Committed, c) = {} THEN 0
               ELSE Committed.receipts[c].submissionsLeft) = RequestedOf(Committed, c)
           /\ Cardinality(EndedWith(Committed, c, {"rewarded"})) = RunsOf(Committed, c)
           /\ Cardinality(EndedWith(Committed, c, {"cancelled", "refunded", "annulled"}))
                = StopsOf(Committed, c)
  BY RunsAreRewards DEF CycleStatus, StatusOf, OpenOf, RequestedOf, RunsOf, StopsOf, Stops

LEMMA RefinementInit ==
    ASSUME CoreInit PROVE \A c \in Ids : CycleView(c)!Init
<1> SUFFICES ASSUME NEW c \in Ids PROVE CycleView(c)!Init
  OBVIOUS
<1>1. CycleOf(Committed, c) = {}
  BY DEF CoreInit, CycleOf, Committed, Snapshot
<1>2. \A e : Cardinality(EndedWith(Committed, c, e)) = 0
  BY <1>1, FS_EmptySet DEF EndedWith
<1> QED
  BY <1>1, <1>2 DEF CycleView!Init, CycleStatus

LEMMA RefinementStep ==
    ASSUME CoreInv, Ordered, LinesThroughout,
           Settled(Committed)', [CoreNext]_coreVars
    PROVE  \A c \in Ids : [CycleView(c)!Transaction]_(CycleView(c)!cycleVars)
<1> SUFFICES ASSUME NEW c \in Ids
             PROVE  [CycleView(c)!Transaction]_(CycleView(c)!cycleVars)
  OBVIOUS
<1> DEFINE s == Committed
           t == Committed'
<1>1. Settled(s) /\ Settled(t) /\ Grows(s, t)
  <2>1. Settled(Committed') <=> Settled(Committed)'
    OBVIOUS
  <2> QED
    BY <2>1, CommittedIsSettled, CommitsGrow
<1>2. /\ CycleStatus(c) = StatusOf(s, c)
      /\ (IF CycleOf(Committed, c) = {} THEN 0
          ELSE Committed.receipts[c].submissionsLeft) = RequestedOf(s, c)
      /\ Cardinality(EndedWith(Committed, c, {"rewarded"})) = RunsOf(s, c)
      /\ Cardinality(EndedWith(Committed, c, {"cancelled", "refunded", "annulled"}))
            = StopsOf(s, c)
  BY ViewIs
<1>3. /\ CycleStatus(c)' = StatusOf(t, c)
      /\ (IF CycleOf(Committed, c) = {} THEN 0
          ELSE Committed.receipts[c].submissionsLeft)' = RequestedOf(t, c)
      /\ Cardinality(EndedWith(Committed, c, {"rewarded"}))' = RunsOf(t, c)
      /\ Cardinality(EndedWith(Committed, c, {"cancelled", "refunded", "annulled"}))'
            = StopsOf(t, c)
  <2>1. EndedWith(Committed', c, {"rewarded"}) = CycleRuns(Committed', c)
    BY RunsAreRewards
  <2> QED
    BY <2>1 DEF CycleStatus, StatusOf, OpenOf, RequestedOf, RunsOf, StopsOf, Stops,
                EndedWith
<1> HIDE DEF s, t
<1>4. \/ /\ StatusOf(t, c) = StatusOf(s, c) /\ RequestedOf(t, c) = RequestedOf(s, c)
         /\ RunsOf(t, c) = RunsOf(s, c) /\ StopsOf(t, c) = StopsOf(s, c)
      \/ /\ <<StatusOf(s, c), StatusOf(t, c)>> \in
               {<<"absent", "open">>, <<"absent", "closed">>,
                <<"open", "open">>, <<"open", "closed">>}
         /\ StatusOf(s, c) = "open" => RequestedOf(t, c) = RequestedOf(s, c)
         /\ RunsOf(t, c) >= RunsOf(s, c)
         /\ RequestedOf(t, c) # 0 => RunsOf(t, c) <= RequestedOf(t, c)
         /\ StopsOf(s, c) = 0 /\ StopsOf(t, c) \in {0, 1}
         /\ StatusOf(t, c) = "closed" <=>
               \/ StopsOf(t, c) = 1
               \/ RequestedOf(t, c) # 0 /\ RunsOf(t, c) = RequestedOf(t, c)
  BY <1>1, CycleTransaction
<1> QED
  BY <1>2, <1>3, <1>4 DEF CycleView!Transaction, CycleView!cycleVars

\* Every cycle and chain behaves as TaskCycle promises: it is opened once, runs
\* at most as often as requested, and ends by its last run or by one stop.
THEOREM CoreCyclesImplementTaskCycle ==
    CoreSpec => CyclesImplementTaskCycle
<1>1. CoreInit => \A c \in Ids : CycleView(c)!Init
  BY RefinementInit
<1>2. CoreInv /\ LinesThroughout => Settled(Committed)
  BY CommittedIsSettled
<1>3. CoreInv /\ Ordered /\ LinesThroughout /\ Settled(Committed)' /\ [CoreNext]_coreVars
        => [\A c \in Ids : [CycleView(c)!Transaction]_(CycleView(c)!cycleVars)]_coreVars
  BY RefinementStep
<1> QED
  BY CoreLines, <1>1, <1>2, <1>3, PTL DEF CoreSpec, CyclesImplementTaskCycle
=============================================================================
