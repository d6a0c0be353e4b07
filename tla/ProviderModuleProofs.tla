------------------------- MODULE ProviderModuleProofs -------------------------
(***************************************************************************)
(* Proofs about the modules of providers: the set that lists them, for any *)
(* elements; and, for tasks of any length and any formats of data, that    *)
(* the pipeline delivers what isValid accepts, and that an execution that  *)
(* is rewarded has run every action.                                       *)
(***************************************************************************)
EXTENDS ProviderModules, ProviderModuleSet, SequenceTheorems, WellFoundedInduction, TLAPS

-----------------------------------------------------------------------------
(* The library is a set, for any set of elements. *)

Members == {m \in Elements : contains(m)}

\* The positions are those of an array without repetitions.
LEMMA InitIsIndexed == SetInit => IndexIsPosition
  BY DEF SetInit, IndexIsPosition, contains

LEMMA AddKeepsIndex ==
    ASSUME IndexIsPosition, NEW m \in Elements, add(m)
    PROVE  IndexIsPosition' /\ Members' = Members \cup {m}
<1> DEFINE n == Len(modules)
<1>1. /\ n \in Nat /\ modules \in Seq(Elements) /\ index \in [Elements -> 0..n]
      /\ modules' = Append(modules, m) /\ index' = [index EXCEPT ![m] = n + 1]
      /\ index[m] = 0
  BY DEF IndexIsPosition, add, contains
<1>2. /\ modules' \in Seq(Elements) /\ Len(modules') = n + 1 /\ modules'[n + 1] = m
      /\ \A i \in 1..n : modules'[i] = modules[i]
  BY <1>1
<1>3. index' \in [Elements -> 0..Len(modules')]
  BY <1>1, <1>2
<1>4. ASSUME NEW i \in 1..Len(modules') PROVE index'[modules'[i]] = i
  <2>1. CASE i = n + 1
    BY <1>1, <1>2, <2>1
  <2>2. CASE i \in 1..n
    <3>1. modules[i] \in Elements /\ index[modules[i]] = i /\ modules[i] # m
      BY <1>1, <2>2 DEF IndexIsPosition
    <3> QED
      BY <1>1, <1>2, <2>2, <3>1
  <2> QED
    BY <1>1, <1>2, <2>1, <2>2
<1>5. ASSUME NEW e \in Elements, index'[e] # 0 PROVE modules'[index'[e]] = e
  <2>1. CASE e = m
    BY <1>1, <1>2, <2>1
  <2>2. CASE e # m
    <3>1. index'[e] = index[e] /\ index[e] \in 1..n
      BY <1>1, <1>5, <2>2
    <3>2. modules[index[e]] = e
      BY <1>5, <3>1 DEF IndexIsPosition, contains
    <3> QED
      BY <1>2, <3>1, <3>2
  <2> QED
    BY <2>1, <2>2
<1>6. \A e \in Elements : index'[e] # 0 <=> (e = m \/ index[e] # 0)
  BY <1>1
<1> QED
  BY <1>2, <1>3, <1>4, <1>5, <1>6 DEF IndexIsPosition, Members, contains

LEMMA RemoveKeepsIndex ==
    ASSUME IndexIsPosition, NEW m \in Elements, remove(m)
    PROVE  IndexIsPosition' /\ Members' = Members \ {m}
<1> DEFINE n == Len(modules)
           k == index[m]
           last == modules[n]
           moved == [modules EXCEPT ![k] = last]
<1>1. /\ n \in Nat /\ modules \in Seq(Elements) /\ index \in [Elements -> 0..n]
      /\ modules' = SubSeq(moved, 1, n - 1)
      /\ index' = [index EXCEPT ![last] = k, ![m] = 0]
      /\ k # 0
  BY DEF IndexIsPosition, remove, contains
<1>2. k \in 1..n /\ n \in Nat \ {0} /\ last \in Elements /\ modules[k] = m
  BY <1>1 DEF IndexIsPosition, contains
<1>3. /\ moved \in Seq(Elements) /\ Len(moved) = n
      /\ moved[k] = last /\ \A i \in 1..n : i # k => moved[i] = modules[i]
  BY <1>1, <1>2
<1>4. index[last] = n
  BY <1>1, <1>2 DEF IndexIsPosition
<1> HIDE DEF n, k, last, moved
<1>5. /\ modules' \in Seq(Elements) /\ Len(modules') = n - 1
      /\ \A i \in 1..(n - 1) : modules'[i] = moved[i]
  <2>1. PICK p \in Nat : p = n - 1
    BY <1>2
  <2>2. \A i \in 1..p : moved[i] \in Elements
    BY <1>2, <1>3, <2>1
  <2>3. Len(SubSeq(moved, 1, p)) = IF 1 <= p THEN p - 1 + 1 ELSE 0
    BY <2>1, <2>2, SubSeqProperties
  <2>4. /\ SubSeq(moved, 1, p) \in Seq(Elements)
        /\ \A i \in 1..p : SubSeq(moved, 1, p)[i] = moved[i]
    BY <2>1, <2>2
  <2> QED
    BY <1>1, <2>1, <2>3, <2>4
<1>6. index'[m] = 0 /\ (last # m => index'[last] = k)
  BY <1>1, <1>2
<1>7. \A e \in Elements : e # m /\ e # last => index'[e] = index[e]
  BY <1>1
<1>8. index' \in [Elements -> 0..Len(modules')]
  <2>1. ASSUME NEW e \in Elements PROVE index'[e] \in 0..(n - 1)
    <3>1. CASE e = m
      BY <1>2, <1>6, <3>1
    <3>2. CASE e # m /\ e = last
      <4>1. k # n
        BY <1>2, <3>2 DEF last
      <4> QED
        BY <1>2, <1>6, <3>2, <4>1
    <3>3. CASE e # m /\ e # last
      <4>1. index[e] \in 0..n /\ (index[e] # 0 => modules[index[e]] = e)
        BY <1>1 DEF IndexIsPosition, contains
      <4>2. index[e] # n
        BY <1>2, <3>3, <4>1 DEF last
      <4> QED
        BY <1>2, <1>7, <3>3, <4>1, <4>2
    <3> QED
      BY <3>1, <3>2, <3>3
  <2> QED
    BY <1>1, <1>5, <2>1
<1>9. ASSUME NEW i \in 1..Len(modules') PROVE index'[modules'[i]] = i
  <2>1. i \in 1..(n - 1) /\ i \in 1..n /\ modules'[i] = moved[i]
    BY <1>2, <1>5
  <2>2. CASE i = k
    <3>1. last # m
      BY <1>2, <1>4, <2>1, <2>2 DEF k
    <3> QED
      BY <1>3, <1>6, <2>1, <2>2, <3>1
  <2>3. CASE i # k
    <3>1. modules'[i] = modules[i] /\ modules[i] \in Elements /\ index[modules[i]] = i
      BY <1>1, <1>3, <2>1, <2>3 DEF IndexIsPosition, n
    <3>2. modules[i] # m /\ modules[i] # last
      BY <1>2, <1>4, <2>1, <2>3, <3>1 DEF k
    <3> QED
      BY <1>7, <3>1, <3>2
  <2> QED
    BY <2>2, <2>3
<1>10. ASSUME NEW e \in Elements, index'[e] # 0 PROVE modules'[index'[e]] = e
  <2>1. e # m
    BY <1>6, <1>10
  <2>2. index'[e] \in 1..(n - 1)
    BY <1>2, <1>5, <1>8, <1>10
  <2>3. CASE e = last
    BY <1>2, <1>3, <1>5, <1>6, <2>1, <2>2, <2>3
  <2>4. CASE e # last
    <3>1. index'[e] = index[e] /\ modules[index[e]] = e
      BY <1>7, <1>10, <2>1, <2>4 DEF IndexIsPosition, contains
    <3>2. index[e] # k
      BY <1>2, <2>1, <3>1
    <3> QED
      BY <1>2, <1>3, <1>5, <2>2, <3>1, <3>2
  <2> QED
    BY <2>3, <2>4
<1>11. \A e \in Elements : index'[e] # 0 <=> (e # m /\ index[e] # 0)
  <2>1. TAKE e \in Elements
  <2>2. CASE e = m
    BY <1>6, <2>2
  <2>3. CASE e # m /\ e = last
    BY <1>2, <1>4, <1>6, <2>3
  <2>4. CASE e # m /\ e # last
    BY <1>7, <2>4
  <2> QED
    BY <2>2, <2>3, <2>4
<1> QED
  BY <1>5, <1>8, <1>9, <1>10, <1>11 DEF IndexIsPosition, Members, contains

\* The array holds exactly the elements contains() answers for, each at its
\* index, after any sequence of additions and removals.
THEOREM IndexCorrect == ModulesSpec => []IndexIsPosition
<1>1. IndexIsPosition /\ [SetNext]_setVars => IndexIsPosition'
  <2>1. CASE UNCHANGED setVars
    BY <2>1 DEF setVars, IndexIsPosition, contains
  <2> QED
    BY <2>1, AddKeepsIndex, RemoveKeepsIndex DEF SetNext
<1> QED
  BY InitIsIndexed, <1>1, PTL DEF ModulesSpec

\* The array and its index implement a set: swapping and popping is removal.
THEOREM SetImplemented == ModulesSpec => ImplementsSet
<1>1. SetInit => MemberSet!SetInit
  BY DEF SetInit, MemberSet!SetInit, contains
<1>2. IndexIsPosition /\ [SetNext]_setVars => [MemberSet!SetNext]_Members
  <2> SUFFICES ASSUME IndexIsPosition, [SetNext]_setVars
               PROVE  [MemberSet!SetNext]_Members
    OBVIOUS
  <2>1. CASE UNCHANGED setVars
    BY <2>1 DEF setVars, Members, contains
  <2>2. ASSUME NEW m \in Elements, add(m) PROVE MemberSet!AddMember(m)
    BY <2>2, AddKeepsIndex DEF MemberSet!AddMember, Members, add
  <2>3. ASSUME NEW m \in Elements, remove(m) PROVE MemberSet!RemoveMember(m)
    BY <2>3, RemoveKeepsIndex DEF MemberSet!RemoveMember, Members, remove
  <2> QED
    BY <2>1, <2>2, <2>3 DEF SetNext, MemberSet!SetNext
<1> QED
  BY IndexCorrect, <1>1, <1>2, PTL DEF ModulesSpec, ImplementsSet, MemberSet!SetSpec, Members

-----------------------------------------------------------------------------
(* isValid folds Flow over the actions, from the first to the last.  The    *)
(* library's fold is a recursive function of subsets of the positions, of   *)
(* which it takes the greatest element first.                               *)

\* A set of numbers that has 0 and the successor of each element has them all.
LEMMA NumberInduction ==
  ASSUME NEW T \in SUBSET Nat, 0 \in T, \A n \in T : n + 1 \in T
  PROVE  \A n \in Nat : n \in T
<1> DEFINE R == OpToRel(<, Nat)
           U == Nat \ T
<1>1. IsWellFoundedOn(R, Nat)
  BY NatLessThanWellFounded
<1>2. ASSUME U # {} PROVE FALSE
  <2> HIDE DEF R
  <2>1. PICK n \in U : \A m \in U : ~ (<<m, n>> \in R)
    <3>1. U \subseteq Nat
      OBVIOUS
    <3> HIDE DEF U
    <3> QED
      BY <1>1, <1>2, <3>1, WFMin
  <2>2. n - 1 \in U /\ n - 1 \in Nat /\ n \in Nat /\ n - 1 < n
    <3>1. n \in Nat /\ n # 0 /\ n \notin T
      BY <2>1
    <3>2. n - 1 \in Nat /\ n - 1 + 1 = n
      BY <3>1
    <3> QED
      BY <3>1, <3>2
  <2>3. <<n - 1, n>> \in R
    BY <2>2 DEF R, OpToRel
  <2> QED
    BY <2>1, <2>2, <2>3
<1> QED
  BY <1>2

\* A set of positions has a greatest element.
LEMMA MaxIsGreatest ==
  ASSUME NEW n \in Nat, NEW s \in SUBSET (1 .. n), s # {}
  PROVE  Max(s) \in s /\ \A x \in s : x <= Max(s)
<1> DEFINE T == {k \in Nat : \A q \in SUBSET (1 .. k) :
                    q # {} => \E x \in q : \A y \in q : x >= y}
<1>1. 0 \in T
  <2>1. 1 .. 0 = {}
    OBVIOUS
  <2> QED
    BY <2>1
<1>2. ASSUME NEW k \in T PROVE k + 1 \in T
  <2>1. k \in Nat /\ k + 1 \in Nat
    OBVIOUS
  <2>2. ASSUME NEW q \in SUBSET (1 .. k + 1), q # {}
        PROVE  \E x \in q : \A y \in q : x >= y
    <3>1. CASE k + 1 \in q
      BY <2>1, <3>1
    <3>2. CASE k + 1 \notin q
      <4>1. q \in SUBSET (1 .. k)
        BY <2>1, <3>2
      <4> QED
        BY <1>2, <2>2, <4>1
    <3> QED
      BY <3>1, <3>2
  <2> QED
    BY <2>1, <2>2
<1>3. n \in T
  <2> HIDE DEF T
  <2>1. T \in SUBSET Nat
    BY DEF T
  <2> QED
    BY <1>1, <1>2, <2>1, NumberInduction
<1>4. \E x \in s : \A y \in s : x >= y
  BY <1>3
<1>5. Max(s) \in s /\ \A y \in s : Max(s) >= y
  BY <1>4 DEF Max
<1> QED
  BY <1>5

Start == [ok |-> TRUE, type |-> None, stopped |-> FALSE]

FlowEquation(list, g) ==
  g = [s \in SUBSET (DOMAIN list) |-> IF s = {} THEN Start
                                      ELSE Flow(g[s \ {Max(s)}], list[Max(s)])]
FlowsOver(list) == CHOOSE g : FlowEquation(list, g)

LEMMA ValidIsFlow ==
  ASSUME NEW list
  PROVE  isValid(list) = FlowsOver(list)[DOMAIN list].ok
  BY DEF isValid, FoldLeft, MapThenFoldSet, FlowsOver, FlowEquation, Start


\* The equation has a solution: one that holds for the positions up to n gives
\* one that holds up to n + 1.
LEMMA FlowsExist ==
  ASSUME NEW list, NEW len \in Nat, DOMAIN list = 1 .. len
  PROVE  \E g : FlowEquation(list, g)
<1> DEFINE S == SUBSET (DOMAIN list)
           Body(g) == [s \in S |-> IF s = {} THEN Start
                                   ELSE Flow(g[s \ {Max(s)}], list[Max(s)])]
           Upto(g, n) == \A s \in S : s \subseteq 1 .. n => g[s] = Body(g)[s]
           N == {n \in Nat : \E g : Upto(g, n)}
<1>1. 0 \in N
  <2> DEFINE g == [s \in S |-> Start]
  <2>1. ASSUME NEW s \in S, s \subseteq 1 .. 0 PROVE g[s] = Body(g)[s]
    <3>1. s = {}
      BY <2>1
    <3> QED
      BY <3>1
  <2> QED
    BY <2>1
<1>2. ASSUME NEW n \in N PROVE n + 1 \in N
  <2>1. PICK g : Upto(g, n)
    BY <1>2
  <2> DEFINE h == Body(g)
  <2>2. ASSUME NEW s \in S, s \subseteq 1 .. n + 1 PROVE h[s] = Body(h)[s]
    <3>1. CASE s = {}
      BY <3>1
    <3>2. CASE s # {}
      <4> DEFINE m == Max(s)
                 w == s \ {m}
      <4>1. m \in s /\ \A x \in s : x <= m
        BY <3>2, MaxIsGreatest
      <4> HIDE DEF m
      <4>2. w \in S /\ w \subseteq 1 .. n
        <5>1. ASSUME NEW x \in w PROVE x \in 1 .. n
          <6>1. x \in 1 .. n + 1 /\ m \in 1 .. n + 1 /\ x <= m /\ x # m
            BY <2>2, <4>1
          <6> QED
            BY <6>1
        <5> QED
          BY <5>1
      <4>3. h[w] = g[w]
        BY <2>1, <4>2
      <4>4. h[s] = Flow(g[w], list[m])
        BY <3>2 DEF m
      <4>5. Body(h)[s] = Flow(h[w], list[m])
        BY <3>2 DEF m
      <4> QED
        BY <4>3, <4>4, <4>5
    <3> QED
      BY <3>1, <3>2
  <2>3. Upto(h, n + 1)
    BY <2>2
  <2> HIDE DEF Upto, h
  <2> QED
    BY <1>2, <2>3
<1>3. len \in N
  <2> HIDE DEF N
  <2>1. N \in SUBSET Nat
    BY DEF N
  <2> QED
    BY <1>1, <1>2, <2>1, NumberInduction
<1>4. PICK g : Upto(g, len)
  BY <1>3
<1> DEFINE h == Body(g)
<1>5. \A s \in S : h[s] = g[s]
  BY <1>4
<1>6. h = Body(h)
  <2>1. \A s \in S : s # {} => s \ {Max(s)} \in S
    OBVIOUS
  <2>2. \A s \in S : Body(g)[s] = Body(h)[s]
    BY <1>5, <2>1
  <2> QED
    BY <2>2
<1> QED
  BY <1>6 DEF FlowEquation

\* So isValid is what the loop over the actions computes, one after the other.
LEMMA ValidByActions ==
  ASSUME NEW list, NEW len \in Nat, DOMAIN list = 1 .. len
  PROVE  \E after : /\ after[0] = Start
                    /\ \A k \in 1 .. len : after[k] = Flow(after[k - 1], list[k])
                    /\ isValid(list) = after[len].ok
<1> DEFINE g == FlowsOver(list)
<1>1. FlowEquation(list, g)
  BY FlowsExist DEF FlowsOver
<1> HIDE DEF g
<1>2. g[1 .. 0] = Start
  <2>1. 1 .. 0 = {} /\ {} \in SUBSET (DOMAIN list)
    OBVIOUS
  <2> QED
    BY <1>1, <2>1 DEF FlowEquation
<1>3. ASSUME NEW k \in 1 .. len PROVE g[1 .. k] = Flow(g[1 .. k - 1], list[k])
  <2> DEFINE s == 1 .. k
  <2>1. s \in SUBSET (DOMAIN list) /\ s # {} /\ s \in SUBSET (1 .. len) /\ k \in s
    OBVIOUS
  <2>2. Max(s) \in s /\ \A x \in s : x <= Max(s)
    BY <2>1, MaxIsGreatest
  <2>3. Max(s) = k
    BY <2>1, <2>2
  <2>4. s \ {k} = 1 .. k - 1
    OBVIOUS
  <2> HIDE DEF s
  <2>5. g[s] = Flow(g[s \ {k}], list[k])
    BY <1>1, <2>1, <2>3 DEF FlowEquation
  <2> QED
    BY <2>4, <2>5 DEF s
<1>4. isValid(list) = g[1 .. len].ok
  BY ValidIsFlow DEF g
<1> DEFINE after == [k \in 0 .. len |-> g[1 .. k]]
<1>5. after[0] = g[1 .. 0] /\ after[len] = g[1 .. len]
  OBVIOUS
<1>6. \A k \in 1 .. len : after[k] = g[1 .. k] /\ after[k - 1] = g[1 .. k - 1]
  OBVIOUS
<1> HIDE DEF after
<1> QED
  BY <1>2, <1>3, <1>4, <1>5, <1>6


-----------------------------------------------------------------------------
(* What isValid decides. *)

Receives(list, i) == list[i].flow \in In
HandsOn(list, i) == list[i].flow \in Out

\* The data there is after the first k actions: what the last of them that hands
\* something on has handed on.
Carried(list, k, d) ==
  \/ d = None /\ \A j \in 1 .. k : ~ HandsOn(list, j)
  \/ \E j \in 1 .. k : /\ HandsOn(list, j) /\ d = list[j].out
                       /\ \A m \in j + 1 .. k : ~ HandsOn(list, m)

\* An action that gets other data than it expects.
Wrong(list, i) == Receives(list, i) /\ ~ Carried(list, i - 1, list[i].in)

\* Data that is used before it is replaced; that may still be; that is not.
UsedBy(list, i, k) ==
  \E j \in i + 1 .. k : Receives(list, j) /\ \A m \in i + 1 .. j - 1 : ~ HandsOn(list, m)
Waiting(list, i, k) == \A j \in i + 1 .. k : ~ Receives(list, j) /\ ~ HandsOn(list, j)
Lost(list, i, k) ==
  \E j \in i + 1 .. k : HandsOn(list, j) /\ \A m \in i + 1 .. j : ~ Receives(list, m)

LEMMA CarriedIsOne ==
  ASSUME NEW list, NEW k \in Nat, NEW d, NEW e, Carried(list, k, d), Carried(list, k, e)
  PROVE  d = e
<1>1. ASSUME NEW i \in 1 .. k, NEW j \in 1 .. k, HandsOn(list, i), HandsOn(list, j),
             \A m \in i + 1 .. k : ~ HandsOn(list, m), \A m \in j + 1 .. k : ~ HandsOn(list, m)
      PROVE  i = j
  <2>1. ~ (i < j) /\ ~ (j < i)
    BY <1>1
  <2> QED
    BY <2>1
<1> QED
  BY <1>1 DEF Carried

LEMMA CarriedOn ==
  ASSUME NEW list, NEW k \in Nat, NEW d, Carried(list, k, d)
  PROVE  Carried(list, k + 1, IF HandsOn(list, k + 1) THEN list[k + 1].out ELSE d)
<1>1. \A m \in 1 .. k + 1 : m \in 1 .. k \/ m = k + 1
  OBVIOUS
<1>2. k + 1 \in 1 .. k + 1 /\ \A j \in 1 .. k : j \in 1 .. k + 1
  OBVIOUS
<1>3. CASE HandsOn(list, k + 1)
  <2>1. \A m \in (k + 1) + 1 .. k + 1 : ~ HandsOn(list, m)
    OBVIOUS
  <2> QED
    BY <1>2, <1>3, <2>1 DEF Carried
<1>4. CASE ~ HandsOn(list, k + 1)
  <2>1. CASE d = None /\ \A j \in 1 .. k : ~ HandsOn(list, j)
    BY <1>1, <1>4, <2>1 DEF Carried
  <2>2. ASSUME NEW j \in 1 .. k, HandsOn(list, j), d = list[j].out,
               \A m \in j + 1 .. k : ~ HandsOn(list, m)
        PROVE  Carried(list, k + 1, d)
    <3>1. \A m \in j + 1 .. k + 1 : m \in j + 1 .. k \/ m = k + 1
      OBVIOUS
    <3> QED
      BY <1>2, <1>4, <2>2, <3>1 DEF Carried
  <2> QED
    BY <1>4, <2>1, <2>2 DEF Carried
<1> QED
  BY <1>3, <1>4

\* What data of the actions before k + 1 becomes at the action k + 1.
LEMMA UseGoesOn ==
  ASSUME NEW list, NEW k \in Nat, NEW i \in 1 .. k
  PROVE  /\ UsedBy(list, i, k) => UsedBy(list, i, k + 1)
         /\ Lost(list, i, k) => Lost(list, i, k + 1)
         /\ Waiting(list, i, k) =>
              /\ Receives(list, k + 1) => UsedBy(list, i, k + 1)
              /\ ~ Receives(list, k + 1) /\ HandsOn(list, k + 1) => Lost(list, i, k + 1)
              /\ ~ Receives(list, k + 1) /\ ~ HandsOn(list, k + 1) => Waiting(list, i, k + 1)
<1>1. \A j \in i + 1 .. k : j \in i + 1 .. k + 1
  OBVIOUS
<1>2. k + 1 \in i + 1 .. k + 1 /\ \A j \in i + 1 .. k + 1 : j \in i + 1 .. k \/ j = k + 1
  OBVIOUS
<1>3. \A m \in i + 1 .. (k + 1) - 1 : m \in i + 1 .. k
  OBVIOUS
<1>4. UsedBy(list, i, k) => UsedBy(list, i, k + 1)
  BY <1>1 DEF UsedBy
<1>5. Lost(list, i, k) => Lost(list, i, k + 1)
  BY <1>1 DEF Lost
<1>6. ASSUME Waiting(list, i, k)
      PROVE  /\ Receives(list, k + 1) => UsedBy(list, i, k + 1)
             /\ ~ Receives(list, k + 1) /\ HandsOn(list, k + 1) => Lost(list, i, k + 1)
             /\ ~ Receives(list, k + 1) /\ ~ HandsOn(list, k + 1) => Waiting(list, i, k + 1)
  BY <1>2, <1>3, <1>6 DEF Waiting, UsedBy, Lost
<1> QED
  BY <1>4, <1>5, <1>6

\* Data that is used has not been lost and does not wait.
LEMMA UsedIsNotLost ==
  ASSUME NEW list, NEW k \in Nat, NEW i \in 1 .. k, UsedBy(list, i, k)
  PROVE  ~ Lost(list, i, k) /\ ~ Waiting(list, i, k)
<1>1. PICK j \in i + 1 .. k : Receives(list, j) /\ \A m \in i + 1 .. j - 1 : ~ HandsOn(list, m)
  BY DEF UsedBy
<1>2. ~ Waiting(list, i, k)
  BY <1>1 DEF Waiting
<1>3. ASSUME NEW l \in i + 1 .. k, HandsOn(list, l), \A m \in i + 1 .. l : ~ Receives(list, m)
      PROVE  FALSE
  <2>1. ~ (j <= l)
    BY <1>1, <1>3
  <2>2. l \in i + 1 .. j - 1
    BY <2>1
  <2> QED
    BY <1>1, <1>3, <2>2
<1> QED
  BY <1>2, <1>3 DEF Lost


\* The state of the loop after k actions: it has stopped at an action that gets
\* other data than it expects or replaces data not used, or every action so far
\* gets what it expects and only the data of the last may wait to be used.
FlowOK(list, k, s) ==
  /\ s \in [ok : BOOLEAN, type : Types \cup {None}, stopped : BOOLEAN]
  /\ s.stopped =>
       ~ s.ok /\ \E i \in 1 .. k : Wrong(list, i) \/ (HandsOn(list, i) /\ Lost(list, i, k))
  /\ ~ s.stopped =>
       /\ Carried(list, k, s.type)
       /\ \A i \in 1 .. k : ~ Wrong(list, i)
       /\ \A i \in 1 .. k : HandsOn(list, i) => UsedBy(list, i, k) \/ (~ s.ok /\ Waiting(list, i, k))
  /\ ~ s.stopped /\ ~ s.ok => \E i \in 1 .. k : HandsOn(list, i) /\ Waiting(list, i, k)

LEMMA FlowStart == ASSUME NEW list PROVE FlowOK(list, 0, Start)
<1>1. 1 .. 0 = {}
  OBVIOUS
<1> QED
  BY <1>1 DEF FlowOK, Start, Carried

LEMMA FlowStep ==
  ASSUME NEW list, NEW k \in Nat, list[k + 1] \in Actions, NEW s, FlowOK(list, k, s)
  PROVE  FlowOK(list, k + 1, Flow(s, list[k + 1]))
<1> DEFINE a == list[k + 1]
           t == Flow(s, a)
           ok == a.flow \in In \/ s.ok
           State == [ok : BOOLEAN, type : Types \cup {None}, stopped : BOOLEAN]
<1> SUFFICES FlowOK(list, k + 1, t)
  OBVIOUS
<1>1. /\ s \in State /\ a.out \in Types \cup {None} /\ ok \in BOOLEAN
      /\ Receives(list, k + 1) <=> a.flow \in In
      /\ HandsOn(list, k + 1) <=> a.flow \in Out
  BY DEF FlowOK, Actions, Receives, HandsOn
<1>2. k + 1 \in 1 .. k + 1 /\ (\A i \in 1 .. k + 1 : i \in 1 .. k \/ i = k + 1)
      /\ \A i \in 1 .. k : i \in 1 .. k + 1
  OBVIOUS
<1>3. CASE s.stopped
  <2>1. t = s
    BY <1>3 DEF Flow
  <2>2. PICK i \in 1 .. k : Wrong(list, i) \/ (HandsOn(list, i) /\ Lost(list, i, k))
    BY <1>3 DEF FlowOK
  <2>3. Wrong(list, i) \/ (HandsOn(list, i) /\ Lost(list, i, k + 1))
    BY <2>2, UseGoesOn
  <2> QED
    BY <1>1, <1>2, <1>3, <2>1, <2>3 DEF FlowOK
<1>4. CASE ~ s.stopped /\ ~ Fits(s, a)
  <2>1. t = [s EXCEPT !.ok = FALSE, !.stopped = TRUE]
    BY <1>4 DEF Flow
  <2>2. t \in State /\ t.stopped /\ ~ t.ok
    BY <1>1, <2>1
  <2>3. Carried(list, k, s.type) /\ a.in # s.type /\ Receives(list, k + 1)
    BY <1>1, <1>4 DEF FlowOK, Fits
  <2>4. ~ Carried(list, (k + 1) - 1, a.in)
    <3>1. (k + 1) - 1 = k
      OBVIOUS
    <3> QED
      BY <2>3, <3>1, CarriedIsOne
  <2>5. Wrong(list, k + 1)
    BY <2>3, <2>4 DEF Wrong
  <2> HIDE DEF t
  <2> QED
    BY <1>2, <2>2, <2>5 DEF FlowOK
<1>5. CASE ~ s.stopped /\ Fits(s, a)
  <2>1. /\ Carried(list, k, s.type)
        /\ \A i \in 1 .. k : ~ Wrong(list, i)
        /\ \A i \in 1 .. k : HandsOn(list, i) =>
             UsedBy(list, i, k) \/ (~ s.ok /\ Waiting(list, i, k))
        /\ ~ s.ok => \E i \in 1 .. k : HandsOn(list, i) /\ Waiting(list, i, k)
    BY <1>5 DEF FlowOK
  <2>2. ~ Wrong(list, k + 1)
    <3>1. (k + 1) - 1 = k
      OBVIOUS
    <3> QED
      BY <1>1, <1>5, <2>1, <3>1 DEF Wrong, Fits
  <2>3. Carried(list, k + 1, IF HandsOn(list, k + 1) THEN a.out ELSE s.type)
    BY <2>1, CarriedOn
  <2>4. \A i \in 1 .. k + 1 : ~ Wrong(list, i)
    BY <1>2, <2>1, <2>2
  <2>5. CASE a.flow \notin Out
    <3>1. t = [s EXCEPT !.ok = ok]
      BY <1>5, <2>5 DEF Flow
    <3>2. t \in State /\ ~ t.stopped /\ t.ok = ok /\ t.type = s.type
      BY <1>1, <1>5, <3>1
    <3>3. ASSUME NEW i \in 1 .. k + 1, HandsOn(list, i)
          PROVE  UsedBy(list, i, k + 1) \/ (~ ok /\ Waiting(list, i, k + 1))
      <4>1. i \in 1 .. k
        BY <1>1, <1>2, <2>5, <3>3
      <4> QED
        BY <1>1, <2>1, <2>5, <3>3, <4>1, UseGoesOn
    <3>4. ASSUME ~ ok
          PROVE  \E i \in 1 .. k + 1 : HandsOn(list, i) /\ Waiting(list, i, k + 1)
      <4>1. PICK i \in 1 .. k : HandsOn(list, i) /\ Waiting(list, i, k)
        BY <2>1, <3>4
      <4> QED
        BY <1>1, <1>2, <2>5, <3>4, <4>1, UseGoesOn
    <3>5. Carried(list, k + 1, t.type)
      BY <1>1, <2>3, <2>5, <3>2
    <3> HIDE DEF t, ok
    <3> QED
      BY <2>4, <3>2, <3>3, <3>4, <3>5 DEF FlowOK
  <2>6. CASE a.flow \in Out /\ ~ ok
    <3>1. t = [s EXCEPT !.stopped = TRUE]
      BY <1>5, <2>6 DEF Flow
    <3>2. t \in State /\ t.stopped /\ ~ t.ok
      BY <1>1, <2>6, <3>1
    <3>3. PICK i \in 1 .. k : HandsOn(list, i) /\ Waiting(list, i, k)
      BY <2>1, <2>6
    <3>4. Lost(list, i, k + 1)
      BY <1>1, <2>6, <3>3, UseGoesOn
    <3> HIDE DEF t
    <3> QED
      BY <1>2, <3>2, <3>3, <3>4 DEF FlowOK
  <2>7. CASE a.flow \in Out /\ ok
    <3>1. t = [s EXCEPT !.ok = FALSE, !.type = a.out]
      BY <1>5, <2>7 DEF Flow
    <3>2. t \in State /\ ~ t.stopped /\ ~ t.ok /\ t.type = a.out
      BY <1>1, <1>5, <3>1
    <3>3. Waiting(list, k + 1, k + 1) /\ HandsOn(list, k + 1)
      BY <1>1, <2>7 DEF Waiting
    <3>4. ASSUME NEW i \in 1 .. k, HandsOn(list, i) PROVE UsedBy(list, i, k + 1)
      BY <1>1, <2>1, <2>7, <3>4, UseGoesOn
    <3>5. Carried(list, k + 1, t.type)
      BY <2>3, <3>2, <3>3
    <3> HIDE DEF t
    <3>6. \A i \in 1 .. k + 1 : HandsOn(list, i) =>
            UsedBy(list, i, k + 1) \/ (~ t.ok /\ Waiting(list, i, k + 1))
      BY <1>2, <3>2, <3>3, <3>4
    <3> QED
      BY <1>2, <2>4, <3>2, <3>3, <3>5, <3>6 DEF FlowOK
  <2> QED
    BY <2>5, <2>6, <2>7
<1> QED
  BY <1>3, <1>4, <1>5

\* isValid accepts a task just when every action gets the data it expects and
\* all data handed on is used before it is replaced.
THEOREM ValidMeansDelivered ==
  \A list \in Seq(Actions) :
    isValid(list) <=> \A i \in DOMAIN list :
                        /\ ~ Wrong(list, i)
                        /\ HandsOn(list, i) => UsedBy(list, i, Len(list))
<1> SUFFICES ASSUME NEW list \in Seq(Actions)
             PROVE  isValid(list) <=> \A i \in DOMAIN list :
                                        /\ ~ Wrong(list, i)
                                        /\ HandsOn(list, i) => UsedBy(list, i, Len(list))
  OBVIOUS
<1> DEFINE len == Len(list)
<1>1. len \in Nat /\ DOMAIN list = 1 .. len /\ \A k \in 1 .. len : list[k] \in Actions
  OBVIOUS
<1> HIDE DEF len
<1>2. PICK after : /\ after[0] = Start
                   /\ \A k \in 1 .. len : after[k] = Flow(after[k - 1], list[k])
                   /\ isValid(list) = after[len].ok
  BY <1>1, ValidByActions
<1>3. FlowOK(list, len, after[len])
  <2> DEFINE T == {k \in Nat : k <= len => FlowOK(list, k, after[k])}
  <2>1. 0 \in T
    BY <1>2, FlowStart
  <2>2. ASSUME NEW k \in T PROVE k + 1 \in T
    <3>1. k \in Nat /\ k + 1 \in Nat /\ (k + 1) - 1 = k
      OBVIOUS
    <3>2. ASSUME k + 1 <= len PROVE FlowOK(list, k + 1, after[k + 1])
      <4>1. k + 1 \in 1 .. len /\ k <= len
        BY <1>1, <3>1, <3>2
      <4>2. FlowOK(list, k, after[k]) /\ after[k + 1] = Flow(after[k], list[k + 1])
        BY <1>2, <2>2, <3>1, <4>1
      <4> QED
        BY <1>1, <3>1, <4>1, <4>2, FlowStep
    <3> QED
      BY <3>1, <3>2
  <2>3. len \in T
    <3> HIDE DEF T
    <3>1. T \in SUBSET Nat
      BY DEF T
    <3> QED
      BY <1>1, <2>1, <2>2, <3>1, NumberInduction
  <2> QED
    BY <1>1, <2>3
<1> DEFINE s == after[len]
<1>4. /\ s.stopped => \E i \in 1 .. len : Wrong(list, i) \/ (HandsOn(list, i) /\ Lost(list, i, len))
      /\ ~ s.stopped /\ ~ s.ok => \E i \in 1 .. len : HandsOn(list, i) /\ Waiting(list, i, len)
      /\ s.ok => \A i \in 1 .. len : ~ Wrong(list, i) /\ (HandsOn(list, i) => UsedBy(list, i, len))
      /\ s.ok \in BOOLEAN /\ isValid(list) = s.ok
  BY <1>2, <1>3 DEF FlowOK
<1> HIDE DEF s
<1>5. CASE s.ok
  BY <1>1, <1>4, <1>5 DEF len
<1>6. CASE ~ s.ok
  <2>1. \E i \in 1 .. len : \/ Wrong(list, i)
                            \/ HandsOn(list, i) /\ (Lost(list, i, len) \/ Waiting(list, i, len))
    BY <1>4, <1>6
  <2>2. \E i \in 1 .. len : Wrong(list, i) \/ (HandsOn(list, i) /\ ~ UsedBy(list, i, len))
    BY <1>1, <2>1, UsedIsNotLost
  <2> QED
    BY <1>1, <1>4, <1>6, <2>2 DEF len
<1> QED
  BY <1>5, <1>6


-----------------------------------------------------------------------------
(* Executions *)

\* The data of the pipeline is that of the last action that has handed some on,
\* and what actions were called with was that when they were called.
GotOK ==
  /\ Len(got) <= Len(actions)
  /\ module # "DSA" =>
       /\ Piped => Carried(actions, Len(got), data)
       /\ \A i \in DOMAIN got : Receives(actions, i) => Carried(actions, i - 1, got[i])

TaskInv == TypeOK /\ GotOK /\ SuccessMeansExecuted

LEMMA NothingGot ==
  ASSUME TypeOK, got = <<>>, data = None
  PROVE  GotOK
<1>1. Len(got) = 0 /\ DOMAIN got = {} /\ Len(actions) \in Nat /\ 1 .. 0 = {}
  BY DEF TypeOK
<1> QED
  BY <1>1 DEF GotOK, Carried

LEMMA TaskInit == ASSUME ProviderModulesAssumption, Init PROVE TaskInv
<1>1. actions \in Seq(Actions)
  <2>1. PICK n \in 0 .. MaxActions : actions \in [1 .. n -> Actions]
    BY DEF Init
  <2> QED
    BY <2>1
<1>2. proxy \in Proxies /\ saved \in Proxies
  BY DEF Init, Proxies
<1>3. TypeOK
  BY <1>1, <1>2 DEF Init, TypeOK
<1>4. GotOK
  BY <1>3, NothingGot DEF Init
<1>5. SuccessMeansExecuted
  BY DEF Init, SuccessMeansExecuted
<1> QED
  BY <1>3, <1>4, <1>5 DEF TaskInv

\* While no execution runs only the proxy and what is provided change.
LEMMA TaskStays ==
  ASSUME TaskInv, UNCHANGED <<module, actions, run>>, proxy' \in Proxies,
         provided' \in [hash : BOOLEAN, copies : SUBSET Copies]
  PROVE  TaskInv'
<1>1. TypeOK'
  BY DEF TaskInv, TypeOK, run
<1>2. GotOK'
  BY DEF TaskInv, GotOK, Piped, run
<1>3. SuccessMeansExecuted'
  BY DEF TaskInv, SuccessMeansExecuted, run
<1> QED
  BY <1>1, <1>2, <1>3 DEF TaskInv

\* When the data is forgotten nothing has been delivered.
LEMMA TaskForgets ==
  ASSUME TaskInv, UNCHANGED <<module, actions, provided>>, proxy' \in Proxies,
         saved' \in Proxies, got' = <<>>, data' = None,
         pc' \in {"running", "success", "reverted"},
         pc' = "success" => module = "GelatoUserProxy" /\ ~ saved'.there
  PROVE  TaskInv'
<1>1. <<>> \in Seq(Types \cup {None})
  OBVIOUS
<1>2. TypeOK'
  BY <1>1 DEF TaskInv, TypeOK
<1>3. GotOK'
  <2>1. (TypeOK /\ got = <<>> /\ data = None => GotOK)'
    BY NothingGot, PTL
  <2> QED
    BY <1>2, <2>1
<1>4. SuccessMeansExecuted'
  BY DEF SuccessMeansExecuted
<1> QED
  BY <1>2, <1>3, <1>4 DEF TaskInv

LEMMA ActionRuns ==
  ASSUME ProviderModulesAssumption, TaskInv, RunAction
  PROVE  TaskInv'
<1> DEFINE k == Len(got)
           a == actions[k + 1]
           x == Input(a)
<1>1. /\ k \in Nat /\ k + 1 \in 1 .. Len(actions) /\ got \in Seq(Types \cup {None})
      /\ actions \in Seq(Actions) /\ Len(actions) \in Nat /\ a \in Actions
      /\ data \in Types \cup {None} /\ module \in Kinds
  BY DEF TaskInv, TypeOK, RunAction
<1>2. /\ pc = "running" /\ got' = Append(got, x)
      /\ data' = IF Piped /\ a.flow \in Out THEN a.out ELSE data
      /\ UNCHANGED <<module, actions, provided, pc, saved>>
      /\ proxy' \in {proxy, [proxy EXCEPT !.core = FALSE], [proxy EXCEPT !.there = FALSE]}
  BY DEF RunAction, KeepTask
<1>3. x \in Types \cup {None} /\ a.out \in Types \cup {None}
  BY <1>1 DEF Input, Actions
<1>4. proxy' \in Proxies
  BY <1>2 DEF TaskInv, TypeOK, Proxies
<1> HIDE DEF x
<1>5. /\ got' \in Seq(Types \cup {None}) /\ Len(got') = k + 1 /\ DOMAIN got' = 1 .. k + 1
      /\ DOMAIN got = 1 .. k
      /\ got'[k + 1] = x /\ \A i \in 1 .. k : got'[i] = got[i]
  BY <1>1, <1>2, <1>3
<1>6. TypeOK'
  BY <1>1, <1>2, <1>3, <1>4, <1>5 DEF TaskInv, TypeOK
<1>7. ASSUME module # "DSA" PROVE Receives(actions, k + 1) => Carried(actions, k, x)
  <2>1. CASE Piped
    BY <1>7, <2>1 DEF TaskInv, GotOK, x, Input, Receives
  <2>2. CASE ~ Piped
    <3>1. module \in {"GelatoUserProxy", "GnosisSafeProxy"} /\ ~ (Len(actions) > 1)
      BY <1>1, <1>7, <2>2 DEF Piped, ProviderModulesAssumption
    <3>2. k = 0 /\ x = None /\ 1 .. 0 = {}
      BY <1>1, <2>2, <3>1 DEF x, Input
    <3> QED
      BY <3>2 DEF Carried
  <2> QED
    BY <2>1, <2>2
<1>8. ASSUME module # "DSA", Piped PROVE Carried(actions, k + 1, data')
  <2>1. Carried(actions, k, data)
    BY <1>8 DEF TaskInv, GotOK
  <2>2. data' = IF HandsOn(actions, k + 1) THEN a.out ELSE data
    BY <1>2, <1>8 DEF HandsOn
  <2> QED
    BY <1>1, <2>1, <2>2, CarriedOn
<1>9. ASSUME module # "DSA", NEW i \in 1 .. k + 1
      PROVE  Receives(actions, i) => Carried(actions, i - 1, got'[i])
  <2>1. CASE i \in 1 .. k
    BY <1>5, <1>9, <2>1 DEF TaskInv, GotOK
  <2>2. CASE i = k + 1
    <3>1. i - 1 = k /\ got'[i] = x
      BY <1>1, <1>5, <2>2
    <3> QED
      BY <1>7, <1>9, <2>2, <3>1
  <2> QED
    BY <1>1, <2>1, <2>2
<1>10. GotOK'
  <2>1. Piped' = Piped /\ actions' = actions /\ module' = module
    BY <1>2 DEF Piped
  <2>2. Len(got') <= Len(actions)
    BY <1>1, <1>5
  <2> QED
    BY <1>5, <1>8, <1>9, <2>1, <2>2 DEF GotOK
<1>11. SuccessMeansExecuted'
  BY <1>2 DEF SuccessMeansExecuted
<1> QED
  BY <1>6, <1>10, <1>11 DEF TaskInv

LEMMA TaskStep ==
  ASSUME ProviderModulesAssumption, TaskInv, [Next]_vars
  PROVE  TaskInv'
<1>1. proxy \in Proxies /\ saved \in Proxies /\ module \in Kinds
      /\ provided \in [hash : BOOLEAN, copies : SUBSET Copies]
  BY DEF TaskInv, TypeOK
<1>2. CASE Begin
  <2>1. ~ proxy.there => module = "GelatoUserProxy"
    BY <1>2 DEF Begin, isProvided, ProvidedDSProxy, ProvidedDSA, ProvidedGnosisSafe
  <2> QED
    BY <1>1, <1>2, <2>1, TaskForgets DEF Begin, KeepTask
<1>3. CASE ActionReverts
  <2>1. pc' = "reverted"
    BY <1>3 DEF ActionReverts, execRevertCheck
  <2> QED
    BY <1>1, <1>3, <2>1, TaskForgets DEF ActionReverts, Rollback, KeepTask
<1>4. CASE Return
  <2>1. /\ pc' = "success" /\ Len(got) = Len(actions)
        /\ UNCHANGED <<module, actions, provided, proxy, saved, got, data>>
    BY <1>4 DEF Return, KeepTask, execRevertCheck
  <2>2. TypeOK'
    BY <2>1 DEF TaskInv, TypeOK
  <2>3. GotOK'
    BY <2>1 DEF TaskInv, GotOK, Piped
  <2>4. SuccessMeansExecuted'
    BY <2>1 DEF SuccessMeansExecuted
  <2> QED
    BY <2>2, <2>3, <2>4 DEF TaskInv
<1>5. CASE UserChanges
  BY <1>1, <1>5, TaskStays DEF UserChanges, KeepTask
<1>6. ASSUME NEW hash \in BOOLEAN, NEW copies \in SUBSET Copies,
             provide(hash, copies) \/ unprovide(hash, copies)
      PROVE  TaskInv'
  <2>1. /\ UNCHANGED <<module, actions, proxy, run>>
        /\ provided' \in [hash : BOOLEAN, copies : SUBSET Copies]
    <3>1. provided.hash \in BOOLEAN /\ provided.copies \in SUBSET Copies
      BY <1>1
    <3>2. /\ (provided.hash \/ hash) \in BOOLEAN /\ (provided.hash /\ ~ hash) \in BOOLEAN
      OBVIOUS
    <3>3. /\ provided.copies \cup copies \in SUBSET Copies
          /\ provided.copies \ copies \in SUBSET Copies
      BY <3>1
    <3>4. \/ provided' = [hash |-> provided.hash \/ hash, copies |-> provided.copies \cup copies]
          \/ provided' = [hash |-> provided.hash /\ ~ hash, copies |-> provided.copies \ copies]
      BY <1>6, Zenon DEF provide, unprovide
    <3>5. UNCHANGED <<module, actions, proxy, run>>
      BY <1>6, Zenon DEF provide, unprovide
    <3>6. ASSUME NEW h \in BOOLEAN, NEW c \in SUBSET Copies
          PROVE  [hash |-> h, copies |-> c] \in [hash : BOOLEAN, copies : SUBSET Copies]
      OBVIOUS
    <3> QED
      BY <3>2, <3>3, <3>4, <3>5, <3>6, Zenon
  <2> QED
    BY <1>1, <2>1, TaskStays
<1>7. CASE UNCHANGED vars
  BY <1>1, <1>7, TaskStays DEF vars
<1> QED
  BY <1>2, <1>3, <1>4, <1>5, <1>6, <1>7, ActionRuns DEF Next, TaskNext, OwnerNext

\* The inductive invariant of executions.
THEOREM TaskInvariant == ASSUME ProviderModulesAssumption PROVE Spec => []TaskInv
<1>1. Init => TaskInv
  BY TaskInit
<1>2. TaskInv /\ [Next]_vars => TaskInv'
  BY TaskStep
<1> QED
  BY <1>1, <1>2, PTL DEF Spec

\* An execution is rewarded only when every action was run, whatever the user
\* and the owner of the module change in between, unless a GelatoUserProxy is
\* gone; and one that failed has left nothing.
THEOREM SuccessIsExecution ==
  ASSUME ProviderModulesAssumption PROVE Spec => []SuccessMeansExecuted
<1>1. TaskInv => SuccessMeansExecuted
  BY DEF TaskInv
<1> QED
  BY TaskInvariant, <1>1, PTL

LEMMA PipedFollows == ASSUME TaskInv PROVE PipedAsChecked
<1> SUFFICES ASSUME module # "DSA" PROVE
      /\ isValid(actions) => \A i \in DOMAIN got : Delivered(i)
      /\ pc = "success" /\ Len(got) = Len(actions) =>
           (isValid(actions) <=> \A i \in DOMAIN actions : Delivered(i) /\ Used(i))
  BY DEF PipedAsChecked
<1> DEFINE n == Len(actions)
<1>1. /\ n \in Nat /\ Len(got) \in Nat /\ DOMAIN actions = 1 .. n /\ DOMAIN got = 1 .. Len(got)
      /\ Len(got) <= n /\ actions \in Seq(Actions)
      /\ \A i \in DOMAIN got : Receives(actions, i) => Carried(actions, i - 1, got[i])
  BY DEF TaskInv, TypeOK, GotOK
<1>2. isValid(actions) <=> \A i \in 1 .. n : /\ ~ Wrong(actions, i)
                                             /\ HandsOn(actions, i) => UsedBy(actions, i, n)
  BY <1>1, ValidMeansDelivered
<1> HIDE DEF n
<1>3. ASSUME NEW i \in DOMAIN got PROVE Delivered(i) <=> ~ Wrong(actions, i)
  <2>1. i - 1 \in Nat
    BY <1>1
  <2>2. Receives(actions, i) =>
          (Carried(actions, i - 1, actions[i].in) <=> got[i] = actions[i].in)
    BY <1>1, <2>1, CarriedIsOne
  <2> QED
    BY <2>2 DEF Delivered, Wrong, Receives
<1>4. \A i \in 1 .. n : Used(i) <=> (HandsOn(actions, i) => UsedBy(actions, i, n))
  BY DEF Used, UsedBy, HandsOn, Receives, n
<1>5. \A i \in DOMAIN got : i \in 1 .. n
  BY <1>1
<1>6. isValid(actions) => \A i \in DOMAIN got : Delivered(i)
  BY <1>2, <1>3, <1>5
<1>7. ASSUME Len(got) = n
      PROVE  isValid(actions) <=> \A i \in DOMAIN actions : Delivered(i) /\ Used(i)
  <2>1. DOMAIN got = 1 .. n /\ DOMAIN actions = 1 .. n
    BY <1>1, <1>7
  <2> QED
    BY <1>2, <1>3, <1>4, <2>1
<1> QED
  BY <1>6, <1>7 DEF n

\* What isValid accepts is delivered and what it refuses is not, for tasks of any
\* number of actions, whether execPayload takes the pipeline or not.
THEOREM PipedAsItWasChecked ==
  ASSUME ProviderModulesAssumption PROVE Spec => []PipedAsChecked
<1>1. TaskInv => PipedAsChecked
  BY PipedFollows
<1> QED
  BY TaskInvariant, <1>1, PTL
=============================================================================
