---------------------------- MODULE LedgerProofs ----------------------------
(* Proofs about GelatoExecutors: for every set of accounts, amounts and     *)
(* minimum stakes, executor counts are exact, the stake of an assigned      *)
(* executor stays locked, and the balance is the sum of what is owed.       *)
(* In the end about GelatoExecutors with the contract PermissionedExecutors *)
(* as one of the executors; nothing before is about that contract.          *)
EXTENDS PermissionedExecutors, FiniteSetTheorems, WellFoundedInduction, TLAPS

-----------------------------------------------------------------------------
(* Induction without operator parameters, and sums over finite sets.        *)
(*                                                                          *)
(* An induction hypothesis is here the set of the numbers, or of the        *)
(* subsets, that satisfy it; the provers need no more than that every       *)
(* non-empty set of numbers has a least element.  The sums of the model,    *)
(* MapThenSumSet, are recursive functions: what an update of one summand    *)
(* does to them follows by induction on the subsets.                        *)
\* A set of numbers that has 0 and the successor of each element has them all.
LEMMA NumberInduction ==
    ASSUME NEW T \in SUBSET Nat, 0 \in T, \A n \in T : n + 1 \in T
    PROVE  \A n \in Nat : n \in T
<1> DEFINE R == OpToRel(<, Nat)
           U == Nat \ T
<1>1. IsWellFoundedOn(R, Nat)
  BY NatLessThanWellFounded
<1>2. ASSUME U # {} PROVE FALSE
  <2> HIDE DEF R
  <2>1. PICK n \in U : \A m \in U : ~ (<<m, n>> \in R)
    <3>1. U \subseteq Nat
      OBVIOUS
    <3> HIDE DEF U
    <3> QED
      BY <1>1, <1>2, <3>1, WFMin
  <2>2. n - 1 \in U
    <3>1. n \in Nat /\ n # 0 /\ n \notin T
      BY <2>1
    <3>2. n - 1 \in Nat /\ n - 1 + 1 = n
      BY <3>1
    <3> QED
      BY <3>1, <3>2
  <2>3. <<n - 1, n>> \in R
    BY <2>1, <2>2 DEF R, OpToRel
  <2> QED
    BY <2>1, <2>2, <2>3
<1> QED
  BY <1>2

\* The element a sum over s takes first.
Pick(s) == CHOOSE x \in s : TRUE
Without(s) == s \ {Pick(s)}

\* A set of subsets of a finite set that has the empty one, and each subset
\* whose first element can be taken away within it, has them all.
LEMMA SubsetInduction ==
    ASSUME NEW S, IsFiniteSet(S), NEW T \in SUBSET (SUBSET S), {} \in T,
           \A s \in SUBSET S : s # {} /\ Without(s) \in T => s \in T
    PROVE  \A s \in SUBSET S : s \in T
<1> DEFINE N == {n \in Nat : \A s \in SUBSET S : Cardinality(s) = n => s \in T}
<1>1. \A s \in SUBSET S : IsFiniteSet(s) /\ Cardinality(s) \in Nat
  BY FS_Subset, FS_CardinalityType
<1>2. 0 \in N
  BY <1>1, FS_EmptySet
<1>3. ASSUME NEW n \in N PROVE n + 1 \in N
  <2>1. SUFFICES ASSUME NEW s \in SUBSET S, Cardinality(s) = n + 1
                 PROVE  s \in T
    BY <1>3
  <2>2. s # {}
    BY <1>3, <2>1, FS_EmptySet
  <2>3. Pick(s) \in s
    BY <2>2 DEF Pick
  <2>4. Cardinality(Without(s)) = n
    <3>1. Cardinality(Without(s)) = Cardinality(s) - 1
      BY <1>1, <2>3, FS_RemoveElement DEF Without
    <3> QED
      BY <1>3, <2>1, <3>1
  <2>5. Without(s) \in SUBSET S
    BY DEF Without
  <2> QED
    BY <1>3, <2>2, <2>4, <2>5
<1>4. \A n \in Nat : n \in N
  <2> HIDE DEF N
  <2>1. N \in SUBSET Nat
    BY DEF N
  <2> QED
    BY <1>2, <1>3, <2>1, NumberInduction
<1> QED
  BY <1>1, <1>4

-----------------------------------------------------------------------------
(* MapThenSumSet as a recursive function of the subsets.                    *)

SumEquation(f, S, g) ==
    g = [s \in SUBSET S |-> IF s = {} THEN 0
                            ELSE f[Pick(s)] + g[s \ {Pick(s)}]]
SumsOver(f, S) == CHOOSE g : SumEquation(f, S, g)
Sum(f, S) == SumsOver(f, S)[S]

\* The library's sum is this one.
LEMMA SumIsSum ==
    ASSUME NEW f, NEW S
    PROVE  MapThenSumSet(LAMBDA a : f[a], S) = Sum(f, S)
  BY DEF MapThenSumSet, MapThenFoldSet, Sum, SumsOver, SumEquation, Pick

\* The recursive equation has a solution on the subsets of a finite set: one
\* that holds up to n elements gives one that holds up to n + 1.
LEMMA SumsExist ==
    ASSUME NEW f, NEW S, IsFiniteSet(S)
    PROVE  \E g : SumEquation(f, S, g)
<1> DEFINE Body(g) == [s \in SUBSET S |-> IF s = {} THEN 0
                                          ELSE f[Pick(s)] + g[s \ {Pick(s)}]]
           Upto(g, n) == \A s \in SUBSET S :
                            Cardinality(s) <= n => g[s] = Body(g)[s]
           N == {n \in Nat : \E g : Upto(g, n)}
<1>1. \A s \in SUBSET S : IsFiniteSet(s) /\ Cardinality(s) \in Nat
  BY FS_Subset, FS_CardinalityType
<1>2. 0 \in N
  <2> DEFINE zero == [s \in SUBSET S |-> 0]
  <2>1. Upto(zero, 0)
    <3>1. SUFFICES ASSUME NEW s \in SUBSET S, Cardinality(s) <= 0
                   PROVE  zero[s] = Body(zero)[s]
      OBVIOUS
    <3>2. s = {}
      BY <1>1, <3>1, FS_EmptySet
    <3> QED
      BY <3>2
  <2> QED
    BY <2>1
<1>3. ASSUME NEW n \in N PROVE n + 1 \in N
  <2>1. PICK g : Upto(g, n)
    BY <1>3
  <2> DEFINE h == Body(g)
  <2>2. Upto(h, n + 1)
    <3>1. SUFFICES ASSUME NEW s \in SUBSET S, Cardinality(s) <= n + 1, s # {}
                   PROVE  h[s] = f[Pick(s)] + h[s \ {Pick(s)}]
      OBVIOUS
    <3>2. Pick(s) \in s
      BY <3>1 DEF Pick
    <3> DEFINE w == s \ {Pick(s)}
    <3>3. w \in SUBSET S /\ Cardinality(w) <= n
      <4>1. Cardinality(w) = Cardinality(s) - 1
        BY <1>1, <3>2, FS_RemoveElement
      <4> QED
        BY <1>1, <1>3, <3>1, <4>1
    <3>4. h[w] = g[w]
      BY <2>1, <3>3
    <3>5. h[s] = f[Pick(s)] + g[w]
      BY <3>1
    <3> QED
      BY <3>4, <3>5
  <2> HIDE DEF Upto, h
  <2>3. n + 1 \in Nat /\ \E g0 : Upto(g0, n + 1)
    BY <1>3, <2>2
  <2> QED
    BY <2>3
<1>4. \A n \in Nat : n \in N
  <2> HIDE DEF N
  <2>1. N \in SUBSET Nat
    BY DEF N
  <2> QED
    BY <1>2, <1>3, <2>1, NumberInduction
<1>5. PICK g : Upto(g, Cardinality(S))
  BY <1>1, <1>4
<1>6. \A s \in SUBSET S : Cardinality(s) <= Cardinality(S)
  BY FS_Subset
<1> DEFINE h == Body(g)
<1>7. \A s \in SUBSET S : h[s] = g[s]
  BY <1>5, <1>6
<1>8. h = Body(h)
  <2>1. \A s \in SUBSET S : s # {} => s \ {Pick(s)} \in SUBSET S
    OBVIOUS
  <2>2. \A s \in SUBSET S : Body(g)[s] = Body(h)[s]
    BY <1>7, <2>1
  <2> QED
    BY <2>2
<1> QED
  BY <1>8 DEF SumEquation

LEMMA SumsByElement ==
    ASSUME NEW f, NEW S, IsFiniteSet(S), NEW s \in SUBSET S
    PROVE  SumsOver(f, S)[s] =
                IF s = {} THEN 0
                ELSE f[Pick(s)] + SumsOver(f, S)[Without(s)]
<1>1. SumEquation(f, S, SumsOver(f, S))
  BY SumsExist DEF SumsOver
<1> HIDE DEF SumsOver
<1> QED
  BY <1>1 DEF SumEquation, Without

\* A sum of integers is an integer, one of naturals a natural.
LEMMA SumIsInteger ==
    ASSUME NEW S, IsFiniteSet(S), NEW f, \A a \in S : f[a] \in Int
    PROVE  \A s \in SUBSET S : SumsOver(f, S)[s] \in Int
<1> DEFINE T == {s \in SUBSET S : SumsOver(f, S)[s] \in Int}
<1>1. {} \in T
  BY SumsByElement
<1>2. ASSUME NEW s \in SUBSET S, s # {}, Without(s) \in T PROVE s \in T
  <2>1. Pick(s) \in S
    BY <1>2 DEF Pick
  <2>2. SumsOver(f, S)[s] = f[Pick(s)] + SumsOver(f, S)[Without(s)]
    BY <1>2, SumsByElement
  <2> QED
    BY <1>2, <2>1, <2>2
<1>3. \A s \in SUBSET S : s \in T
  <2> HIDE DEF T
  <2>1. T \in SUBSET (SUBSET S)
    BY DEF T
  <2> QED
    BY <1>1, <1>2, <2>1, SubsetInduction
<1> QED
  BY <1>3

\* Nothing summed up is nothing.
LEMMA SumOfZeros ==
    ASSUME NEW S, IsFiniteSet(S), NEW f, \A a \in S : f[a] = 0
    PROVE  Sum(f, S) = 0
<1> DEFINE T == {s \in SUBSET S : SumsOver(f, S)[s] = 0}
<1>1. {} \in T
  BY SumsByElement
<1>2. ASSUME NEW s \in SUBSET S, s # {}, Without(s) \in T PROVE s \in T
  <2>1. Pick(s) \in S
    BY <1>2 DEF Pick
  <2>2. SumsOver(f, S)[s] = f[Pick(s)] + SumsOver(f, S)[Without(s)]
    BY <1>2, SumsByElement
  <2> QED
    BY <1>2, <2>1, <2>2
<1>3. \A s \in SUBSET S : s \in T
  <2> HIDE DEF T
  <2>1. T \in SUBSET (SUBSET S)
    BY DEF T
  <2> QED
    BY <1>1, <1>2, <2>1, SubsetInduction
<1> QED
  BY <1>3 DEF Sum

\* A sum moves by what one of its summands moves.
LEMMA SumChanges ==
    ASSUME NEW S, IsFiniteSet(S), NEW f, NEW h, NEW x \in S, NEW d \in Int,
           \A a \in S : f[a] \in Int,
           \A a \in S : h[a] = IF a = x THEN f[a] + d ELSE f[a]
    PROVE  Sum(f, S) \in Int /\ Sum(h, S) = Sum(f, S) + d
<1> DEFINE F == SumsOver(f, S)
           H == SumsOver(h, S)
           T == {s \in SUBSET S : H[s] = F[s] + (IF x \in s THEN d ELSE 0)}
<1>1. \A s \in SUBSET S : F[s] \in Int
  BY SumIsInteger
<1>2. {} \in T
  BY SumsByElement
<1>3. ASSUME NEW s \in SUBSET S, s # {}, Without(s) \in T PROVE s \in T
  <2>1. Pick(s) \in S /\ Pick(s) \in s
    BY <1>3 DEF Pick
  <2>2. /\ F[s] = f[Pick(s)] + F[Without(s)]
        /\ H[s] = h[Pick(s)] + H[Without(s)]
    BY <1>3, SumsByElement
  <2>3. F[Without(s)] \in Int /\ f[Pick(s)] \in Int
    BY <1>1, <1>3, <2>1
  <2> HIDE DEF F, H
  <2>4. CASE Pick(s) = x
    <3>1. x \in s /\ x \notin Without(s)
      BY <2>1, <2>4 DEF Without
    <3>2. H[Without(s)] = F[Without(s)] + 0 /\ h[Pick(s)] = f[Pick(s)] + d
      BY <1>3, <2>1, <2>4, <3>1
    <3> QED
      BY <1>3, <2>2, <2>3, <3>1, <3>2
  <2>5. CASE Pick(s) # x
    <3>1. x \in s <=> x \in Without(s)
      BY <2>1, <2>5 DEF Without
    <3>2. /\ H[Without(s)] = F[Without(s)] + (IF x \in s THEN d ELSE 0)
          /\ h[Pick(s)] = f[Pick(s)]
      BY <1>3, <2>1, <2>5, <3>1
    <3> QED
      BY <1>3, <2>2, <2>3, <3>2
  <2> QED
    BY <2>4, <2>5
<1>4. \A s \in SUBSET S : s \in T
  <2> HIDE DEF T
  <2>1. T \in SUBSET (SUBSET S)
    BY DEF T
  <2> QED
    BY <1>2, <1>3, <2>1, SubsetInduction
<1> QED
  BY <1>1, <1>4 DEF Sum

-----------------------------------------------------------------------------
(* Reassigning a set of providers moves as many units between the two       *)
(* executors' preimages.                                                    *)

Preimage(f, e) == {p \in Accounts : f[p] = e}

Reassigned(f, P, to) == [p \in Accounts |-> IF p \in P THEN to ELSE f[p]]

Shift(e, from, to, n) ==
    IF e = from THEN 0 - n ELSE IF e = to THEN n ELSE 0

LEMMA PreimageIsFinite ==
    ASSUME NEW f, NEW e
    PROVE  IsFiniteSet(Preimage(f, e)) /\ Cardinality(Preimage(f, e)) \in Nat
  BY ProvidersAssumption, FS_Subset, FS_CardinalityType DEF Preimage

\* Moving the providers of P, all of them assigned to `from`, to `to` takes
\* |P| from the one count, adds it to the other and leaves the rest.
LEMMA ReassignmentMovesCounts ==
    ASSUME NEW f, NEW P \in SUBSET Accounts,
           NEW from, NEW to, from # to, P \subseteq Preimage(f, from), NEW e
    PROVE  Cardinality(Preimage(Reassigned(f, P, to), e)) =
                Cardinality(Preimage(f, e)) + Shift(e, from, to, Cardinality(P))
<1>1. IsFiniteSet(P) /\ Cardinality(P) \in Nat
  BY ProvidersAssumption, FS_Subset, FS_CardinalityType
<1>2. Cardinality(Preimage(f, e)) \in Nat /\ IsFiniteSet(Preimage(f, e))
  BY PreimageIsFinite
<1>3. CASE e = from
  <2>1. Preimage(Reassigned(f, P, to), e) = Preimage(f, e) \ P
    BY <1>3 DEF Preimage, Reassigned
  <2>2. Preimage(f, e) \cap P = P
    BY <1>3 DEF Preimage
  <2>3. Cardinality(Preimage(f, e) \ P) = Cardinality(Preimage(f, e)) - Cardinality(P)
    BY ZenonT(60), <1>2, <2>2, FS_Difference
  <2> QED
    BY <1>1, <1>2, <1>3, <2>1, <2>3 DEF Shift
<1>4. CASE e = to
  <2>1. Preimage(Reassigned(f, P, to), e) = Preimage(f, e) \cup P
    BY <1>4 DEF Preimage, Reassigned
  <2>2. Preimage(f, e) \cap P = {}
    BY <1>4 DEF Preimage
  <2>3. Cardinality(Preimage(f, e) \cup P) = Cardinality(Preimage(f, e)) + Cardinality(P)
    <3>1. Cardinality(Preimage(f, e) \cap P) = 0
      BY <2>2, FS_EmptySet
    <3>2. Cardinality(Preimage(f, e) \cup P) = Cardinality(Preimage(f, e))
                + Cardinality(P) - Cardinality(Preimage(f, e) \cap P)
      BY <1>1, <1>2, FS_Union
    <3> QED
      BY <1>1, <1>2, <3>1, <3>2
  <2>4. e # from
    BY <1>4
  <2> QED
    BY <1>1, <1>2, <1>4, <2>1, <2>3, <2>4 DEF Shift
<1>5. CASE e # from /\ e # to
  <2>1. Preimage(Reassigned(f, P, to), e) = Preimage(f, e)
    BY <1>5 DEF Preimage, Reassigned
  <2> QED
    BY <1>2, <1>5, <2>1 DEF Shift
<1> QED
  BY <1>3, <1>4, <1>5

-----------------------------------------------------------------------------
(* Typing *)

\* The owner's calls and the oracle keep the types.
LEMMA SysAdminTyping ==
    ASSUME LedgerTypeOK, NEW sender,
           \/ SysAdminStep(sender)
           \/ \E p \in GasPrices : OracleAnswers(p),
           UNCHANGED providerVars
    PROVE  LedgerTypeOK'
<1> USE SysAdminAssumption
<1>1. ProvidersTypeOK'
  BY DEF LedgerTypeOK, ProvidersTypeOK, providerVars, assignmentVars, whitelistVars
<1>2. CASE \E v \in Amounts : WithdrawSysAdminFunds(sender, v)
  <2>1. PICK v \in Amounts : WithdrawSysAdminFunds(sender, v)
    BY <1>2
  <2>2. v \in Nat /\ sysAdminFunds \in Nat /\ gelatoBalance \in Nat
    BY DEF LedgerTypeOK, SysAdminTypeOK
  <2>3. sysAdminFunds' \in Nat
    BY <2>1, <2>2 DEF WithdrawSysAdminFunds, Lesser
  <2>4. gelatoBalance' \in Nat
    BY <2>1, <2>2 DEF WithdrawSysAdminFunds, SendValue, Lesser
  <2>5. params' \in Params
    BY <2>1 DEF WithdrawSysAdminFunds, LedgerTypeOK, SysAdminTypeOK
  <2> QED
    BY <1>1, <2>3, <2>4, <2>5 DEF LedgerTypeOK, SysAdminTypeOK
<1>3. CASE ~ \E v \in Amounts : WithdrawSysAdminFunds(sender, v)
  <2>1. params' \in Params
    <3>0. params \in Params /\ params.executorSuccessShare \in Nat
                            /\ params.sysAdminSuccessShare \in Nat
      BY DEF LedgerTypeOK, SysAdminTypeOK, Params
    <3>1. CASE \E a \in Owners : TransferOwnership(sender, a)
      BY <3>0, <3>1 DEF TransferOwnership, OwnerSets, Params
    <3>2. CASE RenounceOwnership(sender)
      BY <3>0, <3>2 DEF RenounceOwnership, OwnerSets, Params
    <3>3. CASE \E g \in GasLimits : SetGelatoMaxGas(sender, g)
      BY <3>0, <3>3 DEF SetGelatoMaxGas, OwnerSets, Params
    <3>4. CASE \E g \in GasRequirements : SetInternalGasRequirement(sender, g)
      BY <3>0, <3>4 DEF SetInternalGasRequirement, OwnerSets, Params
    <3>5. CASE \E m \in Stakes : SetMinExecutorStake(sender, m)
      BY <3>0, <3>5 DEF SetMinExecutorStake, OwnerSets, Params
    <3>6. CASE \E m \in Shares : SetExecutorSuccessShare(sender, m)
      <4>1. PICK m \in Shares : SetExecutorSuccessShare(sender, m)
        BY <3>6
      <4>2. m \in Nat /\ m + params.sysAdminSuccessShare \in Nat
        BY <3>0
      <4> QED
        BY <3>0, <4>1, <4>2 DEF SetExecutorSuccessShare, OwnerSets, Params
    <3>7. CASE \E m \in Shares : SetSysAdminSuccessShare(sender, m)
      <4>1. PICK m \in Shares : SetSysAdminSuccessShare(sender, m)
        BY <3>7
      <4>2. m \in Nat /\ params.executorSuccessShare + m \in Nat
        BY <3>0
      <4> QED
        BY <3>0, <4>1, <4>2 DEF SetSysAdminSuccessShare, OwnerSets, Params
    <3>8. CASE \E p \in GasPrices : OracleAnswers(p)
      BY <3>0, <3>8 DEF OracleAnswers, Params
    <3>9. CASE \E p \in GasPrices : SetGelatoGasPriceOracle(sender, p)
      BY <3>0, <3>9 DEF SetGelatoGasPriceOracle, OwnerSets, Params
    <3> QED
      BY <1>3, <3>1, <3>2, <3>3, <3>4, <3>5, <3>6, <3>7, <3>8, <3>9
      DEF SysAdminStep
  <2>2. UNCHANGED <<sysAdminFunds, gelatoBalance>>
    BY <1>3
    DEF SysAdminStep, OracleAnswers, SetGelatoGasPriceOracle, OwnerSets,
        TransferOwnership,
        RenounceOwnership, SetGelatoMaxGas, SetInternalGasRequirement,
        SetMinExecutorStake, SetExecutorSuccessShare, SetSysAdminSuccessShare
  <2> QED
    BY <1>1, <2>1, <2>2 DEF LedgerTypeOK, SysAdminTypeOK
<1> QED
  BY <1>2, <1>3

\* What moves ether or changes an assignment keeps the ledger's types ...
LEMMA FundsTyping ==
    ASSUME LedgerTypeOK, NEW sender \in Accounts,
           \/ \E p \in Providers, v \in Amounts : ProvideFunds(p, v)
           \/ \E v \in Amounts : UnprovideFunds(sender, v)
           \/ \E e \in Addresses : ProviderAssignsExecutor(sender, e)
           \/ \E p \in Providers, e \in Addresses :
                    ExecutorAssignsExecutor(sender, p, e)
           \/ \E v \in Amounts : StakeExecutor(sender, v)
           \/ UnstakeExecutor(sender)
           \/ \E v \in Amounts : WithdrawExcessExecutorStake(sender, v)
           \/ \E P \in SUBSET Providers, e \in Addresses :
                    MultiReassignProviders(sender, P, e)
    PROVE  LedgerTypeOK'
<1> USE SysAdminAssumption, ProvidersAssumption DEF LedgerTypeOK
<1>0. /\ gelatoBalance \in Nat /\ params \in Params /\ sysAdminFunds \in Nat
      /\ params.minExecutorStake \in Nat
      /\ providerFunds \in [Accounts -> Nat]
      /\ executorStake \in [Addresses -> Nat]
      /\ executorByProvider \in [Accounts -> Addresses]
      /\ executorProvidersCount \in [Addresses -> Int]
      /\ sender \in Addresses
  BY DEF SysAdminTypeOK, ProvidersTypeOK, Params, Addresses
<1>1. CASE \E p \in Providers, v \in Amounts : ProvideFunds(p, v)
  BY <1>0, <1>1 DEF ProvideFunds, ReceiveValue, SysAdminTypeOK, ProvidersTypeOK,
                    assignmentVars, whitelistVars
<1>2. CASE \E v \in Amounts : UnprovideFunds(sender, v)
  BY <1>0, <1>2 DEF UnprovideFunds, SendValue, Lesser, SysAdminTypeOK,
                    ProvidersTypeOK, assignmentVars, whitelistVars
<1>3. CASE \E e \in Addresses : ProviderAssignsExecutor(sender, e)
  BY <1>0, <1>3 DEF ProviderAssignsExecutor, MoveCount, SysAdminTypeOK,
                    ProvidersTypeOK, sysAdminVars, whitelistVars
<1>4. CASE \E p \in Providers, e \in Addresses :
                ExecutorAssignsExecutor(sender, p, e)
  BY <1>0, <1>4 DEF ExecutorAssignsExecutor, MoveCount, SysAdminTypeOK,
                    ProvidersTypeOK, sysAdminVars, whitelistVars
<1>5. CASE \E v \in Amounts : StakeExecutor(sender, v)
  BY <1>0, <1>5 DEF StakeExecutor, ReceiveValue, SysAdminTypeOK,
                    ProvidersTypeOK, assignmentVars, whitelistVars
<1>6. CASE UnstakeExecutor(sender)
  BY <1>0, <1>6 DEF UnstakeExecutor, SendValue, SysAdminTypeOK,
                    ProvidersTypeOK, assignmentVars, whitelistVars
<1>7. CASE \E v \in Amounts : WithdrawExcessExecutorStake(sender, v)
  BY <1>0, <1>7 DEF WithdrawExcessExecutorStake, isExecutorMinStaked,
                    SendValue, Lesser, SysAdminTypeOK, ProvidersTypeOK,
                    assignmentVars, whitelistVars
<1>8. CASE \E P \in SUBSET Providers, e \in Addresses :
                MultiReassignProviders(sender, P, e)
  <2>1. PICK P \in SUBSET Providers, e \in Addresses :
                MultiReassignProviders(sender, P, e)
    BY <1>8
  <2>2. Cardinality(P) \in Nat
    BY FS_Subset, FS_CardinalityType
  <2> QED
    BY <1>0, <2>1, <2>2 DEF MultiReassignProviders, SysAdminTypeOK,
                            ProvidersTypeOK, sysAdminVars, whitelistVars
<1> QED
  BY <1>1, <1>2, <1>3, <1>4, <1>5, <1>6, <1>7, <1>8

\* ... and so does what changes a whitelist, alone or in a batch.
LEMMA WhitelistTyping ==
    ASSUME LedgerTypeOK, NEW sender \in Accounts,
           \/ \E ceils \in SpecCeils : ProvideTaskSpecs(sender, ceils)
           \/ \E S \in SUBSET TaskSpecs : UnprovideTaskSpecs(sender, S)
           \/ \E s \in TaskSpecs, c \in Ceils : SetTaskSpecGasPriceCeil(sender, s, c)
           \/ \E M \in SUBSET Modules : AddProviderModules(sender, M)
           \/ \E M \in SUBSET Modules : RemoveProviderModules(sender, M)
           \/ \E v \in Amounts, e \in Addresses, ceils \in SpecCeils,
                 M \in SUBSET Modules : MultiProvide(sender, v, e, ceils, M)
           \/ \E v \in Amounts, S \in SUBSET TaskSpecs, M \in SUBSET Modules :
                 MultiUnprovide(sender, v, S, M)
    PROVE  LedgerTypeOK'
<1> USE SysAdminAssumption, ProvidersAssumption DEF LedgerTypeOK
<1>0. /\ gelatoBalance \in Nat /\ params \in Params /\ sysAdminFunds \in Nat
      /\ providerFunds \in [Accounts -> Nat]
      /\ executorByProvider \in [Accounts -> Addresses]
      /\ executorProvidersCount \in [Addresses -> Int]
      /\ taskSpecGasPriceCeil \in [Accounts -> [TaskSpecs -> Nat]]
      /\ providerModules \in [Accounts -> SUBSET Modules]
  BY DEF SysAdminTypeOK, ProvidersTypeOK
<1>1. ASSUME NEW ceils \in SpecCeils, SetCeils(sender, ceils)
      PROVE  taskSpecGasPriceCeil' \in [Accounts -> [TaskSpecs -> Nat]]
  <2>1. PICK D \in SUBSET TaskSpecs : ceils \in [D -> Ceils]
    BY DEF SpecCeils
  <2>2. \A s \in DOMAIN ceils : effectiveCeil(ceils[s]) \in Nat
    BY <2>1 DEF effectiveCeil
  <2> DEFINE new == [s \in TaskSpecs |-> IF s \in DOMAIN ceils
                        THEN effectiveCeil(ceils[s])
                        ELSE taskSpecGasPriceCeil[sender][s]]
  <2>3. new \in [TaskSpecs -> Nat]
    BY <1>0, <2>2
  <2>4. taskSpecGasPriceCeil' = [taskSpecGasPriceCeil EXCEPT ![sender] = new]
    BY <1>1 DEF SetCeils
  <2> HIDE DEF new
  <2> QED
    BY <1>0, <2>3, <2>4
<1>2. ASSUME NEW S \in SUBSET TaskSpecs, ClearCeils(sender, S)
      PROVE  taskSpecGasPriceCeil' \in [Accounts -> [TaskSpecs -> Nat]]
  BY <1>0, <1>2 DEF ClearCeils
<1>3. CASE \E ceils \in SpecCeils : ProvideTaskSpecs(sender, ceils)
  BY <1>0, <1>1, <1>3 DEF ProvideTaskSpecs, SysAdminTypeOK, ProvidersTypeOK,
                          sysAdminVars, assignmentVars
<1>4. CASE \E S \in SUBSET TaskSpecs : UnprovideTaskSpecs(sender, S)
  BY <1>0, <1>2, <1>4 DEF UnprovideTaskSpecs, SysAdminTypeOK, ProvidersTypeOK,
                          sysAdminVars, assignmentVars
<1>5. CASE \E s \in TaskSpecs, c \in Ceils : SetTaskSpecGasPriceCeil(sender, s, c)
  BY <1>0, <1>5 DEF SetTaskSpecGasPriceCeil, SysAdminTypeOK, ProvidersTypeOK,
                    sysAdminVars, assignmentVars
<1>6. CASE \E M \in SUBSET Modules : AddProviderModules(sender, M)
  BY <1>0, <1>6 DEF AddProviderModules, SysAdminTypeOK, ProvidersTypeOK,
                    sysAdminVars, assignmentVars
<1>7. CASE \E M \in SUBSET Modules : RemoveProviderModules(sender, M)
  BY <1>0, <1>7 DEF RemoveProviderModules, SysAdminTypeOK, ProvidersTypeOK,
                    sysAdminVars, assignmentVars
<1>8. CASE \E v \in Amounts, e \in Addresses, ceils \in SpecCeils,
              M \in SUBSET Modules : MultiProvide(sender, v, e, ceils, M)
  <2>1. PICK v \in Amounts, e \in Addresses, ceils \in SpecCeils,
             M \in SUBSET Modules : MultiProvide(sender, v, e, ceils, M)
    BY <1>8
  <2>2. taskSpecGasPriceCeil' \in [Accounts -> [TaskSpecs -> Nat]]
    BY <1>1, <2>1 DEF MultiProvide
  <2>3. gelatoBalance' \in Nat /\ providerFunds' \in [Accounts -> Nat]
    BY <1>0, <2>1 DEF MultiProvide, ReceiveValue
  <2>4. /\ executorByProvider' \in [Accounts -> Addresses]
        /\ executorProvidersCount' \in [Addresses -> Int]
    <3>1. CASE e = NoAccount
      BY <1>0, <2>1, <3>1 DEF MultiProvide, assignmentVars
    <3>2. CASE e # NoAccount
      <4>1. /\ executorByProvider' = [executorByProvider EXCEPT ![sender] = e]
            /\ executorProvidersCount' =
                    MoveCount(executorByProvider[sender], e, {NoAccount})
        BY <2>1, <3>2 DEF MultiProvide
      <4>2. executorByProvider' \in [Accounts -> Addresses]
        BY <1>0, <4>1
      <4>3. executorProvidersCount' \in [Addresses -> Int]
        BY <1>0, <4>1 DEF MoveCount
      <4> QED
        BY <4>2, <4>3
    <3> QED
      BY <3>1, <3>2
  <2>5. /\ providerModules' \in [Accounts -> SUBSET Modules]
        /\ UNCHANGED <<params, sysAdminFunds, executorStake>>
    BY <1>0, <2>1 DEF MultiProvide
  <2> QED
    BY <2>2, <2>3, <2>4, <2>5 DEF SysAdminTypeOK, ProvidersTypeOK
<1>9. CASE \E v \in Amounts, S \in SUBSET TaskSpecs, M \in SUBSET Modules :
              MultiUnprovide(sender, v, S, M)
  <2>1. PICK v \in Amounts, S \in SUBSET TaskSpecs, M \in SUBSET Modules :
              MultiUnprovide(sender, v, S, M)
    BY <1>9
  <2>2. taskSpecGasPriceCeil' \in [Accounts -> [TaskSpecs -> Nat]]
    BY <1>2, <2>1 DEF MultiUnprovide
  <2>3. gelatoBalance' \in Nat /\ providerFunds' \in [Accounts -> Nat]
    BY <1>0, <2>1 DEF MultiUnprovide, SendValue, Lesser
  <2>4. /\ providerModules' \in [Accounts -> SUBSET Modules]
        /\ UNCHANGED <<params, sysAdminFunds, executorStake, assignmentVars>>
    BY <1>0, <2>1 DEF MultiUnprovide
  <2> QED
    BY <2>2, <2>3, <2>4 DEF SysAdminTypeOK, ProvidersTypeOK, assignmentVars
<1> QED
  BY <1>3, <1>4, <1>5, <1>6, <1>7, <1>8, <1>9

-----------------------------------------------------------------------------
(* The inductive invariant: CountsAreExact needs only the types beside it.  *)

LedgerInv == LedgerTypeOK /\ CountsAreExact

LEMMA InitInv == LedgerInit => LedgerInv
<1> SUFFICES ASSUME LedgerInit PROVE LedgerInv
  OBVIOUS
<1> USE SysAdminAssumption
<1>1. SysAdminTypeOK
  BY DEF LedgerInit, SysAdminInit, SysAdminTypeOK, Params
<1>2. ProvidersTypeOK
  BY DEF LedgerInit, ProvidersInit, ProvidersTypeOK, Addresses
<1>3. \A e \in Accounts : AssignedTo(e) = {}
  BY DEF LedgerInit, ProvidersInit, AssignedTo
<1>4. CountsAreExact
  BY <1>3, FS_EmptySet DEF LedgerInit, ProvidersInit, CountsAreExact, Addresses
<1> QED
  BY <1>1, <1>2, <1>4 DEF LedgerInv, LedgerTypeOK

\* Only a reassignment moves an executor's count.
LEMMA CountsPreserved ==
    ASSUME CountsAreExact, executorProvidersCount \in [Addresses -> Int],
           NEW P \in SUBSET Accounts, NEW from, NEW to, from # to,
           P \subseteq Preimage(executorByProvider, from),
           executorByProvider' = Reassigned(executorByProvider, P, to),
           \A e \in Accounts : executorProvidersCount'[e] =
                executorProvidersCount[e] + Shift(e, from, to, Cardinality(P))
    PROVE  CountsAreExact'
<1>1. SUFFICES ASSUME NEW e \in Accounts
               PROVE  executorProvidersCount'[e] = Cardinality(AssignedTo(e)')
  BY DEF CountsAreExact
<1>2. /\ AssignedTo(e) = Preimage(executorByProvider, e)
      /\ AssignedTo(e)' = Preimage(executorByProvider', e)
  BY DEF AssignedTo, Preimage
<1>3. executorProvidersCount[e] = Cardinality(Preimage(executorByProvider, e))
  BY <1>2 DEF CountsAreExact
<1>4. Cardinality(Preimage(Reassigned(executorByProvider, P, to), e)) =
            Cardinality(Preimage(executorByProvider, e))
                + Shift(e, from, to, Cardinality(P))
  BY ReassignmentMovesCounts
<1> QED
  BY <1>2, <1>3, <1>4

\* The case of one provider, as ProviderAssignsExecutor, ExecutorAssignsExecutor
\* and MultiProvide reassign it; address(0) may be left out of the counting.
LEMMA OneReassignment ==
    ASSUME LedgerInv, NEW p \in Accounts, NEW to \in Addresses,
           to # executorByProvider[p],
           NEW skip \in SUBSET {NoAccount},
           executorByProvider' = [executorByProvider EXCEPT ![p] = to],
           executorProvidersCount' = MoveCount(executorByProvider[p], to, skip)
    PROVE  CountsAreExact'
<1> DEFINE from == executorByProvider[p]
<1>1. /\ executorByProvider \in [Accounts -> Addresses]
      /\ executorProvidersCount \in [Addresses -> Int]
  BY DEF LedgerInv, LedgerTypeOK, ProvidersTypeOK
<1>2. {p} \in SUBSET Accounts /\ {p} \subseteq Preimage(executorByProvider, from)
  BY DEF Preimage
<1>3. executorByProvider' = Reassigned(executorByProvider, {p}, to)
  BY <1>1 DEF Reassigned
<1>4. Cardinality({p}) = 1
  BY FS_Singleton
<1>5. \A e \in Accounts : executorProvidersCount'[e] =
            executorProvidersCount[e] + Shift(e, from, to, Cardinality({p}))
  <2>1. SUFFICES ASSUME NEW e \in Accounts
                 PROVE  executorProvidersCount'[e] =
                            executorProvidersCount[e] + Shift(e, from, to, 1)
    BY <1>4
  <2>2. e # NoAccount /\ e \in Addresses /\ from # to
    BY SysAdminAssumption DEF Addresses
  <2>3. executorProvidersCount'[e] = executorProvidersCount[e]
            - (IF e = from /\ from \notin skip THEN 1 ELSE 0)
            + (IF e = to /\ to \notin skip THEN 1 ELSE 0)
    BY <2>2 DEF MoveCount
  <2>4. executorProvidersCount[e] \in Int
    BY <1>1, <2>2
  <2> HIDE DEF from
  <2> QED
    BY <2>2, <2>3, <2>4 DEF Shift
<1> HIDE DEF from
<1>6. from # to
  BY DEF from
<1> QED
  BY <1>1, <1>2, <1>3, <1>5, <1>6, CountsPreserved DEF LedgerInv

LEMMA CountsUnchanged ==
    ASSUME LedgerInv, UNCHANGED assignmentVars
    PROVE  CountsAreExact'
  BY DEF LedgerInv, CountsAreExact, AssignedTo, assignmentVars

LEMMA CountsStep ==
    ASSUME LedgerInv, [LedgerNext]_vars
    PROVE  CountsAreExact'
<1>1. CASE UNCHANGED assignmentVars
  BY <1>1, CountsUnchanged
<1>2. ASSUME NEW sender \in Accounts, NEW e \in Addresses,
             ProviderAssignsExecutor(sender, e)
      PROVE  CountsAreExact'
  BY <1>2, OneReassignment DEF ProviderAssignsExecutor
<1>3. ASSUME NEW sender \in Accounts, NEW p \in Providers, NEW e \in Addresses,
             ExecutorAssignsExecutor(sender, p, e)
      PROVE  CountsAreExact'
  <2>1. /\ p \in Accounts /\ e # executorByProvider[p]
        /\ executorByProvider' = [executorByProvider EXCEPT ![p] = e]
        /\ executorProvidersCount' = MoveCount(executorByProvider[p], e, {})
    BY <1>3, ProvidersAssumption DEF ExecutorAssignsExecutor
  <2>2. {} \in SUBSET {NoAccount}
    OBVIOUS
  <2> QED
    BY <2>1, <2>2, OneReassignment
<1>4. ASSUME NEW sender \in Accounts, NEW v, NEW e \in Addresses, NEW ceils,
             NEW M, MultiProvide(sender, v, e, ceils, M),
             ~ UNCHANGED assignmentVars
      PROVE  CountsAreExact'
  <2>1. e # NoAccount /\ e # executorByProvider[sender]
    BY <1>4 DEF MultiProvide
  <2>2. /\ executorByProvider' = [executorByProvider EXCEPT ![sender] = e]
        /\ executorProvidersCount' =
                MoveCount(executorByProvider[sender], e, {NoAccount})
    BY <1>4, <2>1 DEF MultiProvide
  <2> QED
    BY <2>1, <2>2, OneReassignment
<1>5. ASSUME NEW sender \in Accounts, NEW P \in SUBSET Providers,
             NEW e \in Addresses, MultiReassignProviders(sender, P, e)
      PROVE  CountsAreExact'
  <2>0. /\ P \in SUBSET Accounts
        /\ executorByProvider \in [Accounts -> Addresses]
        /\ executorProvidersCount \in [Addresses -> Int]
        /\ Cardinality(P) \in Nat
    BY ProvidersAssumption, FS_Subset, FS_CardinalityType
    DEF LedgerInv, LedgerTypeOK, ProvidersTypeOK
  <2>1. CASE P = {}
    <3>1. executorByProvider' = executorByProvider
      BY <1>5, <2>0, <2>1 DEF MultiReassignProviders
    <3>2. Cardinality(P) = 0
      BY <2>1, FS_EmptySet
    <3>3. executorProvidersCount' = executorProvidersCount
      BY <1>5, <2>0, <3>2 DEF MultiReassignProviders
    <3> QED
      BY <3>1, <3>3, CountsUnchanged DEF assignmentVars
  <2>2. CASE P # {}
    <3>1. sender # e
      BY <1>5, <2>2 DEF MultiReassignProviders
    <3>2. P \subseteq Preimage(executorByProvider, sender)
      BY <1>5, <2>0 DEF MultiReassignProviders, Preimage
    <3>3. executorByProvider' = Reassigned(executorByProvider, P, e)
      BY <1>5 DEF MultiReassignProviders, Reassigned
    <3>4. ASSUME NEW a \in Accounts
          PROVE  executorProvidersCount'[a] = executorProvidersCount[a]
                    + Shift(a, sender, e, Cardinality(P))
      BY <1>5, <2>0, <3>1 DEF MultiReassignProviders, Shift, Addresses
    <3> QED
      BY <2>0, <3>1, <3>2, <3>3, <3>4, CountsPreserved DEF LedgerInv
  <2> QED
    BY <2>1, <2>2
<1>6. CASE ~ UNCHANGED assignmentVars
  <2>1. PICK sender \in Accounts : LedgerStep(sender)
    BY <1>6 DEF LedgerNext, vars, providerVars
  <2>2. CASE ProvidersStep(sender)
    BY <1>2, <1>4, <1>6, <2>2
    DEF ProvidersStep, ProvideFunds, UnprovideFunds, ProvideTaskSpecs,
        UnprovideTaskSpecs, SetTaskSpecGasPriceCeil, AddProviderModules,
        RemoveProviderModules, MultiUnprovide
  <2>3. CASE ExecutorsStep(sender)
    BY <1>3, <1>5, <1>6, <2>3
    DEF ExecutorsStep, StakeExecutor, UnstakeExecutor,
        WithdrawExcessExecutorStake
  <2> QED
    BY <1>6, <2>1, <2>2, <2>3 DEF LedgerStep, providerVars
<1> QED
  BY <1>1, <1>6

LEMMA TypeStep ==
    ASSUME LedgerTypeOK, [LedgerNext]_vars
    PROVE  LedgerTypeOK'
<1>1. CASE UNCHANGED vars
  BY <1>1 DEF LedgerTypeOK, SysAdminTypeOK, ProvidersTypeOK, vars, sysAdminVars,
              providerVars, assignmentVars, whitelistVars
<1>2. CASE \E a \in Accounts : LedgerStep(a)
  <2>1. PICK sender \in Accounts : LedgerStep(sender)
    BY <1>2
  <2>2. CASE SysAdminStep(sender) /\ UNCHANGED providerVars
    BY <2>2, SysAdminTyping
  <2>3. CASE ProvidersStep(sender)
    BY <2>3, FundsTyping, WhitelistTyping DEF ProvidersStep
  <2>4. CASE ExecutorsStep(sender)
    BY <2>4, FundsTyping DEF ExecutorsStep
  <2> QED
    BY <2>1, <2>2, <2>3, <2>4 DEF LedgerStep
<1>3. CASE \E p \in GasPrices : OracleAnswers(p) /\ UNCHANGED providerVars
  <2>1. PICK p \in GasPrices : OracleAnswers(p) /\ UNCHANGED providerVars
    BY <1>3
  <2>2. \/ SysAdminStep(NoAccount)
        \/ \E q \in GasPrices : OracleAnswers(q)
    BY <2>1
  <2> QED
    BY <2>1, <2>2, SysAdminTyping
<1> QED
  BY <1>1, <1>2, <1>3 DEF LedgerNext

-----------------------------------------------------------------------------
(* Stake.  unstakeExecutor looks at the count only, so that the stake of an *)
(* assigned executor is locked rests on CountsAreExact.                     *)

LEMMA UnassignedExecutor ==
    ASSUME LedgerInv, NEW e \in Accounts, ~ isExecutorAssigned(e)
    PROVE  AssignedTo(e) = {}
<1>1. IsFiniteSet(AssignedTo(e))
  BY PreimageIsFinite DEF AssignedTo, Preimage
<1>2. Cardinality(AssignedTo(e)) = 0
  BY DEF LedgerInv, CountsAreExact, isExecutorAssigned
<1> QED
  BY <1>1, <1>2, FS_EmptySet

\* The calls that lower a stake leave the minimum to an assigned executor.
LEMMA StakeLockStep ==
    ASSUME LedgerInv, [LedgerNext]_vars, NEW p \in Accounts, NEW e \in Accounts,
           executorByProvider[p] = e, executorStake'[e] < executorStake[e]
    PROVE  executorStake'[e] >= params.minExecutorStake
<1> USE SysAdminAssumption
<1>1. /\ executorStake \in [Addresses -> Nat] /\ e \in Addresses
      /\ params.minExecutorStake \in Nat
  BY DEF LedgerInv, LedgerTypeOK, SysAdminTypeOK, ProvidersTypeOK, Params, Addresses
<1>2. executorStake' # executorStake
  BY <1>1
<1>3. PICK sender \in Accounts : ExecutorsStep(sender)
  <2>1. PICK sender \in Accounts : LedgerStep(sender)
    BY <1>2 DEF LedgerNext, vars, providerVars
  <2>2. ~ ProvidersStep(sender)
    BY <1>2 DEF ProvidersStep, ProvideFunds, UnprovideFunds,
        ProviderAssignsExecutor, ProvideTaskSpecs, UnprovideTaskSpecs,
        SetTaskSpecGasPriceCeil, AddProviderModules, RemoveProviderModules,
        MultiProvide, MultiUnprovide
  <2> QED
    BY <1>2, <2>1, <2>2 DEF LedgerStep, providerVars
<1>4. sender \in Addresses
  BY DEF Addresses
<1>5. CASE \E v \in Amounts : StakeExecutor(sender, v)
  BY <1>1, <1>4, <1>5 DEF StakeExecutor
<1>6. CASE UnstakeExecutor(sender)
  <2>1. sender = e
    BY <1>1, <1>4, <1>6 DEF UnstakeExecutor
  <2>2. p \notin AssignedTo(e)
    BY <1>6, <2>1, UnassignedExecutor DEF UnstakeExecutor
  <2> QED
    BY <2>2 DEF AssignedTo
<1>7. CASE \E v \in Amounts : WithdrawExcessExecutorStake(sender, v)
  <2>1. PICK v \in Amounts : WithdrawExcessExecutorStake(sender, v)
    BY <1>7
  <2>2. sender = e
    BY <1>1, <1>4, <2>1 DEF WithdrawExcessExecutorStake
  <2>3. executorStake[e] >= params.minExecutorStake
    BY <2>1, <2>2 DEF WithdrawExcessExecutorStake, isExecutorMinStaked
  <2>4. executorStake'[e] = executorStake[e]
            - Lesser(v, executorStake[e] - params.minExecutorStake)
    BY <1>1, <2>1, <2>2 DEF WithdrawExcessExecutorStake
  <2> QED
    BY <1>1, <2>3, <2>4 DEF Lesser
<1> QED
  BY <1>2, <1>3, <1>5, <1>6, <1>7
  DEF ExecutorsStep, ExecutorAssignsExecutor, MultiReassignProviders

\* A call that gives a provider another executor has checked its stake, and
\* changes no stake.
LEMMA ReassignmentStep ==
    ASSUME LedgerInv, [LedgerNext]_vars, NEW p \in Accounts,
           executorByProvider'[p] # executorByProvider[p],
           executorByProvider'[p] # NoAccount
    PROVE  /\ executorStake[executorByProvider'[p]] >= params.minExecutorStake
           /\ UNCHANGED executorStake
<1>1. executorByProvider \in [Accounts -> Addresses]
  BY DEF LedgerInv, LedgerTypeOK, ProvidersTypeOK
<1>2. ~ UNCHANGED executorByProvider
  OBVIOUS
<1>3. PICK sender \in Accounts :
            ProvidersStep(sender) \/ ExecutorsStep(sender)
  <2>1. ~ UNCHANGED providerVars
    BY <1>2 DEF providerVars, assignmentVars
  <2>2. PICK sender \in Accounts : LedgerStep(sender)
    BY <2>1 DEF LedgerNext, vars
  <2> QED
    BY <2>1, <2>2 DEF LedgerStep
<1>4. CASE \E n \in Addresses : ProviderAssignsExecutor(sender, n)
  BY <1>1, <1>4 DEF ProviderAssignsExecutor, isExecutorMinStaked
<1>5. CASE \E v \in Amounts, n \in Addresses, ceils \in SpecCeils,
              M \in SUBSET Modules : MultiProvide(sender, v, n, ceils, M)
  <2>1. PICK v \in Amounts, n \in Addresses, ceils \in SpecCeils,
              M \in SUBSET Modules : MultiProvide(sender, v, n, ceils, M)
    BY <1>5
  <2>2. n # NoAccount
    BY <1>2, <2>1 DEF MultiProvide, assignmentVars
  <2>3. /\ isExecutorMinStaked(n)
        /\ executorByProvider' = [executorByProvider EXCEPT ![sender] = n]
        /\ UNCHANGED executorStake
    BY <2>1, <2>2 DEF MultiProvide
  <2> QED
    BY <1>1, <2>3 DEF isExecutorMinStaked
<1>6. CASE \E q \in Providers, n \in Addresses :
                ExecutorAssignsExecutor(sender, q, n)
  BY <1>1, <1>6, ProvidersAssumption
  DEF ExecutorAssignsExecutor, isExecutorMinStaked
<1>7. CASE \E P \in SUBSET Providers, n \in Addresses :
                MultiReassignProviders(sender, P, n)
  <2>1. PICK P \in SUBSET Providers, n \in Addresses :
                MultiReassignProviders(sender, P, n)
    BY <1>7
  <2>2. p \in P /\ executorByProvider'[p] = n
    BY <1>1, <2>1 DEF MultiReassignProviders
  <2>3. isExecutorMinStaked(n) /\ UNCHANGED executorStake
    BY <2>1, <2>2 DEF MultiReassignProviders
  <2> QED
    BY <2>2, <2>3 DEF isExecutorMinStaked
<1> QED
  BY <1>2, <1>3, <1>4, <1>5, <1>6, <1>7
  DEF ProvidersStep, ProvideFunds, UnprovideFunds, ProvideTaskSpecs,
      UnprovideTaskSpecs, SetTaskSpecGasPriceCeil, AddProviderModules,
      RemoveProviderModules, MultiUnprovide, ExecutorsStep, StakeExecutor,
      UnstakeExecutor, WithdrawExcessExecutorStake, assignmentVars

LEMMA MinStakedStep ==
    ASSUME LedgerInv, [LedgerNext]_vars, LedgerInv', AllMinStaked,
           params'.minExecutorStake <= params.minExecutorStake
    PROVE  AllMinStaked'
<1>1. /\ executorByProvider \in [Accounts -> Addresses]
      /\ executorByProvider' \in [Accounts -> Addresses]
      /\ executorStake \in [Addresses -> Nat]
      /\ executorStake' \in [Addresses -> Nat]
      /\ params.minExecutorStake \in Nat /\ params'.minExecutorStake \in Nat
  BY DEF LedgerInv, LedgerTypeOK, SysAdminTypeOK, ProvidersTypeOK, Params
<1>2. SUFFICES ASSUME NEW p \in Accounts, executorByProvider'[p] # NoAccount
               PROVE  executorStake'[executorByProvider'[p]]
                        >= params'.minExecutorStake
  BY DEF AllMinStaked, isExecutorMinStaked
<1>3. CASE executorByProvider'[p] = executorByProvider[p]
  <2>1. PICK e \in Accounts : e = executorByProvider[p]
    BY <1>1, <1>2, <1>3 DEF Addresses
  <2>2. executorStake[e] >= params.minExecutorStake
    BY <1>2, <1>3, <2>1 DEF AllMinStaked, isExecutorMinStaked
  <2>3. e \in Addresses
    BY DEF Addresses
  <2>4. executorStake'[e] >= executorStake[e]
            \/ executorStake'[e] >= params.minExecutorStake
    BY <1>1, <2>1, <2>3, StakeLockStep
  <2> QED
    BY <1>1, <1>3, <2>1, <2>2, <2>3, <2>4
<1>4. CASE executorByProvider'[p] # executorByProvider[p]
  <2>1. /\ executorStake[executorByProvider'[p]] >= params.minExecutorStake
        /\ UNCHANGED executorStake
    BY <1>2, <1>4, ReassignmentStep
  <2> QED
    BY <1>1, <2>1
<1> QED
  BY <1>3, <1>4

-----------------------------------------------------------------------------
(* Ether.  Whatever a call moves, it moves by as much in the balance as in  *)
(* one provider's funds, one stake and the owner's share together.          *)

Owes(balance, sysAdmin, funds, stake) ==
    balance = sysAdmin + Sum(funds, Accounts) + Sum(stake, Addresses)

Adds(f, g, x, d, S) ==
    /\ x \in S /\ d \in Int
    /\ \A a \in S : f[a] \in Int /\ g[a] = IF a = x THEN f[a] + d ELSE f[a]

LEMMA AddressesAreFinite == IsFiniteSet(Accounts) /\ IsFiniteSet(Addresses)
  BY ProvidersAssumption, FS_AddElement DEF Addresses

LEMMA OwedIsKept ==
    ASSUME NEW b, NEW b2, NEW y \in Int, NEW y2, NEW f, NEW f2, NEW s, NEW s2,
           Owes(b, y, f, s),
           NEW p, NEW e, NEW df, NEW ds,
           Adds(f, f2, p, df, Accounts), Adds(s, s2, e, ds, Addresses),
           b \in Int, b2 \in Int, y2 \in Int, b2 - y2 = b - y + df + ds
    PROVE  Owes(b2, y2, f2, s2)
<1>1. Sum(f, Accounts) \in Int /\ Sum(f2, Accounts) = Sum(f, Accounts) + df
  <2>1. /\ p \in Accounts /\ df \in Int /\ \A a \in Accounts : f[a] \in Int
        /\ \A a \in Accounts : f2[a] = IF a = p THEN f[a] + df ELSE f[a]
    BY DEF Adds
  <2> QED
    BY <2>1, AddressesAreFinite, SumChanges
<1>2. Sum(s, Addresses) \in Int /\ Sum(s2, Addresses) = Sum(s, Addresses) + ds
  <2>1. /\ e \in Addresses /\ ds \in Int /\ \A a \in Addresses : s[a] \in Int
        /\ \A a \in Addresses : s2[a] = IF a = e THEN s[a] + ds ELSE s[a]
    BY DEF Adds
  <2> QED
    BY <2>1, AddressesAreFinite, SumChanges
<1>3. df \in Int /\ ds \in Int
  BY DEF Adds
<1>4. b = y + Sum(f, Accounts) + Sum(s, Addresses)
  BY DEF Owes
<1>5. b2 = y2 + Sum(f2, Accounts) + Sum(s2, Addresses)
  <2> DEFINE F == Sum(f, Accounts)
             S == Sum(s, Addresses)
  <2>1. F \in Int /\ S \in Int /\ b = y + F + S
    BY <1>1, <1>2, <1>4
  <2>2. b2 = y2 + (F + df) + (S + ds)
    <3> HIDE DEF F, S
    <3> QED
      BY <1>3, <2>1
  <2> QED
    BY <1>1, <1>2, <2>2
<1> QED
  BY <1>5 DEF Owes

LEMMA SolventOwes ==
    /\ Solvent <=> Owes(gelatoBalance, sysAdminFunds, providerFunds, executorStake)
    /\ Solvent' <=> Owes(gelatoBalance', sysAdminFunds', providerFunds',
                         executorStake')
  BY DEF Solvent, Owes, MapThenSumSet, MapThenFoldSet, Sum, SumsOver,
         SumEquation, Pick

\* A ledger of which no entry moves stays solvent ...
LEMMA SolventUnchanged ==
    ASSUME Solvent,
           UNCHANGED <<sysAdminFunds, gelatoBalance, providerFunds, executorStake>>
    PROVE  Solvent'
  BY SolventOwes

LEMMA FundsMove ==
    ASSUME LedgerTypeOK, Solvent, NEW p \in Accounts, NEW d \in Int,
           providerFunds' = [providerFunds EXCEPT ![p] = @ + d],
           gelatoBalance' = gelatoBalance + d,
           UNCHANGED <<sysAdminFunds, executorStake>>
    PROVE  Solvent'
<1>1. /\ sysAdminFunds \in Int /\ gelatoBalance \in Int
      /\ providerFunds \in [Accounts -> Nat]
      /\ executorStake \in [Addresses -> Nat] /\ p \in Addresses
  BY DEF LedgerTypeOK, SysAdminTypeOK, ProvidersTypeOK, Addresses
<1>2. /\ Adds(providerFunds, providerFunds', p, d, Accounts)
      /\ Adds(executorStake, executorStake', p, 0, Addresses)
  BY <1>1 DEF Adds
<1>3. /\ gelatoBalance' \in Int /\ sysAdminFunds' \in Int
      /\ gelatoBalance' - sysAdminFunds' = gelatoBalance - sysAdminFunds + d + 0
  BY <1>1
<1> QED
  BY <1>1, <1>2, <1>3, SolventOwes, OwedIsKept

LEMMA StakeMoves ==
    ASSUME LedgerTypeOK, Solvent, NEW e \in Accounts, NEW d \in Int,
           executorStake' = [executorStake EXCEPT ![e] = @ + d],
           gelatoBalance' = gelatoBalance + d,
           UNCHANGED <<sysAdminFunds, providerFunds>>
    PROVE  Solvent'
<1>1. /\ sysAdminFunds \in Int /\ gelatoBalance \in Int
      /\ providerFunds \in [Accounts -> Nat]
      /\ executorStake \in [Addresses -> Nat] /\ e \in Addresses
  BY DEF LedgerTypeOK, SysAdminTypeOK, ProvidersTypeOK, Addresses
<1>2. /\ Adds(providerFunds, providerFunds', e, 0, Accounts)
      /\ Adds(executorStake, executorStake', e, d, Addresses)
  BY <1>1 DEF Adds
<1>3. /\ gelatoBalance' \in Int /\ sysAdminFunds' \in Int
      /\ gelatoBalance' - sysAdminFunds' = gelatoBalance - sysAdminFunds + 0 + d
  BY <1>1
<1> QED
  BY <1>1, <1>2, <1>3, SolventOwes, OwedIsKept

LEMMA OwnerWithdraws ==
    ASSUME LedgerTypeOK, Solvent, NEW sender, NEW v \in Amounts,
           WithdrawSysAdminFunds(sender, v),
           UNCHANGED <<providerFunds, executorStake>>
    PROVE  Solvent'
<1> DEFINE d == Lesser(v, sysAdminFunds)
<1>1. /\ sysAdminFunds \in Nat /\ gelatoBalance \in Nat /\ v \in Nat
      /\ providerFunds \in [Accounts -> Nat] /\ executorStake \in [Addresses -> Nat]
  BY SysAdminAssumption DEF LedgerTypeOK, SysAdminTypeOK, ProvidersTypeOK
<1>2. d \in Int
  BY <1>1 DEF Lesser
<1>3. sysAdminFunds' = sysAdminFunds - d /\ gelatoBalance' = gelatoBalance - d
  BY DEF WithdrawSysAdminFunds, SendValue
<1> HIDE DEF d
<1>4. Sum(providerFunds, Accounts) \in Int /\ Sum(executorStake, Addresses) \in Int
  BY <1>1, AddressesAreFinite, SumIsInteger DEF Sum
<1> QED
  BY <1>1, <1>2, <1>3, <1>4, SolventOwes DEF Owes

\* ... and so does one of which a call moves an entry.
LEMMA SolventStep ==
    ASSUME LedgerTypeOK, Solvent, [LedgerNext]_vars
    PROVE  Solvent'
<1> USE SysAdminAssumption, ProvidersAssumption
<1>0. /\ sysAdminFunds \in Nat /\ gelatoBalance \in Nat
      /\ providerFunds \in [Accounts -> Nat]
      /\ executorStake \in [Addresses -> Nat]
      /\ params.minExecutorStake \in Nat /\ Accounts \subseteq Addresses
  BY DEF LedgerTypeOK, SysAdminTypeOK, ProvidersTypeOK, Params, Addresses
<1>1. CASE UNCHANGED <<sysAdminFunds, gelatoBalance, providerFunds, executorStake>>
  BY <1>1, SolventUnchanged
<1>2. ASSUME NEW sender, NEW v \in Amounts, WithdrawSysAdminFunds(sender, v),
             UNCHANGED providerVars
      PROVE  Solvent'
  BY <1>2, OwnerWithdraws DEF providerVars
<1>3. ASSUME NEW p \in Providers, NEW v \in Amounts, ProvideFunds(p, v)
      PROVE  Solvent'
  <2>1. /\ p \in Accounts /\ v \in Int
        /\ providerFunds' = [providerFunds EXCEPT ![p] = @ + v]
        /\ gelatoBalance' = gelatoBalance + v
        /\ UNCHANGED <<sysAdminFunds, executorStake>>
    BY <1>3 DEF ProvideFunds, ReceiveValue
  <2> QED
    BY <2>1, FundsMove
<1>4. ASSUME NEW sender \in Accounts, NEW v \in Amounts,
             \/ UnprovideFunds(sender, v)
             \/ \E S \in SUBSET TaskSpecs, M \in SUBSET Modules :
                    MultiUnprovide(sender, v, S, M)
      PROVE  Solvent'
  <2> DEFINE d == 0 - Lesser(v, providerFunds[sender])
  <2>1. d \in Int
    BY <1>0 DEF Lesser
  <2>2. /\ providerFunds' = [providerFunds EXCEPT ![sender] = @ + d]
        /\ gelatoBalance' = gelatoBalance + d
        /\ UNCHANGED <<sysAdminFunds, executorStake>>
    BY <1>0, <1>4 DEF UnprovideFunds, MultiUnprovide, SendValue, Lesser
  <2> HIDE DEF d
  <2> QED
    BY <2>1, <2>2, FundsMove
<1>5. ASSUME NEW sender \in Accounts, NEW v \in Amounts, NEW e, NEW ceils, NEW M,
             MultiProvide(sender, v, e, ceils, M)
      PROVE  Solvent'
  <2>1. v \in Int
    OBVIOUS
  <2>2. /\ providerFunds' = [providerFunds EXCEPT ![sender] = @ + v]
        /\ gelatoBalance' = gelatoBalance + v
        /\ UNCHANGED <<sysAdminFunds, executorStake>>
    BY <1>0, <1>5 DEF MultiProvide, ReceiveValue
  <2> QED
    BY <2>1, <2>2, FundsMove
<1>6. ASSUME NEW sender \in Accounts, NEW v \in Amounts, StakeExecutor(sender, v)
      PROVE  Solvent'
  <2>1. /\ v \in Int
        /\ executorStake' = [executorStake EXCEPT ![sender] = @ + v]
        /\ gelatoBalance' = gelatoBalance + v
        /\ UNCHANGED <<sysAdminFunds, providerFunds>>
    BY <1>6 DEF StakeExecutor, ReceiveValue
  <2> QED
    BY <2>1, StakeMoves
<1>7. ASSUME NEW sender \in Accounts, UnstakeExecutor(sender)
      PROVE  Solvent'
  <2> DEFINE d == 0 - executorStake[sender]
  <2>1. d \in Int /\ executorStake[sender] + d = 0
    BY <1>0
  <2>2. executorStake' = [executorStake EXCEPT ![sender] = 0]
    BY <1>7 DEF UnstakeExecutor
  <2>3. gelatoBalance' = gelatoBalance + d
    BY <1>0, <1>7 DEF UnstakeExecutor, SendValue
  <2>4. UNCHANGED <<sysAdminFunds, providerFunds>>
    BY <1>7 DEF UnstakeExecutor
  <2>5. executorStake' = [executorStake EXCEPT ![sender] = @ + d]
    BY <2>1, <2>2
  <2> HIDE DEF d
  <2> QED
    BY <2>1, <2>3, <2>4, <2>5, StakeMoves
<1>8. ASSUME NEW sender \in Accounts, NEW v \in Amounts,
             WithdrawExcessExecutorStake(sender, v)
      PROVE  Solvent'
  <2> DEFINE x == Lesser(v, executorStake[sender] - params.minExecutorStake)
  <2>1. x \in Int
    BY <1>0 DEF Lesser
  <2>2. /\ executorStake' = [executorStake EXCEPT ![sender] = @ - x]
        /\ gelatoBalance' = gelatoBalance - x
        /\ UNCHANGED <<sysAdminFunds, providerFunds>>
    BY <1>8 DEF WithdrawExcessExecutorStake, SendValue
  <2> HIDE DEF x
  <2> DEFINE d == 0 - x
  <2>3. d \in Int /\ gelatoBalance' = gelatoBalance + d
    BY <1>0, <2>1, <2>2
  <2>4. executorStake' = [executorStake EXCEPT ![sender] = @ + d]
    <3>1. executorStake[sender] + d = executorStake[sender] - x
      BY <1>0, <2>1
    <3> QED
      BY <2>2, <3>1
  <2> HIDE DEF d
  <2> QED
    BY <2>2, <2>3, <2>4, StakeMoves
<1>9. CASE \E a \in Accounts : LedgerStep(a)
  <2>1. PICK sender \in Accounts : LedgerStep(sender)
    BY <1>9
  <2>2. CASE SysAdminStep(sender) /\ UNCHANGED providerVars
    BY <1>1, <1>2, <2>2
    DEF SysAdminStep, OwnerSets, TransferOwnership, RenounceOwnership,
        SetGelatoGasPriceOracle, SetGelatoMaxGas, SetInternalGasRequirement,
        SetMinExecutorStake, SetExecutorSuccessShare, SetSysAdminSuccessShare,
        providerVars
  <2>3. CASE ProvidersStep(sender)
    BY <1>1, <1>3, <1>4, <1>5, <2>3
    DEF ProvidersStep, ProviderAssignsExecutor, ProvideTaskSpecs,
        UnprovideTaskSpecs, SetTaskSpecGasPriceCeil, AddProviderModules,
        RemoveProviderModules, sysAdminVars
  <2>4. CASE ExecutorsStep(sender)
    BY <1>1, <1>6, <1>7, <1>8, <2>4
    DEF ExecutorsStep, ExecutorAssignsExecutor, MultiReassignProviders, sysAdminVars
  <2> QED
    BY <2>1, <2>2, <2>3, <2>4 DEF LedgerStep
<1> QED
  BY <1>1, <1>9 DEF LedgerNext, OracleAnswers, vars, sysAdminVars, providerVars

LEMMA SolventInit == LedgerInit => Solvent
<1> SUFFICES ASSUME LedgerInit PROVE Solvent
  OBVIOUS
<1>1. Sum(providerFunds, Accounts) = 0 /\ Sum(executorStake, Addresses) = 0
  BY AddressesAreFinite, SumOfZeros DEF LedgerInit, ProvidersInit
<1> QED
  BY <1>1, SolventOwes DEF Owes, LedgerInit, SysAdminInit

-----------------------------------------------------------------------------
(* Theorems *)

\* The invariant holds in every reachable state: the types, and with them the
\* exactness of the counters that unstakeExecutor trusts.
THEOREM LedgerInvariant == LedgerSpec => []LedgerInv
<1>1. LedgerInv /\ [LedgerNext]_vars => LedgerInv'
  BY TypeStep, CountsStep DEF LedgerInv
<1> QED
  BY InitInv, <1>1, PTL DEF LedgerSpec

\* Types of the whole ledger, for every choice of the constants.
THEOREM LedgerTypeCorrect == LedgerSpec => []LedgerTypeOK
<1>1. LedgerInv => LedgerTypeOK
  BY DEF LedgerInv
<1> QED
  BY LedgerInvariant, <1>1, PTL

\* An executor's count is the number of providers assigned to it, whatever the
\* number of accounts and however the reassignments interleave.
THEOREM LedgerCountsExact == LedgerSpec => []CountsAreExact
<1>1. LedgerInv => CountsAreExact
  BY DEF LedgerInv
<1> QED
  BY LedgerInvariant, <1>1, PTL

\* Assignment locks stake: for every set of accounts and every history of the
\* minimum, an executor some provider relies on keeps what the minimum asks.
THEOREM LedgerStakeIsLocked == LedgerSpec => AssignedStakeIsLocked
<1>1. LedgerInv /\ [LedgerNext]_vars =>
        [\A p \in Accounts : \A e \in Accounts :
            executorByProvider[p] = e /\ executorStake'[e] < executorStake[e]
                => executorStake'[e] >= params.minExecutorStake]_vars
  BY StakeLockStep
<1> QED
  BY LedgerInvariant, <1>1, PTL DEF LedgerSpec, AssignedStakeIsLocked

\* Nothing but a raise of the minimum leaves a provider with an executor that
\* is not min-staked.
THEOREM LedgerExecutorsStayMinStaked == LedgerSpec => ExecutorsStayMinStaked
<1>1. LedgerInv /\ LedgerInv' /\ [LedgerNext]_vars =>
        [AllMinStaked /\ params'.minExecutorStake <= params.minExecutorStake
            => AllMinStaked']_vars
  BY MinStakedStep
<1> QED
  BY LedgerInvariant, <1>1, PTL DEF LedgerSpec, ExecutorsStayMinStaked

\* The contract's balance is the sum of what it owes, for any number of
\* accounts and amounts and whatever the order of deposits and withdrawals.
THEOREM LedgerSolvent == LedgerSpec => []Solvent
<1>1. LedgerInit => Solvent
  BY SolventInit
<1>2. LedgerTypeOK /\ Solvent /\ [LedgerNext]_vars => Solvent'
  BY SolventStep
<1> QED
  BY LedgerTypeCorrect, <1>1, <1>2, PTL DEF LedgerSpec

-----------------------------------------------------------------------------
(* The ledger together with PermissionedExecutors: what holds of            *)
(* GelatoExecutors holds while executions are paid for and while one of     *)
(* the executors is a contract, and the contract keeps nothing of the stake *)
(* it takes out.                                                            *)

(* Every step is a step of the ledger or pays for an execution. *)

Paid(provider, fee) ==
    /\ fee <= providerFunds[provider]
    /\ providerFunds' = [providerFunds EXCEPT ![provider] = @ - fee]
    /\ executorStake' = [executorStake EXCEPT ![Contract] = @ + fee]
    /\ UNCHANGED <<sysAdminVars, assignmentVars, whitelistVars>>

LEMMA PermissionedShape ==
    ASSUME [PermissionedNext]_allVars
    PROVE  \/ [LedgerNext]_vars
           \/ \E provider \in Providers, fee \in Amounts : Paid(provider, fee)
<1> USE PermissionedAssumption
<1>0. Contract \in Accounts
  BY ExecutorsAssumption
<1>1. ASSUME ExecutorsStep(Contract) PROVE [LedgerNext]_vars
  BY <1>0, <1>1 DEF LedgerNext, LedgerStep
<1>2. ASSUME NEW value \in Amounts, constructor(value) \/ stakeExecutor(value)
      PROVE  [LedgerNext]_vars
  BY <1>1, <1>2 DEF constructor, stakeExecutor, ExecutorsStep
<1>3. ASSUME NEW e, unstakeExecutor(e) PROVE [LedgerNext]_vars
  BY <1>1, <1>3 DEF unstakeExecutor, ExecutorsStep
<1>4. ASSUME NEW e, NEW amount \in Amounts, NEW value,
             withdrawExcessExecutorStake(e, amount, value)
      PROVE  [LedgerNext]_vars
  BY <1>1, <1>4 DEF withdrawExcessExecutorStake, ExecutorsStep
<1>5. ASSUME NEW P \in SUBSET Providers, NEW e \in Addresses,
             multiReassignProviders(P, e)
      PROVE  [LedgerNext]_vars
  BY <1>1, <1>5 DEF multiReassignProviders, ExecutorsStep
<1>6. ASSUME NEW p \in Providers, NEW fee \in Amounts, exec(p, fee)
      PROVE  \E provider \in Providers, amount \in Amounts : Paid(provider, amount)
  BY <1>6 DEF exec, Paid
<1>7. CASE Others
  BY <1>7 DEF Others, LedgerNext
<1>8. CASE UNCHANGED allVars
  BY <1>8 DEF allVars
<1> QED
  BY <1>2, <1>3, <1>4, <1>5, <1>6, <1>7, <1>8 DEF PermissionedNext

-----------------------------------------------------------------------------
(* What paying for an execution does to the ledger. *)

LEMMA PaidMoves ==
    ASSUME LedgerTypeOK, NEW provider \in Providers, NEW fee \in Amounts,
           Paid(provider, fee)
    PROVE  /\ provider \in Accounts /\ Contract \in Addresses /\ fee \in Nat
           /\ Adds(providerFunds, providerFunds', provider, 0 - fee, Accounts)
           /\ Adds(executorStake, executorStake', Contract, fee, Addresses)
           /\ providerFunds' \in [Accounts -> Nat]
           /\ executorStake' \in [Addresses -> Nat]
           /\ \A a \in Addresses : executorStake'[a] >= executorStake[a]
<1>1. provider \in Accounts /\ Contract \in Addresses /\ fee \in Nat
  BY SysAdminAssumption, ProvidersAssumption, ExecutorsAssumption,
     PermissionedAssumption DEF Addresses
<1>2. /\ providerFunds \in [Accounts -> Nat] /\ executorStake \in [Addresses -> Nat]
  BY DEF LedgerTypeOK, ProvidersTypeOK
<1>3. \A a \in Accounts :
        /\ providerFunds[a] \in Int
        /\ providerFunds'[a] = IF a = provider THEN providerFunds[a] + (0 - fee)
                               ELSE providerFunds[a]
  BY <1>1, <1>2 DEF Paid
<1>4. \A a \in Addresses :
        /\ executorStake[a] \in Int
        /\ executorStake'[a] = IF a = Contract THEN executorStake[a] + fee
                               ELSE executorStake[a]
  BY <1>1, <1>2 DEF Paid
<1>5. providerFunds' \in [Accounts -> Nat]
  BY <1>1, <1>2 DEF Paid
<1>6. executorStake' \in [Addresses -> Nat]
  BY <1>1, <1>2 DEF Paid
<1>7. \A a \in Addresses : executorStake'[a] >= executorStake[a]
  BY <1>1, <1>2, <1>4
<1> QED
  BY <1>1, <1>3, <1>4, <1>5, <1>6, <1>7 DEF Adds

LEMMA PaidKeepsInv ==
    ASSUME LedgerInv, NEW provider \in Providers, NEW fee \in Amounts,
           Paid(provider, fee)
    PROVE  LedgerInv'
<1>1. LedgerTypeOK'
  BY PaidMoves
  DEF LedgerInv, LedgerTypeOK, SysAdminTypeOK, ProvidersTypeOK, Paid, sysAdminVars,
      assignmentVars, whitelistVars
<1>2. CountsAreExact'
  BY CountsUnchanged DEF Paid
<1> QED
  BY <1>1, <1>2 DEF LedgerInv

LEMMA PaidKeepsSolvent ==
    ASSUME LedgerTypeOK, Solvent, NEW provider \in Providers, NEW fee \in Amounts,
           Paid(provider, fee)
    PROVE  Solvent'
<1>1. /\ UNCHANGED <<gelatoBalance, sysAdminFunds>>
      /\ gelatoBalance \in Int /\ sysAdminFunds \in Int
  BY DEF LedgerTypeOK, SysAdminTypeOK, Paid, sysAdminVars
<1>2. /\ Adds(providerFunds, providerFunds', provider, 0 - fee, Accounts)
      /\ Adds(executorStake, executorStake', Contract, fee, Addresses)
      /\ fee \in Nat
  BY PaidMoves
<1>3. gelatoBalance' - sysAdminFunds' = gelatoBalance - sysAdminFunds + (0 - fee) + fee
  BY <1>1, <1>2
<1>4. Owes(gelatoBalance, sysAdminFunds, providerFunds, executorStake)
  BY SolventOwes
<1>5. Owes(gelatoBalance', sysAdminFunds', providerFunds', executorStake')
  BY <1>1, <1>2, <1>3, <1>4, OwedIsKept
<1> QED
  BY <1>5, SolventOwes

-----------------------------------------------------------------------------
(* The contract's own ether *)

\* Nobody but the contract takes out of its stake.
LEMMA OthersLeaveStake ==
    ASSUME LedgerTypeOK, Others
    PROVE  executorStake'[Contract] >= executorStake[Contract]
<1> USE SysAdminAssumption, ProvidersAssumption, ExecutorsAssumption,
        PermissionedAssumption
<1>0. /\ executorStake \in [Addresses -> Nat]
      /\ Contract \in Addresses /\ Contract \in Accounts
  BY DEF LedgerTypeOK, ProvidersTypeOK, Addresses
<1>1. CASE UNCHANGED executorStake
  BY <1>0, <1>1
<1>2. ASSUME NEW sender \in Accounts \ {Contract}, LedgerStep(sender)
      PROVE  executorStake'[Contract] >= executorStake[Contract]
  <2>1. CASE SysAdminStep(sender) /\ UNCHANGED providerVars
    BY <1>1, <2>1 DEF providerVars
  <2>2. CASE ProvidersStep(sender)
    BY <1>1, <2>2
    DEF ProvidersStep, ProvideFunds, UnprovideFunds, ProviderAssignsExecutor,
        ProvideTaskSpecs, UnprovideTaskSpecs, SetTaskSpecGasPriceCeil,
        AddProviderModules, RemoveProviderModules, MultiProvide, MultiUnprovide
  <2>3. CASE ExecutorsStep(sender)
    <3>1. ASSUME NEW x, executorStake' = [executorStake EXCEPT ![sender] = x]
          PROVE  executorStake'[Contract] = executorStake[Contract]
      BY <1>0, <1>2, <3>1
    <3>2. \/ \E x : executorStake' = [executorStake EXCEPT ![sender] = x]
          \/ UNCHANGED executorStake
      BY <2>3
      DEF ExecutorsStep, StakeExecutor, UnstakeExecutor, WithdrawExcessExecutorStake,
          ExecutorAssignsExecutor, MultiReassignProviders
    <3> QED
      BY <1>0, <1>1, <3>1, <3>2
  <2> QED
    BY <1>2, <2>1, <2>2, <2>3 DEF LedgerStep
<1> QED
  BY <1>1, <1>2 DEF Others, providerVars

PassesThrough ==
    /\ Stake' < Stake => paid'.to \in Permitted
    /\ held' >= held
    /\ paid'.amount = IF Stake' < Stake THEN Stake - Stake' ELSE 0

LEMMA NothingPaid ==
    ASSUME Stake \in Nat, Stake' \in Nat, held \in Nat, Stake' >= Stake,
           held' >= held, paid' = Nothing
    PROVE  PassesThrough
<1>1. ~ (Stake' < Stake)
  OBVIOUS
<1>2. paid'.amount = 0
  BY DEF Nothing
<1> QED
  BY <1>1, <1>2 DEF PassesThrough

LEMMA StakePaid ==
    ASSUME Stake \in Nat, Stake' \in Nat, Stake' <= Stake,
           NEW e \in Permitted, paid' = [to |-> e, amount |-> Stake - Stake'],
           held' >= held
    PROVE  PassesThrough
<1>1. paid'.to = e /\ paid'.amount = Stake - Stake'
  OBVIOUS
<1>2. CASE Stake' < Stake
  BY <1>1, <1>2 DEF PassesThrough
<1>3. CASE Stake' = Stake
  <2>1. ~ (Stake' < Stake) /\ Stake - Stake' = 0
    BY <1>3
  <2> QED
    BY <1>1, <2>1 DEF PassesThrough
<1> QED
  BY <1>2, <1>3

LEMMA PassesThroughStep ==
    ASSUME LedgerInv, LedgerInv', held \in Nat, [PermissionedNext]_allVars
    PROVE  held' \in Nat /\ [PassesThrough]_allVars
<1> USE SysAdminAssumption, ProvidersAssumption, ExecutorsAssumption,
        PermissionedAssumption
<1>0. /\ executorStake \in [Addresses -> Nat] /\ executorStake' \in [Addresses -> Nat]
      /\ Contract \in Addresses /\ Contract \in Accounts
      /\ Stake \in Nat /\ Stake' \in Nat /\ params.minExecutorStake \in Nat
  BY DEF LedgerInv, LedgerTypeOK, SysAdminTypeOK, ProvidersTypeOK, Params, Addresses,
         Stake
<1>1. ASSUME NEW value \in Amounts, Holds(value) PROVE held' \in Nat /\ held' >= held
  BY <1>1 DEF Holds
<1>2. ASSUME NEW value \in Amounts, StakeExecutor(Contract, value)
      PROVE  Stake' >= Stake
  BY <1>0, <1>2 DEF StakeExecutor, Stake
<1>3. ASSUME NEW value \in Amounts, constructor(value) \/ stakeExecutor(value)
      PROVE  held' \in Nat /\ PassesThrough
  <2>1. /\ held' \in Nat /\ held' >= held
        /\ StakeExecutor(Contract, value) \/ UNCHANGED vars
    BY <1>1, <1>3 DEF constructor, stakeExecutor
  <2>2. Stake' >= Stake
    BY <1>0, <1>2, <2>1 DEF vars, providerVars, Stake
  <2> QED
    BY <1>0, <1>3, <2>1, <2>2, NothingPaid DEF constructor, stakeExecutor
<1>4. ASSUME NEW e \in Permitted, unstakeExecutor(e)
      PROVE  held' \in Nat /\ PassesThrough
  <2>1. /\ executorStake' = [executorStake EXCEPT ![Contract] = 0]
        /\ paid' = [to |-> e, amount |-> Stake] /\ held' = held
    BY <1>4 DEF unstakeExecutor, UnstakeExecutor
  <2>2. Stake' = 0 /\ Stake - Stake' = Stake /\ held' >= held
    BY <1>0, <2>1 DEF Stake
  <2> QED
    BY <1>0, <2>1, <2>2, StakePaid
<1>5. ASSUME NEW e \in Permitted, NEW amount \in Amounts, NEW value \in Amounts,
             withdrawExcessExecutorStake(e, amount, value)
      PROVE  held' \in Nat /\ PassesThrough
  <2> DEFINE x == Lesser(amount, executorStake[Contract] - params.minExecutorStake)
  <2>1. /\ executorStake' = [executorStake EXCEPT ![Contract] = @ - x]
        /\ executorStake[Contract] >= params.minExecutorStake
        /\ paid' = [to |-> e, amount |-> Stake - Stake'] /\ Holds(value)
    BY <1>5
    DEF withdrawExcessExecutorStake, WithdrawExcessExecutorStake, isExecutorMinStaked,
        Stake
  <2>2. x \in Nat
    BY <1>0, <2>1 DEF Lesser, Stake
  <2> HIDE DEF x
  <2>3. Stake' = Stake - x
    BY <1>0, <2>1 DEF Stake
  <2>4. Stake' <= Stake
    BY <1>0, <2>2, <2>3
  <2> QED
    BY <1>0, <1>1, <2>1, <2>4, StakePaid
<1>6. ASSUME NEW P, NEW e, multiReassignProviders(P, e)
      PROVE  held' \in Nat /\ PassesThrough
  <2>1. UNCHANGED <<executorStake, held>> /\ paid' = Nothing
    BY <1>6 DEF multiReassignProviders, MultiReassignProviders
  <2> QED
    BY <1>0, <2>1, NothingPaid DEF Stake
<1>7. ASSUME NEW p \in Providers, NEW fee \in Amounts, exec(p, fee)
      PROVE  held' \in Nat /\ PassesThrough
  <2>1. Paid(p, fee) /\ paid' = Nothing /\ held' = held
    BY <1>7 DEF exec, Paid
  <2>2. Stake' >= Stake
    BY <1>0, <2>1, PaidMoves DEF LedgerInv, Stake
  <2> QED
    BY <1>0, <2>1, <2>2, NothingPaid
<1>8. CASE Others
  <2>1. paid' = Nothing /\ held' = held
    BY <1>8 DEF Others, ownVars
  <2>2. Stake' >= Stake
    BY <1>8, OthersLeaveStake DEF LedgerInv, Stake
  <2> QED
    BY <1>0, <2>1, <2>2, NothingPaid
<1>9. CASE UNCHANGED allVars
  BY <1>9 DEF allVars, ownVars
<1> QED
  BY <1>3, <1>4, <1>5, <1>6, <1>7, <1>8, <1>9 DEF PermissionedNext

-----------------------------------------------------------------------------
(* Theorems *)

PermissionedInv == LedgerInv /\ Solvent /\ held \in Nat

\* Types, exact counts and solvency, with a contract among the executors and
\* fees that pass from providers to its stake.
THEOREM PermissionedInvariant == PermissionedSpec => []PermissionedInv
<1>1. PermissionedInit => PermissionedInv
  BY InitInv, SolventInit DEF PermissionedInit, PermissionedInv
<1>2. PermissionedInv /\ [PermissionedNext]_allVars => PermissionedInv'
  <2> SUFFICES ASSUME PermissionedInv, [PermissionedNext]_allVars
               PROVE  PermissionedInv'
    OBVIOUS
  <2>1. LedgerInv /\ LedgerTypeOK /\ Solvent /\ held \in Nat
    BY DEF PermissionedInv, LedgerInv
  <2>2. LedgerInv' /\ Solvent'
    <3>1. CASE [LedgerNext]_vars
      BY <2>1, <3>1, TypeStep, CountsStep, SolventStep DEF LedgerInv
    <3>2. ASSUME NEW p \in Providers, NEW fee \in Amounts, Paid(p, fee)
          PROVE  LedgerInv' /\ Solvent'
      BY <2>1, <3>2, PaidKeepsInv, PaidKeepsSolvent
    <3> QED
      BY <3>1, <3>2, PermissionedShape
  <2>3. held' \in Nat
    BY <2>1, <2>2, PassesThroughStep
  <2> QED
    BY <2>2, <2>3 DEF PermissionedInv
<1> QED
  BY <1>1, <1>2, PTL DEF PermissionedSpec

\* The balance is the sum of what is owed, while executions are paid for.
THEOREM PermissionedSolvent == PermissionedSpec => []Solvent
<1>1. PermissionedInv => Solvent
  BY DEF PermissionedInv
<1> QED
  BY PermissionedInvariant, <1>1, PTL

\* The counter that unstakeExecutor trusts is exact for the contract as for any
\* other executor.
THEOREM PermissionedCountsExact == PermissionedSpec => []CountsAreExact
<1>1. PermissionedInv => CountsAreExact
  BY DEF PermissionedInv, LedgerInv
<1> QED
  BY PermissionedInvariant, <1>1, PTL

\* Two executors of one stake cannot take out what a provider relies on.
THEOREM PermissionedStakeIsLocked == PermissionedSpec => AssignedStakeIsLocked
<1>1. PermissionedInv /\ [PermissionedNext]_allVars =>
        [\A p \in Accounts : \A e \in Accounts :
            executorByProvider[p] = e /\ executorStake'[e] < executorStake[e]
                => executorStake'[e] >= params.minExecutorStake]_vars
  <2> SUFFICES ASSUME PermissionedInv, [PermissionedNext]_allVars,
                      NEW p \in Accounts, NEW e \in Accounts,
                      executorByProvider[p] = e, executorStake'[e] < executorStake[e]
               PROVE  executorStake'[e] >= params.minExecutorStake
    OBVIOUS
  <2>1. LedgerInv /\ LedgerTypeOK
    BY DEF PermissionedInv, LedgerInv
  <2>2. ASSUME NEW q \in Providers, NEW fee \in Amounts, Paid(q, fee) PROVE FALSE
    <3>1. e \in Addresses /\ executorStake \in [Addresses -> Nat]
      BY <2>1 DEF Addresses, LedgerTypeOK, ProvidersTypeOK
    <3>2. /\ executorStake'[e] >= executorStake[e]
          /\ executorStake' \in [Addresses -> Nat]
      BY <2>1, <2>2, <3>1, PaidMoves
    <3> QED
      BY <3>1, <3>2
  <2> QED
    BY <2>1, <2>2, PermissionedShape, StakeLockStep
<1> QED
  BY PermissionedInvariant, <1>1, PTL DEF PermissionedSpec, AssignedStakeIsLocked

\* A provider of the contract loses its min-staked executor to nothing but a
\* raise of the minimum.
THEOREM PermissionedStayMinStaked == PermissionedSpec => ExecutorsStayMinStaked
<1>1. PermissionedInv /\ PermissionedInv' /\ [PermissionedNext]_allVars =>
        [AllMinStaked /\ params'.minExecutorStake <= params.minExecutorStake
            => AllMinStaked']_vars
  <2> SUFFICES ASSUME PermissionedInv, PermissionedInv', [PermissionedNext]_allVars,
                      AllMinStaked, params'.minExecutorStake <= params.minExecutorStake
               PROVE  AllMinStaked'
    OBVIOUS
  <2>1. LedgerInv /\ LedgerTypeOK /\ LedgerInv'
    BY DEF PermissionedInv, LedgerInv
  <2>2. ASSUME NEW q \in Providers, NEW fee \in Amounts, Paid(q, fee)
        PROVE  AllMinStaked'
    <3>1. /\ executorStake \in [Addresses -> Nat] /\ executorStake' \in [Addresses -> Nat]
          /\ executorByProvider \in [Accounts -> Addresses]
          /\ params.minExecutorStake \in Nat
          /\ UNCHANGED <<params, executorByProvider>>
          /\ \A a \in Addresses : executorStake'[a] >= executorStake[a]
      BY <2>1, <2>2, PaidMoves
      DEF LedgerTypeOK, SysAdminTypeOK, ProvidersTypeOK, Params, Paid, sysAdminVars,
          assignmentVars
    <3> QED
      BY <3>1 DEF AllMinStaked, isExecutorMinStaked
  <2> QED
    BY <2>1, <2>2, PermissionedShape, MinStakedStep
<1> QED
  BY PermissionedInvariant, <1>1, PTL DEF PermissionedSpec, ExecutorsStayMinStaked

\* What leaves the common stake is paid, to the last wei and in the same
\* transaction, to one of the two executors; for any set of accounts, any stake
\* and whoever reassigns, funds or is executed in between.
THEOREM StakeIsPassedThrough == PermissionedSpec => StakePassesThrough
<1>1. PermissionedInv /\ PermissionedInv' /\ [PermissionedNext]_allVars =>
        [PassesThrough]_allVars
  BY PassesThroughStep DEF PermissionedInv
<1>2. [][PassesThrough]_allVars => StakePassesThrough
  BY DEF PassesThrough, StakePassesThrough
<1> QED
  BY PermissionedInvariant, <1>1, <1>2, PTL DEF PermissionedSpec
=============================================================================
