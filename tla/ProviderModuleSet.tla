-------------------------- MODULE ProviderModuleSet --------------------------
(* The library behind _providerModules, and (as GelatoUserProxySet) behind  *)
(* the factory's proxies by user: an array of elements and, for each, its   *)
(* position in the array plus one.  Removing swaps with the last and pops.  *)
EXTENDS Sequences, Integers

CONSTANT Elements

VARIABLES
    index,     \* position in modules, counted from 1; 0: not in the set
    modules

setVars == <<index, modules>>

SetInit ==
    /\ index = [m \in Elements |-> 0]
    /\ modules = <<>>

contains(m) == index[m] # 0

\* Variant: the index counts from 0.
addFromZero(m) ==
    /\ ~ contains(m)
    /\ modules' = Append(modules, m)
    /\ index' = [index EXCEPT ![m] = Len(modules)]

\* A second add() of the same element returns false and does nothing.
add(m) ==
    /\ ~ contains(m)
    /\ modules' = Append(modules, m)
    /\ index' = [index EXCEPT ![m] = Len(modules) + 1]

\* Variant: the element moved into the gap keeps its old position.
removeKeepsPosition(m) ==
    LET last == modules[Len(modules)] IN
    /\ contains(m)
    /\ modules' = SubSeq([modules EXCEPT ![index[m]] = last], 1, Len(modules) - 1)
    /\ index' = [index EXCEPT ![m] = 0]

\* The last element moves to the position of the one removed.  When that is
\* the last itself, its entry is the one deleted afterwards.
remove(m) ==
    LET last == modules[Len(modules)] IN
    /\ contains(m)
    /\ modules' = SubSeq([modules EXCEPT ![index[m]] = last], 1, Len(modules) - 1)
    /\ index' = [index EXCEPT ![last] = index[m], ![m] = 0]

SetNext == \E m \in Elements : add(m) \/ remove(m)

ModulesSpec == SetInit /\ [][SetNext]_setVars

-----------------------------------------------------------------------------
(* Properties *)

\* The two halves of the structure agree: the array holds exactly the elements
\* whose index is not 0, each at its index, so none twice.
IndexIsPosition ==
    /\ index \in [Elements -> 0..Len(modules)]
    /\ modules \in Seq(Elements)
    /\ \A i \in 1..Len(modules) : index[modules[i]] = i
    /\ \A m \in Elements : contains(m) => modules[index[m]] = m

\* contains() answers as a set would, whatever was added and removed before.
MemberSet == INSTANCE ModuleSet WITH members <- {m \in Elements : contains(m)}
ImplementsSet == MemberSet!SetSpec
=============================================================================
