------------------------------ MODULE ModuleSet ------------------------------
(* A set, as a provider's list of modules is meant to be used: elements are *)
(* added once, removed once, and enumerated in no particular order.         *)
CONSTANT Elements

VARIABLE members

SetInit == members = {}

AddMember(m) == m \notin members /\ members' = members \cup {m}
RemoveMember(m) == m \in members /\ members' = members \ {m}

SetNext == \E m \in Elements : AddMember(m) \/ RemoveMember(m)

SetSpec == SetInit /\ [][SetNext]_members
=============================================================================
