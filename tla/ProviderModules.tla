--------------------------- MODULE ProviderModules ---------------------------
(***************************************************************************)
(* How the actions of a task reach its user's proxy: the provider module   *)
(* of the receipt says whether it trusts the proxy and encodes the actions *)
(* (execPayload), GelatoActionPipeline runs several of them and passes     *)
(* data between them, and execRevertCheck looks at what a proxy answers    *)
(* that catches reverts.  GelatoCore does this for a receipt and then for  *)
(* the next of its cycle; in between users change their proxies, and the   *)
(* owner of the module for Gnosis Safes what it provides.                  *)
(*                                                                         *)
(* Safes, DSProxies and DSAs are external and do what the modules rely on. *)
(* The proxy was created by the factory its module trusts.                 *)
(***************************************************************************)
EXTENDS Naturals, Sequences, SequencesExt

CONSTANTS Kinds,       \* the provider modules
          Types,       \* formats of the data that flows between actions
          MaxActions,  \* bound: actions of a task
          Copies       \* mastercopies of Safes

ProviderModulesAssumption ==
  /\ Kinds \subseteq {"GelatoUserProxy", "DSProxy", "DSA", "GnosisSafeProxy"}
  /\ Types \subseteq Nat \ {0}
  /\ MaxActions \in Nat

VARIABLES module,    \* the module of the receipt
          actions,   \* of the task
          proxy,     \* whether it is there, admits GelatoCore, and its mastercopy
          provided,  \* by the module for Safes: the code hash of Safes, mastercopies
          pc,        \* what has become of the execution
          saved,     \* the proxy when it began
          got,       \* the data each action has been called with
          data       \* dataFromLastOutFlowAction

run == <<pc, saved, got, data>>
vars == <<module, actions, proxy, provided, run>>

None == 0  \* no data, and its type

In == {"In", "InAndOut"}
Out == {"Out", "InAndOut"}
Actions ==
  {a \in [flow : {"None", "In", "Out", "InAndOut"}, in : Types \cup {None}, out : Types \cup {None}] :
     (a.in # None <=> a.flow \in In) /\ (a.out # None <=> a.flow \in Out)}

Proxies == [there : BOOLEAN, core : BOOLEAN, copy : Copies]

Init ==
  /\ module \in Kinds
  /\ actions \in UNION {[1 .. n -> Actions] : n \in 0 .. MaxActions}
  /\ proxy \in [there : {TRUE}, core : {TRUE}, copy : Copies]
  /\ provided = [hash |-> TRUE, copies |-> Copies]
  /\ pc = "stored" /\ saved = proxy /\ got = <<>> /\ data = None

----------------------------------------------------------------------------
(* GelatoActionPipeline.isValid: the loop over the actions, which stops at *)
(* the first that does not fit.  ok is FALSE while data waits to be used.  *)

Fits(s, a) == a.flow \in In => a.in = s.type

\* Variant: data that was not used may be replaced.
FlowOver(s, a) ==
  IF s.stopped THEN s
  ELSE IF ~ Fits(s, a) THEN [s EXCEPT !.ok = FALSE, !.stopped = TRUE]
  ELSE IF a.flow \in Out THEN [s EXCEPT !.ok = FALSE, !.type = a.out]
  ELSE [s EXCEPT !.ok = a.flow \in In \/ s.ok]

Flow(s, a) ==
  IF s.stopped THEN s
  ELSE IF ~ Fits(s, a) THEN [s EXCEPT !.ok = FALSE, !.stopped = TRUE]
  ELSE LET ok == a.flow \in In \/ s.ok IN
       IF a.flow \notin Out THEN [s EXCEPT !.ok = ok]
       ELSE IF ~ ok THEN [s EXCEPT !.stopped = TRUE]
       ELSE [s EXCEPT !.ok = FALSE, !.type = a.out]

isValid(list) ==
  FoldLeft(Flow, [ok |-> TRUE, type |-> None, stopped |-> FALSE], list).ok

----------------------------------------------------------------------------
(* The provider modules *)

ProvidedDSProxy == proxy.there /\ proxy.core
ProvidedDSA == proxy.there /\ proxy.core
ProvidedGnosisSafe ==
  /\ proxy.there /\ proxy.core
  /\ provided.hash /\ proxy.copy \in provided.copies

(* The factory knows a GelatoUserProxy also when it is gone. *)
isProvided ==
  \/ module = "GelatoUserProxy"
  \/ module = "DSProxy" /\ ProvidedDSProxy
  \/ module = "DSA" /\ ProvidedDSA
  \/ module = "GnosisSafeProxy" /\ ProvidedGnosisSafe

(* execPayload: one action is called as it is, several are given to the    *)
(* pipeline; a DSProxy gives it one, too, and a DSA casts all of them.     *)
Encodable == module \in {"DSProxy", "DSA"} \/ actions # <<>>
Piped ==
  \/ module = "DSProxy"
  \/ module \in {"GelatoUserProxy", "GnosisSafeProxy"} /\ Len(actions) > 1

\* Variant: nobody looks at what the Safe reports.
NoRevertCheck(success) == TRUE

(* execRevertCheck, asked for by the module for Safes only, reverts when   *)
(* the Safe reports that it has caught a revert.                           *)
execRevertCheck(success) == module = "GnosisSafeProxy" => success

provide(hash, copies) ==
  /\ hash => ~ provided.hash
  /\ copies \cap provided.copies = {}
  /\ provided' = [hash |-> provided.hash \/ hash, copies |-> provided.copies \cup copies]
  /\ UNCHANGED <<module, actions, proxy, run>>

unprovide(hash, copies) ==
  /\ hash => provided.hash
  /\ copies \subseteq provided.copies
  /\ provided' = [hash |-> provided.hash /\ ~ hash, copies |-> provided.copies \ copies]
  /\ UNCHANGED <<module, actions, proxy, run>>

----------------------------------------------------------------------------
(* GelatoCore._exec *)

Between == pc # "running"
KeepTask == UNCHANGED <<module, actions, provided>>

(* A task without payload fails at once.  The call of a proxy that is gone *)
(* succeeds and does nothing.                                              *)
Begin ==
  /\ Between /\ isProvided
  /\ pc' = IF ~ Encodable THEN "reverted" ELSE IF proxy.there THEN "running" ELSE "success"
  /\ saved' = proxy /\ got' = <<>> /\ data' = None
  /\ KeepTask /\ UNCHANGED proxy

Input(a) == IF Piped /\ a.flow \in In THEN data ELSE None

(* The next action; it may change the proxy it runs on. *)
RunAction ==
  /\ pc = "running" /\ Len(got) < Len(actions)
  /\ LET a == actions[Len(got) + 1] IN
       /\ got' = Append(got, Input(a))
       /\ data' = IF Piped /\ a.flow \in Out THEN a.out ELSE data
  /\ proxy' \in {proxy, [proxy EXCEPT !.core = FALSE], [proxy EXCEPT !.there = FALSE]}
  /\ KeepTask /\ UNCHANGED <<pc, saved>>

Rollback == proxy' = saved /\ got' = <<>> /\ data' = None

(* An action reverts, and the proxy with it, or the Safe catches that and  *)
(* has undone the actions before.                                          *)
ActionReverts ==
  /\ pc = "running" /\ Len(got) < Len(actions)
  /\ pc' = IF module = "GnosisSafeProxy" /\ execRevertCheck(FALSE) THEN "success" ELSE "reverted"
  /\ Rollback
  /\ KeepTask /\ UNCHANGED saved

Return ==
  /\ pc = "running" /\ Len(got) = Len(actions)
  /\ IF execRevertCheck(TRUE) THEN pc' = "success" /\ UNCHANGED <<proxy, got, data>>
                              ELSE pc' = "reverted" /\ Rollback
  /\ KeepTask /\ UNCHANGED saved

(* The user changes the proxy: who may call it, its mastercopy, whether it *)
(* is there.                                                               *)
UserChanges ==
  /\ Between
  /\ proxy' \in Proxies \ {proxy}
  /\ KeepTask /\ UNCHANGED run

TaskNext == Begin \/ RunAction \/ ActionReverts \/ Return

OwnerNext ==
  /\ Between
  /\ \E hash \in BOOLEAN, copies \in SUBSET Copies : provide(hash, copies) \/ unprovide(hash, copies)

Next == TaskNext \/ OwnerNext \/ UserChanges

Spec == Init /\ [][Next]_vars

----------------------------------------------------------------------------
(* Properties *)

\* The types of the variables.
TypeOK ==
  /\ module \in Kinds /\ actions \in Seq(Actions)
  /\ {proxy, saved} \subseteq Proxies
  /\ provided \in [hash : BOOLEAN, copies : SUBSET Copies]
  /\ pc \in {"stored", "running", "success", "reverted"}
  /\ got \in Seq(Types \cup {None}) /\ data \in Types \cup {None}

Delivered(i) == actions[i].flow \in In => got[i] = actions[i].in
Used(i) ==
  actions[i].flow \in Out =>
    \E j \in i + 1 .. Len(actions) :
      actions[j].flow \in In /\ \A k \in i + 1 .. j - 1 : actions[k].flow \notin Out

\* What isValid accepts is delivered, whether execPayload takes the pipeline or
\* not: every action is called with data of the format it expects, and what an
\* action hands on is used before it is replaced.  What isValid refuses is not.
\* (A DSA knows nothing of data flows.)
PipedAsChecked ==
  module # "DSA" =>
    /\ isValid(actions) => \A i \in DOMAIN got : Delivered(i)
    /\ pc = "success" /\ Len(got) = Len(actions) =>
         (isValid(actions) <=> \A i \in DOMAIN actions : Delivered(i) /\ Used(i))

\* GelatoCore rewards an execution, and goes on with the cycle, only when every
\* action was run, also when the proxy catches reverts; the one exception is a
\* GelatoUserProxy that is gone.  An execution that failed has left nothing.
SuccessMeansExecuted ==
  /\ pc = "success" =>
       Len(got) = Len(actions) \/ (module = "GelatoUserProxy" /\ ~ saved.there)
  /\ pc = "reverted" => got = <<>>
=============================================================================
