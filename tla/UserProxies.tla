----------------------------- MODULE UserProxies -----------------------------
(***************************************************************************)
(* GelatoUserProxyFactory, the GelatoUserProxy contracts it creates, and   *)
(* what GelatoCore keeps of the tasks they submit.                         *)
(*                                                                         *)
(* An action of a proxy runs code its author has chosen: it may spend the  *)
(* ether of the proxy, submit tasks to GelatoCore and, delegated to, even  *)
(* destroy the proxy.  The author is remembered with every action and      *)
(* every task, which the contracts do not do, to state whose they are.     *)
(* A transaction that reverts is no step.  The creators are accounts that  *)
(* are not proxies themselves.                                             *)
(***************************************************************************)
EXTENDS Naturals, FiniteSets

CONSTANTS Users,     \* accounts
          NoUser,    \* the address 0
          Salts,     \* the numbers users give createTwo
          MaxNonce,  \* bound: contracts the factory creates with create
          MaxEther,  \* bound: ether of a proxy
          MaxTasks   \* bound: tasks ever submitted

ASSUME UserProxiesAssumption ==
  /\ NoUser \notin Users
  /\ Salts \subseteq Nat
  /\ MaxNonce \in Nat /\ MaxEther \in Nat /\ MaxTasks \in Nat

VARIABLES nonce,               \* how many proxies the factory has created with CREATE
          code,                \* the user of the proxy at an address, if one is there
          userByGelatoProxy,   \* the factory's maps
          gelatoProxiesByUser,
          ether,               \* of every address a proxy may have
          tasks,               \* the receipts of GelatoCore: proxy and author
          submitted,           \* how many there have been
          acts                 \* what proxies did in the last transaction

vars == <<nonce, code, userByGelatoProxy, gelatoProxiesByUser, ether, tasks, submitted, acts>>

(* The address of a new contract is a hash of the factory's nonce, or of   *)
(* the salt, which is a hash of the sender and a number.                   *)
Proxies == [creator : {NoUser}, number : 1 .. MaxNonce] \cup [creator : Users, number : Salts]
AtNonce(n) == [creator |-> NoUser, number |-> n]
predictProxyAddress(user, saltNonce) == [creator |-> user, number |-> saltNonce]

Receipts == [id : 1 .. MaxTasks, proxy : Proxies, author : Users]

Init ==
  /\ nonce = 0
  /\ code = [p \in Proxies |-> NoUser]
  /\ userByGelatoProxy = [p \in Proxies |-> NoUser]
  /\ gelatoProxiesByUser = [u \in Users |-> {}]
  /\ ether = [p \in Proxies |-> 0]
  /\ tasks = {} /\ submitted = 0 /\ acts = {}

----------------------------------------------------------------------------
(* Effects *)

NewTasks(p, author, n) ==
  {[id |-> submitted + i, proxy |-> p, author |-> author] : i \in 1 .. n}

Submits(p, author, n) ==
  /\ submitted + n <= MaxTasks
  /\ tasks' = tasks \cup NewTasks(p, author, n)
  /\ submitted' = submitted + n

(* The actions of a transaction, together with the tasks it submits: ether *)
(* is spent, and a proxy that is destroyed leaves neither code nor ether.  *)
Acts(p, author, received) ==
  /\ acts' = {[proxy |-> p, author |-> author]}
  /\ \/ /\ \E left \in 0 .. ether[p] + received : ether' = [ether EXCEPT ![p] = left]
        /\ UNCHANGED code
     \/ /\ ether' = [ether EXCEPT ![p] = 0]
        /\ code' = [code EXCEPT ![p] = NoUser]

UnlessEmpty(n, p, author) ==
  IF n = 0 THEN UNCHANGED <<tasks, submitted>> ELSE Submits(p, author, n)

----------------------------------------------------------------------------
(* The factory *)

_storeGelatoUserProxy(u, p) ==
  /\ gelatoProxiesByUser' = [gelatoProxiesByUser EXCEPT ![u] = @ \cup {p}]
  /\ userByGelatoProxy' = [userByGelatoProxy EXCEPT ![p] = u]

(* new GelatoUserProxy and what the function that creates it goes on to    *)
(* do: the caller's actions, run by the factory, then the caller's tasks,  *)
(* or the first of a cycle or chain.  What was sent to the address before  *)
(* is the proxy's.                                                         *)
New(u, p, value, acting, n) ==
  /\ code[p] = NoUser
  /\ ether[p] + value <= MaxEther
  /\ _storeGelatoUserProxy(u, p)
  /\ IF acting
     THEN /\ acts' = {[proxy |-> p, author |-> u]}
          /\ \/ /\ \E left \in 0 .. ether[p] + value : ether' = [ether EXCEPT ![p] = left]
                /\ code' = [code EXCEPT ![p] = u]
             \/ /\ ether' = [ether EXCEPT ![p] = 0]
                /\ UNCHANGED code
     ELSE /\ ether' = [ether EXCEPT ![p] = @ + value]
          /\ code' = [code EXCEPT ![p] = u]
          /\ acts' = {}
  /\ UnlessEmpty(n, p, u)

(* create, createExecActions, createSubmitTasks, ...SubmitTaskCycle,       *)
(* ...SubmitTaskChain.                                                     *)
create(u, value, acting, n) ==
  /\ nonce < MaxNonce
  /\ nonce' = nonce + 1
  /\ New(u, AtNonce(nonce + 1), value, acting, n)

\* Variant: the salt is the number alone, and the first user's address is taken.
CreateTwoShared(u, saltNonce, value, acting, n) ==
  /\ \E first \in Users : New(u, predictProxyAddress(first, saltNonce), value, acting, n)
  /\ UNCHANGED nonce

(* createTwo and those that go on as above. *)
createTwo(u, saltNonce, value, acting, n) ==
  /\ New(u, predictProxyAddress(u, saltNonce), value, acting, n)
  /\ UNCHANGED nonce

----------------------------------------------------------------------------
(* The proxies *)

registry == <<nonce, userByGelatoProxy, gelatoProxiesByUser>>

receive(p, value) ==
  /\ ether[p] + value <= MaxEther
  /\ ether' = [ether EXCEPT ![p] = @ + value]
  /\ acts' = {}
  /\ UNCHANGED <<registry, code, tasks, submitted>>

\* Variant: as if a function that calls submitTask needed no check.
AnyoneSubmits(sender, p, n) ==
  /\ code[p] # NoUser
  /\ n # 0 /\ Submits(p, sender, n)
  /\ acts' = {}
  /\ UNCHANGED <<registry, code, ether>>

(* submitTask, submitTaskCycle, submitTaskChain (userOrFactory) and        *)
(* multiSubmitTasks, which calls the first for every task.  The factory    *)
(* calls them only for a new proxy.                                        *)
submitTask(sender, p, n) ==
  /\ code[p] = sender
  /\ n # 0 /\ Submits(p, sender, n)
  /\ acts' = {}
  /\ UNCHANGED <<registry, code, ether>>

(* cancelTask and multiCancelTasks (onlyUser). *)
cancelTask(sender, p, cancelled) ==
  /\ code[p] = sender
  /\ cancelled # {} /\ cancelled \subseteq {r \in tasks : r.proxy = p}
  /\ tasks' = tasks \ cancelled
  /\ acts' = {}
  /\ UNCHANGED <<registry, code, ether, submitted>>

(* execAction, multiExecActions and execActionsAndSubmitTaskCycle by the   *)
(* user (auth); n counts also the tasks that the actions submit.           *)
execAction(sender, p, value, n) ==
  /\ code[p] = sender
  /\ ether[p] + value <= MaxEther
  /\ Acts(p, sender, value)
  /\ UnlessEmpty(n, p, sender)
  /\ UNCHANGED registry

(* GelatoCore executes a task: the proxy runs its actions (auth).  The     *)
(* next task of the cycle, and those the actions submit, take its place.   *)
(* A call of an address without code succeeds and does nothing.            *)
exec(r, n) ==
  /\ r \in tasks
  /\ IF code[r.proxy] = NoUser
     THEN acts' = {} /\ UNCHANGED <<code, ether>>
     ELSE Acts(r.proxy, r.author, 0)
  /\ submitted + n <= MaxTasks
  /\ tasks' = (tasks \ {r}) \cup NewTasks(r.proxy, r.author, n)
  /\ submitted' = submitted + n
  /\ UNCHANGED registry

Next ==
  \/ \E u \in Users, value \in 0 .. MaxEther, acting \in BOOLEAN, n \in 0 .. MaxTasks :
       \/ create(u, value, acting, n)
       \/ \E saltNonce \in Salts : createTwo(u, saltNonce, value, acting, n)
       \/ \E p \in Proxies : execAction(u, p, value, n)
  \/ \E u \in Users, p \in Proxies :
       \/ \E n \in 1 .. MaxTasks : submitTask(u, p, n)
       \/ \E cancelled \in SUBSET tasks : cancelTask(u, p, cancelled)
  \/ \E p \in Proxies, value \in 1 .. MaxEther : receive(p, value)
  \/ \E r \in tasks, n \in 0 .. MaxTasks : exec(r, n)

Spec == Init /\ [][Next]_vars

----------------------------------------------------------------------------
(* Properties *)

(* Types: a proxy that is there is in the factory's map, with its user.    *)
TypeOK ==
  /\ nonce \in 0 .. MaxNonce /\ submitted \in 0 .. MaxTasks
  /\ code \in [Proxies -> Users \cup {NoUser}]
  /\ userByGelatoProxy \in [Proxies -> Users \cup {NoUser}]
  /\ gelatoProxiesByUser \in [Users -> SUBSET Proxies]
  /\ ether \in [Proxies -> 0 .. MaxEther]
  /\ tasks \subseteq Receipts
  /\ acts \subseteq [proxy : Proxies, author : Users]

(* The two maps of the factory always say the same, in particular no proxy *)
(* is ever listed for two users; and a proxy obeys the user the factory    *)
(* has listed it for, though it may have been destroyed and created again. *)
RegistryAgrees ==
  /\ \A p \in Proxies, u \in Users :
       p \in gelatoProxiesByUser[u] <=> userByGelatoProxy[p] = u
  /\ \A p \in Proxies : code[p] \in {NoUser, userByGelatoProxy[p]}

(* Whatever a proxy does, in a call, while it is created or when a task is *)
(* executed much later, was chosen by the user it is registered for; no    *)
(* one else submits a task of the proxy, so that GelatoCore, which may run *)
(* any action on it, runs its user's only.                                 *)
ProxyActsForUser ==
  /\ \A a \in acts : a.author = userByGelatoProxy[a.proxy]
  /\ \A r \in tasks : r.author = userByGelatoProxy[r.proxy]

(* What anyone sends to the address predicted for a user and a number,     *)
(* before the proxy is there, while it is or after it was destroyed, is    *)
(* spent only by actions which that user has chosen: no one else can bring *)
(* a proxy of his own to the address, or a task of another to the proxy.   *)
PredictedEtherIsUsers ==
  [][\A u \in Users, saltNonce \in Salts :
       LET p == predictProxyAddress(u, saltNonce)
       IN  ether'[p] < ether[p] => [proxy |-> p, author |-> u] \in acts']_vars
=============================================================================
