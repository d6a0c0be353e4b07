---------------------------- MODULE ContractProofs ----------------------------
(***************************************************************************)
(* The contracts beside GelatoCore.                                        *)
(*                                                                         *)
(* First the user proxies: the factory's registry and the authority over   *)
(* proxies, for any number of users, salts, proxies and tasks.             *)
(* RegistryAgrees and ProxyActsForUser need to know that an address is     *)
(* never given to two users: an address made from the nonce is new, one    *)
(* made from a salt is its user's own.                                     *)
(*                                                                         *)
(* Then the contracts side by side, as MCContracts puts them: the parts    *)
(* share no state, so that what is proved of each, for any values of its   *)
(* constants, holds of all of them together.                               *)
(***************************************************************************)
EXTENDS MCContracts, TLAPS

-----------------------------------------------------------------------------
(* The user proxies *)

AddressesAreOwn ==
  /\ \A n \in 1 .. MaxNonce : n > nonce => userByGelatoProxy[AtNonce(n)] = NoUser
  /\ \A u \in Users, s \in Salts :
       userByGelatoProxy[predictProxyAddress(u, s)] \in {NoUser, u}

IInv == TypeOK /\ RegistryAgrees /\ ProxyActsForUser /\ AddressesAreOwn

\* Addresses of the two kinds are proxies, and no two of them are the same.
LEMMA Addresses ==
  /\ \A n \in 1 .. MaxNonce : AtNonce(n) \in Proxies
  /\ \A u \in Users, s \in Salts : predictProxyAddress(u, s) \in Proxies
  /\ \A m, n \in 1 .. MaxNonce : AtNonce(m) = AtNonce(n) => m = n
  /\ \A u, v \in Users, s, t \in Salts :
       predictProxyAddress(u, s) = predictProxyAddress(v, t) => u = v
  /\ \A n \in 1 .. MaxNonce, u \in Users, s \in Salts : AtNonce(n) # predictProxyAddress(u, s)
  BY UserProxiesAssumption DEF Proxies, AtNonce, predictProxyAddress

\* The factory begins with empty maps.
LEMMA InitIInv == Init => IInv
<1> SUFFICES ASSUME Init PROVE IInv
  OBVIOUS
<1>1. TypeOK
  BY UserProxiesAssumption DEF Init, TypeOK, Receipts
<1>2. RegistryAgrees /\ ProxyActsForUser
  BY UserProxiesAssumption DEF Init, RegistryAgrees, ProxyActsForUser
<1>3. AddressesAreOwn
  BY Addresses DEF Init, AddressesAreOwn
<1> QED
  BY <1>1, <1>2, <1>3 DEF IInv

\* New receipts are receipts of the proxy, by their author.
LEMMA NewTasksAreReceipts ==
  ASSUME TypeOK, NEW p \in Proxies, NEW u \in Users, NEW n \in 0 .. MaxTasks,
         submitted + n <= MaxTasks
  PROVE  /\ NewTasks(p, u, n) \subseteq Receipts
         /\ submitted + n \in 0 .. MaxTasks
         /\ \A r \in NewTasks(p, u, n) : r.proxy = p /\ r.author = u
  BY UserProxiesAssumption DEF TypeOK, NewTasks, Receipts

\* What actions do leaves types as they were.
LEMMA ActsTypes ==
  ASSUME TypeOK, NEW p \in Proxies, NEW u \in Users, NEW value \in Nat,
         ether[p] + value <= MaxEther, Acts(p, u, value)
  PROVE  /\ ether' \in [Proxies -> 0 .. MaxEther]
         /\ code' \in [Proxies -> Users \cup {NoUser}]
         /\ acts' = {[proxy |-> p, author |-> u]}
         /\ acts' \subseteq [proxy : Proxies, author : Users]
         /\ \A q \in Proxies : code'[q] \in {NoUser, code[q]}
         /\ \A q \in Proxies : ether'[q] < ether[q] => q = p
<1>1. ether \in [Proxies -> 0 .. MaxEther] /\ code \in [Proxies -> Users \cup {NoUser}]
  BY DEF TypeOK
<1>2. acts' = {[proxy |-> p, author |-> u]}
  BY DEF Acts
<1>3. CASE /\ \E left \in 0 .. ether[p] + value : ether' = [ether EXCEPT ![p] = left]
           /\ UNCHANGED code
  <2>1. PICK left \in 0 .. ether[p] + value : ether' = [ether EXCEPT ![p] = left]
    BY <1>3
  <2>2. left \in 0 .. MaxEther
    BY <1>1, UserProxiesAssumption
  <2> QED
    BY <1>1, <1>2, <1>3, <2>1, <2>2
<1>4. CASE /\ ether' = [ether EXCEPT ![p] = 0]
           /\ code' = [code EXCEPT ![p] = NoUser]
  BY <1>1, <1>2, <1>4, UserProxiesAssumption
<1> QED
  BY <1>3, <1>4 DEF Acts

\* A function that submits n tasks, perhaps none, of proxy p for user u.
LEMMA TasksTypes ==
  ASSUME TypeOK, NEW p \in Proxies, NEW u \in Users, NEW n \in 0 .. MaxTasks,
         UnlessEmpty(n, p, u)
  PROVE  /\ tasks' \subseteq Receipts /\ submitted' \in 0 .. MaxTasks
         /\ \A r \in tasks' : r \in tasks \/ (r.proxy = p /\ r.author = u)
<1>1. CASE n = 0
  BY <1>1 DEF UnlessEmpty, TypeOK
<1>2. CASE n # 0
  <2>1. Submits(p, u, n)
    BY <1>2 DEF UnlessEmpty
  <2> QED
    BY <2>1, NewTasksAreReceipts DEF Submits, TypeOK
<1> QED
  BY <1>1, <1>2

\* A new proxy at an address that is nobody's or the user's own.
LEMMA NewStep ==
  ASSUME IInv, NEW u \in Users, NEW p \in Proxies, NEW value \in 0 .. MaxEther,
         NEW acting \in BOOLEAN, NEW n \in 0 .. MaxTasks,
         New(u, p, value, acting, n), userByGelatoProxy[p] \in {NoUser, u},
         nonce' \in 0 .. MaxNonce
  PROVE  /\ TypeOK' /\ RegistryAgrees' /\ ProxyActsForUser'
         /\ userByGelatoProxy' = [userByGelatoProxy EXCEPT ![p] = u]
         /\ \A q \in Proxies : ether'[q] < ether[q] => \E a \in acts' : a.proxy = q
<1> USE UserProxiesAssumption
<1>1. /\ code \in [Proxies -> Users \cup {NoUser}]
      /\ userByGelatoProxy \in [Proxies -> Users \cup {NoUser}]
      /\ gelatoProxiesByUser \in [Users -> SUBSET Proxies]
      /\ ether \in [Proxies -> 0 .. MaxEther]
      /\ tasks \subseteq Receipts
  BY DEF IInv, TypeOK
<1>2. /\ userByGelatoProxy' = [userByGelatoProxy EXCEPT ![p] = u]
      /\ gelatoProxiesByUser' = [gelatoProxiesByUser EXCEPT ![u] = @ \cup {p}]
      /\ ether[p] + value <= MaxEther
      /\ UnlessEmpty(n, p, u)
  BY DEF New, _storeGelatoUserProxy
<1>3. /\ tasks' \subseteq Receipts /\ submitted' \in 0 .. MaxTasks
      /\ \A r \in tasks' : r \in tasks \/ (r.proxy = p /\ r.author = u)
  BY <1>2, TasksTypes DEF IInv
<1>4. /\ acts' \in {{}, {[proxy |-> p, author |-> u]}}
      /\ ether' \in [Proxies -> 0 .. MaxEther]
      /\ code' \in [Proxies -> Users \cup {NoUser}]
      /\ \A q \in Proxies : q # p => code'[q] = code[q] /\ ether'[q] = ether[q]
      /\ code'[p] \in {NoUser, u}
      /\ ether'[p] < ether[p] => acts' # {}
  <2>1. CASE acting
    <3>1. acts' = {[proxy |-> p, author |-> u]}
      BY <2>1 DEF New
    <3>2. CASE /\ \E left \in 0 .. ether[p] + value : ether' = [ether EXCEPT ![p] = left]
               /\ code' = [code EXCEPT ![p] = u]
      <4>1. PICK left \in 0 .. ether[p] + value : ether' = [ether EXCEPT ![p] = left]
        BY <3>2
      <4>2. left \in 0 .. MaxEther
        BY <1>1, <1>2
      <4> QED
        BY <1>1, <3>1, <3>2, <4>1, <4>2
    <3>3. CASE ether' = [ether EXCEPT ![p] = 0] /\ UNCHANGED code
      <4>1. code[p] = NoUser
        BY DEF New
      <4> QED
        BY <1>1, <3>1, <3>3, <4>1
    <3> QED
      BY <2>1, <3>2, <3>3 DEF New
  <2>2. CASE ~ acting
    <3>1. /\ ether' = [ether EXCEPT ![p] = ether[p] + value]
          /\ code' = [code EXCEPT ![p] = u]
          /\ acts' = {}
      BY <2>2 DEF New
    <3>2. ether[p] + value \in 0 .. MaxEther
      BY <1>1, <1>2
    <3> QED
      BY <1>1, <3>1, <3>2
  <2> QED
    BY <2>1, <2>2
<1>5. TypeOK'
  <2>1. acts' \subseteq [proxy : Proxies, author : Users]
    BY <1>4
  <2>2. userByGelatoProxy' \in [Proxies -> Users \cup {NoUser}]
    BY <1>1, <1>2
  <2>3. gelatoProxiesByUser' \in [Users -> SUBSET Proxies]
    BY <1>1, <1>2
  <2> QED
    BY <1>3, <1>4, <2>1, <2>2, <2>3 DEF TypeOK
<1>6. RegistryAgrees'
  <2>1. ASSUME NEW q \in Proxies, NEW v \in Users
        PROVE  q \in gelatoProxiesByUser'[v] <=> userByGelatoProxy'[q] = v
    <3>1. q \in gelatoProxiesByUser[v] <=> userByGelatoProxy[q] = v
      BY DEF IInv, RegistryAgrees
    <3> QED
      BY <1>1, <1>2, <3>1
  <2>2. ASSUME NEW q \in Proxies
        PROVE  code'[q] \in {NoUser, userByGelatoProxy'[q]}
    <3>1. code[q] \in {NoUser, userByGelatoProxy[q]}
      BY DEF IInv, RegistryAgrees
    <3> QED
      BY <1>1, <1>2, <1>4, <3>1
  <2> QED
    BY <2>1, <2>2 DEF RegistryAgrees
<1>7. ProxyActsForUser'
  <2>1. ASSUME NEW a \in acts' PROVE a.author = userByGelatoProxy'[a.proxy]
    BY <1>1, <1>2, <1>4
  <2>2. ASSUME NEW r \in tasks' PROVE r.author = userByGelatoProxy'[r.proxy]
    <3>1. r.author \in Users /\ r.proxy \in Proxies
      BY <1>3 DEF Receipts
    <3>2. CASE r \in tasks
      <4>1. r.author = userByGelatoProxy[r.proxy]
        BY <3>2 DEF IInv, ProxyActsForUser
      <4> QED
        BY <1>1, <1>2, <3>1, <4>1
    <3>3. CASE r.proxy = p /\ r.author = u
      BY <1>1, <1>2, <3>3
    <3> QED
      BY <1>3, <3>2, <3>3
  <2> QED
    BY <2>1, <2>2 DEF ProxyActsForUser
<1>8. ASSUME NEW q \in Proxies, ether'[q] < ether[q]
      PROVE  \E a \in acts' : a.proxy = q
  <2>1. q = p
    BY <1>1, <1>4, <1>8
  <2> QED
    BY <1>4, <1>8, <2>1
<1> QED
  BY <1>2, <1>5, <1>6, <1>7, <1>8

----------------------------------------------------------------------------

\* Steps that leave the registry alone keep what it says of addresses.
LEMMA RegistryKept ==
  ASSUME IInv, UNCHANGED registry,
         \A q \in Proxies : code'[q] \in {NoUser, code[q]}
  PROVE  RegistryAgrees' /\ AddressesAreOwn'
<1>1. UNCHANGED <<nonce, userByGelatoProxy, gelatoProxiesByUser>>
  BY DEF registry
<1>2. AddressesAreOwn'
  BY <1>1 DEF IInv, AddressesAreOwn
<1>3. ASSUME NEW q \in Proxies PROVE code'[q] \in {NoUser, userByGelatoProxy[q]}
  BY DEF IInv, RegistryAgrees
<1> QED
  BY <1>1, <1>2, <1>3 DEF IInv, RegistryAgrees

\* The user of the proxy that is at an address is the one it is listed for.
LEMMA CodeIsRegistered ==
  ASSUME IInv, NEW p \in Proxies, NEW u \in Users, code[p] = u
  PROVE  userByGelatoProxy[p] = u
  BY UserProxiesAssumption DEF IInv, RegistryAgrees

\* A step as every action makes it, but receive and cancelTask.
LEMMA ActStep ==
  ASSUME IInv, NEW p \in Proxies, NEW u \in Users, userByGelatoProxy[p] = u,
         UNCHANGED registry,
         code' \in [Proxies -> Users \cup {NoUser}],
         \A q \in Proxies : code'[q] \in {NoUser, code[q]},
         ether' \in [Proxies -> 0 .. MaxEther],
         acts' \in {{}, {[proxy |-> p, author |-> u]}},
         tasks' \subseteq Receipts, submitted' \in 0 .. MaxTasks,
         \A r \in tasks' : r \in tasks \/ (r.proxy = p /\ r.author = u)
  PROVE  IInv'
<1>1. RegistryAgrees' /\ AddressesAreOwn'
  BY RegistryKept
<1>2. UNCHANGED <<nonce, userByGelatoProxy, gelatoProxiesByUser>>
  BY DEF registry
<1>3. acts' \subseteq [proxy : Proxies, author : Users]
  OBVIOUS
<1>4. TypeOK'
  BY <1>2, <1>3 DEF IInv, TypeOK
<1>5. ProxyActsForUser'
  BY <1>2 DEF IInv, ProxyActsForUser
<1> QED
  BY <1>1, <1>4, <1>5 DEF IInv

LEMMA CreateStep ==
  ASSUME IInv, NEW u \in Users, NEW value \in 0 .. MaxEther, NEW acting \in BOOLEAN,
         NEW n \in 0 .. MaxTasks, create(u, value, acting, n)
  PROVE  IInv' /\ \A q \in Proxies : ether'[q] < ether[q] => \E a \in acts' : a.proxy = q
<1> DEFINE p == AtNonce(nonce + 1)
<1>1. nonce + 1 \in 1 .. MaxNonce /\ nonce' = nonce + 1 /\ New(u, p, value, acting, n)
  BY UserProxiesAssumption DEF create, IInv, TypeOK
<1>2. p \in Proxies
  BY <1>1, Addresses
<1>3. userByGelatoProxy[p] = NoUser
  BY <1>1, UserProxiesAssumption DEF IInv, AddressesAreOwn, TypeOK
<1>4. nonce' \in 0 .. MaxNonce
  BY <1>1
<1> HIDE DEF p
<1>5. /\ TypeOK' /\ RegistryAgrees' /\ ProxyActsForUser'
      /\ userByGelatoProxy' = [userByGelatoProxy EXCEPT ![p] = u]
      /\ \A q \in Proxies : ether'[q] < ether[q] => \E a \in acts' : a.proxy = q
  BY <1>1, <1>2, <1>3, <1>4, NewStep
<1>6. userByGelatoProxy \in [Proxies -> Users \cup {NoUser}] /\ nonce \in Nat
  BY UserProxiesAssumption DEF IInv, TypeOK
<1>7. ASSUME NEW m \in 1 .. MaxNonce, m > nonce'
      PROVE  userByGelatoProxy'[AtNonce(m)] = NoUser
  <2>1. AtNonce(m) # p /\ AtNonce(m) \in Proxies
    BY <1>1, <1>6, <1>7, Addresses DEF p
  <2>2. userByGelatoProxy[AtNonce(m)] = NoUser
    BY <1>1, <1>6, <1>7 DEF IInv, AddressesAreOwn
  <2> QED
    BY <1>5, <1>6, <2>1, <2>2
<1>8. ASSUME NEW v \in Users, NEW s \in Salts
      PROVE  userByGelatoProxy'[predictProxyAddress(v, s)] \in {NoUser, v}
  <2>1. predictProxyAddress(v, s) # p /\ predictProxyAddress(v, s) \in Proxies
    BY <1>1, Addresses DEF p
  <2>2. userByGelatoProxy[predictProxyAddress(v, s)] \in {NoUser, v}
    BY DEF IInv, AddressesAreOwn
  <2> QED
    BY <1>5, <1>6, <2>1, <2>2
<1> QED
  BY <1>5, <1>7, <1>8 DEF IInv, AddressesAreOwn

LEMMA CreateTwoStep ==
  ASSUME IInv, NEW u \in Users, NEW saltNonce \in Salts, NEW value \in 0 .. MaxEther,
         NEW acting \in BOOLEAN, NEW n \in 0 .. MaxTasks,
         createTwo(u, saltNonce, value, acting, n)
  PROVE  IInv' /\ \A q \in Proxies : ether'[q] < ether[q] => \E a \in acts' : a.proxy = q
<1> DEFINE p == predictProxyAddress(u, saltNonce)
<1>1. nonce' = nonce /\ New(u, p, value, acting, n)
  BY DEF createTwo
<1>2. p \in Proxies /\ userByGelatoProxy[p] \in {NoUser, u} /\ nonce' \in 0 .. MaxNonce
  BY <1>1, Addresses DEF IInv, AddressesAreOwn, TypeOK
<1> HIDE DEF p
<1>3. /\ TypeOK' /\ RegistryAgrees' /\ ProxyActsForUser'
      /\ userByGelatoProxy' = [userByGelatoProxy EXCEPT ![p] = u]
      /\ \A q \in Proxies : ether'[q] < ether[q] => \E a \in acts' : a.proxy = q
  BY <1>1, <1>2, NewStep
<1>4. userByGelatoProxy \in [Proxies -> Users \cup {NoUser}]
  BY DEF IInv, TypeOK
<1>5. ASSUME NEW m \in 1 .. MaxNonce, m > nonce'
      PROVE  userByGelatoProxy'[AtNonce(m)] = NoUser
  <2>1. AtNonce(m) # p /\ AtNonce(m) \in Proxies
    BY Addresses DEF p
  <2>2. userByGelatoProxy[AtNonce(m)] = NoUser
    BY <1>1, <1>5 DEF IInv, AddressesAreOwn
  <2> QED
    BY <1>3, <1>4, <2>1, <2>2
<1>6. ASSUME NEW v \in Users, NEW s \in Salts
      PROVE  userByGelatoProxy'[predictProxyAddress(v, s)] \in {NoUser, v}
  <2>1. predictProxyAddress(v, s) \in Proxies
    BY Addresses
  <2>2. userByGelatoProxy[predictProxyAddress(v, s)] \in {NoUser, v}
    BY DEF IInv, AddressesAreOwn
  <2>3. predictProxyAddress(v, s) = p => v = u
    BY Addresses DEF p
  <2> QED
    BY <1>3, <1>4, <2>1, <2>2, <2>3
<1> QED
  BY <1>3, <1>5, <1>6 DEF IInv, AddressesAreOwn

\* Ether that is sent to an address comes to what is there.
LEMMA ReceiveStep ==
  ASSUME IInv, NEW p \in Proxies, NEW value \in 0 .. MaxEther, receive(p, value)
  PROVE  IInv' /\ \A q \in Proxies : ~ ether'[q] < ether[q]
<1>1. /\ UNCHANGED registry /\ UNCHANGED <<code, tasks, submitted>>
      /\ acts' = {}
      /\ ether' = [ether EXCEPT ![p] = ether[p] + value]
      /\ ether[p] + value <= MaxEther
  BY DEF receive
<1>2. ether \in [Proxies -> 0 .. MaxEther]
  BY DEF IInv, TypeOK
<1>3. ether[p] + value \in 0 .. MaxEther
  BY <1>1, <1>2, UserProxiesAssumption
<1>4. ether' \in [Proxies -> 0 .. MaxEther]
  BY <1>1, <1>2, <1>3
<1>5. TypeOK'
  BY <1>1, <1>4 DEF IInv, TypeOK, registry
<1>6. RegistryAgrees' /\ AddressesAreOwn'
  BY <1>1, RegistryKept
<1>7. ProxyActsForUser'
  BY <1>1 DEF IInv, ProxyActsForUser, registry
<1>8. \A q \in Proxies : ~ ether'[q] < ether[q]
  BY <1>1, <1>2, <1>3
<1> QED
  BY <1>5, <1>6, <1>7, <1>8 DEF IInv

\* The user of a proxy submits tasks for it.
LEMMA SubmitStep ==
  ASSUME IInv, NEW u \in Users, NEW p \in Proxies, NEW n \in 1 .. MaxTasks,
         submitTask(u, p, n)
  PROVE  IInv' /\ UNCHANGED ether
<1>1. /\ code[p] = u /\ UnlessEmpty(n, p, u) /\ acts' = {}
      /\ UNCHANGED registry /\ UNCHANGED <<code, ether>>
  BY DEF submitTask, UnlessEmpty
<1>2. n \in 0 .. MaxTasks
  BY UserProxiesAssumption
<1>3. /\ tasks' \subseteq Receipts /\ submitted' \in 0 .. MaxTasks
      /\ \A r \in tasks' : r \in tasks \/ (r.proxy = p /\ r.author = u)
  BY <1>1, <1>2, TasksTypes DEF IInv
<1>4. userByGelatoProxy[p] = u
  BY <1>1, CodeIsRegistered
<1>5. code' \in [Proxies -> Users \cup {NoUser}] /\ ether' \in [Proxies -> 0 .. MaxEther]
  BY <1>1 DEF IInv, TypeOK
<1> QED
  BY <1>1, <1>3, <1>4, <1>5, ActStep

\* The user of a proxy cancels some of its tasks.
LEMMA CancelStep ==
  ASSUME IInv, NEW u \in Users, NEW p \in Proxies, NEW dropped \in SUBSET tasks,
         cancelTask(u, p, dropped)
  PROVE  IInv' /\ UNCHANGED ether
<1>1. /\ code[p] = u /\ tasks' = tasks \ dropped /\ acts' = {}
      /\ UNCHANGED registry /\ UNCHANGED <<code, ether, submitted>>
  BY DEF cancelTask
<1>2. userByGelatoProxy[p] = u
  BY <1>1, CodeIsRegistered
<1>3. /\ code' \in [Proxies -> Users \cup {NoUser}]
      /\ ether' \in [Proxies -> 0 .. MaxEther]
      /\ tasks' \subseteq Receipts /\ submitted' \in 0 .. MaxTasks
  BY <1>1 DEF IInv, TypeOK
<1> QED
  BY <1>1, <1>2, <1>3, ActStep

\* The user of a proxy runs actions on it.
LEMMA ExecActionStep ==
  ASSUME IInv, NEW u \in Users, NEW p \in Proxies, NEW value \in 0 .. MaxEther,
         NEW n \in 0 .. MaxTasks, execAction(u, p, value, n)
  PROVE  IInv' /\ \A q \in Proxies : ether'[q] < ether[q] => \E a \in acts' : a.proxy = q
<1>1. /\ code[p] = u /\ ether[p] + value <= MaxEther
      /\ Acts(p, u, value) /\ UnlessEmpty(n, p, u) /\ UNCHANGED registry
  BY DEF execAction
<1>2. value \in Nat
  BY UserProxiesAssumption
<1>3. /\ ether' \in [Proxies -> 0 .. MaxEther]
      /\ code' \in [Proxies -> Users \cup {NoUser}]
      /\ acts' = {[proxy |-> p, author |-> u]}
      /\ \A q \in Proxies : code'[q] \in {NoUser, code[q]}
      /\ \A q \in Proxies : ether'[q] < ether[q] => q = p
  BY <1>1, <1>2, ActsTypes DEF IInv
<1>4. /\ tasks' \subseteq Receipts /\ submitted' \in 0 .. MaxTasks
      /\ \A r \in tasks' : r \in tasks \/ (r.proxy = p /\ r.author = u)
  BY <1>1, TasksTypes DEF IInv
<1>5. userByGelatoProxy[p] = u
  BY <1>1, CodeIsRegistered
<1>6. IInv'
  BY <1>1, <1>3, <1>4, <1>5, ActStep
<1> QED
  BY <1>3, <1>6

\* GelatoCore executes a task that is still there.
LEMMA ExecStep ==
  ASSUME IInv, NEW r \in tasks, NEW n \in 0 .. MaxTasks, exec(r, n)
  PROVE  IInv' /\ \A q \in Proxies : ether'[q] < ether[q] => \E a \in acts' : a.proxy = q
<1> DEFINE p == r.proxy
           u == r.author
<1>1. /\ IF code[p] = NoUser THEN acts' = {} /\ UNCHANGED <<code, ether>> ELSE Acts(p, u, 0)
      /\ submitted + n <= MaxTasks
      /\ tasks' = (tasks \ {r}) \cup NewTasks(p, u, n)
      /\ submitted' = submitted + n
      /\ UNCHANGED registry
  BY DEF exec
<1>2. p \in Proxies /\ u \in Users
  BY DEF IInv, TypeOK, Receipts
<1>3. userByGelatoProxy[p] = u
  BY DEF IInv, ProxyActsForUser
<1> HIDE DEF p, u
<1>4. /\ ether \in [Proxies -> 0 .. MaxEther]
      /\ code \in [Proxies -> Users \cup {NoUser}]
      /\ tasks \subseteq Receipts
  BY DEF IInv, TypeOK
<1>5. /\ ether' \in [Proxies -> 0 .. MaxEther]
      /\ code' \in [Proxies -> Users \cup {NoUser}]
      /\ acts' \in {{}, {[proxy |-> p, author |-> u]}}
      /\ \A q \in Proxies : code'[q] \in {NoUser, code[q]}
      /\ \A q \in Proxies : ether'[q] < ether[q] => \E a \in acts' : a.proxy = q
  <2>1. CASE code[p] = NoUser
    BY <1>1, <1>4, <2>1, UserProxiesAssumption
  <2>2. CASE code[p] # NoUser
    <3>1. Acts(p, u, 0) /\ 0 \in Nat /\ ether[p] + 0 <= MaxEther
      BY <1>1, <1>2, <1>4, <2>2, UserProxiesAssumption
    <3>2. /\ ether' \in [Proxies -> 0 .. MaxEther]
          /\ code' \in [Proxies -> Users \cup {NoUser}]
          /\ acts' = {[proxy |-> p, author |-> u]}
          /\ \A q \in Proxies : code'[q] \in {NoUser, code[q]}
          /\ \A q \in Proxies : ether'[q] < ether[q] => q = p
      BY <1>2, <3>1, ActsTypes DEF IInv
    <3> QED
      BY <3>2
  <2> QED
    BY <2>1, <2>2
<1>6. /\ NewTasks(p, u, n) \subseteq Receipts /\ submitted + n \in 0 .. MaxTasks
      /\ \A t \in NewTasks(p, u, n) : t.proxy = p /\ t.author = u
  BY <1>1, <1>2, NewTasksAreReceipts DEF IInv
<1>7. /\ tasks' \subseteq Receipts /\ submitted' \in 0 .. MaxTasks
      /\ \A t \in tasks' : t \in tasks \/ (t.proxy = p /\ t.author = u)
  BY <1>1, <1>4, <1>6
<1>8. IInv'
  BY <1>1, <1>2, <1>3, <1>5, <1>7, ActStep
<1> QED
  BY <1>5, <1>8

\* What every step keeps, and what it takes to lower the ether of a proxy.
LEMMA NextStep ==
  ASSUME IInv, Next
  PROVE  IInv' /\ \A q \in Proxies : ether'[q] < ether[q] => \E a \in acts' : a.proxy = q
<1> DEFINE Goal == IInv' /\ \A q \in Proxies : ether'[q] < ether[q] => \E a \in acts' : a.proxy = q
<1>1. ether \in [Proxies -> 0 .. MaxEther]
  BY DEF IInv, TypeOK
<1>2. ASSUME IInv', UNCHANGED ether PROVE Goal
  BY <1>1, <1>2, UserProxiesAssumption
<1>3. ASSUME NEW u \in Users, NEW value \in 0 .. MaxEther, NEW acting \in BOOLEAN,
             NEW n \in 0 .. MaxTasks,
             \/ create(u, value, acting, n)
             \/ \E saltNonce \in Salts : createTwo(u, saltNonce, value, acting, n)
             \/ \E p \in Proxies : execAction(u, p, value, n)
      PROVE  Goal
  BY <1>3, CreateStep, CreateTwoStep, ExecActionStep
<1>4. ASSUME NEW u \in Users, NEW p \in Proxies,
             \/ \E n \in 1 .. MaxTasks : submitTask(u, p, n)
             \/ \E dropped \in SUBSET tasks : cancelTask(u, p, dropped)
      PROVE  Goal
  <2>1. IInv' /\ UNCHANGED ether
    BY <1>4, SubmitStep, CancelStep
  <2> QED
    BY <1>2, <2>1
<1>5. ASSUME NEW p \in Proxies, NEW value \in 1 .. MaxEther, receive(p, value) PROVE Goal
  <2>1. value \in 0 .. MaxEther
    BY UserProxiesAssumption
  <2> QED
    BY <1>5, <2>1, ReceiveStep
<1>6. ASSUME NEW r \in tasks, NEW n \in 0 .. MaxTasks, exec(r, n) PROVE Goal
  BY <1>6, ExecStep
<1> QED
  BY <1>3, <1>4, <1>5, <1>6 DEF Next

\* A step that changes nothing keeps everything.
LEMMA StutterStep ==
  ASSUME IInv, UNCHANGED vars
  PROVE  IInv' /\ \A q \in Proxies : ether'[q] < ether[q] => \E a \in acts' : a.proxy = q
<1>1. IInv'
  BY DEF vars, IInv, TypeOK, RegistryAgrees, ProxyActsForUser, AddressesAreOwn
<1>2. ether \in [Proxies -> 0 .. MaxEther] /\ ether' = ether
  BY DEF vars, IInv, TypeOK
<1> QED
  BY <1>1, <1>2, UserProxiesAssumption

\* The inductive invariant holds in every reachable state of the factory,
\* its proxies and GelatoCore's tasks.
LEMMA Inductive == Spec => []IInv
<1>1. Init => IInv
  BY InitIInv
<1>2. IInv /\ [Next]_vars => IInv'
  BY NextStep, StutterStep
<1> QED
  BY <1>1, <1>2, PTL DEF Spec

----------------------------------------------------------------------------

\* Whatever users, actions and executors do, the variables of the factory,
\* the proxies and the tasks keep their types.
THEOREM TypeCorrect == Spec => []TypeOK
<1>1. IInv => TypeOK
  BY DEF IInv
<1> QED
  BY <1>1, Inductive, PTL

\* The factory's two maps always agree, no proxy is listed for two users,
\* and each obeys the one it is listed for, though actions destroy proxies
\* and createTwo puts them back.
THEOREM RegistryTheorem == Spec => []RegistryAgrees
<1>1. IInv => RegistryAgrees
  BY DEF IInv
<1> QED
  BY <1>1, Inductive, PTL

\* Every action a proxy runs and every task GelatoCore holds for it was
\* chosen by the user the factory lists the proxy for.
THEOREM ActsForUserTheorem == Spec => []ProxyActsForUser
<1>1. IInv => ProxyActsForUser
  BY DEF IInv
<1> QED
  BY <1>1, Inductive, PTL

\* Ether at an address predicted for a user, even from before there was a proxy,
\* is spent by actions of that user only.
THEOREM EtherTheorem == Spec => PredictedEtherIsUsers
<1> DEFINE Spent ==
      \A u \in Users, saltNonce \in Salts :
        LET p == predictProxyAddress(u, saltNonce)
        IN  ether'[p] < ether[p] => [proxy |-> p, author |-> u] \in acts'
<1>1. ASSUME IInv, IInv', Next PROVE Spent
  <2> SUFFICES ASSUME NEW u \in Users, NEW s \in Salts,
                      ether'[predictProxyAddress(u, s)] < ether[predictProxyAddress(u, s)]
               PROVE  [proxy |-> predictProxyAddress(u, s), author |-> u] \in acts'
    OBVIOUS
  <2>1. PICK a \in acts' : a.proxy = predictProxyAddress(u, s)
    BY <1>1, NextStep, Addresses
  <2>2. a = [proxy |-> predictProxyAddress(u, s), author |-> u]
    <3>1. a.author \in Users /\ a = [proxy |-> a.proxy, author |-> a.author]
      BY <1>1 DEF IInv, TypeOK
    <3>2. a.author = userByGelatoProxy'[predictProxyAddress(u, s)]
      BY <1>1, <2>1 DEF IInv, ProxyActsForUser
    <3>3. a.author \in {NoUser, u}
      BY <1>1, <3>2 DEF IInv, AddressesAreOwn, predictProxyAddress
    <3> QED
      BY <2>1, <3>1, <3>3, UserProxiesAssumption
  <2> QED
    BY <2>2
<1>2. IInv /\ IInv' /\ [Next]_vars => [Spent]_vars
  BY <1>1
<1> QED
  BY <1>2, Inductive, PTL DEF Spec, PredictedEtherIsUsers

-----------------------------------------------------------------------------
(* The contracts together.  Every part has the inductive invariant of its   *)
(* component, and a step of another part is a stuttering one of its own.    *)

ReceiptsInv ==
  IF part = "search" THEN Search!ChainInv /\ Search!RunsOK ELSE Race!ChainInv /\ Race!RunsOK

TasksInv == IF part = "pipe" THEN Pipe!TaskInv ELSE Trust!TaskInv

FeesInv == Fees!FeeInv /\ Fees!CoinsOK /\ Fees!BoundsOK

ContractsInv == FeesInv /\ ReceiptsInv /\ TasksInv

LEMMA InitContracts == ContractsInit => ContractsInv
<1> SUFFICES ASSUME ContractsInit PROVE ContractsInv
  OBVIOUS
<1>1. FeesInv
  BY Fees!InitFees, Fees!CoinsInit, InstancesAssumption DEF ContractsInit, FeesInv
<1>2. ReceiptsInv
  BY Search!ChainInit, Search!RunInit, Race!ChainInit, Race!RunInit, InstancesAssumption
  DEF ContractsInit, ReceiptsInv
<1>3. TasksInv
  BY Pipe!TaskInit, Trust!TaskInit, InstancesAssumption DEF ContractsInit, TasksInv
<1> QED
  BY <1>1, <1>2, <1>3 DEF ContractsInv

\* Whatever part moves, each takes a step of its own or none.
LEMMA EachSteps ==
  ASSUME [ContractsNext]_contractsVars
  PROVE  /\ part' = part
         /\ [Fees!Next]_Fees!vars
         /\ IF part = "search" THEN [Search!Next]_Search!vars ELSE [Race!Next]_Race!vars
         /\ IF part = "pipe" THEN [Pipe!Next]_Pipe!vars ELSE [Trust!Next]_Trust!vars
<1>1. UNCHANGED feeVars => UNCHANGED Fees!vars
  BY DEF feeVars, Fees!vars, Fees!factoryVars
<1>2. UNCHANGED receiptVars => UNCHANGED Search!vars /\ UNCHANGED Race!vars
  BY DEF receiptVars, Search!vars, Search!contract, Race!vars, Race!contract
<1>3. UNCHANGED taskVars => UNCHANGED Pipe!vars /\ UNCHANGED Trust!vars
  BY DEF taskVars, Pipe!vars, Pipe!run, Trust!vars, Trust!run
<1>4. CASE ProxiesMove
  BY <1>1, <1>2, <1>3, <1>4 DEF ProxiesMove
<1>5. CASE SetMoves
  BY <1>1, <1>2, <1>3, <1>5 DEF SetMoves
<1>6. CASE FeesMove
  BY <1>2, <1>3, <1>6 DEF FeesMove
<1>7. CASE ReceiptsMove
  BY <1>1, <1>3, <1>7 DEF ReceiptsMove
<1>8. CASE TasksMove
  BY <1>1, <1>2, <1>8 DEF TasksMove, Pipe!Next
<1>9. CASE UNCHANGED contractsVars
  BY <1>1, <1>2, <1>3, <1>9 DEF contractsVars
<1> QED
  BY <1>4, <1>5, <1>6, <1>7, <1>8, <1>9 DEF ContractsNext

LEMMA ContractsStep == ContractsInv /\ [ContractsNext]_contractsVars => ContractsInv'
<1> SUFFICES ASSUME ContractsInv, [ContractsNext]_contractsVars PROVE ContractsInv'
  OBVIOUS
<1>1. FeesInv'
  BY EachSteps, Fees!FeeStep, Fees!CoinsStep, InstancesAssumption DEF ContractsInv, FeesInv
<1>2. ReceiptsInv'
  BY EachSteps, Search!ChainStep, Search!RunStep, Race!ChainStep, Race!RunStep,
     InstancesAssumption
  DEF ContractsInv, ReceiptsInv
<1>3. TasksInv'
  BY EachSteps, Pipe!TaskStep, Trust!TaskStep, InstancesAssumption DEF ContractsInv, TasksInv
<1> QED
  BY <1>1, <1>2, <1>3 DEF ContractsInv

\* The inductive invariant of the contracts beside GelatoCore.
THEOREM ContractsInvariant == ContractsSpec => []ContractsInv
<1> QED
  BY InitContracts, ContractsStep, PTL DEF ContractsSpec

\* What termsOk of a fee handler accepts does not revert unless the handler takes
\* no fee, when it always does, and no account ever has more than there is.
THEOREM AcceptedFeesArePaid == ContractsSpec => []AcceptedIsPayable
<1>1. ContractsInv => AcceptedIsPayable
  BY Fees!AcceptedFollows, Fees!FeeTypes, InstancesAssumption
  DEF ContractsInv, FeesInv, AcceptedIsPayable
<1> QED
  BY <1>1, ContractsInvariant, PTL

\* Whichever contract acts, what a payer loses by an action of a fee handler is
\* its share of the amount, rounded up, and the provider of the handler has it.
THEOREM ContractFeesAreShares == ContractsSpec => FeesAreShares
<1>1. ContractsInv => Fees!FeeIsShare
  BY Fees!SharesPaid, InstancesAssumption DEF ContractsInv, FeesInv
<1> QED
  BY <1>1, ContractsInvariant, PTL DEF FeesAreShares, Fees!FeesAreShares, Fees!FeeIsShare

\* What a script has found, also in a range or a transaction, is the receipt its id
\* names there, and what it sends is what GelatoCore has stored.
THEOREM FetchedReceiptIsAsked == ContractsSpec => []FetchedIsAsked
<1>1. ContractsInv => FetchedIsAsked
  BY Search!ReceiptTypes, Search!FetchedFollows, Race!ReceiptTypes, Race!FetchedFollows
  DEF ContractsInv, ReceiptsInv, FetchedIsAsked
<1> QED
  BY <1>1, ContractsInvariant, PTL

\* Executors and users may race for a receipt: it ends once.
THEOREM ReceiptsEndOnce == ContractsSpec => []ExecutedOrCancelledOnce
<1>1. ContractsInv => ExecutedOrCancelledOnce
  BY Search!EndedOnce, Race!EndedOnce DEF ContractsInv, ReceiptsInv, ExecutedOrCancelledOnce
<1> QED
  BY <1>1, ContractsInvariant, PTL

\* When gc-cancel-task reports success its task is cancelled, whoever else raced
\* for it.
THEOREM CancelReportsAreTrue == ContractsSpec => []CancelReportIsTrue
<1>1. ContractsInv => CancelReportIsTrue
  BY Search!ReportFollows, Race!ReportFollows DEF ContractsInv, ReceiptsInv, CancelReportIsTrue
<1> QED
  BY <1>1, ContractsInvariant, PTL

\* What isValid of the pipeline accepts is delivered and what it refuses is not,
\* also when proxies and what is provided change while a task is checked.
THEOREM PipedInContracts == ContractsSpec => []PipedAsChecked
<1>1. ContractsInv => PipedAsChecked
  BY Pipe!PipedFollows, Trust!PipedFollows
  DEF ContractsInv, TasksInv, PipedAsChecked, Pipe!TaskInv, Trust!TaskInv
<1> QED
  BY <1>1, ContractsInvariant, PTL

\* A reward is paid only for an execution that ran every action, unless the
\* GelatoUserProxy is gone; one that failed has left nothing.
THEOREM RewardedIsExecuted == ContractsSpec => []SuccessMeansExecuted
<1>1. ContractsInv => SuccessMeansExecuted
  BY DEF ContractsInv, TasksInv, Pipe!TaskInv, Trust!TaskInv, SuccessMeansExecuted,
         Pipe!SuccessMeansExecuted, Trust!SuccessMeansExecuted
<1> QED
  BY <1>1, ContractsInvariant, PTL
=============================================================================
