----------------------------- MODULE ScriptProofs -----------------------------
(***************************************************************************)
(* The scripts that create something or search for events: what a run      *)
(* returns is its own, or all that it was asked for, for any number of     *)
(* runs, accounts, contracts and blocks.                                   *)
(*                                                                         *)
(* First the runs that create user proxies, whose address is the number of *)
(* the proxy; then those that deploy, which are told apart by the numbers  *)
(* of their transactions; then the searches, whose blocks are told apart   *)
(* by their names.  Runs that look for fee handlers have the invariant of  *)
(* FeeHandlerProofs.  In the end the scripts together, as MCScripts puts   *)
(* them: they share no state.                                              *)
(***************************************************************************)
EXTENDS MCScripts, TLAPS

-----------------------------------------------------------------------------
(* Runs that create user proxies *)

ProxyLog == [tx : Runs \cup {"other"}, user : Users, proxy : UserProxy!Proxies]

CreationsOK ==
  /\ creations \in Seq(ProxyLog)
  /\ \A i \in DOMAIN creations : creations[i].tx \in Runs =>
       \E n \in 1 .. nonce :
         /\ creations[i].proxy = UserProxy!AtNonce(n)
         /\ creations[i].proxy \in gelatoProxiesByUser[Signer]
         /\ userByGelatoProxy[creations[i].proxy] = Signer
  /\ \A i, j \in DOMAIN creations :
       /\ creations[i].tx \in Runs /\ creations[j].tx \in Runs
       /\ creations[i].proxy = creations[j].proxy
       => i = j

ProxyRunsOK ==
  /\ proxyRuns \in [Runs -> [pc : {"start", "sent", "refused", "mined", "done", "failed"},
                             proxy : UserProxy!Proxies \cup {UserProxy!NoProxy}]]
  /\ \A r \in Runs : proxyRuns[r].pc = "done" =>
       \E i \in DOMAIN creations : creations[i].tx = r /\ proxyRuns[r].proxy = creations[i].proxy

ProxyInv ==
  /\ nonce \in 0 .. MaxNonce
  /\ userByGelatoProxy \in [UserProxy!Proxies -> Users \cup {NoUser}]
  /\ gelatoProxiesByUser \in [Users -> SUBSET UserProxy!Proxies]
  /\ CreationsOK /\ ProxyRunsOK

LEMMA ProxyConstants ==
  /\ FundedRuns \subseteq Runs /\ "other" \notin Runs
  /\ Signer \in Users /\ NoUser \notin Users
  /\ MaxNonce \in Nat /\ MaxCreations \in Nat
  BY InstancesAssumption DEF UserProxy!ProxyScriptAssumption

\* Addresses of the two kinds are proxies, and no two of them are the same.
LEMMA ProxyAddresses ==
  /\ \A n \in 1 .. MaxNonce : UserProxy!AtNonce(n) \in UserProxy!Proxies
  /\ \A u \in Users, s \in Salts : UserProxy!predictProxyAddress(u, s) \in UserProxy!Proxies
  /\ \A m, n : UserProxy!AtNonce(m) = UserProxy!AtNonce(n) => m = n
  /\ \A n, s : \A u \in Users : UserProxy!AtNonce(n) # UserProxy!predictProxyAddress(u, s)
  BY ProxyConstants DEF UserProxy!Proxies, UserProxy!AtNonce, UserProxy!predictProxyAddress

LEMMA InitProxy == ASSUME UserProxy!ScriptInit PROVE ProxyInv
<1>1. Len(creations) = 0 /\ creations \in Seq(ProxyLog) /\ DOMAIN creations = {}
  BY DEF UserProxy!ScriptInit
<1>2. CreationsOK
  BY <1>1 DEF CreationsOK
<1>3. ProxyRunsOK
  BY DEF UserProxy!ScriptInit, ProxyRunsOK
<1> QED
  BY <1>2, <1>3, ProxyConstants DEF UserProxy!ScriptInit, UserProxy!Init, ProxyInv

\* A run moves on; no proxy is created.
LEMMA ProxyRunMoves ==
  ASSUME ProxyInv, NEW r \in Runs, UNCHANGED <<UserProxy!vars, creations>>,
         NEW c \in [pc : {"start", "sent", "refused", "mined", "done", "failed"},
                    proxy : UserProxy!Proxies \cup {UserProxy!NoProxy}],
         proxyRuns' = [proxyRuns EXCEPT ![r] = c],
         c.pc = "done" =>
           \E i \in DOMAIN creations : creations[i].tx = r /\ c.proxy = creations[i].proxy
  PROVE  ProxyInv'
<1>1. /\ UNCHANGED <<nonce, userByGelatoProxy, gelatoProxiesByUser, creations>>
  BY DEF UserProxy!vars
<1>2. CreationsOK'
  BY <1>1 DEF ProxyInv, CreationsOK
<1>3. proxyRuns' \in [Runs -> [pc : {"start", "sent", "refused", "mined", "done", "failed"},
                               proxy : UserProxy!Proxies \cup {UserProxy!NoProxy}]]
  BY DEF ProxyInv, ProxyRunsOK
<1>4. ASSUME NEW q \in Runs, proxyRuns'[q].pc = "done"
      PROVE  \E i \in DOMAIN creations :
               creations[i].tx = q /\ proxyRuns'[q].proxy = creations[i].proxy
  <2>1. CASE q = r
    BY <1>4, <2>1 DEF ProxyInv, ProxyRunsOK
  <2>2. CASE q # r
    BY <1>4, <2>2 DEF ProxyInv, ProxyRunsOK
  <2> QED
    BY <2>1, <2>2
<1> QED
  BY <1>1, <1>2, <1>3, <1>4 DEF ProxyInv, ProxyRunsOK

\* A proxy that is created, and its log: one that a run has created is at the
\* next number, which no log has had.
LEMMA ProxyCreated ==
  ASSUME ProxyInv, NEW u \in Users, NEW p \in UserProxy!Proxies, NEW tx \in Runs \cup {"other"},
         UserProxy!_storeGelatoUserProxy(u, p),
         nonce' \in nonce .. MaxNonce,
         \A n \in 1 .. nonce : p # UserProxy!AtNonce(n),
         tx \in Runs => u = Signer /\ nonce' = nonce + 1 /\ p = UserProxy!AtNonce(nonce + 1),
         creations' = Append(creations, UserProxy!Log(tx, u, p))
  PROVE  /\ nonce' \in 0 .. MaxNonce
         /\ userByGelatoProxy' \in [UserProxy!Proxies -> Users \cup {NoUser}]
         /\ gelatoProxiesByUser' \in [Users -> SUBSET UserProxy!Proxies]
         /\ CreationsOK'
         /\ DOMAIN creations \subseteq DOMAIN creations'
         /\ \A i \in DOMAIN creations : creations'[i] = creations[i]
<1> DEFINE new == Len(creations) + 1
           log == UserProxy!Log(tx, u, p)
<1>1. /\ log \in ProxyLog /\ log.tx = tx /\ log.proxy = p
  BY DEF UserProxy!Log, ProxyLog
<1> HIDE DEF log
<1>2. /\ creations \in Seq(ProxyLog) /\ Len(creations) \in Nat
      /\ DOMAIN creations = 1 .. Len(creations)
      /\ creations' = Append(creations, log)
  BY DEF ProxyInv, CreationsOK, log
<1>3. /\ creations' \in Seq(ProxyLog) /\ DOMAIN creations' = 1 .. new
      /\ creations'[new] = log
      /\ \A i \in DOMAIN creations : creations'[i] = creations[i]
  BY <1>1, <1>2
<1>4. nonce \in Nat /\ MaxNonce \in Nat /\ nonce' \in 0 .. MaxNonce /\ nonce <= nonce'
  BY ProxyConstants DEF ProxyInv
<1>5. /\ userByGelatoProxy' = [userByGelatoProxy EXCEPT ![p] = u]
      /\ gelatoProxiesByUser' = [gelatoProxiesByUser EXCEPT ![u] = @ \cup {p}]
      /\ userByGelatoProxy \in [UserProxy!Proxies -> Users \cup {NoUser}]
      /\ gelatoProxiesByUser \in [Users -> SUBSET UserProxy!Proxies]
  BY DEF UserProxy!_storeGelatoUserProxy, ProxyInv
<1>6. ASSUME NEW i \in DOMAIN creations', creations'[i].tx \in Runs
      PROVE  \E n \in 1 .. nonce' :
               /\ creations'[i].proxy = UserProxy!AtNonce(n)
               /\ creations'[i].proxy \in gelatoProxiesByUser'[Signer]
               /\ userByGelatoProxy'[creations'[i].proxy] = Signer
  <2>1. CASE i = new
    <3>1. tx \in Runs /\ u = Signer /\ nonce' = nonce + 1 /\ p = UserProxy!AtNonce(nonce + 1)
      BY <1>1, <1>3, <1>6, <2>1
    <3>2. nonce + 1 \in 1 .. nonce'
      BY <1>4, <3>1
    <3>3. creations'[i].proxy = p
      BY <1>1, <1>3, <2>1
    <3>4. p \in gelatoProxiesByUser'[Signer] /\ userByGelatoProxy'[p] = Signer
      BY <1>5, <3>1
    <3> QED
      BY <3>1, <3>2, <3>3, <3>4
  <2>2. CASE i # new
    <3>1. i \in DOMAIN creations /\ creations'[i] = creations[i]
      BY <1>2, <1>3, <2>2
    <3>2. PICK n \in 1 .. nonce : /\ creations[i].proxy = UserProxy!AtNonce(n)
                                  /\ creations[i].proxy \in gelatoProxiesByUser[Signer]
                                  /\ userByGelatoProxy[creations[i].proxy] = Signer
      BY <1>6, <3>1 DEF ProxyInv, CreationsOK
    <3>3. n \in 1 .. nonce' /\ creations[i].proxy # p /\ creations[i].proxy \in UserProxy!Proxies
      BY <1>4, <1>5, <3>2, ProxyConstants
    <3>4. creations[i].proxy \in gelatoProxiesByUser'[Signer]
      BY <1>5, <3>2, ProxyConstants
    <3>5. userByGelatoProxy'[creations[i].proxy] = Signer
      BY <1>5, <3>2, <3>3
    <3> QED
      BY <3>1, <3>2, <3>3, <3>4, <3>5
  <2> QED
    BY <2>1, <2>2
<1>7. ASSUME NEW i \in DOMAIN creations', NEW j \in DOMAIN creations',
             creations'[i].tx \in Runs, creations'[j].tx \in Runs,
             creations'[i].proxy = creations'[j].proxy
      PROVE  i = j
  <2>1. ASSUME NEW k \in DOMAIN creations, creations'[k].tx \in Runs,
               creations'[k].proxy = p
        PROVE  FALSE
    <3>1. PICK n \in 1 .. nonce : creations[k].proxy = UserProxy!AtNonce(n)
      BY <1>3, <2>1 DEF ProxyInv, CreationsOK
    <3> QED
      BY <1>3, <2>1, <3>1
  <2>2. CASE i \in DOMAIN creations /\ j \in DOMAIN creations
    BY <1>3, <1>7, <2>2 DEF ProxyInv, CreationsOK
  <2>3. (i \notin DOMAIN creations => i = new) /\ (j \notin DOMAIN creations => j = new)
    BY <1>2, <1>3
  <2>4. creations'[new].proxy = p
    BY <1>1, <1>3
  <2> QED
    BY <1>7, <2>1, <2>2, <2>3, <2>4
<1>8. CreationsOK'
  BY <1>3, <1>6, <1>7 DEF CreationsOK
<1>9. DOMAIN creations \subseteq DOMAIN creations'
  BY <1>2, <1>3
<1> QED
  BY <1>3, <1>4, <1>5, <1>8, <1>9

LEMMA ProxyStep == ASSUME ProxyInv, [UserProxy!ScriptNext]_UserProxy!allVars PROVE ProxyInv'
<1> DEFINE Pcs == {"start", "sent", "refused", "mined", "done", "failed"}
           Places == UserProxy!Proxies \cup {UserProxy!NoProxy}
<1>1. /\ nonce \in Nat /\ MaxNonce \in Nat /\ nonce \in 0 .. MaxNonce
      /\ proxyRuns \in [Runs -> [pc : Pcs, proxy : Places]]
  BY ProxyConstants DEF ProxyInv, ProxyRunsOK
<1>2. ASSUME NEW r \in Runs, NEW to \in Pcs \ {"done"}, UserProxy!Goto(r, to),
             UNCHANGED <<UserProxy!vars, creations>>
      PROVE  ProxyInv'
  <2> DEFINE c == [proxyRuns[r] EXCEPT !.pc = to]
  <2>1. c \in [pc : Pcs, proxy : Places] /\ c.pc # "done"
    BY <1>1
  <2>2. proxyRuns' = [proxyRuns EXCEPT ![r] = c]
    BY <1>2 DEF UserProxy!Goto
  <2> QED
    BY <1>2, <2>1, <2>2, ProxyRunMoves
<1>3. ASSUME NEW r \in Runs, UserProxy!Send(r) PROVE ProxyInv'
  BY <1>2, <1>3 DEF UserProxy!Send
<1>4. ASSUME NEW r \in Runs, UserProxy!Fetch(r) PROVE ProxyInv'
  <2>1. CASE UserProxy!Goto(r, "failed")
    BY <1>2, <1>4, <2>1 DEF UserProxy!Fetch
  <2>2. CASE \E i \in DOMAIN creations :
               /\ creations[i].tx = r
               /\ proxyRuns' = [proxyRuns EXCEPT ![r].pc = "done", ![r].proxy = creations[i].proxy]
    <3>1. PICK i \in DOMAIN creations :
            /\ creations[i].tx = r
            /\ proxyRuns' = [proxyRuns EXCEPT ![r].pc = "done", ![r].proxy = creations[i].proxy]
      BY <2>2
    <3> DEFINE c == [proxyRuns[r] EXCEPT !.pc = "done", !.proxy = creations[i].proxy]
    <3>2. creations[i] \in ProxyLog
      BY <3>1 DEF ProxyInv, CreationsOK
    <3>3. c \in [pc : Pcs, proxy : Places] /\ c.proxy = creations[i].proxy
      BY <1>1, <3>2 DEF ProxyLog
    <3>4. proxyRuns' = [proxyRuns EXCEPT ![r] = c]
      BY <1>1, <3>1
    <3> QED
      BY ZenonT(60), <1>4, <3>1, <3>3, <3>4, ProxyRunMoves DEF UserProxy!Fetch
  <2> QED
    BY <1>4, <2>1, <2>2 DEF UserProxy!Fetch
<1>5. ASSUME NEW u \in Users, NEW value, NEW tx \in Runs \cup {"other"}, tx \in Runs => u = Signer,
             UserProxy!create(u, value, FALSE, 0),
             creations' = Append(creations, UserProxy!Log(tx, u, UserProxy!AtNonce(nonce + 1))),
             UNCHANGED proxyRuns \/ \E r \in Runs : UserProxy!Goto(r, "mined")
      PROVE  ProxyInv'
  <2> DEFINE p == UserProxy!AtNonce(nonce + 1)
  <2>1. /\ nonce < MaxNonce /\ nonce' = nonce + 1
        /\ UserProxy!_storeGelatoUserProxy(u, p)
    BY <1>5 DEF UserProxy!create, UserProxy!New
  <2>2. nonce + 1 \in 1 .. MaxNonce /\ nonce' \in nonce .. MaxNonce
    BY <1>1, <2>1
  <2>3. p \in UserProxy!Proxies /\ \A n \in 1 .. nonce : p # UserProxy!AtNonce(n)
    BY <1>1, <2>2, ProxyAddresses
  <2>4. /\ nonce' \in 0 .. MaxNonce
        /\ userByGelatoProxy' \in [UserProxy!Proxies -> Users \cup {NoUser}]
        /\ gelatoProxiesByUser' \in [Users -> SUBSET UserProxy!Proxies]
        /\ CreationsOK'
        /\ DOMAIN creations \subseteq DOMAIN creations'
        /\ \A i \in DOMAIN creations : creations'[i] = creations[i]
    BY <1>5, <2>1, <2>2, <2>3, ProxyCreated
  <2>5. ProxyRunsOK'
    <3>1. /\ proxyRuns' \in [Runs -> [pc : Pcs, proxy : Places]]
          /\ \A q \in Runs : proxyRuns'[q].pc = "done" => proxyRuns'[q] = proxyRuns[q]
      BY <1>1, <1>5 DEF UserProxy!Goto
    <3> QED
      BY <2>4, <3>1 DEF ProxyInv, ProxyRunsOK
  <2> QED
    BY <2>4, <2>5 DEF ProxyInv
<1>6. ASSUME NEW r \in Runs, UserProxy!Mine(r) PROVE ProxyInv'
  <2>1. CASE UserProxy!Goto(r, "failed") /\ UNCHANGED <<UserProxy!vars, creations>>
    BY <1>2, <2>1
  <2>2. CASE \E value \in 0 .. MaxEther :
               /\ UserProxy!create(Signer, value, FALSE, 0)
               /\ creations' = Append(creations,
                    UserProxy!Log(r, Signer, UserProxy!AtNonce(nonce + 1)))
               /\ UserProxy!Goto(r, "mined")
    BY <1>5, <2>2, ProxyConstants
  <2> QED
    BY <1>6, <2>1, <2>2 DEF UserProxy!Mine
<1>7. ASSUME UserProxy!OtherCreates PROVE ProxyInv'
  <2>1. ASSUME NEW u \in Users, UserProxy!create(u, 0, FALSE, 0),
               creations' = Append(creations,
                 UserProxy!Log(UserProxy!Other, u, UserProxy!AtNonce(nonce + 1)))
        PROVE  ProxyInv'
    BY <1>5, <1>7, <2>1, ProxyConstants DEF UserProxy!OtherCreates, UserProxy!Other
  <2>2. ASSUME NEW u \in Users, NEW s \in Salts, UserProxy!createTwo(u, s, 0, FALSE, 0),
               creations' = Append(creations,
                 UserProxy!Log(UserProxy!Other, u, UserProxy!predictProxyAddress(u, s)))
        PROVE  ProxyInv'
    <3> DEFINE p == UserProxy!predictProxyAddress(u, s)
    <3>1. UserProxy!_storeGelatoUserProxy(u, p) /\ nonce' = nonce /\ UNCHANGED proxyRuns
      BY <1>7, <2>2 DEF UserProxy!createTwo, UserProxy!New, UserProxy!OtherCreates
    <3>2. nonce' \in nonce .. MaxNonce
      BY <1>1, <3>1
    <3>3. p \in UserProxy!Proxies /\ \A n \in 1 .. nonce : p # UserProxy!AtNonce(n)
      BY ProxyAddresses
    <3>4. UserProxy!Other \in Runs \cup {"other"} /\ UserProxy!Other \notin Runs
      BY ProxyConstants DEF UserProxy!Other
    <3>5. /\ nonce' \in 0 .. MaxNonce
          /\ userByGelatoProxy' \in [UserProxy!Proxies -> Users \cup {NoUser}]
          /\ gelatoProxiesByUser' \in [Users -> SUBSET UserProxy!Proxies]
          /\ CreationsOK'
          /\ DOMAIN creations \subseteq DOMAIN creations'
          /\ \A i \in DOMAIN creations : creations'[i] = creations[i]
      BY <2>2, <3>1, <3>2, <3>3, <3>4, ProxyCreated
    <3>6. ProxyRunsOK'
      BY <3>1, <3>5 DEF ProxyInv, ProxyRunsOK
    <3> QED
      BY <3>5, <3>6 DEF ProxyInv
  <2> QED
    BY <1>7, <2>1, <2>2 DEF UserProxy!OtherCreates
<1>8. ASSUME UNCHANGED <<nonce, userByGelatoProxy, gelatoProxiesByUser, creations, proxyRuns>>
      PROVE  ProxyInv'
  BY <1>8 DEF ProxyInv, CreationsOK, ProxyRunsOK
<1>9. CASE UserProxy!OtherActs
  BY <1>8, <1>9 DEF UserProxy!OtherActs, UserProxy!execAction, UserProxy!registry
<1>10. CASE UNCHANGED UserProxy!allVars
  BY <1>8, <1>10 DEF UserProxy!allVars, UserProxy!vars
<1> QED
  BY <1>3, <1>4, <1>6, <1>7, <1>9, <1>10 DEF UserProxy!ScriptNext

LEMMA ProxiesReturned == ASSUME ProxyInv PROVE UserProxy!ReturnsOwnProxy
<1> SUFFICES ASSUME NEW r \in Runs, NEW q \in Runs, proxyRuns[r].pc = "done"
             PROVE  /\ proxyRuns[r].proxy \in gelatoProxiesByUser[Signer]
                    /\ userByGelatoProxy[proxyRuns[r].proxy] = Signer
                    /\ proxyRuns[q].pc = "done" /\ q # r => proxyRuns[q].proxy # proxyRuns[r].proxy
  BY DEF UserProxy!ReturnsOwnProxy
<1>1. PICK i \in DOMAIN creations : creations[i].tx = r /\ proxyRuns[r].proxy = creations[i].proxy
  BY DEF ProxyInv, ProxyRunsOK
<1>2. /\ creations[i].proxy \in gelatoProxiesByUser[Signer]
      /\ userByGelatoProxy[creations[i].proxy] = Signer
  BY <1>1 DEF ProxyInv, CreationsOK
<1>3. ASSUME proxyRuns[q].pc = "done", q # r, proxyRuns[q].proxy = proxyRuns[r].proxy
      PROVE  FALSE
  <2>1. PICK j \in DOMAIN creations : creations[j].tx = q /\ proxyRuns[q].proxy = creations[j].proxy
    BY <1>3 DEF ProxyInv, ProxyRunsOK
  <2> QED
    BY <1>1, <1>3, <2>1 DEF ProxyInv, CreationsOK
<1> QED
  BY <1>1, <1>2, <1>3

-----------------------------------------------------------------------------
(* Runs that deploy *)

ProgramOf(c) == Deploy!Program[c.script]

Contracts == {Deploy!Program[s][i].contract : s \in Deployments, i \in Nat}

DeployTx == [from : Deploy!Deployers, nonce : Nat, by : Runs \cup {"nobody"},
             contract : Contracts \cup {"none"}, ok : BOOLEAN]

DeployPcs == {"step", "counted", "sent", "deployed", "done", "failed", "refused", "unanswered"}

DeployRun == [script : Deployments, index : Indices, addition : Additions, step : Nat,
              pc : DeployPcs, tx : DeployTx, returned : SUBSET DeployTx]

\* What a program has deployed before a step, and what a run has got.
DeployedBefore(program, step) ==
  {program[i].contract : i \in {j \in 1 .. step - 1 : program[j].op = "deploy"}}

ContractsOf(txs) == {tx.contract : tx \in txs}

\* A run c of r, when m is what has been mined.
RunGood(r, c, m) ==
  LET program == ProgramOf(c) IN
    /\ c.step \in 1 .. Len(program) + 1
    /\ c.pc \in {"step", "counted", "sent", "deployed"} => c.step <= Len(program)
    /\ c.pc \in {"counted", "sent", "deployed"} =>
         /\ program[c.step].op = "deploy"
         /\ c.tx.by = r /\ c.tx.contract = program[c.step].contract /\ ~ c.tx.ok
    /\ c.pc = "deployed" => [c.tx EXCEPT !.ok = TRUE] \in m
    /\ \A tx \in c.returned : tx \in m /\ tx.by = r /\ tx.ok
    /\ ContractsOf(c.returned) = DeployedBefore(program, c.step)

DeployRunsOK ==
  /\ deployRuns \in [Runs -> DeployRun]
  /\ \A r \in Runs : RunGood(r, deployRuns[r], mined)

\* Pending and mined transactions of a deployer have different numbers.
ChainOK ==
  /\ count \in [Deploy!Deployers -> Nat]
  /\ pool \subseteq DeployTx /\ mined \subseteq DeployTx
  /\ \A t \in pool : t.by \in Runs /\ ~ t.ok /\ t.nonce >= count[t.from]
  /\ \A t \in mined : t.by \in Runs /\ t.nonce < count[t.from]
  /\ \A t, u \in pool : t.from = u.from /\ t.nonce = u.nonce => t = u
  /\ \A t, u \in mined : t.from = u.from /\ t.nonce = u.nonce => t = u

PrintedOK ==
  \A t \in pool \cup mined :
    deployRuns[t.by].pc # "unanswered" => [t EXCEPT !.ok = FALSE] \in printed

DeployInv == DeployRunsOK /\ ChainOK /\ PrintedOK

LEMMA DeployConstants ==
  /\ Indices \subseteq Nat /\ Additions \subseteq Nat /\ MaxCount \in Nat
  /\ Indices \subseteq Deploy!Deployers /\ Deploy!SysAdmin \in Deploy!Deployers
  /\ \A s \in Deployments : Len(Deploy!Program[s]) \in Nat \ {0}
<1>1. Indices \subseteq Nat /\ Additions \subseteq Nat /\ MaxCount \in Nat
  BY InstancesAssumption DEF Deploy!DeployAssumption
<1>2. Indices \subseteq Deploy!Deployers /\ Deploy!SysAdmin \in Deploy!Deployers
  BY DEF Deploy!Deployers
<1>3. /\ Len(Deploy!Program["deploy"]) = 1
      /\ Len(Deploy!Program["deployGC"]) = 2
      /\ Len(Deploy!Program["gnosisSafeModule"]) = 5
      /\ Len(Deploy!Program["updateMasterCopy"]) = 7
      /\ Len(Deploy!Program["setupGelato"]) = 3
      /\ Len(Deploy!Program["setupGnosisSafe"]) = 9
      /\ Len(Deploy!Program["setupUserProxies"]) = 8
  BY DEF Deploy!Program, Deploy!deployGC, Deploy!gnosisSafeModule, Deploy!updateMasterCopy,
         Deploy!setupGelato, Deploy!setupGnosisSafe, Deploy!setupUserProxies
<1>4. Deployments \subseteq {"deploy", "deployGC", "gnosisSafeModule", "updateMasterCopy",
                            "setupGelato", "setupGnosisSafe", "setupUserProxies"}
  BY InstancesAssumption DEF Deploy!DeployAssumption
<1>5. ASSUME NEW s \in Deployments PROVE Len(Deploy!Program[s]) \in Nat \ {0}
  <2> DEFINE program == Deploy!Program
  <2> HIDE DEF program
  <2>1. /\ Len(program["deploy"]) = 1 /\ Len(program["deployGC"]) = 2
        /\ Len(program["gnosisSafeModule"]) = 5 /\ Len(program["updateMasterCopy"]) = 7
        /\ Len(program["setupGelato"]) = 3 /\ Len(program["setupGnosisSafe"]) = 9
        /\ Len(program["setupUserProxies"]) = 8
    BY <1>3 DEF program
  <2>2. Len(program[s]) \in {1, 2, 3, 5, 7, 8, 9}
    BY <1>4, <2>1
  <2>3. \A n \in {1, 2, 3, 5, 7, 8, 9} : n \in Nat \ {0}
    OBVIOUS
  <2>4. Len(program[s]) \in Nat \ {0}
    BY <2>2, <2>3
  <2> QED
    BY <2>4 DEF program
<1> QED
  BY <1>1, <1>2, <1>5

LEMMA InitDeploy == ASSUME Deploy!Init PROVE DeployInv
<1>1. /\ count = [d \in Deploy!Deployers |-> 0] /\ pool = {} /\ mined = {} /\ printed = {}
  BY DEF Deploy!Init
<1>2. Deploy!NoTx \in DeployTx
  BY DeployConstants DEF Deploy!NoTx, DeployTx
<1>3. ASSUME NEW r \in Runs
      PROVE  deployRuns[r] \in DeployRun /\ RunGood(r, deployRuns[r], mined)
  <2>1. PICK s \in Deployments, i \in Indices, a \in Additions :
          deployRuns[r] = [script |-> s, index |-> i, addition |-> a, step |-> 1, pc |-> "step",
                           tx |-> Deploy!NoTx, returned |-> {}]
    BY DEF Deploy!Init
  <2>2. deployRuns[r] \in DeployRun
    BY <1>2, <2>1 DEF DeployRun, DeployPcs
  <2>3. DeployedBefore(Deploy!Program[s], 1) = {} /\ ContractsOf({}) = {}
    BY DEF DeployedBefore, ContractsOf
  <2>4. Len(Deploy!Program[s]) \in Nat \ {0}
    BY DeployConstants
  <2>5. /\ deployRuns[r].script = s /\ deployRuns[r].step = 1 /\ deployRuns[r].pc = "step"
        /\ deployRuns[r].returned = {}
    BY <2>1
  <2>6. 1 \in 1 .. Len(Deploy!Program[s]) + 1 /\ 1 <= Len(Deploy!Program[s])
    BY <2>4
  <2> QED
    BY <2>2, <2>3, <2>5, <2>6 DEF RunGood, ProgramOf
<1>4. DeployRunsOK
  BY <1>3 DEF Deploy!Init, DeployRunsOK
<1> QED
  BY <1>1, <1>4 DEF DeployInv, ChainOK, PrintedOK

\* What is mined stays so.
LEMMA GoodKept ==
  ASSUME NEW r, NEW c, NEW m, NEW n, m \subseteq n, RunGood(r, c, m)
  PROVE  RunGood(r, c, n)
  BY DEF RunGood

\* A run moves on, and with it perhaps the pool.
LEMMA DeployRunMoves ==
  ASSUME DeployInv, NEW r \in Runs, NEW c \in DeployRun, RunGood(r, c, mined),
         deployRuns[r].pc # "unanswered",
         deployRuns' = [deployRuns EXCEPT ![r] = c],
         UNCHANGED Deploy!chain, UNCHANGED printed
  PROVE  DeployInv'
<1>1. UNCHANGED <<count, pool, mined, printed>>
  BY DEF Deploy!chain
<1>2. /\ deployRuns' \in [Runs -> DeployRun] /\ deployRuns'[r] = c
      /\ \A q \in Runs : q # r => deployRuns'[q] = deployRuns[q]
  BY DEF DeployInv, DeployRunsOK
<1>3. DeployRunsOK'
  BY <1>1, <1>2 DEF DeployInv, DeployRunsOK
<1>4. ChainOK'
  BY <1>1 DEF DeployInv, ChainOK
<1>5. PrintedOK'
  <2> SUFFICES ASSUME NEW t \in pool \cup mined, deployRuns'[t.by].pc # "unanswered"
               PROVE  [t EXCEPT !.ok = FALSE] \in printed
    BY <1>1 DEF PrintedOK
  <2>1. t.by \in Runs
    BY DEF DeployInv, ChainOK
  <2>2. deployRuns[t.by].pc # "unanswered"
    BY <1>2, <2>1
  <2> QED
    BY <2>2 DEF DeployInv, PrintedOK
<1> QED
  BY <1>3, <1>4, <1>5 DEF DeployInv

\* The chain moves on; no run does.
LEMMA DeployChainMoves ==
  ASSUME DeployInv, ChainOK', mined \subseteq mined', UNCHANGED <<printed, deployRuns>>,
         \A t \in pool' \cup mined' : \E u \in pool \cup mined :
           t.by = u.by /\ [t EXCEPT !.ok = FALSE] = [u EXCEPT !.ok = FALSE]
  PROVE  DeployInv'
<1>1. DeployRunsOK'
  BY GoodKept DEF DeployInv, DeployRunsOK
<1>2. PrintedOK'
  BY DEF DeployInv, PrintedOK
<1> QED
  BY <1>1, <1>2 DEF DeployInv

\* A run that goes to an end.
LEMMA DeployRunEnds ==
  ASSUME DeployInv, NEW r \in Runs, NEW pc1 \in {"failed", "refused"},
         deployRuns[r].pc # "unanswered", Deploy!Goto(r, pc1),
         UNCHANGED Deploy!chain, UNCHANGED printed
  PROVE  DeployInv'
<1> DEFINE c == deployRuns[r]
           d == [c EXCEPT !.pc = pc1]
<1>1. c \in DeployRun /\ RunGood(r, c, mined)
  BY DEF DeployInv, DeployRunsOK
<1>2. /\ d \in DeployRun /\ d.pc = pc1 /\ d.script = c.script /\ d.step = c.step
      /\ d.tx = c.tx /\ d.returned = c.returned
  BY <1>1 DEF DeployRun, DeployPcs
<1>3. deployRuns' = [deployRuns EXCEPT ![r] = d]
  BY DEF Deploy!Goto
<1> HIDE DEF d
<1>4. RunGood(r, d, mined)
  BY <1>1, <1>2 DEF RunGood, ProgramOf
<1> QED
  BY <1>2, <1>3, <1>4, DeployRunMoves

\* A run that goes on with the next step, or ends, with what it has got.
LEMMA DeployRunContinues ==
  ASSUME DeployInv, NEW r \in Runs, NEW txs \in SUBSET DeployTx,
         deployRuns[r].pc \in {"step", "deployed"}, Deploy!Continue(r, txs),
         \A tx \in txs : tx \in mined /\ tx.by = r /\ tx.ok,
         LET step == ProgramOf(deployRuns[r])[deployRuns[r].step] IN
           ContractsOf(txs) = IF step.op = "deploy" THEN {step.contract} ELSE {},
         UNCHANGED Deploy!chain, UNCHANGED printed
  PROVE  DeployInv'
<1> DEFINE c == deployRuns[r]
           program == ProgramOf(c)
           to == IF c.step = Len(program) THEN "done" ELSE "step"
           d == [[[[c EXCEPT !.step = c.step + 1] EXCEPT !.returned = c.returned \cup txs]
                   EXCEPT !.tx = Deploy!NoTx] EXCEPT !.pc = to]
<1>1. c \in DeployRun /\ RunGood(r, c, mined)
  BY DEF DeployInv, DeployRunsOK
<1>2. Deploy!NoTx \in DeployTx
  BY DeployConstants DEF Deploy!NoTx, DeployTx
<1>3. deployRuns' = [deployRuns EXCEPT ![r] = d]
  BY DEF Deploy!Continue, ProgramOf
<1>4. /\ to \in {"done", "step"} /\ to \in DeployPcs
      /\ to = "step" => c.step # Len(program)
  BY DEF DeployPcs
<1>5. c.step + 1 \in Nat /\ c.returned \cup txs \in SUBSET DeployTx
  BY <1>1 DEF DeployRun
<1> HIDE DEF to
<1>9. /\ d \in DeployRun /\ d.pc = to /\ d.script = c.script /\ d.step = c.step + 1
      /\ d.tx = Deploy!NoTx /\ d.returned = c.returned \cup txs
  BY <1>1, <1>2, <1>4, <1>5 DEF DeployRun
<1>10. ProgramOf(d) = program
  BY <1>9 DEF ProgramOf
<1> HIDE DEF d
<1>6. /\ c.step \in Nat /\ c.step >= 1 /\ Len(program) \in Nat /\ c.step <= Len(program)
      /\ ContractsOf(c.returned) = DeployedBefore(program, c.step)
  BY <1>1, DeployConstants DEF RunGood, DeployRun, ProgramOf
<1>7. ContractsOf(d.returned) = DeployedBefore(program, c.step + 1)
  <2>1. ContractsOf(d.returned) = ContractsOf(c.returned) \cup ContractsOf(txs)
    BY <1>9 DEF ContractsOf
  <2>2. 1 .. (c.step + 1) - 1 = (1 .. c.step - 1) \cup {c.step}
    BY <1>6
  <2>3. DeployedBefore(program, c.step + 1) = DeployedBefore(program, c.step) \cup
          IF program[c.step].op = "deploy" THEN {program[c.step].contract} ELSE {}
    BY <2>2 DEF DeployedBefore
  <2> QED
    BY <1>6, <2>1, <2>3
<1>8. RunGood(r, d, mined)
  <2>1. \A tx \in d.returned : tx \in mined /\ tx.by = r /\ tx.ok
    BY <1>1, <1>9 DEF RunGood
  <2>2. d.step \in 1 .. Len(program) + 1 /\ (d.pc = "step" => d.step <= Len(program))
    BY <1>4, <1>6, <1>9
  <2>3. d.pc \in {"done", "step"}
    BY <1>4, <1>9
  <2> QED
    BY <1>9, <1>10, <1>7, <2>1, <2>2, <2>3 DEF RunGood
<1> QED
  BY <1>3, <1>8, <1>9, DeployRunMoves

LEMMA OtherCallStep == ASSUME DeployInv, NEW r \in Runs, Deploy!OtherCall(r) PROVE DeployInv'
<1>1. /\ deployRuns[r].pc = "step" /\ ProgramOf(deployRuns[r])[deployRuns[r].step].op = "call"
      /\ Deploy!Continue(r, {}) \/ Deploy!Goto(r, "failed")
      /\ UNCHANGED Deploy!chain /\ UNCHANGED printed
  BY DEF Deploy!OtherCall, Deploy!Step, ProgramOf
<1>2. ContractsOf({}) = {}
  BY DEF ContractsOf
<1> QED
  BY <1>1, <1>2, DeployRunEnds, DeployRunContinues

LEMMA ThrowStep == ASSUME DeployInv, NEW r \in Runs, Deploy!Throw(r) PROVE DeployInv'
  BY DeployRunEnds DEF Deploy!Throw

LEMMA CountStep == ASSUME DeployInv, NEW r \in Runs, Deploy!CountTransactions(r) PROVE DeployInv'
<1> DEFINE c == deployRuns[r]
           step == ProgramOf(c)[c.step]
           from == IF step.own THEN c.index ELSE Deploy!SysAdmin
           tx == [[[[Deploy!NoTx EXCEPT !.from = from] EXCEPT !.nonce = count[from] + c.addition]
                   EXCEPT !.by = r] EXCEPT !.contract = step.contract]
           d == [[c EXCEPT !.pc = "counted"] EXCEPT !.tx = tx]
<1>1. /\ c.pc = "step" /\ step.op = "deploy"
      /\ deployRuns' = [deployRuns EXCEPT ![r] = d] \/ Deploy!Goto(r, "failed")
      /\ UNCHANGED Deploy!chain /\ UNCHANGED printed
  BY DEF Deploy!CountTransactions, Deploy!Step, ProgramOf
<1>2. c \in DeployRun /\ RunGood(r, c, mined)
  BY DEF DeployInv, DeployRunsOK
<1>3. from \in Deploy!Deployers /\ count[from] + c.addition \in Nat
  <2>1. c.index \in Deploy!Deployers /\ c.addition \in Nat
    BY <1>2, DeployConstants DEF DeployRun
  <2>2. from \in Deploy!Deployers
    BY <2>1, DeployConstants
  <2>3. count[from] \in Nat
    BY <2>2 DEF DeployInv, ChainOK
  <2> QED
    BY <2>1, <2>2, <2>3
<1>4. step.contract \in Contracts
  BY <1>2 DEF Contracts, ProgramOf, DeployRun
<1>5. Deploy!NoTx \in DeployTx /\ ~ Deploy!NoTx.ok
  BY DeployConstants DEF Deploy!NoTx, DeployTx
<1> HIDE DEF from, step
<1>6. tx \in DeployTx /\ tx.by = r /\ tx.contract = step.contract /\ ~ tx.ok
  BY <1>3, <1>4, <1>5 DEF DeployTx
<1> HIDE DEF tx
<1>7. /\ d \in DeployRun /\ d.pc = "counted" /\ d.script = c.script /\ d.step = c.step
      /\ d.tx = tx /\ d.returned = c.returned
  BY <1>2, <1>6 DEF DeployRun, DeployPcs
<1> HIDE DEF d
<1>8. RunGood(r, d, mined)
  BY <1>1, <1>2, <1>6, <1>7 DEF RunGood, ProgramOf, step
<1> QED
  BY <1>1, <1>7, <1>8, DeployRunMoves, DeployRunEnds

LEMMA DeployedStep == ASSUME DeployInv, NEW r \in Runs, Deploy!Deployed(r) PROVE DeployInv'
<1> DEFINE c == deployRuns[r]
           d == [c EXCEPT !.pc = "deployed"]
<1>1. /\ c.pc = "sent" /\ UNCHANGED Deploy!chain /\ UNCHANGED printed
      /\ \/ [c.tx EXCEPT !.ok = TRUE] \in mined /\ Deploy!Goto(r, "deployed")
         \/ Deploy!Goto(r, "failed")
  BY DEF Deploy!Deployed
<1>2. c \in DeployRun /\ RunGood(r, c, mined)
  BY DEF DeployInv, DeployRunsOK
<1>3. /\ d \in DeployRun /\ d.pc = "deployed" /\ d.script = c.script /\ d.step = c.step
      /\ d.tx = c.tx /\ d.returned = c.returned
  BY <1>2 DEF DeployRun, DeployPcs
<1>4. Deploy!Goto(r, "deployed") => deployRuns' = [deployRuns EXCEPT ![r] = d]
  BY DEF Deploy!Goto
<1> HIDE DEF d
<1>5. [c.tx EXCEPT !.ok = TRUE] \in mined => RunGood(r, d, mined)
  BY <1>1, <1>2, <1>3 DEF RunGood, ProgramOf
<1> QED
  BY <1>1, <1>3, <1>4, <1>5, DeployRunMoves, DeployRunEnds

LEMMA VerifyStep == ASSUME DeployInv, NEW r \in Runs, Deploy!Verify(r) PROVE DeployInv'
<1> DEFINE c == deployRuns[r]
           step == ProgramOf(c)[c.step]
           tx == [c.tx EXCEPT !.ok = TRUE]
<1>1. /\ c.pc = "deployed" /\ UNCHANGED Deploy!chain /\ UNCHANGED printed
      /\ Deploy!Continue(r, {tx}) \/ Deploy!Goto(r, "failed")
  BY DEF Deploy!Verify
<1>2. c \in DeployRun /\ RunGood(r, c, mined)
  BY DEF DeployInv, DeployRunsOK
<1>3. /\ step.op = "deploy" /\ c.tx.by = r /\ c.tx.contract = step.contract /\ tx \in mined
      /\ c.tx \in DeployTx
  BY <1>1, <1>2 DEF RunGood, DeployRun
<1>4. tx \in DeployTx /\ tx.by = r /\ tx.contract = step.contract /\ tx.ok
  BY <1>3 DEF DeployTx
<1> HIDE DEF tx
<1>5. ContractsOf({tx}) = {step.contract}
  BY <1>4 DEF ContractsOf
<1>6. CASE Deploy!Goto(r, "failed")
  BY <1>1, <1>6, DeployRunEnds
<1>7. CASE Deploy!Continue(r, {tx})
  <2>1. /\ {tx} \in SUBSET DeployTx /\ c.pc \in {"step", "deployed"}
        /\ \A t \in {tx} : t \in mined /\ t.by = r /\ t.ok
    BY <1>1, <1>3, <1>4
  <2>2. ContractsOf({tx}) = IF step.op = "deploy" THEN {step.contract} ELSE {}
    BY <1>3, <1>5
  <2> QED
    BY <1>1, <1>7, <2>1, <2>2, DeployRunContinues
<1> QED
  BY <1>1, <1>6, <1>7

\* What run r does when it sends: its transaction waits in the pool.
LEMMA SendStep == ASSUME DeployInv, NEW r \in Runs, Deploy!Send(r) PROVE DeployInv'
<1> DEFINE c == deployRuns[r]
           tx == c.tx
<1>1. /\ c \in DeployRun /\ RunGood(r, c, mined) /\ c.pc = "counted"
      /\ tx \in DeployTx /\ tx.by = r /\ ~ tx.ok
  BY DEF DeployInv, DeployRunsOK, Deploy!Send, RunGood, DeployRun
<1>2. CASE /\ Deploy!Goto(r, "failed") \/ Deploy!Goto(r, "refused")
           /\ UNCHANGED Deploy!chain /\ UNCHANGED printed
  BY <1>1, <1>2, DeployRunEnds
<1>3. ASSUME NEW to \in {"sent", "unanswered"}, Deploy!Pools(tx), Deploy!Goto(r, to),
             IF to = "sent" THEN printed' = printed \cup {tx} ELSE UNCHANGED printed
      PROVE  DeployInv'
  <2> DEFINE d == [c EXCEPT !.pc = to]
  <2>1. /\ tx.nonce >= count[tx.from] /\ pool' = pool \cup {tx} /\ UNCHANGED <<count, mined>>
        /\ \A other \in pool : ~ (other.from = tx.from /\ other.nonce = tx.nonce)
    BY <1>3 DEF Deploy!Pools, Deploy!Acceptable
  <2>2. /\ d \in DeployRun /\ d.pc = to /\ d.script = c.script /\ d.step = c.step
        /\ d.tx = c.tx /\ d.returned = c.returned
    BY <1>1 DEF DeployRun, DeployPcs
  <2>3. /\ deployRuns' = [deployRuns EXCEPT ![r] = d]
        /\ deployRuns' \in [Runs -> DeployRun] /\ deployRuns'[r] = d
        /\ \A q \in Runs : q # r => deployRuns'[q] = deployRuns[q]
    BY <1>3, <2>2 DEF Deploy!Goto, DeployInv, DeployRunsOK
  <2> HIDE DEF d
  <2>4. RunGood(r, d, mined)
    BY <1>1, <2>2 DEF RunGood, ProgramOf
  <2>5. DeployRunsOK'
    BY <2>1, <2>3, <2>4 DEF DeployInv, DeployRunsOK
  <2>6. ChainOK'
    BY <1>1, <2>1 DEF DeployInv, ChainOK
  <2>7. PrintedOK'
    <3> SUFFICES ASSUME NEW t \in pool' \cup mined', deployRuns'[t.by].pc # "unanswered"
                 PROVE  [t EXCEPT !.ok = FALSE] \in printed'
      BY DEF PrintedOK
    <3>1. CASE t \in pool \cup mined
      <4>1. t.by \in Runs
        BY <3>1 DEF DeployInv, ChainOK
      <4>2. deployRuns[t.by].pc # "unanswered"
        BY <1>1, <2>3, <4>1
      <4> QED
        BY <1>3, <3>1, <4>2 DEF DeployInv, PrintedOK
    <3>2. CASE t = tx
      <4>1. to = "sent"
        BY <1>1, <2>2, <2>3, <3>2
      <4>2. [tx EXCEPT !.ok = FALSE] = tx
        BY <1>1 DEF DeployTx
      <4> QED
        BY <1>3, <3>2, <4>1, <4>2
    <3> QED
      BY <2>1, <3>1, <3>2
  <2> QED
    BY <2>5, <2>6, <2>7 DEF DeployInv
<1> QED
  BY <1>2, <1>3 DEF Deploy!Send

\* A transaction is mined at the number of its deployer, which counts on.
LEMMA MineStep == ASSUME DeployInv, NEW tx \in pool, Deploy!Mine(tx) PROVE DeployInv'
<1>1. PICK ok \in BOOLEAN : mined' = mined \cup {[tx EXCEPT !.ok = ok]}
  BY DEF Deploy!Mine
<1> DEFINE done == [tx EXCEPT !.ok = ok]
<1>2. /\ tx.nonce = count[tx.from] /\ pool' = pool \ {tx}
      /\ count' = [count EXCEPT ![tx.from] = count[tx.from] + 1]
      /\ UNCHANGED <<printed, deployRuns>>
  BY DEF Deploy!Mine
<1>3. /\ count \in [Deploy!Deployers -> Nat] /\ pool \subseteq DeployTx /\ mined \subseteq DeployTx
      /\ tx \in DeployTx /\ tx.by \in Runs
      /\ tx.from \in Deploy!Deployers
  BY DEF DeployInv, ChainOK, DeployTx
<1>4. /\ done \in DeployTx /\ done.from = tx.from /\ done.nonce = tx.nonce /\ done.by = tx.by
      /\ [done EXCEPT !.ok = FALSE] = [tx EXCEPT !.ok = FALSE]
  BY <1>3 DEF DeployTx
<1> HIDE DEF done
<1>5. /\ count' \in [Deploy!Deployers -> Nat]
      /\ count'[tx.from] = count[tx.from] + 1
      /\ \A d \in Deploy!Deployers : count'[d] >= count[d] /\ (d # tx.from => count'[d] = count[d])
  BY <1>2, <1>3
<1>6. ChainOK'
  <2>1. ASSUME NEW t \in pool' PROVE t.by \in Runs /\ ~ t.ok /\ t.nonce >= count'[t.from]
    <3>1. t \in pool /\ t # tx /\ t \in DeployTx
      BY <1>2, <1>3
    <3>2. t.by \in Runs /\ ~ t.ok /\ t.nonce >= count[t.from] /\ t.from \in Deploy!Deployers
          /\ t.nonce \in Nat
      BY <3>1 DEF DeployInv, ChainOK, DeployTx
    <3>3. t.from = tx.from => t.nonce # tx.nonce
      BY <3>1 DEF DeployInv, ChainOK
    <3> QED
      BY <1>2, <1>3, <1>5, <3>2, <3>3
  <2>2. ASSUME NEW t \in mined' PROVE t.by \in Runs /\ t.nonce < count'[t.from]
    <3>1. CASE t = done
      BY <1>2, <1>3, <1>4, <1>5, <3>1
    <3>2. CASE t \in mined
      <4>1. t.by \in Runs /\ t.nonce < count[t.from] /\ t.from \in Deploy!Deployers
            /\ t.nonce \in Nat
        BY <1>3, <3>2 DEF DeployInv, ChainOK, DeployTx
      <4> QED
        BY <1>3, <1>5, <4>1
    <3> QED
      BY <1>1, <3>1, <3>2 DEF done
  <2>3. ASSUME NEW t \in mined, t.from = tx.from, t.nonce = tx.nonce PROVE FALSE
    <3>1. t.nonce < count[t.from] /\ t.nonce \in Nat
      BY <1>3 DEF DeployInv, ChainOK, DeployTx
    <3> QED
      BY <1>2, <1>3, <2>3, <3>1
  <2>4. ASSUME NEW t \in mined', NEW u \in mined', t.from = u.from, t.nonce = u.nonce
        PROVE  t = u
    <3>1. (t \in mined \/ t = done) /\ (u \in mined \/ u = done)
      BY <1>1 DEF done
    <3>2. CASE t \in mined /\ u \in mined
      BY <2>4, <3>2 DEF DeployInv, ChainOK
    <3> QED
      BY <1>4, <2>3, <2>4, <3>1, <3>2
  <2>5. \A t, u \in pool' : t.from = u.from /\ t.nonce = u.nonce => t = u
    BY <1>2 DEF DeployInv, ChainOK
  <2>6. pool' \subseteq DeployTx /\ mined' \subseteq DeployTx
    BY <1>1, <1>2, <1>3, <1>4 DEF done
  <2> QED
    BY <1>5, <2>1, <2>2, <2>4, <2>5, <2>6 DEF ChainOK
<1>7. ASSUME NEW t \in pool' \cup mined'
      PROVE  \E u \in pool \cup mined :
               t.by = u.by /\ [t EXCEPT !.ok = FALSE] = [u EXCEPT !.ok = FALSE]
  <2>1. CASE t = done
    BY <1>4, <2>1
  <2>2. CASE t \in pool \cup mined
    BY <2>2
  <2> QED
    BY <1>1, <1>2, <2>1, <2>2 DEF done
<1> QED
  BY <1>1, <1>2, <1>6, <1>7, DeployChainMoves

\* The deployer uses a number for something else.
LEMMA MineOtherStep ==
  ASSUME DeployInv, NEW d \in Deploy!Deployers, Deploy!MineOther(d)
  PROVE  DeployInv'
<1>1. /\ count' = [count EXCEPT ![d] = count[d] + 1]
      /\ pool' = {tx \in pool : ~ (tx.from = d /\ tx.nonce = count[d])}
      /\ UNCHANGED <<mined, printed, deployRuns>>
  BY DEF Deploy!MineOther
<1>2. count \in [Deploy!Deployers -> Nat] /\ pool \subseteq DeployTx /\ mined \subseteq DeployTx
  BY DEF DeployInv, ChainOK
<1>3. /\ count' \in [Deploy!Deployers -> Nat] /\ count'[d] = count[d] + 1
      /\ \A e \in Deploy!Deployers : count'[e] >= count[e] /\ (e # d => count'[e] = count[e])
  BY <1>1, <1>2
<1>4. ASSUME NEW t \in pool' PROVE t.by \in Runs /\ ~ t.ok /\ t.nonce >= count'[t.from]
  <2>1. /\ t \in pool /\ ~ (t.from = d /\ t.nonce = count[d])
        /\ t.from \in Deploy!Deployers /\ t.nonce \in Nat
    BY <1>1, <1>2 DEF DeployTx
  <2>2. t.by \in Runs /\ ~ t.ok /\ t.nonce >= count[t.from]
    BY <2>1 DEF DeployInv, ChainOK
  <2> QED
    BY <1>2, <1>3, <2>1, <2>2
<1>5. ASSUME NEW t \in mined PROVE t.by \in Runs /\ t.nonce < count'[t.from]
  <2>1. /\ t.by \in Runs /\ t.nonce < count[t.from] /\ t.from \in Deploy!Deployers
        /\ t.nonce \in Nat
    BY <1>2 DEF DeployInv, ChainOK, DeployTx
  <2> QED
    BY <1>2, <1>3, <2>1
<1>6. \A t, u \in pool' : t.from = u.from /\ t.nonce = u.nonce => t = u
  BY <1>1 DEF DeployInv, ChainOK
<1>7. pool' \subseteq DeployTx
  BY <1>1, <1>2
<1>8. ChainOK'
  BY <1>1, <1>2, <1>3, <1>4, <1>5, <1>6, <1>7 DEF DeployInv, ChainOK
<1> QED
  BY <1>1, <1>8, DeployChainMoves

LEMMA DeployStep == ASSUME DeployInv, [Deploy!Next]_Deploy!vars PROVE DeployInv'
<1>1. ASSUME NEW r \in Runs, Deploy!ScriptStep(r) PROVE DeployInv'
  BY <1>1, OtherCallStep, ThrowStep, CountStep, SendStep, DeployedStep, VerifyStep
  DEF Deploy!ScriptStep
<1>2. CASE UNCHANGED Deploy!vars
  BY <1>2 DEF Deploy!vars, Deploy!chain, DeployInv, DeployRunsOK, ChainOK, PrintedOK
<1> QED
  BY <1>1, <1>2, MineStep, MineOtherStep DEF Deploy!Next

\* What scripts return is theirs and mined, and what is mined has been printed.
LEMMA DeploymentsReturned ==
  ASSUME DeployInv
  PROVE  Deploy!TypeOK /\ Deploy!ReturnsOwnContracts /\ Deploy!AddressesAreKept
<1>1. Deploy!TypeOK
  <2>1. ASSUME NEW t \in pool \cup mined, NEW u \in pool \cup mined,
               t.from = u.from, t.nonce = u.nonce
        PROVE  t = u
    <3>1. t.nonce \in Nat /\ t.from \in Deploy!Deployers /\ count[t.from] \in Nat
      BY DEF DeployInv, ChainOK, DeployTx
    <3> QED
      BY <2>1, <3>1 DEF DeployInv, ChainOK
  <2> QED
    BY <2>1 DEF DeployInv, ChainOK, Deploy!TypeOK
<1>2. Deploy!ReturnsOwnContracts
  <2> SUFFICES ASSUME NEW r \in Runs
               PROVE  LET c == deployRuns[r]
                          program == Deploy!Program[c.script]
                          deployments == {i \in 1 .. c.step - 1 : program[i].op = "deploy"}
                      IN /\ c.returned \subseteq {tx \in mined : tx.by = r /\ tx.ok}
                         /\ {tx.contract : tx \in c.returned} =
                              {program[i].contract : i \in deployments}
    BY DEF Deploy!ReturnsOwnContracts
  <2>1. RunGood(r, deployRuns[r], mined)
    BY DEF DeployInv, DeployRunsOK
  <2> QED
    BY <2>1 DEF RunGood, ProgramOf, ContractsOf, DeployedBefore
<1>3. Deploy!AddressesAreKept
  BY DEF DeployInv, PrintedOK, Deploy!AddressesAreKept
<1> QED
  BY <1>1, <1>2, <1>3

-----------------------------------------------------------------------------
(* Searches for events.  Blocks are told apart by their names and the logs  *)
(* of a block by their places in it.  A block that was there when a search  *)
(* was started and still has its place has all its logs, so every answer    *)
(* holds what was there all the time.                                       *)

EventLog == [block : 1 .. MaxBlocks, index : 1 .. MaxLogs, event : {"a", "b"},
             value : Values \cup {Search!None}]

BlocksOK ==
  /\ chainMined \in 0 .. MaxBlocks
  /\ chain \in Seq([name : 0 .. MaxBlocks, logs : SUBSET EventLog])
  /\ \A i \in DOMAIN chain :
       /\ chain[i].name <= chainMined
       /\ \A l \in chain[i].logs : l.block = chain[i].name
       /\ \A l, k \in chain[i].logs : l.index = k.index => l = k
  /\ \A i, j \in DOMAIN chain : chain[i].name = chain[j].name => i = j

BeforeOK ==
  \A l \in before :
    /\ l \in EventLog /\ l.block <= chainMined
    /\ \A i \in DOMAIN chain : chain[i].name = l.block => l \in chain[i].logs

ArgumentsOK ==
  /\ args.event \in {"a", "b"}
  /\ Search!AllEvents(args.kind) => args.event = "a"
  /\ Search!OneLog(args.kind) => args.tx # Search!None
  /\ pc = "query" => ~ (Search!Parses(args.kind) /\ Search!BadFilter(args.filter))

\* The answer for an event, whose logs are of that event and of the block asked
\* for, and are missing nothing that was there all the time.
AnswerOK(logs, event) ==
  /\ logs \in SUBSET EventLog
  /\ \A l \in logs : l.event = event /\ (args.block # Search!None => l.block = args.block)
  /\ Search!OneLog(args.kind) => \A l, k \in logs : l = k
  /\ args.tx = Search!None =>
       \A l \in before :
         /\ l.event = event
         /\ IF args.block # Search!None THEN l.block = args.block ELSE Search!InRange(l)
         => l \in logs

FoundOK ==
  /\ found \in Seq(SUBSET EventLog)
  /\ Len(found) <= Len(Search!EventsOf(args))
  /\ \A k \in DOMAIN found : AnswerOK(found[k], Search!EventsOf(args)[k])

ResultOK ==
  /\ pc \in {"idle", "query", "done"}
  /\ pc = "idle" => found = <<>>
  /\ pc # "done" => result = Search!Undefined
  /\ result = Search!Undefined
     \/ /\ pc = "done" /\ Search!Asked
        /\ result = Search!Return(args.kind, Search!Found, args.filter)
        /\ ~ (Search!Parses(args.kind) /\ Search!BadFilter(args.filter))

EventInv == BlocksOK /\ BeforeOK /\ ArgumentsOK /\ FoundOK /\ ResultOK

LEMMA EventConstants ==
  MaxBlocks \in Nat /\ MaxLogs \in Nat /\ DefaultFrom \in Nat /\ Values \subseteq {1, 2}
  BY InstancesAssumption DEF Search!EventSearchAssumption

LEMMA BlockLogs ==
  ASSUME BlocksOK, NEW i \in DOMAIN chain
  PROVE  /\ chain[i].name \in 0 .. MaxBlocks /\ chain[i].name <= chainMined
         /\ \A l \in chain[i].logs : l \in EventLog /\ l.block = chain[i].name
<1> DEFINE Blocks == [name : 0 .. MaxBlocks, logs : SUBSET EventLog]
<1>1. chain \in Seq(Blocks)
  BY DEF BlocksOK
<1>2. chain[i] \in Blocks
  <2> HIDE DEF Blocks
  <2> QED
    BY <1>1
<1> QED
  BY <1>2 DEF BlocksOK

\* A search asks for one event or for two.
LEMMA EventsAsked ==
  ASSUME ArgumentsOK
  PROVE  /\ Len(Search!EventsOf(args)) \in 1 .. 2
         /\ \A k \in 1 .. Len(Search!EventsOf(args)) : Search!EventsOf(args)[k] \in {"a", "b"}
         /\ \A k, n \in 1 .. Len(Search!EventsOf(args)) :
              Search!EventsOf(args)[k] = Search!EventsOf(args)[n] => k = n
         /\ Search!OneLog(args.kind) => Len(Search!EventsOf(args)) = 1
         /\ ~ Search!AllEvents(args.kind) => Search!EventsOf(args) = <<args.event>>
         /\ Search!AllEvents(args.kind) => Search!EventsOf(args) = <<"a", "b">>
<1>1. CASE Search!AllEvents(args.kind)
  <2>1. Search!EventsOf(args) = <<"a", "b">> /\ ~ Search!OneLog(args.kind)
    BY <1>1 DEF Search!EventsOf, Search!Events, Search!AllEvents, Search!OneLog
  <2> QED
    BY <1>1, <2>1
<1>2. CASE ~ Search!AllEvents(args.kind)
  <2>1. Search!EventsOf(args) = <<args.event>>
    BY <1>2 DEF Search!EventsOf
  <2> QED
    BY <1>2, <2>1 DEF ArgumentsOK
<1> QED
  BY <1>1, <1>2

LEMMA InitEvents == ASSUME Search!Init PROVE EventInv
<1>1. chain = <<Search!Block(0, <<>>)>> /\ chainMined = 0 /\ before = {}
  BY DEF Search!Init
<1>2. Search!Block(0, <<>>) = [name |-> 0, logs |-> {}]
  BY DEF Search!Block
<1>3. BlocksOK
  <2>1. chain = <<[name |-> 0, logs |-> {}]>>
    BY <1>1, <1>2
  <2>2. [name |-> 0, logs |-> {}] \in [name : 0 .. MaxBlocks, logs : SUBSET EventLog]
    BY EventConstants
  <2> QED
    BY <1>1, <2>1, <2>2, EventConstants DEF BlocksOK
<1>4. BeforeOK
  BY <1>1 DEF BeforeOK
<1>5. ArgumentsOK /\ ResultOK
  BY DEF Search!Init, ArgumentsOK, ResultOK, Search!AllEvents, Search!OneLog
<1>6. FoundOK
  <2>1. found = <<>> /\ Len(found) = 0 /\ DOMAIN found = {} /\ found \in Seq(SUBSET EventLog)
    BY DEF Search!Init
  <2> QED
    BY <1>5, <2>1, EventsAsked DEF FoundOK
<1> QED
  BY <1>3, <1>4, <1>5, <1>6 DEF EventInv

\* What has been found for the first events.
LEMMA Answers ==
  ASSUME EventInv
  PROVE  /\ DOMAIN found = 1 .. Len(found) /\ Len(found) \in Nat
         /\ \A k \in DOMAIN found :
              /\ k \in 1 .. Len(Search!EventsOf(args))
              /\ AnswerOK(found[k], Search!EventsOf(args)[k])
         /\ Search!Found \subseteq EventLog
<1>1. DOMAIN found = 1 .. Len(found) /\ Len(found) \in Nat
  BY DEF EventInv, FoundOK
<1>2. Len(found) <= Len(Search!EventsOf(args)) /\ Len(Search!EventsOf(args)) \in Nat
  BY EventsAsked DEF EventInv, FoundOK
<1>3. \A k \in DOMAIN found : AnswerOK(found[k], Search!EventsOf(args)[k])
  BY DEF EventInv, FoundOK
<1>4. Search!Found \subseteq EventLog
  BY <1>3 DEF Search!Found, AnswerOK
<1> QED
  BY <1>1, <1>2, <1>3, <1>4

\* Nothing is started, and no block comes or goes: the answers stay what they are.
LEMMA AnswersKept ==
  ASSUME NEW logs, NEW event, AnswerOK(logs, event), UNCHANGED <<chain, args, before>>
  PROVE  AnswerOK(logs, event)'
  BY DEF AnswerOK, Search!InRange

LEMMA StartStep ==
  ASSUME EventInv, NEW kind \in {"getLog", "getLogs", "allEvents", "parsedLog", "parsedLogs",
                                 "parsedAll"},
         NEW numbers, NEW names, Search!Start(kind, numbers, names)
  PROVE  EventInv'
<1>1. /\ pc = "idle" /\ found = <<>> /\ result = Search!Undefined
      /\ UNCHANGED <<chain, chainMined>> /\ before' = Search!LogsOf(chain)
  BY DEF EventInv, ResultOK, Search!Start
<1>2. /\ args'.event \in {"a", "b"}
      /\ Search!AllEvents(args'.kind) => args'.event = "a"
      /\ Search!OneLog(args'.kind) => args'.tx # Search!None
      /\ pc' \in {"query", "done"} /\ found' = <<>> /\ result' = Search!Undefined
      /\ pc' = "query" => ~ (Search!Parses(args'.kind) /\ Search!BadFilter(args'.filter))
  BY <1>1 DEF Search!Start, Search!Fail
<1>3. ArgumentsOK'
  BY <1>2 DEF ArgumentsOK
<1>4. ResultOK'
  BY <1>2 DEF ResultOK
<1>5. BlocksOK'
  BY <1>1 DEF EventInv, BlocksOK
<1>6. BeforeOK'
  <2> SUFFICES ASSUME NEW l \in before'
               PROVE  /\ l \in EventLog /\ l.block <= chainMined
                      /\ \A i \in DOMAIN chain : chain[i].name = l.block => l \in chain[i].logs
    BY <1>1 DEF BeforeOK
  <2>1. PICK j \in DOMAIN chain : l \in chain[j].logs
    BY <1>1 DEF Search!LogsOf
  <2>2. l \in EventLog /\ l.block = chain[j].name /\ chain[j].name <= chainMined
    BY <2>1, BlockLogs DEF EventInv
  <2> QED
    BY <2>1, <2>2 DEF EventInv, BlocksOK
<1>7. FoundOK'
  <2>1. Len(found') = 0 /\ DOMAIN found' = {} /\ found' \in Seq(SUBSET EventLog)
    BY <1>2
  <2>2. Len(Search!EventsOf(args)') \in 1 .. 2
    <3>1. Search!EventsOf(args)' = Search!EventsOf(args')
      BY DEF Search!EventsOf, Search!AllEvents
    <3>2. Search!EventsOf(args') \in {<<"a", "b">>, <<args'.event>>}
      BY DEF Search!EventsOf, Search!Events
    <3> QED
      BY <3>1, <3>2
  <2> QED
    BY <2>1, <2>2 DEF FoundOK
<1> QED
  BY <1>3, <1>4, <1>5, <1>6, <1>7 DEF EventInv

\* The answer of the node, while its chain is what it is.
LEMMA NodeAnswers ==
  ASSUME EventInv, ~ Search!Refused(args), NEW event,
         NEW logs, logs = Search!Query(args, event)
  PROVE  AnswerOK(IF args.tx = Search!None THEN logs ELSE Search!FirstOfTx(logs, args.tx), event)
<1>1. \A l \in logs :
        /\ l \in EventLog /\ l.event = event
        /\ args.block # Search!None => l.block = args.block
        /\ \E i \in DOMAIN chain : l \in chain[i].logs /\ chain[i].name = l.block
  <2> SUFFICES ASSUME NEW l \in logs
               PROVE  /\ l \in EventLog /\ l.event = event
                      /\ args.block # Search!None => l.block = args.block
                      /\ \E i \in DOMAIN chain : l \in chain[i].logs /\ chain[i].name = l.block
    OBVIOUS
  <2>1. PICK i \in DOMAIN chain :
          /\ l \in chain[i].logs /\ l.event = event
          /\ args.block # Search!None => chain[i].name = args.block
    BY DEF Search!Query
  <2>2. l \in EventLog /\ l.block = chain[i].name
    BY <2>1, BlockLogs DEF EventInv
  <2> QED
    BY <2>1, <2>2
<1>2. CASE args.tx = Search!None
  <2>1. ASSUME NEW l \in before, l.event = event,
               IF args.block # Search!None THEN l.block = args.block ELSE Search!InRange(l)
        PROVE  l \in logs
    <3>1. CASE args.block # Search!None
      <4>1. PICK i \in DOMAIN chain : chain[i].name = args.block
        BY <3>1 DEF Search!Refused
      <4>2. l \in chain[i].logs
        BY <2>1, <3>1, <4>1 DEF EventInv, BeforeOK
      <4> QED
        BY <2>1, <3>1, <4>1, <4>2 DEF Search!Query
    <3>2. CASE args.block = Search!None
      <4>1. PICK i \in DOMAIN chain : l \in chain[i].logs /\ Search!Covers(args, i)
        BY <2>1, <3>2 DEF Search!InRange, Search!Covers
      <4> QED
        BY <2>1, <3>2, <4>1 DEF Search!Query
    <3> QED
      BY <3>1, <3>2
  <2>2. ~ Search!OneLog(args.kind)
    BY <1>2 DEF EventInv, ArgumentsOK
  <2> QED
    BY <1>1, <1>2, <2>1, <2>2 DEF AnswerOK
<1>3. CASE args.tx # Search!None
  <2> DEFINE first == Search!FirstOfTx(logs, args.tx)
  <2>1. first \subseteq logs
    BY DEF Search!FirstOfTx
  <2>2. ASSUME NEW l \in first, NEW k \in first
        PROVE  l = k
    <3>1. l.index = k.index /\ l.block = k.block
      <4>1. /\ l.index <= k.index /\ k.index <= l.index
            /\ l.block = args.tx /\ k.block = args.tx
        BY <2>1 DEF Search!FirstOfTx
      <4>2. l.index \in Nat /\ k.index \in Nat
        BY <1>1, <2>1, EventConstants DEF EventLog
      <4> QED
        BY <4>1, <4>2
    <3>2. PICK i \in DOMAIN chain : l \in chain[i].logs /\ chain[i].name = l.block
      BY <1>1, <2>1
    <3>3. PICK j \in DOMAIN chain : k \in chain[j].logs /\ chain[j].name = k.block
      BY <1>1, <2>1
    <3> QED
      BY <3>1, <3>2, <3>3 DEF EventInv, BlocksOK
  <2> HIDE DEF first
  <2>3. AnswerOK(first, event)
    BY <1>1, <1>3, <2>1, <2>2 DEF AnswerOK
  <2> QED
    BY <1>3, <2>3 DEF first
<1> QED
  BY <1>2, <1>3

\* A search fails: it keeps what it has found and returns nothing.
LEMMA FailStep ==
  ASSUME EventInv, pc = "query", Search!Fail, UNCHANGED <<chain, chainMined, args, before>>
  PROVE  EventInv'
<1>1. pc' = "done" /\ result' = Search!Undefined /\ UNCHANGED found
  BY DEF Search!Fail
<1>2. BlocksOK' /\ BeforeOK' /\ ArgumentsOK' /\ ResultOK'
  BY <1>1 DEF EventInv, BlocksOK, BeforeOK, ArgumentsOK, ResultOK
<1>3. FoundOK'
  BY <1>1, AnswersKept DEF EventInv, FoundOK, Search!EventsOf, Search!AllEvents
<1> QED
  BY <1>2, <1>3 DEF EventInv

LEMMA AskNodeStep == ASSUME EventInv, Search!AskNode PROVE EventInv'
<1>1. CASE Search!Refused(args)
  BY <1>1, FailStep DEF Search!AskNode
<1>2. CASE ~ Search!Refused(args)
  <2> DEFINE k == Len(found) + 1
             event == Search!EventsOf(args)[k]
             logs == Search!Query(args, event)
             answer == IF args.tx = Search!None THEN logs ELSE Search!FirstOfTx(logs, args.tx)
  <2>1. AnswerOK(answer, event)
    BY <1>2, NodeAnswers
  <2>2. /\ pc = "query" /\ Len(found) # Len(Search!EventsOf(args))
        /\ found' = Append(found, answer)
        /\ UNCHANGED <<chain, chainMined, args, before, pc, result>>
    BY <1>2 DEF Search!AskNode, Search!Asked
  <2> HIDE DEF answer, logs, event
  <2>3. BlocksOK' /\ BeforeOK' /\ ArgumentsOK'
    BY <2>2 DEF EventInv, BlocksOK, BeforeOK, ArgumentsOK
  <2>4. ResultOK'
    BY <2>2 DEF EventInv, ResultOK
  <2>5. /\ found \in Seq(SUBSET EventLog) /\ Len(found) \in Nat
        /\ Len(found) <= Len(Search!EventsOf(args)) /\ Len(Search!EventsOf(args)) \in Nat
        /\ answer \in SUBSET EventLog
    BY <2>1, EventsAsked DEF EventInv, FoundOK, AnswerOK
  <2>6. /\ found' \in Seq(SUBSET EventLog) /\ Len(found') = k /\ DOMAIN found' = 1 .. k
        /\ found'[k] = answer /\ \A n \in DOMAIN found : found'[n] = found[n]
        /\ 1 .. k = DOMAIN found \cup {k}
    BY <2>2, <2>5
  <2>7. Search!EventsOf(args)' = Search!EventsOf(args)
    BY <2>2 DEF Search!EventsOf, Search!AllEvents
  <2>8. \A n \in DOMAIN found' : AnswerOK(found'[n], Search!EventsOf(args)[n])
    BY <2>1, <2>6 DEF EventInv, FoundOK, event
  <2>9. \A n \in DOMAIN found' : AnswerOK(found[n], Search!EventsOf(args)[n])'
    BY <2>2, <2>7, <2>8 DEF AnswerOK, Search!InRange
  <2>10. Len(found') <= Len(Search!EventsOf(args)')
    BY <2>2, <2>5, <2>6, <2>7
  <2>11. FoundOK'
    BY <2>6, <2>9, <2>10 DEF FoundOK
  <2> QED
    BY <2>3, <2>4, <2>11 DEF EventInv
<1> QED
  BY <1>1, <1>2

LEMMA FinishStep == ASSUME EventInv, Search!Finish PROVE EventInv'
<1>1. /\ pc = "query" /\ Search!Asked /\ pc' = "done"
      /\ result' = Search!Return(args.kind, Search!Found, args.filter)
      /\ UNCHANGED <<chain, chainMined, args, found, before>>
  BY DEF Search!Finish
<1>2. BlocksOK' /\ BeforeOK' /\ ArgumentsOK'
  BY <1>1 DEF EventInv, BlocksOK, BeforeOK, ArgumentsOK
<1>3. FoundOK'
  BY <1>1, AnswersKept DEF EventInv, FoundOK, Search!EventsOf, Search!AllEvents
<1>4. ResultOK'
  <2>1. Search!Asked' /\ Search!Found' = Search!Found
    BY <1>1 DEF Search!Asked, Search!Found, Search!EventsOf, Search!AllEvents
  <2>2. ~ (Search!Parses(args.kind) /\ Search!BadFilter(args.filter))
    BY <1>1 DEF EventInv, ArgumentsOK
  <2> QED
    BY <1>1, <2>1, <2>2 DEF ResultOK
<1> QED
  BY <1>2, <1>3, <1>4 DEF EventInv

\* A block takes the place after the last one, or the place of the last one: its
\* name is new, so that no log is lost of a block that keeps its place.
LEMMA ChainStep ==
  ASSUME EventInv, chainMined < MaxBlocks, chainMined' = chainMined + 1,
         NEW n \in 0 .. MaxLogs, NEW contents \in [1 .. n -> Search!Contents],
         NEW m \in Nat, chain' \in Seq([name : 0 .. MaxBlocks, logs : SUBSET EventLog]),
         DOMAIN chain' = 1 .. m, m > 0,
         \A i \in 1 .. m : i # m => i \in DOMAIN chain /\ chain'[i] = chain[i],
         chain'[m] = Search!Block(chainMined + 1, contents),
         UNCHANGED <<Search!search, before>>
  PROVE  EventInv'
<1> DEFINE name == chainMined + 1
<1>1. /\ chainMined \in Nat /\ name \in 1 .. MaxBlocks /\ name > chainMined
      /\ UNCHANGED <<args, pc, found, result, before>>
  BY EventConstants DEF EventInv, BlocksOK, Search!search
<1>2. /\ chain'[m].name = name
      /\ \A l \in chain'[m].logs : l.block = name
      /\ \A l, k \in chain'[m].logs : l.index = k.index => l = k
  BY DEF Search!Block
<1>3. \A i \in 1 .. m : i # m =>
        /\ i \in DOMAIN chain /\ chain'[i] = chain[i]
        /\ chain[i].name \in Nat /\ chain[i].name <= chainMined
        /\ \A l \in chain[i].logs : l \in EventLog /\ l.block = chain[i].name
  BY BlockLogs, EventConstants DEF EventInv
<1>4. BlocksOK'
  <2>1. ASSUME NEW i \in DOMAIN chain'
        PROVE  /\ chain'[i].name <= name
               /\ \A l \in chain'[i].logs : l.block = chain'[i].name
               /\ \A l, k \in chain'[i].logs : l.index = k.index => l = k
    <3>1. CASE i = m
      BY <1>1, <1>2, <3>1
    <3>2. CASE i # m
      BY <1>1, <1>3, <3>2 DEF EventInv, BlocksOK
    <3> QED
      BY <3>1, <3>2
  <2>2. ASSUME NEW i \in DOMAIN chain', NEW j \in DOMAIN chain', chain'[i].name = chain'[j].name
        PROVE  i = j
    <3>1. CASE i = m \/ j = m
      BY <1>1, <1>2, <1>3, <2>2, <3>1
    <3>2. CASE i # m /\ j # m
      BY <1>3, <2>2, <3>2 DEF EventInv, BlocksOK
    <3> QED
      BY <3>1, <3>2
  <2> QED
    BY <1>1, <2>1, <2>2, EventConstants DEF BlocksOK
<1>5. \A l \in before : l \in EventLog /\ l.block <= chainMined /\ l.block # name
  BY <1>1, EventConstants DEF EventInv, BeforeOK, EventLog
<1>6. BeforeOK'
  <2> SUFFICES ASSUME NEW l \in before
               PROVE  /\ l \in EventLog /\ l.block <= name
                      /\ \A i \in DOMAIN chain' : chain'[i].name = l.block => l \in chain'[i].logs
    BY <1>1 DEF BeforeOK
  <2>1. l \in EventLog /\ l.block <= name
    BY <1>1, <1>5, EventConstants DEF EventLog
  <2>2. ASSUME NEW i \in DOMAIN chain', chain'[i].name = l.block
        PROVE  l \in chain'[i].logs
    <3>1. i # m
      BY <1>2, <1>5, <2>2
    <3> QED
      BY <1>3, <2>2, <3>1 DEF EventInv, BeforeOK
  <2> QED
    BY <2>1, <2>2
<1>7. ASSUME NEW l \in before, Search!InRange(l)'
      PROVE  Search!InRange(l)
  <2>1. PICK i \in DOMAIN chain' :
          /\ l \in chain'[i].logs
          /\ (IF args.from = Search!None THEN DefaultFrom ELSE args.from) <= i - 1
          /\ Search!Truthy(args.to) => i - 1 <= args.to
    BY <1>1, <1>7 DEF Search!InRange
  <2>2. i # m
    BY <1>2, <1>5, <2>1
  <2> QED
    BY <1>3, <2>1, <2>2 DEF Search!InRange
<1>8. FoundOK'
  <2>1. Search!EventsOf(args)' = Search!EventsOf(args)
    BY <1>1 DEF Search!EventsOf, Search!AllEvents
  <2>2. ASSUME NEW k \in DOMAIN found
        PROVE  AnswerOK(found[k], Search!EventsOf(args)[k])'
    <3>1. AnswerOK(found[k], Search!EventsOf(args)[k])
      BY DEF EventInv, FoundOK
    <3> QED
      BY <1>1, <1>7, <2>1, <3>1 DEF AnswerOK
  <2> QED
    BY <1>1, <2>1, <2>2 DEF EventInv, FoundOK
<1>9. ArgumentsOK'
  BY <1>1 DEF EventInv, ArgumentsOK
<1>10. ResultOK'
  BY <1>1 DEF EventInv, ResultOK, Search!Asked, Search!Found, Search!EventsOf, Search!AllEvents
<1> QED
  BY <1>4, <1>6, <1>8, <1>9, <1>10 DEF EventInv

LEMMA NewBlock ==
  ASSUME chainMined \in 0 .. MaxBlocks, chainMined < MaxBlocks, NEW n \in 0 .. MaxLogs,
         NEW contents \in [1 .. n -> Search!Contents]
  PROVE  Search!Block(chainMined + 1, contents) \in [name : 0 .. MaxBlocks, logs : SUBSET EventLog]
<1>1. ASSUME NEW i \in 1 .. n
      PROVE  [block |-> chainMined + 1, index |-> i, event |-> contents[i].event,
              value |-> contents[i].value] \in EventLog
  <2>1. contents[i] \in Search!Contents
    OBVIOUS
  <2>2. contents[i].event \in {"a", "b"} /\ contents[i].value \in Values \cup {Search!None}
    BY <2>1 DEF Search!Contents
  <2> QED
    BY <2>2, EventConstants DEF EventLog
<1> QED
  BY <1>1, EventConstants DEF Search!Block

LEMMA MineBlockStep ==
  ASSUME EventInv, NEW n \in 0 .. MaxLogs, NEW contents \in [1 .. n -> Search!Contents],
         Search!Mine(contents) \/ Search!Reorganise(contents)
  PROVE  EventInv'
<1> DEFINE block == Search!Block(chainMined + 1, contents)
           Blocks == [name : 0 .. MaxBlocks, logs : SUBSET EventLog]
<1>1. /\ chain \in Seq(Blocks) /\ chainMined \in 0 .. MaxBlocks /\ chainMined < MaxBlocks
      /\ chainMined' = chainMined + 1 /\ UNCHANGED <<Search!search, before>>
  BY DEF EventInv, BlocksOK, Search!Mine, Search!Reorganise
<1>2. block \in Blocks
  BY <1>1, NewBlock
<1>3. \/ chain' = Append(chain, block)
      \/ chain' = [chain EXCEPT ![Len(chain)] = block] /\ Len(chain) > 1
  BY DEF Search!Mine, Search!Reorganise
<1> HIDE DEF block, Blocks
<1>4. \E m \in Nat :
        /\ chain' \in Seq(Blocks) /\ DOMAIN chain' = 1 .. m /\ m > 0
        /\ \A i \in 1 .. m : i # m => i \in DOMAIN chain /\ chain'[i] = chain[i]
        /\ chain'[m] = block
  <2>1. Len(chain) \in Nat /\ DOMAIN chain = 1 .. Len(chain)
    BY <1>1
  <2>2. CASE chain' = Append(chain, block)
    <3>1. /\ chain' \in Seq(Blocks) /\ DOMAIN chain' = 1 .. (Len(chain) + 1)
          /\ \A i \in DOMAIN chain : chain'[i] = chain[i]
          /\ chain'[Len(chain) + 1] = block
      BY <1>1, <1>2, <2>2
    <3>2. Len(chain) + 1 \in Nat /\ Len(chain) + 1 > 0
      BY <2>1
    <3>3. \A i \in 1 .. (Len(chain) + 1) : i # Len(chain) + 1 => i \in DOMAIN chain
      BY <2>1
    <3> QED
      BY <3>1, <3>2, <3>3
  <2>3. CASE chain' = [chain EXCEPT ![Len(chain)] = block] /\ Len(chain) > 1
    <3>1. /\ chain' \in Seq(Blocks) /\ DOMAIN chain' = 1 .. Len(chain)
          /\ \A i \in DOMAIN chain : i # Len(chain) => chain'[i] = chain[i]
          /\ chain'[Len(chain)] = block
      BY <1>1, <1>2, <2>1, <2>3
    <3>2. Len(chain) \in Nat /\ Len(chain) > 0
      BY <2>1, <2>3
    <3>3. \A i \in 1 .. Len(chain) : i # Len(chain) => i \in DOMAIN chain /\ chain'[i] = chain[i]
      BY <2>1, <3>1
    <3> WITNESS Len(chain) \in Nat
    <3> QED
      BY <3>1, <3>2, <3>3
  <2> QED
    BY <1>3, <2>2, <2>3
<1> QED
  BY <1>1, <1>4, ChainStep DEF block, Blocks

LEMMA ProceedStep == ASSUME EventInv, Search!Proceed PROVE EventInv'
<1>1. CASE Search!Reject
  BY <1>1, FailStep DEF Search!Reject
<1> QED
  BY <1>1, AskNodeStep, FinishStep, MineBlockStep DEF Search!Proceed

-----------------------------------------------------------------------------
(* What a search returns *)

LEMMA ReturnsLogs ==
  ASSUME EventInv
  PROVE  /\ result.logs \subseteq Search!Found
         /\ result.ok => pc = "done" /\ Search!Asked
         /\ result.ok /\ ~ Search!Parses(args.kind) => result.logs = Search!Found
         /\ result.ok /\ Search!Parses(args.kind) /\ args.filter.value # Search!None =>
              result.logs = {l \in Search!Found : l.value = args.filter.value}
<1>1. CASE result = Search!Undefined
  BY <1>1 DEF Search!Undefined
<1>2. CASE /\ pc = "done" /\ Search!Asked
           /\ result = Search!Return(args.kind, Search!Found, args.filter)
           /\ ~ (Search!Parses(args.kind) /\ Search!BadFilter(args.filter))
  <2> DEFINE filtered == Search!Filtered(Search!Found, args.filter)
  <2>1. /\ filtered \subseteq Search!Found
        /\ ~ Search!BadFilter(args.filter) /\ args.filter.value # Search!None =>
             filtered = {l \in Search!Found : l.value = args.filter.value}
    BY DEF Search!Filtered, Search!Matches, Search!Has, Search!BadFilter
  <2> HIDE DEF filtered
  <2>2. \/ result = Search!Undefined
        \/ ~ Search!Parses(args.kind) /\ result = Search!Logs(Search!Found)
        \/ Search!Parses(args.kind) /\ Search!Found = {} /\ result = Search!Logs({})
        \/ Search!Parses(args.kind) /\ result = Search!Logs(filtered)
    BY <1>2 DEF Search!Return, filtered
  <2> QED
    BY <1>1, <1>2, <2>1, <2>2 DEF Search!Logs, Search!Undefined
<1> QED
  BY <1>1, <1>2 DEF EventInv, ResultOK

LEMMA SearchTypes == ASSUME EventInv PROVE Search!TypeOK
<1>1. ASSUME Search!OneLog(args.kind), NEW l \in Search!Found, NEW k \in Search!Found
      PROVE  l = k
  <2>1. DOMAIN found \subseteq {1}
    BY SMTT(40), <1>1, Answers, EventsAsked DEF EventInv
  <2>2. l \in found[1] /\ k \in found[1] /\ 1 \in DOMAIN found
    BY <2>1 DEF Search!Found
  <2> QED
    BY <1>1, <2>2, Answers DEF AnswerOK
<1>2. Search!Found \subseteq EventLog
  BY Answers
<1> QED
  BY <1>1, <1>2, ReturnsLogs DEF EventInv, BlocksOK, ResultOK, EventLog, Search!TypeOK

LEMMA SearchesReturnAll ==
  ASSUME EventInv
  PROVE  Search!RangeComplete /\ Search!BlockAllOrNothing /\ Search!FilteredExactly
<1>1. Search!RangeComplete
  <2> SUFFICES ASSUME Search!Answered({"getLogs", "allEvents"}),
                      args.block = Search!None, args.tx = Search!None
               PROVE  /\ \A l \in before :
                           Search!InRange(l) /\ (l.event = args.event \/ args.kind = "allEvents")
                           => l \in result.logs
                      /\ \A k, n \in DOMAIN found : k # n => found[k] \cap found[n] = {}
    BY DEF Search!RangeComplete
  <2>1. result.logs = Search!Found /\ Search!Asked
    BY ReturnsLogs DEF Search!Answered, Search!Parses
  <2>2. DOMAIN found = 1 .. Len(Search!EventsOf(args))
    BY <2>1, Answers DEF Search!Asked
  <2>3. ASSUME NEW l \in before, Search!InRange(l), l.event = args.event \/ args.kind = "allEvents"
        PROVE  l \in Search!Found
    <3>1. l.event \in {"a", "b"}
      BY DEF EventInv, BeforeOK, EventLog
    <3>2. PICK k \in DOMAIN found : Search!EventsOf(args)[k] = l.event
      <4>1. CASE args.kind = "allEvents"
        <5>1. Search!EventsOf(args) = <<"a", "b">>
          BY <4>1, EventsAsked DEF EventInv, Search!AllEvents
        <5> QED
          BY <2>2, <3>1, <5>1
      <4>2. CASE args.kind # "allEvents"
        <5>1. Search!EventsOf(args) = <<args.event>>
          BY <4>2, EventsAsked DEF EventInv, Search!AllEvents, Search!Answered
        <5> QED
          BY <2>2, <2>3, <4>2, <5>1
      <4> QED
        BY <4>1, <4>2
    <3>3. l \in found[k]
      BY <2>3, <3>2, Answers DEF AnswerOK
    <3> QED
      BY <3>3 DEF Search!Found
  <2>4. ASSUME NEW k \in DOMAIN found, NEW n \in DOMAIN found, k # n
        PROVE  found[k] \cap found[n] = {}
    <3>1. Search!EventsOf(args)[k] # Search!EventsOf(args)[n]
      BY <2>4, Answers, EventsAsked DEF EventInv
    <3> QED
      BY <3>1, Answers DEF AnswerOK
  <2> QED
    BY <2>1, <2>3, <2>4
<1>2. Search!BlockAllOrNothing
  <2> SUFFICES ASSUME Search!Answered({"allEvents"}),
                      args.block # Search!None, args.tx = Search!None
               PROVE  /\ \A l \in result.logs : l.block = args.block
                      /\ \A l \in before : l.block = args.block => l \in result.logs
    BY DEF Search!BlockAllOrNothing
  <2>1. result.logs = Search!Found /\ Search!Asked
    BY ReturnsLogs DEF Search!Answered, Search!Parses
  <2>2. /\ Search!EventsOf(args) = <<"a", "b">>
        /\ DOMAIN found = 1 .. Len(Search!EventsOf(args))
    BY <2>1, Answers, EventsAsked DEF EventInv, Search!Asked, Search!AllEvents, Search!Answered
  <2>3. \A l \in Search!Found : l.block = args.block
    BY Answers DEF AnswerOK, Search!Found
  <2>4. ASSUME NEW l \in before, l.block = args.block
        PROVE  l \in Search!Found
    <3>1. l.event \in {"a", "b"}
      BY DEF EventInv, BeforeOK, EventLog
    <3>2. PICK k \in DOMAIN found : Search!EventsOf(args)[k] = l.event
      BY <2>2, <3>1
    <3>3. l \in found[k]
      BY <2>4, <3>2, Answers DEF AnswerOK
    <3> QED
      BY <3>3 DEF Search!Found
  <2> QED
    BY <2>1, <2>3, <2>4
<1>3. Search!FilteredExactly
  BY ReturnsLogs DEF Search!FilteredExactly, Search!Answered, Search!Parses
<1> QED
  BY <1>1, <1>2, <1>3

-----------------------------------------------------------------------------
(* The scripts together.  Every part has the invariant of its component, and *)
(* a step of another part is a stuttering one of its own.                    *)

ScriptsInv == ProxyInv /\ Fee!FeeInv /\ Fee!BoundsOK /\ Fee!CoinsOK /\ DeployInv /\ EventInv

LEMMA InitScripts == Init => ScriptsInv
<1> SUFFICES ASSUME Init PROVE ScriptsInv
  OBVIOUS
<1>1. ProxyInv
  BY InitProxy DEF Init
<1>2. Fee!FeeInv /\ Fee!BoundsOK /\ Fee!CoinsOK
  BY Fee!InitFees, Fee!CoinsInit, InstancesAssumption DEF Init
<1>3. DeployInv
  BY InitDeploy DEF Init
<1>4. EventInv
  BY InitEvents DEF Init
<1> QED
  BY <1>1, <1>2, <1>3, <1>4 DEF ScriptsInv

LEMMA EachScriptSteps ==
  ASSUME [Next]_vars
  PROVE  /\ [UserProxy!ScriptNext]_UserProxy!allVars
         /\ [Fee!Next]_Fee!vars
         /\ [Deploy!Next]_Deploy!vars
         /\ EventMoves \/ UNCHANGED eventVars
<1>1. UNCHANGED proxyVars => UNCHANGED UserProxy!allVars
  BY DEF proxyVars, UserProxy!allVars, UserProxy!vars
<1>2. UNCHANGED feeVars => UNCHANGED Fee!vars
  BY DEF feeVars, Fee!vars, Fee!factoryVars
<1>3. UNCHANGED deployVars => UNCHANGED Deploy!vars
  BY DEF deployVars, Deploy!vars, Deploy!chain
<1>4. CASE LedgerMoves
  BY <1>1, <1>2, <1>3, <1>4 DEF LedgerMoves
<1>5. CASE EventMoves
  BY <1>1, <1>2, <1>3, <1>5 DEF EventMoves
<1>6. CASE ReceiptMoves
  BY <1>1, <1>2, <1>3, <1>6 DEF ReceiptMoves
<1>7. CASE ProxyMoves
  BY <1>2, <1>3, <1>7 DEF ProxyMoves
<1>8. CASE FeeMoves
  BY <1>1, <1>3, <1>8 DEF FeeMoves
<1>9. CASE DeployMoves
  BY <1>1, <1>2, <1>9 DEF DeployMoves
<1>10. CASE UNCHANGED vars
  BY <1>1, <1>2, <1>3, <1>10 DEF vars
<1> QED
  BY <1>4, <1>5, <1>6, <1>7, <1>8, <1>9, <1>10 DEF Next

LEMMA EventsStep == ASSUME EventInv, EventMoves \/ UNCHANGED eventVars PROVE EventInv'
<1>1. CASE Search!Proceed
  BY <1>1, ProceedStep
<1>2. CASE \E kind \in {"getLogs", "allEvents"} : Search!Start(kind, Numbers, 1 .. MaxBlocks)
  BY <1>2, StartStep
<1>3. CASE \E kind \in {"getLog", "parsedLog", "parsedLogs", "parsedAll"} : Search!Start(kind, {}, {1})
  BY <1>3, StartStep
<1>4. CASE UNCHANGED eventVars
  <2>1. UNCHANGED <<chain, chainMined, args, pc, found, result, before>>
    BY <1>4 DEF eventVars
  <2>2. BlocksOK' /\ BeforeOK' /\ ArgumentsOK'
    BY <2>1 DEF EventInv, BlocksOK, BeforeOK, ArgumentsOK
  <2>3. FoundOK'
    BY <2>1, AnswersKept DEF EventInv, FoundOK, Search!EventsOf, Search!AllEvents
  <2>4. ResultOK'
    BY <2>1 DEF EventInv, ResultOK, Search!Asked, Search!Found, Search!EventsOf, Search!AllEvents
  <2> QED
    BY <2>2, <2>3, <2>4 DEF EventInv
<1> QED
  BY <1>1, <1>2, <1>3, <1>4 DEF EventMoves

LEMMA ScriptsStep == ScriptsInv /\ [Next]_vars => ScriptsInv'
<1> SUFFICES ASSUME ScriptsInv, [Next]_vars PROVE ScriptsInv'
  OBVIOUS
<1>1. ProxyInv'
  BY EachScriptSteps, ProxyStep DEF ScriptsInv
<1>2. Fee!FeeInv' /\ Fee!BoundsOK' /\ Fee!CoinsOK'
  BY EachScriptSteps, Fee!FeeStep, Fee!CoinsStep, InstancesAssumption DEF ScriptsInv
<1>3. DeployInv'
  BY EachScriptSteps, DeployStep DEF ScriptsInv
<1>4. EventInv'
  BY EachScriptSteps, EventsStep DEF ScriptsInv
<1> QED
  BY <1>1, <1>2, <1>3, <1>4 DEF ScriptsInv

\* Whatever other runs and accounts create at the same time, every run that
\* creates a proxy, looks for a fee handler or deploys returns what is its own
\* and there, and no contract a run has deployed is missing from its log.
THEOREM ReturnsItsOwnTheorem == Spec => []ReturnsItsOwn
<1>1. ScriptsInv => ReturnsItsOwn
  BY ProxiesReturned, Fee!FeeTypes, Fee!HandlerFollows, Fee!FactoryFollows,
     DeploymentsReturned, InstancesAssumption
  DEF ScriptsInv, ReturnsItsOwn
<1>2. Spec => []ScriptsInv
  BY InitScripts, ScriptsStep, PTL DEF Spec
<1> QED
  BY <1>1, <1>2, PTL

\* A search that asks event by event, while blocks are added and replaced,
\* returns every log of its range that was there all the time and none twice, of
\* a block all logs or none, and with a filter exactly those that pass it.
THEOREM SearchesAreExactTheorem == Spec => []SearchesAreExact
<1>1. ScriptsInv => SearchesAreExact
  BY SearchTypes, SearchesReturnAll DEF ScriptsInv, SearchesAreExact
<1>2. Spec => []ScriptsInv
  BY InitScripts, ScriptsStep, PTL DEF Spec
<1> QED
  BY <1>1, <1>2, PTL
==============================================================================
