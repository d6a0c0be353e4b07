----------------------------- MODULE ProxyScript -----------------------------
(***************************************************************************)
(* gupf-creategelatouserproxy (buidler/tasks/user_proxies): runs of the    *)
(* script create proxies for the account that signs for all of them, while *)
(* everything else goes on with the factory and its proxies.  A run finds  *)
(* the address of its proxy among the logs of the block it was mined in;   *)
(* the block may be gone by then.                                          *)
(***************************************************************************)
EXTENDS UserProxies, Sequences

CONSTANTS Runs,    \* the runs of the script
          Funded,  \* those with --funding
          Signer,  \* the account that signs
          MaxLogs  \* bound: logs when others create a proxy

ProxyScriptAssumption ==
  /\ Funded \subseteq Runs /\ "other" \notin Runs
  /\ Signer \in Users /\ NoUser \notin Users
  /\ {MaxNonce, MaxLogs} \subseteq Nat

VARIABLES logs,  \* LogCreation: the transaction (a run), the user, the proxy
          run

allVars == <<vars, logs, run>>

Other == "other"
NoProxy == [creator |-> NoUser, number |-> 0]

Log(tx, u, p) == [tx |-> tx, user |-> u, proxy |-> p]

Goto(r, pc) == run' = [run EXCEPT ![r].pc = pc]

(* The value of --funding is parsed and the transaction sent; an error of  *)
(* either ends the script.  The default is a number in hexadecimal, which  *)
(* parseEther refuses.                                                     *)
Send(r) ==
  /\ run[r].pc = "start"
  /\ IF r \in Funded THEN Goto(r, "sent") \/ Goto(r, "failed") ELSE Goto(r, "refused")
  /\ UNCHANGED <<vars, logs>>

(* The transaction is mined, or reverts.  In the same block others create  *)
(* proxies, also with other calls of the factory.                          *)
Mine(r) ==
  /\ run[r].pc = "sent"
  /\ \/ \E value \in 0 .. MaxEther :
          /\ create(Signer, value, FALSE, 0)
          /\ logs' = Append(logs, Log(r, Signer, AtNonce(nonce + 1)))
          /\ Goto(r, "mined")
     \/ Goto(r, "failed") /\ UNCHANGED <<vars, logs>>

OtherCreates ==
  /\ Len(logs) < MaxLogs
  /\ \E u \in Users :
       \/ /\ create(u, 0, FALSE, 0)
          /\ logs' = Append(logs, Log(Other, u, AtNonce(nonce + 1)))
       \/ \E saltNonce \in Salts :
            /\ createTwo(u, saltNonce, 0, FALSE, 0)
            /\ logs' = Append(logs, Log(Other, u, predictProxyAddress(u, saltNonce)))
  /\ UNCHANGED run

(* A proxy that is used, and destroyed. *)
OtherActs ==
  /\ \E u \in Users, p \in Proxies : execAction(u, p, 0, 0)
  /\ UNCHANGED <<logs, run>>

\* Variant: the newest log of the user.
FetchNewest(r) ==
  /\ run[r].pc = "mined"
  /\ LET own == SelectSeq(logs, LAMBDA l : l.user = Signer) IN
       run' = [run EXCEPT ![r].pc = "done", ![r].proxy = own[Len(own)].proxy]
  /\ UNCHANGED <<vars, logs>>

(* event-getparsedlog by the hash of the transaction, in the block.  If it *)
(* has nothing to return the script trips over it.                         *)
Fetch(r) ==
  /\ run[r].pc = "mined"
  /\ \/ \E i \in DOMAIN logs :
          /\ logs[i].tx = r /\ \A j \in 1 .. i - 1 : logs[j].tx # r
          /\ run' = [run EXCEPT ![r].pc = "done", ![r].proxy = logs[i].proxy]
     \/ Goto(r, "failed")
  /\ UNCHANGED <<vars, logs>>

ScriptInit ==
  /\ Init
  /\ logs = <<>>
  /\ run = [r \in Runs |-> [pc |-> "start", proxy |-> NoProxy]]

ScriptNext ==
  \/ \E r \in Runs : Send(r) \/ Mine(r) \/ Fetch(r)
  \/ OtherCreates \/ OtherActs

ScriptSpec ==
  /\ ScriptInit /\ [][ScriptNext]_allVars
  /\ \A r \in Runs : WF_allVars(Send(r)) /\ WF_allVars(Mine(r)) /\ WF_allVars(Fetch(r))

(* Every proxy a run returns is its user's, as the factory has it, and     *)
(* another one for every run, however many are created at the same time.   *)
ReturnsOwnProxy ==
  \A r, q \in Runs : run[r].pc = "done" =>
    /\ run[r].proxy \in gelatoProxiesByUser[Signer]
    /\ userByGelatoProxy[run[r].proxy] = Signer
    /\ run[q].pc = "done" /\ q # r => run[q].proxy # run[r].proxy

Busy(r) == run[r].pc \notin {"done", "failed", "refused"}
=============================================================================
