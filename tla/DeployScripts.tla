---------------------------- MODULE DeployScripts ----------------------------
(***************************************************************************)
(* The scripts that deploy contracts (buidler/tasks/deploy and the scripts *)
(* of the provider module of Gnosis Safes).  Every deployment counts the   *)
(* transactions of the deployer, gives its transaction the number after    *)
(* them, and waits until it is mined.  Scripts run at the same time, and   *)
(* the deployers send other transactions.                                  *)
(*                                                                         *)
(* A script is a sequence of deployments and of other calls that may fail. *)
(* What stops a script whatever the chain does ("refused") is told apart   *)
(* from failures of node, compiler, chain or Etherscan ("failed").         *)
(***************************************************************************)
EXTENDS Naturals, Sequences

CONSTANTS Runs,      \* runs of scripts
          Scripts,   \* the scripts that are run
          Indices,   \* bound: values of --signerindex, of accounts there are
          Additions, \* bound: values of --nonceaddition
          MaxCount   \* bound: transactions of a deployer

DeployAssumption ==
  /\ Scripts \subseteq {"deploy", "deployGC", "gnosisSafeModule", "updateMasterCopy",
                        "setupGelato", "setupGnosisSafe", "setupUserProxies"}
  /\ Indices \subseteq Nat /\ Additions \subseteq Nat /\ MaxCount \in Nat

VARIABLES count,   \* the nonce of each deployer
          pool,    \* transactions that wait for being mined
          mined,   \* those that were
          printed, \* the transactions whose hash the log shows
          run

chain == <<count, pool, mined>>
vars == <<chain, printed, run>>

(* Accounts by their index: 0, which the code takes for none given, is the *)
(* account of getSysAdmin().                                               *)
SysAdmin == 0
Deployers == {SysAdmin} \cup Indices

(* How many arguments the constructors take.  The options of a deployment  *)
(* are taken for the argument that is missing, and refused as that.        *)
Inputs == [GelatoCore |-> 1, GelatoUserProxyFactory |-> 1, ProviderModuleGelatoUserProxy |-> 2,
           ProviderModuleGnosisSafeProxy |-> 4, Condition |-> 0, Action |-> 0, Plain |-> 0]

Deploy(contract, args) == [op |-> "deploy", contract |-> contract, args |-> args, own |-> TRUE]
DeploySysAdmin(contract, args) == [Deploy(contract, args) EXCEPT !.own = FALSE]
Call == [op |-> "call"]
ReferenceError == [op |-> "error"]

deployGC == <<Call, DeploySysAdmin("GelatoCore", 1)>>

gnosisSafeModule ==
  <<Call, Call, Call, Call, DeploySysAdmin("ProviderModuleGnosisSafeProxy", 4)>>

(* uiSafeAddress is not declared. *)
updateMasterCopy == <<Call, Call, Call, ReferenceError, Call, Call, Call>>

(* The executor, the fee tokens and the fee handler of the provider. *)
setupGelato == <<Call, Call, Call>>

(* gelatoGasPriceOracle is not declared. *)
setupGnosisSafe ==
  <<Deploy("GelatoCore", 0), Deploy("Condition", 0), Deploy("Action", 0), Call,
    Deploy("ProviderModuleGnosisSafeProxy", 4), Call, Call, Call, ReferenceError>>

(* The factory has no proxyExtcodehash. *)
setupUserProxies ==
  <<Deploy("GelatoCore", 0), Deploy("GelatoUserProxyFactory", 1), ReferenceError,
    Deploy("ProviderModuleGelatoUserProxy", 1), Call, Call, Call, Call>>

Program == [deploy |-> <<Deploy("Plain", 0)>>, deployGC |-> deployGC,
            gnosisSafeModule |-> gnosisSafeModule, updateMasterCopy |-> updateMasterCopy,
            setupGelato |-> setupGelato, setupGnosisSafe |-> setupGnosisSafe,
            setupUserProxies |-> setupUserProxies]

Step(r) == Program[run[r].script][run[r].step]

NoTx == [from |-> SysAdmin, nonce |-> 0, by |-> "nobody", contract |-> "none", ok |-> FALSE]

Init ==
  /\ count = [d \in Deployers |-> 0]
  /\ pool = {} /\ mined = {} /\ printed = {}
  /\ run \in [Runs -> {[script |-> s, index |-> i, addition |-> a, step |-> 1, pc |-> "step",
                        tx |-> NoTx, returned |-> {}]
                       : s \in Scripts, i \in Indices, a \in Additions}]

----------------------------------------------------------------------------
Goto(r, pc) == run' = [run EXCEPT ![r].pc = pc]

(* The next step, or the end, of a script; a contract is returned to it.   *)
Continue(r, returned) ==
  run' = [run EXCEPT ![r].step = @ + 1, ![r].returned = @ \cup returned, ![r].tx = NoTx,
                     ![r].pc = IF run[r].step = Len(Program[run[r].script]) THEN "done" ELSE "step"]

OtherCall(r) ==
  /\ run[r].pc = "step" /\ Step(r).op = "call"
  /\ Continue(r, {}) \/ Goto(r, "failed")
  /\ UNCHANGED <<chain, printed>>

Throw(r) ==
  /\ run[r].pc = "step" /\ Step(r).op = "error"
  /\ Goto(r, "refused")
  /\ UNCHANGED <<chain, printed>>

(* The deployer: the signer the calling script gives or the one with the   *)
(* index, or the system administrator.  Its mined transactions are counted.*)
CountTransactions(r) ==
  /\ run[r].pc = "step" /\ Step(r).op = "deploy"
  /\ LET from == IF Step(r).own THEN run[r].index ELSE SysAdmin IN
       \/ run' = [run EXCEPT ![r].pc = "counted",
                    ![r].tx = [NoTx EXCEPT !.from = from, !.nonce = count[from] + run[r].addition,
                                           !.by = r, !.contract = Step(r).contract]]
       \/ Goto(r, "failed")
  /\ UNCHANGED <<chain, printed>>

Acceptable(tx) ==
  /\ tx.nonce >= count[tx.from]
  /\ \A other \in pool : <<other.from, other.nonce>> # <<tx.from, tx.nonce>>

Pools(tx) == Acceptable(tx) /\ pool' = pool \cup {tx} /\ UNCHANGED <<count, mined>>

(* contractFactory.deploy, after the name is checked and everything is     *)
(* compiled; the hash is printed.  A transaction with the number of        *)
(* another is not accepted: their gas price is the same.  The transaction  *)
(* may be sent though the answer of the node is an error.                  *)
Send(r) ==
  /\ run[r].pc = "counted"
  /\ IF Step(r).args # Inputs[Step(r).contract]
     THEN Goto(r, "refused") /\ UNCHANGED <<chain, printed>>
     ELSE \/ Pools(run[r].tx) /\ Goto(r, "sent") /\ printed' = printed \cup {run[r].tx}
          \/ Pools(run[r].tx) /\ Goto(r, "unanswered") /\ UNCHANGED printed
          \/ Goto(r, "failed") /\ UNCHANGED <<chain, printed>>

(* A transaction is mined; its constructor may revert. *)
Mine(tx) ==
  /\ tx \in pool /\ tx.nonce = count[tx.from]
  /\ count' = [count EXCEPT ![tx.from] = @ + 1]
  /\ pool' = pool \ {tx}
  /\ \E ok \in BOOLEAN : mined' = mined \cup {[tx EXCEPT !.ok = ok]}
  /\ UNCHANGED <<printed, run>>

(* The deployer sends something else, perhaps for a higher price in place  *)
(* of a deployment that waits.                                             *)
MineOther(d) ==
  /\ count[d] < MaxCount
  /\ count' = [count EXCEPT ![d] = @ + 1]
  /\ pool' = {tx \in pool : <<tx.from, tx.nonce>> # <<d, count[d]>>}
  /\ UNCHANGED <<mined, printed, run>>

(* contract.deployed(): the contract is there, or its constructor has      *)
(* reverted, or the node fails.                                            *)
Deployed(r) ==
  /\ run[r].pc = "sent"
  /\ \E ok \in BOOLEAN :
       /\ [run[r].tx EXCEPT !.ok = ok] \in mined
       /\ \/ ok /\ Goto(r, "deployed")
          \/ Goto(r, "failed")
  /\ UNCHANGED <<chain, printed>>

(* Events are printed, whose errors are not; the source is verified, and   *)
(* an error of that ends the script.                                       *)
Verify(r) ==
  /\ run[r].pc = "deployed"
  /\ Continue(r, {[run[r].tx EXCEPT !.ok = TRUE]}) \/ Goto(r, "failed")
  /\ UNCHANGED <<chain, printed>>

ScriptStep(r) ==
  OtherCall(r) \/ Throw(r) \/ CountTransactions(r) \/ Send(r) \/ Deployed(r) \/ Verify(r)

Next ==
  \/ \E r \in Runs : ScriptStep(r)
  \/ \E tx \in pool : Mine(tx)
  \/ \E d \in Deployers : MineOther(d)

MineNext(d) == \E tx \in pool : tx.from = d /\ Mine(tx)

Fairness ==
  /\ \A r \in Runs : WF_vars(ScriptStep(r))
  /\ \A d \in Deployers : WF_vars(MineNext(d))

Spec == Init /\ [][Next]_vars /\ Fairness

----------------------------------------------------------------------------
(* Properties *)

Ended(r) == run[r].pc \in {"done", "failed", "refused", "unanswered"}

(* Types; and no deployer ever has two transactions with one number.       *)
TypeOK ==
  /\ count \in [Deployers -> Nat]
  /\ \A t, u \in pool \cup mined : t.from = u.from /\ t.nonce = u.nonce => t = u
  /\ \A t \in mined : t.nonce < count[t.from]

(* What a script uses and returns is there: every contract it has asked    *)
(* for up to now is mined, alive and from its own transaction, though      *)
(* scripts of the same deployer count the same transactions.               *)
ReturnsOwnContracts ==
  \A r \in Runs :
    LET program == Program[run[r].script]
        deployments == {i \in 1 .. run[r].step - 1 : program[i].op = "deploy"}
    IN /\ run[r].returned \subseteq {tx \in mined : tx.by = r /\ tx.ok}
       /\ {tx.contract : tx \in run[r].returned} = {program[i].contract : i \in deployments}

(* The log of a run shows every contract it has deployed, however the run  *)
(* ends afterwards, unless the node has not even answered.                 *)
AddressesAreKept ==
  \A tx \in mined : run[tx.by].pc # "unanswered" => \E p \in printed : p = [tx EXCEPT !.ok = FALSE]

Replaced(r) ==
  LET tx == run[r].tx IN
    /\ run[r].pc = "sent" /\ count[tx.from] > tx.nonce
    /\ \A t \in mined : <<t.from, t.nonce, t.by>> # <<tx.from, tx.nonce, r>>

BeforeItsTurn(r) == run[r].pc = "sent" /\ count[run[r].tx.from] < run[r].tx.nonce

(* A run waits for its deployer to use the numbers before the one that     *)
(* --nonceaddition gave it, and for ever if the deployer has replaced its  *)
(* transaction.  Otherwise it is busy until it ends.                       *)
Busy(r) == ~ (Ended(r) \/ Replaced(r) \/ BeforeItsTurn(r))
=============================================================================
