-------------------------------- MODULE MCDapps --------------------------------
(***************************************************************************)
(* The scripts that give a user a task, for TLC: those for a Gnosis Safe,  *)
(* the demo dapps that repeat a transfer, and the one whose user is its    *)
(* own provider.  Two runs of scripts of one kind share their user's       *)
(* account and proxy; runs of different kinds share nothing.  So each kind *)
(* is explored by itself, and of some kinds the scripts that go together:  *)
(* all are in their initial states and one of them, part, moves.           *)
(***************************************************************************)
EXTENDS SafeClients

CONSTANTS Dapps, SaltNonces, DefaultNonce, SecondsDelta, Cycles, CycleCounts, MaxRounds, MaxOthers,
          Prices, Gas, Overhead, InitialDeployed, InitialFunds

VARIABLES part,
          timedRuns, timedPending, proxies, timer, receipts, lastId, others, transfers, since,
          served, liquid,
          selfRuns, selfPending, price, proxyDeployed, proxyBalance, funds, module, executor,
          left, paid, charged, lost

timedVars == <<timedRuns, timedPending, proxies, timer, receipts, lastId, others, transfers, since,
               served, liquid>>
selfChain == <<price, proxyDeployed, proxyBalance, funds, module, executor, left, paid, charged, lost>>
selfVars == <<selfRuns, selfPending, selfChain>>

\* The dapps that repeat a transfer.
Timed == INSTANCE TimedDapps WITH
  runs <- timedRuns, pending <- timedPending, deployed <- proxies

\* The dapp whose user is its own provider.
Self == INSTANCE SelfProviderDapp WITH
  runs <- selfRuns, pending <- selfPending, deployed <- proxyDeployed, balance <- proxyBalance

ASSUME DappsAssumption ==
  SafeClientsAssumption /\ Timed!TimedDappsAssumption /\ Self!SelfProviderAssumption

DappsInit ==
  /\ part \in {"safe", "kyber", "timed", "mixed", "terms", "self", "prices"}
  /\ Init /\ Timed!Init /\ Self!Init
  /\ part \in {"safe", "kyber"} \/ deployed = {}
  /\ part \in {"timed", "mixed", "terms"} \/ proxies = {}
  /\ part = "terms" \/ served = (part \in {"timed", "mixed"})
  /\ part \in {"timed", "terms"} \/ liquid = served
  /\ part \in {"self", "prices"} \/ ~ proxyDeployed
  /\ part = "prices" \/ price = CHOOSE p \in Prices : TRUE

\* Scripts for one safe, and scripts with a salt of their own or with one they
\* do not hand on.
Started == [safe  |-> {"timeTrade", "balanceTrade"},
            kyber |-> {"kyberPriceTrade", "withdraw", "tradeAndWithdraw"}]

SafeMoves ==
  /\ part \in {"safe", "kyber"} /\ Next
  /\ \A r \in Runs : runs'[r].pc # "idle" => runs'[r].kind \in Started[part]
  /\ LET specs == UNION {Specs(kind) : kind \in Started[part]} IN
       provided' \ specs = provided \ specs
  /\ UNCHANGED <<part, timedVars, selfVars>>

\* The dapps that wind their timer before they submit, or the first of them with
\* the one that trades instead; or one run, of endless cycles too, while its
\* provider's terms change.
TimedMoves ==
  /\ part \in {"timed", "mixed", "terms"} /\ Timed!Next
  /\ \A r \in Runs : timedRuns'[r].dapp # (IF part = "mixed" THEN "balance" ELSE "two")
  /\ IF part = "terms" THEN Cardinality({r \in Runs : timedRuns'[r].pc # "idle"}) <= 1
     ELSE /\ served' = served /\ (part = "mixed" => liquid' = liquid)
          /\ \A r \in Runs : timedRuns'[r].cycles # 0 \/ timedRuns'[r].pc = "idle"
  /\ UNCHANGED <<part, vars, selfVars>>

\* Runs at one gas price, or one run while the gas price changes.
SelfMoves ==
  /\ part \in {"self", "prices"} /\ Self!Next
  /\ IF part = "self" THEN price' = price
     ELSE Cardinality({r \in Runs : selfRuns'[r].pc # "idle"}) <= 1
  /\ UNCHANGED <<part, vars, timedVars>>

DappsNext == SafeMoves \/ TimedMoves \/ SelfMoves

dappsVars == <<part, vars, timedVars, selfVars>>

(* Scripts run on, the network mines, time passes and executors execute:   *)
(* the fairness of each kind of script.  It asks nothing of those that do  *)
(* not move, none of whose steps is enabled in their initial state.        *)
DappsFairness ==
  /\ Fairness
  /\ Timed!Fairness
  /\ \A r \in Runs : WF_selfVars(part = "self" /\ Self!Step(r) /\ UNCHANGED selfChain)
  /\ WF_selfVars(part = "self" /\ Self!Mine)

DappsSpec == DappsInit /\ [][DappsNext]_dappsVars /\ DappsFairness

-----------------------------------------------------------------------------
(* Properties *)

\* GelatoCore executes a task as a module of the user's safe, and the safe
\* sells tokens its user approved: whatever the interleaving of scripts, a safe
\* that has submitted a task has GelatoCore enabled, and no approval of the
\* task's script is still pending.  The first trade of timeTrade and its task
\* are one batch: what the user has paid is one sell amount for each timeTrade
\* task there is.  (The types of the scripts for a safe are checked along.)
SafeIsPrepared == TypeOK /\ ModuleBeforeTask /\ ApprovalMinedFirst /\ PaidPerTask

\* "every 2 minutes", "for 5 times": tokens leave the user's account no sooner
\* than SecondsDelta after the submission and after the time before, and no more
\* often than asked for, whatever others submit in between and whatever other
\* scripts of the user do.  exampleTwo does not keep to that.
TransfersSpaced ==
  /\ []Timed!TypeOK
  /\ [](\A r \in Runs : timedRuns[r].dapp # "two" => Timed!AtMostCyclesOf(r))
  /\ [][\A r \in Runs : timedRuns[r].dapp # "two" => Timed!SpacedTransferOf(r)]_dappsVars


\* No setup transaction of exampleThree is waited for, and a second run may
\* repeat it: a task that is submitted by a proxy that was there finds module
\* and executor.  No ether is lost on the way.
SetupPrecedesTask == Self!SetupPrecedesTask /\ Self!TypeOK /\ Self!EtherAccounted

RunningOne(r) ==
  \/ Running(r) \/ Timed!Running(r)
  \/ part # "prices" /\ Self!Running(r)

\* A script that was started ends, whatever other scripts do meanwhile and
\* whatever becomes of its transactions.
DappsEnd == \A r \in Runs : RunningOne(r) ~> ~ RunningOne(r)
=============================================================================
