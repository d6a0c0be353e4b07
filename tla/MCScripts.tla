------------------------------- MODULE MCScripts -------------------------------
(***************************************************************************)
(* The scripts of the command line, for TLC: those of executors and        *)
(* providers, the searches for events, the scripts for task receipts, and  *)
(* those that create proxies, fee handlers and other contracts.  Runs of   *)
(* one kind share their account and the contracts they act on; runs of     *)
(* different kinds share nothing.  So each kind is explored by itself: all *)
(* are in their initial states and one of them, part, moves.               *)
(***************************************************************************)
EXTENDS Naturals, Sequences, FiniteSets

CONSTANTS NotGiven,  \* an amount that is not given
          Runs, Signer, Users, NoUser, Salts, FundedRuns,
          MaxNonce, MaxEther, MaxTasks, MaxCreations,
          MaxBlocks, MaxLogs, Numbers, Values, DefaultFrom,
          Proxy, User, ETH, ERC20, DEN, Word, Nums, Inexact, Supply, MaxHandlers,
          Deployments, Indices, Additions, MaxCount

VARIABLES part,
          params, sysAdminFunds, gelatoBalance, providerFunds, executorStake,
          executorByProvider, executorProvidersCount, taskSpecGasPriceCeil, providerModules,
          ledgerRuns, queue,
          chain, chainMined, args, pc, found, result, before,
          blocks, receiptLogs, stored, executed, cancelled, sameUser, receiptRuns,
          nonce, code, userByGelatoProxy, gelatoProxiesByUser, ether, tasks, submitted, acts,
          creations, proxyRuns,
          handlers, feeHandlerByProviderAndNum, feeHandlersByProvider, isWhitelistedToken,
          balance, allowance, feeRuns,
          count, pool, mined, printed, deployRuns

ledger == <<params, sysAdminFunds, gelatoBalance, providerFunds, executorStake,
            executorByProvider, executorProvidersCount, taskSpecGasPriceCeil, providerModules>>
ledgerVars == <<ledger, ledgerRuns, queue>>
eventVars == <<chain, chainMined, args, pc, found, result, before>>
receiptVars == <<blocks, receiptLogs, stored, executed, cancelled, sameUser, receiptRuns>>
proxyVars == <<nonce, code, userByGelatoProxy, gelatoProxiesByUser, ether, tasks, submitted,
               acts, creations, proxyRuns>>
feeVars == <<handlers, feeHandlerByProviderAndNum, feeHandlersByProvider, isWhitelistedToken,
             balance, allowance, feeRuns>>
deployVars == <<count, pool, mined, printed, deployRuns>>

\* Scripts of the executor, while the owner changes the minimum stake.
Executor == INSTANCE LedgerScripts WITH
  Accounts <- {"executor", "signer"}, Providers <- {"executor", "signer"},
  Executors <- {"executor"}, Owners <- {"signer"}, NoAccount <- "zero",
  FirstSigner <- "signer", ExecutorWallet <- "executor", ProviderWallet <- "signer",
  SignerTwo <- "signer", DefaultAmount <- NotGiven,
  Amounts <- {1, 2}, MaxEther <- 60, GasPrices <- {1}, GasLimits <- {1},
  GasRequirements <- {1}, Stakes <- {1, 2}, Shares <- {0}, ExecTxOverhead <- 1,
  TaskSpecs <- {"s"}, Modules <- {"m"}, Accepts <- {}, Ceils <- {1}, NO_CEIL <- 9,
  Kinds <- {"stake", "unstake", "reassign", "withdrawExcess", "demoAssignExecutor"},
  runs <- ledgerRuns

\* Scripts of the provider, while its executor is paid.
Provider == INSTANCE LedgerScripts WITH
  Accounts <- {"executor", "signer"}, Providers <- {"executor", "signer"},
  Executors <- {"executor"}, Owners <- {"executor"}, NoAccount <- "zero",
  FirstSigner <- "executor", ExecutorWallet <- "executor", ProviderWallet <- "signer",
  SignerTwo <- "signer", DefaultAmount <- NotGiven,
  Amounts <- {1, 2}, MaxEther <- 60, GasPrices <- {1}, GasLimits <- {1},
  GasRequirements <- {1}, Stakes <- {0}, Shares <- {0}, ExecTxOverhead <- 1,
  TaskSpecs <- {"s"}, Modules <- {"m"}, Accepts <- {}, Ceils <- {1}, NO_CEIL <- 9,
  Kinds <- {"stake", "provideFunds", "demoProvideFunds", "unprovideFunds",
            "demoUnprovideFunds", "assignExecutor", "multiUnprovide", "demoAssignExecutor",
            "addModules", "demoAddModule", "provideTaskSpec", "demoProvideTaskSpec",
            "multiProvide"},
  runs <- ledgerRuns

\* Searches for raw and parsed logs, of ranges, blocks and transactions.
Search == INSTANCE EventSearch WITH
  Kinds <- {"getLog", "getLogs", "allEvents", "parsedLog", "parsedLogs", "parsedAll"},
  mined <- chainMined

\* One script for a task receipt, whichever it is.
Receipt == INSTANCE ReceiptClients WITH
  Scripts <- {"r1"}, Kinds <- {"submit", "canExec", "canExecExec", "exec", "cancel"},
  MaxIds <- 1, DefaultFrom <- 1, Contents <- {"single"},
  Froms <- {}, Tos <- {}, Hashes <- {}, Txs <- {},
  logs <- receiptLogs, script <- receiptRuns

\* Runs that create proxies for one account.
UserProxy == INSTANCE ProxyScript WITH
  MaxLogs <- MaxCreations, Funded <- FundedRuns, logs <- creations, run <- proxyRuns

\* Runs that look for handlers of one account.  (The module with the proofs
\* extends FeeHandlers, so that ScriptProofs can cite its lemmas.)
Fee == INSTANCE FeeHandlerProofs WITH Providers <- Users, run <- feeRuns

\* Runs of the scripts that deploy.
Deploy == INSTANCE DeployScripts WITH Scripts <- Deployments, run <- deployRuns

ASSUME InstancesAssumption ==
  /\ Executor!LedgerScriptsAssumption /\ Provider!LedgerScriptsAssumption
  /\ Search!EventSearchAssumption /\ Receipt!ReceiptClientsAssumption
  /\ UserProxy!ProxyScriptAssumption /\ Fee!FeeHandlersAssumption /\ Deploy!DeployAssumption

Init ==
  /\ part \in {"executor", "provider", "search", "parsed", "receipt", "proxy", "fee", "deploy"}
  /\ IF part = "provider" THEN Provider!Init ELSE Executor!Init
  /\ Search!Init /\ Receipt!Init /\ UserProxy!ScriptInit /\ Fee!Init /\ Deploy!Init
  /\ part = "receipt" \/ sameUser
  /\ LET first == deployRuns[CHOOSE r \in Runs : TRUE] IN
       /\ first.script = "deploy" /\ first.index = 0 /\ first.addition = 0
       /\ part = "deploy" \/ deployRuns = [r \in Runs |-> first]

LedgerMoves ==
  /\ \/ part = "executor" /\ Executor!Next
     \/ part = "provider" /\ Provider!Next
  /\ UNCHANGED <<part, eventVars, receiptVars, proxyVars, feeVars, deployVars>>

\* Two parts: the searches for raw logs, while two blocks are mined and one value
\* is logged, and the other searches, with every filter but no range.
EventMoves ==
  /\ \/ /\ part = "search"
        /\ \/ \E kind \in {"getLogs", "allEvents"} : Search!Start(kind, Numbers, 1 .. MaxBlocks)
           \/ Search!Proceed /\ \A l \in Search!LogsOf(chain') : l.value \in {1, Search!None}
     \/ /\ part = "parsed"
        /\ \/ \E kind \in {"getLog", "parsedLog", "parsedLogs", "parsedAll"} :
                Search!Start(kind, {}, {1})
           \/ Search!Proceed /\ chainMined' <= 1
  /\ UNCHANGED <<part, ledgerVars, receiptVars, proxyVars, feeVars, deployVars>>

ReceiptMoves ==
  /\ part = "receipt" /\ Receipt!Next
  /\ UNCHANGED <<part, ledgerVars, eventVars, proxyVars, feeVars, deployVars>>

ProxyMoves ==
  /\ part = "proxy" /\ UserProxy!ScriptNext
  /\ UNCHANGED <<part, ledgerVars, eventVars, receiptVars, feeVars, deployVars>>

FeeMoves ==
  /\ part = "fee" /\ Fee!Next /\ UNCHANGED isWhitelistedToken
  /\ UNCHANGED <<part, ledgerVars, eventVars, receiptVars, proxyVars, deployVars>>

DeployMoves ==
  /\ part = "deploy" /\ Deploy!Next
  /\ UNCHANGED <<part, ledgerVars, eventVars, receiptVars, proxyVars, feeVars>>

Next == LedgerMoves \/ EventMoves \/ ReceiptMoves \/ ProxyMoves \/ FeeMoves \/ DeployMoves

vars == <<part, ledgerVars, eventVars, receiptVars, proxyVars, feeVars, deployVars>>

(* Scripts that were started run on, the node answers, and the network     *)
(* mines what was sent: the fairness of each kind of script, asked of the  *)
(* kind that moves.                                                        *)
Fairness ==
  /\ \A r \in Runs : WF_ledgerVars(part = "executor" /\ Executor!Step(r) /\ UNCHANGED ledger)
  /\ \A r \in Runs : WF_ledgerVars(part = "provider" /\ Provider!Step(r) /\ UNCHANGED ledger)
  /\ \A a \in {"executor", "signer"} :
       /\ WF_ledgerVars(part = "executor" /\ Executor!Mine(a))
       /\ WF_ledgerVars(part = "provider" /\ Provider!Mine(a))
  /\ WF_eventVars(Search!AskNode) /\ WF_eventVars(Search!Finish)
  /\ Receipt!Fairness
  /\ \A r \in Runs :
       /\ WF_proxyVars(part = "proxy" /\ UserProxy!Send(r))
       /\ WF_proxyVars(part = "proxy" /\ UserProxy!Mine(r))
       /\ WF_proxyVars(part = "proxy" /\ UserProxy!Fetch(r))
       /\ WF_feeVars(part = "fee" /\ Fee!Start(r)) /\ WF_feeVars(part = "fee" /\ Fee!Look(r))
       /\ WF_feeVars(part = "fee" /\ Fee!Create(r)) /\ WF_feeVars(part = "fee" /\ Fee!Mine(r))
       /\ WF_feeVars(part = "fee" /\ Fee!Return(r))
       /\ WF_deployVars(part = "deploy" /\ Deploy!ScriptStep(r))
  /\ \A d \in Deploy!Deployers : WF_deployVars(part = "deploy" /\ Deploy!MineNext(d))

Spec == Init /\ [][Next]_vars /\ Fairness

-----------------------------------------------------------------------------
(* Properties *)

\* A script that stakes, withdraws or unprovides has read the contract before
\* and acts on what it read, however stale: it stakes the minimum unless the
\* owner has raised it, takes out no more than it has said and nothing of the
\* minimum stake, and withdraws what is left of the funds.
StaleReadsAreSafe ==
  /\ []Executor!TypeOK
  /\ Executor!StakeScriptStakes
  /\ Executor!WithdrawsExcessOnly
  /\ Provider!UnprovideNeverReverts

\* A search asks event by event while blocks are added and replaced: it returns
\* every log of its range that was there all the time and none twice, of a
\* block all logs or none, and with a filter exactly the logs that pass it.
\* (The types of each kind of script are checked along.)
SearchesAreExact ==
  Search!TypeOK /\ Search!RangeComplete /\ Search!BlockAllOrNothing /\ Search!FilteredExactly

\* Whatever other runs and accounts create at the same time, a run returns the
\* proxy, the handler and the contracts that are its own and are there, and the
\* log shows the address of every contract it has deployed.
ReturnsItsOwn ==
  /\ UserProxy!ReturnsOwnProxy
  /\ Fee!TypeOK /\ Fee!ReturnsHandler /\ Fee!FactoryAgrees
  /\ Deploy!TypeOK /\ Deploy!ReturnsOwnContracts /\ Deploy!AddressesAreKept

Busy(r) ==
  \/ Executor!Running(r)
  \/ pc = "query"
  \/ r \in DOMAIN receiptRuns /\ Receipt!Busy(r)
  \/ part = "proxy" /\ UserProxy!Busy(r)
  \/ part = "fee" /\ Fee!Busy(r)
  \/ part = "deploy" /\ Deploy!Busy(r)

\* Every run ends, with what it wanted or with the error that stopped it, though
\* others do the same before it; only a deployment whose transaction has been
\* replaced, or waits for its number, is waited for.
ScriptsEnd == \A r \in Runs : Busy(r) ~> ~ Busy(r)
=============================================================================
