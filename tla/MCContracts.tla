------------------------------ MODULE MCContracts ------------------------------
(***************************************************************************)
(* The contracts beside GelatoCore, for TLC: the user proxies, the set     *)
(* library, the fee handlers, the provider modules with the pipeline, and  *)
(* the receipts that several executors and users work on.  They share no   *)
(* state and call each other only through GelatoCore, so each is explored  *)
(* by itself: all are in their initial states and one of them, part,       *)
(* moves.                                                                  *)
(***************************************************************************)
EXTENDS UserProxies, ProviderModuleSet, TLC

CONSTANTS Providers, Signer, Proxy, User, ETH, ERC20, DEN, Word, Nums, Supply, MaxHandlers,
          ReceiptKinds, DefaultFrom,
          RaceScripts, RaceIds, RaceContents, SearchScripts, SearchIds, SearchContents,
          Copies, PipeKinds, PipeTypes, PipeActions, TrustKinds, TrustTypes, TrustActions

VARIABLES part,
          handlers, feeHandlerByProviderAndNum, feeHandlersByProvider,
          isWhitelistedToken, balance, allowance, run,
          blocks, logs, stored, executed, cancelled, sameUser, script,
          module, actions, proxy, provided, pc, saved, got, data

feeVars == <<handlers, feeHandlerByProviderAndNum, feeHandlersByProvider,
             isWhitelistedToken, balance, allowance, run>>
receiptVars == <<blocks, logs, stored, executed, cancelled, sameUser, script>>
taskVars == <<module, actions, proxy, provided, pc, saved, got, data>>

(* The modules with the proofs extend the components, so that a theorem    *)
(* about the contracts can cite a lemma about one of them.                 *)

\* The handlers of providers, when no script runs.
Fees == INSTANCE FeeHandlerProofs WITH Runs <- {}, Inexact <- {}

\* Runs that execute or cancel the same receipts, among others who do.
Race == INSTANCE ReceiptProofs WITH
  Scripts <- RaceScripts, Kinds <- ReceiptKinds, MaxIds <- RaceIds,
  Contents <- RaceContents, Froms <- {}, Tos <- {}, Hashes <- {}, Txs <- {}

\* Runs over all that is submitted and its successors, that may look from the
\* block after the first receipts, up to theirs, in one of the two or for a
\* transaction.
Search == INSTANCE ReceiptProofs WITH
  Scripts <- SearchScripts, Kinds <- ReceiptKinds, MaxIds <- SearchIds,
  Contents <- SearchContents, Froms <- {3}, Tos <- {2}, Hashes <- {3}, Txs <- {2, 3}

\* Tasks of several actions and formats of data, while nothing changes.
Pipe == INSTANCE ProviderModuleProofs WITH
  Kinds <- PipeKinds, Types <- PipeTypes, MaxActions <- PipeActions

\* Tasks whose proxies change and whose trust is withdrawn.
Trust == INSTANCE ProviderModuleProofs WITH
  Kinds <- TrustKinds, Types <- TrustTypes, MaxActions <- TrustActions

ASSUME InstancesAssumption ==
  /\ Fees!FeeHandlersAssumption
  /\ Race!ReceiptClientsAssumption /\ Search!ReceiptClientsAssumption
  /\ Pipe!ProviderModulesAssumption /\ Trust!ProviderModulesAssumption

(* Users differ in nothing, and no property tells them apart. *)
Symmetry == Permutations(Users)

ContractsInit ==
  /\ part \in {"proxies", "set", "fees", "race", "search", "pipe", "trust"}
  /\ Init /\ SetInit /\ Fees!Init
  /\ IF part = "search" THEN Search!Init ELSE Race!Init
  /\ part \in {"race", "search"} \/ sameUser
  /\ IF part = "pipe" THEN Pipe!Init ELSE Trust!Init
  /\ part \in {"pipe", "trust"} \/ (module = (CHOOSE k \in TrustKinds : TRUE) /\ actions = <<>>)

ProxiesMove == part = "proxies" /\ Next /\ UNCHANGED <<part, setVars, feeVars, receiptVars, taskVars>>

SetMoves == part = "set" /\ SetNext /\ UNCHANGED <<part, vars, feeVars, receiptVars, taskVars>>

FeesMove == part = "fees" /\ Fees!Next /\ UNCHANGED <<part, vars, setVars, receiptVars, taskVars>>

ReceiptsMove ==
  /\ \/ part = "race" /\ Race!Next
     \/ part = "search" /\ Search!Next
  /\ UNCHANGED <<part, vars, setVars, feeVars, taskVars>>

TasksMove ==
  /\ \/ part = "pipe" /\ Pipe!TaskNext
     \/ part = "trust" /\ Trust!Next
  /\ UNCHANGED <<part, vars, setVars, feeVars, receiptVars>>

ContractsNext == ProxiesMove \/ SetMoves \/ FeesMove \/ ReceiptsMove \/ TasksMove

contractsVars == <<vars, setVars, feeVars, receiptVars, taskVars, part>>

ContractsSpec == ContractsInit /\ [][ContractsNext]_contractsVars

-----------------------------------------------------------------------------
(* Properties, besides those of UserProxies and ProviderModuleSet *)

\* What termsOk of a fee handler accepts does not revert, so that no execution
\* the provider pays for fails at the fee, unless the handler takes no fee at all.
AcceptedIsPayable == Fees!TypeOK /\ Fees!AcceptedIsPayable

\* What the payer loses by an action of a fee handler is the share of the
\* amount, rounded up and never more than the amount, and the provider has it.
FeesAreShares == Fees!FeesAreShares

\* A script that executes or cancels has found the receipt its id names in the
\* range it looks in, which is the one it was asked for unless earlier receipts
\* are cut off, or the first receipt of the transaction it is given; and what it
\* hands to GelatoCore has the hash that is stored.  (The types of
\* receipts are checked along.)
FetchedIsAsked ==
  IF part = "search" THEN Search!TypeOK /\ Search!FetchedIsAsked
  ELSE Race!TypeOK /\ Race!FetchedIsAsked

\* However many executors and users race for a receipt, it is executed at most
\* once, cancelled at most once, and never both.
ExecutedOrCancelledOnce ==
  IF part = "search" THEN Search!ExecutedOrCancelledOnce ELSE Race!ExecutedOrCancelledOnce

\* When gc-cancel-task reports success its task is cancelled, and was not
\* executed just before.
CancelReportIsTrue ==
  IF part = "search" THEN Search!CancelReportIsTrue ELSE Race!CancelReportIsTrue

\* What isValid of the pipeline accepts is delivered, by every module that knows
\* of data flows and for any number of actions, and what it refuses is not.
\* (The types of tasks are checked along.)
PipedAsChecked ==
  IF part = "pipe" THEN Pipe!TypeOK /\ Pipe!PipedAsChecked
  ELSE Trust!TypeOK /\ Trust!PipedAsChecked

\* GelatoCore rewards an execution only when every action was run, also when the
\* proxy catches reverts, unless a GelatoUserProxy is gone; one that failed has
\* left nothing.
SuccessMeansExecuted == Trust!SuccessMeansExecuted
=============================================================================
