------------------------ MODULE PermissionedExecutors ------------------------
(***************************************************************************)
(* The contract behind which two executors share one address, one stake    *)
(* and the providers assigned to it, together with the ledger: everyone    *)
(* else goes on with GelatoCore.  Tasks are seen only by what they earn.   *)
(***************************************************************************)
EXTENDS GelatoExecutors

CONSTANTS Contract,   \* the address of PermissionedExecutors
          Permitted,  \* first_executor and second_executor
          MaxHeld     \* bound: ether of the contract itself

ASSUME PermissionedAssumption ==
  /\ Contract \in Executors /\ Contract \notin Providers \cup Owners
  /\ Permitted \cap Accounts = {} /\ MaxHeld \in Nat

VARIABLES deployed,
          held,   \* ether of the contract
          paid    \* what the contract has paid in the last transaction, and to whom

ownVars == <<deployed, held, paid>>
allVars == <<vars, ownVars>>

Nothing == [to |-> Contract, amount |-> 0]

Stake == executorStake[Contract]

(* value arrives with a call and stays unless it is staked. *)
Holds(value) == held + value <= MaxHeld /\ held' = held + value

PermissionedInit == LedgerInit /\ deployed = FALSE /\ held = 0 /\ paid = Nothing

(* The constructor stakes what it is given, if it is enough. *)
constructor(value) ==
  /\ ~ deployed /\ deployed' = TRUE
  /\ IF value >= params.minExecutorStake
     THEN StakeExecutor(Contract, value) /\ UNCHANGED held
     ELSE Holds(value) /\ UNCHANGED vars
  /\ paid' = Nothing

(* Anyone may add to the stake. *)
stakeExecutor(value) ==
  /\ deployed
  /\ StakeExecutor(Contract, value)
  /\ paid' = Nothing
  /\ UNCHANGED <<deployed, held>>

\* Variant: the stake is read after it has been taken out.
UnstakeReadAfter(sender) ==
  /\ deployed
  /\ UnstakeExecutor(Contract)
  /\ paid' = [to |-> sender, amount |-> executorStake'[Contract]]
  /\ Holds(Stake) /\ UNCHANGED deployed

unstakeExecutor(sender) ==
  /\ deployed
  /\ UnstakeExecutor(Contract)
  /\ paid' = [to |-> sender, amount |-> Stake]
  /\ UNCHANGED <<deployed, held>>

(* What the core answers is paid; value, which the function accepts, stays.*)
withdrawExcessExecutorStake(sender, withdrawAmount, value) ==
  /\ deployed
  /\ WithdrawExcessExecutorStake(Contract, withdrawAmount)
  /\ Holds(value)
  /\ paid' = [to |-> sender, amount |-> Stake - executorStake'[Contract]]
  /\ UNCHANGED deployed

multiReassignProviders(providers, newExecutor) ==
  /\ deployed
  /\ MultiReassignProviders(Contract, providers, newExecutor)
  /\ paid' = Nothing
  /\ UNCHANGED <<deployed, held>>

(* GelatoCore.exec, paid from the provider's funds into the stake.  The    *)
(* call of the one of the two who comes second reverts.                    *)
exec(provider, fee) ==
  /\ deployed
  /\ executorByProvider[provider] = Contract /\ isExecutorMinStaked(Contract)
  /\ fee <= providerFunds[provider]
  /\ providerFunds' = [providerFunds EXCEPT ![provider] = @ - fee]
  /\ executorStake' = [executorStake EXCEPT ![Contract] = @ + fee]
  /\ paid' = Nothing
  /\ UNCHANGED <<sysAdminVars, assignmentVars, whitelistVars, deployed, held>>

Others ==
  /\ \/ \E a \in Accounts \ {Contract} : LedgerStep(a)
     \/ \E price \in GasPrices : OracleAnswers(price) /\ UNCHANGED providerVars
  /\ paid' = Nothing
  /\ UNCHANGED <<deployed, held>>

PermissionedNext ==
  \/ \E value \in Amounts : constructor(value) \/ stakeExecutor(value)
  \/ \E e \in Permitted :
       \/ unstakeExecutor(e)
       \/ \E withdrawAmount, value \in Amounts :
            withdrawExcessExecutorStake(e, withdrawAmount, value)
  \/ \E P \in SUBSET Providers, newExecutor \in Addresses :
       multiReassignProviders(P, newExecutor)
  \/ \E p \in Providers, fee \in Amounts : exec(p, fee)
  \/ Others

PermissionedSpec == PermissionedInit /\ [][PermissionedNext]_allVars

-----------------------------------------------------------------------------
(* Properties *)

(* Whatever leaves the common stake goes to one of the two executors in    *)
(* the same transaction, to the last wei, and nothing else is ever paid:   *)
(* what the contract holds itself, it holds for ever.                      *)
StakePassesThrough ==
  [][/\ Stake' < Stake => paid'.to \in Permitted
     /\ held' >= held
     /\ paid'.amount = IF Stake' < Stake THEN Stake - Stake' ELSE 0]_allVars
=============================================================================
