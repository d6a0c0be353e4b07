--------------------------- MODULE GelatoExecutors --------------------------
(* Executors stake ether; one that is assigned to a provider stays staked. *)
(* This module closes the part of the contract that knows nothing of       *)
(* tasks: owner, providers and executors as a specification of its own.    *)
EXTENDS GelatoProviders, FiniteSetsExt

CONSTANT
    Executors    \* bound: the accounts that act as executors

ASSUME ExecutorsAssumption == Executors \subseteq Accounts

vars == <<sysAdminVars, providerVars>>

-----------------------------------------------------------------------------
StakeExecutor(sender, value) ==
    LET newStake == executorStake[sender] + value IN
    /\ newStake >= params.minExecutorStake
    /\ ReceiveValue(value)
    /\ executorStake' = [executorStake EXCEPT ![sender] = newStake]
    /\ UNCHANGED <<params, sysAdminFunds, providerFunds, assignmentVars,
                   whitelistVars>>

\* Variant: the minimum is not kept back.
WithdrawExcessExecutorStakeAll(sender, withdrawAmount) ==
    LET realWithdrawAmount == Lesser(withdrawAmount, executorStake[sender]) IN
    /\ isExecutorMinStaked(sender)
    /\ executorStake' = [executorStake EXCEPT ![sender] = @ - realWithdrawAmount]
    /\ SendValue(realWithdrawAmount)
    /\ UNCHANGED <<params, sysAdminFunds, providerFunds, assignmentVars,
                   whitelistVars>>

UnstakeExecutor(sender) ==
    /\ ~ isExecutorAssigned(sender)
    /\ executorStake[sender] # 0
    /\ executorStake' = [executorStake EXCEPT ![sender] = 0]
    /\ SendValue(executorStake[sender])
    /\ UNCHANGED <<params, sysAdminFunds, providerFunds, assignmentVars,
                   whitelistVars>>

WithdrawExcessExecutorStake(sender, withdrawAmount) ==
    LET excess == executorStake[sender] - params.minExecutorStake
        realWithdrawAmount == Lesser(withdrawAmount, excess)
    IN
    /\ isExecutorMinStaked(sender)
    /\ executorStake' = [executorStake EXCEPT ![sender] = @ - realWithdrawAmount]
    /\ SendValue(realWithdrawAmount)
    /\ UNCHANGED <<params, sysAdminFunds, providerFunds, assignmentVars,
                   whitelistVars>>

\* Variant: the new executor's stake is not checked.
MultiReassignProvidersUnchecked(sender, providers, newExecutor) ==
    /\ \A p \in providers : executorByProvider[p] = sender
    /\ providers # {} => newExecutor # sender
    /\ executorByProvider' = [p \in Accounts |->
            IF p \in providers THEN newExecutor ELSE executorByProvider[p]]
    /\ executorProvidersCount' = [a \in Addresses |->
            executorProvidersCount[a]
                - (IF a = sender THEN Cardinality(providers) ELSE 0)
                + (IF a = newExecutor THEN Cardinality(providers) ELSE 0)]
    /\ UNCHANGED <<sysAdminVars, providerFunds, executorStake, whitelistVars>>

\* executorAssignsExecutor for each provider of the array: a repeated provider
\* makes the call revert, so the array is a set.
MultiReassignProviders(sender, providers, newExecutor) ==
    /\ \A p \in providers : executorByProvider[p] = sender
    /\ providers # {} => newExecutor # sender /\ isExecutorMinStaked(newExecutor)
    /\ executorByProvider' = [p \in Accounts |->
            IF p \in providers THEN newExecutor ELSE executorByProvider[p]]
    /\ executorProvidersCount' = [a \in Addresses |->
            executorProvidersCount[a]
                - (IF a = sender THEN Cardinality(providers) ELSE 0)
                + (IF a = newExecutor THEN Cardinality(providers) ELSE 0)]
    /\ UNCHANGED <<sysAdminVars, providerFunds, executorStake, whitelistVars>>

-----------------------------------------------------------------------------
ExecutorsStep(sender) ==
    \/ \E v \in Amounts : StakeExecutor(sender, v)
    \/ UnstakeExecutor(sender)
    \/ \E v \in Amounts : WithdrawExcessExecutorStake(sender, v)
    \/ \E p \in Providers, e \in Addresses :
            ExecutorAssignsExecutor(sender, p, e)
    \/ \E P \in SUBSET Providers, e \in Addresses :
            MultiReassignProviders(sender, P, e)

\* Any call of the contract that has nothing to do with tasks.
LedgerStep(sender) ==
    \/ SysAdminStep(sender) /\ UNCHANGED providerVars
    \/ sender \in Providers /\ ProvidersStep(sender)
    \/ sender \in Executors /\ ExecutorsStep(sender)

LedgerInit == SysAdminInit /\ ProvidersInit

LedgerNext ==
    \/ \E a \in Accounts : LedgerStep(a)
    \/ \E p \in GasPrices : OracleAnswers(p) /\ UNCHANGED providerVars

LedgerSpec == LedgerInit /\ [][LedgerNext]_vars

-----------------------------------------------------------------------------
(* Properties *)

LedgerTypeOK == SysAdminTypeOK /\ ProvidersTypeOK

AssignedTo(executor) == {p \in Accounts : executorByProvider[p] = executor}

\* The per-executor counter that unstakeExecutor trusts is the number of
\* providers the executor is assigned to, however providers and executors
\* interleave their two ways of reassigning; it never wraps below zero.
CountsAreExact ==
    \A e \in Accounts : executorProvidersCount[e] = Cardinality(AssignedTo(e))

\* Every wei the contract owes is there, and it holds nothing it owes nobody:
\* what providers, executors and the owner can withdraw is its balance.
Solvent ==
    gelatoBalance = sysAdminFunds
                  + MapThenSumSet(LAMBDA a : providerFunds[a], Accounts)
                  + MapThenSumSet(LAMBDA a : executorStake[a], Addresses)

\* Stake is locked by assignment: no call lets an executor that some provider
\* relies on take out stake it needs to stay min-staked.
AssignedStakeIsLocked ==
    [][\A p \in Accounts : \A e \in Accounts :
          executorByProvider[p] = e /\ executorStake'[e] < executorStake[e]
              => executorStake'[e] >= params.minExecutorStake]_vars

\* The comment in executorAssignsExecutor: its stake check also keeps an
\* executor from handing a provider to address(0).
ExecutorNeverAssignsZero ==
    [][\A e \in Executors : \A p \in Providers :
          ~ ExecutorAssignsExecutor(e, p, NoAccount)]_vars

AllMinStaked ==
    \A p \in Accounts : executorByProvider[p] # NoAccount =>
                            isExecutorMinStaked(executorByProvider[p])

\* As long as the owner does not raise the minimum, every provider that has an
\* executor keeps a min-staked one: nothing but a raise can leave a provider
\* with an executor that canExec turns away.
ExecutorsStayMinStaked ==
    [][AllMinStaked /\ params'.minExecutorStake <= params.minExecutorStake
          => AllMinStaked']_vars
=============================================================================
