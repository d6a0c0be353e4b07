-------------------------------- MODULE MCCore -------------------------------
(* GelatoCore for TLC, from the state the deployment and set-up scripts      *)
(* leave: executor e has staked, provider p has funded itself, assigned e    *)
(* and whitelisted a task spec and a module.  Each specification lets one    *)
(* group of calls interleave with submissions and executions.                *)
EXTENDS GelatoCore, TLC

CONSTANTS e, p, u, o, zero, spec, module,
          InitialFunds,   \* providerFunds[p]
          InitialStake    \* executorStake[e], and minExecutorStake

T(gasLimit, ceil) == [spec |-> spec, selfProviderGasLimit |-> gasLimit,
                      selfProviderGasPriceCeil |-> ceil]
OneTask == {<<T(0, 0)>>}
OneSelfTask == {<<T(1, 1)>>}
SelfTasks == {<<T(0, 1), T(2, 0)>>, <<T(1, 0)>>}
OverflowingTask == {<<T(Word - 1, 0)>>}
OneAndTwoTasks == {<<T(0, 0)>>, <<T(0, 0), T(1, 1)>>}
ModuleAccepts == {<<module, u>>}

SetUp ==
    /\ params = [owner |-> o, gelatoGasPrice |-> 1, gelatoMaxGas |-> 1,
                 internalGasRequirement |-> 1, minExecutorStake |-> InitialStake,
                 executorSuccessShare |-> 50, sysAdminSuccessShare |-> 50,
                 totalSuccessShare |-> 100]
    /\ sysAdminFunds = 0
    /\ gelatoBalance = InitialFunds * Cardinality(Providers) + InitialStake
    /\ providerFunds = [a \in Accounts |-> IF a \in Providers THEN InitialFunds ELSE 0]
    /\ executorStake = [a \in Addresses |-> IF a = e THEN InitialStake ELSE 0]
    /\ executorByProvider = [a \in Accounts |-> IF a \in Providers THEN e ELSE NoAccount]
    /\ executorProvidersCount = [a \in Addresses |-> IF a = e THEN Cardinality(Providers) ELSE 0]
    /\ taskSpecGasPriceCeil = [a \in Accounts |->
            [s \in TaskSpecs |-> IF a \in Providers THEN NO_CEIL ELSE 0]]
    /\ providerModules = [a \in Accounts |-> IF a \in Providers THEN Modules ELSE {}]
    /\ currentTaskReceiptId = 0
    /\ taskReceiptHash = [id \in Ids |-> NoReceipt]
    /\ receipts = [id \in Ids |-> NoReceipt]
    /\ outcomes = [id \in Ids |-> <<>>]
    /\ calls = <<>>
    /\ now = 1

TaskCalls(a) ==
    \/ a \in UserProxies /\ SubmitStep(a)
    \/ CancelStep(a)
    \/ ExecStep(a)

LedgerCall(Step(_)) ==
    \E a \in Accounts : MayCall(a) /\ Step(a) /\ UNCHANGED <<taskVars, calls, now>>

\* Submissions, cancellations and executions inside executions.
LifecycleNext ==
    \/ \E a \in Accounts : MayCall(a) /\ TaskCalls(a)
    \/ Return
    \/ Tick
LifecycleSpec == SetUp /\ [][LifecycleNext]_coreVars

\* ... with what takes ether out, who executes and what it costs.
MoneyCalls(a) ==
    \/ a \in Providers /\ \/ \E v \in Amounts : UnprovideFunds(a, v)
                          \/ \E x \in Executors : ProviderAssignsExecutor(a, x)
    \/ a \in Executors /\ \E v \in Amounts : WithdrawExcessExecutorStake(a, v)
    \/ \E v \in Amounts : WithdrawSysAdminFunds(a, v) /\ UNCHANGED providerVars
    \/ \E s \in Shares : SetExecutorSuccessShare(a, s) /\ UNCHANGED providerVars
MoneyNext ==
    \/ \E a \in Accounts :
        /\ MayCall(a)
        /\ \/ a \in UserProxies /\ SubmitStep(a)
           \/ ExecStep(a)
    \/ Return
    \/ LedgerCall(MoneyCalls)
MoneySpec == SetUp /\ [][MoneyNext]_coreVars

\* ... with what decides who executes and at which price.
AdminCalls(a) ==
    \/ a \in Providers /\
        \/ \E x \in Executors \cup {NoAccount} : ProviderAssignsExecutor(a, x)
        \/ \E M \in SUBSET Modules : AddProviderModules(a, M) \/ RemoveProviderModules(a, M)
        \/ \E s \in TaskSpecs, c \in Ceils : SetTaskSpecGasPriceCeil(a, s, c)
    \/ a \in Executors /\ \E q \in Providers, x \in Executors : ExecutorAssignsExecutor(a, q, x)
    \/ \E g \in GasLimits : SetGelatoMaxGas(a, g) /\ UNCHANGED providerVars
AdminSpec ==
    SetUp /\ [][LifecycleNext \/ LedgerCall(AdminCalls) \/ OracleStep]_coreVars

\* ... with what a provider that is its own user can see change: time, the gas
\* price, the gas settings.
SettingsCalls(a) ==
    \/ \E g \in GasLimits : SetGelatoMaxGas(a, g) /\ UNCHANGED providerVars
    \/ \E g \in GasRequirements : SetInternalGasRequirement(a, g) /\ UNCHANGED providerVars
    \/ a \in Providers /\ \E v \in Amounts : UnprovideFunds(a, v)
SelfProviderSpec ==
    SetUp /\ [][LifecycleNext \/ LedgerCall(SettingsCalls) \/ OracleStep]_coreVars
=============================================================================
