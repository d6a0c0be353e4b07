--------------------------- MODULE GelatoProviders --------------------------
(* Providers fund executions, choose the executor of their tasks, and      *)
(* whitelist task specs (with a gas price ceiling each) and modules.       *)
EXTENDS GelatoSysAdmin, FiniteSets

CONSTANTS
    Providers,   \* bound: the accounts that act as providers
    TaskSpecs,   \* identities (hashes) of task specs
    Modules,     \* addresses of provider modules
    Accepts,     \* pairs <<module, userProxy>>: isProvided() says OK
    Ceils,       \* gas price ceilings a call can name
    NO_CEIL      \* type(uint256).max: the ceiling that stands for none

ASSUME ProvidersAssumption ==
    /\ IsFiniteSet(Accounts)
    /\ Providers \subseteq Accounts
    /\ Accepts \subseteq Modules \X Accounts
    /\ Ceils \subseteq Nat /\ NO_CEIL \in Nat
    /\ \A c \in Ceils \cup GasPrices : c <= NO_CEIL

VARIABLES
    providerFunds,
    executorStake,
    executorByProvider,
    executorProvidersCount,
    taskSpecGasPriceCeil,
    providerModules          \* _providerModules, as the set it implements

assignmentVars == <<executorByProvider, executorProvidersCount>>
whitelistVars == <<taskSpecGasPriceCeil, providerModules>>
providerVars == <<providerFunds, executorStake, assignmentVars, whitelistVars>>

Addresses == Accounts \cup {NoAccount}

ProvidersTypeOK ==
    /\ providerFunds \in [Accounts -> Nat]
    /\ executorStake \in [Addresses -> Nat]
    /\ executorByProvider \in [Accounts -> Addresses]
    /\ executorProvidersCount \in [Addresses -> Int]
    /\ taskSpecGasPriceCeil \in [Accounts -> [TaskSpecs -> Nat]]
    /\ providerModules \in [Accounts -> SUBSET Modules]

ProvidersInit ==
    /\ providerFunds = [a \in Accounts |-> 0]
    /\ executorStake = [a \in Addresses |-> 0]
    /\ executorByProvider = [a \in Accounts |-> NoAccount]
    /\ executorProvidersCount = [a \in Addresses |-> 0]
    /\ taskSpecGasPriceCeil = [a \in Accounts |-> [s \in TaskSpecs |-> 0]]
    /\ providerModules = [a \in Accounts |-> {}]

-----------------------------------------------------------------------------
(* Funds *)

ProvideFunds(provider, value) ==
    /\ value > 0
    /\ ReceiveValue(value)
    /\ providerFunds' = [providerFunds EXCEPT ![provider] = @ + value]
    /\ UNCHANGED <<params, sysAdminFunds, executorStake, assignmentVars,
                   whitelistVars>>

\* Variant: the amount named by the caller is not capped by the funds.
UnprovideFundsUncapped(sender, withdrawAmount) ==
    /\ providerFunds' = [providerFunds EXCEPT ![sender] = @ - withdrawAmount]
    /\ SendValue(withdrawAmount)
    /\ UNCHANGED <<params, sysAdminFunds, executorStake, assignmentVars,
                   whitelistVars>>

\* Variant: the funds are capped, the ether sent is not.
UnprovideFundsOverpays(sender, withdrawAmount) ==
    LET realWithdrawAmount == Lesser(withdrawAmount, providerFunds[sender]) IN
    /\ providerFunds' = [providerFunds EXCEPT ![sender] = @ - realWithdrawAmount]
    /\ SendValue(withdrawAmount)
    /\ UNCHANGED <<params, sysAdminFunds, executorStake, assignmentVars,
                   whitelistVars>>

UnprovideFunds(sender, withdrawAmount) ==
    LET realWithdrawAmount == Lesser(withdrawAmount, providerFunds[sender]) IN
    /\ providerFunds' = [providerFunds EXCEPT ![sender] = @ - realWithdrawAmount]
    /\ SendValue(realWithdrawAmount)
    /\ UNCHANGED <<params, sysAdminFunds, executorStake, assignmentVars,
                   whitelistVars>>

-----------------------------------------------------------------------------
(* Executor assignment *)

isExecutorMinStaked(executor) ==
    executorStake[executor] >= params.minExecutorStake

isExecutorAssigned(executor) == executorProvidersCount[executor] # 0

\* Variant: only the new executor's count is adjusted.
MoveCountForgetsFrom(from, to, skip) ==
    [a \in Addresses |->
        executorProvidersCount[a] + (IF a = to /\ to \notin skip THEN 1 ELSE 0)]

\* The contract moves one unit from `from` to `to`; the code skips the zero
\* address where the set `skip` says so.
MoveCount(from, to, skip) ==
    [a \in Addresses |->
        executorProvidersCount[a]
            - (IF a = from /\ from \notin skip THEN 1 ELSE 0)
            + (IF a = to /\ to \notin skip THEN 1 ELSE 0)]

ProviderAssignsExecutor(sender, newExecutor) ==
    LET currentExecutor == executorByProvider[sender] IN
    /\ currentExecutor # newExecutor
    /\ newExecutor # NoAccount => isExecutorMinStaked(newExecutor)
    /\ executorByProvider' = [executorByProvider EXCEPT ![sender] = newExecutor]
    /\ executorProvidersCount' =
            MoveCount(currentExecutor, newExecutor, {NoAccount})
    /\ UNCHANGED <<sysAdminVars, providerFunds, executorStake, whitelistVars>>

\* This function moves the count of address(0) like any other.
ExecutorAssignsExecutor(sender, provider, newExecutor) ==
    LET currentExecutor == executorByProvider[provider] IN
    /\ currentExecutor = sender
    /\ currentExecutor # newExecutor
    /\ isExecutorMinStaked(newExecutor)
    /\ executorByProvider' = [executorByProvider EXCEPT ![provider] = newExecutor]
    /\ executorProvidersCount' = MoveCount(currentExecutor, newExecutor, {})
    /\ UNCHANGED <<sysAdminVars, providerFunds, executorStake, whitelistVars>>

-----------------------------------------------------------------------------
(* Whitelisting.  A call's array of specs is a function from the specs it  *)
(* names to their ceilings; a ceiling of 0 stands for NO_CEIL.             *)

effectiveCeil(ceil) == IF ceil = 0 THEN NO_CEIL ELSE ceil

SetCeils(sender, ceils) ==
    /\ \A s \in DOMAIN ceils :
            taskSpecGasPriceCeil[sender][s] # effectiveCeil(ceils[s])
    /\ taskSpecGasPriceCeil' = [taskSpecGasPriceCeil EXCEPT ![sender] =
            [s \in TaskSpecs |-> IF s \in DOMAIN ceils
                                 THEN effectiveCeil(ceils[s]) ELSE @[s]]]

ClearCeils(sender, specs) ==
    /\ \A s \in specs : taskSpecGasPriceCeil[sender][s] # 0
    /\ taskSpecGasPriceCeil' = [taskSpecGasPriceCeil EXCEPT ![sender] =
            [s \in TaskSpecs |-> IF s \in specs THEN 0 ELSE @[s]]]

ProvideTaskSpecs(sender, ceils) ==
    /\ SetCeils(sender, ceils)
    /\ UNCHANGED <<sysAdminVars, providerFunds, executorStake, assignmentVars,
                   providerModules>>

UnprovideTaskSpecs(sender, specs) ==
    /\ ClearCeils(sender, specs)
    /\ UNCHANGED <<sysAdminVars, providerFunds, executorStake, assignmentVars,
                   providerModules>>

\* Called directly, a ceiling of 0 is stored as it is: not provided.
SetTaskSpecGasPriceCeil(sender, spec, ceil) ==
    /\ taskSpecGasPriceCeil[sender][spec] # ceil
    /\ taskSpecGasPriceCeil' =
            [taskSpecGasPriceCeil EXCEPT ![sender][spec] = ceil]
    /\ UNCHANGED <<sysAdminVars, providerFunds, executorStake, assignmentVars,
                   providerModules>>

AddProviderModules(sender, modules) ==
    /\ modules \cap providerModules[sender] = {}
    /\ providerModules' = [providerModules EXCEPT ![sender] = @ \cup modules]
    /\ UNCHANGED <<sysAdminVars, providerFunds, executorStake, assignmentVars,
                   taskSpecGasPriceCeil>>

RemoveProviderModules(sender, modules) ==
    /\ modules \subseteq providerModules[sender]
    /\ providerModules' = [providerModules EXCEPT ![sender] = @ \ modules]
    /\ UNCHANGED <<sysAdminVars, providerFunds, executorStake, assignmentVars,
                   taskSpecGasPriceCeil>>

\* A batch is one transaction: each part is skipped when it is asked to do
\* nothing, and a part that reverts takes the others with it.
MultiProvide(sender, value, executor, ceils, modules) ==
    LET current == executorByProvider[sender] IN
    /\ IF value # 0 THEN ReceiveValue(value) ELSE UNCHANGED gelatoBalance
    /\ providerFunds' = [providerFunds EXCEPT ![sender] = @ + value]
    /\ executor # NoAccount => executor # current /\ isExecutorMinStaked(executor)
    /\ IF executor = NoAccount
       THEN UNCHANGED assignmentVars
       ELSE /\ executorByProvider' =
                    [executorByProvider EXCEPT ![sender] = executor]
            /\ executorProvidersCount' = MoveCount(current, executor, {NoAccount})
    /\ SetCeils(sender, ceils)
    /\ modules \cap providerModules[sender] = {}
    /\ providerModules' = [providerModules EXCEPT ![sender] = @ \cup modules]
    /\ UNCHANGED <<params, sysAdminFunds, executorStake>>

MultiUnprovide(sender, withdrawAmount, specs, modules) ==
    LET realWithdrawAmount == Lesser(withdrawAmount, providerFunds[sender]) IN
    /\ providerFunds' = [providerFunds EXCEPT ![sender] = @ - realWithdrawAmount]
    /\ SendValue(realWithdrawAmount)
    /\ ClearCeils(sender, specs)
    /\ modules \subseteq providerModules[sender]
    /\ providerModules' = [providerModules EXCEPT ![sender] = @ \ modules]
    /\ UNCHANGED <<params, sysAdminFunds, executorStake, assignmentVars>>

-----------------------------------------------------------------------------
(* Checks that canSubmitTask and canExec make.  A provider is a record     *)
(* [addr, module]; a task is a record [spec, selfProviderGasLimit,         *)
(* selfProviderGasPriceCeil].  What a check returns matters only as far as *)
(* it is OK or not.                                                        *)

isTaskSpecProvided(provider, spec) == taskSpecGasPriceCeil[provider][spec] # 0

providerModuleChecks(userProxy, provider) ==
    /\ provider.module \in providerModules[provider.addr]
    /\ userProxy # provider.addr => <<provider.module, userProxy>> \in Accepts

isTaskProvided(userProxy, provider, task) ==
    /\ isTaskSpecProvided(provider.addr, task.spec)
    /\ providerModuleChecks(userProxy, provider)

providerCanExec(userProxy, provider, task, price) ==
    /\ IF userProxy = provider.addr
       THEN task.selfProviderGasPriceCeil >= price
       ELSE taskSpecGasPriceCeil[provider.addr][task.spec] >= price
    /\ providerModuleChecks(userProxy, provider)

\* Variant: the overhead of the transaction itself is left out.
minExecProviderFundsNoOverhead(gas, price) ==
    LET maxExecTxCost == (gas * price) % Word IN
    (maxExecTxCost + ((maxExecTxCost * params.totalSuccessShare) % Word) \div 100) % Word

\* Unchecked: each operation wraps around.
minExecProviderFunds(gas, price) ==
    LET maxExecTxCost == ((ExecTxOverhead + gas) * price) % Word IN
    (maxExecTxCost + ((maxExecTxCost * params.totalSuccessShare) % Word) \div 100) % Word

isProviderLiquid(provider, gas, price) ==
    minExecProviderFunds(gas, price) <= providerFunds[provider]

-----------------------------------------------------------------------------
SpecCeils == UNION {[S -> Ceils] : S \in SUBSET TaskSpecs}

ProvidersStep(sender) ==
    \/ \E p \in Providers, v \in Amounts : ProvideFunds(p, v)
    \/ \E v \in Amounts : UnprovideFunds(sender, v)
    \/ \E e \in Addresses : ProviderAssignsExecutor(sender, e)
    \/ \E ceils \in SpecCeils : ProvideTaskSpecs(sender, ceils)
    \/ \E S \in SUBSET TaskSpecs : UnprovideTaskSpecs(sender, S)
    \/ \E s \in TaskSpecs, c \in Ceils : SetTaskSpecGasPriceCeil(sender, s, c)
    \/ \E M \in SUBSET Modules : AddProviderModules(sender, M)
    \/ \E M \in SUBSET Modules : RemoveProviderModules(sender, M)
    \/ \E v \in Amounts, e \in Addresses, ceils \in SpecCeils,
          M \in SUBSET Modules : MultiProvide(sender, v, e, ceils, M)
    \/ \E v \in Amounts, S \in SUBSET TaskSpecs, M \in SUBSET Modules :
          MultiUnprovide(sender, v, S, M)
=============================================================================
