------------------------------ MODULE GelatoCore -----------------------------
(* Task receipts: submission, execution, cancellation and payment.          *)
(*                                                                          *)
(* The contract stores the hash of a receipt and is handed the receipt back *)
(* by whoever calls it; hashing is injective, so the model stores receipts. *)
(*                                                                          *)
(* Transactions are atomic, with one exception that this module is about:   *)
(* exec() calls the user proxy, and the proxy's actions may call any        *)
(* contract, which may call GelatoCore again - submit, cancel, withdraw,    *)
(* reassign, even exec another receipt - before exec() goes on with what it *)
(* read earlier.  `calls' is the stack of executions under way.  An         *)
(* execution that fails restores what it found.                             *)
EXTENDS GelatoExecutors, Sequences

CONSTANTS
    UserProxies,   \* bound: the accounts that submit tasks
    Contracts,     \* accounts with code: only they call during an execution
    TaskLists,     \* task sequences a submission can carry
    Expiries,      \* expiry dates a submission can carry; 0 means none
    Submits,       \* numbers of cycles or of submits that can be requested
    BlockGas,      \* gas a transaction can carry at most
    GasUsed,       \* gas an execution can be measured to have used
    MaxReceipts,   \* bound: receipts ever issued
    MaxDepth,      \* bound: executions under way inside one another
    MaxTime,       \* bound: block timestamps
    NoReceipt      \* the zero hash

Task == [spec : TaskSpecs, selfProviderGasLimit : Nat,
         selfProviderGasPriceCeil : Nat]

TaskReceipt == [id : Nat, userProxy : Accounts,
                provider : [addr : Accounts, module : Modules],
                index : Nat, tasks : Seq(Task), expiryDate : Nat,
                cycleId : Nat, submissionsLeft : Nat]

ASSUME CoreAssumption ==
    /\ UserProxies \subseteq Accounts /\ Contracts \subseteq Accounts
    /\ \A tasks \in TaskLists : tasks \in Seq(Task) /\ Len(tasks) > 0
    /\ NoReceipt \notin TaskReceipt
    /\ Expiries \subseteq Nat /\ Submits \subseteq Nat
    /\ BlockGas \in Nat /\ GasUsed \subseteq 0..BlockGas
    /\ MaxReceipts \in Nat /\ MaxDepth \in Nat /\ MaxTime \in Nat \ {0}

\* What the gas of a whole block costs, with every share, is far below 2^256:
\* only a gas limit that no transaction can carry overflows.
ASSUME BlockGasAssumption ==
    \A price \in GasPrices, x \in Shares, y \in Shares :
        price > 0 =>
            LET cost == (ExecTxOverhead + BlockGas) * price
            IN  cost + cost * (x + y) < Word

VARIABLES
    currentTaskReceiptId,
    taskReceiptHash,
    receipts,    \* LogTaskSubmitted: the receipt issued under each id
    outcomes,    \* what has closed each receipt, in order: LogExecSuccess,
                 \* LogTaskCancelled or LogExecReverted with a refund
    calls,       \* executions under way, outermost first
    now          \* block.timestamp

ledgerVars == vars
taskVars == <<currentTaskReceiptId, taskReceiptHash, receipts, outcomes>>
coreVars == <<ledgerVars, taskVars, calls, now>>

Ids == 1..MaxReceipts

\* What a failing call restores: storage, balance and emitted events.
Snapshot ==
    [params |-> params, sysAdminFunds |-> sysAdminFunds,
     gelatoBalance |-> gelatoBalance, providerFunds |-> providerFunds,
     executorStake |-> executorStake, executorByProvider |-> executorByProvider,
     executorProvidersCount |-> executorProvidersCount,
     taskSpecGasPriceCeil |-> taskSpecGasPriceCeil,
     providerModules |-> providerModules,
     currentTaskReceiptId |-> currentTaskReceiptId,
     taskReceiptHash |-> taskReceiptHash, receipts |-> receipts,
     outcomes |-> outcomes]

RestoreParams(s) ==
    /\ params' = s.params
    /\ sysAdminFunds' = s.sysAdminFunds
    /\ gelatoBalance' = s.gelatoBalance
    /\ executorByProvider' = s.executorByProvider
    /\ executorProvidersCount' = s.executorProvidersCount
    /\ taskSpecGasPriceCeil' = s.taskSpecGasPriceCeil
    /\ providerModules' = s.providerModules
    /\ currentTaskReceiptId' = s.currentTaskReceiptId
    /\ receipts' = s.receipts

Restore(s) ==
    /\ RestoreParams(s)
    /\ providerFunds' = s.providerFunds
    /\ executorStake' = s.executorStake
    /\ taskReceiptHash' = s.taskReceiptHash
    /\ outcomes' = s.outcomes

CoreInit ==
    /\ LedgerInit
    /\ currentTaskReceiptId = 0
    /\ taskReceiptHash = [id \in Ids |-> NoReceipt]
    /\ receipts = [id \in Ids |-> NoReceipt]
    /\ outcomes = [id \in Ids |-> <<>>]
    /\ calls = <<>>
    /\ now = 1

\* Outside an execution every account can call; inside one only contracts.
MayCall(sender) == calls = <<>> \/ sender \in Contracts

-----------------------------------------------------------------------------
(* Receipts.  A receipt's index counts its tasks from 0. *)

task(r) == r.tasks[r.index + 1]

\* Variant: the index runs one past the last task.
nextIndexLate(r) == IF r.index = Len(r.tasks) THEN 0 ELSE r.index + 1

nextIndex(r) == IF r.index = Len(r.tasks) - 1 THEN 0 ELSE r.index + 1

\* Variant: every automatic submission is the first of its count.
submissionsLeftAfterKept(r) == r.submissionsLeft

\* 0 stands for infinitely many submissions.
submissionsLeftAfter(r) ==
    IF r.submissionsLeft = 0 THEN 0 ELSE r.submissionsLeft - 1

selfProvider(r) == r.provider.addr = r.userProxy

\* Variant: the later receipts of a cycle are stored under its last id.
storeTaskReceiptInPlace(newCycle, draft) ==
    LET nextId == currentTaskReceiptId + (IF draft.index = 0 THEN 1 ELSE 0)
        r == [draft EXCEPT !.id = nextId, !.cycleId = IF newCycle THEN nextId ELSE @]
    IN  /\ nextId <= MaxReceipts
        /\ currentTaskReceiptId' = nextId
        /\ taskReceiptHash' = [taskReceiptHash EXCEPT ![nextId] = r]
        /\ receipts' = [receipts EXCEPT ![nextId] = r]

\* A receipt gets the next id, and the first one of a cycle names the cycle.
storeTaskReceipt(newCycle, draft) ==
    LET nextId == currentTaskReceiptId + 1
        r == [draft EXCEPT !.id = nextId, !.cycleId = IF newCycle THEN nextId ELSE @]
    IN  /\ nextId <= MaxReceipts
        /\ currentTaskReceiptId' = nextId
        /\ taskReceiptHash' = [taskReceiptHash EXCEPT ![nextId] = r]
        /\ receipts' = [receipts EXCEPT ![nextId] = r]

\* A self-provider's tasks get a gas limit and a price ceiling of their own.
SelfProviderGasDefaultsOK(tasks) ==
    \A i \in 1..Len(tasks) :
        \/ tasks[i].selfProviderGasLimit = 0
        \/ tasks[i].selfProviderGasLimit >= 2 * params.internalGasRequirement

WithSelfProviderGasDefaults(tasks) ==
    [i \in 1..Len(tasks) |->
        [tasks[i] EXCEPT
            !.selfProviderGasLimit = IF @ = 0 THEN params.gelatoMaxGas ELSE @,
            !.selfProviderGasPriceCeil = effectiveCeil(@)]]

Submit(sender, provider, tasks, expiryDate, newCycle, submissionsLeft) ==
    /\ sender = provider.addr => SelfProviderGasDefaultsOK(tasks)
    /\ storeTaskReceipt(newCycle,
            [id |-> 0, userProxy |-> sender, provider |-> provider, index |-> 0,
             tasks |-> IF sender = provider.addr
                       THEN WithSelfProviderGasDefaults(tasks) ELSE tasks,
             expiryDate |-> expiryDate, cycleId |-> 0,
             submissionsLeft |-> submissionsLeft])
    /\ UNCHANGED <<ledgerVars, outcomes, calls, now>>

SubmitTask(sender, provider, t, expiryDate) ==
    Submit(sender, provider, <<t>>, expiryDate, FALSE, 1)

SubmitTaskCycle(sender, provider, tasks, expiryDate, cycles) ==
    Submit(sender, provider, tasks, expiryDate, TRUE,
           (cycles * Len(tasks)) % Word)

SubmitTaskChain(sender, provider, tasks, expiryDate, sumOfRequestedTaskSubmits) ==
    /\ sumOfRequestedTaskSubmits # 0 =>
            sumOfRequestedTaskSubmits >= Len(tasks)
    /\ Submit(sender, provider, tasks, expiryDate, TRUE,
              sumOfRequestedTaskSubmits)

\* Variant: the provider's module is not looked up.
canSubmitTaskAnyModule(userProxy, provider, t, expiryDate) ==
    /\ isExecutorMinStaked(executorByProvider[provider.addr])
    /\ expiryDate = 0 \/ expiryDate >= now
    /\ IF userProxy = provider.addr
       THEN t.selfProviderGasLimit >= 2 * params.internalGasRequirement
       ELSE isTaskSpecProvided(provider.addr, t.spec)

\* Variant: the expiry date is not looked at.
canSubmitTaskExpired(userProxy, provider, t, expiryDate) ==
    /\ isExecutorMinStaked(executorByProvider[provider.addr])
    /\ IF userProxy = provider.addr
       THEN /\ t.selfProviderGasLimit >= 2 * params.internalGasRequirement
            /\ providerModuleChecks(userProxy, provider)
       ELSE isTaskProvided(userProxy, provider, t)

\* What a user is told before submitting; submissions do not check it.
canSubmitTask(userProxy, provider, t, expiryDate) ==
    /\ isExecutorMinStaked(executorByProvider[provider.addr])
    /\ expiryDate = 0 \/ expiryDate >= now
    /\ IF userProxy = provider.addr
       THEN /\ t.selfProviderGasLimit >= 2 * params.internalGasRequirement
            /\ providerModuleChecks(userProxy, provider)
       ELSE isTaskProvided(userProxy, provider, t)

-----------------------------------------------------------------------------
(* Cancellation *)

IsStored(r) == taskReceiptHash[r.id] = r

MultiCancelTasks(sender, rs) ==
    /\ \A r \in rs : sender \in {r.userProxy, r.provider.addr} /\ IsStored(r)
    /\ taskReceiptHash' = [id \in Ids |->
            IF \E r \in rs : r.id = id THEN NoReceipt ELSE taskReceiptHash[id]]
    /\ outcomes' = [id \in Ids |->
            IF \E r \in rs : r.id = id THEN Append(outcomes[id], "cancelled")
                                       ELSE outcomes[id]]
    /\ UNCHANGED <<ledgerVars, currentTaskReceiptId, receipts, calls, now>>

CancelTask(sender, r) == MultiCancelTasks(sender, {r})

-----------------------------------------------------------------------------
(* canExec, as executionWrapper calls it.  Conditions and action terms are  *)
(* external code: they may refuse at any time, and then nothing happens.    *)

\* Variant: the stored hash is not compared.
canExecUnstored(r, gasLimit, gasPrice) ==
    /\ isExecutorMinStaked(executorByProvider[r.provider.addr])
    /\ isProviderLiquid(r.provider.addr, gasLimit, gasPrice)
    /\ providerCanExec(r.userProxy, r.provider, task(r), gasPrice)
    /\ r.expiryDate = 0 \/ r.expiryDate > now

canExec(r, gasLimit, gasPrice) ==
    /\ isExecutorMinStaked(executorByProvider[r.provider.addr])
    /\ isProviderLiquid(r.provider.addr, gasLimit, gasPrice)
    /\ providerCanExec(r.userProxy, r.provider, task(r), gasPrice)
    /\ IsStored(r)
    /\ r.expiryDate = 0 \/ r.expiryDate > now

-----------------------------------------------------------------------------
(* Execution.  An element of `calls' keeps the locals of one exec(): what   *)
(* it read before the call to the user proxy and uses after it.             *)

Frame == calls[Len(calls)]
PopFrame == calls' = SubSeq(calls, 1, Len(calls) - 1)

gasLimitOf(r) == IF selfProvider(r) THEN task(r).selfProviderGasLimit
                                    ELSE params.gelatoMaxGas

\* Variant: the hash is left in place until the call has returned.
ExecBeginKeepsHash(executor, r, fullGas) ==
    LET gasPrice == params.gelatoGasPrice
        gasLimit == gasLimitOf(r)
    IN
    /\ Len(calls) < MaxDepth
    /\ gasPrice > 0
    /\ executor = executorByProvider[r.provider.addr]
    /\ fullGas => gasLimit <= BlockGas
    /\ canExec(r, gasLimit, gasPrice)
    /\ calls' = Append(calls,
            [receipt |-> r, executor |-> executor, gasLimit |-> gasLimit,
             gasPrice |-> gasPrice, fullGas |-> fullGas, saved |-> Snapshot])
    /\ UNCHANGED <<ledgerVars, taskVars, now>>

\* exec() up to the call of the user proxy.  fullGas says that the executor
\* sent at least gasLimit, which no transaction does if that is more than a
\* block carries.  The hash is deleted before the call.
ExecBegin(executor, r, fullGas) ==
    LET gasPrice == params.gelatoGasPrice
        gasLimit == gasLimitOf(r)
    IN
    /\ Len(calls) < MaxDepth
    /\ gasPrice > 0
    /\ executor = executorByProvider[r.provider.addr]
    /\ fullGas => gasLimit <= BlockGas
    /\ canExec(r, gasLimit, gasPrice)
    /\ taskReceiptHash' = [taskReceiptHash EXCEPT ![r.id] = NoReceipt]
    /\ calls' = Append(calls,
            [receipt |-> r, executor |-> executor, gasLimit |-> gasLimit,
             gasPrice |-> gasPrice, fullGas |-> fullGas, saved |-> Snapshot])
    /\ UNCHANGED <<ledgerVars, currentTaskReceiptId, receipts, outcomes, now>>

cappedGas(gas, gasLimit) == Lesser(gas, gasLimit) + ExecTxOverhead

\* The gas measured stays below what the executor sent.
Measurable(f, gas) == f.fullGas \/ gas < f.gasLimit

\* Fees of the execution of f, at the shares that hold when it has returned.
ExecutorFee(f, gas) == executorSuccessFee(cappedGas(gas, f.gasLimit), f.gasPrice)
SysAdminFee(f, gas) == sysAdminSuccessFee(cappedGas(gas, f.gasLimit), f.gasPrice)
FeesAreCovered(f, gas) ==
    ExecutorFee(f, gas) + SysAdminFee(f, gas)
        <= providerFunds[f.receipt.provider.addr]

\* Variant: the owner's share is charged and credited to nobody.
PayRewardLosesShare(f, gas) ==
    /\ providerFunds' = [providerFunds EXCEPT ![f.receipt.provider.addr] =
            @ - (ExecutorFee(f, gas) + SysAdminFee(f, gas))]
    /\ executorStake' = [executorStake EXCEPT ![f.executor] = @ + ExecutorFee(f, gas)]
    /\ UNCHANGED sysAdminFunds

PayReward(f, gas) ==
    /\ providerFunds' = [providerFunds EXCEPT ![f.receipt.provider.addr] =
            @ - (ExecutorFee(f, gas) + SysAdminFee(f, gas))]
    /\ executorStake' = [executorStake EXCEPT ![f.executor] = @ + ExecutorFee(f, gas)]
    /\ sysAdminFunds' = sysAdminFunds + SysAdminFee(f, gas)

\* The call returned: a receipt that is not the last is followed by the next
\* one, and the provider pays the fees to the executor that called exec().
ExecSuccess(gas) ==
    LET f == Frame
        r == Frame.receipt
    IN
    /\ calls # <<>>
    /\ Measurable(f, gas) /\ FeesAreCovered(f, gas)
    /\ IF r.submissionsLeft # 1
       THEN storeTaskReceipt(FALSE, [r EXCEPT
                !.index = nextIndex(r), !.submissionsLeft = submissionsLeftAfter(r)])
       ELSE UNCHANGED <<currentTaskReceiptId, taskReceiptHash, receipts>>
    /\ PayReward(f, gas)
    /\ outcomes' = [outcomes EXCEPT ![r.id] = Append(@, "rewarded")]
    /\ PopFrame
    /\ UNCHANGED <<params, gelatoBalance, assignmentVars, whitelistVars, now>>

\* The call returned, but the provider can no longer pay: exec() reverts.
ExecUnderflow(gas) ==
    /\ calls # <<>>
    /\ Measurable(Frame, gas) /\ ~ FeesAreCovered(Frame, gas)
    /\ Restore(Frame.saved)
    /\ PopFrame
    /\ UNCHANGED now

\* Variant: the provider pays although the executor sent too little gas.
ExecRevertCharges ==
    LET s == Frame.saved
        provider == Frame.receipt.provider.addr
    IN
    /\ calls # <<>> /\ ~ Frame.fullGas
    /\ RestoreParams(s)
    /\ providerFunds' = [s.providerFunds EXCEPT ![provider] = @ - ExecTxOverhead]
    /\ executorStake' =
            [s.executorStake EXCEPT ![Frame.executor] = @ + ExecTxOverhead]
    /\ taskReceiptHash' = s.taskReceiptHash
    /\ outcomes' = s.outcomes
    /\ PopFrame
    /\ UNCHANGED now

\* The call failed on less gas than gasLimit: nothing has happened.
ExecRevert ==
    /\ calls # <<>> /\ ~ Frame.fullGas
    /\ Restore(Frame.saved)
    /\ PopFrame
    /\ UNCHANGED now

RefundOf(f, gas) == cappedGas(gas, f.gasLimit) * f.gasPrice

\* The call failed although the executor sent gasLimit: everything it did is
\* undone, the receipt is deleted for good and the executor is refunded.
ExecRefund(gas) ==
    LET f == Frame
        s == Frame.saved
        r == Frame.receipt
    IN
    /\ calls # <<>> /\ f.fullGas
    /\ RefundOf(f, gas) <= s.providerFunds[r.provider.addr]
    /\ RestoreParams(s)
    /\ taskReceiptHash' = [s.taskReceiptHash EXCEPT ![r.id] = NoReceipt]
    /\ providerFunds' =
            [s.providerFunds EXCEPT ![r.provider.addr] = @ - RefundOf(f, gas)]
    /\ executorStake' =
            [s.executorStake EXCEPT ![f.executor] = @ + RefundOf(f, gas)]
    /\ outcomes' = [s.outcomes EXCEPT ![r.id] = Append(@, "refunded")]
    /\ PopFrame
    /\ UNCHANGED now

\* executionWrapper can also fail before canExec has compared the hash: at a
\* task() that the struct does not have, or because decoding and the module's
\* checks use up the gas that exec() forwards.  exec() cannot tell this from a
\* failing action: it deletes what is stored under the id, if anything, and
\* refunds the executor.  The struct is whatever its executor passes: its id
\* and its provider need not belong together, and the gas that is charged is
\* capped by a limit that it may name itself.
ExecAbort(executor, id, provider, gas) ==
    LET refund == (gas + ExecTxOverhead) * params.gelatoGasPrice IN
    /\ params.gelatoGasPrice > 0
    /\ executor = executorByProvider[provider]
    /\ refund <= providerFunds[provider]
    /\ taskReceiptHash' = [taskReceiptHash EXCEPT ![id] = NoReceipt]
    /\ providerFunds' = [providerFunds EXCEPT ![provider] = @ - refund]
    /\ executorStake' = [executorStake EXCEPT ![executor] = @ + refund]
    /\ outcomes' = [outcomes EXCEPT ![id] =
            IF taskReceiptHash[id] = NoReceipt THEN @ ELSE Append(@, "annulled")]
    /\ UNCHANGED <<sysAdminVars, assignmentVars, whitelistVars,
                   currentTaskReceiptId, receipts, calls, now>>

-----------------------------------------------------------------------------
Issued == {receipts[id] : id \in 1..currentTaskReceiptId}
ProviderStructs == [addr : Providers, module : Modules]

SubmitStep(sender) ==
    \E provider \in ProviderStructs, tasks \in TaskLists, date \in Expiries :
        \/ SubmitTask(sender, provider, tasks[1], date)
        \/ \E n \in Submits : SubmitTaskCycle(sender, provider, tasks, date, n)
        \/ \E n \in Submits : SubmitTaskChain(sender, provider, tasks, date, n)

\* Other structs have no hash to match: a cancellation reverts, and exec() does
\* nothing unless its checks abort.
CancelStep(sender) ==
    \/ \E r \in Issued : CancelTask(sender, r)
    \/ \E rs \in SUBSET Issued : MultiCancelTasks(sender, rs)

ExecStep(sender) ==
    \/ \E r \in Issued, fullGas \in BOOLEAN : ExecBegin(sender, r, fullGas)
    \/ \E id \in Ids, provider \in Accounts, g \in GasUsed :
            ExecAbort(sender, id, provider, g)

CallStep(sender) ==
    /\ MayCall(sender)
    /\ \/ LedgerStep(sender) /\ UNCHANGED <<taskVars, calls, now>>
       \/ sender \in UserProxies /\ SubmitStep(sender)
       \/ CancelStep(sender)
       \/ ExecStep(sender)

Return ==
    \/ \E g \in GasUsed : ExecSuccess(g) \/ ExecUnderflow(g) \/ ExecRefund(g)
    \/ ExecRevert

\* Between transactions.
Tick ==
    /\ calls = <<>> /\ now < MaxTime
    /\ now' = now + 1
    /\ UNCHANGED <<ledgerVars, taskVars, calls>>

OracleStep ==
    /\ calls = <<>>
    /\ \E p \in GasPrices : OracleAnswers(p)
    /\ UNCHANGED <<providerVars, taskVars, calls, now>>

CoreNext ==
    \/ \E a \in Accounts : CallStep(a)
    \/ Return
    \/ Tick
    \/ OracleStep

CoreSpec == CoreInit /\ [][CoreNext]_coreVars

-----------------------------------------------------------------------------
(* Properties *)

CoreTypeOK ==
    /\ LedgerTypeOK
    /\ currentTaskReceiptId \in 0..MaxReceipts
    /\ now \in 1..MaxTime
    /\ Len(calls) <= MaxDepth
    /\ \A id \in Ids :
        /\ taskReceiptHash[id] \in {NoReceipt, receipts[id]}
        /\ receipts[id] = NoReceipt <=> id > currentTaskReceiptId
        /\ id <= currentTaskReceiptId =>
            LET r == receipts[id] IN
            /\ r \in TaskReceipt /\ r.id = id /\ r.cycleId <= id
            /\ r.index < Len(r.tasks)

InExecution(id) == Cardinality({k \in 1..Len(calls) : calls[k].receipt.id = id})
Pending(id) == taskReceiptHash[id] # NoReceipt

\* Every receipt ever issued is in exactly one place: stored, or taken by one
\* execution under way, or closed, and closed exactly once - by one reward, one
\* refund, one cancellation or one execution whose checks aborted.  In particular
\* no task is executed twice or after it was closed, however executions nest and
\* fail and whatever structs executors pass.
ReceiptsAreAccounted ==
    \A id \in 1..currentTaskReceiptId :
        (IF Pending(id) THEN 1 ELSE 0) + InExecution(id) + Len(outcomes[id]) = 1

Rewarded(id) == outcomes[id] = <<"rewarded">>
Follows(s, r) ==
    /\ s.id > r.id /\ s.cycleId = r.cycleId /\ s.tasks = r.tasks
    /\ s.userProxy = r.userProxy /\ s.provider = r.provider
    /\ s.expiryDate = r.expiryDate
    /\ s.index = (r.index + 1) % Len(r.tasks)
    /\ s.submissionsLeft = IF r.submissionsLeft = 0 THEN 0
                                                    ELSE r.submissionsLeft - 1

\* A cycle or chain is a line: a rewarded receipt that is not the last has
\* exactly one successor, and a receipt with a cycle id either opens its cycle
\* or succeeds exactly one rewarded receipt.
CyclesAreLines ==
    LET Chained == {id \in 1..currentTaskReceiptId : receipts[id].cycleId # 0}
        Successors(r) == {id \in Chained : Follows(receipts[id], r)
                            /\ \A k \in Chained : k \in r.id + 1 .. id - 1 =>
                                    receipts[k].cycleId # r.cycleId}
    IN  \A id \in Chained :
            /\ Rewarded(id) /\ receipts[id].submissionsLeft # 1 =>
                    Cardinality(Successors(receipts[id])) = 1
            /\ receipts[id].cycleId # id =>
                    \E k \in Chained : /\ Rewarded(k)
                                       /\ id \in Successors(receipts[k])

\* A cycle runs at most as often as was requested, and what its only stored
\* receipt says is left is what has been requested and not run.
CyclesKeepTheirBound ==
    \A c \in 1..currentTaskReceiptId :
        LET Cycle == {id \in 1..currentTaskReceiptId : receipts[id].cycleId = c}
            runs == Cardinality({id \in Cycle : Rewarded(id)})
            requested == receipts[c].submissionsLeft
        IN  /\ Cardinality({id \in Cycle : Pending(id)}) <= 1
            /\ requested # 0 => runs <= requested
            /\ \A id \in Cycle : Pending(id) =>
                    /\ receipts[id].index = runs % Len(receipts[id].tasks)
                    /\ requested # 0 =>
                            receipts[id].submissionsLeft = requested - runs

\* canSubmitTask and canExec agree: a stored receipt whose current task could be
\* submitted now can be executed now if its provider has the funds and the
\* price is below its ceiling - unless it expires in this very block, which
\* canSubmitTask still accepts.
SubmittableIsExecutable ==
    \A id \in 1..currentTaskReceiptId :
        LET r == receipts[id]
            ceil == IF selfProvider(r) THEN task(r).selfProviderGasPriceCeil
                    ELSE taskSpecGasPriceCeil[r.provider.addr][task(r).spec]
        IN  /\ Pending(id) /\ r.expiryDate # now
            /\ canSubmitTask(r.userProxy, r.provider, task(r), r.expiryDate)
            /\ isProviderLiquid(r.provider.addr, gasLimitOf(r), params.gelatoGasPrice)
            /\ params.gelatoGasPrice <= ceil
            => canExec(r, gasLimitOf(r), params.gelatoGasPrice)

\* Ether: the balance covers every ledger entry in the middle of an execution
\* too, and in each state a failing execution would fall back to.
SolventIn(s) ==
    s.gelatoBalance = s.sysAdminFunds
        + MapThenSumSet(LAMBDA a : s.providerFunds[a], Accounts)
        + MapThenSumSet(LAMBDA a : s.executorStake[a], Addresses)
SolventThroughout ==
    /\ SolventIn(Snapshot)
    /\ \A k \in 1..Len(calls) : SolventIn(calls[k].saved)

\* The product that the liquidity check of f computes exceeds a word.
LimitOverflows(f) ==
    LET cost == (ExecTxOverhead + f.gasLimit) * f.gasPrice
        total == f.saved.params.totalSuccessShare
    IN  \/ cost >= Word \/ cost * total >= Word
        \/ cost + (cost * total) \div 100 >= Word

\* The liquidity check made before the call pays for the execution.  A refund is
\* always covered.  The reward can fail only when the provider's funds or the
\* shares have changed during the call, or when the check itself overflowed,
\* for a gas limit that no executor can send.
ChecksCoverPayments ==
    \A k \in 1..Len(calls) :
        LET f == calls[k]
            provider == f.receipt.provider.addr
            shares(x) == <<x.executorSuccessShare, x.sysAdminSuccessShare>>
        IN  \A g \in GasUsed :
            /\ f.fullGas =>
                    ~ LimitOverflows(f) /\ RefundOf(f, g) <= f.saved.providerFunds[provider]
            /\ \/ FeesAreCovered(f, g)
               \/ providerFunds[provider] < f.saved.providerFunds[provider]
               \/ shares(params) # shares(f.saved.params)
               \/ LimitOverflows(f)

\* What a reader of the chain sees between transactions.
Committed == IF calls = <<>> THEN Snapshot ELSE calls[1].saved

\* A receipt that a transaction closed stays closed, and ids and receipts are
\* never reassigned: only failing executions take anything back.
ClosedStaysClosed ==
    [][\A id \in 1..Committed.currentTaskReceiptId :
          /\ Committed'.receipts[id] = Committed.receipts[id]
          /\ Committed.taskReceiptHash[id] = NoReceipt =>
                Committed'.taskReceiptHash[id] = NoReceipt]_coreVars

PaidFor(events) == events # <<>> /\ events[1] \in {"rewarded", "refunded"}

\* A provider loses funds in four ways: a receipt that names it is paid for, for
\* the first and only time; it withdraws them; its executor is refunded for a
\* check that aborted; or, in the middle of somebody else's transaction, it or
\* its executor has code that does the like.  Other executors, users and the
\* owner cannot make it pay.
ProvidersPayForTheirReceipts ==
    [][\A p \in Accounts :
          LET loss == Committed.providerFunds[p] - Committed'.providerFunds[p]
              executor == Committed.executorByProvider[p]
          IN  loss > 0 =>
              \/ \E id \in 1..Committed'.currentTaskReceiptId :
                    /\ Committed'.receipts[id].provider.addr = p
                    /\ ~ PaidFor(Committed.outcomes[id])
                    /\ PaidFor(Committed'.outcomes[id])
              \/ calls = <<>> /\ gelatoBalance' = gelatoBalance - loss
              \/ calls = <<>> /\ executorStake'[executor] = executorStake[executor] + loss
              \/ calls # <<>> /\ {p, executor} \cap Contracts # {}]_coreVars

\* IGelatoCore on canExec: if an executor uses the gas limit and the
\* transaction fails, the provider refunds it and the receipt is annulled; a
\* transaction that does not fail closes the receipt anyway.
FullGasClosesReceipt ==
    [][Len(calls') < Len(calls) /\ Frame.fullGas =>
            taskReceiptHash'[Frame.receipt.id] = NoReceipt]_coreVars

-----------------------------------------------------------------------------
(* Refinement: each cycle, seen between transactions, is a TaskCycle.       *)

CycleOf(s, c) == {id \in 1..s.currentTaskReceiptId : s.receipts[id].cycleId = c}
EndedWith(s, c, events) ==
    {id \in CycleOf(s, c) : \E e \in events : s.outcomes[id] = <<e>>}

CycleStatus(c) ==
    IF CycleOf(Committed, c) = {} THEN "absent"
    ELSE IF \E id \in CycleOf(Committed, c) : Committed.taskReceiptHash[id] # NoReceipt
    THEN "open" ELSE "closed"

CycleView(c) == INSTANCE TaskCycle WITH
    status <- CycleStatus(c),
    requested <- IF CycleOf(Committed, c) = {} THEN 0
                 ELSE Committed.receipts[c].submissionsLeft,
    runs <- Cardinality(EndedWith(Committed, c, {"rewarded"})),
    stops <- Cardinality(EndedWith(Committed, c,
                                   {"cancelled", "refunded", "annulled"}))

\* Every cycle behaves as TaskCycle promises.  This is CycleView(c)!Spec for
\* each c, with the quantifier inside the box.
CyclesImplementTaskCycle ==
    /\ \A c \in Ids : CycleView(c)!Init
    /\ [][\A c \in Ids : [CycleView(c)!Transaction]_(CycleView(c)!cycleVars)]_coreVars
=============================================================================
