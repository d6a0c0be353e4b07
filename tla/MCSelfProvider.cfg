SPECIFICATION SelfProviderSpec
CONSTANTS
    e = e
    p = p
    u = u
    o = o
    zero = zero
    spec = spec
    module = module
    InitialFunds = 6
    InitialStake = 0
    Accounts = {e, p, u, o}
    Owners = {o}
    Providers = {u}
    Executors = {e}
    UserProxies = {u}
    Contracts = {e, p, u}
    NoAccount = zero
    Amounts = {0, 4}
    MaxEther = 8
    GasPrices = {0, 1}
    GasLimits = {1, 2}
    GasRequirements = {0, 1}
    Stakes = {0}
    Shares = {50}
    ExecTxOverhead = 1
    TaskSpecs = {spec}
    Modules = {module}
    Accepts <- ModuleAccepts
    Ceils = {0, 1}
    NO_CEIL = 9
    TaskLists <- SelfTasks
    Expiries = {2}
    Submits = {0}
    BlockGas = 2
    GasUsed = {0, 1}
    MaxReceipts = 2
    MaxDepth = 1
    MaxTime = 3
    NoReceipt = NoReceipt
    Word = 1000
INVARIANTS SubmittableIsExecutable
CHECK_DEADLOCK FALSE
