SPECIFICATION MoneySpec
CONSTANTS
    e = e
    p = p
    u = u
    o = o
    zero = zero
    spec = spec
    module = module
    InitialFunds = 4
    InitialStake = 0
    Accounts = {e, p, u, o}
    Owners = {o}
    Providers = {p, u}
    Executors = {e, o}
    UserProxies = {u}
    Contracts = {u, o}
    NoAccount = zero
    Amounts = {4}
    MaxEther = 8
    GasPrices = {1}
    GasLimits = {1}
    GasRequirements = {1}
    Stakes = {0}
    Shares = {50, 100}
    ExecTxOverhead = 1
    TaskSpecs = {spec}
    Modules = {module}
    Accepts <- ModuleAccepts
    Ceils = {0, 1}
    NO_CEIL = 9
    TaskLists <- OverflowingTask
    Expiries = {0}
    Submits = {}
    BlockGas = 2
    GasUsed = {1}
    MaxReceipts = 2
    MaxDepth = 2
    MaxTime = 1
    NoReceipt = NoReceipt
    Word = 1000
INVARIANTS SolventThroughout ChecksCoverPayments
PROPERTIES ProvidersPayForTheirReceipts
CHECK_DEADLOCK FALSE
