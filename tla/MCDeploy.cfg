SPECIFICATION CoreSpec
CONSTANTS
    e = e
    p = p
    u = u
    o = o
    zero = zero
    spec = spec
    module = module
    InitialFunds = 8
    InitialStake = 0
    Accounts = {e, u}
    Owners = {e}
    Providers = {u}
    Executors = {e}
    UserProxies = {u}
    Contracts = {u}
    NoAccount = zero
    Amounts = {2}
    MaxEther = 6
    GasPrices = {1}
    GasLimits = {1}
    GasRequirements = {0}
    Stakes = {2}
    Shares = {0}
    ExecTxOverhead = 1
    TaskSpecs = {spec}
    Modules = {module}
    Accepts <- ModuleAccepts
    Ceils = {1}
    NO_CEIL = 9
    TaskLists <- OneSelfTask
    Expiries = {2}
    Submits = {0}
    BlockGas = 2
    GasUsed = {0}
    MaxReceipts = 2
    MaxDepth = 1
    MaxTime = 2
    NoReceipt = NoReceipt
    Word = 1000
INVARIANTS ReceiptsAreAccounted
CHECK_DEADLOCK FALSE
