SPECIFICATION MoneySpec
CONSTANTS
    e = e
    p = p
    u = u
    o = o
    zero = zero
    spec = spec
    module = module
    InitialFunds = 8
    InitialStake = 0
    Accounts = {e, p, u, o}
    Owners = {o}
    Providers = {p}
    Executors = {e}
    UserProxies = {u}
    Contracts = {e, p, u}
    NoAccount = zero
    Amounts = {0, 4}
    MaxEther = 8
    GasPrices = {1}
    GasLimits = {1}
    GasRequirements = {1}
    Stakes = {0}
    Shares = {50}
    ExecTxOverhead = 1
    TaskSpecs = {spec}
    Modules = {module}
    Accepts <- ModuleAccepts
    Ceils = {0, 1}
    NO_CEIL = 9
    TaskLists <- OneTask
    Expiries = {0}
    Submits = {0, 2}
    BlockGas = 2
    GasUsed = {0, 1}
    MaxReceipts = 1
    MaxDepth = 2
    MaxTime = 1
    NoReceipt = NoReceipt
    Word = 1000
PROPERTIES FullGasClosesReceipt
CHECK_DEADLOCK FALSE
