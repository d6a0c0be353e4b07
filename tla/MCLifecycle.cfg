SPECIFICATION LifecycleSpec
CONSTANTS
    e = e
    p = p
    u = u
    o = o
    zero = zero
    spec = spec
    module = module
    InitialFunds = 2
    InitialStake = 0
    Accounts = {e, p, u, o}
    Owners = {o}
    Providers = {p}
    Executors = {e}
    UserProxies = {u}
    Contracts = {e, p, u}
    NoAccount = zero
    Amounts = {0, 4}
    MaxEther = 8
    GasPrices = {1}
    GasLimits = {1}
    GasRequirements = {1}
    Stakes = {0}
    Shares = {50}
    ExecTxOverhead = 0
    TaskSpecs = {spec}
    Modules = {module}
    Accepts <- ModuleAccepts
    Ceils = {0, 1}
    NO_CEIL = 9
    TaskLists <- OneAndTwoTasks
    Expiries = {0}
    Submits = {0, 2}
    BlockGas = 2
    GasUsed = {0}
    MaxReceipts = 3
    MaxDepth = 2
    MaxTime = 1
    NoReceipt = NoReceipt
    Word = 1000
INVARIANTS CoreTypeOK ReceiptsAreAccounted CyclesAreLines CyclesKeepTheirBound
PROPERTIES ClosedStaysClosed CyclesImplementTaskCycle
CHECK_DEADLOCK FALSE
