SPECIFICATION PermissionedSpec
CONSTANTS
    Accounts = {c, o, p, q}
    Contract = c
    Permitted = {e1, e2}
    Providers = {o, p, q}
    Executors = {c, p}
    Owners = {o}
    NoAccount = zero
    Amounts = {0, 1, 2}
    MaxEther = 4
    MaxHeld = 2
    GasPrices = {1}
    GasLimits = {1}
    GasRequirements = {1}
    Stakes = {1, 2}
    Shares = {0}
    ExecTxOverhead = 1
    Word = 1000
    TaskSpecs = {}
    Modules = {}
    Accepts = {}
    Ceils = {1}
    NO_CEIL = 9
INVARIANTS LedgerTypeOK CountsAreExact Solvent
PROPERTIES AssignedStakeIsLocked ExecutorsStayMinStaked StakePassesThrough
CHECK_DEADLOCK FALSE
