SPECIFICATION Spec
CONSTANTS
    NotGiven = NotGiven
    Runs = {"r1", "r2"}
    Signer = "u1"
    Users = {"u1", "u2"}
    NoUser = "nobody"
    Salts = {0}
    FundedRuns = {"r1", "r2"}
    MaxNonce = 2
    MaxEther = 0
    MaxTasks = 0
    MaxCreations = 2
    MaxBlocks = 2
    MaxLogs = 2
    Numbers = {1}
    Values = {1, 2}
    DefaultFrom = 1
    Proxy = "proxy"
    User = "user"
    ETH = "ETH"
    ERC20 = "ERC20"
    DEN = 2
    Word = 100
    Nums = {1, 2, 3}
    Inexact = {2}
    Supply = 0
    MaxHandlers = 4
    Deployments = {"deploy", "deployGC", "gnosisSafeModule", "updateMasterCopy", "setupGelato", "setupGnosisSafe", "setupUserProxies"}
    Indices = {0, 1}
    Additions = {0, 1}
    MaxCount = 1
INVARIANTS SearchesAreExact ReturnsItsOwn
PROPERTIES StaleReadsAreSafe ScriptsEnd
CHECK_DEADLOCK FALSE
