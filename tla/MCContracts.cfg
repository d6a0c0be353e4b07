SPECIFICATION ContractsSpec
CONSTANTS
    Users = {u1, u2}
    NoUser = NoUser
    Salts = {0}
    MaxNonce = 2
    MaxEther = 1
    MaxTasks = 2
    Elements = {m1, m2, m3}
    Providers = {"provider"}
    Signer = "provider"
    Proxy = "proxy"
    User = "user"
    ETH = "ETH"
    ERC20 = "ERC20"
    DEN = 3
    Word = 100
    Nums = {0, 2, 3}
    Supply = 3
    MaxHandlers = 4
    ReceiptKinds = {"exec", "cancel"}
    DefaultFrom = 1
    RaceScripts = {1, 2}
    RaceIds = 1
    RaceContents = {"single"}
    SearchScripts = {1}
    SearchIds = 2
    SearchContents = {"cycle", "valued"}
    Copies = {"copy"}
    PipeKinds = {"GelatoUserProxy", "DSProxy"}
    PipeTypes = {1, 2}
    PipeActions = 3
    TrustKinds = {"GelatoUserProxy", "DSProxy", "DSA", "GnosisSafeProxy"}
    TrustTypes = {1}
    TrustActions = 2
SYMMETRY Symmetry
INVARIANTS RegistryAgrees ProxyActsForUser IndexIsPosition AcceptedIsPayable FetchedIsAsked ExecutedOrCancelledOnce CancelReportIsTrue PipedAsChecked SuccessMeansExecuted
PROPERTIES PredictedEtherIsUsers ImplementsSet FeesAreShares
CHECK_DEADLOCK FALSE
