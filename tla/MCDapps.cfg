SPECIFICATION DappsSpec
CONSTANTS
    Runs = {"r1", "r2"}
    Signers = {"s0"}
    FirstSigner = "s0"
    Users = {"s0"}
    Kinds = {"timeTrade", "balanceTrade", "kyberPriceTrade", "withdraw", "tradeAndWithdraw"}
    SellAmount = 2
    Fee = 1
    Frequency = 3
    Balance = 5
    Dapps = {"one", "two", "balance"}
    SaltNonces = {"42069"}
    DefaultNonce = "42069"
    SecondsDelta = 2
    Cycles = 2
    CycleCounts = {0, 2}
    MaxRounds = 3
    MaxOthers = 1
    Prices = {1, 2}
    Gas = 2
    Overhead = 1
    InitialDeployed = {TRUE, FALSE}
    InitialFunds = {0}
INVARIANTS SafeIsPrepared SetupPrecedesTask
PROPERTIES TransfersSpaced  DappsEnd
CHECK_DEADLOCK FALSE
