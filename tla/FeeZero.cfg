SPECIFICATION Spec
CONSTANTS
    Providers = {p1}
    Signer = p1
    Proxy = proxy
    User = user
    ETH = ETH
    ERC20 = ERC20
    DEN = 2
    Word = 100
    Nums = {0, 1}
    Supply = 1
    MaxHandlers = 4
    Runs = {}
    Inexact = {}
INVARIANTS AcceptedSucceeds
