SPECIFICATION FairSpec
CONSTANTS
    g = g
    a1 = a1
    a2 = a2
    a3 = a3
    b1 = b1
    b2 = b2
    b3 = b3
    Blocks <- HeavyBlocks
    Genesis = g
    Parent <- HeavyParent
    ChainWork <- HeavyWork
    MayFail = {b1}
    None = None
    AllowIBD = FALSE
    AllowPowerLoss = FALSE
    MaxFiles = 1
    MaxCrashes = 0
PROPERTIES ConnectReturns
\* Every block is delivered, and the bound on crashes is used up.
CHECK_DEADLOCK FALSE
