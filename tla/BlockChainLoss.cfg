SPECIFICATION Spec
CONSTANTS
    g = g
    a1 = a1
    a2 = a2
    a3 = a3
    b1 = b1
    b2 = b2
    b3 = b3
    Blocks <- ForkBlocks
    Genesis = g
    Parent <- ForkParent
    ChainWork <- ForkWork
    MayFail = {a1, a2, b2}
    None = None
    AllowIBD = TRUE
    AllowPowerLoss = TRUE
    MaxFiles = 2
    MaxCrashes = 2
INVARIANTS ChainIsValid  TipIsBest TipCanBeLeft  CoinsWrittenLast
 
\* Every block is delivered, and the bound on crashes is used up.
CHECK_DEADLOCK FALSE
