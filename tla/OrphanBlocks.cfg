SPECIFICATION OrphanSpec
CONSTANTS
    g = g
    a1 = a1
    a2 = a2
    a3 = a3
    b1 = b1
    b2 = b2
    b3 = b3
    Blocks <- RaceBlocks
    Genesis = g
    Parent <- RaceParent
    ChainWork <- RaceWork
    MayFail = {a2, b1, b2, b3}
    MayBeRefused = {b2}
    None = None
    AllowIBD = FALSE
    AllowPowerLoss = FALSE
    MaxFiles = 1
    MaxCrashes = 2
INVARIANTS OrphanTypeOK CandidatesSound   OrphanMapsAgree BestOfArrived OrphansReleased
 
\* Every block is delivered, and the bound on crashes is used up.
CHECK_DEADLOCK FALSE
