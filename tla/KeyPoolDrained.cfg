SPECIFICATION Spec
CONSTANTS
    Holders = {h1, h2}
    nTargetSize = 1
    MaxKeys = 7
    MaxCrashes = 0
SYMMETRY Symmetry
INVARIANTS NeverUsedAgain
\* The bound on keys is used up.
CHECK_DEADLOCK FALSE
