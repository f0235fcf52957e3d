SPECIFICATION Spec
CONSTANTS
    Holders = {h1, h2}
    nTargetSize = 1
    MaxKeys = 7
    MaxCrashes = 2
SYMMETRY Symmetry
INVARIANTS TypeOK KeyUsedOnce KeysAccounted
\* The bound on keys is used up.
CHECK_DEADLOCK FALSE
