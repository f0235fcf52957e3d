SPECIFICATION FairSpec
CONSTANTS
    Workers = {w1, w2}
    Master = master
    Checks = {c1, c2, c3}
    nBatchSize = 2
    NoThread = NoThread
INVARIANTS TypeOK WorkAccounted ResultSound  CountersExact
PROPERTIES WaitReturns RoundRefined
\* A failed constructor assertion ends the process.
CHECK_DEADLOCK FALSE
