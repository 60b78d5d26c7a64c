SPECIFICATION FairSpec
CONSTANTS
    Worker = {w1, w2}
    Master = m
    Check = {c1, c2, c3, c4}
    Failing = {c1}
    nBatchSize = 2
INVARIANTS
    TypeOK
    TodoCounts
    CountersRight
    WaitRight
PROPERTIES
    WaitReturns
