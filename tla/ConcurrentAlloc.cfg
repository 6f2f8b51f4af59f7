SPECIFICATION Spec
CONSTANTS
    Threads = {t1, t2}
    t1 = t1
    t2 = t2
    Shards = {1, 2}
    PoolSize = 4
    NoSpan = NoSpan
    None = None
    Assignments <- MCAssignments
    P = 4
    NPAGES = 3
    Threshold = 1
    PerPage = 2
    MaxNum = 2
    MaxBatch = 1
    Large = {3}
    Exiting = {t1}
    MaxMallocs = 4
INVARIANT PagesOwned
INVARIANT Coalesced
INVARIANT ObjectsAccounted
PROPERTY ImplementsHeap
CHECK_DEADLOCK FALSE
