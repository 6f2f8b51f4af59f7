SPECIFICATION Spec
CONSTANTS
    Threads = {t1, t2}
    t1 = t1
    t2 = t2
    Shards = {0, 1}
    PoolSize = 4
    NoSpan = NoSpan
    None = None
    Assignments <- MCApart
    P = 4
    NPAGES = 3
    Threshold = 1
    PerPage = 2
    MaxNum = 2
    MaxBatch = 1
    Large = {}
    Exiting = {t1, t2}
    MaxMallocs = 4
INVARIANT NeverAcrossShards
CHECK_DEADLOCK FALSE
