SPECIFICATION Spec
CONSTANTS
    Threads = {t1, t2}
    Capacity = 2
    BufferSize = 4
    RollSize = 2
    CheckEveryN = 3
    MaxUnits = 3
    MaxDrops = 1
    MaxFlushes = 1
INVARIANTS RecordsKept
PROPERTIES FlushCovers Served
CHECK_DEADLOCK FALSE
