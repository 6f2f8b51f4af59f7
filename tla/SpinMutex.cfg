\* Four threads, so that two of them may sleep while a third notifies and a
\* fourth one barges in.
SPECIFICATION Spec
CONSTANTS
    Parts = {"lock"}
    Threads = {t1, t2, t3, t4}
    SpinLimit = 1
    NoOne = NoOne
    Producers = {p1, p2}
    Consumers = {c1, c2}
    Capacity = 2
    MaxBulk = 2
    Nothing = Nothing
    DequeItems = 5
    MpmcItems = 2
    MpscItems = 3
    WordMod = 16
    Suspended = {p1, c1}
    InitialSize = 3
    Lengths = {1, 2, 4}
    Unit = 2
    Extra = 3
    MaxLoop = 2
    MaxBytes = 9
    Inputs <- MCInputs
    MaxFields = 3
    Aligned = 600
    Alignments = {8, 16, 64}
    Growths = {1, 7, 64, 4096}
INVARIANT NoLostWakeup
PROPERTIES MutexRefines DeadlockFree
