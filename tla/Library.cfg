SPECIFICATION Spec
CONSTANTS
    Parts = {"deque", "mpmc", "mpsc", "buffer", "codec", "sizes"}
    Threads = {}
    SpinLimit = 1
    NoOne = NoOne
    Producers = {p1, p2}
    Consumers = {c1, c2}
    Capacity = 2
    MaxBulk = 2
    Nothing = Nothing
    DequeItems = 5
    MpmcItems = 2
    MpscItems = 3
    WordMod = 16
    Suspended = {p1, c1}
    InitialSize = 3
    Lengths = {1, 2, 4}
    Unit = 2
    Extra = 3
    MaxLoop = 2
    MaxBytes = 9
    Inputs <- MCInputs
    MaxFields = 3
    Aligned = 600
    Alignments = {8, 16, 64}
    Growths = {1, 7, 64, 4096}
INVARIANTS SlotsHold BytesInOrder DecodesWritten SizesFit
PROPERTIES DequeRefines FifosRefine GiveUpForAReason CallsFinish
CHECK_DEADLOCK FALSE
