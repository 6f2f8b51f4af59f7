SPECIFICATION Spec
CONSTANTS
    Timers = {a, b}
    W = 2
    Delays = {0, 2, 3}
    Kinds <- MCKinds
    MaxTicks = 5
    MaxCreated = 3
SYMMETRY Symmetric
INVARIANTS WheelHolds CancelExact
PROPERTIES RunsInItsTick
CHECK_DEADLOCK FALSE
