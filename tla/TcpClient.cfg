SPECIFICATION Spec
CONSTANTS
    Retry = TRUE
    MaxConnects = 3
    MaxStops = 3
    MaxTimers = 2
INVARIANTS OneAttempt StopHolds
PROPERTIES Reconnects
CHECK_DEADLOCK FALSE
