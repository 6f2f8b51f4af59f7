CONSTANTS
    Conns = {c1}
    Length <- ThreeMessages
    HighWater = 2
    SendBuffer = 3
    MaxResume = 1
    Users = {u1}
    MaxChunks = 1
    MaxOps = 1
SPECIFICATION Spec
INVARIANTS ClosedOnce StreamIntact
PROPERTIES WritersResume GoneAreDestroyed
CHECK_DEADLOCK FALSE
