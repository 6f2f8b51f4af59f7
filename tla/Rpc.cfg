CONSTANTS
    Callers = {c1, c2}
    Conns = {k1, k2}
    Kinds = {"good", "no_service"}
    ExpandSize = 2
    MaxCalls = 3
SPECIFICATION Spec
INVARIANTS SlotMap StaleOnlyAfterExhaustion
PROPERTIES OwnAnswerOnce Resolved
CHECK_DEADLOCK FALSE
