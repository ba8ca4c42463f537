SPECIFICATION Spec
CONSTANTS
    Callers = {c1, c2}
    Workers = {w1, w2}
    Ids = {r1}
    Slots = {h1, h2}
    None = None
    MaxCalls = 4
SYMMETRY CallSymmetry
INVARIANTS
    CallbackReachesItsDelegate
    HandlesAccounted
    ErrorIsOwn
    NoOrphanStream
CHECK_DEADLOCK FALSE
