SPECIFICATION FairSpec
CONSTANTS
    NoQuery = NoQuery
    Nobody = Nobody
    Callers = {c1, c2}
    Queries = {q1, q2}
    Ops <- MCAllOps
    MaxCalls = 4
CHECK_DEADLOCK FALSE
INVARIANTS
    DeferredExact
    AutoStartHonoured
    NoPrematureStart
PROPERTIES
    CallsReturn
