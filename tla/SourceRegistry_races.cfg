SPECIFICATION Spec
CONSTANTS
    Callers = {c1, c2, c3}
    Ids = {s1}
    Absent = Absent
    Plugin = Plugin
    Nothing = Nothing
    MaxCalls = 5
CHECK_DEADLOCK FALSE
INVARIANTS
    RecordsAgree
    PushReachesRegistered
PROPERTIES
    RefusedOnlyIfAbsent
