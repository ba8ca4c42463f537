SPECIFICATION Spec
CONSTANTS
    kind = kind
    Callers = {c1, c2}
    Resolvers = {c1, c2, plugin}
    Watchers = {w1, w2}
    Names = {password, token}
    Configured = {token}
    Own = Own
    NoValue = NoValue
    MaxStores = 2
    Artifacts = {v1, v2}
    Kinds = {kind}
    KindOf <- OneKind
    Nothing = Nothing
    NoHash = NoHash
    MaxCalls = 4
    MaxBatches = 2
SYMMETRY TaskSymmetry
INVARIANTS RegisteredIsReady AnswersAgree
PROPERTY ReinstallAccepted
CHECK_DEADLOCK FALSE
