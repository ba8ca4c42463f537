SPECIFICATION FairSpec
CONSTANTS
    HistoryLen = 1
    BroadcastCap = 2
    ChannelCap = 2
    MaxItems = 4
CHECK_DEADLOCK FALSE
INVARIANTS
    HolesAreOverflow
    FreedHandleIsSilent
PROPERTIES
    PumpEnds
    DisposeCompletesSequence
    EmittedIsYielded
    ReaderSpec
