SPECIFICATION Spec
CONSTANTS
    HistoryLen = 1
    BroadcastCap = 2
    ChannelCap = 2
    MaxItems = 5
CHECK_DEADLOCK FALSE
INVARIANT
    HandleFreedOnce
