SPECIFICATION ReactionFairSpec
CONSTANTS
    MaxResults = 4
    OutboxCapacity = 2
INVARIANTS
    CheckpointedWasDelivered
PROPERTIES
    RedeliveryIsDue
    FirstTimeInOrder
    PromiseSpec
    LoopComesToAll
