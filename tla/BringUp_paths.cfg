SPECIFICATION FairSpec
CONSTANTS
    Absent = Absent
    None = None
    Setups <- AllSetups
CHECK_DEADLOCK FALSE
INVARIANTS
    AutoStartTakesEffect
    SeedsFindTopology
    BuiltAsDeclared
    ErrorsAreDeserved
PROPERTY
    BringUpEnds
