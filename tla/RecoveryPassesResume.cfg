SPECIFICATION FairSpec
CONSTANTS
    CapacitySectors = 3
    Methods = {"fast", "balanced", "gentle"}
    LargeBlock = 2
    MiddleBlock = 2
    SmallBlock = 1
    AttemptsMax = 6
    MaxSessions = 2
    Interruptions = {"stop", "sourceLost", "crash"}
INVARIANTS
    PassesRecordLegally
    CompleteCoversMedium
    OneReadPerPass
    RetriesAreCounted
    RetryCycleRereads
PROPERTIES
    RunEnds
