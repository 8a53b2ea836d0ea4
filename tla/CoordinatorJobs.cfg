SPECIFICATION FairSpec
CONSTANTS
    JobIds = {j1, j2}
    ReuseIds = FALSE
    MaxTokens = 8
    MaxRuns = 2
INVARIANTS
    PendingMatchesState
    PausedIsCheckpointed
PROPERTIES
    StaleAnswersIgnored
    PassesAdvance
    StopRequestEnds
CHECK_DEADLOCK FALSE
