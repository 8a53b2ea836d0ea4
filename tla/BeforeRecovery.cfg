SPECIFICATION MCSpec
CONSTANTS
    p1 = p1
    p2 = p2
    r1 = r1
    r2 = r2
    a = a
    b = b
    Processes = {p1, p2}
    RecordIDs = {r1, r2}
    JobIDs = {a, b}
    ProcessingState = {"in_progress", "stopped_resumable"}
    MaxAppends = 3
    MaxFailures = 1
    MaxCrashes = 1
    ReadFaults = {FALSE}
    MaxEntries = 1
    MaxJobRefsPerEntry = 1
    MaxCatalogJobsPerEntry = 1
    MinimumStrongSamples = 2
    MaxComparedSamples = 3
    TotalBudget = 2
    ReadDeadline = 1
    Drives = {"a", "b"}
    MaxRequests = 4
    MaxEffects = 1
    MaxSaved = 1
    Starters = {"s1", "s2", "s3"}
    Outputs = {"disc", "disc.iso"}
INVARIANTS
    OneWriter
    RecordedSurvives
    CompactionKeepsHistory
    MatchIsJustified
    DiscoveryIsAnswered
    StartKeepsPairs
PROPERTY
    MediaFollowsSelection
CHECK_DEADLOCK FALSE
