SPECIFICATION Spec
CONSTANTS
    CapacitySectors = 5
    ClusterSize = 2
    SkipAfterFailure = 2
    SmallCluster = 2
    FailureBudget = 2
    Threshold = 2
    MaxSplitDepth = 2
    MaxBudget = 2
    MaxReads = 3
    MaxStops = 3
    CaptureIDs = {"a", "b", "c"}
    Hashes = {"x", "y", "none"}
INVARIANTS
    FastPassAccounts
    TrimPassTakesOnlyRead
    AdaptivePassPartitions
    ScrapePassAccounts
    FinalizedInOrder
    MergeIsConservative
PROPERTY
    PassesEnd
CHECK_DEADLOCK FALSE
