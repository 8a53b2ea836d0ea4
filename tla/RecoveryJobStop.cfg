SPECIFICATION FairSpec
CONSTANTS
    Platforms = {"linux", "native"}
    MaxReads = 3
    MaxStops = 3
INVARIANTS
    CanceledByUser
    EndMatchesRun
PROPERTIES
    NoReadAfterStop
    LifecycleMonotonic
    BlockedReadEscalates
    StopEnds
