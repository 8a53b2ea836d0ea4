SPECIFICATION FairSpec
CONSTANTS
    CapacitySectors = 3
    MaxPendingSectors = 2
    MaxPendingRecords = 2
    BlockSectors = 2
    MaxAttempts = 2
    MaxEntries = 3
    Faults = {"imageSync"}
INVARIANTS
    ReportedProgressSurvives
    LossBounded
    JournalReproducesMemory
PROPERTIES
    CanceledSessionEnds
