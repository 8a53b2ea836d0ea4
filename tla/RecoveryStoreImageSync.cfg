SPECIFICATION Spec
CONSTANTS
    CapacitySectors = 2
    MaxPendingSectors = 2
    MaxPendingRecords = 2
    BlockSectors = 2
    MaxAttempts = 2
    MaxEntries = 3
    Faults = {"imageSync"}
INVARIANT
    ClaimsBacked
