SPECIFICATION SetupSpec
CONSTANTS
    Drives = {"a", "b"}
    MaxRequests = 4
    MaxEffects = 0
    MaxSaved = 1
INVARIANT
    InspectedBeforeResume
