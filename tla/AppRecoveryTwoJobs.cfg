SPECIFICATION Spec
CONSTANTS
    MaxJobs = 2
    MaxInFlight = 3
INVARIANT
    OneRecoveryAtATime
