SPECIFICATION FairSpec
CONSTANTS
    MaxJobs = 2
    MaxInFlight = 3
INVARIANTS
    ActiveJobIsPolled
    ReportsAreFinal
PROPERTIES
    EndReachesUser
