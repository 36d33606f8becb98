SPECIFICATION FairSpec
CONSTANTS
    Replica <- Three
    Unknown = Unknown
    Failed = 1
    Unrecorded = {2}
    MinReplicas = 1
    MaxLsn = 0
    MaxFaults = 2
    MayBeLate = TRUE
INVARIANTS Consistent NoRestartNoDataLoss PublishedIsRunning
PROPERTIES FailoverSettles
CHECK_DEADLOCK FALSE
