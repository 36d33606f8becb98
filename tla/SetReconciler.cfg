SPECIFICATION FairSpec
CONSTANTS
    MaxId = 3
    Replicas = 3
    MinReplicas = 1
    FailoverDelay = TRUE
    MaxFaults = 2
    MaxEdits = 1
    MaxErrors = 1
INVARIANTS
    Consistent
PROPERTIES
    SwitchoverFromHealth
    Converges
CHECK_DEADLOCK FALSE
