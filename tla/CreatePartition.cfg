SPECIFICATION FairSpec
CONSTANTS
    N = 3
    MaxFaults = 1
    MaxTrouble = 2
    MaxAttempts = 2
INVARIANTS
    CommittedUntouched
    Consistent
    PublishedIsRunning
CHECK_DEADLOCK FALSE
PROPERTY CreationSettles
