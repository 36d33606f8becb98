SPECIFICATION Spec
CONSTANTS
    Replica <- MCReplica
    MaxLsn = 1
    MaxSwitchovers = 1
    MaxFaults = 0
    MaxLate = 0
INVARIANT AcknowledgedWritesSurvive
CHECK_DEADLOCK FALSE
