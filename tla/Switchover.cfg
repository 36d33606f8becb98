SPECIFICATION Spec
CONSTANTS
    Replica <- MCReplica
    MaxLsn = 1
    MaxSwitchovers = 1
    MaxFaults = 1
    MaxLate = 1
INVARIANTS
    Consistent
    AtMostOneWriter
    GrantedWritesSurvive
CHECK_DEADLOCK FALSE
