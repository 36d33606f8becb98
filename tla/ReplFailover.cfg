SPECIFICATION Spec
CONSTANTS
    Replica = {r1, r2, r3}
    First = r1
    Founders = {r1, r2}
    QuorumTimeout = 1
    MaxLsn = 2
    MaxFailovers = 1
    Isolation = TRUE
INVARIANTS Consistent
PROPERTIES OkIsDurable CandidateHasReceivedAll
CHECK_DEADLOCK FALSE
