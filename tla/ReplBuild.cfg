SPECIFICATION Spec
CONSTANTS
    Replica = {r1, r2, r3}
    First = r1
    Founders = {r1, r2}
    QuorumTimeout = 1
    MaxLsn = 3
    MaxFailovers = 0
    Isolation = FALSE
INVARIANTS OnlySnapshotLagIsLost
CHECK_DEADLOCK FALSE
