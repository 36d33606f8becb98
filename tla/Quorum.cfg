SPECIFICATION FairSpec
CONSTANTS
    Replica = {r1, r2}
    Self = r1
    QuorumTimeout = 1
    MaxLsn = 1
    MaxCalls = 2
    MaxTenure = 2
    MaxReconfigs = 2
    NoAlarm = NoAlarm
INVARIANTS TypeOK EveryCallAccounted ProgressOrdered
PROPERTIES OkHasBothQuorums DeadlineIsFinal CatchUpNeverMasksExpiry EveryCallAnswered
CHECK_DEADLOCK FALSE
