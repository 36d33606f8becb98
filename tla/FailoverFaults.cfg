SPECIFICATION Spec
CONSTANTS
    Replica <- Four
    Unknown = Unknown
    Failed = 1
    Unrecorded = {}
    MinReplicas = 1
    MaxLsn = 1
    MaxFaults = 1
    MayBeLate = FALSE
INVARIANTS CandidateHasAcked AtMostOnePromotion EffectOnce
CHECK_DEADLOCK FALSE
