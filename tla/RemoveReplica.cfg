SPECIFICATION FairSpec
CONSTANTS
    Others = {3}
    MaxAttempts = 2
    MaxTrouble = 2
INVARIANTS
    Consistent
    CommitStands
    RetiredIsNotCounted
CHECK_DEADLOCK FALSE
PROPERTY RemoveSettles
