SPECIFICATION FairSpec
CONSTANTS
    Others = {3}
    MaxAttempts = 2
    MaxTrouble = 2
INVARIANTS
    Consistent
    CommitStands
    CommittedTargetServes
CHECK_DEADLOCK FALSE
PROPERTY AddSettles
