SPECIFICATION Spec
CONSTANTS
    Keys = {1, 2, 3}
    Types = {"value", "deletion"}
    MaxSeq = 4
    MaxDeletions = 1
    MaxSnapshots = 1
    MaxRequests = 1
    kNumLevels = 4
    kL0_CompactionTrigger = 2
    kMaxMemCompactLevel = 2
    TargetFileSize = 4
    BaseBytes = 1
    GrandparentFactor = 1
    ExpansionFactor = 2
INVARIANTS ReadsLatest LevelsDisjoint
PROPERTY CompactionSettles
CHECK_DEADLOCK FALSE
