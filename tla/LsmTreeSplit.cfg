SPECIFICATION Spec
CONSTANTS
    Keys = {1, 2}
    Types = {"value", "deletion"}
    MaxSeq = 4
    MaxDeletions = 3
    MaxSnapshots = 1
    MaxRequests = 0
    kNumLevels = 4
    kL0_CompactionTrigger = 2
    kMaxMemCompactLevel = 0
    TargetFileSize = 1
    BaseBytes = 1
    GrandparentFactor = 10
    ExpansionFactor = 25
INVARIANT NewerAbove
CHECK_DEADLOCK FALSE
