CONSTANTS
    kNumShards = 2
    kInitialLength = 1
    Readers = {x, y}
    Files = {1, 3}
    Offsets = {1}
    Entries = 2
    BlockCapacity = 2
    MaxMmaps = 1
    MaxOpenFiles = 1
    MaxReads = 3
    MaxFaults = 1
SPECIFICATION Spec
INVARIANTS
    CachesSound
    LimitsExact
    RightBlock
CHECK_DEADLOCK FALSE
