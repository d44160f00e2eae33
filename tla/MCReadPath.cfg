CONSTANTS
    kMaxByte = 4
    kMaxSequenceNumber = 9
    block_size = 7
    block_restart_interval = 2
    kFilterBase = 4
    bits_per_key = 3
    MinBits = 8
    Histories <- MCHistories
    Layouts <- MCLayouts
    Targets <- MCTargets
    Snapshots <- MCSnapshots
    Later <- MCLater
    MaxInserts = 1
SPECIFICATION Spec
INVARIANTS
    ReadsAnswer
PROPERTIES
    ImplementsCursor
CHECK_DEADLOCK FALSE
