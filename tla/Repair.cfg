SPECIFICATION AllSpec
CONSTANTS
    MaxWrites = 2
    MaxRestarts = 2
    MaxFaults = 1
    Trigger = 1
    MaxRepairs = 2
    MaxWritesBefore = 1
INVARIANTS VersionsSound OneWritePerSequence CanBeOpened RepairedOpens RepairKeepsSynced
CHECK_DEADLOCK FALSE
