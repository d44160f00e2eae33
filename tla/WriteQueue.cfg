SPECIFICATION Spec
CONSTANTS
    Clients = {"c1", "c2", "c3", "c4"}
    Syncs = {"c2"}
    Nulls = {"c4"}
    Doubles = {"c1"}
    MaxGroup = 3
    WriteBufferSize = 1
    SlowdownTrigger = 1
    StopTrigger = 2
    CompactionTrigger = 1
    MaxFaults = 2
INVARIANTS ReadersSeeBatches SequencesUnique NothingUnlogged
PROPERTIES SyncErrorFinal EveryCallReturns
CHECK_DEADLOCK FALSE
