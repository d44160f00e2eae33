SPECIFICATION Spec
CONSTANTS
    kBlockSize = 14
    Sizes = {0, 3, 9}
    MaxRecords = 2
    MaxDamage = 1
    MaxFailures = 1
    Torn = {0, 3, 7, 9}
    InitialOffsets = {0, 14}
INVARIANTS ReturnsOnlyRecords DamageIsLocal AlarmsExact
PROPERTY ReaderEnds
