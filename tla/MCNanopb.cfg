CONSTANTS
    W8 = 8
    W16 = 9
    W32 = 10
    W64 = 20
    WSize = 10
    Schemas <- MCSchemas
    Samples <- MCSamples
    Unknowns <- MCUnknowns
    Raw <- MCRaw
    Buffers = {0, 5, 14, 60}
    MaxItems = 3
SPECIFICATION Spec
INVARIANTS
    MergesInOrder
    FramesInStep
    FitsStruct
    SizesAgree
CHECK_DEADLOCK FALSE
