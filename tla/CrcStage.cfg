SPECIFICATION Spec
CONSTANTS
    PAGE = 4
    GRAIN = 8
    RING = 32
    GHOST = 8
    OutTotal = 81
    InTotal = 90
    WriteSizes = {1, 2, 5}
    SstSize = 27
    PadAt = {24}
    Threshold = 17
    MARK = 1
    Streams <- AnyLast
INVARIANTS
    EntryInPlace
    UnreportedIntact
PROPERTIES
    CrcFinishes
CHECK_DEADLOCK FALSE
