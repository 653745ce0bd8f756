SPECIFICATION Spec
CONSTANTS
    Total = 61
    MaxPending = 1
    PAGE = 4
    GRAIN = 8
    IOSIZE = 12
    SECTOR = 2
    MINIO = 8
    RING = 32
    GHOST = 4
    Files <- Level
    MaxSres = 6
    MaxFiemap = 4
    Lists = 3
    Pools = {2, 4}
    EntrySizes = {1, 3, 4}
    SlotStates <- SlotStatesMC
INVARIANTS
    ReadsInPlace
    FrontierSound
    CompleteMeansAll
PROPERTIES
    StreamConsumed
