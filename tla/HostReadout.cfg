SPECIFICATION HostSpec
CONSTANTS
    PAGE = 2
    GRAIN = 4
    RING = 16
    GHOST = 4
    OutTotal = 39
    InTotal = 44
    WriteSizes = {1, 3}
    SstSize = 20
    PadAt = {15}
    HostLens = {3, 5, 7}
    HostPage = 2
    HostBuffers <- SomeBuffers
INVARIANTS
    HostReadsInPlace
    DoneMeansAll
    AnswerLandsInPlace
PROPERTIES
    HostGetsAll
CHECK_DEADLOCK FALSE
