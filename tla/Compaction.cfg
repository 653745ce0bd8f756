SPECIFICATION Spec
CONSTANTS
    Keys = {1, 2, 3, 4, 5}
    EntrySize = 10
    BlockSize = 25
    Params <- SomeParams
    SstableSize = 500
    FrontMeta = 7
    HostProps <- SomeHostProps
    LineBytes = 1
    BitsPerKey = 4
    PageSize = 32
    Cores = 2
    Base = 8
    HashBuf = 2
    Levels <- Pairs
CHECK_DEADLOCK FALSE
INVARIANTS
    LookupPreserved
    FilesExact
