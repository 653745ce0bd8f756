SPECIFICATION Spec
CONSTANTS
    SECTOR = 2
    MaxSres = 3
    MaxFiemap = 3
    PAGE = 4
    MINIO = 12
    IOSIZE = 16
    BUFPAGES = 14
    MaxExtents = 3
    Lists = 2
    NReq = 4
    Layouts <- SoundLayouts
    Prompt = TRUE
INVARIANTS
    
    HandoverSafe
    

    
