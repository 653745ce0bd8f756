SPECIFICATION Spec
CONSTANTS
    Sqs = {1}
    NEntries = 6
    Hosts <- SomeHosts
    Reads <- SomeReads
    Writes <- SomeWrites
    MaxCmds = 6
    MaxTime = 1
    Parts = 1
    SecsPerPg = 1
    Oneshot = 2
    Initial = 2
CHECK_DEADLOCK FALSE
INVARIANTS
    NothingLost
    
PROPERTIES
    
    AllAnswered
