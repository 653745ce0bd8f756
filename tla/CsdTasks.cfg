SPECIFICATION Spec
CONSTANTS
    NTasks = 4
    NCpu = 2
    SlmRanges = 5
    MaxDeferred = 2
    MaxDemand = 1
    Scripts <- SomeScripts
    Prompt = TRUE
CHECK_DEADLOCK FALSE
INVARIANTS
    Accounted
    
    
PROPERTIES
    AllReturned
