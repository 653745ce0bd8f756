SPECIFICATION Spec
CONSTANTS
    NULL = NULL
    MAXQ = 2
    Setups <- SmallSetups
    Spaced = TRUE
CHECK_DEADLOCK FALSE
 
 
PROPERTY AdminAnswered
