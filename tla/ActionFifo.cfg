\* An observer that activates an action when it is told the end of a run.
SPECIFICATION ActionSpec
CONSTANTS
    Keys = {1}
    ResetKeys = {}
    Policies <- Queue
    Calls = {}
    AbortListeners = FALSE
    MaxWaiting = 2
    MaxIntents = 3
    MaxCalls = 0
    MaxDepth = 1
    NONE = NONE
PROPERTIES
    FifoOrder
CHECK_DEADLOCK FALSE
