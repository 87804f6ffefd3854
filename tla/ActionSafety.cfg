\* A custom action and the reserved reset, under every policy.
SPECIFICATION ActionSpec
CONSTANTS
    Keys = {1, 2}
    ResetKeys = {2}
    Policies <- CustomAndReset
    Calls = {"reset", "dispose"}
    AbortListeners = FALSE
    MaxWaiting = 2
    MaxIntents = 3
    MaxCalls = 1
    MaxDepth = 1
    NONE = NONE
INVARIANTS
    StatusMatchesRun
PROPERTIES
    IntentsSettle
CHECK_DEADLOCK FALSE
