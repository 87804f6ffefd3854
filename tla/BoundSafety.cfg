\* Bound submits against every competing call, from the host and callbacks.
SPECIFICATION BoundSpec
CONSTANTS
    Contents = {1, 2}
    Calls = {"submit", "setValue", "blur", "validateAsync", "validate", "abort", "reset"}
    MaxCalls = 3
    NONE = NONE

    
PROPERTIES
    HandlerJudged
    AcceptedUnchanged
    AttemptsKeepApart
    BoundSubmitsEnd
CHECK_DEADLOCK FALSE
