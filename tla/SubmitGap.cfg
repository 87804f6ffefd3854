\* A write between the submit call and the continuation of its validation.
SPECIFICATION SubmitSpec
CONSTANTS
    Validators = {}
    Paths <- OneField
    Fields <- NoFields
    Trigger <- NoFields
    NONE = NONE
    Calls = {"setValue", "submit"}
    Reentrant = {}
    AbortCallbacks = FALSE
    Gates = FALSE
    HandlerIssues = FALSE
    MaxSubmits = 2
    MaxGeneration = 3
    MaxDepth = 1
PROPERTIES
    HandlerGetsValidData
CHECK_DEADLOCK FALSE
