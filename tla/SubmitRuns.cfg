\* Every call of the host, most of them also from subscribers, gates and handlers.
SPECIFICATION FairSubmitSpec
CONSTANTS
    Validators = {"email"}
    Paths <- OneField
    Fields <- FieldValidator
    Trigger <- OnChange
    NONE = NONE
    Calls = {"setValue", "setUiState", "blur", "validateAsync", "validateCandidate", "abort", "submit", "reset", "dispose", "deactivate"}
    Reentrant = {}
    AbortCallbacks = FALSE
    Gates = TRUE
    HandlerIssues = TRUE
    MaxSubmits = 2
    MaxGeneration = 3
    MaxDepth = 2
INVARIANTS
    OneHandler
PROPERTIES
    AbortedRunsAreSilent
    HandlerAfterValidation
    SubmitsEnd
CHECK_DEADLOCK FALSE
