\* Field and form-level validator, every call of the host, one level of
\* reentrancy.
SPECIFICATION Spec
CONSTANTS
    Validators = {"email", "whole"}
    Paths <- FewPaths
    Fields <- ChangeAndBlurFields
    Trigger <- ChangeAndBlurTrigger
    NONE = NONE
    Calls = {"setValue", "setUiState", "blur", "validateAsync", "validateCandidate",
             "abort", "reset", "dispose"}
    AbortCallbacks = FALSE
    MaxGeneration = 3
    MaxDepth = 2
INVARIANTS
    TypeOK
    OneRunPerValidator
    StatusMatchesWork
PROPERTIES
    FreshPublication
    WritesKeepLanes
    ImplementsVerdicts
CHECK_DEADLOCK FALSE
