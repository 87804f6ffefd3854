\* Everything ends: foreground and automatic runs with subscribers that call
\* the form.
SPECIFICATION FairSpec
CONSTANTS
    Validators = {"email", "whole"}
    Paths <- OnePath
    Fields <- ChangeAndBlurFields
    Trigger <- ChangeAndBlurTrigger
    NONE = NONE
    Calls = {"setValue", "blur", "validateAsync", "abort", "reset",
             "deactivate"}
    AbortCallbacks = TRUE
    MaxGeneration = 2
    MaxDepth = 2
PROPERTIES
    RunsEnd
    PromisesSettle
CHECK_DEADLOCK FALSE
