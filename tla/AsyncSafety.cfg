\* Calls from the host and from subscribers, and refused publications.
SPECIFICATION FairAsyncSpec
CONSTANTS
    field = field
    row = row
    Keys <- Both
    Rows <- OneRow
    BlurKeys <- OneRow
    Values = {1, 2}
    Calls = {"setValue", "blur", "validateAsync", "reset", "deactivate", "dispose"}
    MaxCalls = 3
    MaxRefusals = 2
    NONE = NONE
INVARIANTS
    ShownIsOwned
    FreshAtRest
PROPERTIES
    NoStalePublication
    ChangesJudged
CHECK_DEADLOCK FALSE
