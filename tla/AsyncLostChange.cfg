\* A subscriber to a revocation sets another value.
SPECIFICATION FairAsyncSpec
CONSTANTS
    field = field
    row = row
    Keys <- Both
    Rows <- OneRow
    BlurKeys <- OneRow
    Values = {1, 2}
    Calls = {"setValue"}
    MaxCalls = 3
    MaxRefusals = 0
    NONE = NONE
PROPERTIES
    LanesIndependent
CHECK_DEADLOCK FALSE
