\* Submissions, actions, writes and lifecycle calls, with observers that call back.
SPECIFICATION KaladaSpec
CONSTANTS
    Policies <- Declared
    Modes = {TRUE, FALSE}
    Calls = {"write", "reset", "submit", "send", "apply", "add", "check", "dispose", "revoke"}
    Reentrant = {"write", "submit", "send", "dispose"}
    MaxWaiting = 1
    MaxCalls = 3
    MaxDepth = 1
    NONE = NONE
INVARIANTS
    AnswersAreTrue
    QueueServed
PROPERTIES
    SendsWhatWasJudged
    SendsOnce
    
CHECK_DEADLOCK FALSE
