\* A deferred form; every call, from the host and from every callback.
SPECIFICATION FormSpec
CONSTANTS
    p1 = p1
    p2 = p2
    m1 = m1
    Listeners = {l1, l2}
    Plugins <- OnePlugin
    Middlewares <- OneMiddleware
    Deferred = TRUE
    OwnedAtCreation = FALSE
    MAX_OWNED_NOTIFICATIONS = 2
    MalformedUpdates = FALSE
    Calls = {"metadata", "attempt", "issues", "prepared", "own", "subscribe", "dispatch", "reset", "activate", "deactivate", "dispose"}
    MaxCalls = 5
    MaxDepth = 6
    NONE = NONE
SYMMETRY Alike
INVARIANTS
    NobodyIsOwed
    ReceiptsVouch
    MutationsReported
    HandlesReleased
PROPERTIES
    DeliveriesAdvance
    Isolated
CHECK_DEADLOCK FALSE
