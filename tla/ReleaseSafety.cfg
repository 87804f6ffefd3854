\* A protected and a traced process of the same run, then an applier that is run
\* again while others write to GitHub.
SPECIFICATION FairTagsSpec
CONSTANTS
    N = 2
    j1 = j1
    j2 = j2
    Jobs = {j1, j2}
    RunOf <- TwoOfOneRun
    HostOf <- OneHost
    AttemptOf <- FirstAttempts
    Traced = {j2}
    Appliers = {1}
    MaxFailures = 1
    MaxMeddling = 1
    FOREIGN = FOREIGN
    NONE = NONE
INVARIANTS
    OnePutPerRun
    TraceAccounts
    ReleasesAreBacked
PROPERTIES
    ProvedBeforeNext
    TagsTogether
    ReleaseConverges
CHECK_DEADLOCK FALSE
