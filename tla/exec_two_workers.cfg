SPECIFICATION Spec
CONSTANTS
    Workers = 2
    Tests = {"t1", "t2"}
    Queues <- OneEach
    FailFasts = {TRUE}
    Tracings = {TRUE}
INVARIANTS
    SendNeverBlocks
    UnsavedIsReported
    LeftoverIsReported
    VerdictIsEarned
