SPECIFICATION RunFairSpec
CONSTANTS
    Workers = 2
    Tests = {"t1", "t2", "t3"}
    Forking = {"t1"}
    FailFasts = {TRUE, FALSE}
    Contexts <- Calls
INVARIANTS
    CompletedMeansAllPassed
    FailFastLimitsLateStarts
    NoProcessOutlivesExecute
PROPERTIES
    ImplementsTestRun
    CommandEnds
