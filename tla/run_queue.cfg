SPECIFICATION RunFairSpec
CONSTANTS
    Workers = 1
    Tests = {"t1", "t2"}
    Queues <- TwoInARow
    FailFasts = {FALSE}
    Tracings = {TRUE, FALSE}
INVARIANTS
    RunTypeOK
    CompletedMeansPassed
    TestFailureFailsRun
    ExitMatchesRow
    NoSilentSkip
PROPERTIES
    RowMovesForward
    RowIsClosed
    RunEnds
