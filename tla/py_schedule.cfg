SPECIFICATION PySpec
CONSTANTS
    Workers = 3
    Tests <- FourTests
    Inputs <- FourInputs
    Estimates <- FourEstimates
    PredictionSets = {{}}
    PredictionLists <- FourLists
    TruthSets <- Truths
    Unit = 1
    HardPenalty = 0
    RiskWeight <- SafeWeight
    HardThreshold <- SafeThreshold
    UtilizationBias <- SafeBias
    Lookahead = 2
    RefinementRounds = 1
    RefineLimit = 64
INVARIANTS
    PyEveryTestOnce
    BisectionSeesEveryOverlap
    IdleEndsWithATest
    TrialIsConsistent
