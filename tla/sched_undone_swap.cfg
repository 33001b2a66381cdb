SPECIFICATION Spec
CONSTANTS
    Workers = 2
    Tests <- ThreeTests
    Inputs <- ThreeInputs
    Estimates <- ThreeEstimates
    PredictionSets <- ThreePredictions
    Unit = 4
    HardPenalty = 1000
    RiskWeight <- BalancedWeight
    HardThreshold <- BalancedThreshold
    UtilizationBias <- BalancedBias
    Lookahead = 2
    RefinementRounds = 1
    RefineLimit = 64
INVARIANT
    HighRiskPairDoesNotOverlap
