SPECIFICATION Spec
CONSTANTS
    Pairs = {p1, p2, p3, p4, p5, p6}
    NegativeRatio = 1
    FewNegatives = 2
    Scores = {0, 1, 2, 3}
    Epochs = 4
    EarliestStop = 1
    Patience = 2
    MaxTrainings = 2
INVARIANTS
    SplitServesEveryPart
    BestCheckpointIsSaved
    OnlyDescribedWeightsPredict
    FinishedModelIsUsed
