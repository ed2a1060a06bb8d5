\* Every pool of at most three candidates, under every viewer and every choice of weights.
CONSTANTS
    Viewers <- SomeViewers
    Candidates <- SomeCandidates
    MaxPool = 3
    WeightInputs <- SomeWeights
    Unusable = Unusable
    NoResult = NoResult
SPECIFICATION Spec
INVARIANTS
    WeightsAreShares
    EligibilityIsMutual
    BetterIsNotBehind
CHECK_DEADLOCK FALSE
