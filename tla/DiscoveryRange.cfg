\* The same instance: is a candidate beyond the range of the viewer left out?
CONSTANTS
    Viewers <- SomeViewers
    Candidates <- SomeCandidates
    MaxPool = 3
    WeightInputs <- SomeWeights
    Unusable = Unusable
    NoResult = NoResult
SPECIFICATION Spec
INVARIANTS
    RangeIsHard
CHECK_DEADLOCK FALSE
