\* Two swipes, a conversation and two cases with one reviewer, in every order.
CONSTANTS
    viewer = viewer
    sam = sam
    p1 = p1
    p2 = p2
    p3 = p3
    ghost = ghost
    Profiles = {p1, p2, p3}
    OtherIds = {ghost}
    Ranking <- FixtureRanking
    Reciprocal = {p1}
    SyntheticBotSignals <- FixtureSignals
    Truth <- FixtureTruth
    Viewer = viewer
    Members = {viewer, sam}
    Account <- Community
    NoCluster = NoCluster
    MaxCases = 2
    Texts = {"hello"}
    StarterTags = {"music"}
    SuggestionInputs = {"coffee_public"}
    NoTag = NoTag
    NoCandidate = NoCandidate
    MaxEvents = 2
    MaxMessages = 3
SPECIFICATION Spec
INVARIANTS
    QueueIsWhatSwipesAccept
    RestoredCardReturns
    NoSingleSignalHides
PROPERTIES
    ImplementsPromise
CHECK_DEADLOCK FALSE
