\* The first misjudged case already costs reputation.
CONSTANTS
    viewer = viewer
    ava = ava
    noah = noah
    sam = sam
    twin = twin
    p1 = p1
    NoCluster = NoCluster
    Members = {viewer, ava}
    Profiles = {p1}
    Account <- ReviewTeam
    AssessedActions = {"deny"}
    MaxCases = 1
SPECIFICATION Spec
INVARIANTS
    PenaltyNeedsPattern
CHECK_DEADLOCK FALSE
