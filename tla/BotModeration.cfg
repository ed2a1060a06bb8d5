\* Two cases before a full review team, overlapping or one after the other: every order and
\* choice of votes, with and without containment by the automated assessment.
CONSTANTS
    viewer = viewer
    ava = ava
    noah = noah
    sam = sam
    twin = twin
    p1 = p1
    NoCluster = NoCluster
    Members = {viewer, ava, twin, noah, sam}
    Profiles = {p1, noah}
    Account <- ReviewTeam
    AssessedActions = {"allow", "deny"}
    MaxCases = 2
SPECIFICATION Spec
INVARIANTS
    IndependentReview
    ContainmentJustified
    StatusSummarisesCase
    EligibleReviewersExact
    OneActiveCasePerProfile
    TypeOK
    ReputationAccounting
    ReportAccounting
PROPERTIES
    ReviewRecordFrozen
    ContainmentLiftedOnlyByVerdict
    ReviewerPoolOnlyShrinks
CHECK_DEADLOCK FALSE
