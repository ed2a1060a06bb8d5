----------------------------- MODULE MCSession -----------------------------
(***************************************************************************)
(* The fixtures of src/src/swipe_dating/fixtures.py for TLC: a human who   *)
(* likes back (p1), a bot that its signals contain (p2), a profile the     *)
(* fixtures say nothing about (p3), the local viewer and one reviewer.     *)
(***************************************************************************)
EXTENDS Session, TLC

CONSTANTS viewer, sam, p1, p2, p3, ghost

Reviewer(cluster) ==
    [adultEligible |-> TRUE, verified |-> TRUE, goodStanding |-> TRUE,
     accountAgeDays |-> 410, reputation |-> 100, reports |-> 0, cluster |-> cluster]

Community ==
    (viewer :> [Reviewer(viewer) EXCEPT !.verified = FALSE, !.accountAgeDays = 30])
    @@ (sam :> Reviewer(sam))

Quiet == [NoSignals EXCEPT !.adultCredentialValid = TRUE, !.attestation = "hardware_backed"]

\* p1 registered ten accounts on one day and did nothing else; p2 as in the fixtures.
FixtureSignals ==
    (p1 :> [Quiet EXCEPT !.discoveryRequestsMinute = 4, !.likesMinute = 2,
                         !.accountsCreated24h = 10])
    @@ (p2 :> [Quiet EXCEPT !.attestation = "software_fallback",
                            !.discoveryRequestsMinute = 180, !.profileFetchesMinute = 150,
                            !.likesMinute = 90, !.maliciousLinkHits24h = 1])

FixtureTruth == (p1 :> FALSE) @@ (p2 :> TRUE)

FixtureRanking == <<p1, p2>>

============================================================================
