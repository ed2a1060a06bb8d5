----------------------------- MODULE RiskLadder -----------------------------
(***************************************************************************)
(* The automated layer: src/src/swipe_dating/domain/risk.py                *)
(*                                                                         *)
(* Signals about an account's behaviour, never its content, add up to a    *)
(* score, and the score chooses one of five actions.  A key that is        *)
(* missing, or holds no number, counts 0, so signals are records with      *)
(* every field.  Counts are natural numbers, for which the code's floats   *)
(* and int() are exact.                                                    *)
(***************************************************************************)
EXTENDS Integers, FiniteSets

Attestation == {"hardware_backed", "software_fallback", "unsupported", "missing", "failed",
                "unknown"}

Signals ==
    [adultCredentialValid : BOOLEAN, attestation : Attestation,
     accountsCreated24h : Nat, presencePublishesMinute : Nat, discoveryRequestsMinute : Nat,
     profileFetchesMinute : Nat, likesMinute : Nat, bleReplayHits24h : Nat,
     impossibleTravel : BOOLEAN, maliciousLinkHits24h : Nat, reportBrigadeScore : Nat,
     priorEnforcementCount : Nat]

LesserOf(a, b) == IF a < b THEN a ELSE b

AttestationPenalty ==
    [hardware_backed |-> 0, software_fallback |-> 8, unsupported |-> 20, missing |-> 30,
     unknown |-> 25]

\* Fault: no cap on what mass registration can add.
UncappedAccountPoints(n) == IF n > 2 THEN (n - 2) * 12 ELSE 0

AccountPoints(n) == IF n > 2 THEN LesserOf(48, (n - 2) * 12) ELSE 0

PointsIf(condition, points) == IF condition THEN points ELSE 0

\* What each reason adds to the score.
Points(s) ==
    [lower_trust_device |-> AttestationPenalty[s.attestation],
     mass_registration  |-> AccountPoints(s.accountsCreated24h),
     presence_flood     |-> PointsIf(s.presencePublishesMinute > 12, 20),
     discovery_scraping |-> PointsIf(s.discoveryRequestsMinute > 120, 20),
     profile_scraping   |-> PointsIf(s.profileFetchesMinute > 100, 25),
     automated_liking   |-> PointsIf(s.likesMinute > 60, 25),
     ble_replay         |-> LesserOf(40, s.bleReplayHits24h * 10),
     impossible_travel  |-> PointsIf(s.impossibleTravel, 25),
     malicious_links    |-> LesserOf(40, s.maliciousLinkHits24h * 20),
     report_brigading   |-> PointsIf(s.reportBrigadeScore > 50, 20),
     prior_enforcement  |-> LesserOf(30, s.priorEnforcementCount * 10)]

Denied(s) == ~s.adultCredentialValid \/ s.attestation = "failed"

Reasons(s) == {r \in DOMAIN Points(s) : Points(s)[r] > 0}

Score(s) ==
    LET p == Points(s)
    IN  LesserOf(100, p.lower_trust_device + p.mass_registration + p.presence_flood
                      + p.discovery_scraping + p.profile_scraping + p.automated_liking
                      + p.ble_replay + p.impossible_travel + p.malicious_links
                      + p.report_brigading + p.prior_enforcement)

\* assess_risk(signals).action
AssessRisk(s) ==
    IF Denied(s) THEN "deny"
    ELSE IF Score(s) >= 80 THEN "temporary_containment"
    ELSE IF Score(s) >= 55 THEN "challenge"
    ELSE IF Score(s) >= 30 THEN "throttle"
    ELSE "allow"

============================================================================
