------------------------------ MODULE Discovery ------------------------------
(***************************************************************************)
(* Who is shown to a viewer, and in which order:                           *)
(* src/src/swipe_dating/domain/discovery.py                                *)
(*                                                                         *)
(* rank_discovery_candidates is a function of the viewer, the candidates   *)
(* and the weights.  The three are chosen in the initial state and one     *)
(* action ranks.                                                           *)
(*                                                                         *)
(* The code divides in floating point.  Where exact arithmetic ties (two   *)
(* weights with the same fraction, a distance component or a score that    *)
(* ends in a half), rounding errors decide, one way or the other:          *)
(* (0, 0, 1, 1, 10) normalizes to (0, 0, 8, 8, 84), the exact order of     *)
(* allocation gives (0, 0, 9, 8, 83); of a range of 40, 7 km score 83 of   *)
(* 82.5, but 17 km score 57 of 57.5.  Here either outcome is possible.     *)
(*                                                                         *)
(* Abstracted: numbers are integers, or Unusable for what does not convert *)
(* to a finite number; profiles have the fields the ranking reads; the     *)
(* scan for forbidden field names is left out, as a profile's fields are   *)
(* fixed.                                                                  *)
(***************************************************************************)
EXTENDS Integers, Sequences, FiniteSets, SequencesExt

CONSTANTS
    Viewers,        \* profiles that look
    Candidates,     \* profiles that are looked at
    MaxPool,        \* bound: candidates ranked together
    WeightInputs,   \* the weights a caller may ask for
    Unusable,       \* a value that _clamp_number takes for the minimum
    NoResult

RANKING_DIMENSIONS == <<"intent", "boundaries", "lifestyle", "alignment", "distance">>

\* The members of RANKING_DIMENSIONS
Dimensions == {"intent", "boundaries", "lifestyle", "alignment", "distance"}

Position == [k \in Dimensions |-> CHOOSE i \in 1 .. 5 : RANKING_DIMENSIONS[i] = k]

DEFAULT_RANKING_WEIGHTS ==
    [intent |-> 30, boundaries |-> 25, lifestyle |-> 15, alignment |-> 20, distance |-> 10]

\* _clamp_number
Clamp(value, low, high) ==
    IF value = Unusable \/ value < low THEN low ELSE IF value > high THEN high ELSE value

\* js_round of num / den
JsRound(num, den) == (2 * num + den) \div (2 * den)

Total(f) == f["intent"] + f["boundaries"] + f["lifestyle"] + f["alignment"] + f["distance"]

DistanceKm(c) == Clamp(c.distance, 0, 10000)

MaxDistanceKm(v) == Clamp(v.maxDistance, 1, 500)

\* The fields of a profile the ranking reads; of the numbers only what _clamp_number makes counts.
ASSUME ProfileAssumption ==
    /\ Unusable \notin Int
    /\ \A p \in Viewers \cup Candidates :
           /\ DOMAIN p = {"id", "intent", "openness", "acceptedIntents", "acceptedOpenness",
                          "boundaries", "required", "lifestyle", "alignment", "distance",
                          "maxDistance"}
           /\ IsFiniteSet(p.boundaries) /\ IsFiniteSet(p.lifestyle)
           /\ {p.alignment, p.distance, p.maxDistance} \subseteq Int \cup {Unusable}
ASSUME WeightAssumption == WeightInputs \subseteq [Dimensions -> Int \cup {Unusable}]
ASSUME IdAssumption ==
    /\ \A c \in Candidates : c.id \in Nat
    /\ \A c, d \in Candidates : c.id = d.id => c = d

----------------------------------------------------------------------------
(* Weights                                                                 *)

\* Fault: every weight is rounded and the last one takes what is left.
RoundedWeights(values) ==
    LET w == [k \in Dimensions |-> Clamp(values[k], 0, 100)]
        rounded == [k \in Dimensions |-> JsRound(100 * w[k], Total(w))]
    IN  IF Total(w) = 0
        THEN {DEFAULT_RANKING_WEIGHTS}
        ELSE {[rounded EXCEPT !["distance"] = @ + 100 - Total(rounded)]}

\* normalize_ranking_weights: the floors of the exact shares, and one more for the largest
\* fractions; of equal weights the earlier one comes first.
NormalizedWeights(values) ==
    LET w == [k \in Dimensions |-> Clamp(values[k], 0, 100)]
        floors == [k \in Dimensions |-> (100 * w[k]) \div Total(w)]
        fraction == [k \in Dimensions |-> (100 * w[k]) % Total(w)]
        Before(j, k) == fraction[j] > fraction[k] \/ (w[j] = w[k] /\ Position[j] < Position[k])
        First == {top \in SUBSET Dimensions :
                     /\ Cardinality(top) = 100 - Total(floors)
                     /\ \A k \in top, j \in Dimensions \ top : ~Before(j, k)}
    IN  IF Total(w) = 0
        THEN {DEFAULT_RANKING_WEIGHTS}
        ELSE {[k \in Dimensions |-> IF k \in top THEN floors[k] + 1 ELSE floors[k]] : top \in First}

----------------------------------------------------------------------------
(* One candidate                                                           *)

\* Fault: what the candidate requires of the viewer is not asked.
MissingForViewer(v, c) == {<<"missing_boundary", b>> : b \in v.required \ c.boundaries}

MissingBoundaries(v, c) ==
    {<<"missing_boundary", b>> : b \in v.required \ c.boundaries}
        \cup {<<"viewer_missing_boundary", b>> : b \in c.required \ v.boundaries}

\* The exclusions of evaluate_discovery_candidate
Exclusions(v, c) ==
    {<<"immediate_intent", p.id>> : p \in {q \in {v, c} :
        \E other \in {v, c} : other # q /\ other.intent \notin q.acceptedIntents}}
    \cup {<<"relational_openness", p.id>> : p \in {q \in {v, c} :
        \E other \in {v, c} : other # q /\ other.openness \notin q.acceptedOpenness}}
    \cup MissingBoundaries(v, c)

Eligible(v, c) == Exclusions(v, c) = {}

\* _intent_compatibility
IntentCompatibility(v, c) ==
    50 + (IF v.intent = c.intent THEN 30 ELSE 0) + (IF v.openness = c.openness THEN 20 ELSE 0)

\* _set_overlap_score.  Exact: of fewer than forty tags only eighths end in a half.
SetOverlapScore(left, right) ==
    IF left \cup right = {}
    THEN 50
    ELSE JsRound(100 * Cardinality(left \cap right), Cardinality(left \cup right))

\* What is left of the range at a distance, in percent of the range, ends in a half.
HalfLeft(v, km) ==
    (200 * (MaxDistanceKm(v) - km)) % (2 * MaxDistanceKm(v)) = MaxDistanceKm(v)

\* Fault: the share of the range that is used up is scored, not what is left of it.
DistanceUsedUp(v, c, short) ==
    IF DistanceKm(c) > MaxDistanceKm(v) THEN 0 ELSE JsRound(100 * DistanceKm(c), MaxDistanceKm(v))

\* _distance_score: of what ends in a half, the distances in "short" have come out just below it.
DistanceScore(v, c, short) ==
    IF DistanceKm(c) > MaxDistanceKm(v)
    THEN 0
    ELSE JsRound(100 * (MaxDistanceKm(v) - DistanceKm(c)), MaxDistanceKm(v))
             - (IF DistanceKm(c) \in short THEN 1 ELSE 0)

Components(v, c, short) ==
    [intent |-> IntentCompatibility(v, c),
     boundaries |-> SetOverlapScore(v.boundaries, c.boundaries),
     lifestyle |-> SetOverlapScore(v.lifestyle, c.lifestyle),
     alignment |-> Clamp(c.alignment, 0, 100),
     distance |-> DistanceScore(v, c, short)]

\* A hundred times what each component adds to the score
Terms(v, c, weights, short) ==
    [k \in Dimensions |-> Components(v, c, short)[k] * weights[k]]

EndsInHalf(terms) == Total(terms) % 100 = 50

\* The score: of terms that end in a half, those in "low" have come out just below it.
Score(terms, low) == JsRound(Total(terms), 100) - (IF terms \in low THEN 1 ELSE 0)

----------------------------------------------------------------------------
(* Ranking                                                                 *)

\* The eligible, the higher score first and the smaller id among equals.
InOrder(score) ==
    SetToSortSeq(DOMAIN score,
                 LAMBDA c, d : score[c] > score[d] \/ (score[c] = score[d] /\ c.id < d.id))

VARIABLES
    viewer, pool, values,
    result      \* the normalized weights, the scores of the eligible, their order

discoveryVars == <<viewer, pool, values, result>>

Init ==
    /\ viewer \in Viewers
    /\ pool \in {some \in SUBSET Candidates : Cardinality(some) <= MaxPool}
    /\ values \in WeightInputs
    /\ result = NoResult

\* rank_discovery_candidates
Rank ==
    /\ result = NoResult
    /\ LET eligible == {c \in pool : Eligible(viewer, c)}
           distances == {DistanceKm(c) : c \in eligible}
       IN  \E weights \in NormalizedWeights(values),
              short \in SUBSET {km \in distances : HalfLeft(viewer, km)} :
           LET terms == [c \in eligible |-> Terms(viewer, c, weights, short)]
           IN  \E low \in SUBSET {terms[c] : c \in {d \in eligible : EndsInHalf(terms[d])}} :
               LET score == [c \in eligible |-> Score(terms[c], low)]
               IN  result' = [weights |-> weights, score |-> score, order |-> InOrder(score)]
    /\ UNCHANGED <<viewer, pool, values>>

Next == Rank

Spec == Init /\ [][Next]_discoveryVars

----------------------------------------------------------------------------
(* Properties                                                              *)

Ranked == result # NoResult

\* "Weights normalize to exactly one hundred", and are the caller's in proportion: each is
\* within one of its exact share, and a larger weight never ends up below a smaller one.
WeightsAreShares ==
    LET w == [k \in Dimensions |-> Clamp(values[k], 0, 100)]
    IN  Ranked /\ Total(w) > 0 =>
            /\ Total(result.weights) = 100
            /\ \A k \in Dimensions :
                   /\ result.weights[k] * Total(w) > 100 * w[k] - Total(w)
                   /\ result.weights[k] * Total(w) < 100 * w[k] + Total(w)
            /\ \A j, k \in Dimensions : w[j] > w[k] => result.weights[j] >= result.weights[k]

\* "Mutual-intent eligibility, hard boundaries": nobody is shown to a viewer who would not be
\* shown to them.
EligibilityIsMutual ==
    Ranked => \A c \in pool : c \in DOMAIN result.score <=> Eligible(c, viewer)

\* Of two candidates who differ in distance and alignment alone, the one who is no farther and
\* no less aligned has no lower score, whatever the weights and the rounding.
BetterIsNotBehind ==
    Ranked =>
        \A c, d \in DOMAIN result.score :
            /\ c = [d EXCEPT !.id = c.id, !.distance = c.distance, !.alignment = c.alignment]
            /\ DistanceKm(c) <= DistanceKm(d)
            /\ Clamp(c.alignment, 0, 100) >= Clamp(d.alignment, 0, 100)
            => result.score[c] >= result.score[d]

\* "Hard eligibility first: ... Allowed distance": whoever is beyond the viewer's range is
\* not ranked.
RangeIsHard ==
    Ranked => \A c \in DOMAIN result.score : DistanceKm(c) <= MaxDistanceKm(viewer)

=============================================================================
