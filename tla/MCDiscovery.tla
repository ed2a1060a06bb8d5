---------------------------- MODULE MCDiscovery ----------------------------
(***************************************************************************)
(* Two viewers and eight candidates for TLC, cut from the fixtures so that *)
(* every exclusion, every component, both ends of every clamp and          *)
(* distances that leave a half occur.                                      *)
(***************************************************************************)
EXTENDS Discovery

Profile(id, intent, openness, boundaries, required, lifestyle, alignment, distance) ==
    [id |-> id, intent |-> intent, openness |-> openness,
     acceptedIntents |-> {"casual", "fwb"}, acceptedOpenness |-> {"open", "possible"},
     boundaries |-> boundaries, required |-> required, lifestyle |-> lifestyle,
     alignment |-> alignment, distance |-> distance, maxDistance |-> 40]

Golden == Profile(0, "casual", "open", {"condoms", "public"}, {"condoms"}, {"music", "hiking"}, 0, 0)

SomeViewers ==
    {Golden, [Golden EXCEPT !.required = {}, !.boundaries = {}, !.lifestyle = {},
                            !.maxDistance = Unusable]}

Close == Profile(1, "fwb", "possible", {"condoms", "public"}, {"condoms"}, {"music"}, 84, 7)

SomeCandidates ==
    {Close,
     [Close EXCEPT !.id = 2, !.alignment = 130, !.distance = -5],
     [Close EXCEPT !.id = 3, !.alignment = Unusable, !.distance = 60],
     [Close EXCEPT !.id = 4, !.required = {}, !.boundaries = {}, !.lifestyle = {}],
     [Close EXCEPT !.id = 5, !.required = {"public", "sober"}],
     [Close EXCEPT !.id = 6, !.acceptedIntents = {"fwb"}],
     [Close EXCEPT !.id = 8, !.alignment = 90, !.distance = 17],
     Profile(7, "casual", "serious", {"condoms"}, {}, {"music", "hiking"}, 50, 40)}

Weights(i, b, l, a, d) ==
    [intent |-> i, boundaries |-> b, lifestyle |-> l, alignment |-> a, distance |-> d]

\* The defaults, nothing usable, the cases of the unit tests, three-way ties, one dimension.
SomeWeights ==
    {DEFAULT_RANKING_WEIGHTS, Weights(-10, 0, 0, 0, Unusable), Weights(9, 3, 2, 5, 1),
     Weights(0, 0, 10, 70, 0), Weights(0, 0, 1, 1, 10), Weights(1, 1, 1, 0, 0),
     Weights(Unusable, 0, 0, 1, 150), Weights(0, 0, 0, 0, 100)}

=============================================================================
