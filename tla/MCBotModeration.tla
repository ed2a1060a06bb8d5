-------------------------- MODULE MCBotModeration --------------------------
(***************************************************************************)
(* Small communities for TLC.  Reviewers' attributes are the fixtures'     *)
(* (src/src/swipe_dating/fixtures.py) plus the corner cases they lack: a   *)
(* second account in one trust cluster and a reviewer one penalty away     *)
(* from losing the right to vote.                                          *)
(***************************************************************************)
EXTENDS BotModeration, TLC

CONSTANTS viewer, ava, noah, sam, twin, p1

Fixture(cluster, first) ==
    [adultEligible |-> TRUE, verified |-> TRUE, goodStanding |-> TRUE,
     accountAgeDays |-> 410, reputation |-> first, reports |-> 0,
     cluster |-> cluster]

Viewer == [Fixture("browser", 100) EXCEPT !.verified = FALSE, !.accountAgeDays = 30]

\* ava and twin share a cluster; noah can afford one wrong vote, sam none.  The viewer and sam
\* are one report away from their limit, the others have reached it.
ReviewTeam ==
    (viewer :> [Viewer EXCEPT !.reports = 4])
    @@ (ava :> [Fixture("ava", 100) EXCEPT !.reports = 5])
    @@ (twin :> [Fixture("ava", 100) EXCEPT !.reports = 5])
    @@ (noah :> [Fixture("noah", 90) EXCEPT !.reports = 5])
    @@ (sam :> [Fixture("sam", 70) EXCEPT !.reports = 4])

============================================================================
