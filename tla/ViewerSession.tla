---------------------------- MODULE ViewerSession ----------------------------
(***************************************************************************)
(* What a research session promises its viewer                             *)
(* (src/src/swipe_dating/application/session.py), without stacks, cases,   *)
(* votes or transcripts: which profiles have been decided, who has         *)
(* matched, and who is hidden as a suspected bot.                          *)
(*                                                                         *)
(* Each method is an operator that gives the sessions it may leave behind, *)
(* none when it refuses.  Session implements this module; WebSessions      *)
(* instantiates it once per session it keeps.                              *)
(***************************************************************************)
EXTENDS Integers, FiniteSets

CONSTANTS
    Profiles,        \* ids of the session's profiles
    OtherIds,        \* ids that are no profile
    Reciprocal,      \* profiles with synthetic_reciprocal_like
    ContainedAtOnce, \* profiles whose automated assessment contains them
    Truth            \* the synthetic verdicts: some of the profiles -> BOOLEAN

VARIABLE session

Ids == Profiles \cup OtherIds

NewSession ==
    [adult       |-> FALSE,
     decisions   |-> [c \in {} |-> "pass"],  \* id -> how it was decided
     matched     |-> {},                     \* matches ever made
     active      |-> {},                     \* those that have not ended
     underReview |-> {},                     \* subjects of a case without a verdict
     contained   |-> {}]

DecidedAs(c, kind) ==
    [session EXCEPT !.decisions = [d \in DOMAIN @ \cup {c} |-> IF d = c THEN kind ELSE @[d]]]

\* accept_adult_gate
GateAccepted == {[session EXCEPT !.adult = TRUE]}

\* Fault: a decided profile can be decided again.
MayDecideAgain(c) == session.adult /\ c \notin session.contained

MayDecide(c) == session.adult /\ c \notin session.contained /\ c \notin DOMAIN session.decisions

\* pass_candidate
Passed(c) == IF MayDecide(c) THEN {DecidedAs(c, "pass")} ELSE {}

\* express_interest: no match without the other side's interest.
Interested(c) ==
    IF ~MayDecide(c) \/ c \notin Profiles THEN {}
    ELSE IF c \in Reciprocal
    THEN {[DecidedAs(c, "interest") EXCEPT !.matched = @ \cup {c}, !.active = @ \cup {c}]}
    ELSE {DecidedAs(c, "interest")}

\* undo_last_decision: one decision that made no match.
Undone ==
    {[session EXCEPT !.decisions = [d \in DOMAIN @ \ {c} |-> @[d]]] :
        c \in {d \in DOMAIN session.decisions \ session.matched : session.adult}}

\* unmatch, block
Ended(c) == IF c \in session.active THEN {[session EXCEPT !.active = @ \ {c}]} ELSE {}

\* report_suspected_bot: refused while a case is open, and beyond the report limit.
Reported(c) ==
    IF session.adult /\ c \in Profiles \ session.underReview
    THEN {[session EXCEPT !.underReview = @ \cup {c},
                          !.contained = IF c \in ContainedAtOnce THEN @ \cup {c} ELSE @]}
    ELSE {}

\* vote_on_bot_case: the vote may be the one that contains.
Voted(c) ==
    IF session.adult /\ c \in session.underReview
    THEN {session, [session EXCEPT !.contained = @ \cup {c}]}
    ELSE {}

\* appeal_bot_containment: nothing is lifted by asking.
Appealed(c) ==
    IF session.adult /\ c \in session.underReview \cap session.contained THEN {session} ELSE {}

\* run_synthetic_adjudication: the truth decides, whatever was voted or decided before.
Adjudicated(c) ==
    IF session.adult /\ c \in session.underReview \cap DOMAIN Truth
    THEN {[session EXCEPT !.underReview = @ \ {c},
                          !.contained = IF Truth[c] THEN @ \cup {c} ELSE @ \ {c}]}
    ELSE {}

Init == session = NewSession

Next ==
    \/ session' \in GateAccepted
    \/ session' \in Undone
    \/ \E c \in Ids :
          session' \in UNION {Passed(c), Interested(c), Ended(c), Reported(c), Voted(c),
                              Appealed(c), Adjudicated(c)}

Spec == Init /\ [][Next]_session

============================================================================
