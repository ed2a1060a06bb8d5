--------------------------- MODULE BotModeration ---------------------------
(***************************************************************************)
(* Community bot moderation: src/src/swipe_dating/domain/bot_moderation.py *)
(*                                                                         *)
(* A member reports a profile, which opens a case.  Independent reviewers  *)
(* vote on it; a case may be contained by the automated risk assessment    *)
(* or by a quorum of votes, appealed by its subject, and adjudicated.      *)
(* Each Python transition maps a ModerationState to the next one or raises *)
(* DomainError and leaves the state alone; a raise is a disabled action.   *)
(*                                                                         *)
(* Abstracted: report and vote ids, reasons, timestamps and risk scores,   *)
(* none of which any transition reads.                                     *)
(***************************************************************************)
EXTENDS Integers, Sequences, FiniteSets

CONSTANTS
    Members,          \* ids of the community members the state is created with
    Profiles,         \* non-empty profile ids a report can name (may include members)
    Account,          \* each member as the state is created with it
    NoCluster,        \* the empty trust_cluster_id
    AssessedActions,  \* the risk actions that reports come with
    MaxCases          \* bound: how many cases are ever filed

MIN_REVIEWER_ACCOUNT_AGE_DAYS == 180
MIN_MODERATION_REPUTATION     == 70
MAX_REPORTS_PER_WINDOW        == 5
REVIEW_QUORUM                 == 3
SUSPICIOUS_VOTES_REQUIRED     == 2
WRONG_VOTE_PENALTY            == 20

VoteChoice == {"suspicious", "likely_human"}
RiskAction == {"allow", "throttle", "challenge", "temporary_containment", "deny"}
CaseStatus == {"open", "community_review_complete", "temporarily_contained",
               "appealed_pending_review", "adjudicated_bot", "adjudicated_human"}
AdjudicatedStatus == {"adjudicated_bot", "adjudicated_human"}

BotVote == [reviewer : Members, choice : VoteChoice]

ModerationCase ==
    [reporter       : Members,
     subject        : Profiles,
     riskAction     : RiskAction,
     status         : CaseStatus,
     contained      : BOOLEAN,
     reviewComplete : BOOLEAN,
     votes          : Seq(BotVote)]

\* A CommunityMember.  Transitions assign only its reputation and its report count.
IsCommunityMember(m) ==
    /\ Account[m].adultEligible \in BOOLEAN
    /\ Account[m].verified \in BOOLEAN
    /\ Account[m].goodStanding \in BOOLEAN
    /\ Account[m].accountAgeDays \in Nat
    /\ Account[m].reputation \in Nat
    /\ Account[m].reports \in 0 .. MAX_REPORTS_PER_WINDOW

ASSUME AccountAssumption == \A m \in Members : IsCommunityMember(m)
ASSUME RiskAssumption == AssessedActions \subseteq RiskAction
ASSUME BoundAssumption == MaxCases \in Nat

VARIABLES
    cases,             \* case number -> ModerationCase
    reputation,        \* member -> moderation_reputation
    reportsInWindow,   \* member -> reports_in_window
    nextCaseSequence,
    nextVoteSequence

moderationVars == <<cases, reputation, reportsInWindow, nextCaseSequence, nextVoteSequence>>

Adjudicated(case) == case.status \in AdjudicatedStatus

\* The values of f with k bound to v: a dict copied and then assigned at k.
Put(f, k, v) == [x \in DOMAIN f \cup {k} |-> IF x = k THEN v ELSE f[x]]

Voters(case) == {case.votes[i].reviewer : i \in DOMAIN case.votes}

VoterClusters(case) == {Account[m].cluster : m \in Voters(case)}

CountChoice(votes, choice) == Cardinality({i \in DOMAIN votes : votes[i].choice = choice})

----------------------------------------------------------------------------
(* The initial state: create_moderation_state(members)                     *)

Init ==
    /\ cases = [c \in {} |-> {}]
    /\ reputation = [m \in Members |-> Account[m].reputation]
    /\ reportsInWindow = [m \in Members |-> Account[m].reports]
    /\ nextCaseSequence = 1
    /\ nextVoteSequence = 1

----------------------------------------------------------------------------
(* file_bot_report                                                         *)

\* Fault: a contained or appealed case is not looked at, only an open one.
HasOpenCaseOnly(subject) ==
    \E c \in DOMAIN cases : cases[c].subject = subject /\ cases[c].status = "open"

HasActiveCase(subject) ==
    \E c \in DOMAIN cases : cases[c].subject = subject /\ ~Adjudicated(cases[c])

\* Fault: off by one at the limit.
WithinReportLimitInclusive(reporter) == reportsInWindow[reporter] <= MAX_REPORTS_PER_WINDOW

WithinReportLimit(reporter) == reportsInWindow[reporter] < MAX_REPORTS_PER_WINDOW

MayReport(reporter, subject) ==
    /\ Account[reporter].adultEligible
    /\ Account[reporter].goodStanding
    /\ reporter # subject
    /\ WithinReportLimit(reporter)
    /\ ~HasActiveCase(subject)

AutomaticallyContains(action) == action \in {"temporary_containment", "deny"}

NewCase(reporter, subject, action) ==
    [reporter       |-> reporter,
     subject        |-> subject,
     riskAction     |-> action,
     status         |-> IF AutomaticallyContains(action) THEN "temporarily_contained" ELSE "open",
     contained      |-> AutomaticallyContains(action),
     reviewComplete |-> FALSE,
     votes          |-> <<>>]

\* Fault: cases are numbered by the active ones, so a closed case's id returns.
NumberOfActiveCases == 2 + Cardinality({c \in DOMAIN cases : ~Adjudicated(cases[c])})

NextCaseNumber == nextCaseSequence + 1

FileBotReport(reporter, subject, action) ==
    /\ nextCaseSequence <= MaxCases
    /\ MayReport(reporter, subject)
    /\ cases' = Put(cases, nextCaseSequence, NewCase(reporter, subject, action))
    /\ reportsInWindow' = [reportsInWindow EXCEPT ![reporter] = @ + 1]
    /\ nextCaseSequence' = NextCaseNumber
    /\ UNCHANGED <<reputation, nextVoteSequence>>

----------------------------------------------------------------------------
(* cast_bot_vote                                                           *)

ReviewerIsEligible(m) ==
    /\ Account[m].adultEligible
    /\ Account[m].verified
    /\ Account[m].accountAgeDays >= MIN_REVIEWER_ACCOUNT_AGE_DAYS
    /\ Account[m].goodStanding
    /\ reputation[m] >= MIN_MODERATION_REPUTATION
    /\ Account[m].cluster # NoCluster

IsParty(case, reviewer) == reviewer = case.reporter \/ reviewer = case.subject

HasVoted(case, reviewer) == reviewer \in Voters(case)

\* Fault: only the most recent voter's cluster is compared.
LastClusterHasVoted(case, reviewer) ==
    /\ case.votes # <<>>
    /\ Account[case.votes[Len(case.votes)].reviewer].cluster = Account[reviewer].cluster

ClusterHasVoted(case, reviewer) == Account[reviewer].cluster \in VoterClusters(case)

\* Fault: only a verdict closes the vote.
VotingClosedByVerdict(case) == Adjudicated(case)

VotingClosed(case) == case.reviewComplete \/ Adjudicated(case)

MayVote(case, reviewer) ==
    /\ ReviewerIsEligible(reviewer)
    /\ ~IsParty(case, reviewer)
    /\ ~HasVoted(case, reviewer)
    /\ ~ClusterHasVoted(case, reviewer)
    /\ ~VotingClosed(case)

\* Fault: the suspicious votes are counted without waiting for the quorum.
ContainsBeforeQuorum(votes) == CountChoice(votes, "suspicious") >= SUSPICIOUS_VOTES_REQUIRED

CommunityContains(votes) ==
    /\ Len(votes) >= REVIEW_QUORUM
    /\ CountChoice(votes, "suspicious") >= SUSPICIOUS_VOTES_REQUIRED

\* The case after one more vote: its status follows from the other fields.
VotedCase(case, vote) ==
    LET votes     == Append(case.votes, vote)
        complete  == Len(votes) >= REVIEW_QUORUM
        contained == case.contained \/ CommunityContains(votes)
        status    == IF contained THEN "temporarily_contained"
                     ELSE IF complete THEN "community_review_complete"
                     ELSE case.status
    IN  [case EXCEPT !.votes = votes, !.status = status,
                     !.contained = contained, !.reviewComplete = complete]

CastBotVote(c, reviewer, choice) ==
    /\ MayVote(cases[c], reviewer)
    /\ cases' = [cases EXCEPT ![c] = VotedCase(@, [reviewer |-> reviewer, choice |-> choice])]
    /\ nextVoteSequence' = nextVoteSequence + 1
    /\ UNCHANGED <<reputation, reportsInWindow, nextCaseSequence>>

----------------------------------------------------------------------------
(* appeal_bot_case                                                         *)

\* Fault: the appeal leaves the vote open.
AppealedKeepsVoting(case) == [case EXCEPT !.status = "appealed_pending_review"]

\* Fault: the appeal starts the review afresh.
AppealedReopened(case) ==
    [case EXCEPT !.status = "appealed_pending_review", !.votes = <<>>,
                 !.reviewComplete = FALSE]

\* Fault: the appeal releases the profile at once.
AppealedReleased(case) ==
    [case EXCEPT !.status = "appealed_pending_review", !.contained = FALSE,
                 !.reviewComplete = TRUE]

AppealedCase(case) ==
    [case EXCEPT !.status = "appealed_pending_review", !.reviewComplete = TRUE]

\* An appeal of an appealed case is accepted and changes nothing more.
AppealBotCase(c, subject) ==
    /\ cases[c].subject = subject
    /\ cases[c].contained
    /\ ~Adjudicated(cases[c])
    /\ cases' = [cases EXCEPT ![c] = AppealedCase(@)]
    /\ UNCHANGED <<reputation, reportsInWindow, nextCaseSequence, nextVoteSequence>>

----------------------------------------------------------------------------
(* adjudicate_bot_case                                                     *)

ExpectedChoice(confirmedBot) == IF confirmedBot THEN "suspicious" ELSE "likely_human"

ReadyForAdjudication(case) == ~Adjudicated(case) /\ (case.reviewComplete \/ case.contained)

\* Fault: every vote of an adjudicated case is charged.
AllVotes(votes, m, confirmedBot) == {i \in DOMAIN votes : votes[i].reviewer = m}

WrongVotes(votes, m, confirmedBot) ==
    {i \in DOMAIN votes : votes[i].reviewer = m /\ votes[i].choice # ExpectedChoice(confirmedBot)}

\* max(0, r - WRONG_VOTE_PENALTY) once for each of n wrong votes.
Penalised(r, n) == IF r > n * WRONG_VOTE_PENALTY THEN r - n * WRONG_VOTE_PENALTY ELSE 0

AdjudicatedCase(case, confirmedBot) ==
    [case EXCEPT !.status = IF confirmedBot THEN "adjudicated_bot" ELSE "adjudicated_human",
                 !.contained = confirmedBot,
                 !.reviewComplete = TRUE]

AdjudicateBotCase(c, confirmedBot) ==
    /\ ReadyForAdjudication(cases[c])
    /\ reputation' = [m \in Members |->
           Penalised(reputation[m], Cardinality(WrongVotes(cases[c].votes, m, confirmedBot)))]
    /\ cases' = [cases EXCEPT ![c] = AdjudicatedCase(@, confirmedBot)]
    /\ UNCHANGED <<reportsInWindow, nextCaseSequence, nextVoteSequence>>

----------------------------------------------------------------------------
(* The queries the session and the pages are built from                    *)

ContainedProfileIds == {cases[c].subject : c \in {d \in DOMAIN cases : cases[d].contained}}

\* Fault: the list offered to the page ignores the trust clusters already used.
EligibleIgnoringClusters(c) ==
    IF cases[c].reviewComplete
    THEN {}
    ELSE {m \in Members : /\ ReviewerIsEligible(m)
                          /\ m \notin {cases[c].reporter, cases[c].subject} \cup Voters(cases[c])}

EligibleReviewerIds(c) ==
    IF cases[c].reviewComplete
    THEN {}
    ELSE {m \in Members : /\ ReviewerIsEligible(m)
                          /\ m \notin {cases[c].reporter, cases[c].subject} \cup Voters(cases[c])
                          /\ Account[m].cluster \notin VoterClusters(cases[c])}

----------------------------------------------------------------------------

Next ==
    \/ \E reporter \in Members, subject \in Profiles, action \in AssessedActions :
           FileBotReport(reporter, subject, action)
    \/ \E c \in DOMAIN cases, reviewer \in Members, choice \in VoteChoice :
           CastBotVote(c, reviewer, choice)
    \/ \E c \in DOMAIN cases, subject \in Profiles : AppealBotCase(c, subject)
    \/ \E c \in DOMAIN cases, confirmedBot \in BOOLEAN : AdjudicateBotCase(c, confirmedBot)

Spec == Init /\ [][Next]_moderationVars

----------------------------------------------------------------------------
(* Properties                                                              *)

CaseIds == 1 .. (nextCaseSequence - 1)

\* Every field has the values the dataclasses declare, and the cases are exactly
\* the numbers handed out so far: no case id is ever used twice.
TypeOK ==
    /\ nextCaseSequence \in 1 .. (MaxCases + 1)
    /\ nextVoteSequence \in Nat \ {0}
    /\ cases \in [CaseIds -> ModerationCase]
    /\ reputation \in [Members -> Nat]
    /\ reportsInWindow \in [Members -> Nat]

\* file_bot_report's "active_bot_case_exists": however reports, appeals and verdicts
\* interleave, a profile is never under two unadjudicated cases.
OneActiveCasePerProfile ==
    \A c, d \in DOMAIN cases :
        /\ ~Adjudicated(cases[c]) /\ ~Adjudicated(cases[d])
        /\ cases[c].subject = cases[d].subject
        => c = d

IndependentVotes(case) ==
    /\ Len(case.votes) <= REVIEW_QUORUM
    /\ \A i, j \in DOMAIN case.votes :
           Account[case.votes[i].reviewer].cluster = Account[case.votes[j].reviewer].cluster => i = j
    /\ case.reporter \notin Voters(case)
    /\ case.subject \notin Voters(case)

\* "three independent trust clusters" (README): a case never holds more than a quorum of
\* votes, no two of them from one reviewer or one cluster, and none from its parties.
IndependentReview == \A c \in DOMAIN cases : IndependentVotes(cases[c])

JustifiedContainment(case) ==
    case.contained /\ ~Adjudicated(case) =>
        \/ AutomaticallyContains(case.riskAction)
        \/ /\ Len(case.votes) = REVIEW_QUORUM
           /\ \E i, j \in DOMAIN case.votes :
                  /\ Account[case.votes[i].reviewer].cluster # Account[case.votes[j].reviewer].cluster
                  /\ case.votes[i].choice = "suspicious"
                  /\ case.votes[j].choice = "suspicious"

\* "one malicious voter cannot bury a profile" (PRODUCT_SCOPE): a containment that no verdict
\* has settled rests on the automated assessment, or on a full quorum in which reviewers of
\* two different trust clusters voted suspicious.
ContainmentJustified == \A c \in DOMAIN cases : JustifiedContainment(cases[c])

StatusIsSummary(case) ==
    LET full == Len(case.votes) = REVIEW_QUORUM
    IN  /\ case.status = "open" =>
               ~case.contained /\ ~case.reviewComplete /\ ~full
        /\ case.status = "community_review_complete" =>
               ~case.contained /\ case.reviewComplete /\ full
        /\ case.status = "temporarily_contained" =>
               case.contained /\ (case.reviewComplete <=> full)
        /\ case.status \in {"appealed_pending_review", "adjudicated_bot"} =>
               case.contained /\ case.reviewComplete
        /\ case.status = "adjudicated_human" =>
               ~case.contained /\ case.reviewComplete

\* The status shown to a page is a summary of contained and review_complete, which the four
\* transitions assign separately: they never disagree, and an unadjudicated case whose
\* review is over has its quorum or an appeal.
StatusSummarisesCase == \A c \in DOMAIN cases : StatusIsSummary(cases[c])

VotedWrong(case, m) ==
    \E i \in DOMAIN case.votes :
        /\ case.votes[i].reviewer = m
        /\ case.votes[i].choice # ExpectedChoice(case.status = "adjudicated_bot")

MisjudgedCases(m) == {c \in DOMAIN cases : Adjudicated(cases[c]) /\ VotedWrong(cases[c], m)}

\* Moderation reputation is its first value less one penalty for each adjudicated case the
\* member misjudged, floored at zero: no verdict is charged twice and none is missed,
\* however many cases the member has votes in when the verdicts come.
ReputationAccounting ==
    \A m \in Members :
        reputation[m] = Penalised(Account[m].reputation, Cardinality(MisjudgedCases(m)))

CasesReportedBy(m) == {c \in DOMAIN cases : cases[c].reporter = m}

\* reports_in_window counts every case the member has opened, whatever became of it, and
\* stops at five (no transition opens a new window).
ReportAccounting ==
    \A m \in Members :
        /\ reportsInWindow[m] = Account[m].reports + Cardinality(CasesReportedBy(m))
        /\ reportsInWindow[m] <= MAX_REPORTS_PER_WINDOW

\* eligible_reviewer_ids and cast_bot_vote write the same rule twice: the reviewers the page
\* offers for a case are exactly those whose vote would be accepted.
EligibleReviewersExact ==
    \A c \in DOMAIN cases : EligibleReviewerIds(c) = {m \in Members : MayVote(cases[c], m)}

\* A profile leaves the contained set only by a verdict that it is human: neither a vote,
\* nor an appeal, nor another report about it brings it back to discovery.
ContainmentLiftedOnlyByVerdict ==
    [][\A p \in ContainedProfileIds \ ContainedProfileIds' :
          \E c \in DOMAIN cases : /\ cases[c].subject = p
                                  /\ ~Adjudicated(cases[c])
                                  /\ cases'[c].status = "adjudicated_human"]_moderationVars

\* What a verdict is based on cannot change under it: a case is never dropped or given
\* another subject, votes are only added, none after the review is over, and a verdict
\* is final.
ReviewRecordFrozen ==
    [][\A c \in DOMAIN cases :
          /\ c \in DOMAIN cases'
          /\ cases'[c].subject = cases[c].subject
          /\ Len(cases'[c].votes) >= Len(cases[c].votes)
          /\ SubSeq(cases'[c].votes, 1, Len(cases[c].votes)) = cases[c].votes
          /\ cases[c].reviewComplete => cases'[c].votes = cases[c].votes
          /\ Adjudicated(cases[c]) => cases'[c] = cases[c]]_moderationVars

\* Nothing restores a reviewer: the pool that can still complete an open case's quorum only
\* shrinks, so an open case left with too few reviewers stays open for good and, by
\* OneActiveCasePerProfile, its subject can never be reported again.
ReviewerPoolOnlyShrinks ==
    [][\A c \in DOMAIN cases : EligibleReviewerIds(c)' \subseteq EligibleReviewerIds(c)]_moderationVars

\* PRODUCT_SCOPE.md, definition of done: "Wrongful-vote penalties require a demonstrated
\* pattern".  Nobody loses moderation reputation over a single misjudged case.
PenaltyNeedsPattern ==
    \A m \in Members :
        reputation[m] < Account[m].reputation => Cardinality(MisjudgedCases(m)) >= 2

============================================================================
