------------------------------ MODULE Session ------------------------------
(***************************************************************************)
(* One research session: src/src/swipe_dating/application/session.py       *)
(*                                                                         *)
(* ResearchSession composes the viewer's conversations with the community  *)
(* moderation of the profiles shown, behind the adults-only gate.  Every   *)
(* method replaces one of the two states by the result of a domain         *)
(* transition, so its action here is that transition under the session's   *)
(* own guards.  The persisted half of the session (profile, haptics,       *)
(* cosmetics) has its own module.                                          *)
(***************************************************************************)
EXTENDS Integers, Sequences, FiniteSets

CONSTANTS
    \* The session's fixtures
    Profiles,        \* ids of self._profiles
    OtherIds,        \* ids a request can name that are not profiles
    Ranking,         \* rank_discovery_candidates: eligible profiles, best first
    Reciprocal,      \* profiles with synthetic_reciprocal_like
    SyntheticBotSignals, \* SYNTHETIC_BOT_SIGNALS: some of the profiles -> Signals
    Truth,           \* SYNTHETIC_BOT_TRUTH: some of the profiles -> BOOLEAN
    Viewer,          \* LOCAL_VIEWER.id
    \* Parameters of the two components
    Members, Account, NoCluster, MaxCases,
    Texts, StarterTags, SuggestionInputs, NoTag, NoCandidate, MaxEvents, MaxMessages

APP_TABS == {"Swipe", "Matches"}

ASSUME FixtureAssumption ==
    /\ Viewer \in Members
    /\ OtherIds \cap Profiles = {}
    /\ Reciprocal \subseteq Profiles
    /\ Ranking \in Seq(Profiles)
    /\ DOMAIN Truth \subseteq Profiles
    /\ \A c \in DOMAIN Truth : Truth[c] \in BOOLEAN
    /\ DOMAIN SyntheticBotSignals \subseteq Profiles

VARIABLES
    adultAccepted,
    activeTab,
    \* self.conversations
    decisions, matches, blockedCandidateIds, nextEventSequence, nextMessageSequence,
    lastRestoredCandidateId,
    \* self.moderation_state
    cases, reputation, reportsInWindow, nextCaseSequence, nextVoteSequence

RiskAction == {"allow", "throttle", "challenge", "temporary_containment", "deny"}

Risk == INSTANCE RiskLadder

Conv == INSTANCE Conversations WITH Candidates <- Profiles \cup OtherIds
Mod == INSTANCE BotModeration WITH AssessedActions <- RiskAction

\* What the components assume of their parameters.
ASSUME ComponentAssumption ==
    /\ MaxEvents \in Nat /\ MaxMessages \in Nat /\ MaxCases \in Nat
    /\ NoCandidate \notin Profiles \cup OtherIds
    /\ Texts \cap Conv!MeetupSuggestions = {}
    /\ \A m \in Members : Mod!IsCommunityMember(m)
    /\ \A c \in DOMAIN SyntheticBotSignals : SyntheticBotSignals[c] \in Risk!Signals

conversationVars == <<decisions, matches, blockedCandidateIds, nextEventSequence,
                      nextMessageSequence, lastRestoredCandidateId>>
moderationVars == <<cases, reputation, reportsInWindow, nextCaseSequence, nextVoteSequence>>
sessionVars == <<adultAccepted, activeTab, conversationVars, moderationVars>>

Init ==
    /\ adultAccepted = FALSE
    /\ activeTab = "Swipe"
    /\ Conv!Init
    /\ Mod!Init

----------------------------------------------------------------------------
(* The discovery queue                                                     *)

Shown(c) == c \notin Conv!SuppressedCandidateIds /\ c \notin Mod!ContainedProfileIds

\* The elements of list that are in set, in the order of list.
Filtered(list, set) ==
    LET kept[i \in 0 .. Len(list)] ==
            IF i = 0 THEN <<>>
            ELSE IF list[i] \in set THEN Append(kept[i - 1], list[i]) ELSE kept[i - 1]
    IN  kept[Len(list)]

\* discovery_queue
DiscoveryQueue == Filtered(Ranking, {c \in Profiles : Shown(c)})

QueuedIds == {DiscoveryQueue[i] : i \in DOMAIN DiscoveryQueue}

----------------------------------------------------------------------------
(* The gate and the tabs                                                   *)

\* accept_adult_gate with an adult's birth date; any other one raises and changes nothing,
\* also when an adult's date has been accepted before.
AcceptAdultGate ==
    /\ adultAccepted' = TRUE
    /\ UNCHANGED <<activeTab, conversationVars, moderationVars>>

\* select_tab
SelectTab(tab) ==
    /\ tab \in APP_TABS
    /\ activeTab' = tab
    /\ UNCHANGED <<adultAccepted, conversationVars, moderationVars>>

----------------------------------------------------------------------------
(* Swiping                                                                 *)

\* _require_adult
RequireAdult == adultAccepted

\* Fault: once appealed or adjudicated, a case no longer keeps its profile from being swiped.
NotUnderContainment(c) ==
    \A n \in DOMAIN cases : cases[n].subject = c => cases[n].status # "temporarily_contained"

\* _require_candidate_not_contained
RequireNotContained(c) == c \notin Mod!ContainedProfileIds

\* pass_candidate does not ask whether the id is a profile.
PassCandidate(c) ==
    /\ RequireAdult
    /\ RequireNotContained(c)
    /\ Conv!RecordPass(c)
    /\ UNCHANGED <<adultAccepted, activeTab, moderationVars>>

\* express_interest: the starter tag is never given.
ExpressInterest(c) ==
    /\ RequireAdult
    /\ RequireNotContained(c)
    /\ c \in Profiles
    /\ Conv!RecordInterest(c, NoTag, c \in Reciprocal)
    /\ activeTab' = IF c \in Reciprocal THEN "Matches" ELSE activeTab
    /\ UNCHANGED <<adultAccepted, moderationVars>>

\* undo_last_decision asks for no gate; a restored candidate brings the Swipe tab back.
UndoLastDecision ==
    /\ Conv!UndoLastDecision
    /\ activeTab' = "Swipe"
    /\ UNCHANGED <<adultAccepted, moderationVars>>

----------------------------------------------------------------------------
(* Conversations                                                           *)

KeepRest == UNCHANGED <<adultAccepted, activeTab, moderationVars>>

SendMessage(c, text) == RequireAdult /\ Conv!SendMessage(c, text) /\ KeepRest

ReceiveSyntheticReply(c, text) == RequireAdult /\ Conv!ReceiveSyntheticReply(c, text) /\ KeepRest

ProposeMeetup(c, suggestion) == RequireAdult /\ Conv!SendMeetupProposal(c, suggestion) /\ KeepRest

\* unmatch and block ask for no gate either.
Unmatch(c) == Conv!UnmatchConversation(c) /\ KeepRest

Block(c) == Conv!BlockConversation(c) /\ KeepRest

----------------------------------------------------------------------------
(* Community moderation                                                    *)

KeepConversations == UNCHANGED <<adultAccepted, activeTab, conversationVars>>

\* What a profile without fixture signals is assessed by.
NoSignals ==
    [adultCredentialValid |-> FALSE, attestation |-> "missing", accountsCreated24h |-> 0,
     presencePublishesMinute |-> 0, discoveryRequestsMinute |-> 0, profileFetchesMinute |-> 0,
     likesMinute |-> 0, bleReplayHits24h |-> 0, impossibleTravel |-> FALSE,
     maliciousLinkHits24h |-> 0, reportBrigadeScore |-> 0, priorEnforcementCount |-> 0]

SignalsOf(c) == IF c \in DOMAIN SyntheticBotSignals THEN SyntheticBotSignals[c] ELSE NoSignals

\* report_suspected_bot: the reporter is always the viewer.
ReportSuspectedBot(c) ==
    /\ RequireAdult
    /\ c \in Profiles
    /\ Mod!FileBotReport(Viewer, c, Risk!AssessRisk(SignalsOf(c)))
    /\ KeepConversations

\* vote_on_bot_case: the request names the reviewer.
VoteOnBotCase(n, reviewer, choice) ==
    RequireAdult /\ Mod!CastBotVote(n, reviewer, choice) /\ KeepConversations

\* appeal_bot_containment reads the subject off the case.
AppealBotContainment(n) ==
    RequireAdult /\ Mod!AppealBotCase(n, cases[n].subject) /\ KeepConversations

\* Fault: the verdict follows what the reviewers thought.
VerdictByVotes(n) == Mod!CommunityContains(cases[n].votes)

Verdict(n) == Truth[cases[n].subject]

\* run_synthetic_adjudication: a profile without a fixture verdict raises.
RunSyntheticAdjudication(n) ==
    /\ RequireAdult
    /\ cases[n].subject \in DOMAIN Truth
    /\ Mod!AdjudicateBotCase(n, Verdict(n))
    /\ KeepConversations

----------------------------------------------------------------------------

Swipes ==
    \/ \E c \in Profiles \cup OtherIds : PassCandidate(c)
    \/ \E c \in Profiles : ExpressInterest(c)
    \/ UndoLastDecision

Talks ==
    \/ \E c \in DOMAIN matches, text \in Texts : SendMessage(c, text)
    \/ \E c \in DOMAIN matches, text \in Texts : ReceiveSyntheticReply(c, text)
    \/ \E c \in DOMAIN matches, suggestion \in SuggestionInputs : ProposeMeetup(c, suggestion)
    \/ \E c \in DOMAIN matches : Unmatch(c)
    \/ \E c \in DOMAIN matches : Block(c)

Moderates ==
    \/ \E c \in Profiles : ReportSuspectedBot(c)
    \/ \E n \in DOMAIN cases, reviewer \in Members, choice \in Mod!VoteChoice :
           VoteOnBotCase(n, reviewer, choice)
    \/ \E n \in DOMAIN cases : AppealBotContainment(n)
    \/ \E n \in DOMAIN cases : RunSyntheticAdjudication(n)

Next ==
    \/ AcceptAdultGate
    \/ \E tab \in APP_TABS : SelectTab(tab)
    \/ Swipes
    \/ Talks
    \/ Moderates

Spec == Init /\ [][Next]_sessionVars

----------------------------------------------------------------------------
(* Properties                                                              *)

TypeOK ==
    /\ adultAccepted \in BOOLEAN
    /\ activeTab \in APP_TABS
    /\ Conv!TypeOK
    /\ Mod!TypeOK

MaySwipe(c) == RequireNotContained(c) /\ Conv!Available(c)

\* The queue and the swipe handlers decide separately who may be swiped: every card the
\* queue shows is one a swipe accepts, and a ranked profile it hides is one a swipe refuses.
QueueIsWhatSwipesAccept ==
    QueuedIds = {c \in {Ranking[i] : i \in DOMAIN Ranking} : MaySwipe(c)}

\* The card an undo brought back is in the queue again, unless its profile was contained
\* in the meantime: undo is no way around a containment.
RestoredCardReturns ==
    lastRestoredCandidateId \in {Ranking[i] : i \in DOMAIN Ranking} =>
        (lastRestoredCandidateId \in QueuedIds <=>
             lastRestoredCandidateId \notin Mod!ContainedProfileIds)

\* "content-blind automated behavior risk as a separate second layer" (README): one kind of
\* behaviour, however extreme, does not hide a profile; without a full quorum of votes it takes
\* two, or an account that is denied outright.
NoSingleSignalHides ==
    \A n \in DOMAIN cases :
        /\ cases[n].contained /\ ~Mod!Adjudicated(cases[n])
        /\ ~Mod!CommunityContains(cases[n].votes)
        => LET signals == SignalsOf(cases[n].subject)
           IN  Risk!Denied(signals) \/ Cardinality(Risk!Reasons(signals)) >= 2

----------------------------------------------------------------------------
(* The abstract session                                                    *)

\* The kind of the decision about c, one by DecidedOnce.
KindOf(c) ==
    LET i == CHOOSE i \in DOMAIN decisions : decisions[i].candidate = c
    IN  decisions[i].kind

Promise == INSTANCE ViewerSession WITH
    ContainedAtOnce <- {c \in Profiles :
                            Mod!AutomaticallyContains(Risk!AssessRisk(SignalsOf(c)))},
    session <- [adult       |-> adultAccepted,
                decisions   |-> [c \in Conv!Decided |-> KindOf(c)],
                matched     |-> DOMAIN matches,
                active      |-> {c \in DOMAIN matches : Conv!IsActive(c)},
                underReview |-> {c \in Profiles : Mod!HasActiveCase(c)},
                contained   |-> Mod!ContainedProfileIds]

\* The session keeps its promise to the viewer: nothing happens before the gate, though undo,
\* unmatch and block do not ask for it; every decision stands until it is undone, and matches
\* for good; nobody is hidden but by a report or a review, and a verdict puts its subject
\* where the truth says, whatever earlier cases, votes and appeals have left behind.
ImplementsPromise == Promise!Spec

============================================================================
