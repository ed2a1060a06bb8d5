--------------------------- MODULE SessionProofs ---------------------------
(***************************************************************************)
(* Proofs about Session, for any fixtures, members and bounds.             *)
(*                                                                         *)
(* A session is its two components under guards of its own, so what is     *)
(* proved of the components holds of it; with that, it implements the      *)
(* abstract session of ViewerSession.                                      *)
(***************************************************************************)
EXTENDS Session, FiniteSetTheorems, WellFoundedInduction, TLAPS

ConvP == INSTANCE ConversationsProofs WITH Candidates <- Profiles \cup OtherIds
ModP == INSTANCE BotModerationProofs WITH AssessedActions <- RiskAction

----------------------------------------------------------------------------
(* The components are those that have been proved about                    *)

LEMMA SameConversations ==
    /\ Conv!Init => ConvP!Init
    /\ Conv!Next => ConvP!Next
    /\ Conv!conversationVars = ConvP!conversationVars
<1>1. Conv!Init => ConvP!Init
    BY DEF Conv!Init, ConvP!Init
<1>2. ASSUME Conv!Next PROVE ConvP!Next
    <2>1. \A c : Conv!RecordPass(c) <=> ConvP!RecordPass(c)
        BY DEF Conv!RecordPass, ConvP!RecordPass, Conv!Record, ConvP!Record,
               Conv!Available, ConvP!Available,
               Conv!SuppressedCandidateIds, ConvP!SuppressedCandidateIds,
               Conv!Decided, ConvP!Decided, Conv!NewDecision, ConvP!NewDecision,
               Conv!RestoredAfterDecision, ConvP!RestoredAfterDecision
    <2>2. \A c, tag, reciprocal : Conv!RecordInterest(c, tag, reciprocal)
                                     <=> ConvP!RecordInterest(c, tag, reciprocal)
        BY DEF Conv!RecordInterest, ConvP!RecordInterest, Conv!Record, ConvP!Record,
               Conv!Available, ConvP!Available,
               Conv!SuppressedCandidateIds, ConvP!SuppressedCandidateIds,
               Conv!Decided, ConvP!Decided, Conv!NewDecision, ConvP!NewDecision,
               Conv!RestoredAfterDecision, ConvP!RestoredAfterDecision,
               Conv!WithMatch, ConvP!WithMatch, Conv!NewMatch, ConvP!NewMatch
    <2>3. Conv!UndoLastDecision <=> ConvP!UndoLastDecision
        BY DEF Conv!UndoLastDecision, ConvP!UndoLastDecision, Conv!CanUndo, ConvP!CanUndo,
               Conv!LastDecision, ConvP!LastDecision, Conv!RestoredBy, ConvP!RestoredBy
    <2>4. \A c, sender, body : Conv!AddMessage(c, sender, body)
                                  <=> ConvP!AddMessage(c, sender, body)
        BY DEF Conv!AddMessage, ConvP!AddMessage,
               Conv!RequireActiveMatch, ConvP!RequireActiveMatch, Conv!IsActive, ConvP!IsActive,
               Conv!MessageNumber, ConvP!MessageNumber
    <2>5. \A c, suggestion : Conv!SendMeetupProposal(c, suggestion)
                                <=> ConvP!SendMeetupProposal(c, suggestion)
        BY <2>4
        DEF Conv!SendMeetupProposal, ConvP!SendMeetupProposal,
            Conv!RequireActiveMatch, ConvP!RequireActiveMatch, Conv!IsActive, ConvP!IsActive,
            Conv!TwoWay, ConvP!TwoWay, Conv!Sender, ConvP!Sender, Conv!Senders, ConvP!Senders,
            Conv!MeetupSuggestions, ConvP!MeetupSuggestions
    <2>6. \A c : Conv!UnmatchConversation(c) <=> ConvP!UnmatchConversation(c)
        BY DEF Conv!UnmatchConversation, ConvP!UnmatchConversation,
               Conv!IsActive, ConvP!IsActive
    <2>7. \A c : Conv!BlockConversation(c) <=> ConvP!BlockConversation(c)
        BY DEF Conv!BlockConversation, ConvP!BlockConversation, Conv!Purged, ConvP!Purged
    <2>8. QED
        BY <1>2, <2>1, <2>2, <2>3, <2>4, <2>5, <2>6, <2>7
        DEF Conv!Next, ConvP!Next, Conv!SendMessage, ConvP!SendMessage,
            Conv!ReceiveSyntheticReply, ConvP!ReceiveSyntheticReply
<1>3. Conv!conversationVars = ConvP!conversationVars
    BY DEF Conv!conversationVars, ConvP!conversationVars
<1>4. QED
    BY <1>1, <1>2, <1>3

LEMMA SameModeration ==
    /\ Mod!Init => ModP!Init
    /\ Mod!Next => ModP!Next
    /\ Mod!moderationVars = ModP!moderationVars
<1>1. Mod!Init => ModP!Init
    BY DEF Mod!Init, ModP!Init
<1>2. ASSUME Mod!Next PROVE ModP!Next
    <2>1. \A case : Mod!Adjudicated(case) <=> ModP!Adjudicated(case)
        BY DEF Mod!Adjudicated, ModP!Adjudicated, Mod!AdjudicatedStatus, ModP!AdjudicatedStatus
    <2>2. \A reporter, subject, action : Mod!FileBotReport(reporter, subject, action)
                                            <=> ModP!FileBotReport(reporter, subject, action)
        BY <2>1
        DEF Mod!FileBotReport, ModP!FileBotReport, Mod!MayReport, ModP!MayReport,
            Mod!WithinReportLimit, ModP!WithinReportLimit,
            Mod!MAX_REPORTS_PER_WINDOW, ModP!MAX_REPORTS_PER_WINDOW,
            Mod!HasActiveCase, ModP!HasActiveCase, Mod!Put, ModP!Put, Mod!NewCase, ModP!NewCase,
            Mod!AutomaticallyContains, ModP!AutomaticallyContains,
            Mod!NextCaseNumber, ModP!NextCaseNumber
    <2>3. \A case, reviewer : Mod!MayVote(case, reviewer) <=> ModP!MayVote(case, reviewer)
        BY <2>1
        DEF Mod!MayVote, ModP!MayVote, Mod!ReviewerIsEligible, ModP!ReviewerIsEligible,
            Mod!MIN_REVIEWER_ACCOUNT_AGE_DAYS, ModP!MIN_REVIEWER_ACCOUNT_AGE_DAYS,
            Mod!MIN_MODERATION_REPUTATION, ModP!MIN_MODERATION_REPUTATION,
            Mod!IsParty, ModP!IsParty, Mod!HasVoted, ModP!HasVoted, Mod!Voters, ModP!Voters,
            Mod!ClusterHasVoted, ModP!ClusterHasVoted, Mod!VoterClusters, ModP!VoterClusters,
            Mod!VotingClosed, ModP!VotingClosed
    <2>4. \A case, vote : Mod!VotedCase(case, vote) = ModP!VotedCase(case, vote)
        BY DEF Mod!VotedCase, ModP!VotedCase, Mod!CommunityContains, ModP!CommunityContains,
               Mod!CountChoice, ModP!CountChoice, Mod!Cardinality, ModP!Cardinality,
               Mod!REVIEW_QUORUM, ModP!REVIEW_QUORUM,
               Mod!SUSPICIOUS_VOTES_REQUIRED, ModP!SUSPICIOUS_VOTES_REQUIRED
    <2>5. \A c, reviewer, choice : Mod!CastBotVote(c, reviewer, choice)
                                      <=> ModP!CastBotVote(c, reviewer, choice)
        BY <2>3, <2>4
        DEF Mod!CastBotVote, ModP!CastBotVote
    <2>6. \A c, subject : Mod!AppealBotCase(c, subject) <=> ModP!AppealBotCase(c, subject)
        BY <2>1
        DEF Mod!AppealBotCase, ModP!AppealBotCase, Mod!AppealedCase, ModP!AppealedCase
    <2>7. \A c, confirmedBot : Mod!AdjudicateBotCase(c, confirmedBot)
                                  <=> ModP!AdjudicateBotCase(c, confirmedBot)
        BY <2>1
        DEF Mod!AdjudicateBotCase, ModP!AdjudicateBotCase,
            Mod!ReadyForAdjudication, ModP!ReadyForAdjudication, Mod!Penalised, ModP!Penalised,
            Mod!WRONG_VOTE_PENALTY, ModP!WRONG_VOTE_PENALTY, Mod!WrongVotes, ModP!WrongVotes,
            Mod!ExpectedChoice, ModP!ExpectedChoice, Mod!Cardinality, ModP!Cardinality,
            Mod!AdjudicatedCase, ModP!AdjudicatedCase
    <2>8. QED
        BY <1>2, <2>2, <2>5, <2>6, <2>7
        DEF Mod!Next, ModP!Next, Mod!VoteChoice, ModP!VoteChoice
<1>3. Mod!moderationVars = ModP!moderationVars
    BY DEF Mod!moderationVars, ModP!moderationVars
<1>4. QED
    BY <1>1, <1>2, <1>3

----------------------------------------------------------------------------
(* A session is its two components                                         *)

\* The automated layer answers with one of its five actions.
LEMMA AssessedAction == \A s : Risk!AssessRisk(s) \in RiskAction
BY DEF Risk!AssessRisk, RiskAction

LEMMA SessionSteps ==
    ASSUME Mod!TypeOK, [Next]_sessionVars
    PROVE  /\ [Conv!Next]_conversationVars
           /\ [Mod!Next]_moderationVars
<1>1. CASE UNCHANGED sessionVars
    BY <1>1 DEF sessionVars
<1>2. ASSUME AcceptAdultGate \/ \E tab \in APP_TABS : SelectTab(tab)
      PROVE  UNCHANGED <<conversationVars, moderationVars>>
    BY <1>2 DEF AcceptAdultGate, SelectTab
<1>3. ASSUME Swipes
      PROVE  Conv!Next /\ UNCHANGED moderationVars
    <2>1. \A c \in Profiles : (c \in Reciprocal) \in BOOLEAN /\ NoTag \in StarterTags \cup {NoTag}
        OBVIOUS
    <2>2. QED
        BY <1>3, <2>1 DEF Swipes, PassCandidate, ExpressInterest, UndoLastDecision, Conv!Next
<1>4. ASSUME Talks
      PROVE  Conv!Next /\ UNCHANGED moderationVars
    BY <1>4 DEF Talks, SendMessage, ReceiveSyntheticReply, ProposeMeetup, Unmatch, Block, KeepRest,
                Conv!Next
<1>5. ASSUME Moderates
      PROVE  Mod!Next /\ UNCHANGED conversationVars
    <2>1. CASE \E c \in Profiles : ReportSuspectedBot(c)
        BY <2>1, FixtureAssumption, AssessedAction
        DEF ReportSuspectedBot, KeepConversations, Mod!Next
    <2>2. CASE \E n \in DOMAIN cases, reviewer \in Members, choice \in Mod!VoteChoice :
                   VoteOnBotCase(n, reviewer, choice)
        BY <2>2 DEF VoteOnBotCase, KeepConversations, Mod!Next
    <2>3. CASE \E n \in DOMAIN cases : AppealBotContainment(n)
        BY <2>3 DEF AppealBotContainment, KeepConversations, Mod!Next, Mod!TypeOK,
                    Mod!ModerationCase
    <2>4. CASE \E n \in DOMAIN cases : RunSyntheticAdjudication(n)
        BY <2>4, FixtureAssumption
        DEF RunSyntheticAdjudication, Verdict, KeepConversations, Mod!Next
    <2>5. QED
        BY <1>5, <2>1, <2>2, <2>3, <2>4 DEF Moderates
<1>6. QED
    BY <1>1, <1>2, <1>3, <1>4, <1>5 DEF Next

----------------------------------------------------------------------------
(* The invariant                                                           *)

\* Cases are assessed by the signals of their subjects and settled by the truth about them.
AssessedAndSettled ==
    \A n \in DOMAIN cases :
        /\ cases[n].riskAction = Risk!AssessRisk(SignalsOf(cases[n].subject))
        /\ Mod!Adjudicated(cases[n]) =>
               /\ cases[n].subject \in DOMAIN Truth
               /\ cases[n].contained = Truth[cases[n].subject]

\* Undo, unmatch and block, which do not ask for the gate, find nothing before it.
NothingBeforeTheGate == ~adultAccepted => decisions = <<>> /\ DOMAIN matches = {}

IInv ==
    /\ adultAccepted \in BOOLEAN
    /\ activeTab \in APP_TABS
    /\ ConvP!IInv
    /\ ModP!IInv
    /\ AssessedAndSettled
    /\ NothingBeforeTheGate

\* What is proved of the components, in the terms of the session.
LEMMA ConversationFacts ==
    ASSUME ConvP!IInv
    PROVE  Conv!TypeOK /\ Conv!DecidedOnce /\ Conv!MatchesHaveConsent
BY DEF ConvP!IInv, ConvP!TypeOK, Conv!TypeOK, ConvP!DecidedOnce, Conv!DecidedOnce,
       ConvP!MatchesHaveConsent, Conv!MatchesHaveConsent, ConvP!Decision, Conv!Decision,
       ConvP!DecisionKind, Conv!DecisionKind, ConvP!ConversationMatch, Conv!ConversationMatch,
       ConvP!MatchStatus, Conv!MatchStatus, ConvP!Message, Conv!Message, ConvP!Sender, Conv!Sender,
       ConvP!MeetupSuggestions, Conv!MeetupSuggestions

LEMMA ModerationFacts ==
    ASSUME ModP!IInv
    PROVE  /\ Mod!TypeOK /\ Mod!OneActiveCasePerProfile
           /\ \A n \in DOMAIN cases :
                  cases[n].contained /\ ~Mod!Adjudicated(cases[n]) =>
                      \/ Mod!AutomaticallyContains(cases[n].riskAction)
                      \/ Mod!CommunityContains(cases[n].votes)
<1>1. Mod!TypeOK
    BY DEF ModP!IInv, ModP!TypeOK, Mod!TypeOK, ModP!CaseIds, Mod!CaseIds,
           ModP!ModerationCase, Mod!ModerationCase, ModP!RiskAction, Mod!RiskAction,
           ModP!CaseStatus, Mod!CaseStatus, ModP!BotVote, Mod!BotVote,
           ModP!VoteChoice, Mod!VoteChoice
<1>2. \A case : ModP!Adjudicated(case) <=> Mod!Adjudicated(case)
    BY DEF ModP!Adjudicated, Mod!Adjudicated, ModP!AdjudicatedStatus, Mod!AdjudicatedStatus
<1>3. Mod!OneActiveCasePerProfile
    BY <1>2 DEF ModP!IInv, ModP!OneActiveCasePerProfile, Mod!OneActiveCasePerProfile
<1>4. \A n \in DOMAIN cases : ModP!BackedContainment(cases[n])
    BY DEF ModP!IInv, ModP!CasesInv, ModP!CaseInv
<1>5. \A votes : ModP!CommunityContains(votes) <=> Mod!CommunityContains(votes)
    BY DEF ModP!CommunityContains, Mod!CommunityContains, ModP!REVIEW_QUORUM, Mod!REVIEW_QUORUM,
           ModP!CountChoice, Mod!CountChoice, ModP!Cardinality, Mod!Cardinality,
           ModP!SUSPICIOUS_VOTES_REQUIRED, Mod!SUSPICIOUS_VOTES_REQUIRED
<1>6. QED
    BY <1>1, <1>2, <1>3, <1>4, <1>5
    DEF ModP!BackedContainment, ModP!AutomaticallyContains, Mod!AutomaticallyContains

LEMMA InitIInv == Init => IInv
<1> SUFFICES ASSUME Init PROVE IInv
    OBVIOUS
<1>1. ConvP!IInv
    <2>1. Conv!Init
        BY DEF Init
    <2>2. QED
        BY <2>1, SameConversations, ConvP!InitIInv, ComponentAssumption
        DEF Conv!MeetupSuggestions, ConvP!MeetupSuggestions
<1>2. ModP!IInv
    <2>1. Mod!Init
        BY DEF Init
    <2>2. \A m \in Members : ModP!IsCommunityMember(m)
        BY ComponentAssumption
        DEF Mod!IsCommunityMember, ModP!IsCommunityMember, Mod!MAX_REPORTS_PER_WINDOW,
            ModP!MAX_REPORTS_PER_WINDOW
    <2>3. QED
        BY <2>1, <2>2, SameModeration, ModP!InitIInv, ComponentAssumption
        DEF ModP!RiskAction, RiskAction
<1>3. DOMAIN cases = {} /\ decisions = <<>> /\ DOMAIN matches = {}
    BY DEF Init, Conv!Init, Mod!Init
<1>4. QED
    BY <1>1, <1>2, <1>3 DEF Init, IInv, AssessedAndSettled, NothingBeforeTheGate, APP_TABS

LEMMA ComponentsKeepInv ==
    ASSUME ConvP!IInv, ModP!IInv, [Next]_sessionVars
    PROVE  ConvP!IInv' /\ ModP!IInv'
<1>1. [Conv!Next]_conversationVars /\ [Mod!Next]_moderationVars
    BY ModerationFacts, SessionSteps
<1>2. [ConvP!Next]_(ConvP!conversationVars)
    BY <1>1, SameConversations DEF conversationVars, ConvP!conversationVars
<1>3. [ModP!Next]_(ModP!moderationVars)
    BY <1>1, SameModeration DEF moderationVars, ModP!moderationVars
<1>4. ConvP!IInv'
    BY <1>2, ConvP!NextIInv, ComponentAssumption
    DEF Conv!MeetupSuggestions, ConvP!MeetupSuggestions
<1>5. \A m \in Members : ModP!IsCommunityMember(m)
    BY ComponentAssumption
    DEF Mod!IsCommunityMember, ModP!IsCommunityMember, Mod!MAX_REPORTS_PER_WINDOW,
        ModP!MAX_REPORTS_PER_WINDOW
<1>6. ModP!IInv'
    BY <1>3, <1>5, ModP!StepIInv, ComponentAssumption DEF ModP!RiskAction, RiskAction
<1>7. QED
    BY <1>4, <1>6

LEMMA CasesStayAssessedAndSettled ==
    ASSUME Mod!TypeOK, AssessedAndSettled, [Next]_sessionVars
    PROVE  AssessedAndSettled'
<1> DEFINE Sound(case) == /\ case.riskAction = Risk!AssessRisk(SignalsOf(case.subject))
                          /\ Mod!Adjudicated(case) => /\ case.subject \in DOMAIN Truth
                                                      /\ case.contained = Truth[case.subject]
<1>0. \A n \in DOMAIN cases : Sound(cases[n]) /\ cases[n] \in Mod!ModerationCase
    BY DEF AssessedAndSettled, Mod!TypeOK
<1>1. SUFFICES \A n \in DOMAIN cases' : Sound(cases'[n])
    BY DEF AssessedAndSettled
<1>2. ASSUME NEW c \in Profiles, ReportSuspectedBot(c)
      PROVE  \A n \in DOMAIN cases' : Sound(cases'[n])
    <2> DEFINE new == Mod!NewCase(Viewer, c, Risk!AssessRisk(SignalsOf(c)))
    <2>1. /\ new.riskAction = Risk!AssessRisk(SignalsOf(new.subject))
          /\ ~Mod!Adjudicated(new)
        BY DEF Mod!NewCase, Mod!Adjudicated, Mod!AdjudicatedStatus
    <2>2. cases' = Mod!Put(cases, nextCaseSequence, new)
        BY <1>2 DEF ReportSuspectedBot, Mod!FileBotReport
    <2>3. \A n \in DOMAIN cases' : cases'[n] = new \/ (n \in DOMAIN cases /\ cases'[n] = cases[n])
        BY <2>2 DEF Mod!Put
    <2>4. Sound(new)
        BY <2>1
    <2>5. QED
        BY <1>0, <2>3, <2>4
<1>3. ASSUME NEW n \in DOMAIN cases, NEW reviewer \in Members, NEW choice \in Mod!VoteChoice,
             VoteOnBotCase(n, reviewer, choice)
      PROVE  \A m \in DOMAIN cases' : Sound(cases'[m])
    <2> DEFINE new == Mod!VotedCase(cases[n], [reviewer |-> reviewer, choice |-> choice])
    <2>1. ~Mod!Adjudicated(cases[n])
        BY <1>3 DEF VoteOnBotCase, Mod!CastBotVote, Mod!MayVote, Mod!VotingClosed
    <2>2. /\ new.riskAction = cases[n].riskAction /\ new.subject = cases[n].subject
          /\ new.status \in {"temporarily_contained", "community_review_complete", cases[n].status}
        BY <1>0 DEF Mod!VotedCase, Mod!ModerationCase
    <2>3. Sound(new)
        BY <1>0, <2>1, <2>2 DEF Mod!Adjudicated, Mod!AdjudicatedStatus
    <2>4. cases' = [cases EXCEPT ![n] = new]
        BY <1>3 DEF VoteOnBotCase, Mod!CastBotVote
    <2>5. QED
        BY <1>0, <2>3, <2>4
<1>4. ASSUME NEW n \in DOMAIN cases, AppealBotContainment(n)
      PROVE  \A m \in DOMAIN cases' : Sound(cases'[m])
    <2> DEFINE new == Mod!AppealedCase(cases[n])
    <2>1. /\ new.riskAction = cases[n].riskAction /\ new.subject = cases[n].subject
          /\ new.status = "appealed_pending_review"
        BY <1>0 DEF Mod!AppealedCase, Mod!ModerationCase
    <2>2. Sound(new)
        BY <1>0, <2>1 DEF Mod!Adjudicated, Mod!AdjudicatedStatus
    <2>3. cases' = [cases EXCEPT ![n] = new]
        BY <1>4 DEF AppealBotContainment, Mod!AppealBotCase
    <2>4. QED
        BY <1>0, <2>2, <2>3
<1>5. ASSUME NEW n \in DOMAIN cases, RunSyntheticAdjudication(n)
      PROVE  \A m \in DOMAIN cases' : Sound(cases'[m])
    <2> DEFINE new == Mod!AdjudicatedCase(cases[n], Truth[cases[n].subject])
    <2>1. cases[n].subject \in DOMAIN Truth
        BY <1>5 DEF RunSyntheticAdjudication
    <2>2. /\ new.riskAction = cases[n].riskAction /\ new.subject = cases[n].subject
          /\ new.contained = Truth[cases[n].subject]
        BY <1>0 DEF Mod!AdjudicatedCase, Mod!ModerationCase
    <2>3. Sound(new)
        BY <1>0, <2>1, <2>2
    <2>4. cases' = [cases EXCEPT ![n] = new]
        BY <1>5 DEF RunSyntheticAdjudication, Mod!AdjudicateBotCase, Verdict
    <2>5. QED
        BY <1>0, <2>3, <2>4
<1>6. CASE UNCHANGED cases
    BY <1>0, <1>6
<1>7. QED
    BY <1>2, <1>3, <1>4, <1>5, <1>6
    DEF Next, AcceptAdultGate, SelectTab, Swipes, PassCandidate, ExpressInterest,
        UndoLastDecision, Talks, SendMessage, ReceiveSyntheticReply, ProposeMeetup, Unmatch, Block,
        KeepRest, Moderates, sessionVars, moderationVars

LEMMA GateIsKept ==
    ASSUME Conv!TypeOK, adultAccepted \in BOOLEAN, activeTab \in APP_TABS, NothingBeforeTheGate,
           [Next]_sessionVars
    PROVE  adultAccepted' \in BOOLEAN /\ activeTab' \in APP_TABS /\ NothingBeforeTheGate'
<1> USE DEF NothingBeforeTheGate, APP_TABS
<1>1. CASE AcceptAdultGate
    BY <1>1 DEF AcceptAdultGate
<1>2. CASE \E tab \in APP_TABS : SelectTab(tab)
    BY <1>2 DEF SelectTab, conversationVars
<1>3. CASE Swipes
    <2>1. CASE \E c \in Profiles \cup OtherIds : PassCandidate(c)
        BY <2>1 DEF PassCandidate, RequireAdult
    <2>2. CASE \E c \in Profiles : ExpressInterest(c)
        BY <2>2 DEF ExpressInterest, RequireAdult
    <2>3. CASE UndoLastDecision
        BY <2>3 DEF UndoLastDecision, Conv!UndoLastDecision, Conv!CanUndo
    <2>4. QED
        BY <1>3, <2>1, <2>2, <2>3 DEF Swipes
<1>4. CASE Talks
    BY <1>4 DEF Talks, SendMessage, ReceiveSyntheticReply, ProposeMeetup, RequireAdult, Unmatch,
                Block, KeepRest
<1>5. CASE Moderates
    BY <1>5 DEF Moderates, ReportSuspectedBot, VoteOnBotCase, AppealBotContainment,
                RunSyntheticAdjudication, KeepConversations, conversationVars
<1>6. CASE UNCHANGED sessionVars
    BY <1>6 DEF sessionVars, conversationVars
<1>7. QED
    BY <1>1, <1>2, <1>3, <1>4, <1>5, <1>6 DEF Next

LEMMA StepIInv == IInv /\ [Next]_sessionVars => IInv'
BY ComponentsKeepInv, ConversationFacts, ModerationFacts, CasesStayAssessedAndSettled, GateIsKept
DEF IInv

LEMMA Invariance == Spec => []IInv
BY InitIInv, StepIInv, PTL DEF Spec

----------------------------------------------------------------------------
(* Properties of the session's states                                      *)

\* Gate and tab keep their types, and so do both components, whatever the session's own guards
\* let through: the session only takes steps that its components allow.
THEOREM TypeCorrect == Spec => []TypeOK
<1>1. IInv => TypeOK
    BY ConversationFacts, ModerationFacts DEF IInv, TypeOK
<1>2. QED
    BY <1>1, Invariance, PTL

----------------------------------------------------------------------------
(* The queue                                                               *)

\* A nonempty set of natural numbers has a least element.
LEMMA Least ==
    ASSUME NEW S \in SUBSET Nat, S # {}
    PROVE  \E m \in S : \A k \in S : m <= k
<1> DEFINE R == OpToRel(<, Nat)
<1>1. \E m \in S : \A k \in S : <<k, m>> \notin R
    <2>1. IsWellFoundedOn(R, Nat)
        BY NatLessThanWellFounded
    <2> HIDE DEF R
    <2>2. QED
        BY <2>1, WFMin
<1>2. \A k, m \in Nat : <<k, m>> \notin R => m <= k
    BY DEF OpToRel
<1>3. QED
    BY <1>1, <1>2

\* Induction up to n, over a set for want of an operator: what holds at the start and carries over.
LEMMA InductionUpTo ==
    ASSUME NEW n \in Nat, NEW good, 0 \in good,
           \A m \in 0 .. n : m > 0 /\ m - 1 \in good => m \in good
    PROVE  \A m \in 0 .. n : m \in good
<1> DEFINE bad == {m \in 0 .. n : m \notin good}
<1>1. SUFFICES ASSUME bad # {} PROVE FALSE
    OBVIOUS
<1>2. bad \in SUBSET Nat
    OBVIOUS
<1>3. PICK m \in bad : \A k \in bad : m <= k
    BY <1>1, <1>2, Least
<1>4. m > 0 /\ m \in 0 .. n
    OBVIOUS
<1>5. m - 1 \in 0 .. n /\ ~(m <= m - 1)
    BY <1>4
<1>6. m - 1 \in good
    BY <1>3, <1>5
<1>7. QED
    BY <1>4, <1>6

\* The function in the definition exists, and each of its values comes from the one before.
LEMMA FilteredSteps ==
    ASSUME NEW U, NEW list \in Seq(U), NEW set
    PROVE  \E kept :
               /\ Filtered(list, set) = kept[Len(list)]
               /\ \A i \in 0 .. Len(list) :
                      kept[i] = IF i = 0 THEN <<>>
                                ELSE IF list[i] \in set THEN Append(kept[i - 1], list[i])
                                ELSE kept[i - 1]
<1> DEFINE n == Len(list)
           Step(f, i) == IF i = 0 THEN <<>>
                         ELSE IF list[i] \in set THEN Append(f[i - 1], list[i]) ELSE f[i - 1]
           Upto(f, m) == f = [i \in 0 .. m |-> Step(f, i)]
           kept == CHOOSE f : Upto(f, n)
<1>1. n \in Nat /\ DOMAIN list = 1 .. n /\ \A i \in 1 .. n : list[i] \in U
    OBVIOUS
<1>2. Filtered(list, set) = kept[n]
    BY DEF Filtered
<1>3. Upto(kept, n)
    <2> DEFINE defined == {m \in 0 .. n : \E f : Upto(f, m)}
    <2>1. 0 \in defined
        <3>1. Upto([i \in 0 .. 0 |-> <<>>], 0)
            OBVIOUS
        <3> HIDE DEF Upto
        <3>2. QED
            BY <1>1, <3>1
    <2>2. ASSUME NEW m \in 0 .. n, m > 0, m - 1 \in defined
          PROVE  m \in defined
        <3>1. PICK f : Upto(f, m - 1)
            BY <2>2
        <3> DEFINE g == [i \in 0 .. m |-> IF i = m THEN Step(f, m) ELSE f[i]]
        <3>2. \A i \in 0 .. m : g[i] = Step(g, i)
            <4> SUFFICES ASSUME NEW i \in 0 .. m PROVE g[i] = Step(g, i)
                OBVIOUS
            <4>1. CASE i = m
                <5>1. m - 1 \in 0 .. m /\ m - 1 # m /\ m # 0
                    BY <1>1, <2>2
                <5>2. g[m - 1] = f[m - 1]
                    BY <5>1
                <5>3. QED
                    BY <4>1, <5>1, <5>2
            <4>2. CASE i # m
                <5>1. i \in 0 .. m - 1 /\ (i # 0 => i - 1 \in 0 .. m /\ i - 1 # m)
                    BY <1>1, <4>2
                <5>2. g[i] = f[i] /\ (i # 0 => g[i - 1] = f[i - 1])
                    BY <4>2, <5>1
                <5>3. f[i] = Step(f, i)
                    BY <3>1, <5>1
                <5>4. QED
                    BY <5>2, <5>3
            <4>3. QED
                BY <4>1, <4>2
        <3>3. Upto(g, m)
            <4>1. g = [i \in 0 .. m |-> g[i]]
                OBVIOUS
            <4> HIDE DEF g, Step
            <4>2. QED
                BY <3>2, <4>1
        <3> HIDE DEF Upto
        <3>4. QED
            BY <3>3
    <2> HIDE DEF defined, Upto
    <2>3. \A m \in 0 .. n : m > 0 /\ m - 1 \in defined => m \in defined
        BY <2>2
    <2> HIDE DEF n
    <2>4. n \in defined
        BY <1>1, <2>1, <2>3, InductionUpTo
    <2>5. QED
        BY <2>4 DEF defined, kept
<1>4. \A i \in 0 .. n : kept[i] = Step(kept, i)
    BY <1>3
<1>5. QED
    BY <1>2, <1>4

\* What a filtered list holds, and that it is a list of the same kind.
LEMMA FilteredMembers ==
    ASSUME NEW U, NEW list \in Seq(U), NEW set
    PROVE  /\ Filtered(list, set) \in Seq(U)
           /\ \A x : (\E i \in DOMAIN Filtered(list, set) : Filtered(list, set)[i] = x)
                         <=> x \in set /\ \E i \in DOMAIN list : list[i] = x
<1> DEFINE n == Len(list)
<1>1. n \in Nat /\ DOMAIN list = 1 .. n /\ \A i \in 1 .. n : list[i] \in U
    OBVIOUS
<1>2. PICK kept :
          /\ Filtered(list, set) = kept[n]
          /\ \A i \in 0 .. n :
                 kept[i] = IF i = 0 THEN <<>>
                           ELSE IF list[i] \in set THEN Append(kept[i - 1], list[i])
                           ELSE kept[i - 1]
    BY FilteredSteps
<1> DEFINE Keeps(m) == /\ kept[m] \in Seq(U)
                       /\ \A x : (\E i \in DOMAIN kept[m] : kept[m][i] = x)
                                     <=> x \in set /\ \E i \in 1 .. m : list[i] = x
           good == {m \in 0 .. n : Keeps(m)}
<1>3. ASSUME NEW m \in 0 .. n, m > 0
      PROVE  /\ list[m] \in U /\ m - 1 \in 0 .. n
             /\ kept[m] = IF list[m] \in set THEN Append(kept[m - 1], list[m]) ELSE kept[m - 1]
    BY <1>1, <1>2, <1>3
<1> HIDE DEF n
<1>4. 0 \in good
    <2>1. kept[0] = <<>>
        BY <1>1, <1>2
    <2>2. <<>> \in Seq(U) /\ DOMAIN <<>> = {} /\ 1 .. 0 = {}
        OBVIOUS
    <2>3. kept[0] \in Seq(U) /\ DOMAIN kept[0] = {}
        BY <2>1, <2>2, Zenon
    <2>4. \A x : (\E i \in DOMAIN kept[0] : kept[0][i] = x)
                     <=> x \in set /\ \E i \in 1 .. 0 : list[i] = x
        <3> SUFFICES ASSUME NEW x
                     PROVE  ~(\E i \in DOMAIN kept[0] : kept[0][i] = x)
                            /\ ~(\E i \in 1 .. 0 : list[i] = x)
            BY Zenon
        <3>1. QED
            BY <2>2, <2>3, Zenon
    <2>5. 0 \in 0 .. n
        BY <1>1
    <2>6. QED
        BY <2>3, <2>4, <2>5, Zenon DEF good
<1>5. ASSUME NEW m \in 0 .. n, m > 0, m - 1 \in good
      PROVE  m \in good
    <2> DEFINE before == kept[m - 1]
    <2>1. /\ before \in Seq(U)
          /\ \A x : (\E i \in DOMAIN before : before[i] = x)
                        <=> x \in set /\ \E i \in 1 .. m - 1 : list[i] = x
        BY <1>5
    <2>2. \A i : i \in 1 .. m <=> i \in 1 .. m - 1 \/ i = m
        BY <1>1, <1>5
    <2>3. CASE list[m] \notin set
        <3>1. kept[m] = before
            BY <1>3, <1>5, <2>3
        <3>2. QED
            BY <2>1, <2>2, <2>3, <3>1
    <2>4. CASE list[m] \in set
        <3>1. kept[m] = Append(before, list[m]) /\ list[m] \in U
            BY <1>3, <1>5, <2>4
        <3> HIDE DEF before
        <3>2. /\ kept[m] \in Seq(U)
              /\ DOMAIN kept[m] = 1 .. Len(before) + 1 /\ Len(before) \in Nat
              /\ DOMAIN before = 1 .. Len(before)
              /\ kept[m][Len(before) + 1] = list[m]
              /\ \A i \in 1 .. Len(before) : kept[m][i] = before[i]
            BY <2>1, <3>1
        <3>3. \A i : i \in DOMAIN kept[m] <=> i \in DOMAIN before \/ i = Len(before) + 1
            BY <3>2
        <3>4. \A x : (\E i \in DOMAIN kept[m] : kept[m][i] = x)
                         <=> (\E i \in DOMAIN before : before[i] = x) \/ x = list[m]
            BY <3>2, <3>3
        <3>5. QED
            BY <2>1, <2>2, <2>4, <3>2, <3>4
    <2>5. QED
        BY <2>3, <2>4
<1>6. n \in good
    <2> HIDE DEF good
    <2>1. \A m \in 0 .. n : m > 0 /\ m - 1 \in good => m \in good
        BY <1>5
    <2>2. QED
        BY <1>1, <1>4, <2>1, InductionUpTo
<1>7. QED
    BY <1>1, <1>2, <1>6

\* A filtered list begins with the first element that passes, and keeps the order of all.
LEMMA FilteredOrder ==
    ASSUME NEW U, NEW list \in Seq(U), NEW set
    PROVE  /\ Filtered(list, set) # <<>> =>
                  \E k \in DOMAIN list : /\ Filtered(list, set)[1] = list[k] /\ list[k] \in set
                                         /\ \A j \in 1 .. k - 1 : list[j] \notin set
           /\ \A a, b \in DOMAIN Filtered(list, set) : a < b =>
                  \E k, l \in DOMAIN list :
                      k < l /\ Filtered(list, set)[a] = list[k] /\ Filtered(list, set)[b] = list[l]
<1> DEFINE n == Len(list)
<1>1. n \in Nat /\ DOMAIN list = 1 .. n /\ \A i \in 1 .. n : list[i] \in U
    OBVIOUS
<1>2. PICK kept :
          /\ Filtered(list, set) = kept[n]
          /\ \A i \in 0 .. n :
                 kept[i] = IF i = 0 THEN <<>>
                           ELSE IF list[i] \in set THEN Append(kept[i - 1], list[i])
                           ELSE kept[i - 1]
    BY FilteredSteps
<1> HIDE DEF n
<1> DEFINE First(m) == /\ kept[m] = <<>> => \A j \in 1 .. m : list[j] \notin set
                       /\ kept[m] # <<>> =>
                              \E k \in 1 .. m : /\ kept[m][1] = list[k] /\ list[k] \in set
                                                /\ \A j \in 1 .. k - 1 : list[j] \notin set
           Listed(m) == \A a \in DOMAIN kept[m] : \E k \in 1 .. m : kept[m][a] = list[k]
           Ordered(m) == \A a, b \in DOMAIN kept[m] : a < b =>
                             \E k, l \in 1 .. m :
                                 k < l /\ kept[m][a] = list[k] /\ kept[m][b] = list[l]
           good == {m \in 0 .. n : kept[m] \in Seq(U) /\ First(m) /\ Listed(m) /\ Ordered(m)}
<1>3. 0 \in good
    <2>1. kept[0] = <<>>
        BY <1>1, <1>2
    <2>2. <<>> \in Seq(U) /\ DOMAIN <<>> = {} /\ 1 .. 0 = {}
        OBVIOUS
    <2>3. kept[0] \in Seq(U) /\ DOMAIN kept[0] = {}
        BY <2>1, <2>2, Zenon
    <2>4. First(0)
        <3>1. \A j \in 1 .. 0 : list[j] \notin set
            BY <2>2, Zenon
        <3>2. QED
            BY <2>1, <3>1, Zenon
    <2>5. Listed(0) /\ Ordered(0)
        BY <2>3, Zenon
    <2>6. 0 \in 0 .. n
        BY <1>1
    <2> HIDE DEF First, Listed, Ordered
    <2>7. QED
        BY <2>3, <2>4, <2>5, <2>6
<1>4. ASSUME NEW m \in 0 .. n, m > 0, m - 1 \in good
      PROVE  m \in good
    <2> DEFINE before == kept[m - 1]
    <2>1. before \in Seq(U) /\ First(m - 1) /\ Listed(m - 1) /\ Ordered(m - 1)
        BY <1>4
    <2>2. /\ \A i : i \in 1 .. m <=> i \in 1 .. m - 1 \/ i = m
          /\ \A i \in 1 .. m - 1 : i < m
          /\ list[m] \in U /\ m \in Nat
        BY <1>1, <1>4
    <2>3. kept[m] = IF list[m] \in set THEN Append(before, list[m]) ELSE before
        BY <1>1, <1>2, <1>4
    <2>4. CASE list[m] \notin set
        <3>1. kept[m] = before
            BY <2>3, <2>4
        <3> HIDE DEF good
        <3>2. First(m)
            BY <2>1, <2>2, <2>4, <3>1
        <3>3. Listed(m) /\ Ordered(m)
            BY <2>1, <2>2, <3>1
        <3>4. QED
            BY <1>4, <2>1, <3>1, <3>2, <3>3 DEF good
    <2>5. CASE list[m] \in set
        <3> HIDE DEF good
        <3>1. kept[m] = Append(before, list[m])
            BY <2>3, <2>5
        <3> DEFINE len == Len(before)
        <3>2. /\ kept[m] \in Seq(U) /\ kept[m] # <<>> /\ len \in Nat
              /\ DOMAIN kept[m] = 1 .. len + 1 /\ DOMAIN before = 1 .. len
              /\ kept[m][len + 1] = list[m]
              /\ \A i \in 1 .. len : kept[m][i] = before[i]
              /\ before = <<>> => len = 0
              /\ before # <<>> => 1 \in 1 .. len
            <4> HIDE DEF before
            <4>1. QED
                BY <2>1, <2>2, <3>1
        <3> HIDE DEF len
        <3>3. \A i : i \in DOMAIN kept[m] <=> i \in DOMAIN before \/ i = len + 1
            BY <3>2
        <3>4. First(m)
            <4>1. CASE before = <<>>
                <5>1. kept[m][1] = list[m] /\ \A j \in 1 .. m - 1 : list[j] \notin set
                    BY <2>1, <3>2, <4>1
                <5>2. QED
                    BY <2>2, <2>5, <3>2, <5>1
            <4>2. CASE before # <<>>
                <5>1. kept[m][1] = before[1]
                    BY <3>2, <4>2
                <5>2. PICK k \in 1 .. m - 1 : /\ before[1] = list[k] /\ list[k] \in set
                                              /\ \A j \in 1 .. k - 1 : list[j] \notin set
                    BY <2>1, <4>2
                <5>3. QED
                    BY <2>2, <3>2, <5>1, <5>2
            <4>3. QED
                BY <4>1, <4>2
        <3>5. Listed(m)
            <4> SUFFICES ASSUME NEW a \in DOMAIN kept[m]
                         PROVE  \E k \in 1 .. m : kept[m][a] = list[k]
                OBVIOUS
            <4>1. CASE a = len + 1
                BY <2>2, <3>2, <4>1
            <4>2. CASE a \in DOMAIN before
                <5>1. kept[m][a] = before[a]
                    BY <3>2, <4>2
                <5>2. \E k \in 1 .. m - 1 : before[a] = list[k]
                    BY <2>1, <4>2
                <5>3. QED
                    BY <2>2, <5>1, <5>2
            <4>3. QED
                BY <3>3, <4>1, <4>2
        <3>6. Ordered(m)
            <4> SUFFICES ASSUME NEW a \in DOMAIN kept[m], NEW b \in DOMAIN kept[m], a < b
                         PROVE  \E k, l \in 1 .. m :
                                    k < l /\ kept[m][a] = list[k] /\ kept[m][b] = list[l]
                OBVIOUS
            <4>1. a \in DOMAIN before /\ kept[m][a] = before[a]
                BY <3>2
            <4>2. CASE b = len + 1
                <5>1. PICK k \in 1 .. m - 1 : before[a] = list[k]
                    BY <2>1, <4>1
                <5>2. QED
                    BY <2>2, <3>2, <4>1, <4>2, <5>1
            <4>3. CASE b \in DOMAIN before
                <5>1. kept[m][b] = before[b]
                    BY <3>2, <4>3
                <5>2. PICK k \in 1 .. m - 1, l \in 1 .. m - 1 :
                          k < l /\ before[a] = list[k] /\ before[b] = list[l]
                    BY <2>1, <4>1, <4>3
                <5>3. QED
                    BY <2>2, <4>1, <5>1, <5>2
            <4>4. QED
                BY <3>3, <4>2, <4>3
        <3>7. QED
            BY <1>4, <3>2, <3>4, <3>5, <3>6 DEF good
    <2>6. QED
        BY <2>4, <2>5
<1>5. n \in good
    <2> HIDE DEF good
    <2>1. \A m \in 0 .. n : m > 0 /\ m - 1 \in good => m \in good
        BY <1>4
    <2>2. QED
        BY <1>1, <1>3, <2>1, InductionUpTo
<1>6. First(n) /\ Ordered(n)
    BY <1>5
<1>7. Filtered(list, set) = kept[n] /\ DOMAIN list = 1 .. n
    BY <1>1, <1>2 DEF n
<1> HIDE DEF good
<1>8. /\ kept[n] # <<>> =>
             \E k \in 1 .. n : /\ kept[n][1] = list[k] /\ list[k] \in set
                               /\ \A j \in 1 .. k - 1 : list[j] \notin set
      /\ \A a, b \in DOMAIN kept[n] : a < b =>
             \E k, l \in 1 .. n : k < l /\ kept[n][a] = list[k] /\ kept[n][b] = list[l]
    BY <1>6
<1> HIDE DEF First, Listed, Ordered
<1>9. QED
    BY <1>7, <1>8

\* A card is shown exactly if a swipe accepts it.
LEMMA ShownIsAccepted == \A c : Shown(c) <=> MaySwipe(c)
BY DEF Shown, MaySwipe, RequireNotContained, Conv!Available, Conv!SuppressedCandidateIds

LEMMA Queued == QueuedIds = {c \in {Ranking[i] : i \in DOMAIN Ranking} : Shown(c)}
<1> DEFINE set == {c \in Profiles : Shown(c)}
           ranked == {Ranking[i] : i \in DOMAIN Ranking}
<1>1. Ranking \in Seq(Profiles) /\ \A i \in DOMAIN Ranking : Ranking[i] \in Profiles
    BY FixtureAssumption
<1>2. DiscoveryQueue = Filtered(Ranking, set)
    BY DEF DiscoveryQueue
<1>3. \A c : c \in set <=> c \in Profiles /\ Shown(c)
    OBVIOUS
<1> HIDE DEF set
<1>4. \A c : (\E i \in DOMAIN DiscoveryQueue : DiscoveryQueue[i] = c)
                 <=> c \in set /\ \E i \in DOMAIN Ranking : Ranking[i] = c
    BY <1>1, <1>2, FilteredMembers
<1>5. \A c : c \in QueuedIds <=> \E i \in DOMAIN DiscoveryQueue : DiscoveryQueue[i] = c
    BY DEF QueuedIds
<1>6. \A c : c \in ranked <=> \E i \in DOMAIN Ranking : Ranking[i] = c
    OBVIOUS
<1>7. \A c : c \in QueuedIds <=> c \in ranked /\ Shown(c)
    BY <1>1, <1>3, <1>4, <1>5, <1>6
<1>8. QED
    BY <1>7

\* discovery_queue and the guards of the swipe handlers, written separately, agree: every card
\* shown is one that a swipe accepts, and a ranked profile that is hidden one that a swipe
\* refuses, for any ranking and in any state.
THEOREM QueueAndSwipesAgree == Spec => []QueueIsWhatSwipesAccept
<1>1. QueueIsWhatSwipesAccept
    BY Queued, ShownIsAccepted DEF QueueIsWhatSwipesAccept
<1>2. QED
    BY <1>1, PTL

\* current_candidate: the card on top is the first in the ranking whose swipe is accepted, and
\* the others follow in the order of the ranking, whatever was decided, blocked or contained.
THEOREM QueueFollowsRanking ==
    /\ DiscoveryQueue # <<>> =>
           \E k \in DOMAIN Ranking :
               /\ DiscoveryQueue[1] = Ranking[k] /\ MaySwipe(Ranking[k])
               /\ \A j \in 1 .. k - 1 : ~MaySwipe(Ranking[j])
    /\ \A a, b \in DOMAIN DiscoveryQueue : a < b =>
           \E k, l \in DOMAIN Ranking :
               k < l /\ DiscoveryQueue[a] = Ranking[k] /\ DiscoveryQueue[b] = Ranking[l]
<1> DEFINE set == {c \in Profiles : Shown(c)}
<1>1. Ranking \in Seq(Profiles)
    BY FixtureAssumption
<1>2. DiscoveryQueue = Filtered(Ranking, set)
    BY DEF DiscoveryQueue
<1>3. \A j \in DOMAIN Ranking : Ranking[j] \in set <=> MaySwipe(Ranking[j])
    BY <1>1, ShownIsAccepted
<1>4. \A k \in DOMAIN Ranking : \A j \in 1 .. k - 1 : j \in DOMAIN Ranking
    BY <1>1
<1> HIDE DEF set
<1>5. QED
    BY <1>1, <1>2, <1>3, <1>4, FilteredOrder

\* A restored card is of a candidate that no conversation state suppresses.
RestoredIsFree ==
    lastRestoredCandidateId = NoCandidate
        \/ lastRestoredCandidateId \notin Conv!SuppressedCandidateIds

\* Undo takes the only decision about its candidate off the stack; one with a match stays.
LEMMA UndoneIsFree ==
    ASSUME ConvP!IInv, Conv!UndoLastDecision
    PROVE  RestoredIsFree'
<1> DEFINE n == Len(decisions)
           c == decisions[n].candidate
<1>1. /\ Conv!TypeOK /\ Conv!DecidedOnce /\ Conv!MatchesHaveConsent
      /\ blockedCandidateIds \subseteq DOMAIN matches
    BY ConversationFacts DEF ConvP!IInv
<1>2. /\ decisions # <<>> /\ ~decisions[n].createsMatch
      /\ decisions' = SubSeq(decisions, 1, n - 1)
      /\ lastRestoredCandidateId' = c
      /\ matches' = matches /\ blockedCandidateIds' = blockedCandidateIds
    BY DEF Conv!UndoLastDecision, Conv!CanUndo, Conv!LastDecision, Conv!RestoredBy
<1>3. /\ decisions \in Seq(Conv!Decision) /\ n \in Nat /\ n \in DOMAIN decisions
      /\ DOMAIN decisions = 1 .. n
    BY <1>1, <1>2 DEF Conv!TypeOK
<1>4. \A i \in DOMAIN decisions : decisions[i].candidate = c => i = n
    BY <1>1, <1>3 DEF Conv!DecidedOnce
<1>5. c \notin DOMAIN matches
    BY <1>1, <1>2, <1>3, <1>4 DEF Conv!MatchesHaveConsent
<1>6. \A i \in DOMAIN decisions' : i \in DOMAIN decisions /\ i # n /\ decisions'[i] = decisions[i]
    BY <1>2, <1>3
<1>7. \A i \in DOMAIN decisions' : decisions'[i].candidate # c
    BY <1>4, <1>6
<1>8. QED
    BY <1>1, <1>2, <1>5, <1>7 DEF RestoredIsFree, Conv!SuppressedCandidateIds, Conv!Decided

LEMMA RestoredStaysFree ==
    ASSUME IInv, RestoredIsFree, [Next]_sessionVars
    PROVE  RestoredIsFree'
<1> DEFINE keeps == /\ decisions' = decisions /\ DOMAIN matches' = DOMAIN matches
                    /\ blockedCandidateIds' \subseteq blockedCandidateIds \cup DOMAIN matches
                    /\ lastRestoredCandidateId' = lastRestoredCandidateId
<1>1. CASE keeps
    BY <1>1 DEF RestoredIsFree, Conv!SuppressedCandidateIds, Conv!Decided
<1>2. CASE Swipes
    <2>1. CASE (\E c \in Profiles \cup OtherIds : PassCandidate(c))
                   \/ \E c \in Profiles : ExpressInterest(c)
        BY <2>1 DEF PassCandidate, ExpressInterest, Conv!RecordPass, Conv!RecordInterest,
                    Conv!Record, Conv!RestoredAfterDecision, RestoredIsFree
    <2>2. CASE UndoLastDecision
        BY <2>2, UndoneIsFree DEF UndoLastDecision, IInv
    <2>3. QED
        BY <1>2, <2>1, <2>2 DEF Swipes
<1>3. CASE Talks
    <2>1. Conv!TypeOK
        BY ConversationFacts DEF IInv
    <2>2. ASSUME NEW c \in DOMAIN matches, NEW sender, NEW body, Conv!AddMessage(c, sender, body)
          PROVE  keeps
        BY <2>1, <2>2 DEF Conv!AddMessage, Conv!TypeOK
    <2>3. ASSUME NEW c \in DOMAIN matches,
                 Conv!UnmatchConversation(c) \/ Conv!BlockConversation(c)
          PROVE  keeps
        BY <2>1, <2>3 DEF Conv!UnmatchConversation, Conv!BlockConversation, Conv!TypeOK
    <2>4. keeps
        BY <1>3, <2>2, <2>3
        DEF Talks, SendMessage, ReceiveSyntheticReply, ProposeMeetup, Unmatch, Block,
            Conv!SendMessage, Conv!ReceiveSyntheticReply, Conv!SendMeetupProposal
    <2>5. QED
        BY <1>1, <2>4
<1>4. CASE UNCHANGED conversationVars
    BY <1>1, <1>4 DEF conversationVars
<1>5. QED
    BY <1>2, <1>3, <1>4
    DEF Next, AcceptAdultGate, SelectTab, Moderates, ReportSuspectedBot, VoteOnBotCase,
        AppealBotContainment, RunSyntheticAdjudication, KeepConversations, sessionVars

\* The card that undo_last_decision brings back is in the queue again and stays there until the
\* next swipe, unless its profile is contained: what else the viewer does in between, ending
\* and blocking conversations included, does not lose it.
THEOREM UndoBringsBack == Spec => []RestoredCardReturns
<1>1. Init => RestoredIsFree
    BY DEF Init, Conv!Init, RestoredIsFree
<1>2. Spec => []RestoredIsFree
    BY <1>1, Invariance, RestoredStaysFree, PTL DEF Spec
<1>3. RestoredIsFree => RestoredCardReturns
    <2>1. \A i \in DOMAIN Ranking : Ranking[i] # NoCandidate
        BY FixtureAssumption, ComponentAssumption
    <2>2. QED
        BY <2>1, Queued DEF RestoredIsFree, RestoredCardReturns, Shown
<1>4. QED
    BY <1>2, <1>3, PTL

----------------------------------------------------------------------------
(* What the automated layer can do alone                                   *)

Reason ==
    {"lower_trust_device", "mass_registration", "presence_flood", "discovery_scraping",
     "profile_scraping", "automated_liking", "ble_replay", "impossible_travel", "malicious_links",
     "report_brigading", "prior_enforcement"}

\* What a single reason adds is far from the 80 points of a containment.
LEMMA PointsAreCapped ==
    ASSUME NEW s \in Risk!Signals, ~Risk!Denied(s)
    PROVE  /\ DOMAIN Risk!Points(s) = Reason
           /\ \A r \in Reason : Risk!Points(s)[r] \in 0 .. 48
<1>1. s.attestation \in DOMAIN Risk!AttestationPenalty
    BY DEF Risk!Signals, Risk!Attestation, Risk!Denied, Risk!AttestationPenalty
<1>2. Risk!AttestationPenalty[s.attestation] \in 0 .. 30
    BY <1>1 DEF Risk!AttestationPenalty
<1>3. Risk!AccountPoints(s.accountsCreated24h) \in 0 .. 48
    BY DEF Risk!Signals, Risk!AccountPoints, Risk!LesserOf
<1>4. /\ Risk!LesserOf(40, s.bleReplayHits24h * 10) \in 0 .. 40
      /\ Risk!LesserOf(40, s.maliciousLinkHits24h * 20) \in 0 .. 40
      /\ Risk!LesserOf(30, s.priorEnforcementCount * 10) \in 0 .. 30
    BY DEF Risk!Signals, Risk!LesserOf
<1>5. \A condition, points : Risk!PointsIf(condition, points) \in {0, points}
    BY DEF Risk!PointsIf
<1>6. QED
    BY <1>2, <1>3, <1>4, <1>5 DEF Risk!Points, Reason

\* Eleven numbers of at most 48 that add up to 80 have two that count.
LEMMA TwoReasons ==
    ASSUME NEW s \in Risk!Signals, ~Risk!Denied(s), Risk!Score(s) >= 80
    PROVE  \E q, r \in Risk!Reasons(s) : q # r
<1> DEFINE P == Risk!Points(s)
<1>1. DOMAIN P = Reason /\ \A r \in Reason : P[r] \in 0 .. 48
    BY PointsAreCapped
<1> DEFINE total == P.lower_trust_device + P.mass_registration + P.presence_flood
                    + P.discovery_scraping + P.profile_scraping + P.automated_liking
                    + P.ble_replay + P.impossible_travel + P.malicious_links
                    + P.report_brigading + P.prior_enforcement
<1>2. total >= 80
    <2>1. Risk!Score(s) = Risk!LesserOf(100, total)
        BY DEF Risk!Score
    <2> HIDE DEF P
    <2>2. \A r \in Reason : P[r] \in Nat
        BY <1>1
    <2>3. total \in Nat
        BY <2>2 DEF Reason
    <2>4. QED
        BY <2>1, <2>3 DEF Risk!LesserOf
<1> HIDE DEF P
<1>3. \E q, r \in Reason : q # r /\ P[q] > 0 /\ P[r] > 0
    BY <1>1, <1>2 DEF Reason
<1>4. QED
    BY <1>1, <1>3 DEF Risk!Reasons, P

LEMMA ReasonsFinite == IsFiniteSet(Reason)
<1>1. \A S, T : IsFiniteSet(S) /\ IsFiniteSet(T) => IsFiniteSet(S \cup T)
    BY FS_Union
<1>2. ASSUME NEW a, NEW b, NEW c, NEW d PROVE IsFiniteSet({a, b, c, d})
    <2>1. IsFiniteSet({a} \cup {b}) /\ IsFiniteSet({c} \cup {d})
        BY <1>1, FS_Singleton
    <2>2. {a, b, c, d} = ({a} \cup {b}) \cup ({c} \cup {d})
        OBVIOUS
    <2>3. QED
        BY <1>1, <2>1, <2>2
<1>3. Reason = ({"lower_trust_device", "mass_registration", "presence_flood", "discovery_scraping"}
                \cup {"profile_scraping", "automated_liking", "ble_replay", "impossible_travel"})
               \cup {"malicious_links", "report_brigading", "prior_enforcement",
                     "prior_enforcement"}
    BY DEF Reason
<1>4. QED
    BY <1>1, <1>2, <1>3

LEMMA TwoMakeAPair ==
    ASSUME NEW S, IsFiniteSet(S), NEW q \in S, NEW r \in S, q # r
    PROVE  Cardinality(S) >= 2
<1>1. Cardinality({q}) = 1 /\ IsFiniteSet({q})
    BY FS_Singleton
<1>2. Cardinality({q, r}) = 2
    BY <1>1, FS_AddElement, {q} \cup {r} = {q, r}, r \notin {q}
<1>3. QED
    BY <1>2, FS_Subset, {q, r} \subseteq S, FS_CardinalityType

\* No single kind of behaviour hides a profile, for any signals that are natural numbers.
THEOREM NoReasonHidesAlone == Spec => []NoSingleSignalHides
<1>1. ASSUME IInv, NEW n \in DOMAIN cases, cases[n].contained, ~Mod!Adjudicated(cases[n]),
             ~Mod!CommunityContains(cases[n].votes),
             ~Risk!Denied(SignalsOf(cases[n].subject))
      PROVE  Cardinality(Risk!Reasons(SignalsOf(cases[n].subject))) >= 2
    <2> DEFINE s == SignalsOf(cases[n].subject)
    <2>1. s \in Risk!Signals
        BY ComponentAssumption, <1>1 DEF SignalsOf, NoSignals, Risk!Denied
    <2>2. Mod!AutomaticallyContains(Risk!AssessRisk(s))
        BY <1>1, ModerationFacts DEF IInv, AssessedAndSettled
    <2>3. Risk!Score(s) >= 80
        BY <1>1, <2>2 DEF Mod!AutomaticallyContains, Risk!AssessRisk
    <2>4. PICK q, r \in Risk!Reasons(s) : q # r
        BY <1>1, <2>1, <2>3, TwoReasons
    <2>5. IsFiniteSet(Risk!Reasons(s))
        BY <1>1, <2>1, PointsAreCapped, ReasonsFinite, FS_Subset DEF Risk!Reasons
    <2>6. QED
        BY <2>4, <2>5, TwoMakeAPair
<1>2. IInv => NoSingleSignalHides
    BY <1>1 DEF NoSingleSignalHides
<1>3. QED
    BY <1>2, Invariance, PTL

\* t is at least as suspect as s in every signal.
AtLeastAsSuspect(t, s) ==
    /\ t.adultCredentialValid => s.adultCredentialValid
    /\ \/ t.attestation = "failed"
       \/ /\ s.attestation # "failed"
          /\ Risk!AttestationPenalty[s.attestation] <= Risk!AttestationPenalty[t.attestation]
    /\ s.impossibleTravel => t.impossibleTravel
    /\ \A count \in {"accountsCreated24h", "presencePublishesMinute", "discoveryRequestsMinute",
                     "profileFetchesMinute", "likesMinute", "bleReplayHits24h",
                     "maliciousLinkHits24h", "reportBrigadeScore", "priorEnforcementCount"} :
           s[count] <= t[count]

Severity ==
    [allow |-> 0, throttle |-> 1, challenge |-> 2, temporary_containment |-> 3, deny |-> 4]

LEMMA PointsGrow ==
    ASSUME NEW s \in Risk!Signals, NEW t \in Risk!Signals, AtLeastAsSuspect(t, s),
           ~Risk!Denied(t)
    PROVE  ~Risk!Denied(s) /\ \A r \in Reason : Risk!Points(s)[r] <= Risk!Points(t)[r]
<1>1. /\ s.accountsCreated24h \in Nat /\ t.accountsCreated24h \in Nat
      /\ s.presencePublishesMinute \in Nat /\ t.presencePublishesMinute \in Nat
      /\ s.discoveryRequestsMinute \in Nat /\ t.discoveryRequestsMinute \in Nat
      /\ s.profileFetchesMinute \in Nat /\ t.profileFetchesMinute \in Nat
      /\ s.likesMinute \in Nat /\ t.likesMinute \in Nat
      /\ s.bleReplayHits24h \in Nat /\ t.bleReplayHits24h \in Nat
      /\ s.maliciousLinkHits24h \in Nat /\ t.maliciousLinkHits24h \in Nat
      /\ s.reportBrigadeScore \in Nat /\ t.reportBrigadeScore \in Nat
      /\ s.priorEnforcementCount \in Nat /\ t.priorEnforcementCount \in Nat
    BY DEF Risk!Signals
<1>2. /\ s.accountsCreated24h <= t.accountsCreated24h
      /\ s.presencePublishesMinute <= t.presencePublishesMinute
      /\ s.discoveryRequestsMinute <= t.discoveryRequestsMinute
      /\ s.profileFetchesMinute <= t.profileFetchesMinute
      /\ s.likesMinute <= t.likesMinute /\ s.bleReplayHits24h <= t.bleReplayHits24h
      /\ s.maliciousLinkHits24h <= t.maliciousLinkHits24h
      /\ s.reportBrigadeScore <= t.reportBrigadeScore
      /\ s.priorEnforcementCount <= t.priorEnforcementCount
    BY DEF AtLeastAsSuspect, Risk!Signals
<1>3. ~Risk!Denied(s)
    BY DEF Risk!Denied, AtLeastAsSuspect
<1>4. Risk!AttestationPenalty[s.attestation] <= Risk!AttestationPenalty[t.attestation]
    BY DEF Risk!Denied, AtLeastAsSuspect
<1>5. \A m, n, cap, each \in Nat : m <= n => Risk!LesserOf(cap, m * each) <= Risk!LesserOf(cap, n * each)
    <2> SUFFICES ASSUME NEW m \in Nat, NEW n \in Nat, NEW cap \in Nat, NEW each \in Nat, m <= n
                 PROVE  Risk!LesserOf(cap, m * each) <= Risk!LesserOf(cap, n * each)
        OBVIOUS
    <2>1. m * each <= n * each /\ m * each \in Nat /\ n * each \in Nat
        OBVIOUS
    <2>2. QED
        BY <2>1 DEF Risk!LesserOf
<1>6. Risk!AccountPoints(s.accountsCreated24h) <= Risk!AccountPoints(t.accountsCreated24h)
    BY <1>1, <1>2 DEF Risk!AccountPoints, Risk!LesserOf
<1>7. ASSUME NEW m \in Nat, NEW n \in Nat, m <= n, NEW limit \in Nat, NEW points \in Nat
      PROVE  Risk!PointsIf(m > limit, points) <= Risk!PointsIf(n > limit, points)
    BY <1>7 DEF Risk!PointsIf
<1>8. Risk!PointsIf(s.impossibleTravel, 25) <= Risk!PointsIf(t.impossibleTravel, 25)
    BY DEF AtLeastAsSuspect, Risk!PointsIf
<1>9. /\ Risk!Points(s).lower_trust_device <= Risk!Points(t).lower_trust_device
      /\ Risk!Points(s).mass_registration <= Risk!Points(t).mass_registration
      /\ Risk!Points(s).impossible_travel <= Risk!Points(t).impossible_travel
    BY <1>4, <1>6, <1>8 DEF Risk!Points
<1>10. /\ Risk!Points(s).presence_flood <= Risk!Points(t).presence_flood
       /\ Risk!Points(s).discovery_scraping <= Risk!Points(t).discovery_scraping
       /\ Risk!Points(s).profile_scraping <= Risk!Points(t).profile_scraping
       /\ Risk!Points(s).automated_liking <= Risk!Points(t).automated_liking
       /\ Risk!Points(s).report_brigading <= Risk!Points(t).report_brigading
    BY <1>1, <1>2, <1>7 DEF Risk!Points
<1>11. /\ Risk!Points(s).ble_replay <= Risk!Points(t).ble_replay
       /\ Risk!Points(s).malicious_links <= Risk!Points(t).malicious_links
       /\ Risk!Points(s).prior_enforcement <= Risk!Points(t).prior_enforcement
    BY <1>1, <1>2, <1>5 DEF Risk!Points
<1>12. QED
    BY <1>3, <1>9, <1>10, <1>11 DEF Reason

LEMMA ScoreGrows ==
    ASSUME NEW s \in Risk!Signals, NEW t \in Risk!Signals, AtLeastAsSuspect(t, s),
           ~Risk!Denied(t)
    PROVE  ~Risk!Denied(s) /\ Risk!Score(s) <= Risk!Score(t)
           /\ Risk!Score(s) \in Nat /\ Risk!Score(t) \in Nat
<1> DEFINE P == Risk!Points(s)
           Q == Risk!Points(t)
           total(p) == p.lower_trust_device + p.mass_registration + p.presence_flood
                       + p.discovery_scraping + p.profile_scraping + p.automated_liking
                       + p.ble_replay + p.impossible_travel + p.malicious_links
                       + p.report_brigading + p.prior_enforcement
<1>1. ~Risk!Denied(s) /\ \A r \in Reason : P[r] <= Q[r]
    BY PointsGrow
<1>2. \A r \in Reason : P[r] \in Nat /\ Q[r] \in Nat
    BY <1>1, PointsAreCapped
<1>3. Risk!Score(s) = Risk!LesserOf(100, total(P)) /\ Risk!Score(t) = Risk!LesserOf(100, total(Q))
    BY DEF Risk!Score
<1> HIDE DEF P, Q
<1>4. total(P) <= total(Q) /\ total(P) \in Nat /\ total(Q) \in Nat
    BY <1>1, <1>2 DEF Reason
<1> HIDE DEF total
<1>5. QED
    BY <1>1, <1>3, <1>4 DEF Risk!LesserOf

\* assess_risk is monotone: signals that are at least as suspect, each of them, never get a
\* milder action, and never avoid the containment at once that the others lead to.
THEOREM WorseIsNotMilder ==
    \A s, t \in Risk!Signals : AtLeastAsSuspect(t, s) =>
        /\ Severity[Risk!AssessRisk(s)] <= Severity[Risk!AssessRisk(t)]
        /\ Mod!AutomaticallyContains(Risk!AssessRisk(s)) =>
               Mod!AutomaticallyContains(Risk!AssessRisk(t))
<1> SUFFICES ASSUME NEW s \in Risk!Signals, NEW t \in Risk!Signals, AtLeastAsSuspect(t, s)
             PROVE  /\ Severity[Risk!AssessRisk(s)] <= Severity[Risk!AssessRisk(t)]
                    /\ Mod!AutomaticallyContains(Risk!AssessRisk(s)) =>
                           Mod!AutomaticallyContains(Risk!AssessRisk(t))
    OBVIOUS
<1>1. CASE Risk!Denied(t)
    <2>1. Risk!AssessRisk(t) = "deny" /\ Risk!AssessRisk(s) \in RiskAction
        BY <1>1, AssessedAction DEF Risk!AssessRisk
    <2>2. QED
        BY <2>1 DEF Severity, RiskAction, Mod!AutomaticallyContains
<1>2. CASE ~Risk!Denied(t)
    <2>1. /\ ~Risk!Denied(s) /\ Risk!Score(s) <= Risk!Score(t)
          /\ Risk!Score(s) \in Nat /\ Risk!Score(t) \in Nat
        BY <1>2, ScoreGrows
    <2>2. QED
        BY <1>2, <2>1 DEF Risk!AssessRisk, Severity, Mod!AutomaticallyContains
<1>3. QED
    BY <1>1, <1>2

----------------------------------------------------------------------------
(* The abstract session                                                    *)

\* What ViewerSession sees of a session, as Promise maps it.
Kinds == [c \in Conv!Decided |-> KindOf(c)]
Active == {c \in DOMAIN matches : Conv!IsActive(c)}
UnderReview == {c \in Profiles : Mod!HasActiveCase(c)}

\* An abstract session by its fields.
Seen(adult, kinds, matched, active, underReview, contained) ==
    [adult |-> adult, decisions |-> kinds, matched |-> matched, active |-> active,
     underReview |-> underReview, contained |-> contained]

View == Seen(adultAccepted, Kinds, DOMAIN matches, Active, UnderReview, Mod!ContainedProfileIds)

AtOnce == {c \in Profiles : Mod!AutomaticallyContains(Risk!AssessRisk(SignalsOf(c)))}

\* What is promised of any session v.
Of(v) == INSTANCE ViewerSession WITH session <- v, ContainedAtOnce <- AtOnce

\* The kind of the one decision of a stack that is about c.
KindIn(stack, c) == stack[CHOOSE i \in DOMAIN stack : stack[i].candidate = c].kind

\* Where no two decisions are about one candidate, that is the kind of any decision about it.
LEMMA OneKind ==
    ASSUME NEW stack, NEW i \in DOMAIN stack,
           \A j, k \in DOMAIN stack : stack[j].candidate = stack[k].candidate => j = k
    PROVE  KindIn(stack, stack[i].candidate) = stack[i].kind
BY DEF KindIn

LEMMA KindsByStack ==
    /\ Kinds = [c \in Conv!Decided |-> KindIn(decisions, c)]
    /\ Kinds' = [c \in Conv!Decided' |-> KindIn(decisions', c)]
BY DEF Kinds, KindOf, KindIn

\* A swipe adds its kind to the view, for a candidate that has not been decided.
LEMMA KindsAfterDecision ==
    ASSUME Conv!TypeOK, Conv!DecidedOnce, Conv!DecidedOnce', NEW d,
           decisions' = Append(decisions, d), d.candidate \notin Conv!Decided
    PROVE  Kinds' = [c \in Conv!Decided \cup {d.candidate} |->
                        IF c = d.candidate THEN d.kind ELSE Kinds[c]]
<1> DEFINE n == Len(decisions)
<1>1. /\ n \in Nat /\ DOMAIN decisions = 1 .. n /\ DOMAIN decisions' = 1 .. (n + 1)
      /\ decisions'[n + 1] = d
      /\ \A i \in 1 .. n : decisions'[i] = decisions[i]
    BY DEF Conv!TypeOK
<1>2. Conv!Decided' = Conv!Decided \cup {d.candidate}
    BY <1>1 DEF Conv!Decided
<1>3. \A i \in DOMAIN decisions' : KindIn(decisions', decisions'[i].candidate) = decisions'[i].kind
    BY OneKind DEF Conv!DecidedOnce
<1>4. \A i \in DOMAIN decisions : KindIn(decisions, decisions[i].candidate) = decisions[i].kind
    BY OneKind DEF Conv!DecidedOnce
<1>5. KindIn(decisions', d.candidate) = d.kind
    BY <1>1, <1>3
<1>6. ASSUME NEW c \in Conv!Decided PROVE KindIn(decisions', c) = KindIn(decisions, c)
    <2>1. PICK i \in DOMAIN decisions : decisions[i].candidate = c
        BY <1>6 DEF Conv!Decided
    <2>2. i \in DOMAIN decisions' /\ decisions'[i] = decisions[i]
        BY <1>1
    <2>3. QED
        BY <1>3, <1>4, <2>1, <2>2
<1>7. QED
    BY <1>2, <1>5, <1>6, KindsByStack

\* An undo takes away the kind of the last candidate.
LEMMA KindsAfterUndo ==
    ASSUME Conv!TypeOK, Conv!DecidedOnce, Conv!DecidedOnce', decisions # <<>>,
           decisions' = SubSeq(decisions, 1, Len(decisions) - 1)
    PROVE  LET last == Conv!LastDecision.candidate
           IN  /\ last \in Conv!Decided
               /\ Kinds' = [c \in Conv!Decided \ {last} |-> Kinds[c]]
<1> DEFINE n == Len(decisions)
           last == decisions[n].candidate
<1>1. /\ n \in Nat \ {0} /\ DOMAIN decisions = 1 .. n /\ DOMAIN decisions' = 1 .. (n - 1)
      /\ \A i \in 1 .. (n - 1) : decisions'[i] = decisions[i]
    BY DEF Conv!TypeOK
<1>2. /\ last \in Conv!Decided
      /\ Conv!Decided' = Conv!Decided \ {last}
    <2>1. \A i \in 1 .. (n - 1) : decisions[i].candidate # last
        BY <1>1 DEF Conv!DecidedOnce
    <2>2. n \in DOMAIN decisions /\ 1 .. n = 1 .. (n - 1) \cup {n}
        BY <1>1
    <2>3. Conv!Decided' = {decisions[i].candidate : i \in 1 .. (n - 1)}
        BY <1>1 DEF Conv!Decided
    <2>4. QED
        BY <1>1, <2>1, <2>2, <2>3 DEF Conv!Decided
<1>3. \A i \in DOMAIN decisions' : KindIn(decisions', decisions'[i].candidate) = decisions'[i].kind
    BY OneKind DEF Conv!DecidedOnce
<1>4. \A i \in DOMAIN decisions : KindIn(decisions, decisions[i].candidate) = decisions[i].kind
    BY OneKind DEF Conv!DecidedOnce
<1>5. ASSUME NEW c \in Conv!Decided' PROVE KindIn(decisions', c) = KindIn(decisions, c)
    <2>1. PICK i \in DOMAIN decisions' : decisions'[i].candidate = c
        BY <1>5 DEF Conv!Decided
    <2>2. i \in DOMAIN decisions /\ decisions'[i] = decisions[i]
        BY <1>1
    <2>3. QED
        BY <1>3, <1>4, <2>1, <2>2
<1>6. Kinds' = [c \in Conv!Decided \ {last} |-> Kinds[c]]
    BY <1>2, <1>5, KindsByStack
<1>7. QED
    BY <1>2, <1>6 DEF Conv!LastDecision

\* What leaves the stack, the matches' statuses or the cases alone leaves its part of the view.
LEMMA StackKept ==
    ASSUME UNCHANGED decisions
    PROVE  UNCHANGED Kinds
BY DEF Kinds, KindOf, Conv!Decided

LEMMA MatchesKept ==
    ASSUME UNCHANGED matches
    PROVE  UNCHANGED <<DOMAIN matches, Active>>
BY DEF Active, Conv!IsActive

LEMMA CasesKept ==
    ASSUME UNCHANGED cases
    PROVE  UNCHANGED <<UnderReview, Mod!ContainedProfileIds>>
BY DEF UnderReview, Mod!HasActiveCase, Mod!ContainedProfileIds, Mod!Adjudicated

----------------------------------------------------------------------------
(* The promises, field by field                                            *)

\* The promise that Session names is the one made of its view.
LEMMA PromiseOfView ==
    /\ Promise!GateAccepted = Of(View)!GateAccepted
    /\ Promise!Undone = Of(View)!Undone
    /\ \A c : /\ Promise!Passed(c) = Of(View)!Passed(c)
              /\ Promise!Interested(c) = Of(View)!Interested(c)
              /\ Promise!Ended(c) = Of(View)!Ended(c)
              /\ Promise!Reported(c) = Of(View)!Reported(c)
              /\ Promise!Voted(c) = Of(View)!Voted(c)
              /\ Promise!Appealed(c) = Of(View)!Appealed(c)
              /\ Promise!Adjudicated(c) = Of(View)!Adjudicated(c)
<1> USE DEF View, Seen, Kinds, Active, UnderReview, AtOnce
<1>1. Promise!GateAccepted = Of(View)!GateAccepted
    BY DEF Promise!GateAccepted, Of!GateAccepted
<1>2. Promise!Undone = Of(View)!Undone
    BY DEF Promise!Undone, Of!Undone
<1>3. \A c : /\ Promise!DecidedAs(c, "pass") = Of(View)!DecidedAs(c, "pass")
             /\ Promise!DecidedAs(c, "interest") = Of(View)!DecidedAs(c, "interest")
             /\ Promise!MayDecide(c) <=> Of(View)!MayDecide(c)
    BY DEF Promise!DecidedAs, Of!DecidedAs, Promise!MayDecide, Of!MayDecide
<1>4. \A c : Promise!Passed(c) = Of(View)!Passed(c)
    BY <1>3 DEF Promise!Passed, Of!Passed
<1>5. \A c : Promise!Interested(c) = Of(View)!Interested(c)
    BY <1>3 DEF Promise!Interested, Of!Interested
<1>6. \A c : Promise!Ended(c) = Of(View)!Ended(c)
    BY DEF Promise!Ended, Of!Ended
<1>7. \A c : Promise!Reported(c) = Of(View)!Reported(c)
    BY DEF Promise!Reported, Of!Reported
<1>8. \A c : Promise!Voted(c) = Of(View)!Voted(c)
    BY DEF Promise!Voted, Of!Voted
<1>9. \A c : Promise!Appealed(c) = Of(View)!Appealed(c)
    BY DEF Promise!Appealed, Of!Appealed
<1>10. \A c : Promise!Adjudicated(c) = Of(View)!Adjudicated(c)
    BY DEF Promise!Adjudicated, Of!Adjudicated
<1>11. QED
    BY <1>1, <1>2, <1>4, <1>5, <1>6, <1>7, <1>8, <1>9, <1>10

\* A record with the fields of a session is that session.
LEMMA SameFields ==
    ASSUME NEW w, w = [f \in DOMAIN w |-> w[f]],
           DOMAIN w = {"adult", "decisions", "matched", "active", "underReview", "contained"}
    PROVE  w = Seen(w.adult, w.decisions, w.matched, w.active, w.underReview, w.contained)
<1> DEFINE u == Seen(w.adult, w.decisions, w.matched, w.active, w.underReview, w.contained)
<1>1. u = [f \in DOMAIN u |-> u[f]] /\ DOMAIN u = DOMAIN w
    BY DEF Seen
<1>2. /\ u.adult = w.adult /\ u.decisions = w.decisions /\ u.matched = w.matched
      /\ u.active = w.active /\ u.underReview = w.underReview /\ u.contained = w.contained
    BY DEF Seen
<1> HIDE DEF u
<1>3. \A f \in DOMAIN w : u[f] = w[f]
    BY <1>2
<1>4. QED
    BY <1>1, <1>3 DEF u

Matched(v, x, y) == [v EXCEPT !.matched = x, !.active = y]

Reviewed(v, x, y) == [v EXCEPT !.underReview = x, !.contained = y]

\* Two fields of a session at once.
LEMMA TwoFields ==
    ASSUME NEW adult, NEW kinds, NEW matched, NEW active, NEW review, NEW hidden, NEW x, NEW y
    PROVE  LET v == Seen(adult, kinds, matched, active, review, hidden)
           IN  /\ Matched(v, x, y) = Seen(adult, kinds, x, y, review, hidden)
               /\ Reviewed(v, x, y) = Seen(adult, kinds, matched, active, x, y)
<1> DEFINE v == Seen(adult, kinds, matched, active, review, hidden)
           w == [v EXCEPT !.matched = x, !.active = y]
           u == [v EXCEPT !.underReview = x, !.contained = y]
<1>1. /\ w = [f \in DOMAIN w |-> w[f]] /\ DOMAIN w = DOMAIN v
      /\ u = [f \in DOMAIN u |-> u[f]] /\ DOMAIN u = DOMAIN v
    OBVIOUS
<1>2. DOMAIN v = {"adult", "decisions", "matched", "active", "underReview", "contained"}
    BY DEF Seen
<1>3. w.adult = adult /\ w.decisions = kinds /\ w.underReview = review /\ w.contained = hidden
    BY DEF Seen
<1>4. w.matched = x /\ w.active = y
    BY DEF Seen
<1>5. u.adult = adult /\ u.decisions = kinds /\ u.matched = matched /\ u.active = active
    BY DEF Seen
<1>6. u.underReview = x /\ u.contained = y
    BY DEF Seen
<1> HIDE DEF v, w, u
<1>7. w = Seen(adult, kinds, x, y, review, hidden)
    BY <1>1, <1>2, <1>3, <1>4, SameFields
<1>8. u = Seen(adult, kinds, matched, active, x, y)
    BY <1>1, <1>2, <1>5, <1>6, SameFields
<1>9. QED
    BY <1>7, <1>8 DEF v, w, u, Matched, Reviewed

LEMMA GatePromise ==
    ASSUME NEW adult, NEW kinds, NEW matched, NEW active, NEW review, NEW hidden
    PROVE  Seen(TRUE, kinds, matched, active, review, hidden)
               \in Of(Seen(adult, kinds, matched, active, review, hidden))!GateAccepted
<1> DEFINE v == Seen(adult, kinds, matched, active, review, hidden)
           w == [v EXCEPT !.adult = TRUE]
<1>1. w = [f \in DOMAIN w |-> w[f]] /\ DOMAIN w = DOMAIN v
    OBVIOUS
<1>2. DOMAIN v = {"adult", "decisions", "matched", "active", "underReview", "contained"}
    BY DEF Seen
<1>3. /\ w.decisions = kinds /\ w.matched = matched /\ w.active = active
      /\ w.underReview = review /\ w.contained = hidden
    BY DEF Seen
<1>4. w.adult = TRUE
    BY DEF Seen
<1>5. w \in Of(v)!GateAccepted
    BY DEF Of!GateAccepted
<1> HIDE DEF v, w
<1>6. w = Seen(TRUE, kinds, matched, active, review, hidden)
    BY <1>1, <1>2, <1>3, <1>4, SameFields
<1>7. QED
    BY <1>5, <1>6 DEF v

\* What each method promises to leave behind.
LEMMA PromisedFields ==
    ASSUME NEW c, NEW adult, NEW kinds, NEW matched, NEW active, NEW review, NEW hidden
    PROVE  LET v == Seen(adult, kinds, matched, active, review, hidden)
               Decided(kind) == [d \in DOMAIN kinds \cup {c} |-> IF d = c THEN kind ELSE kinds[d]]
           IN  /\ adult /\ c \notin hidden /\ c \notin DOMAIN kinds =>
                      /\ Seen(adult, Decided("pass"), matched, active, review, hidden)
                             \in Of(v)!Passed(c)
                      /\ c \in Profiles \cap Reciprocal =>
                             Seen(adult, Decided("interest"), matched \cup {c}, active \cup {c},
                                  review, hidden) \in Of(v)!Interested(c)
                      /\ c \in Profiles \ Reciprocal =>
                             Seen(adult, Decided("interest"), matched, active, review, hidden)
                                 \in Of(v)!Interested(c)
               /\ adult /\ c \in DOMAIN kinds \ matched =>
                      Seen(adult, [d \in DOMAIN kinds \ {c} |-> kinds[d]], matched, active,
                           review, hidden) \in Of(v)!Undone
               /\ c \in active =>
                      Seen(adult, kinds, matched, active \ {c}, review, hidden) \in Of(v)!Ended(c)
               /\ adult /\ c \in Profiles \ review =>
                      Seen(adult, kinds, matched, active, review \cup {c},
                           IF c \in AtOnce THEN hidden \cup {c} ELSE hidden) \in Of(v)!Reported(c)
               /\ adult /\ c \in review =>
                      /\ v \in Of(v)!Voted(c)
                      /\ Seen(adult, kinds, matched, active, review, hidden \cup {c})
                             \in Of(v)!Voted(c)
               /\ adult /\ c \in review \cap hidden => v \in Of(v)!Appealed(c)
               /\ adult /\ c \in review \cap DOMAIN Truth =>
                      Seen(adult, kinds, matched, active, review \ {c},
                           IF Truth[c] THEN hidden \cup {c} ELSE hidden \ {c})
                          \in Of(v)!Adjudicated(c)
<1> DEFINE v == Seen(adult, kinds, matched, active, review, hidden)
<1>1. /\ v.adult = adult /\ v.decisions = kinds /\ v.matched = matched /\ v.active = active
      /\ v.underReview = review /\ v.contained = hidden
    BY DEF Seen
<1>3. \A kind : Of(v)!DecidedAs(c, kind) =
          Seen(adult, [d \in DOMAIN kinds \cup {c} |-> IF d = c THEN kind ELSE kinds[d]],
               matched, active, review, hidden)
    BY DEF Of!DecidedAs, Seen
<1>4. adult /\ c \notin hidden /\ c \notin DOMAIN kinds => Of(v)!MayDecide(c)
    BY DEF Of!MayDecide, Seen
<1>5. Of(v)!MayDecide(c) => Of(v)!DecidedAs(c, "pass") \in Of(v)!Passed(c)
    BY DEF Of!Passed
<1>6. ASSUME Of(v)!MayDecide(c), c \in Profiles \cap Reciprocal
      PROVE  Seen(adult, [d \in DOMAIN kinds \cup {c} |-> IF d = c THEN "interest" ELSE kinds[d]],
                  matched \cup {c}, active \cup {c}, review, hidden) \in Of(v)!Interested(c)
    <2> DEFINE marked == [d \in DOMAIN kinds \cup {c} |-> IF d = c THEN "interest" ELSE kinds[d]]
               u == Of(v)!DecidedAs(c, "interest")
               x == u.matched \cup {c}
               y == u.active \cup {c}
               w == Matched(u, x, y)
    <2>1. u = Seen(adult, marked, matched, active, review, hidden)
        BY <1>3
    <2>2. w = Seen(adult, marked, x, y, review, hidden)
        <3> HIDE DEF u, x, y, marked
        <3>1. QED
            BY <2>1, TwoFields
    <2>3. w \in Of(v)!Interested(c)
        <3> HIDE DEF v
        <3>1. QED
            BY <1>6 DEF Of!Interested, Matched
    <2>4. x = matched \cup {c} /\ y = active \cup {c}
        <3> HIDE DEF u, marked
        <3>1. QED
            BY <2>1 DEF Seen
    <2> HIDE DEF w, x, y
    <2>5. QED
        BY <2>2, <2>3, <2>4
<1>7. ASSUME Of(v)!MayDecide(c), c \in Profiles \ Reciprocal
      PROVE  Of(v)!DecidedAs(c, "interest") \in Of(v)!Interested(c)
    BY <1>7 DEF Of!Interested
<1>8. ASSUME adult, c \in DOMAIN kinds \ matched
      PROVE  Seen(adult, [d \in DOMAIN kinds \ {c} |-> kinds[d]], matched, active, review, hidden)
                 \in Of(v)!Undone
    <2>1. [v EXCEPT !.decisions = [d \in DOMAIN @ \ {c} |-> @[d]]] =
              Seen(adult, [d \in DOMAIN kinds \ {c} |-> kinds[d]], matched, active, review, hidden)
        BY DEF Seen
    <2> HIDE DEF v
    <2>2. c \in {d \in DOMAIN v.decisions \ v.matched : v.adult}
        BY <1>1, <1>8
    <2>3. QED
        BY <2>1, <2>2 DEF Of!Undone
<1>9. ASSUME c \in active
      PROVE  Seen(adult, kinds, matched, active \ {c}, review, hidden) \in Of(v)!Ended(c)
    BY <1>9 DEF Of!Ended, Seen
<1>10. ASSUME adult, c \in Profiles \ review
       PROVE  Seen(adult, kinds, matched, active, review \cup {c},
                   IF c \in AtOnce THEN hidden \cup {c} ELSE hidden) \in Of(v)!Reported(c)
    <2> DEFINE x == v.underReview \cup {c}
               y == IF c \in AtOnce THEN v.contained \cup {c} ELSE v.contained
               w == Reviewed(v, x, y)
    <2>1. w = Seen(adult, kinds, matched, active, x, y)
        BY TwoFields
    <2> HIDE DEF v
    <2>2. w \in Of(v)!Reported(c)
        BY <1>1, <1>10 DEF Of!Reported, Reviewed
    <2>3. x = review \cup {c} /\ y = IF c \in AtOnce THEN hidden \cup {c} ELSE hidden
        BY <1>1
    <2> HIDE DEF w, x, y
    <2>4. QED
        BY <2>1, <2>2, <2>3
<1>11. ASSUME adult, c \in review
       PROVE  /\ v \in Of(v)!Voted(c)
              /\ Seen(adult, kinds, matched, active, review, hidden \cup {c}) \in Of(v)!Voted(c)
    <2>1. [v EXCEPT !.contained = @ \cup {c}] =
              Seen(adult, kinds, matched, active, review, hidden \cup {c})
        BY DEF Seen
    <2> HIDE DEF v
    <2>2. v.adult /\ c \in v.underReview
        BY <1>1, <1>11
    <2>3. QED
        BY <2>1, <2>2 DEF Of!Voted
<1>12. ASSUME adult, c \in review \cap hidden
       PROVE  v \in Of(v)!Appealed(c)
    BY <1>12 DEF Of!Appealed, Seen
<1>13. ASSUME adult, c \in review \cap DOMAIN Truth
       PROVE  Seen(adult, kinds, matched, active, review \ {c},
                   IF Truth[c] THEN hidden \cup {c} ELSE hidden \ {c}) \in Of(v)!Adjudicated(c)
    <2> DEFINE x == v.underReview \ {c}
               y == IF Truth[c] THEN v.contained \cup {c} ELSE v.contained \ {c}
               w == Reviewed(v, x, y)
    <2>1. w = Seen(adult, kinds, matched, active, x, y)
        BY TwoFields
    <2> HIDE DEF v
    <2>2. w \in Of(v)!Adjudicated(c)
        BY <1>1, <1>13 DEF Of!Adjudicated, Reviewed
    <2>3. x = review \ {c} /\ y = IF Truth[c] THEN hidden \cup {c} ELSE hidden \ {c}
        BY <1>1
    <2> HIDE DEF w, x, y
    <2>4. QED
        BY <2>1, <2>2, <2>3
<1> HIDE DEF v
<1>14. QED
    BY <1>3, <1>4, <1>5, <1>6, <1>7, <1>8, <1>9, <1>10, <1>11, <1>12, <1>13 DEF v

----------------------------------------------------------------------------
(* Every method keeps its promise                                          *)

LEMMA DecidedOnceNext ==
    ASSUME ConvP!IInv'
    PROVE  Conv!DecidedOnce'
BY DEF ConvP!IInv, ConvP!DecidedOnce, Conv!DecidedOnce

LEMMA ViewKept ==
    ASSUME UNCHANGED <<adultAccepted, decisions, matches, cases>>
    PROVE  UNCHANGED View
BY StackKept, MatchesKept, CasesKept DEF View

LEMMA GatePromised ==
    ASSUME AcceptAdultGate
    PROVE  View' \in Promise!GateAccepted
<1>1. /\ adultAccepted' = TRUE
      /\ UNCHANGED <<Kinds, DOMAIN matches, Active, UnderReview, Mod!ContainedProfileIds>>
    BY StackKept, MatchesKept, CasesKept DEF AcceptAdultGate, conversationVars, moderationVars
<1>2. View' \in Of(View)!GateAccepted
    BY <1>1, GatePromise DEF View
<1>3. QED
    BY <1>2, PromiseOfView

LEMMA PassPromised ==
    ASSUME IInv, IInv', NEW c \in Profiles \cup OtherIds, PassCandidate(c)
    PROVE  View' \in Promise!Passed(c)
<1>1. Conv!TypeOK /\ Conv!DecidedOnce /\ Conv!DecidedOnce'
    BY ConversationFacts, DecidedOnceNext DEF IInv
<1>2. c \notin Conv!Decided /\ c \notin Mod!ContainedProfileIds /\ adultAccepted
    BY DEF PassCandidate, RequireAdult, RequireNotContained, Conv!RecordPass, Conv!Available,
           Conv!SuppressedCandidateIds
<1>3. Kinds' = [d \in Conv!Decided \cup {c} |-> IF d = c THEN "pass" ELSE Kinds[d]]
    <2> DEFINE new == Conv!NewDecision(c, "pass", NoTag, FALSE)
    <2>1. decisions' = Append(decisions, new)
        BY DEF PassCandidate, Conv!RecordPass, Conv!Record
    <2>2. new.candidate = c /\ new.kind = "pass"
        BY DEF Conv!NewDecision
    <2> HIDE DEF new
    <2>3. QED
        BY <1>1, <1>2, <2>1, <2>2, KindsAfterDecision
<1>4. UNCHANGED <<adultAccepted, DOMAIN matches, Active, UnderReview, Mod!ContainedProfileIds>>
    BY MatchesKept, CasesKept DEF PassCandidate, Conv!RecordPass, moderationVars
<1>5. DOMAIN Kinds = Conv!Decided
    BY DEF Kinds
<1>6. QED
    BY <1>2, <1>3, <1>4, <1>5, PromiseOfView, PromisedFields DEF View

LEMMA InterestPromised ==
    ASSUME IInv, IInv', NEW c \in Profiles, ExpressInterest(c)
    PROVE  View' \in Promise!Interested(c)
<1>1. Conv!TypeOK /\ Conv!DecidedOnce /\ Conv!DecidedOnce'
    BY ConversationFacts, DecidedOnceNext DEF IInv
<1>2. /\ c \notin Conv!Decided /\ c \notin DOMAIN matches
      /\ c \notin Mod!ContainedProfileIds /\ adultAccepted
    BY DEF ExpressInterest, RequireAdult, RequireNotContained, Conv!RecordInterest,
           Conv!Available, Conv!SuppressedCandidateIds
<1>3. Kinds' = [d \in Conv!Decided \cup {c} |-> IF d = c THEN "interest" ELSE Kinds[d]]
    <2> DEFINE new == Conv!NewDecision(c, "interest", NoTag, c \in Reciprocal)
    <2>1. decisions' = Append(decisions, new)
        BY DEF ExpressInterest, Conv!RecordInterest, Conv!Record
    <2>2. new.candidate = c /\ new.kind = "interest"
        BY DEF Conv!NewDecision
    <2> HIDE DEF new
    <2>3. Kinds' = [d \in Conv!Decided \cup {new.candidate} |->
                        IF d = new.candidate THEN new.kind ELSE Kinds[d]]
        BY <1>1, <1>2, <2>1, <2>2, KindsAfterDecision
    <2>4. QED
        BY <2>2, <2>3
<1>4. UNCHANGED <<adultAccepted, UnderReview, Mod!ContainedProfileIds>>
    BY CasesKept DEF ExpressInterest, moderationVars
<1>5. DOMAIN Kinds = Conv!Decided
    BY DEF Kinds
<1>6. CASE c \in Reciprocal
    <2>1. matches' = Conv!WithMatch(c, Conv!NewMatch(NoTag))
        BY <1>6 DEF ExpressInterest, Conv!RecordInterest
    <2>2. DOMAIN matches' = DOMAIN matches \cup {c} /\ Active' = Active \cup {c}
        BY <1>2, <2>1 DEF Active, Conv!IsActive, Conv!WithMatch, Conv!NewMatch
    <2>3. QED
        BY <1>2, <1>3, <1>4, <1>5, <1>6, <2>2, PromiseOfView, PromisedFields DEF View
<1>7. CASE c \notin Reciprocal
    <2>1. UNCHANGED <<DOMAIN matches, Active>>
        BY <1>7, MatchesKept DEF ExpressInterest, Conv!RecordInterest
    <2>2. QED
        BY <1>2, <1>3, <1>4, <1>5, <1>7, <2>1, PromiseOfView, PromisedFields DEF View
<1>8. QED
    BY <1>6, <1>7

\* The decision that goes is one of those that made no match: no other decision is about its
\* candidate, and every match has a decision that made it.
LEMMA UndoPromised ==
    ASSUME IInv, IInv', UndoLastDecision
    PROVE  View' \in Promise!Undone
<1> DEFINE last == Conv!LastDecision.candidate
<1>1. /\ Conv!TypeOK /\ Conv!DecidedOnce /\ Conv!DecidedOnce' /\ Conv!MatchesHaveConsent
    BY ConversationFacts, DecidedOnceNext DEF IInv
<1>2. /\ decisions # <<>> /\ ~Conv!LastDecision.createsMatch
      /\ decisions' = SubSeq(decisions, 1, Len(decisions) - 1)
    BY DEF UndoLastDecision, Conv!UndoLastDecision, Conv!CanUndo
<1>3. last \in Conv!Decided /\ Kinds' = [c \in Conv!Decided \ {last} |-> Kinds[c]]
    BY <1>1, <1>2, KindsAfterUndo
<1>4. last \notin DOMAIN matches
    <2>1. Len(decisions) \in DOMAIN decisions
        BY <1>1, <1>2 DEF Conv!TypeOK
    <2>2. QED
        BY <1>1, <1>2, <2>1 DEF Conv!MatchesHaveConsent, Conv!DecidedOnce, Conv!LastDecision
<1>5. adultAccepted
    BY <1>2 DEF IInv, NothingBeforeTheGate
<1>6. UNCHANGED <<adultAccepted, DOMAIN matches, Active, UnderReview, Mod!ContainedProfileIds>>
    BY MatchesKept, CasesKept DEF UndoLastDecision, Conv!UndoLastDecision, moderationVars
<1>7. DOMAIN Kinds = Conv!Decided
    BY DEF Kinds
<1> HIDE DEF last
<1>8. QED
    BY <1>3, <1>4, <1>5, <1>6, <1>7, PromiseOfView, PromisedFields DEF View

LEMMA EndPromised ==
    ASSUME IInv, NEW c \in DOMAIN matches, Unmatch(c) \/ Block(c)
    PROVE  View' = View \/ View' \in Promise!Ended(c)
<1>1. \A d \in DOMAIN matches : matches[d] \in Conv!ConversationMatch
    BY ConversationFacts DEF IInv, Conv!TypeOK
<1>2. PICK ended :
          /\ matches' = [matches EXCEPT ![c] = ended]
          /\ ended.status # "active"
    <2>1. CASE Unmatch(c)
        <3>1. matches' = [matches EXCEPT ![c] =
                              [matches[c] EXCEPT !.status = "unmatched", !.ended = TRUE]]
            BY <2>1 DEF Unmatch, Conv!UnmatchConversation
        <3>2. [matches[c] EXCEPT !.status = "unmatched", !.ended = TRUE].status = "unmatched"
            BY <1>1 DEF Conv!ConversationMatch
        <3>3. QED
            BY <3>1, <3>2
    <2>2. CASE Block(c)
        <3>1. matches' = [matches EXCEPT ![c] = Conv!Purged(matches[c])]
            BY <2>2 DEF Block, Conv!BlockConversation
        <3>2. Conv!Purged(matches[c]).status = "blocked"
            BY <1>1 DEF Conv!Purged, Conv!ConversationMatch
        <3>3. QED
            BY <3>1, <3>2
    <2>3. QED
        BY <2>1, <2>2
<1>3. DOMAIN matches' = DOMAIN matches /\ Active' = Active \ {c}
    BY <1>2 DEF Active, Conv!IsActive
<1>4. UNCHANGED <<adultAccepted, Kinds, UnderReview, Mod!ContainedProfileIds>>
    <2>1. UNCHANGED <<adultAccepted, decisions, cases>>
        BY DEF Unmatch, Block, Conv!UnmatchConversation, Conv!BlockConversation, KeepRest,
               moderationVars
    <2>2. QED
        BY <2>1, StackKept, CasesKept
<1>5. CASE c \in Active
    BY <1>3, <1>4, <1>5, PromiseOfView, PromisedFields DEF View
<1>6. CASE c \notin Active
    <2>1. Active' = Active
        BY <1>3, <1>6
    <2>2. QED
        BY <1>3, <1>4, <2>1 DEF View
<1>7. QED
    BY <1>5, <1>6

\* A message changes a transcript, which the view does not show.
LEMMA MessagesUnseen ==
    ASSUME IInv, NEW c \in DOMAIN matches, NEW sender, NEW body,
           Conv!AddMessage(c, sender, body), KeepRest
    PROVE  UNCHANGED View
<1>1. matches[c] \in Conv!ConversationMatch
    BY ConversationFacts DEF IInv, Conv!TypeOK
<1>2. /\ DOMAIN matches' = DOMAIN matches
      /\ \A d \in DOMAIN matches : matches'[d].status = matches[d].status
    BY <1>1 DEF Conv!AddMessage, Conv!ConversationMatch
<1>3. Active' = Active
    BY <1>2 DEF Active, Conv!IsActive
<1>4. UNCHANGED <<adultAccepted, Kinds, UnderReview, Mod!ContainedProfileIds>>
    <2>1. UNCHANGED <<adultAccepted, decisions, cases>>
        BY DEF Conv!AddMessage, KeepRest, moderationVars
    <2>2. QED
        BY <2>1, StackKept, CasesKept
<1>5. QED
    BY <1>2, <1>3, <1>4 DEF View


\* The report's own case is the only one of its subject without a verdict.
LEMMA ReportPromised ==
    ASSUME IInv, NEW c \in Profiles, ReportSuspectedBot(c)
    PROVE  View' \in Promise!Reported(c)
<1> DEFINE action == Risk!AssessRisk(SignalsOf(c))
           new == Mod!NewCase(Viewer, c, action)
           n == nextCaseSequence
<1>1. adultAccepted /\ ~Mod!HasActiveCase(c)
    BY DEF ReportSuspectedBot, RequireAdult, Mod!FileBotReport, Mod!MayReport
<1>2. /\ new.subject = c /\ ~Mod!Adjudicated(new)
      /\ new.contained <=> Mod!AutomaticallyContains(action)
    BY DEF Mod!NewCase, Mod!Adjudicated, Mod!AdjudicatedStatus
<1>3. n \notin DOMAIN cases
    BY ModerationFacts DEF IInv, Mod!TypeOK, Mod!CaseIds
<1>4. cases' = Mod!Put(cases, n, new)
    BY DEF ReportSuspectedBot, Mod!FileBotReport
<1>5. /\ DOMAIN cases' = DOMAIN cases \cup {n} /\ cases'[n] = new
      /\ \A m \in DOMAIN cases : cases'[m] = cases[m]
    BY <1>3, <1>4 DEF Mod!Put
<1> HIDE DEF new, n
<1>6. UnderReview' = UnderReview \cup {c}
    BY <1>2, <1>5 DEF UnderReview, Mod!HasActiveCase, Mod!Adjudicated
<1>7. Mod!ContainedProfileIds' =
          IF c \in AtOnce THEN Mod!ContainedProfileIds \cup {c} ELSE Mod!ContainedProfileIds
    <2>1. c \in AtOnce <=> new.contained
        BY <1>2 DEF AtOnce
    <2>2. CASE new.contained
        BY <1>2, <1>5, <2>1, <2>2 DEF Mod!ContainedProfileIds
    <2>3. CASE ~new.contained
        BY <1>3, <1>5, <2>1, <2>3 DEF Mod!ContainedProfileIds
    <2>4. QED
        BY <2>2, <2>3
<1>8. UNCHANGED <<adultAccepted, Kinds, DOMAIN matches, Active>>
    BY StackKept, MatchesKept DEF ReportSuspectedBot, KeepConversations, conversationVars
<1>9. c \notin UnderReview
    BY <1>1 DEF UnderReview
<1>10. QED
    BY <1>1, <1>6, <1>7, <1>8, <1>9, PromiseOfView, PromisedFields DEF View

\* One case among the others is replaced by another about the same subject.
LEMMA CaseReplaced ==
    ASSUME Mod!TypeOK, NEW n \in DOMAIN cases, NEW new, cases' = [cases EXCEPT ![n] = new],
           new.subject = cases[n].subject
    PROVE  /\ DOMAIN cases' = DOMAIN cases /\ cases'[n] = new
           /\ \A m \in DOMAIN cases \ {n} : cases'[m] = cases[m]
           /\ \A m \in DOMAIN cases : cases'[m].subject = cases[m].subject
           /\ cases[n].subject \in Profiles
BY DEF Mod!TypeOK, Mod!ModerationCase

\* A vote hides the subject, if it is the one that fills the quorum, or changes nothing in view.
LEMMA VotePromised ==
    ASSUME IInv, NEW n \in DOMAIN cases, NEW reviewer \in Members, NEW choice \in Mod!VoteChoice,
           VoteOnBotCase(n, reviewer, choice)
    PROVE  View' \in Promise!Voted(cases[n].subject)
<1> DEFINE c == cases[n].subject
           new == Mod!VotedCase(cases[n], [reviewer |-> reviewer, choice |-> choice])
<1>1. Mod!TypeOK /\ cases[n] \in Mod!ModerationCase
    BY ModerationFacts DEF IInv, Mod!TypeOK
<1>2. adultAccepted /\ ~Mod!Adjudicated(cases[n])
    BY DEF VoteOnBotCase, RequireAdult, Mod!CastBotVote, Mod!MayVote, Mod!VotingClosed
<1>3. /\ new.subject = c
      /\ new.status \in {"temporarily_contained", "community_review_complete", cases[n].status}
      /\ new.contained \in BOOLEAN /\ (cases[n].contained => new.contained)
    BY <1>1 DEF Mod!VotedCase, Mod!ModerationCase, Mod!CommunityContains
<1>4. ~Mod!Adjudicated(new)
    BY <1>2, <1>3 DEF Mod!Adjudicated, Mod!AdjudicatedStatus
<1>5. cases' = [cases EXCEPT ![n] = new]
    BY DEF VoteOnBotCase, Mod!CastBotVote
<1> HIDE DEF new
<1>6. /\ DOMAIN cases' = DOMAIN cases /\ cases'[n] = new
      /\ \A m \in DOMAIN cases \ {n} : cases'[m] = cases[m]
      /\ \A m \in DOMAIN cases : cases'[m].subject = cases[m].subject
      /\ c \in Profiles
    BY <1>1, <1>3, <1>5, CaseReplaced
<1>7. UnderReview' = UnderReview /\ c \in UnderReview
    <2>1. \A m \in DOMAIN cases : Mod!Adjudicated(cases'[m]) <=> Mod!Adjudicated(cases[m])
        BY <1>2, <1>4, <1>6
    <2>2. QED
        BY <1>2, <1>6, <2>1 DEF UnderReview, Mod!HasActiveCase, Mod!Adjudicated
<1>8. UNCHANGED <<adultAccepted, Kinds, DOMAIN matches, Active>>
    BY StackKept, MatchesKept DEF VoteOnBotCase, KeepConversations, conversationVars
<1>9. CASE new.contained
    <2>1. Mod!ContainedProfileIds' = Mod!ContainedProfileIds \cup {c}
        BY <1>3, <1>6, <1>9 DEF Mod!ContainedProfileIds
    <2>2. QED
        BY <1>2, <1>7, <1>8, <2>1, PromiseOfView, PromisedFields DEF View
<1>10. CASE ~new.contained
    <2>1. Mod!ContainedProfileIds' = Mod!ContainedProfileIds
        BY <1>3, <1>6, <1>10 DEF Mod!ContainedProfileIds
    <2>2. View' = View
        BY <1>7, <1>8, <2>1 DEF View
    <2>3. QED
        BY <1>2, <1>7, <2>2, PromiseOfView, PromisedFields DEF View
<1>11. QED
    BY <1>3, <1>9, <1>10

\* An appeal changes nothing in view.
LEMMA AppealPromised ==
    ASSUME IInv, NEW n \in DOMAIN cases, AppealBotContainment(n)
    PROVE  View' \in Promise!Appealed(cases[n].subject)
<1> DEFINE c == cases[n].subject
           new == Mod!AppealedCase(cases[n])
<1>1. Mod!TypeOK /\ cases[n] \in Mod!ModerationCase
    BY ModerationFacts DEF IInv, Mod!TypeOK
<1>2. adultAccepted /\ ~Mod!Adjudicated(cases[n]) /\ cases[n].contained
    BY DEF AppealBotContainment, RequireAdult, Mod!AppealBotCase
<1>3. /\ new.subject = c /\ new.status = "appealed_pending_review"
      /\ new.contained = cases[n].contained
    BY <1>1 DEF Mod!AppealedCase, Mod!ModerationCase
<1>4. ~Mod!Adjudicated(new)
    BY <1>3 DEF Mod!Adjudicated, Mod!AdjudicatedStatus
<1>5. cases' = [cases EXCEPT ![n] = new]
    BY DEF AppealBotContainment, Mod!AppealBotCase
<1> HIDE DEF new
<1>6. /\ DOMAIN cases' = DOMAIN cases /\ cases'[n] = new
      /\ \A m \in DOMAIN cases \ {n} : cases'[m] = cases[m]
      /\ \A m \in DOMAIN cases : cases'[m].subject = cases[m].subject
      /\ c \in Profiles
    BY <1>1, <1>3, <1>5, CaseReplaced
<1>7. UnderReview' = UnderReview /\ c \in UnderReview
    <2>1. \A m \in DOMAIN cases : Mod!Adjudicated(cases'[m]) <=> Mod!Adjudicated(cases[m])
        BY <1>2, <1>4, <1>6
    <2>2. QED
        BY <1>2, <1>6, <2>1 DEF UnderReview, Mod!HasActiveCase, Mod!Adjudicated
<1>8. Mod!ContainedProfileIds' = Mod!ContainedProfileIds /\ c \in Mod!ContainedProfileIds
    BY <1>2, <1>3, <1>6 DEF Mod!ContainedProfileIds
<1>9. UNCHANGED <<adultAccepted, Kinds, DOMAIN matches, Active>>
    BY StackKept, MatchesKept DEF AppealBotContainment, KeepConversations, conversationVars
<1>10. View' = View
    BY <1>7, <1>8, <1>9 DEF View
<1>11. QED
    BY <1>2, <1>7, <1>8, <1>10, PromiseOfView, PromisedFields DEF View

\* The subject has no other case without a verdict, and every verdict on it was the truth: one
\* that clears it leaves no case that hides it.
LEMMA VerdictPromised ==
    ASSUME IInv, NEW n \in DOMAIN cases, RunSyntheticAdjudication(n)
    PROVE  View' \in Promise!Adjudicated(cases[n].subject)
<1> DEFINE c == cases[n].subject
           new == Mod!AdjudicatedCase(cases[n], Truth[c])
<1>1. /\ Mod!TypeOK /\ Mod!OneActiveCasePerProfile
      /\ cases[n] \in Mod!ModerationCase /\ AssessedAndSettled
    BY ModerationFacts DEF IInv, Mod!TypeOK
<1>2. adultAccepted /\ c \in DOMAIN Truth /\ ~Mod!Adjudicated(cases[n]) /\ Truth[c] \in BOOLEAN
    BY FixtureAssumption
    DEF RunSyntheticAdjudication, RequireAdult, Mod!AdjudicateBotCase, Mod!ReadyForAdjudication
<1>3. /\ new.subject = c /\ new.contained = Truth[c]
      /\ new.status \in {"adjudicated_bot", "adjudicated_human"}
    BY <1>1 DEF Mod!AdjudicatedCase, Mod!ModerationCase
<1>4. Mod!Adjudicated(new)
    BY <1>3 DEF Mod!Adjudicated, Mod!AdjudicatedStatus
<1>5. cases' = [cases EXCEPT ![n] = new]
    BY DEF RunSyntheticAdjudication, Mod!AdjudicateBotCase, Verdict
<1> HIDE DEF new
<1>6. /\ DOMAIN cases' = DOMAIN cases /\ cases'[n] = new
      /\ \A m \in DOMAIN cases \ {n} : cases'[m] = cases[m]
      /\ \A m \in DOMAIN cases : cases'[m].subject = cases[m].subject
      /\ c \in Profiles
    BY <1>1, <1>3, <1>5, CaseReplaced
<1>7. \A m \in DOMAIN cases \ {n} :
          cases[m].subject = c => Mod!Adjudicated(cases[m]) /\ cases[m].contained = Truth[c]
    BY <1>1, <1>2 DEF Mod!OneActiveCasePerProfile, AssessedAndSettled
<1>8. UnderReview' = UnderReview \ {c} /\ c \in UnderReview
    <2>1. c \in UnderReview
        BY <1>2, <1>6 DEF UnderReview, Mod!HasActiveCase
    <2>2. \A p \in Profiles : Mod!HasActiveCase(p)' <=> Mod!HasActiveCase(p) /\ p # c
        BY <1>4, <1>6, <1>7 DEF Mod!HasActiveCase, Mod!Adjudicated
    <2>3. QED
        BY <2>1, <2>2 DEF UnderReview
<1>9. Mod!ContainedProfileIds' =
          IF Truth[c] THEN Mod!ContainedProfileIds \cup {c} ELSE Mod!ContainedProfileIds \ {c}
    <2>1. CASE Truth[c]
        <3>1. cases'[n].contained /\ cases'[n].subject = c
            BY <1>3, <1>6, <2>1
        <3>2. \A m \in DOMAIN cases \ {n} :
                  /\ cases'[m].contained <=> cases[m].contained
                  /\ cases'[m].subject = cases[m].subject
            BY <1>6
        <3>3. Mod!ContainedProfileIds' = Mod!ContainedProfileIds \cup {c}
            BY <1>6, <3>1, <3>2 DEF Mod!ContainedProfileIds
        <3>4. QED
            BY <2>1, <3>3
    <2>2. CASE ~Truth[c]
        BY <1>3, <1>6, <1>7, <2>2 DEF Mod!ContainedProfileIds
    <2>3. QED
        BY <2>1, <2>2
<1>10. UNCHANGED <<adultAccepted, Kinds, DOMAIN matches, Active>>
    BY StackKept, MatchesKept DEF RunSyntheticAdjudication, KeepConversations, conversationVars
<1>11. QED
    BY <1>2, <1>8, <1>9, <1>10, PromiseOfView, PromisedFields DEF View

LEMMA NextOfThePromise ==
    ASSUME \/ View' \in Promise!GateAccepted
           \/ View' \in Promise!Undone
           \/ \E c \in Profiles \cup OtherIds :
                  View' \in UNION {Promise!Passed(c), Promise!Interested(c), Promise!Ended(c),
                                   Promise!Reported(c), Promise!Voted(c), Promise!Appealed(c),
                                   Promise!Adjudicated(c)}
    PROVE  Promise!Next
BY DEF Promise!Next, Promise!Ids, View, Seen, Kinds, Active, UnderReview

LEMMA StepPromised ==
    ASSUME IInv, IInv', [Next]_sessionVars
    PROVE  View' = View \/ Promise!Next
<1>1. /\ DOMAIN matches \subseteq Profiles \cup OtherIds
      /\ \A n \in DOMAIN cases : cases[n].subject \in Profiles
    BY ConversationFacts, ModerationFacts
    DEF IInv, Conv!TypeOK, Mod!TypeOK, Mod!ModerationCase
<1>2. CASE AcceptAdultGate
    BY <1>2, GatePromised, NextOfThePromise
<1>3. CASE \E tab \in APP_TABS : SelectTab(tab)
    BY <1>3, ViewKept DEF SelectTab, conversationVars, moderationVars
<1>4. CASE Swipes
    <2>1. CASE \E c \in Profiles \cup OtherIds : PassCandidate(c)
        BY <2>1, PassPromised, NextOfThePromise
    <2>2. CASE \E c \in Profiles : ExpressInterest(c)
        BY <2>2, InterestPromised, NextOfThePromise
    <2>3. CASE UndoLastDecision
        BY <2>3, UndoPromised, NextOfThePromise
    <2>4. QED
        BY <1>4, <2>1, <2>2, <2>3 DEF Swipes
<1>5. CASE Talks
    <2>1. CASE \E c \in DOMAIN matches, text \in Texts :
                   SendMessage(c, text) \/ ReceiveSyntheticReply(c, text)
        BY <2>1, MessagesUnseen
        DEF SendMessage, ReceiveSyntheticReply, Conv!SendMessage, Conv!ReceiveSyntheticReply
    <2>2. CASE \E c \in DOMAIN matches, suggestion \in SuggestionInputs :
                   ProposeMeetup(c, suggestion)
        BY <2>2, MessagesUnseen DEF ProposeMeetup, Conv!SendMeetupProposal
    <2>3. CASE \E c \in DOMAIN matches : Unmatch(c) \/ Block(c)
        BY <1>1, <2>3, EndPromised, NextOfThePromise
    <2>4. QED
        BY <1>5, <2>1, <2>2, <2>3 DEF Talks
<1>6. CASE Moderates
    <2>1. CASE \E c \in Profiles : ReportSuspectedBot(c)
        BY <2>1, ReportPromised, NextOfThePromise
    <2>2. CASE \E n \in DOMAIN cases, reviewer \in Members, choice \in Mod!VoteChoice :
                   VoteOnBotCase(n, reviewer, choice)
        BY <1>1, <2>2, VotePromised, NextOfThePromise
    <2>3. CASE \E n \in DOMAIN cases : AppealBotContainment(n)
        BY <1>1, <2>3, AppealPromised, NextOfThePromise
    <2>4. CASE \E n \in DOMAIN cases : RunSyntheticAdjudication(n)
        BY <1>1, <2>4, VerdictPromised, NextOfThePromise
    <2>5. QED
        BY <1>6, <2>1, <2>2, <2>3, <2>4 DEF Moderates
<1>7. CASE UNCHANGED sessionVars
    BY <1>7, ViewKept DEF sessionVars, conversationVars, moderationVars
<1>8. QED
    BY <1>2, <1>3, <1>4, <1>5, <1>6, <1>7 DEF Next

LEMMA InitPromised == Init => Promise!Init
<1> SUFFICES ASSUME Init PROVE Promise!Init
    OBVIOUS
<1>1. /\ adultAccepted = FALSE /\ decisions = <<>> /\ DOMAIN matches = {} /\ DOMAIN cases = {}
    BY DEF Init, Conv!Init, Mod!Init
<1>2. /\ DOMAIN Kinds = {} /\ Active = {} /\ UnderReview = {} /\ Mod!ContainedProfileIds = {}
    BY <1>1 DEF Kinds, Conv!Decided, Active, UnderReview, Mod!HasActiveCase,
                Mod!ContainedProfileIds
<1>3. Kinds = [c \in {} |-> "pass"]
    BY <1>2 DEF Kinds
<1>4. View = Promise!NewSession
    BY <1>1, <1>2, <1>3 DEF View, Seen, Promise!NewSession
<1>5. QED
    BY <1>4 DEF Promise!Init, View, Seen, Kinds, Active, UnderReview

\* A session keeps its promise to the viewer, for any fixtures, members and bounds: no method
\* does more to what has been decided, who has matched and who is hidden than ViewerSession says.
THEOREM Refinement == Spec => ImplementsPromise
<1>1. Init => Promise!Init
    BY InitPromised
<1>2. IInv /\ IInv' /\ [Next]_sessionVars => [Promise!Next]_View
    BY StepPromised
<1>3. QED
    BY <1>1, <1>2, Invariance, PTL
    DEF Spec, ImplementsPromise, Promise!Spec, View, Seen, Kinds, Active, UnderReview

============================================================================
