------------------------ MODULE BotModerationProofs ------------------------
(***************************************************************************)
(* Proofs about BotModeration, for every community, every set of profiles  *)
(* and every bound on the number of cases.                                 *)
(***************************************************************************)
EXTENDS BotModeration, FiniteSetTheorems, TLAPS

----------------------------------------------------------------------------
(* Helpers                                                                 *)

\* A penalised reputation is again a natural number: the floor at zero holds.
LEMMA PenalisedType ==
    ASSUME NEW r \in Nat, NEW n \in Nat
    PROVE  Penalised(r, n) \in Nat
BY DEF Penalised, WRONG_VOTE_PENALTY

\* Two rounds of penalties are one round of their sum: the floor does not interfere.
LEMMA PenalisedTwice ==
    ASSUME NEW r \in Nat, NEW a \in Nat, NEW b \in Nat
    PROVE  Penalised(Penalised(r, a), b) = Penalised(r, a + b)
BY DEF Penalised, WRONG_VOTE_PENALTY

\* A case has finitely many votes, so any selection of them can be counted.
LEMMA VoteIndicesFinite ==
    ASSUME NEW votes \in Seq(BotVote), NEW S \in SUBSET (DOMAIN votes)
    PROVE  IsFiniteSet(S) /\ Cardinality(S) \in Nat
<1>1. IsFiniteSet(DOMAIN votes)
  BY FS_Interval, DOMAIN votes = 1 .. Len(votes), Len(votes) \in Nat
<1>2. QED
  BY <1>1, FS_Subset, FS_CardinalityType

\* The wrong votes of one member on one case, counted.
LEMMA WrongVotesCount ==
    ASSUME NEW votes \in Seq(BotVote), NEW m, NEW confirmedBot \in BOOLEAN
    PROVE  Cardinality(WrongVotes(votes, m, confirmedBot)) \in Nat
BY VoteIndicesFinite, WrongVotes(votes, m, confirmedBot) \in SUBSET (DOMAIN votes) DEF WrongVotes

\* The three ways a transition rewrites a case keep it a ModerationCase.
LEMMA CaseUpdatesType ==
    ASSUME NEW case \in ModerationCase
    PROVE  /\ \A vote \in BotVote : VotedCase(case, vote) \in ModerationCase
           /\ AppealedCase(case) \in ModerationCase
           /\ \A confirmedBot \in BOOLEAN : AdjudicatedCase(case, confirmedBot) \in ModerationCase
<1>1. ASSUME NEW vote \in BotVote
      PROVE  VotedCase(case, vote) \in ModerationCase
  <2>1. Append(case.votes, vote) \in Seq(BotVote)
    BY DEF ModerationCase
  <2>2. CommunityContains(Append(case.votes, vote)) \in BOOLEAN
    BY DEF CommunityContains
  <2>3. (Len(Append(case.votes, vote)) >= REVIEW_QUORUM) \in BOOLEAN
    OBVIOUS
  <2>4. QED
    BY <2>1, <2>2, <2>3 DEF VotedCase, ModerationCase, CaseStatus
<1>2. AppealedCase(case) \in ModerationCase
  BY DEF AppealedCase, ModerationCase, CaseStatus
<1>3. ASSUME NEW confirmedBot \in BOOLEAN
      PROVE  AdjudicatedCase(case, confirmedBot) \in ModerationCase
  BY DEF AdjudicatedCase, ModerationCase, CaseStatus
<1>4. QED
  BY <1>1, <1>2, <1>3

----------------------------------------------------------------------------
(* Types                                                                   *)

LEMMA InitType == Init => TypeOK
<1>1. SUFFICES ASSUME Init PROVE TypeOK
  OBVIOUS
<1>2. cases \in [CaseIds -> ModerationCase]
  BY <1>1 DEF Init, CaseIds
<1>3. QED
  BY <1>1, <1>2, AccountAssumption, BoundAssumption
  DEF Init, TypeOK, IsCommunityMember, MAX_REPORTS_PER_WINDOW

LEMMA StepType == TypeOK /\ [Next]_moderationVars => TypeOK'
<1> SUFFICES ASSUME TypeOK, [Next]_moderationVars PROVE TypeOK'
  OBVIOUS
<1> USE DEF TypeOK, CaseIds
<1>1. ASSUME NEW reporter \in Members, NEW subject \in Profiles, NEW action \in AssessedActions,
             FileBotReport(reporter, subject, action)
      PROVE  TypeOK'
  <2>1. NewCase(reporter, subject, action) \in ModerationCase
    BY RiskAssumption DEF NewCase, ModerationCase, CaseStatus, AutomaticallyContains
  <2>2. nextCaseSequence' = nextCaseSequence + 1 /\ nextCaseSequence <= MaxCases
    BY <1>1 DEF FileBotReport, NextCaseNumber
  <2>3. (1 .. (nextCaseSequence - 1)) \cup {nextCaseSequence} = 1 .. (nextCaseSequence' - 1)
    BY <2>2, BoundAssumption
  <2>4. cases' \in [CaseIds' -> ModerationCase]
    BY <1>1, <2>1, <2>3 DEF FileBotReport, Put
  <2>5. reportsInWindow' \in [Members -> Nat]
    BY <1>1 DEF FileBotReport
  <2>6. QED
    BY <1>1, <2>2, <2>4, <2>5, BoundAssumption DEF FileBotReport
<1>2. ASSUME NEW c \in DOMAIN cases, NEW reviewer \in Members, NEW choice \in VoteChoice,
             CastBotVote(c, reviewer, choice)
      PROVE  TypeOK'
  <2>1. [reviewer |-> reviewer, choice |-> choice] \in BotVote
    BY DEF BotVote
  <2>2. VotedCase(cases[c], [reviewer |-> reviewer, choice |-> choice]) \in ModerationCase
    BY <2>1, CaseUpdatesType
  <2>3. QED
    BY <1>2, <2>2 DEF CastBotVote
<1>3. ASSUME NEW c \in DOMAIN cases, NEW subject \in Profiles, AppealBotCase(c, subject)
      PROVE  TypeOK'
  BY <1>3, CaseUpdatesType DEF AppealBotCase
<1>4. ASSUME NEW c \in DOMAIN cases, NEW confirmedBot \in BOOLEAN,
             AdjudicateBotCase(c, confirmedBot)
      PROVE  TypeOK'
  <2>1. cases[c].votes \in Seq(BotVote)
    BY DEF ModerationCase
  <2>2. reputation' \in [Members -> Nat]
    <3>1. ASSUME NEW m \in Members
          PROVE  Penalised(reputation[m],
                           Cardinality(WrongVotes(cases[c].votes, m, confirmedBot))) \in Nat
      BY <2>1, WrongVotesCount, PenalisedType
    <3>2. QED
      BY <1>4, <3>1 DEF AdjudicateBotCase
  <2>3. cases' \in [CaseIds' -> ModerationCase]
    BY <1>4, CaseUpdatesType DEF AdjudicateBotCase
  <2>4. QED
    BY <1>4, <2>2, <2>3 DEF AdjudicateBotCase
<1>5. CASE UNCHANGED moderationVars
  BY <1>5 DEF moderationVars
<1>6. QED
  BY <1>1, <1>2, <1>3, <1>4, <1>5 DEF Next

\* Every reachable state is well typed and its cases are exactly the numbers handed out.
THEOREM TypeCorrect == Spec => []TypeOK
BY InitType, StepType, PTL DEF Spec

----------------------------------------------------------------------------
(* The review of one case                                                  *)

\* A pending containment comes from the assessment or from the votes as they stand.
BackedContainment(case) ==
    case.contained /\ ~Adjudicated(case) =>
        AutomaticallyContains(case.riskAction) \/ CommunityContains(case.votes)

CaseInv(case) ==
    /\ IndependentVotes(case)
    /\ BackedContainment(case)
    /\ StatusIsSummary(case)

\* The quorum is an integer, compared with lengths.
LEMMA QuorumCases ==
    \A n \in Nat : /\ n <= REVIEW_QUORUM => n < REVIEW_QUORUM \/ n = REVIEW_QUORUM
                   /\ n <= REVIEW_QUORUM => (n >= REVIEW_QUORUM <=> n = REVIEW_QUORUM)
                   /\ n < REVIEW_QUORUM => n + 1 <= REVIEW_QUORUM /\ ~(n >= REVIEW_QUORUM)
BY DEF REVIEW_QUORUM

LEMMA NewCaseInv ==
    ASSUME NEW reporter, NEW subject, NEW action
    PROVE  CaseInv(NewCase(reporter, subject, action))
<1> DEFINE case == NewCase(reporter, subject, action)
           auto == AutomaticallyContains(action)
<1>1. /\ case.votes = <<>>
      /\ case.riskAction = action
      /\ case.contained = auto
      /\ case.reviewComplete = FALSE
      /\ case.status = IF auto THEN "temporarily_contained" ELSE "open"
  BY DEF NewCase
<1>2. auto \in BOOLEAN
  BY DEF AutomaticallyContains
<1>3. Len(case.votes) = 0 /\ DOMAIN case.votes = {} /\ Voters(case) = {}
  BY <1>1 DEF Voters
<1> HIDE DEF case, auto
<1>4. IndependentVotes(case)
  BY <1>3 DEF IndependentVotes, REVIEW_QUORUM
<1>5. BackedContainment(case)
  BY <1>1 DEF BackedContainment, auto
<1>6. StatusIsSummary(case)
  <2>1. CASE auto
    BY <1>1, <1>3, <2>1 DEF StatusIsSummary, REVIEW_QUORUM
  <2>2. CASE ~auto
    BY <1>1, <1>3, <2>2 DEF StatusIsSummary, REVIEW_QUORUM
  <2>3. QED
    BY <2>1, <2>2
<1>7. QED
  BY <1>4, <1>5, <1>6 DEF CaseInv, case

LEMMA VotedCaseInv ==
    ASSUME NEW case \in ModerationCase, CaseInv(case),
           NEW m \in Members, NEW choice \in VoteChoice, MayVote(case, m)
    PROVE  CaseInv(VotedCase(case, [reviewer |-> m, choice |-> choice]))
<1> DEFINE vote == [reviewer |-> m, choice |-> choice]
           votes == Append(case.votes, vote)
           next == VotedCase(case, vote)
<1>1. case.votes \in Seq(BotVote) /\ vote \in BotVote
  BY DEF ModerationCase, BotVote
<1>2. next.votes = votes /\ next.reporter = case.reporter /\ next.subject = case.subject
  BY DEF VotedCase, ModerationCase
<1>3. /\ Len(votes) = Len(case.votes) + 1
      /\ \A i \in 1 .. Len(case.votes) : votes[i] = case.votes[i]
      /\ votes[Len(case.votes) + 1] = vote
      /\ DOMAIN votes = 1 .. (Len(case.votes) + 1)
      /\ DOMAIN case.votes = 1 .. Len(case.votes)
      /\ Len(case.votes) \in Nat
  BY <1>1
<1>4. Len(case.votes) < REVIEW_QUORUM /\ case.status \in {"open", "temporarily_contained"}
  <2>1. ~case.reviewComplete /\ case.status \notin AdjudicatedStatus
    BY DEF MayVote, VotingClosed, Adjudicated
  <2>2. case.status \in CaseStatus
    BY DEF ModerationCase
  <2>3. case.status \in {"open", "temporarily_contained"}
    BY <2>1, <2>2 DEF CaseStatus, AdjudicatedStatus, CaseInv, StatusIsSummary
  <2>4. Len(case.votes) # REVIEW_QUORUM
    BY <2>1, <2>3 DEF CaseInv, StatusIsSummary
  <2>5. Len(case.votes) <= REVIEW_QUORUM
    BY DEF CaseInv, IndependentVotes
  <2>6. Len(case.votes) \in Nat
    BY <1>3
  <2>7. QED
    BY <2>3, <2>4, <2>5, <2>6, QuorumCases
<1>5. IndependentVotes(next)
  <2>1. Voters(next) = Voters(case) \cup {m}
    BY <1>2, <1>3 DEF Voters
  <2>2. ASSUME NEW i \in DOMAIN votes, NEW j \in DOMAIN votes, i # j
        PROVE  Account[votes[i].reviewer].cluster # Account[votes[j].reviewer].cluster
    <3>1. \A k \in DOMAIN case.votes :
             Account[case.votes[k].reviewer].cluster # Account[m].cluster
      BY DEF MayVote, ClusterHasVoted, VoterClusters, Voters
    <3>2. CASE i = Len(case.votes) + 1
      BY <1>3, <2>2, <3>1, <3>2
    <3>3. CASE j = Len(case.votes) + 1
      BY <1>3, <2>2, <3>1, <3>3
    <3>4. CASE i \in DOMAIN case.votes /\ j \in DOMAIN case.votes
      BY <1>3, <2>2, <3>4 DEF CaseInv, IndependentVotes
    <3>5. QED
      BY <1>3, <3>2, <3>3, <3>4
  <2>3. Len(votes) <= REVIEW_QUORUM
    BY <1>3, <1>4 DEF REVIEW_QUORUM
  <2>4. case.reporter \notin Voters(next) /\ case.subject \notin Voters(next)
    BY <2>1 DEF CaseInv, IndependentVotes, MayVote, IsParty
  <2>5. QED
    BY <1>2, <2>2, <2>3, <2>4 DEF IndependentVotes
<1>6. /\ next.contained = (case.contained \/ CommunityContains(votes))
      /\ next.reviewComplete = (Len(votes) >= REVIEW_QUORUM)
      /\ next.riskAction = case.riskAction
      /\ next.status = IF next.contained THEN "temporarily_contained"
                       ELSE IF next.reviewComplete THEN "community_review_complete"
                       ELSE case.status
  BY DEF VotedCase, ModerationCase
<1>7. ~Adjudicated(case)
  BY DEF MayVote, VotingClosed
<1>8. BackedContainment(next)
  <2>1. case.contained => AutomaticallyContains(case.riskAction) \/ CommunityContains(case.votes)
    BY <1>7 DEF CaseInv, BackedContainment
  <2>2. ~CommunityContains(case.votes)
    BY <1>3, <1>4 DEF CommunityContains, REVIEW_QUORUM
  <2>3. QED
    BY <1>2, <1>6, <2>1, <2>2 DEF BackedContainment
<1>9. StatusIsSummary(next)
  <2>1. case.status = "temporarily_contained" => case.contained
    BY DEF CaseInv, StatusIsSummary
  <2>2. next.contained => CommunityContains(votes) \/ case.contained
    BY <1>6
  <2>3. (Len(next.votes) = REVIEW_QUORUM) <=> next.reviewComplete
    <3>1. Len(votes) \in Nat /\ Len(votes) <= REVIEW_QUORUM
      BY <1>3, <1>4 DEF REVIEW_QUORUM
    <3>2. Len(votes) = REVIEW_QUORUM <=> Len(votes) >= REVIEW_QUORUM
      BY <3>1 DEF REVIEW_QUORUM
    <3>3. QED
      BY <1>2, <1>6, <3>2
  <2>4. CASE next.contained
    BY <1>6, <2>3, <2>4 DEF StatusIsSummary
  <2>5. CASE ~next.contained /\ next.reviewComplete
    BY <1>6, <2>3, <2>5 DEF StatusIsSummary
  <2>6. CASE ~next.contained /\ ~next.reviewComplete
    BY <1>4, <1>6, <2>1, <2>3, <2>6 DEF StatusIsSummary
  <2>7. QED
    BY <2>4, <2>5, <2>6
<1>10. QED
  BY <1>5, <1>8, <1>9 DEF CaseInv

LEMMA AppealedCaseInv ==
    ASSUME NEW case \in ModerationCase, CaseInv(case), case.contained, ~Adjudicated(case)
    PROVE  CaseInv(AppealedCase(case))
<1>1. /\ AppealedCase(case).votes = case.votes
      /\ AppealedCase(case).reporter = case.reporter
      /\ AppealedCase(case).subject = case.subject
      /\ AppealedCase(case).riskAction = case.riskAction
      /\ AppealedCase(case).contained = case.contained
      /\ AppealedCase(case).status = "appealed_pending_review"
      /\ AppealedCase(case).reviewComplete = TRUE
  BY DEF AppealedCase, ModerationCase
<1>2. QED
  BY <1>1 DEF CaseInv, IndependentVotes, BackedContainment, StatusIsSummary, Voters

LEMMA AdjudicatedCaseInv ==
    ASSUME NEW case \in ModerationCase, CaseInv(case), NEW confirmedBot \in BOOLEAN
    PROVE  CaseInv(AdjudicatedCase(case, confirmedBot))
<1>1. /\ AdjudicatedCase(case, confirmedBot).votes = case.votes
      /\ AdjudicatedCase(case, confirmedBot).reporter = case.reporter
      /\ AdjudicatedCase(case, confirmedBot).subject = case.subject
      /\ AdjudicatedCase(case, confirmedBot).contained = confirmedBot
      /\ AdjudicatedCase(case, confirmedBot).reviewComplete = TRUE
      /\ AdjudicatedCase(case, confirmedBot).status =
             IF confirmedBot THEN "adjudicated_bot" ELSE "adjudicated_human"
  BY DEF AdjudicatedCase, ModerationCase
<1>2. QED
  BY <1>1 DEF CaseInv, IndependentVotes, BackedContainment, StatusIsSummary, Voters,
              Adjudicated, AdjudicatedStatus

\* From counting to witnesses: a community containment has two suspicious votes, and
\* independence puts them in two clusters.
LEMMA CommunityContainmentWitnesses ==
    ASSUME NEW case \in ModerationCase, IndependentVotes(case), CommunityContains(case.votes)
    PROVE  /\ Len(case.votes) = REVIEW_QUORUM
           /\ \E i, j \in DOMAIN case.votes :
                  /\ Account[case.votes[i].reviewer].cluster # Account[case.votes[j].reviewer].cluster
                  /\ case.votes[i].choice = "suspicious"
                  /\ case.votes[j].choice = "suspicious"
<1> DEFINE S == {i \in DOMAIN case.votes : case.votes[i].choice = "suspicious"}
<1>1. case.votes \in Seq(BotVote)
  BY DEF ModerationCase
<1>2. IsFiniteSet(S) /\ Cardinality(S) \in Nat
  BY <1>1, VoteIndicesFinite
<1>3. Cardinality(S) >= 2
  BY DEF CommunityContains, CountChoice, SUSPICIOUS_VOTES_REQUIRED
<1>4. PICK i \in S : TRUE
  BY <1>3, FS_EmptySet
<1>5. PICK j \in S : j # i
  <2>1. Cardinality({i}) = 1
    BY FS_Singleton
  <2>2. S # {i}
    BY <1>3, <2>1
  <2>3. QED
    BY <1>4, <2>2
<1>6. Account[case.votes[i].reviewer].cluster # Account[case.votes[j].reviewer].cluster
  BY <1>5 DEF IndependentVotes
<1>7. Len(case.votes) = REVIEW_QUORUM
  <2>1. Len(case.votes) \in Nat
    BY <1>1
  <2>2. Len(case.votes) >= REVIEW_QUORUM
    BY DEF CommunityContains
  <2>3. Len(case.votes) <= REVIEW_QUORUM
    BY DEF IndependentVotes
  <2>4. QED
    BY <2>1, <2>2, <2>3, QuorumCases
<1>8. QED
  BY <1>4, <1>5, <1>6, <1>7

----------------------------------------------------------------------------
(* Every transition rewrites one case or adds one                          *)

CasesInv == \A c \in DOMAIN cases : CaseInv(cases[c])

\* What a step may do to a case that already exists.
Advances(old, new) ==
    /\ new.reporter = old.reporter
    /\ new.subject = old.subject
    /\ Len(new.votes) >= Len(old.votes)
    /\ SubSeq(new.votes, 1, Len(old.votes)) = old.votes
    /\ old.reviewComplete => new.reviewComplete /\ new.votes = old.votes
    /\ Adjudicated(old) => new = old
    /\ old.contained /\ ~new.contained => new.status = "adjudicated_human"

LEMMA AdvancesReflexive ==
    ASSUME NEW case \in ModerationCase
    PROVE  Advances(case, case)
<1>1. case.votes \in Seq(BotVote)
  BY DEF ModerationCase
<1>2. SubSeq(case.votes, 1, Len(case.votes)) = case.votes /\ Len(case.votes) \in Nat
  BY <1>1
<1>3. QED
  BY <1>2 DEF Advances

LEMMA VotedCaseAdvances ==
    ASSUME NEW case \in ModerationCase, NEW m \in Members, NEW choice \in VoteChoice,
           MayVote(case, m)
    PROVE  /\ Advances(case, VotedCase(case, [reviewer |-> m, choice |-> choice]))
           /\ ~Adjudicated(VotedCase(case, [reviewer |-> m, choice |-> choice]))
<1> DEFINE vote == [reviewer |-> m, choice |-> choice]
           next == VotedCase(case, vote)
<1>1. case.votes \in Seq(BotVote) /\ vote \in BotVote
  BY DEF ModerationCase, BotVote
<1>2. next.votes = Append(case.votes, vote)
  BY DEF VotedCase, ModerationCase
<1>3. SubSeq(next.votes, 1, Len(case.votes)) = case.votes /\ Len(next.votes) >= Len(case.votes)
  BY <1>1, <1>2
<1>4. ~case.reviewComplete /\ case.status \notin AdjudicatedStatus
  BY DEF MayVote, VotingClosed, Adjudicated
<1>5. /\ next.reporter = case.reporter
      /\ next.subject = case.subject
      /\ case.contained => next.contained
      /\ next.status \in {"temporarily_contained", "community_review_complete", case.status}
  BY DEF VotedCase, ModerationCase
<1>6. next.status \notin AdjudicatedStatus
  BY <1>4, <1>5 DEF AdjudicatedStatus
<1>7. QED
  BY <1>3, <1>4, <1>5, <1>6 DEF Advances, Adjudicated

LEMMA AppealedCaseAdvances ==
    ASSUME NEW case \in ModerationCase, ~Adjudicated(case)
    PROVE  Advances(case, AppealedCase(case)) /\ ~Adjudicated(AppealedCase(case))
<1>1. /\ AppealedCase(case).votes = case.votes
      /\ AppealedCase(case).reporter = case.reporter
      /\ AppealedCase(case).subject = case.subject
      /\ AppealedCase(case).contained = case.contained
      /\ AppealedCase(case).status = "appealed_pending_review"
      /\ AppealedCase(case).reviewComplete
  BY DEF AppealedCase, ModerationCase
<1>2. QED
  BY <1>1, AdvancesReflexive DEF Advances, Adjudicated, AdjudicatedStatus

LEMMA AdjudicatedCaseAdvances ==
    ASSUME NEW case \in ModerationCase, ~Adjudicated(case), NEW confirmedBot \in BOOLEAN
    PROVE  /\ Advances(case, AdjudicatedCase(case, confirmedBot))
           /\ Adjudicated(AdjudicatedCase(case, confirmedBot))
<1>1. /\ AdjudicatedCase(case, confirmedBot).votes = case.votes
      /\ AdjudicatedCase(case, confirmedBot).reporter = case.reporter
      /\ AdjudicatedCase(case, confirmedBot).subject = case.subject
      /\ AdjudicatedCase(case, confirmedBot).contained = confirmedBot
      /\ AdjudicatedCase(case, confirmedBot).status =
             IF confirmedBot THEN "adjudicated_bot" ELSE "adjudicated_human"
      /\ AdjudicatedCase(case, confirmedBot).reviewComplete
  BY DEF AdjudicatedCase, ModerationCase
<1>2. QED
  BY <1>1, AdvancesReflexive DEF Advances, Adjudicated, AdjudicatedStatus

\* One step, seen from the table of cases: old cases advance and keep their invariant, and
\* a case that appears is new, unadjudicated and the only active one of its subject.
CasesStep ==
    /\ CasesInv'
    /\ DOMAIN cases \subseteq DOMAIN cases'
    /\ \A c \in DOMAIN cases : Advances(cases[c], cases'[c])
    /\ \A c \in DOMAIN cases' \ DOMAIN cases :
           /\ DOMAIN cases' = DOMAIN cases \cup {c}
           /\ ~Adjudicated(cases'[c])
           /\ ~HasActiveCase(cases'[c].subject)

LEMMA CaseRewritten ==
    ASSUME TypeOK, CasesInv, NEW c \in DOMAIN cases, NEW new,
           cases' = [cases EXCEPT ![c] = new], CaseInv(new), Advances(cases[c], new)
    PROVE  CasesStep
<1>1. \A d \in DOMAIN cases : cases[d] \in ModerationCase
  BY DEF TypeOK
<1>2. /\ DOMAIN cases' = DOMAIN cases
      /\ \A d \in DOMAIN cases : cases'[d] = IF d = c THEN new ELSE cases[d]
  OBVIOUS
<1>3. \A d \in DOMAIN cases : Advances(cases[d], cases'[d])
  BY <1>1, <1>2, AdvancesReflexive
<1>4. CasesInv'
  BY <1>2 DEF CasesInv
<1>5. QED
  BY <1>2, <1>3, <1>4 DEF CasesStep

LEMMA StepCases == TypeOK /\ CasesInv /\ [Next]_moderationVars => CasesStep
<1> SUFFICES ASSUME TypeOK, CasesInv, [Next]_moderationVars PROVE CasesStep
  OBVIOUS
<1>0. \A c \in DOMAIN cases : cases[c] \in ModerationCase /\ CaseInv(cases[c])
  BY DEF TypeOK, CasesInv
<1>1. ASSUME NEW reporter \in Members, NEW subject \in Profiles, NEW action \in AssessedActions,
             FileBotReport(reporter, subject, action)
      PROVE  CasesStep
  <2> DEFINE new == NewCase(reporter, subject, action)
  <2>1. /\ nextCaseSequence \notin DOMAIN cases
        /\ DOMAIN cases' = DOMAIN cases \cup {nextCaseSequence}
        /\ cases'[nextCaseSequence] = new
        /\ \A c \in DOMAIN cases : cases'[c] = cases[c]
    BY <1>1 DEF FileBotReport, Put, TypeOK, CaseIds
  <2>2. new.subject = subject /\ ~Adjudicated(new)
    BY DEF NewCase, Adjudicated, AdjudicatedStatus
  <2>3. ~HasActiveCase(subject)
    BY <1>1 DEF FileBotReport, MayReport
  <2>4. CaseInv(new)
    BY NewCaseInv
  <2>5. QED
    BY <1>0, <2>1, <2>2, <2>3, <2>4, AdvancesReflexive DEF CasesStep, CasesInv
<1>2. ASSUME NEW c \in DOMAIN cases, NEW reviewer \in Members, NEW choice \in VoteChoice,
             CastBotVote(c, reviewer, choice)
      PROVE  CasesStep
  <2> DEFINE new == VotedCase(cases[c], [reviewer |-> reviewer, choice |-> choice])
  <2>1. cases' = [cases EXCEPT ![c] = new] /\ MayVote(cases[c], reviewer)
    BY <1>2 DEF CastBotVote
  <2>2. CaseInv(new) /\ Advances(cases[c], new)
    BY <1>0, <2>1, VotedCaseInv, VotedCaseAdvances
  <2>3. QED
    BY <2>1, <2>2, CaseRewritten
<1>3. ASSUME NEW c \in DOMAIN cases, NEW subject \in Profiles, AppealBotCase(c, subject)
      PROVE  CasesStep
  <2> DEFINE new == AppealedCase(cases[c])
  <2>1. cases' = [cases EXCEPT ![c] = new] /\ cases[c].contained /\ ~Adjudicated(cases[c])
    BY <1>3 DEF AppealBotCase
  <2>2. CaseInv(new) /\ Advances(cases[c], new)
    BY <1>0, <2>1, AppealedCaseInv, AppealedCaseAdvances
  <2>3. QED
    BY <2>1, <2>2, CaseRewritten
<1>4. ASSUME NEW c \in DOMAIN cases, NEW confirmedBot \in BOOLEAN,
             AdjudicateBotCase(c, confirmedBot)
      PROVE  CasesStep
  <2> DEFINE new == AdjudicatedCase(cases[c], confirmedBot)
  <2>1. cases' = [cases EXCEPT ![c] = new] /\ ~Adjudicated(cases[c])
    BY <1>4 DEF AdjudicateBotCase, ReadyForAdjudication
  <2>2. CaseInv(new) /\ Advances(cases[c], new)
    BY <1>0, <2>1, AdjudicatedCaseInv, AdjudicatedCaseAdvances
  <2>3. QED
    BY <2>1, <2>2, CaseRewritten
<1>5. CASE UNCHANGED moderationVars
  <2>1. cases' = cases
    BY <1>5 DEF moderationVars
  <2>2. QED
    BY <1>0, <2>1, AdvancesReflexive DEF CasesStep, CasesInv
<1>6. QED
  BY <1>1, <1>2, <1>3, <1>4, <1>5 DEF Next

----------------------------------------------------------------------------
(* One active case per profile                                             *)

LEMMA StepOneActive ==
    TypeOK /\ CasesInv /\ OneActiveCasePerProfile /\ [Next]_moderationVars
        => OneActiveCasePerProfile'
<1> SUFFICES ASSUME TypeOK, CasesInv, OneActiveCasePerProfile, CasesStep,
                    NEW c \in DOMAIN cases', NEW d \in DOMAIN cases',
                    ~Adjudicated(cases'[c]), ~Adjudicated(cases'[d]),
                    cases'[c].subject = cases'[d].subject
             PROVE  c = d
  BY StepCases DEF OneActiveCasePerProfile
<1>1. \A e \in DOMAIN cases : /\ cases'[e].subject = cases[e].subject
                              /\ Adjudicated(cases[e]) => Adjudicated(cases'[e])
  BY DEF CasesStep, Advances
<1>2. CASE c \in DOMAIN cases /\ d \in DOMAIN cases
  BY <1>1, <1>2 DEF OneActiveCasePerProfile
<1>3. ASSUME NEW e \in DOMAIN cases' \ DOMAIN cases, NEW f \in DOMAIN cases',
             cases'[e].subject = cases'[f].subject, ~Adjudicated(cases'[f])
      PROVE  e = f
  <2>1. DOMAIN cases' = DOMAIN cases \cup {e} /\ ~HasActiveCase(cases'[e].subject)
    BY <1>3 DEF CasesStep
  <2>2. f \notin DOMAIN cases
    BY <1>1, <1>3, <2>1 DEF HasActiveCase
  <2>3. QED
    BY <2>1, <2>2
<1>4. QED
  BY <1>2, <1>3

----------------------------------------------------------------------------
(* What members are charged with                                           *)

\* Independence makes a member's wrong votes on one case at most one.
LEMMA AtMostOneWrongVote ==
    ASSUME NEW case \in ModerationCase, IndependentVotes(case), NEW m, NEW confirmedBot \in BOOLEAN
    PROVE  Cardinality(WrongVotes(case.votes, m, confirmedBot)) =
               IF WrongVotes(case.votes, m, confirmedBot) = {} THEN 0 ELSE 1
<1> DEFINE W == WrongVotes(case.votes, m, confirmedBot)
<1>1. CASE W = {}
  BY <1>1, FS_EmptySet
<1>2. CASE W # {}
  <2>1. PICK i \in W : TRUE
    BY <1>2
  <2>2. W = {i}
    BY <2>1 DEF IndependentVotes, WrongVotes
  <2>3. QED
    BY <1>2, <2>2, FS_Singleton
<1>3. QED
  BY <1>1, <1>2

LEMMA CasesFinite ==
    ASSUME TypeOK
    PROVE  \A S \in SUBSET (DOMAIN cases) : IsFiniteSet(S) /\ Cardinality(S) \in Nat
<1>1. IsFiniteSet(DOMAIN cases)
  BY FS_Interval, BoundAssumption DEF TypeOK, CaseIds
<1>2. QED
  BY <1>1, FS_Subset, FS_CardinalityType

\* Only a verdict makes a misjudged case, and only of its own case.
LEMMA StepReputation ==
    TypeOK /\ CasesInv /\ ReputationAccounting /\ [Next]_moderationVars => ReputationAccounting'
<1> SUFFICES ASSUME TypeOK, CasesInv, ReputationAccounting, [Next]_moderationVars,
                    NEW m \in Members
             PROVE  reputation'[m] =
                        Penalised(Account[m].reputation, Cardinality(MisjudgedCases(m)'))
  BY DEF ReputationAccounting
<1>0. CasesStep
  BY StepCases
<1>1. ASSUME reputation' = reputation,
             \A c \in DOMAIN cases' : Adjudicated(cases'[c]) =>
                 c \in DOMAIN cases /\ Adjudicated(cases[c])
      PROVE  reputation'[m] =
                 Penalised(Account[m].reputation, Cardinality(MisjudgedCases(m)'))
  <2>1. MisjudgedCases(m)' = MisjudgedCases(m)
    BY <1>0, <1>1 DEF MisjudgedCases, CasesStep, Advances
  <2>2. QED
    BY <1>1, <2>1 DEF ReputationAccounting
<1>2. ASSUME NEW reporter \in Members, NEW subject \in Profiles, NEW action \in AssessedActions,
             FileBotReport(reporter, subject, action)
      PROVE  reputation'[m] =
                 Penalised(Account[m].reputation, Cardinality(MisjudgedCases(m)'))
  <2>1. \A c \in DOMAIN cases : cases'[c] = cases[c]
    BY <1>2 DEF FileBotReport, Put, TypeOK, CaseIds
  <2>2. reputation' = reputation
    BY <1>2 DEF FileBotReport
  <2>3. QED
    BY <1>0, <1>1, <2>1, <2>2 DEF CasesStep
<1>3. ASSUME NEW c \in DOMAIN cases, NEW reviewer \in Members, NEW choice \in VoteChoice,
             CastBotVote(c, reviewer, choice)
      PROVE  reputation'[m] =
                 Penalised(Account[m].reputation, Cardinality(MisjudgedCases(m)'))
  <2> DEFINE new == VotedCase(cases[c], [reviewer |-> reviewer, choice |-> choice])
  <2>1. cases' = [cases EXCEPT ![c] = new] /\ MayVote(cases[c], reviewer)
        /\ reputation' = reputation
    BY <1>3 DEF CastBotVote
  <2>2. ~Adjudicated(new)
    BY <2>1, VotedCaseAdvances DEF TypeOK
  <2>3. QED
    BY <1>1, <2>1, <2>2
<1>4. ASSUME NEW c \in DOMAIN cases, NEW subject \in Profiles, AppealBotCase(c, subject)
      PROVE  reputation'[m] =
                 Penalised(Account[m].reputation, Cardinality(MisjudgedCases(m)'))
  <2>1. /\ cases' = [cases EXCEPT ![c] = AppealedCase(cases[c])]
        /\ ~Adjudicated(cases[c])
        /\ reputation' = reputation
    BY <1>4 DEF AppealBotCase
  <2>2. ~Adjudicated(AppealedCase(cases[c]))
    BY <2>1, AppealedCaseAdvances DEF TypeOK
  <2>3. QED
    BY <1>1, <2>1, <2>2
<1>5. ASSUME NEW c \in DOMAIN cases, NEW confirmedBot \in BOOLEAN,
             AdjudicateBotCase(c, confirmedBot)
      PROVE  reputation'[m] =
                 Penalised(Account[m].reputation, Cardinality(MisjudgedCases(m)'))
  <2> DEFINE old == cases[c]
             new == AdjudicatedCase(old, confirmedBot)
             wrong == WrongVotes(old.votes, m, confirmedBot)
  <2>1. /\ cases' = [cases EXCEPT ![c] = new]
        /\ ~Adjudicated(old)
        /\ reputation'[m] = Penalised(reputation[m], Cardinality(wrong))
    BY <1>5 DEF AdjudicateBotCase, ReadyForAdjudication
  <2>2. old \in ModerationCase /\ IndependentVotes(old)
    BY DEF TypeOK, CasesInv, CaseInv
  <2>3. Adjudicated(new) /\ (VotedWrong(new, m) <=> wrong # {})
    <3>1. new.votes = old.votes /\ ((new.status = "adjudicated_bot") = confirmedBot)
      BY <2>2 DEF AdjudicatedCase, ModerationCase
    <3>2. Adjudicated(new)
      BY <2>1, <2>2, AdjudicatedCaseAdvances
    <3>3. QED
      BY <3>1, <3>2 DEF VotedWrong, WrongVotes
  <2>4. MisjudgedCases(m)' = IF wrong = {} THEN MisjudgedCases(m) ELSE MisjudgedCases(m) \cup {c}
    BY <2>1, <2>3 DEF MisjudgedCases
  <2>5. c \notin MisjudgedCases(m)
    BY <2>1 DEF MisjudgedCases
  <2>6. IsFiniteSet(MisjudgedCases(m)) /\ Cardinality(MisjudgedCases(m)) \in Nat
    BY CasesFinite, MisjudgedCases(m) \in SUBSET (DOMAIN cases) DEF MisjudgedCases
  <2>7. Cardinality(MisjudgedCases(m)') = Cardinality(MisjudgedCases(m)) + Cardinality(wrong)
    <3>1. CASE wrong = {}
      BY <2>4, <2>6, <3>1, FS_EmptySet
    <3>2. CASE wrong # {}
      BY <2>2, <2>4, <2>5, <2>6, <3>2, AtMostOneWrongVote, FS_AddElement
    <3>3. QED
      BY <3>1, <3>2
  <2>8. Cardinality(wrong) \in Nat
    BY <2>2, WrongVotesCount DEF ModerationCase
  <2>9. Account[m].reputation \in Nat
    BY AccountAssumption DEF IsCommunityMember
  <2>10. reputation[m] = Penalised(Account[m].reputation, Cardinality(MisjudgedCases(m)))
    BY DEF ReputationAccounting
  <2>11. QED
    BY <2>1, <2>6, <2>7, <2>8, <2>9, <2>10, PenalisedTwice
<1>6. CASE UNCHANGED moderationVars
  BY <1>1, <1>6 DEF moderationVars
<1>7. QED
  BY <1>2, <1>3, <1>4, <1>5, <1>6 DEF Next

LEMMA StepReports ==
    TypeOK /\ CasesInv /\ ReportAccounting /\ [Next]_moderationVars => ReportAccounting'
<1> SUFFICES ASSUME TypeOK, CasesInv, ReportAccounting, [Next]_moderationVars,
                    NEW m \in Members
             PROVE  /\ reportsInWindow'[m] =
                           Account[m].reports + Cardinality(CasesReportedBy(m)')
                    /\ reportsInWindow'[m] <= MAX_REPORTS_PER_WINDOW
  BY DEF ReportAccounting
<1>0. CasesStep
  BY StepCases
<1>1. ASSUME NEW reporter \in Members, NEW subject \in Profiles, NEW action \in AssessedActions,
             FileBotReport(reporter, subject, action)
      PROVE  /\ reportsInWindow'[m] = Account[m].reports + Cardinality(CasesReportedBy(m)')
             /\ reportsInWindow'[m] <= MAX_REPORTS_PER_WINDOW
  <2> DEFINE n == nextCaseSequence
  <2>1. /\ n \notin DOMAIN cases
        /\ DOMAIN cases' = DOMAIN cases \cup {n}
        /\ cases'[n].reporter = reporter
        /\ \A c \in DOMAIN cases : cases'[c] = cases[c]
    BY <1>1 DEF FileBotReport, Put, TypeOK, CaseIds, NewCase
  <2>2. /\ reportsInWindow'[m] = IF m = reporter THEN reportsInWindow[m] + 1 ELSE reportsInWindow[m]
        /\ reportsInWindow[reporter] < MAX_REPORTS_PER_WINDOW
    BY <1>1 DEF FileBotReport, MayReport, WithinReportLimit, TypeOK
  <2>3. /\ IsFiniteSet(CasesReportedBy(m))
        /\ Cardinality(CasesReportedBy(m)) \in Nat
        /\ n \notin CasesReportedBy(m)
    BY <2>1, CasesFinite, CasesReportedBy(m) \in SUBSET (DOMAIN cases) DEF CasesReportedBy
  <2>4. Account[m].reports \in Nat /\ reportsInWindow[m] \in Nat
    BY AccountAssumption DEF IsCommunityMember, MAX_REPORTS_PER_WINDOW, TypeOK
  <2>5. CASE m = reporter
    <3>1. CasesReportedBy(m)' = CasesReportedBy(m) \cup {n}
      BY <2>1, <2>5 DEF CasesReportedBy
    <3>2. Cardinality(CasesReportedBy(m)') = Cardinality(CasesReportedBy(m)) + 1
      BY <2>3, <3>1, FS_AddElement
    <3>3. QED
      BY <2>2, <2>3, <2>4, <2>5, <3>2 DEF ReportAccounting, MAX_REPORTS_PER_WINDOW
  <2>6. CASE m # reporter
    <3>1. CasesReportedBy(m)' = CasesReportedBy(m)
      BY <2>1, <2>6 DEF CasesReportedBy
    <3>2. QED
      BY <2>2, <2>6, <3>1 DEF ReportAccounting
  <2>7. QED
    BY <2>5, <2>6
<1>2. ASSUME reportsInWindow' = reportsInWindow, DOMAIN cases' = DOMAIN cases
      PROVE  /\ reportsInWindow'[m] = Account[m].reports + Cardinality(CasesReportedBy(m)')
             /\ reportsInWindow'[m] <= MAX_REPORTS_PER_WINDOW
  <2>1. CasesReportedBy(m)' = CasesReportedBy(m)
    BY <1>0, <1>2 DEF CasesReportedBy, CasesStep, Advances
  <2>2. QED
    BY <1>2, <2>1 DEF ReportAccounting
<1>3. CASE \E c \in DOMAIN cases, reviewer \in Members, choice \in VoteChoice :
               CastBotVote(c, reviewer, choice)
  BY <1>2, <1>3 DEF CastBotVote
<1>4. CASE \E c \in DOMAIN cases, subject \in Profiles : AppealBotCase(c, subject)
  BY <1>2, <1>4 DEF AppealBotCase
<1>5. CASE \E c \in DOMAIN cases, confirmedBot \in BOOLEAN : AdjudicateBotCase(c, confirmedBot)
  BY <1>2, <1>5 DEF AdjudicateBotCase
<1>6. CASE UNCHANGED moderationVars
  BY <1>2, <1>6 DEF moderationVars
<1>7. QED
  BY <1>1, <1>3, <1>4, <1>5, <1>6 DEF Next

----------------------------------------------------------------------------
(* The inductive invariant                                                 *)

IInv ==
    /\ TypeOK
    /\ CasesInv
    /\ OneActiveCasePerProfile
    /\ ReputationAccounting
    /\ ReportAccounting

LEMMA InitIInv == Init => IInv
<1>1. SUFFICES ASSUME Init PROVE IInv
  OBVIOUS
<1>2. TypeOK
  BY <1>1, InitType
<1>3. DOMAIN cases = {}
  BY <1>1 DEF Init
<1>4. CasesInv /\ OneActiveCasePerProfile
  BY <1>3 DEF CasesInv, OneActiveCasePerProfile
<1>5. ASSUME NEW m \in Members
      PROVE  /\ reputation[m] = Penalised(Account[m].reputation, Cardinality(MisjudgedCases(m)))
             /\ reportsInWindow[m] = Account[m].reports + Cardinality(CasesReportedBy(m))
             /\ reportsInWindow[m] <= MAX_REPORTS_PER_WINDOW
  <2>1. Cardinality(MisjudgedCases(m)) = 0 /\ Cardinality(CasesReportedBy(m)) = 0
    BY <1>3, FS_EmptySet DEF MisjudgedCases, CasesReportedBy
  <2>2. Account[m].reputation \in Nat /\ Account[m].reports \in 0 .. MAX_REPORTS_PER_WINDOW
    BY AccountAssumption DEF IsCommunityMember
  <2>3. QED
    BY <1>1, <2>1, <2>2 DEF Init, Penalised, WRONG_VOTE_PENALTY, MAX_REPORTS_PER_WINDOW
<1>6. QED
  BY <1>2, <1>4, <1>5 DEF IInv, ReputationAccounting, ReportAccounting

LEMMA StepIInv == IInv /\ [Next]_moderationVars => IInv'
<1>1. IInv /\ [Next]_moderationVars => CasesInv'
  BY StepCases DEF IInv, CasesStep
<1>2. QED
  BY <1>1, StepType, StepOneActive, StepReputation, StepReports DEF IInv

LEMMA Invariance == Spec => []IInv
BY InitIInv, StepIInv, PTL DEF Spec

----------------------------------------------------------------------------
(* The results                                                             *)

\* No interleaving of reports, appeals and verdicts puts a profile under two active cases.
THEOREM OneActiveCase == Spec => []OneActiveCasePerProfile
<1>1. IInv => OneActiveCasePerProfile
  BY DEF IInv
<1>2. QED
  BY <1>1, Invariance, PTL

\* A case's votes come from distinct clusters and from nobody with a stake in it.
THEOREM ReviewersIndependent == Spec => []IndependentReview
<1>1. IInv => IndependentReview
  BY DEF IInv, CasesInv, CaseInv, IndependentReview
<1>2. QED
  BY <1>1, Invariance, PTL

\* No containment without the automated assessment or two clusters of a full quorum.
THEOREM NobodyBuriedByOneVoter == Spec => []ContainmentJustified
<1>1. ASSUME IInv, NEW c \in DOMAIN cases
      PROVE  JustifiedContainment(cases[c])
  <2>1. cases[c] \in ModerationCase /\ IndependentVotes(cases[c]) /\ BackedContainment(cases[c])
    BY <1>1 DEF IInv, TypeOK, CasesInv, CaseInv
  <2>2. QED
    BY <2>1, CommunityContainmentWitnesses DEF JustifiedContainment, BackedContainment
<1>2. IInv => ContainmentJustified
  BY <1>1 DEF ContainmentJustified
<1>3. QED
  BY <1>2, Invariance, PTL

\* The status never disagrees with what the votes, the appeal and the verdict made it.
THEOREM StatusFaithful == Spec => []StatusSummarisesCase
<1>1. IInv => StatusSummarisesCase
  BY DEF IInv, CasesInv, CaseInv, StatusSummarisesCase
<1>2. QED
  BY <1>1, Invariance, PTL

\* Every misjudged case is charged exactly once.
THEOREM ReputationAccounted == Spec => []ReputationAccounting
<1>1. IInv => ReputationAccounting
  BY DEF IInv
<1>2. QED
  BY <1>1, Invariance, PTL

\* Every report is counted and nobody passes the limit.
THEOREM ReportsAccounted == Spec => []ReportAccounting
<1>1. IInv => ReportAccounting
  BY DEF IInv
<1>2. QED
  BY <1>1, Invariance, PTL

\* The reviewers offered for a case are those whose vote would be accepted.
THEOREM EligibleReviewers == Spec => []EligibleReviewersExact
<1>1. ASSUME IInv, NEW c \in DOMAIN cases
      PROVE  EligibleReviewerIds(c) = {m \in Members : MayVote(cases[c], m)}
  <2>1. Adjudicated(cases[c]) => cases[c].reviewComplete
    BY <1>1 DEF IInv, CasesInv, CaseInv, StatusIsSummary, Adjudicated, AdjudicatedStatus
  <2>2. QED
    BY <2>1 DEF EligibleReviewerIds, MayVote, VotingClosed, IsParty, HasVoted, ClusterHasVoted
<1>2. IInv => EligibleReviewersExact
  BY <1>1 DEF EligibleReviewersExact
<1>3. QED
  BY <1>2, Invariance, PTL

\* A contained profile comes back only through a human verdict.
THEOREM OnlyAVerdictLifts == Spec => ContainmentLiftedOnlyByVerdict
<1>1. ASSUME IInv, [Next]_moderationVars, NEW p \in ContainedProfileIds \ ContainedProfileIds'
      PROVE  \E c \in DOMAIN cases : /\ cases[c].subject = p
                                     /\ ~Adjudicated(cases[c])
                                     /\ cases'[c].status = "adjudicated_human"
  <2>1. PICK c \in DOMAIN cases : cases[c].contained /\ cases[c].subject = p
    BY DEF ContainedProfileIds
  <2>2. CasesStep
    BY <1>1, StepCases DEF IInv
  <2>3. c \in DOMAIN cases' /\ Advances(cases[c], cases'[c])
    BY <2>2 DEF CasesStep
  <2>4. ~cases'[c].contained
    BY <2>1, <2>3 DEF ContainedProfileIds, Advances
  <2>5. QED
    BY <2>1, <2>3, <2>4 DEF Advances
<1>2. IInv /\ [Next]_moderationVars =>
          [\A p \in ContainedProfileIds \ ContainedProfileIds' :
              \E c \in DOMAIN cases : /\ cases[c].subject = p
                                      /\ ~Adjudicated(cases[c])
                                      /\ cases'[c].status = "adjudicated_human"]_moderationVars
  BY <1>1
<1>3. QED
  BY <1>2, Invariance, PTL DEF Spec, ContainmentLiftedOnlyByVerdict

\* The record a verdict rests on is append-only, and closed once the review is over.
THEOREM RecordFrozen == Spec => ReviewRecordFrozen
<1>1. IInv /\ [Next]_moderationVars =>
          [\A c \in DOMAIN cases :
              /\ c \in DOMAIN cases'
              /\ cases'[c].subject = cases[c].subject
              /\ Len(cases'[c].votes) >= Len(cases[c].votes)
              /\ SubSeq(cases'[c].votes, 1, Len(cases[c].votes)) = cases[c].votes
              /\ cases[c].reviewComplete => cases'[c].votes = cases[c].votes
              /\ Adjudicated(cases[c]) => cases'[c] = cases[c]]_moderationVars
  BY StepCases DEF IInv, CasesStep, Advances
<1>2. QED
  BY <1>1, Invariance, PTL DEF Spec, ReviewRecordFrozen

\* No step raises a reputation.
LEMMA ReputationFalls ==
    ASSUME TypeOK, [Next]_moderationVars, NEW m \in Members
    PROVE  reputation'[m] <= reputation[m]
<1>1. ASSUME NEW c \in DOMAIN cases, NEW confirmedBot \in BOOLEAN,
             AdjudicateBotCase(c, confirmedBot)
      PROVE  reputation'[m] <= reputation[m]
  <2>1. cases[c].votes \in Seq(BotVote)
    BY DEF TypeOK, ModerationCase
  <2>2. PICK n \in Nat : reputation'[m] = Penalised(reputation[m], n)
    BY <1>1, <2>1, WrongVotesCount DEF AdjudicateBotCase
  <2>3. reputation[m] \in Nat
    BY DEF TypeOK
  <2>4. QED
    BY <2>2, <2>3 DEF Penalised, WRONG_VOTE_PENALTY
<1>2. ASSUME UNCHANGED reputation
      PROVE  reputation'[m] <= reputation[m]
  BY <1>2 DEF TypeOK
<1>3. QED
  BY <1>1, <1>2 DEF Next, FileBotReport, CastBotVote, AppealBotCase, moderationVars

\* A reviewer who cannot be asked about a case now can never be asked about it again.
THEOREM ReviewersAreNotRestored == Spec => ReviewerPoolOnlyShrinks
<1>1. ASSUME IInv, [Next]_moderationVars, NEW c \in DOMAIN cases
      PROVE  EligibleReviewerIds(c)' \subseteq EligibleReviewerIds(c)
  <2>1. CasesStep /\ TypeOK
    BY <1>1, StepCases DEF IInv
  <2>2. /\ c \in DOMAIN cases' /\ cases'[c].reporter = cases[c].reporter
        /\ cases'[c].subject = cases[c].subject
        /\ cases[c].reviewComplete => cases'[c].reviewComplete
        /\ Len(cases'[c].votes) >= Len(cases[c].votes)
        /\ SubSeq(cases'[c].votes, 1, Len(cases[c].votes)) = cases[c].votes
    BY <2>1 DEF CasesStep, Advances
  <2>3. cases[c].votes \in Seq(BotVote) /\ cases'[c].votes \in Seq(BotVote)
    BY <1>1, <2>1, <2>2, StepType DEF TypeOK, ModerationCase
  <2>4. \A i \in DOMAIN cases[c].votes :
            i \in DOMAIN cases'[c].votes /\ cases'[c].votes[i] = cases[c].votes[i]
    <3>1. SUFFICES ASSUME NEW i \in 1 .. Len(cases[c].votes)
                   PROVE  i \in DOMAIN cases'[c].votes /\ cases'[c].votes[i] = cases[c].votes[i]
      BY <2>3
    <3>2. SubSeq(cases'[c].votes, 1, Len(cases[c].votes))[i] = cases'[c].votes[i]
      BY <2>2, <2>3
    <3>3. QED
      BY <2>2, <2>3, <3>2
  <2>5. Voters(cases[c]) \subseteq Voters(cases'[c])
    BY <2>4 DEF Voters
  <2>6. VoterClusters(cases[c]) \subseteq VoterClusters(cases'[c])
    BY <2>5 DEF VoterClusters
  <2>7. ASSUME NEW m \in Members, ReviewerIsEligible(m)' PROVE ReviewerIsEligible(m)
    <3>1. reputation'[m] <= reputation[m] /\ reputation[m] \in Nat /\ reputation'[m] \in Nat
      BY <1>1, <2>1, ReputationFalls, StepType DEF TypeOK
    <3>2. QED
      BY <2>7, <3>1 DEF ReviewerIsEligible, MIN_MODERATION_REPUTATION
  <2>8. QED
    BY <2>2, <2>5, <2>6, <2>7 DEF EligibleReviewerIds
<1>2. IInv /\ [Next]_moderationVars =>
          [\A c \in DOMAIN cases : EligibleReviewerIds(c)' \subseteq EligibleReviewerIds(c)]_moderationVars
  BY <1>1
<1>3. QED
  BY <1>2, Invariance, PTL DEF Spec, ReviewerPoolOnlyShrinks

============================================================================
