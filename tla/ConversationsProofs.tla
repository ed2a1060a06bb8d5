------------------------ MODULE ConversationsProofs ------------------------
(***************************************************************************)
(* Proofs about Conversations, for any candidates, texts and bounds.       *)
(***************************************************************************)
EXTENDS Conversations, TLAPS

----------------------------------------------------------------------------
(* The invariant                                                           *)

\* A decision that makes a match is an interest.
MatchingIsInterest ==
    \A i \in DOMAIN decisions : decisions[i].createsMatch => decisions[i].kind = "interest"

\* What a match looks like in each status.
MatchInv(c) ==
    /\ matches[c].status = "blocked" <=> c \in blockedCandidateIds
    /\ matches[c].status = "blocked" =>
           /\ matches[c].contentPurged
           /\ matches[c].messages = <<>>
           /\ matches[c].starterTag = NoTag
    /\ \A i \in DOMAIN matches[c].messages :
           matches[c].messages[i].body \in MeetupSuggestions =>
               Sender \subseteq Senders(SubSeq(matches[c].messages, 1, i - 1))

IInv ==
    /\ TypeOK
    /\ DecidedOnce
    /\ MatchingIsInterest
    /\ MatchesHaveConsent
    /\ blockedCandidateIds \subseteq DOMAIN matches
    /\ \A c \in DOMAIN matches : MatchInv(c)


\* The candidates of the reciprocated interests, as in MatchesHaveConsent.
Consented ==
    {decisions[i].candidate : i \in {j \in DOMAIN decisions :
         decisions[j].createsMatch /\ decisions[j].kind = "interest"}}

LEMMA InitIInv == Init => IInv
<1> SUFFICES ASSUME Init PROVE IInv
    OBVIOUS
<1>1. TypeOK
    BY ConversationBounds DEF Init, TypeOK
<1>2. DOMAIN decisions = {} /\ DOMAIN matches = {}
    BY DEF Init
<1>3. QED
    BY <1>1, <1>2 DEF Init, IInv, DecidedOnce, MatchingIsInterest, MatchesHaveConsent

----------------------------------------------------------------------------
(* Swipes                                                                  *)

\* What every new decision does to the stack.
LEMMA RecordStack ==
    ASSUME IInv, NEW c \in Candidates, NEW kind \in DecisionKind,
           NEW tag \in StarterTags \cup {NoTag}, NEW createsMatch \in BOOLEAN,
           createsMatch => kind = "interest",
           Available(c), Record(NewDecision(c, kind, tag, createsMatch))
    PROVE  /\ decisions' \in Seq(Decision)
           /\ nextEventSequence' \in 1 .. (MaxEvents + 1)
           /\ lastRestoredCandidateId' \in Candidates \cup {NoCandidate}
           /\ DecidedOnce'
           /\ MatchingIsInterest'
           /\ Consented' = Consented \cup (IF createsMatch THEN {c} ELSE {})
<1> DEFINE d == NewDecision(c, kind, tag, createsMatch)
<1> USE ConversationBounds
<1>1. decisions \in Seq(Decision) /\ nextEventSequence \in 1 .. MaxEvents
    BY DEF IInv, TypeOK, Record
<1>2. d \in Decision /\ d.id = nextEventSequence /\ d.candidate = c
      /\ d.kind = kind /\ d.createsMatch = createsMatch
    BY <1>1 DEF NewDecision, Decision
<1> HIDE DEF d
<1>3. /\ decisions' = Append(decisions, d)
      /\ nextEventSequence' = nextEventSequence + 1
      /\ lastRestoredCandidateId' = NoCandidate
    BY DEF Record, RestoredAfterDecision, d
<1>4. /\ decisions' \in Seq(Decision)
      /\ DOMAIN decisions' = DOMAIN decisions \cup {Len(decisions) + 1}
      /\ DOMAIN decisions = 1 .. Len(decisions) /\ Len(decisions) \in Nat
      /\ \A i \in DOMAIN decisions : decisions'[i] = decisions[i]
      /\ decisions'[Len(decisions) + 1] = d
    BY <1>1, <1>2, <1>3
<1>5. \A i \in DOMAIN decisions : decisions[i] \in Decision /\ decisions[i].candidate # c
    BY <1>1 DEF Available, SuppressedCandidateIds, Decided
<1>6. DecidedOnce'
    <2> SUFFICES ASSUME NEW i \in DOMAIN decisions', NEW j \in DOMAIN decisions'
                 PROVE  /\ decisions'[i].candidate = decisions'[j].candidate => i = j
                        /\ i < j => decisions'[i].id < decisions'[j].id
                        /\ decisions'[i].id < nextEventSequence'
        BY DEF DecidedOnce
    <2>1. CASE i \in DOMAIN decisions /\ j \in DOMAIN decisions
        <3>1. decisions[i].id \in Int
            BY <1>5, <2>1 DEF Decision
        <3>2. QED
            BY <1>1, <1>3, <1>4, <2>1, <3>1 DEF IInv, DecidedOnce
    <2>2. CASE i \in DOMAIN decisions /\ j = Len(decisions) + 1
        <3>1. decisions[i].id \in Int /\ decisions[i].id < nextEventSequence
            BY <1>5, <2>2 DEF Decision, IInv, DecidedOnce
        <3>2. QED
            BY <1>1, <1>2, <1>3, <1>4, <1>5, <2>2, <3>1
    <2>3. CASE i = Len(decisions) + 1 /\ j \in DOMAIN decisions
        BY <1>1, <1>2, <1>3, <1>4, <1>5, <2>3
    <2>4. CASE i = Len(decisions) + 1 /\ j = Len(decisions) + 1
        BY <1>1, <1>2, <1>3, <1>4, <2>4
    <2>5. QED
        BY <1>4, <2>1, <2>2, <2>3, <2>4
<1>7. MatchingIsInterest'
    BY <1>2, <1>4 DEF IInv, MatchingIsInterest
<1>8. Consented' = Consented \cup (IF createsMatch THEN {c} ELSE {})
    BY <1>2, <1>4 DEF Consented
<1>9. QED
    BY <1>1, <1>3, <1>4, <1>6, <1>7, <1>8

LEMMA PassIInv ==
    ASSUME IInv, NEW c \in Candidates, RecordPass(c)
    PROVE  IInv'
<1>1. /\ decisions' \in Seq(Decision)
      /\ nextEventSequence' \in 1 .. (MaxEvents + 1)
      /\ lastRestoredCandidateId' \in Candidates \cup {NoCandidate}
      /\ DecidedOnce' /\ MatchingIsInterest' /\ Consented' = Consented
    BY RecordStack DEF RecordPass, DecisionKind
<1>2. UNCHANGED <<matches, blockedCandidateIds, nextMessageSequence>>
    BY DEF RecordPass, Record
<1>3. TypeOK'
    BY <1>1, <1>2 DEF IInv, TypeOK
<1>4. MatchesHaveConsent'
    BY <1>1, <1>2 DEF IInv, MatchesHaveConsent, Consented
<1>5. QED
    BY <1>1, <1>2, <1>3, <1>4 DEF IInv, MatchInv

LEMMA InterestIInv ==
    ASSUME IInv, NEW c \in Candidates, NEW tag \in StarterTags \cup {NoTag},
           NEW reciprocal \in BOOLEAN, RecordInterest(c, tag, reciprocal)
    PROVE  IInv'
<1>1. /\ decisions' \in Seq(Decision)
      /\ nextEventSequence' \in 1 .. (MaxEvents + 1)
      /\ lastRestoredCandidateId' \in Candidates \cup {NoCandidate}
      /\ DecidedOnce' /\ MatchingIsInterest'
      /\ Consented' = Consented \cup (IF reciprocal THEN {c} ELSE {})
    BY RecordStack DEF RecordInterest, DecisionKind
<1>2. /\ UNCHANGED <<blockedCandidateIds, nextMessageSequence>>
      /\ matches' = IF reciprocal THEN WithMatch(c, NewMatch(tag)) ELSE matches
      /\ c \notin blockedCandidateIds
    BY DEF RecordInterest, Record, Available
<1>3. CASE ~reciprocal
    <2>1. TypeOK'
        BY <1>1, <1>2, <1>3 DEF IInv, TypeOK
    <2>2. MatchesHaveConsent'
        BY <1>1, <1>2, <1>3 DEF IInv, MatchesHaveConsent, Consented
    <2>3. QED
        BY <1>1, <1>2, <1>3, <2>1, <2>2 DEF IInv, MatchInv
<1>4. CASE reciprocal
    <2> DEFINE new == NewMatch(tag)
    <2>1. /\ new \in ConversationMatch /\ new.messages = <<>> /\ new.status = "active"
          /\ ~new.ended
        BY DEF NewMatch, ConversationMatch, MatchStatus
    <2> HIDE DEF new
    <2>2. /\ DOMAIN matches' = DOMAIN matches \cup {c}
          /\ matches' = [d \in DOMAIN matches' |-> matches'[d]]
          /\ \A d \in DOMAIN matches' : matches'[d] = IF d = c THEN new ELSE matches[d]
        BY <1>2, <1>4 DEF WithMatch, new
    <2>3. TypeOK'
        BY <1>1, <1>2, <2>1, <2>2 DEF IInv, TypeOK
    <2>4. MatchesHaveConsent'
        BY <1>1, <1>4, <2>2 DEF IInv, MatchesHaveConsent, Consented
    <2>5. ASSUME NEW d \in DOMAIN matches' PROVE MatchInv(d)'
        BY <1>2, <2>1, <2>2 DEF IInv, MatchInv
    <2>6. QED
        BY <1>1, <1>2, <2>2, <2>3, <2>4, <2>5 DEF IInv
<1>5. QED
    BY <1>3, <1>4

LEMMA UndoIInv ==
    ASSUME IInv, UndoLastDecision
    PROVE  IInv'
<1> DEFINE n == Len(decisions)
<1>1. /\ decisions \in Seq(Decision) /\ n \in Nat \ {0} /\ DOMAIN decisions = 1 .. n
      /\ ~decisions[n].createsMatch
    BY DEF UndoLastDecision, CanUndo, LastDecision, IInv, TypeOK
<1>2. /\ decisions' = SubSeq(decisions, 1, n - 1)
      /\ lastRestoredCandidateId' = decisions[n].candidate
      /\ UNCHANGED <<matches, blockedCandidateIds, nextEventSequence, nextMessageSequence>>
    BY DEF UndoLastDecision, RestoredBy, LastDecision
<1> HIDE DEF n
<1>3. /\ decisions' \in Seq(Decision) /\ DOMAIN decisions' = 1 .. (n - 1)
      /\ \A i \in 1 .. (n - 1) : decisions'[i] = decisions[i]
    BY <1>1, <1>2
<1>4. decisions[n] \in Decision
    BY <1>1
<1>5. TypeOK'
    BY <1>2, <1>3, <1>4 DEF IInv, TypeOK, Decision
<1>6. 1 .. (n - 1) \subseteq DOMAIN decisions
    BY <1>1
<1>7. DecidedOnce' /\ MatchingIsInterest'
    BY <1>2, <1>3, <1>6 DEF IInv, DecidedOnce, MatchingIsInterest
<1>8. \A i \in DOMAIN decisions : decisions[i].createsMatch => i \in 1 .. (n - 1)
    BY <1>1
<1>9. Consented' = Consented
    BY <1>3, <1>6, <1>8 DEF Consented
<1>10. QED
    BY <1>2, <1>5, <1>7, <1>9 DEF IInv, MatchesHaveConsent, Consented, MatchInv

----------------------------------------------------------------------------
(* Messages                                                                *)

LEMMA AddMessageIInv ==
    ASSUME IInv, NEW c \in DOMAIN matches, NEW sender \in Sender,
           NEW body \in Texts \cup MeetupSuggestions, AddMessage(c, sender, body),
           body \in MeetupSuggestions => TwoWay(matches[c].messages)
    PROVE  IInv'
<1> DEFINE old == matches[c].messages
           m == [id |-> MessageNumber(c), sender |-> sender, body |-> body]
<1> USE ConversationBounds
<1>1. /\ matches[c] \in ConversationMatch /\ old \in Seq(Message)
      /\ matches[c].status = "active" /\ c \in Candidates
    BY DEF IInv, TypeOK, AddMessage, RequireActiveMatch, IsActive, ConversationMatch
<1>2. m \in Message
    BY DEF AddMessage, MessageNumber, Message, IInv, TypeOK
<1>3. matches' = [matches EXCEPT ![c].messages = Append(old, m)]
    BY DEF AddMessage
<1>4. m.body = body
    OBVIOUS
<1> HIDE DEF m
<1>5. /\ nextMessageSequence' \in 1 .. (MaxMessages + 1)
      /\ UNCHANGED <<decisions, blockedCandidateIds, nextEventSequence,
                     lastRestoredCandidateId>>
    BY DEF AddMessage, IInv, TypeOK
<1>6. Append(old, m) \in Seq(Message)
    BY <1>1, <1>2
<1>7. /\ DOMAIN matches' = DOMAIN matches
      /\ matches' = [d \in DOMAIN matches |-> matches'[d]]
      /\ matches'[c] = [matches[c] EXCEPT !.messages = Append(old, m)]
      /\ \A d \in DOMAIN matches : d # c => matches'[d] = matches[d]
    BY <1>3
<1>8. /\ matches'[c] \in ConversationMatch
      /\ matches'[c].messages = Append(old, m)
      /\ matches'[c].status = matches[c].status /\ matches'[c].ended = matches[c].ended
    BY <1>1, <1>6, <1>7 DEF ConversationMatch
<1>9. TypeOK'
    <2>1. matches' \in [DOMAIN matches' -> ConversationMatch]
        BY <1>7, <1>8 DEF IInv, TypeOK
    <2>2. \A d \in DOMAIN matches' : matches'[d].ended <=> matches'[d].status # "active"
        BY <1>7, <1>8 DEF IInv, TypeOK
    <2>3. QED
        BY <1>5, <1>7, <2>1, <2>2 DEF IInv, TypeOK
<1>10. MatchInv(c)'
    <2>1. ASSUME NEW i \in DOMAIN Append(old, m),
                 Append(old, m)[i].body \in MeetupSuggestions
          PROVE  Sender \subseteq Senders(SubSeq(Append(old, m), 1, i - 1))
        <3>1. /\ i \in 1 .. (Len(old) + 1) /\ Len(old) \in Nat
              /\ SubSeq(Append(old, m), 1, i - 1) = SubSeq(old, 1, i - 1)
            BY <1>1, <1>2
        <3>2. CASE i = Len(old) + 1
            <4>1. Append(old, m)[i] = m /\ SubSeq(old, 1, i - 1) = old
                BY <1>1, <1>2, <3>2
            <4>2. QED
                BY <1>4, <2>1, <3>1, <4>1 DEF TwoWay
        <3>3. CASE i \in DOMAIN old
            <4>1. Append(old, m)[i] = old[i]
                BY <1>1, <1>2, <3>3
            <4>2. QED
                BY <2>1, <3>1, <3>3, <4>1 DEF IInv, MatchInv
        <3>4. QED
            BY <1>1, <3>1, <3>2, <3>3
    <2>2. QED
        BY <1>1, <1>5, <1>8, <2>1 DEF IInv, MatchInv
<1>11. ASSUME NEW d \in DOMAIN matches' PROVE MatchInv(d)'
    BY <1>5, <1>7, <1>10 DEF IInv, MatchInv
<1>12. DecidedOnce' /\ MatchingIsInterest' /\ MatchesHaveConsent'
    BY <1>5, <1>7 DEF IInv, DecidedOnce, MatchingIsInterest, MatchesHaveConsent
<1>13. QED
    BY <1>5, <1>7, <1>9, <1>11, <1>12 DEF IInv

----------------------------------------------------------------------------
(* Ends of conversations                                                   *)

LEMMA UnmatchIInv ==
    ASSUME IInv, NEW c \in DOMAIN matches, UnmatchConversation(c)
    PROVE  IInv'
<1>1. matches[c] \in ConversationMatch /\ matches[c].status = "active"
    BY DEF IInv, TypeOK, UnmatchConversation, IsActive
<1>2. UNCHANGED <<decisions, blockedCandidateIds, nextEventSequence, nextMessageSequence,
                  lastRestoredCandidateId>>
    BY DEF UnmatchConversation
<1>3. /\ DOMAIN matches' = DOMAIN matches
      /\ matches' = [d \in DOMAIN matches |-> matches'[d]]
      /\ matches'[c] = [matches[c] EXCEPT !.status = "unmatched", !.ended = TRUE]
      /\ \A d \in DOMAIN matches : d # c => matches'[d] = matches[d]
    BY DEF UnmatchConversation
<1>4. /\ matches'[c] \in ConversationMatch
      /\ matches'[c].messages = matches[c].messages
      /\ matches'[c].status = "unmatched" /\ matches'[c].ended
    BY <1>1, <1>3 DEF ConversationMatch, MatchStatus
<1>5. TypeOK'
    <2>1. matches' \in [DOMAIN matches' -> ConversationMatch]
        BY <1>3, <1>4 DEF IInv, TypeOK
    <2>2. \A d \in DOMAIN matches' : matches'[d].ended <=> matches'[d].status # "active"
        BY <1>3, <1>4 DEF IInv, TypeOK
    <2>3. QED
        BY <1>2, <1>3, <2>1, <2>2 DEF IInv, TypeOK
<1>6. ASSUME NEW d \in DOMAIN matches' PROVE MatchInv(d)'
    BY <1>1, <1>2, <1>3, <1>4 DEF IInv, MatchInv
<1>7. DecidedOnce' /\ MatchingIsInterest' /\ MatchesHaveConsent'
    BY <1>2, <1>3 DEF IInv, DecidedOnce, MatchingIsInterest, MatchesHaveConsent
<1>8. QED
    BY <1>2, <1>3, <1>5, <1>6, <1>7 DEF IInv

LEMMA PurgedMatch ==
    ASSUME NEW match \in ConversationMatch
    PROVE  /\ Purged(match) \in ConversationMatch
           /\ Purged(match).status = "blocked" /\ Purged(match).ended
           /\ Purged(match).contentPurged
           /\ Purged(match).messages = <<>> /\ Purged(match).starterTag = NoTag
           /\ /\ match.status = "blocked" /\ match.ended /\ match.contentPurged
              /\ match.messages = <<>> /\ match.starterTag = NoTag
              => Purged(match) = match
<1>1. "blocked" \in MatchStatus /\ NoTag \in StarterTags \cup {NoTag} /\ <<>> \in Seq(Message)
    BY DEF MatchStatus
<1>2. Purged(match) \in ConversationMatch
    BY <1>1 DEF Purged, ConversationMatch
<1>3. /\ Purged(match).status = "blocked" /\ Purged(match).ended
      /\ Purged(match).contentPurged
    BY DEF Purged, ConversationMatch
<1>4. Purged(match).messages = <<>> /\ Purged(match).starterTag = NoTag
    BY DEF Purged, ConversationMatch
<1>5. ASSUME match.status = "blocked", match.ended, match.contentPurged,
             match.messages = <<>>, match.starterTag = NoTag
      PROVE  Purged(match) = match
    BY <1>5 DEF Purged, ConversationMatch
<1>6. QED
    BY <1>2, <1>3, <1>4, <1>5

LEMMA BlockIInv ==
    ASSUME IInv, NEW c \in DOMAIN matches, BlockConversation(c)
    PROVE  IInv'
<1>1. matches[c] \in ConversationMatch /\ c \in Candidates
    BY DEF IInv, TypeOK
<1>2. /\ blockedCandidateIds' = blockedCandidateIds \cup {c}
      /\ UNCHANGED <<decisions, nextEventSequence, nextMessageSequence,
                     lastRestoredCandidateId>>
    BY DEF BlockConversation
<1>3. /\ DOMAIN matches' = DOMAIN matches
      /\ matches' = [d \in DOMAIN matches |-> matches'[d]]
      /\ matches'[c] = Purged(matches[c])
      /\ \A d \in DOMAIN matches : d # c => matches'[d] = matches[d]
    BY DEF BlockConversation
<1>4. /\ matches'[c] \in ConversationMatch
      /\ matches'[c].messages = <<>> /\ matches'[c].starterTag = NoTag
      /\ matches'[c].status = "blocked" /\ matches'[c].ended /\ matches'[c].contentPurged
    BY <1>1, <1>3, PurgedMatch
<1>5. TypeOK'
    <2>1. matches' \in [DOMAIN matches' -> ConversationMatch]
        BY <1>3, <1>4 DEF IInv, TypeOK
    <2>2. \A d \in DOMAIN matches' : matches'[d].ended <=> matches'[d].status # "active"
        BY <1>3, <1>4 DEF IInv, TypeOK
    <2>3. QED
        BY <1>1, <1>2, <1>3, <2>1, <2>2 DEF IInv, TypeOK
<1>6. ASSUME NEW d \in DOMAIN matches' PROVE MatchInv(d)'
    <2>1. CASE d = c
        BY <1>2, <1>4, <2>1 DEF MatchInv
    <2>2. CASE d # c
        BY <1>2, <1>3, <2>2 DEF IInv, MatchInv
    <2>3. QED
        BY <2>1, <2>2
<1>7. DecidedOnce' /\ MatchingIsInterest' /\ MatchesHaveConsent'
    BY <1>2, <1>3 DEF IInv, DecidedOnce, MatchingIsInterest, MatchesHaveConsent
<1>8. QED
    BY <1>2, <1>3, <1>5, <1>6, <1>7 DEF IInv

----------------------------------------------------------------------------
(* The specification                                                       *)

LEMMA StutterIInv ==
    ASSUME IInv, UNCHANGED conversationVars
    PROVE  IInv'
BY DEF IInv, conversationVars, TypeOK, DecidedOnce, MatchingIsInterest, MatchesHaveConsent,
       MatchInv

LEMMA NextIInv ==
    ASSUME IInv, [Next]_conversationVars
    PROVE  IInv'
<1>1. ASSUME NEW c \in DOMAIN matches, NEW text \in Texts,
             SendMessage(c, text) \/ ReceiveSyntheticReply(c, text)
      PROVE  IInv'
    BY <1>1, AddMessageIInv, TextAssumption DEF SendMessage, ReceiveSyntheticReply, Sender
<1>2. ASSUME NEW c \in DOMAIN matches, NEW suggestion \in SuggestionInputs,
             SendMeetupProposal(c, suggestion)
      PROVE  IInv'
    BY <1>2, AddMessageIInv DEF SendMeetupProposal, Sender
<1>3. QED
    BY <1>1, <1>2, PassIInv, InterestIInv, UndoIInv, UnmatchIInv, BlockIInv, StutterIInv
    DEF Next

LEMMA AlwaysIInv == Spec => []IInv
BY InitIInv, NextIInv, PTL DEF Spec

\* The fields of ConversationState keep their types, and a match carries an end time exactly
\* when it is no longer active, for any candidates and any bounds.
THEOREM TypeCorrect == Spec => []TypeOK
BY AlwaysIInv, PTL DEF IInv

\* "candidate_already_decided", however often swipes are undone and made again.
THEOREM DecisionsAreUnique == Spec => []DecidedOnce
BY AlwaysIInv, PTL DEF IInv

\* There is no match without a reciprocated interest on the stack, and none of those loses
\* its match: undo, which removes decisions, never reaches one that made a match.
THEOREM ConsentBehindMatches == Spec => []MatchesHaveConsent
BY AlwaysIInv, PTL DEF IInv

\* The blocked list names the blocked matches, all of them without content, whatever the
\* conversation had been through before block_conversation was called.
THEOREM BlocksPurge == Spec => []BlockPurges
<1>1. IInv => BlockPurges
    BY DEF IInv, MatchInv, BlockPurges
<1>2. QED
    BY <1>1, AlwaysIInv, PTL

\* No transcript has a proposal that both sides did not speak before.
THEOREM ProposalsFollowTalk == Spec => []MeetupAfterTwoWayTalk
<1>1. ASSUME IInv PROVE MeetupAfterTwoWayTalk
    <2> SUFFICES ASSUME NEW c \in DOMAIN matches, NEW i \in DOMAIN matches[c].messages,
                        matches[c].messages[i].body \in MeetupSuggestions
                 PROVE  Senders(SubSeq(matches[c].messages, 1, i - 1)) = Sender
        BY DEF MeetupAfterTwoWayTalk
    <2> DEFINE before == SubSeq(matches[c].messages, 1, i - 1)
    <2>1. matches[c].messages \in Seq(Message)
        BY <1>1 DEF IInv, TypeOK, ConversationMatch
    <2>2. before \in Seq(Message)
        BY <2>1
    <2>3. Senders(before) \subseteq Sender
        BY <2>2 DEF Senders, Message
    <2>4. Sender \subseteq Senders(before)
        BY <1>1 DEF IInv, MatchInv
    <2>5. QED
        BY <2>3, <2>4
<1>2. QED
    BY <1>1, AlwaysIInv, PTL

----------------------------------------------------------------------------
(* What a step never does                                                  *)

\* One conversation across one step, as in ConversationsOnlyEnd.
OnlyEnds(c) ==
    /\ c \in DOMAIN matches'
    /\ LET old == matches[c]
           new == matches'[c]
       IN  /\ old.status = "blocked" => new = old
           /\ old.status = "unmatched" => new.status = "blocked" \/ new = old
           /\ new.status # "blocked" =>
                  /\ Len(new.messages) >= Len(old.messages)
                  /\ SubSeq(new.messages, 1, Len(old.messages)) = old.messages

\* A match that a step leaves alone, or whose messages it leaves alone.
LEMMA SameMessagesOnlyEnd ==
    ASSUME IInv, NEW c \in DOMAIN matches, c \in DOMAIN matches',
           matches'[c].messages = matches[c].messages,
           \/ matches'[c] = matches[c]
           \/ matches[c].status = "active"
    PROVE  OnlyEnds(c)
<1>1. matches[c].messages \in Seq(Message)
    BY DEF IInv, TypeOK, ConversationMatch
<1>2. /\ Len(matches[c].messages) >= Len(matches[c].messages)
      /\ SubSeq(matches[c].messages, 1, Len(matches[c].messages)) = matches[c].messages
    BY <1>1
<1>3. QED
    BY <1>2 DEF OnlyEnds

LEMMA AddMessageOnlyEnds ==
    ASSUME IInv, NEW c \in DOMAIN matches, NEW sender \in Sender, NEW body,
           body \in Texts \cup MeetupSuggestions, AddMessage(c, sender, body),
           NEW d \in DOMAIN matches
    PROVE  OnlyEnds(d)
<1> DEFINE m == [id |-> MessageNumber(c), sender |-> sender, body |-> body]
<1> USE ConversationBounds
<1>1. matches[c] \in ConversationMatch /\ matches[c].status = "active"
    BY DEF IInv, TypeOK, AddMessage, RequireActiveMatch, IsActive
<1>2. m \in Message
    BY DEF AddMessage, MessageNumber, Message, IInv, TypeOK
<1>3. matches' = [matches EXCEPT ![c].messages = Append(matches[c].messages, m)]
    BY DEF AddMessage
<1> HIDE DEF m
<1>4. CASE d = c
    <2> DEFINE old == matches[c].messages
    <2>1. old \in Seq(Message)
        BY <1>1 DEF ConversationMatch
    <2>2. d \in DOMAIN matches' /\ matches'[d].messages = Append(old, m)
          /\ matches'[d].status = "active"
        BY <1>1, <1>3, <1>4 DEF ConversationMatch
    <2>3. Len(Append(old, m)) >= Len(old) /\ SubSeq(Append(old, m), 1, Len(old)) = old
        BY <1>2, <2>1
    <2>4. QED
        BY <1>1, <1>4, <2>2, <2>3 DEF OnlyEnds
<1>5. CASE d # c
    BY <1>3, <1>5, SameMessagesOnlyEnd
<1>6. QED
    BY <1>4, <1>5

LEMMA NextOnlyEnds ==
    ASSUME IInv, Next, NEW d \in DOMAIN matches
    PROVE  OnlyEnds(d)
<1>1. ASSUME NEW c \in Candidates, RecordPass(c) PROVE OnlyEnds(d)
    BY <1>1, SameMessagesOnlyEnd DEF RecordPass
<1>2. ASSUME NEW c \in Candidates, NEW tag, NEW reciprocal, RecordInterest(c, tag, reciprocal)
      PROVE  OnlyEnds(d)
    <2>1. c \notin DOMAIN matches
        BY <1>2 DEF RecordInterest, Available, SuppressedCandidateIds
    <2>2. d \in DOMAIN matches' /\ matches'[d] = matches[d]
        BY <1>2, <2>1 DEF RecordInterest, WithMatch
    <2>3. QED
        BY <2>2, SameMessagesOnlyEnd
<1>3. ASSUME UndoLastDecision PROVE OnlyEnds(d)
    BY <1>3, SameMessagesOnlyEnd DEF UndoLastDecision
<1>4. ASSUME NEW c \in DOMAIN matches, NEW text \in Texts,
             SendMessage(c, text) \/ ReceiveSyntheticReply(c, text)
      PROVE  OnlyEnds(d)
    BY <1>4, AddMessageOnlyEnds DEF SendMessage, ReceiveSyntheticReply, Sender
<1>5. ASSUME NEW c \in DOMAIN matches, NEW suggestion, SendMeetupProposal(c, suggestion)
      PROVE  OnlyEnds(d)
    BY <1>5, AddMessageOnlyEnds DEF SendMeetupProposal, Sender
<1>6. ASSUME NEW c \in DOMAIN matches, UnmatchConversation(c) PROVE OnlyEnds(d)
    <2>1. CASE d = c
        <3>1. matches[c] \in ConversationMatch /\ matches[c].status = "active"
            BY <1>6 DEF IInv, TypeOK, UnmatchConversation, IsActive
        <3>2. d \in DOMAIN matches' /\ matches'[d].messages = matches[d].messages
            BY <1>6, <2>1, <3>1 DEF UnmatchConversation, ConversationMatch
        <3>3. QED
            BY <2>1, <3>1, <3>2, SameMessagesOnlyEnd
    <2>2. CASE d # c
        BY <1>6, <2>2, SameMessagesOnlyEnd DEF UnmatchConversation
    <2>3. QED
        BY <2>1, <2>2
<1>7. ASSUME NEW c \in DOMAIN matches, BlockConversation(c) PROVE OnlyEnds(d)
    <2>1. CASE d = c
        <3>1. matches[c] \in ConversationMatch
            BY <1>7 DEF IInv, TypeOK
        <3>2. d \in DOMAIN matches' /\ matches'[d] = Purged(matches[d])
            BY <1>7, <2>1 DEF BlockConversation
        <3>3. Purged(matches[d]).status = "blocked"
            BY <2>1, <3>1, PurgedMatch
        <3>4. matches[d].status = "blocked" => Purged(matches[d]) = matches[d]
            BY <2>1, <3>1, PurgedMatch DEF IInv, MatchInv, TypeOK
        <3>5. QED
            BY <3>2, <3>3, <3>4 DEF OnlyEnds
    <2>2. CASE d # c
        BY <1>7, <2>2, SameMessagesOnlyEnd DEF BlockConversation
    <2>3. QED
        BY <2>1, <2>2
<1>8. QED
    BY <1>1, <1>2, <1>3, <1>4, <1>5, <1>6, <1>7 DEF Next

\* A conversation only ends: no step reopens one, adds to an ended one or drops a message
\* short of the purge of a block, and a second block changes nothing.
THEOREM EndsAreFinal == Spec => ConversationsOnlyEnd
<1>1. ASSUME IInv, [Next]_conversationVars
      PROVE  [\A c \in DOMAIN matches : OnlyEnds(c)]_conversationVars
    BY <1>1, NextOnlyEnds
<1>2. (\A c \in DOMAIN matches : OnlyEnds(c)) <=>
          \A c \in DOMAIN matches :
              /\ c \in DOMAIN matches'
              /\ LET old == matches[c]
                     new == matches'[c]
                 IN  /\ old.status = "blocked" => new = old
                     /\ old.status = "unmatched" =>
                            new.status = "blocked" \/ new = old
                     /\ new.status # "blocked" =>
                            /\ Len(new.messages) >= Len(old.messages)
                            /\ SubSeq(new.messages, 1, Len(old.messages)) = old.messages
    BY DEF OnlyEnds
<1>3. QED
    BY <1>1, <1>2, AlwaysIInv, PTL DEF Spec, ConversationsOnlyEnd

\* Everything at or under a decision that made a match stays on the stack.
Pinned ==
    \A i, j \in DOMAIN decisions :
        i <= j /\ decisions[j].createsMatch =>
            i \in DOMAIN decisions' /\ decisions'[i] = decisions[i]

LEMMA NextPins ==
    ASSUME IInv, Next
    PROVE  Pinned
<1>1. decisions \in Seq(Decision)
    BY DEF IInv, TypeOK
<1>2. ASSUME UNCHANGED decisions PROVE Pinned
    BY <1>2 DEF Pinned
<1>3. ASSUME NEW d, Record(d) PROVE Pinned
    <2>1. decisions' = Append(decisions, d)
        BY <1>3 DEF Record
    <2>2. \A i \in DOMAIN decisions : i \in DOMAIN decisions' /\ decisions'[i] = decisions[i]
        BY <1>1, <2>1
    <2>3. QED
        BY <2>2 DEF Pinned
<1>4. ASSUME UndoLastDecision PROVE Pinned
    <2> DEFINE n == Len(decisions)
    <2>1. n \in Nat \ {0} /\ DOMAIN decisions = 1 .. n /\ ~decisions[n].createsMatch
        BY <1>1, <1>4 DEF UndoLastDecision, CanUndo, LastDecision
    <2>2. decisions' = SubSeq(decisions, 1, n - 1)
        BY <1>4 DEF UndoLastDecision
    <2> HIDE DEF n
    <2>3. /\ DOMAIN decisions' = 1 .. (n - 1)
          /\ \A i \in 1 .. (n - 1) : decisions'[i] = decisions[i]
        BY <1>1, <2>1, <2>2
    <2>4. QED
        BY <2>1, <2>3 DEF Pinned
<1>5. QED
    BY <1>2, <1>3, <1>4
    DEF Next, RecordPass, RecordInterest, SendMessage, ReceiveSyntheticReply,
        SendMeetupProposal, AddMessage, UnmatchConversation, BlockConversation

\* Undo stops at the last match: whatever happened before it can no longer be taken back.
THEOREM MatchesAreNotUndone == Spec => MatchesPinTheStack
<1>1. ASSUME IInv, [Next]_conversationVars
      PROVE  [Pinned]_conversationVars
    BY <1>1, NextPins
<1>2. Pinned <=> \A i, j \in DOMAIN decisions :
                     i <= j /\ decisions[j].createsMatch =>
                         i \in DOMAIN decisions' /\ decisions'[i] = decisions[i]
    BY DEF Pinned
<1>3. QED
    BY <1>1, <1>2, AlwaysIInv, PTL DEF Spec, MatchesPinTheStack

============================================================================
