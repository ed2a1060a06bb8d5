--------------------------- MODULE Conversations ---------------------------
(***************************************************************************)
(* Decisions, matches and transcripts of one viewer:                       *)
(* src/src/swipe_dating/domain/conversations.py                            *)
(*                                                                         *)
(* A match is keyed "match:<candidate id>" in the code; here by the        *)
(* candidate itself.  A transition that raises DomainError, or returns the *)
(* state it was given, is a disabled action.                               *)
(*                                                                         *)
(* Abstracted: names, age bands and the times of events (whether a match   *)
(* has ended is kept); the bodies of messages are members of Texts or, for *)
(* a meetup proposal, the id of its suggestion.  Bodies that are blank or  *)
(* over 500 characters are refused before the state is touched.            *)
(***************************************************************************)
EXTENDS Integers, Sequences, FiniteSets

CONSTANTS
    Candidates,        \* candidate ids
    Texts,             \* acceptable message bodies
    StarterTags,       \* normalised starter tags, NoTag for none
    SuggestionInputs,  \* meetup suggestion ids a caller may name
    NoTag,
    NoCandidate,
    MaxEvents,         \* bound: decisions ever recorded
    MaxMessages        \* bound: messages ever sent

MatchStatus == {"active", "unmatched", "blocked"}
DecisionKind == {"pass", "interest"}
Sender == {"local", "candidate"}

\* build_meetup_suggestions
MeetupSuggestions == {"coffee_public", "museum_daytime", "public_activity"}

Decision == [id : 1 .. MaxEvents, candidate : Candidates, kind : DecisionKind,
             starterTag : StarterTags \cup {NoTag}, createsMatch : BOOLEAN]

Message == [id : 1 .. MaxMessages, sender : Sender, body : Texts \cup MeetupSuggestions]

ConversationMatch ==
    [status        : MatchStatus,
     starterTag    : StarterTags \cup {NoTag},
     ended         : BOOLEAN,
     contentPurged : BOOLEAN,
     messages      : Seq(Message)]

ASSUME ConversationBounds == MaxEvents \in Nat /\ MaxMessages \in Nat
ASSUME NoCandidateAssumption == NoCandidate \notin Candidates
ASSUME TextAssumption == Texts \cap MeetupSuggestions = {}

VARIABLES
    decisions,             \* the stack of swipes, oldest first
    matches,               \* candidate -> ConversationMatch
    blockedCandidateIds,
    nextEventSequence,
    nextMessageSequence,
    lastRestoredCandidateId

conversationVars == <<decisions, matches, blockedCandidateIds, nextEventSequence,
                      nextMessageSequence, lastRestoredCandidateId>>

Decided == {decisions[i].candidate : i \in DOMAIN decisions}

\* Fault: a decision alone no longer suppresses the candidate.
SuppressedWithoutDecisions == blockedCandidateIds \cup DOMAIN matches

\* get_suppressed_candidate_ids
SuppressedCandidateIds == blockedCandidateIds \cup Decided \cup DOMAIN matches

\* matches with c bound to m, as in {**state.matches, match_id: match}
WithMatch(c, m) == [d \in DOMAIN matches \cup {c} |-> IF d = c THEN m ELSE matches[d]]

IsActive(c) == c \in DOMAIN matches /\ matches[c].status = "active"

\* Fault: a match that has not been blocked still takes messages.
IsNotBlocked(c) == c \in DOMAIN matches /\ matches[c].status # "blocked"

\* _require_active_match
RequireActiveMatch(c) == IsActive(c)

----------------------------------------------------------------------------
(* create_conversation_state                                               *)

Init ==
    /\ decisions = <<>>
    /\ matches = [c \in {} |-> {}]
    /\ blockedCandidateIds = {}
    /\ nextEventSequence = 1
    /\ nextMessageSequence = 1
    /\ lastRestoredCandidateId = NoCandidate

----------------------------------------------------------------------------
(* record_pass, record_interest                                            *)

\* _assert_candidate_available
Available(c) == c \notin blockedCandidateIds /\ c \notin SuppressedCandidateIds

NewDecision(c, kind, tag, createsMatch) ==
    [id |-> nextEventSequence, candidate |-> c, kind |-> kind,
     starterTag |-> tag, createsMatch |-> createsMatch]

\* Fault: a new swipe leaves the restored card in place.
RestoredCardKept == lastRestoredCandidateId

RestoredAfterDecision == NoCandidate

Record(decision) ==
    /\ nextEventSequence <= MaxEvents
    /\ decisions' = Append(decisions, decision)
    /\ nextEventSequence' = nextEventSequence + 1
    /\ lastRestoredCandidateId' = RestoredAfterDecision
    /\ UNCHANGED <<blockedCandidateIds, nextMessageSequence>>

RecordPass(c) ==
    /\ Available(c)
    /\ Record(NewDecision(c, "pass", NoTag, FALSE))
    /\ UNCHANGED matches

NewMatch(tag) ==
    [status |-> "active", starterTag |-> tag, ended |-> FALSE,
     contentPurged |-> FALSE, messages |-> <<>>]

RecordInterest(c, tag, reciprocal) ==
    /\ Available(c)
    /\ Record(NewDecision(c, "interest", tag, reciprocal))
    /\ matches' = IF reciprocal THEN WithMatch(c, NewMatch(tag)) ELSE matches

----------------------------------------------------------------------------
(* undo_last_decision                                                      *)

LastDecision == decisions[Len(decisions)]

\* Fault: the match of an undone interest is forgotten about.
CanUndoAnything == decisions # <<>>

CanUndo == decisions # <<>> /\ ~LastDecision.createsMatch

RestoredBy(decision) == decision.candidate

\* With no decision, or a last one that made a match, the state is returned as it is.
UndoLastDecision ==
    /\ CanUndo
    /\ decisions' = SubSeq(decisions, 1, Len(decisions) - 1)
    /\ lastRestoredCandidateId' = RestoredBy(LastDecision)
    /\ UNCHANGED <<matches, blockedCandidateIds, nextEventSequence, nextMessageSequence>>

----------------------------------------------------------------------------
(* send_message, receive_synthetic_reply, send_meetup_proposal             *)

MessageNumber(c) == nextMessageSequence

\* The two senders differ only in the name they put on the message.
AddMessage(c, sender, body) ==
    /\ RequireActiveMatch(c)
    /\ nextMessageSequence <= MaxMessages
    /\ matches' = [matches EXCEPT ![c].messages =
                       Append(@, [id |-> MessageNumber(c), sender |-> sender, body |-> body])]
    /\ nextMessageSequence' = nextMessageSequence + 1
    /\ UNCHANGED <<decisions, blockedCandidateIds, nextEventSequence, lastRestoredCandidateId>>

SendMessage(c, text) == AddMessage(c, "local", text)

ReceiveSyntheticReply(c, text) == AddMessage(c, "candidate", text)

Senders(messages) == {messages[i].sender : i \in DOMAIN messages}

\* Fault: any two messages count as a conversation.
TwoMessages(messages) == Len(messages) >= 2

TwoWay(messages) == Sender \subseteq Senders(messages)

SendMeetupProposal(c, suggestion) ==
    /\ RequireActiveMatch(c)
    /\ TwoWay(matches[c].messages)
    /\ suggestion \in MeetupSuggestions
    /\ AddMessage(c, "local", suggestion)

----------------------------------------------------------------------------
(* unmatch_conversation, block_conversation                                *)

UnmatchConversation(c) ==
    /\ IsActive(c)
    /\ matches' = [matches EXCEPT ![c].status = "unmatched", ![c].ended = TRUE]
    /\ UNCHANGED <<decisions, blockedCandidateIds, nextEventSequence, nextMessageSequence,
                   lastRestoredCandidateId>>

\* Fault: a block of a conversation that had already ended keeps its transcript.
PurgedIfActive(match) ==
    [match EXCEPT !.status = "blocked", !.starterTag = NoTag, !.ended = TRUE,
                  !.contentPurged = TRUE,
                  !.messages = IF match.status = "active" THEN <<>> ELSE @]

Purged(match) ==
    [match EXCEPT !.status = "blocked", !.starterTag = NoTag, !.ended = TRUE,
                  !.contentPurged = TRUE, !.messages = <<>>]

\* In whatever state the match is, a blocked one included.
BlockConversation(c) ==
    /\ c \in DOMAIN matches
    /\ blockedCandidateIds' = blockedCandidateIds \cup {c}
    /\ matches' = [matches EXCEPT ![c] = Purged(@)]
    /\ UNCHANGED <<decisions, nextEventSequence, nextMessageSequence, lastRestoredCandidateId>>

----------------------------------------------------------------------------

Next ==
    \/ \E c \in Candidates : RecordPass(c)
    \/ \E c \in Candidates, tag \in StarterTags \cup {NoTag}, reciprocal \in BOOLEAN :
           RecordInterest(c, tag, reciprocal)
    \/ UndoLastDecision
    \/ \E c \in DOMAIN matches, text \in Texts : SendMessage(c, text)
    \/ \E c \in DOMAIN matches, text \in Texts : ReceiveSyntheticReply(c, text)
    \/ \E c \in DOMAIN matches, suggestion \in SuggestionInputs : SendMeetupProposal(c, suggestion)
    \/ \E c \in DOMAIN matches : UnmatchConversation(c)
    \/ \E c \in DOMAIN matches : BlockConversation(c)

Spec == Init /\ [][Next]_conversationVars

----------------------------------------------------------------------------
(* Properties                                                              *)

\* The fields hold what the dataclasses declare; a match has ended exactly when it is not
\* active.
TypeOK ==
    /\ decisions \in Seq(Decision)
    /\ DOMAIN matches \subseteq Candidates
    /\ matches \in [DOMAIN matches -> ConversationMatch]
    /\ \A c \in DOMAIN matches : matches[c].ended <=> matches[c].status # "active"
    /\ blockedCandidateIds \subseteq Candidates
    /\ nextEventSequence \in 1 .. (MaxEvents + 1)
    /\ nextMessageSequence \in 1 .. (MaxMessages + 1)
    /\ lastRestoredCandidateId \in Candidates \cup {NoCandidate}

\* "candidate_already_decided": however often swipes are undone and made again, a candidate
\* has one decision at a time, and ids grow along the stack.
DecidedOnce ==
    \A i, j \in DOMAIN decisions :
        /\ decisions[i].candidate = decisions[j].candidate => i = j
        /\ i < j => decisions[i].id < decisions[j].id
        /\ decisions[i].id < nextEventSequence

\* No unilateral match: a match exists exactly for the reciprocated interests on the stack,
\* ended and blocked matches included.
MatchesHaveConsent ==
    DOMAIN matches = {decisions[i].candidate : i \in {j \in DOMAIN decisions :
                          decisions[j].createsMatch /\ decisions[j].kind = "interest"}}

\* The blocked list and the blocked matches are two records of one fact, and a block leaves
\* nothing of the conversation behind, whether it was active or had ended before.
BlockPurges ==
    /\ blockedCandidateIds = {c \in DOMAIN matches : matches[c].status = "blocked"}
    /\ \A c \in blockedCandidateIds : /\ matches[c].contentPurged
                                      /\ matches[c].messages = <<>>
                                      /\ matches[c].starterTag = NoTag

\* "meetup_requires_two_way_conversation": in every transcript, both sides have spoken before
\* the first proposal.
MeetupAfterTwoWayTalk ==
    \A c \in DOMAIN matches :
        \A i \in DOMAIN matches[c].messages :
            matches[c].messages[i].body \in MeetupSuggestions =>
                Senders(SubSeq(matches[c].messages, 1, i - 1)) = Sender

\* A conversation only ends, and its record only grows or is purged by a block: no message is
\* added to or dropped from an ended one, and a block is for good.
ConversationsOnlyEnd ==
    [][\A c \in DOMAIN matches :
          /\ c \in DOMAIN matches'
          /\ LET old == matches[c]
                 new == matches'[c]
             IN  /\ old.status = "blocked" => new = old
                 /\ old.status = "unmatched" =>
                        new.status = "blocked" \/ new = old
                 /\ new.status # "blocked" =>
                        /\ Len(new.messages) >= Len(old.messages)
                        /\ SubSeq(new.messages, 1, Len(old.messages)) = old.messages]_conversationVars

\* A reciprocated interest pins the stack: undo never removes it, so neither it nor any
\* swipe made before it can be taken back, even after the match has been ended or blocked.
MatchesPinTheStack ==
    [][\A i, j \in DOMAIN decisions :
          i <= j /\ decisions[j].createsMatch =>
              i \in DOMAIN decisions' /\ decisions'[i] = decisions[i]]_conversationVars

============================================================================
