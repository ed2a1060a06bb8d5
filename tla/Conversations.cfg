\* Swipes, undos, transcripts, ends and blocks in every order.
CONSTANTS
    c1 = c1
    c2 = c2
    c3 = c3
    Candidates = {c1, c2, c3}
    Texts = {"hello"}
    StarterTags = {"music"}
    SuggestionInputs = {"coffee_public", "unknown"}
    NoTag = NoTag
    NoCandidate = NoCandidate
    MaxEvents = 4
    MaxMessages = 3
SPECIFICATION Spec
INVARIANTS
    DecidedOnce
    MatchesHaveConsent
    BlockPurges
    MeetupAfterTwoWayTalk
PROPERTIES
    ConversationsOnlyEnd
    MatchesPinTheStack
SYMMETRY Interchangeable
CHECK_DEADLOCK FALSE
