\* Three profiles like, repeat and block in every order; nobody publishes presence.
CONSTANTS
    Profiles = {1, 2, 3}
    Regions = {}
    Credentials <- NoCredentials
    LikeInputs <- Directed
    BlockInputs <- Directed
    MaxTime = 0
    MaxTtl = 2
    PageLimit = 2
    Limits = {20}
SPECIFICATION Spec
INVARIANTS
    MatchCanBeLearned
PROPERTIES
    ImplementsConsent
CHECK_DEADLOCK FALSE
