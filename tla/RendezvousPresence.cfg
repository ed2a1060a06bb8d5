\* Leases, blocks and restarts; profile 4 finds more than a page holds.
CONSTANTS
    Profiles = {1, 2, 3, 4}
    Regions = {"rnd:a", "rnd:b"}
    Credentials <- SomeCredentials
    LikeInputs <- SomeLikes
    BlockInputs <- SomeBlocks
    MaxTime = 3
    MaxTtl = 2
    PageLimit = 2
    Limits <- SomeLimits
SPECIFICATION SpecWithRestarts
INVARIANTS
    ReceiptsHaveConsent
    BlockedAreApart
    LeasesAreEntitled
    PagesAreNested
CHECK_DEADLOCK FALSE
