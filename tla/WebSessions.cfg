\* Three requests in two tabs, redirects not counted, with one restart, on two days.
CONSTANTS
    browser = browser
    t1 = t1
    t2 = t2
    p1 = p1
    Browsers = {browser}
    Tabs = {t1, t2}
    BrowserOf <- TabOwner
    Calendar <- AroundTheBirthday
    Addresses = {"/", "/matches"}
    BirthDates <- BornIn2000And2008
    NoCookie = NoCookie
    NoField = NoField
    NoRequest = NoRequest
    NoAnswer = NoAnswer
    Profiles = {p1}
    OtherIds = {}
    Reciprocal = {p1}
    ContainedAtOnce = {p1}
    Truth <- Bot
    MaxRequests = 3
    MaxRestarts = 1
SPECIFICATION Spec
INVARIANTS
    AdultsOnly
PROPERTIES
    CookieLostOnlyToRaces
    DecisionsStand
    RequestsEnd
CHECK_DEADLOCK FALSE
