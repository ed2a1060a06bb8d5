\* A session opened the day before an eighteenth birthday.
CONSTANTS
    browser = browser
    t1 = t1
    t2 = t2
    p1 = p1
    Browsers = {browser}
    Tabs = {t1, t2}
    BrowserOf <- TabOwner
    Calendar <- AroundTheBirthday
    Addresses = {"/"}
    BirthDates <- BornIn2000And2008
    NoCookie = NoCookie
    NoField = NoField
    NoRequest = NoRequest
    NoAnswer = NoAnswer
    Profiles = {p1}
    OtherIds = {}
    Reciprocal = {p1}
    ContainedAtOnce = {p1}
    Truth <- Bot
    MaxRequests = 2
    MaxRestarts = 0
SPECIFICATION Spec
PROPERTIES
    AdultsAreLetIn
CHECK_DEADLOCK FALSE
