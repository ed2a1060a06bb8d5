\* Two sessions save, fail, die and lose power at every point.
CONSTANTS
    s1 = s1
    s2 = s2
    default = default
    edited = edited
    untrimmed = untrimmed
    Sessions = {s1, s2}
    Raw = {default, edited, untrimmed}
    Clean <- Trim
    Default = default
    NoFile = NoFile
    Torn = Torn
    Undecodable = Undecodable
    NoPromise = NoPromise
SPECIFICATION Spec
INVARIANTS
    PromiseKept
    MemoryIsFile
PROPERTIES
    NeverTorn
    ImplementsAtomicSaves
SYMMETRY BothSessions
CHECK_DEADLOCK FALSE
