\* Every change, failed save, restart and foreign file, with limits of two.
CONSTANTS
    Blank = blank
    a = a
    b = b
    c = c
    Chars <- Letters
    Names <- UserNames
    SKIN_ITEMS <- Skins
    HandWritten <- Files
    MaxName = 2
    MaxSkins = 2
    MaxSkinId = 2
    Null = Null
    Number = Number
    Unhashable = Unhashable
    NoText = NoText
    BrokenText = BrokenText
    Undecodable = Undecodable
SPECIFICATION Spec
INVARIANTS
    SavedIsShown
PROPERTIES
    SkinsAreKept
CHECK_DEADLOCK FALSE
