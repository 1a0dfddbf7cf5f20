SPECIFICATION FairSpec
CONSTANTS
    Keys <- MCKeys
    Chars <- MCChars
    Character <- MCCharacter
    EscapeChar = "escape"
    AsciiByOption <- MCAsciiByOption
    Users <- MCUsers
    Texts <- MCTexts
    Drops = FALSE
    MaxPending = 4
INVARIANTS
    TypeOK
    NoPhantoms
    EmulationIsTold
    ResignedHoldsNothing
PROPERTIES
    TapsEnd
