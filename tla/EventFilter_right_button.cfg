SPECIFICATION Spec
CONSTANTS
    Keys <- OneKey
    Chars <- NoEscape
    Character <- MCCharacter
    EscapeChar = "escape"
    AsciiByOption <- MCAsciiByOption
    Users <- HolderWithTwoButtons
    Texts <- MCTexts
    Drops = FALSE
    MaxPending = 4
INVARIANTS
    NoPhantomButton
