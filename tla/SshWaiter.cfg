SPECIFICATION FairSpec
CONSTANTS
    Ports = {5910, 5911}
    Waiters = {"a", "b"}
    Owners = {"a", "b"}
    MaxLines = 3
    Mishaps = {}
INVARIANTS
    TypeOK
PROPERTIES
    AnswersOnce
    TunnelsMatch
    EndIsSeen
CHECK_DEADLOCK FALSE
