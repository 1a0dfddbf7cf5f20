SPECIFICATION FairSpec
CONSTANTS
    Waiters = {"first", "second"}
    MaxFd = 2
    MaxAddresses = 2
INVARIANTS
    TypeOK
PROPERTIES
    AnswersOnce
    ClosesOwn
    EndIsSeen
