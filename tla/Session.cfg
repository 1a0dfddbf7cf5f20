SPECIFICATION FairSpec
CONSTANTS
    Waiters = {"a", "b", "c"}
    Mishaps = {}
INVARIANTS
    TypeOK
    OneAtATime
    ClosedIsQuiet
    NoDeadSession
PROPERTIES
    CancelIsOffered
CHECK_DEADLOCK FALSE
