SPECIFICATION FairSpec
CONSTANTS
    MaxRects = 2
    MaxRequests = 3
INVARIANTS
    TypeOK
    NoStall
    PaintedIsShown
    BlankIsAskedFor
PROPERTIES
    AsksAgain
CHECK_DEADLOCK FALSE
