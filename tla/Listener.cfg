SPECIFICATION ListenerFairSpec
CONSTANTS
    Peers = {"p", "q", "r"}
    Profiles = {"default"}
INVARIANTS
    ListenerTypeOK
    ListensOnBoth
PROPERTIES
    LingerersGo
CHECK_DEADLOCK FALSE
