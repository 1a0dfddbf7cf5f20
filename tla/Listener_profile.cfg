SPECIFICATION ListenerSpec
CONSTANTS
    Peers = {"p", "q", "r"}
    Profiles = {"default"}
INVARIANTS
    HandedWithProfile
CHECK_DEADLOCK FALSE
