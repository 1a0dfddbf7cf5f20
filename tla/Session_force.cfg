SPECIFICATION Spec
CONSTANTS
    Waiters = {"a", "b", "c"}
    Mishaps = {"force"}
INVARIANTS
    ClosedIsQuiet
CHECK_DEADLOCK FALSE
