SPECIFICATION Spec
CONSTANTS
    Waiters = {"first", "second"}
    MaxFd = 2
    MaxAddresses = 2
INVARIANTS
    ConnectsOwnSocket
