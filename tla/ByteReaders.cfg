SPECIFICATION FairSpec
CONSTANTS
    Streams <- MCStreams
    MaxSize = 4
    ReadBufSize = 5
INVARIANTS
    TypeOK
PROPERTIES
    DeliversItems
CHECK_DEADLOCK FALSE
