SPECIFICATION FairSpec
CONSTANTS
    Positions <- MCPositions
    Masks <- MCMasks
    Size <- MCSize
    BufferSize = 18
    MaxMessages = 5
INVARIANTS
    TypeOK
    BufferFits
    ServerKnowsPointer
PROPERTIES
    ReachesServer
    MovesArrive
CHECK_DEADLOCK FALSE
