SPECIFICATION FairSpec
CONSTANTS
    Versions <- MCVersions
    Offers <- MCOffers
INVARIANTS
    TypeOK
    InStep
PROPERTIES
    HandshakeEnds
CHECK_DEADLOCK FALSE
