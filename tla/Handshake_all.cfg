SPECIFICATION FairSpec
CONSTANTS
    Ops <- AllOps
    Creds <- AllCreds
    ServerV2s <- AllServers
INVARIANTS
    TypeOK
    AuthRespected
    Agreement
PROPERTIES
    CompatibleSucceeds
    HandshakeEnds
    CancelledEndsReturn
    FailedEndsClose
CHECK_DEADLOCK FALSE
