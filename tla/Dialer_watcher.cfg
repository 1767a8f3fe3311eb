CONSTANTS
    Dials = {d1}
    TcpConns = {c1}
    Streams = {}
    NoDial = NoDial
    NoConn = NoConn
SPECIFICATION Spec
INVARIANTS ReleasedConnStaysOpen
CHECK_DEADLOCK FALSE
