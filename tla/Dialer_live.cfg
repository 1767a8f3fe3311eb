CONSTANTS
    Dials = {d1}
    TcpConns = {c1, c2}
    Streams = {}
    NoDial = NoDial
    NoConn = NoConn
SPECIFICATION FairSpec
PROPERTY CancelledDialReturns
PROPERTY RejectedConnClosed
PROPERTY BindHandlerEnds
CHECK_DEADLOCK FALSE
