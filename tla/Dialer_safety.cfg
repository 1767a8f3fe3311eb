CONSTANTS
    Dials = {d1, d2}
    TcpConns = {c1}
    Streams = {s1, s2}
    NoDial = NoDial
    NoConn = NoConn
SPECIFICATION Spec
SYMMETRY Symmetry
INVARIANTS TypeOK OneOwner OwnConnection StreamClosedOrDelivered
PROPERTY Implements
CHECK_DEADLOCK FALSE
