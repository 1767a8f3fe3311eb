CONSTANTS
    c1 = c1  c2 = c2  c3 = c3
    NoConn = NoConn
    Conns = {c1, c2, c3}
    Offered = {c1}
    Removable = {c2}
    Openers = {o1, o2, o3}
    MinConnections = 1
    MaxConnections = 2
    ScaleUpThreshold = 2
    ScaleDownThreshold = 1
SPECIFICATION Spec
INVARIANTS TypeOK CapacityRespected PooledAreOpen CountersAgree NothingOpenAfterClose
SYMMETRY Symmetry
CHECK_DEADLOCK FALSE
