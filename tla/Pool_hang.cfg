CONSTANTS
    c1 = c1  c2 = c2  c3 = c3
    NoConn = NoConn
    Conns = {c1, c2, c3}
    Offered = {c1}
    Removable = {}
    Openers = {}
    MinConnections = 1
    MaxConnections = 2
    ScaleUpThreshold = 2
    ScaleDownThreshold = 1
SPECIFICATION FairSpec
PROPERTY PoolCloses
CHECK_DEADLOCK FALSE
