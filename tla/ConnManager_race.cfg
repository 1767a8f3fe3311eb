CONSTANTS
    c1 = c1  c2 = c2  c3 = c3  c4 = c4
    u1 = u1  u2 = u2  u3 = u3
    Conns <- MCConns
    Ids <- MCIds
    ID <- MCID
    Callers = {t1, t2, t3}
SPECIFICATION Spec
INVARIANTS TypeOK UniqueIDs ClosedIffLeft RoundRobin
PROPERTY OnlyShrinkingBreaksIndex
CHECK_DEADLOCK FALSE
