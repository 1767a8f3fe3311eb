SPECIFICATION FairSpec
CONSTANTS
    c1 = c1  e1 = e1  s1 = s1  p1 = p1  x1 = x1
    a1 = a1  main = main  extra = extra
    Cmds = {c1, e1, s1, p1, x1}
    Connects = {c1}
    Events = {e1}
    Pings = {p1}
    Malformed = {x1}
    Acceptors = {a1}
    Regs = {main, extra}
    Primary = main
    Modes <- AllModes
    Offered <- MCOffered
    Cap = 1
    NoCmd = NoCmd
INVARIANTS
    TypeOK
    InOnePlace
    AckedIsKept
    ClosedForAReason
PROPERTIES
    AckedIsServed
    SendReturns
    CloseEndsAll
    ConnsEnd
CHECK_DEADLOCK FALSE
