CONSTANTS
    r1 = r1  r2 = r2  u1 = u1  u2 = u2
    Regs = {r1, r2}
    UUIDs = {u1, u2}
    ID <- SharedPair
    V2 = {r2}
    Silent = {}
    Senders = {s1, s2}
    Events = {s2}
    NoReg = NoReg
SPECIFICATION FairSpec
INVARIANTS
    TypeOK
    ListedHaveKeeper
    ListedAreOpen
PROPERTIES
    StopReturns
    EmptyAfterStop
    DeadV2Leaves
    SendersReturn
CHECK_DEADLOCK FALSE
