CONSTANTS
    r1 = r1  r2 = r2  u1 = u1  u2 = u2
    Regs = {r1}
    UUIDs = {u1, u2}
    ID <- Single
    V2 = {}
    Silent = {r1}
    Senders = {s1}
    Events = {}
    NoReg = NoReg
SPECIFICATION FairSpec
PROPERTY StopReturns
CHECK_DEADLOCK FALSE
