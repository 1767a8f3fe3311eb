CONSTANTS
    r1 = r1  r2 = r2  u1 = u1  u2 = u2
    Regs = {r1, r2}
    UUIDs = {u1, u2}
    ID <- SharedPair
    V2 = {r1, r2}
    Silent = {}
    Senders = {}
    Events = {}
    NoReg = NoReg
SPECIFICATION Spec
PROPERTY HealthyStaysListed
CHECK_DEADLOCK FALSE
