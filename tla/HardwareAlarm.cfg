SPECIFICATION Spec
CONSTANTS
    Clients = {c0, c1, cb}
    OnIrqCore = {c0, cb}
    InCallback = {cb}
    LowMod = 4
    MaxTime = 7
    Slack = 1
    Targets = {3, 5, 6}
    Horizon = 6
    None = None
    c0 = c0
    c1 = c1
    cb = cb
INVARIANTS TargetIsCovered 
PROPERTY EarlyForAReason
CHECK_DEADLOCK FALSE
