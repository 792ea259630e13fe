SPECIFICATION Spec
CONSTANTS
    Clients = {c1, cb}
    OnPoolCore = {cb}
    InCallback = {cb}
    Alarms = {a1, a2}
    MaxNodes = 2
    HighMod = 256
    Times = {1, 2}
    Adds <- FiringAdds
    MaxTime = 3
    Repeats <- BothRepeats
    RepeatsInCall <- OneRepeat
    None = None
    c0 = c0
    c1 = c1
    cb = cb
    a1 = a1
    a2 = a2
    a3 = a3
INVARIANT MissedNotInHeap
CHECK_DEADLOCK FALSE
