SPECIFICATION Spec
CONSTANTS
    Clients = {c1, cb}
    OnPoolCore = {cb}
    InCallback = {cb}
    Alarms = {a1, a2, a3}
    MaxNodes = 2
    HighMod = 2
    Times = {1, 2}
    Adds <- AllAdds
    MaxTime = 2
    Repeats <- BothRepeats
    RepeatsInCall <- NoRepeat
    None = None
    c0 = c0
    c1 = c1
    cb = cb
    a1 = a1
    a2 = a2
    a3 = a3
SYMMETRY AlarmsSwap
INVARIANTS NodesAccounted EntriesWillFireUnlessDropped CancelledStaysOut 
CHECK_DEADLOCK FALSE
