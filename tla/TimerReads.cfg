SPECIFICATION ReadsSpec
CONSTANTS
    LowMod = 4
    MaxTime = 13
    Targets = {2, 4, 7, 8, 9}
    Delays = {0, 1, 2, 3}
INVARIANTS TimeIsOfTheCall WaitsLongEnough
CHECK_DEADLOCK FALSE
