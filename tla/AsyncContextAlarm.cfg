SPECIFICATION Spec
CONSTANTS
    w1 = w1
    t1 = t1
    f1 = f1
    f2 = f2
    Workers = {w1}
    Sync = sync
    Timers = {t1}
    ForceIds = {f1, f2}
    NoId = noid
    MaxNow = 1
    MaxTime = 2
    Null = null
    Never = never
INVARIANT AlarmPendingIsTrue
CHECK_DEADLOCK FALSE
