SPECIFICATION Spec
CONSTANTS
    c0 = c0
    c1 = c1
    Cores = {c0, c1}
    Depth = 2
    MaxTimeouts <- MCTimeouts
INVARIANTS
    StartedIsLocked LockoutsAccounted PopIsWoken
PROPERTY BlockingReturns
CHECK_DEADLOCK FALSE
