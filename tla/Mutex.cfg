SPECIFICATION LiveSpec
CONSTANTS
    c0 = c0
    c1 = c1
    i0 = i0
    Cores = {c0, c1}
    Irqs = {i0}
    IrqCore <- MCIrqCore
    NoCtx = NoCtx
    CountMod = 256
    MaxDepth = 2
    NoOwner = NoOwner
    MaxCalls <- MCMaxCalls
INVARIANTS
    IInv MutualExclusion OwnerAccurate NoLostWakeup NoSelfWait
PROPERTIES
    TimedCallsReturn BlockedEnters
CHECK_DEADLOCK FALSE
