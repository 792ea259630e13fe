SPECIFICATION LiveSpec
CONSTANTS
    c0 = c0
    c1 = c1
    i0 = i0
    Cores = {c0, c1}
    Irqs = {i0}
    IrqCore <- MCIrqCore
    NoCtx = NoCtx
    InitialPermits = 1
    MaxPermits = 2
    IntMax = 2
    MaxCalls <- MCMaxCalls
INVARIANTS
    IInv NoLostWakeup
PROPERTIES
    AcquireGetsPermit TimedAcquireReturns
CHECK_DEADLOCK FALSE
