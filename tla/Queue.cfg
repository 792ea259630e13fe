SPECIFICATION Spec
CONSTANTS
    c0 = c0
    c1 = c1
    i0 = i0
    v1 = v1
    v2 = v2
    Cores = {c0, c1}
    Irqs = {i0}
    IrqCore <- MCIrqCore
    NoCtx = NoCtx
    Values = {v1, v2}
    Offers <- MCOffers
    Calls <- MCCalls
    ElementCount = 2
    IndexMod = 3
    MaxLevelKept = TRUE
    Empty = Empty
    Fail = Fail
    Ok = Ok
INVARIANTS
    IInv NoLostWakeup 
PROPERTIES
    ImplementsFifo
CHECK_DEADLOCK FALSE
