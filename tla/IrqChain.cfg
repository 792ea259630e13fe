SPECIFICATION IrqSpec
CONSTANTS
    q0 = q0
    q1 = q1
    h1 = h1
    h2 = h2
    h3 = h3
    Irqs = {q0, q1}
    Handlers = {h1, h2, h3}
    Priorities = {128, 255}
    MaxSlots = 4
    Unhandled = Unhandled
    Pop = Pop
    Leave = Leave
    NoCode = NoCode
SYMMETRY Swaps
INVARIANTS ChainsSound SlotsAccounted AllCalled InOrder
