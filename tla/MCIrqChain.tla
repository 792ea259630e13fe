------------------------------ MODULE MCIrqChain -----------------------------
(* A chain on each core; the slots are one fewer than the handlers that    *)
(* could be installed.                                                     *)
EXTENDS IrqChain, TLC

CONSTANTS q0, q1, h1, h2, h3

HandlersSwap == Permutations(Handlers)
IrqsSwap == Permutations(Irqs)
Swaps == HandlersSwap \cup IrqsSwap
=============================================================================
