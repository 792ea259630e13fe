------------------------------ MODULE MCQueue -------------------------------
(* Two cores; a handler that interrupts the first uses the queue too.      *)
EXTENDS Queue, TLC

CONSTANTS c0, c1, i0, v1, v2

MCIrqCore == i0 :> c0
MCOffers == c0 :> {v1} @@ c1 :> {v2} @@ i0 :> {v2}
MCCalls == c0 :> Ops \ {"none"} @@ c1 :> BlockingOps @@ i0 :> {"try_add"}
=============================================================================
