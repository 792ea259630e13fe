--------------------------- MODULE MCSemaphoreLive --------------------------
(* Two cores; a handler that interrupts the first uses the semaphore too.  *)
EXTENDS SemaphoreLive, TLC

CONSTANTS c0, c1, i0

MCIrqCore == i0 :> c0
MCMaxCalls == c0 :> 1 @@ c1 :> 2 @@ i0 :> 2
=============================================================================
