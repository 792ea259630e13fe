---------------------------- MODULE MCMutexLive -----------------------------
(* MCMutex's contexts, under fairness.                                     *)
EXTENDS MutexLive, TLC

CONSTANTS c0, c1, i0

MCIrqCore == i0 :> c0
MCMaxCalls == c0 :> 2 @@ c1 :> 1 @@ i0 :> 2
=============================================================================
