---------------------------- MODULE MCMulticore -----------------------------
(* Two cores; two starts and one end may time out.                         *)
EXTENDS Multicore, TLC
CONSTANTS c0, c1
MCTimeouts == "start" :> 2 @@ "end" :> 1
=============================================================================
