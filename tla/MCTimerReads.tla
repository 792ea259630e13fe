----------------------------- MODULE MCTimerReads ---------------------------
(* Reads of a timer whose words have four values.                          *)
EXTENDS TimerReads
=============================================================================
