---------------------------- MODULE MCHardwareAlarm -------------------------
(* hardware_timer with a low word of four ticks.                           *)
EXTENDS HardwareAlarm

CONSTANTS c0, c1, cb
=============================================================================
