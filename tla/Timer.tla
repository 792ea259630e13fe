-------------------------------- MODULE Timer --------------------------------
(***************************************************************************)
(* The 64-bit microsecond timer of hardware_timer/timer.c, which is read   *)
(* and compared a word at a time: its high word and its low word.          *)
(***************************************************************************)
EXTENDS Integers

CONSTANTS
    LowMod,      \* size of the low word: 2^32
    MaxTime,     \* bound: last value of the timer
    Targets      \* bound: times that callers wait for

ASSUME TimerAssumption ==
    LowMod \in Nat \ {0} /\ MaxTime \in Nat /\ Targets \subseteq Nat

VARIABLE time    \* the timer

(* Mutant: half of the low word is lost on the way to the register.        *)
LowTruncated(t) == t % (LowMod \div 2)

Low(t) == t % LowMod
Hi(t) == t \div LowMod

Advances == time < MaxTime /\ time' = time + 1
=============================================================================
