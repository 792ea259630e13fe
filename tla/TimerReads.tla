------------------------------ MODULE TimerReads ----------------------------
(***************************************************************************)
(* Reading the 64-bit timer of hardware_timer/timer.c a word at a time:    *)
(* time_us_64 and the busy waits.  Time advances between any two reads of  *)
(* its registers, by any amount: the caller may be preempted.              *)
(***************************************************************************)
EXTENDS Timer

CONSTANT Delays  \* bound: delays waited for

ASSUME TimerReadsAssumption == Delays \subseteq 0 .. LowMod - 1

VARIABLES
    reader,      \* where the caller is
    call,        \* what was called
    hi, lo,      \* its reads of the high and low words; start is a lo
    until,       \* what it waits for: a time, or a delay
    began        \* history: the time of the call

locals == <<reader, call, hi, lo, until, began>>
reads_vars == <<time, locals>>

ReadsInit ==
    /\ time = 0 /\ reader = "idle" /\ call = "none"
    /\ hi = 0 /\ lo = 0 /\ until = 0 /\ began = 0

TimePasses == Advances /\ UNCHANGED locals

Enter(name, place, t) ==
    /\ reader = "idle"
    /\ call' = name /\ reader' = place /\ until' = t /\ began' = time
    /\ UNCHANGED <<time, hi, lo>>

ReadHi(from, to) ==
    /\ reader = from /\ reader' = to
    /\ hi' = Hi(time)
    /\ UNCHANGED <<time, call, lo, until, began>>

ReadLo(from, to) ==
    /\ reader = from /\ reader' = to
    /\ lo' = Low(time)
    /\ UNCHANGED <<time, call, hi, until, began>>

----------------------------------------------------------------------------
(* time_us_64                                                              *)

CallTime == Enter("time_us_64", "read_hi", 0)

FirstHi == ReadHi("read_hi", "read_lo")

(* Mutant: the high word is not read again.                                *)
TimeLoOnly == ReadLo("read_lo", "read")

TimeLo == ReadLo("read_lo", "reread_hi")

RereadHi ==
    ReadHi("reread_hi", IF Hi(time) = hi THEN "read" ELSE "read_lo")

TimeRead == hi * LowMod + lo

TimeReturns ==
    /\ reader = "read" /\ call = "time_us_64"
    /\ reader' = "idle"
    /\ UNCHANGED <<time, call, hi, lo, until, began>>

----------------------------------------------------------------------------
(* busy_wait_until                                                         *)

CallUntil == \E t \in Targets : Enter("busy_wait_until", "until_hi", t)

(* Mutant: the first loop is left out.                                     *)
UntilHiOnce == ReadHi("until_hi", "until_lo")

UntilHi ==
    ReadHi("until_hi", IF Hi(time) < Hi(until) THEN "until_hi" ELSE "until_lo")

(* The second loop tests the high word it has read, then the low one.      *)
UntilTest ==
    ReadLo("until_lo", IF hi = Hi(until) /\ Low(time) < Low(until)
                       THEN "until_reread" ELSE "waited")

UntilReread == ReadHi("until_reread", "until_lo")

----------------------------------------------------------------------------
(* busy_wait_us_32, and busy_wait_us for what has the top bit set: its     *)
(* until is a delay from a time_us_64.                                    *)

CallDelay ==
    \E d \in Delays :
       Enter("busy_wait_us_32", IF 2 * d < LowMod THEN "start" ELSE "read_hi", d)

Start == ReadLo("start", "delay")

DelayTest ==
    /\ reader = "delay"
    /\ reader' = IF Low(Low(time) + LowMod - lo) < until THEN "delay" ELSE "waited"
    /\ UNCHANGED <<time, call, hi, lo, until, began>>

DelayFromTime ==
    /\ reader = "read" /\ call = "busy_wait_us_32"
    /\ until' = TimeRead + until
    /\ reader' = "until_hi"
    /\ call' = "busy_wait_us"
    /\ UNCHANGED <<time, hi, lo, began>>

WaitReturns ==
    /\ reader = "waited" /\ reader' = "idle"
    /\ UNCHANGED <<time, call, hi, lo, until, began>>

ReadsNext ==
    \/ TimePasses
    \/ CallTime \/ FirstHi \/ TimeLo \/ RereadHi \/ TimeReturns
    \/ CallUntil \/ UntilHi \/ UntilTest \/ UntilReread
    \/ CallDelay \/ Start \/ DelayTest \/ DelayFromTime \/ WaitReturns

ReadsSpec == ReadsInit /\ [][ReadsNext]_reads_vars

----------------------------------------------------------------------------
(* The variables keep their types: a word read is a word (timer.c 41-106). *)
ReadsTypeOK ==
    /\ time \in 0 .. MaxTime /\ began \in 0 .. time
    /\ hi \in 0 .. Hi(MaxTime) /\ lo \in 0 .. LowMod - 1 /\ until \in Nat
    /\ call \in {"none", "time_us_64", "busy_wait_until", "busy_wait_us_32",
                 "busy_wait_us"}
    /\ reader \in {"idle", "read_hi", "read_lo", "reread_hi", "read", "until_hi",
               "until_lo", "until_reread", "start", "delay", "waited"}

(* time_us_64 returns a time the timer has had during the call, whatever   *)
(* carries happen between its reads (timer.c 41-57).                       *)
TimeIsOfTheCall ==
    /\ ReadsTypeOK
    /\ reader = "read" => began <= TimeRead /\ TimeRead <= time

(* No busy wait returns early, whatever carries happen between its reads   *)
(* (timer.c 61-106).                                                       *)
WaitsLongEnough ==
    reader = "waited" =>
        time >= IF call = "busy_wait_us_32" THEN began + until ELSE until

(* The high word read during time_us_64 is of a time of the call, and the  *)
(* low word of a time no earlier than that.                                *)
HighOfTheCall ==
    reader \in {"read_lo", "reread_hi"} =>
        \E t \in began .. time :
            /\ Hi(t) = hi
            /\ reader = "reread_hi" => \E u \in t .. time : Low(u) = lo

(* What the loops of busy_wait_until and busy_wait_us_32 know.             *)
LoopsSound ==
    /\ reader \in {"until_lo", "until_reread"} => Hi(until) <= hi /\ hi <= Hi(time)
    /\ reader = "delay" => \E t \in began .. time : Low(t) = lo
    /\ reader \in {"until_hi", "until_lo", "until_reread"} => call # "busy_wait_us_32"

(* The inductive invariant.                                                *)
ReadsInv == TimeIsOfTheCall /\ WaitsLongEnough /\ HighOfTheCall /\ LoopsSound
=============================================================================
