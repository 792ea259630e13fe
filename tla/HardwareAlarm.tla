---------------------------- MODULE HardwareAlarm ---------------------------
(***************************************************************************)
(* One alarm of hardware_timer/timer.c: a 64-bit target on a comparator    *)
(* that sees the low word only, with the flag timer_callbacks_pending and  *)
(* target_hi kept beside it under PICO_SPINLOCK_ID_TIMER.                  *)
(*                                                                         *)
(* Time advances between any two accesses to the timer's registers.        *)
(***************************************************************************)
EXTENDS Timer

CONSTANTS
    Clients,     \* contexts that set, cancel and force the alarm
    OnIrqCore,   \* those on the core that takes the alarm's interrupt
    InCallback,  \* those that are the alarm's callback itself
    Slack,       \* bound: ticks while the timer lock is held
    Horizon,     \* bound: how far ahead a target is set
    None         \* no client, no target

ASSUME HardwareAlarmAssumption ==
    /\ InCallback \subseteq OnIrqCore /\ OnIrqCore \subseteq Clients
    /\ None \notin Clients \cup {"irq"} /\ "irq" \notin Clients
    /\ Slack \in Nat /\ Horizon \in Nat /\ None \notin Targets

VARIABLES
    alarm,       \* alarm[n]: the low word it matches
    armed,       \* armed bit
    intr,        \* latched match interrupt
    intf,        \* forced interrupt
    nvic,        \* the interrupt is pending at the processor
    enabled,     \* irq_set_enabled
    callback,    \* alarm_callbacks[n] is not NULL
    pending,     \* the bit of timer_callbacks_pending
    target_hi,   \* target_hi[n]
    lock,        \* holder of the timer spin lock: a client, "irq" or None
    lag,         \* ticks since it was taken
    pc,          \* where each client is
    target,      \* the t of its hardware_alarm_set_target
    old,         \* its old_timer_callbacks_pending
    hpc,         \* where hardware_alarm_irq_handler is
    want,        \* history: the target a pending callback is due at
    forced,      \* history: forced, and the callback has not been run since
    overwritten, \* history: a missed target replaced a pending one
    early        \* history: want may be called back early, as seen at its write

regs == <<alarm, armed, intr, intf, nvic>>
soft == <<enabled, callback, pending, target_hi>>
history == <<want, forced, overwritten, early>>
vars == <<time, regs, soft, lock, lag, pc, target, old, hpc, history>>

(* An interrupt is raised, and its handler has not cleared it yet.         *)
Coming == intr \/ intf \/ nvic \/ hpc = "entered"

(* A client is about to set the forced bit.                                *)
Forcing == \E c \in Clients : pc[c] = "force"

Init ==
    /\ time = 0
    /\ alarm = 0 /\ armed = FALSE /\ intr = FALSE /\ intf = FALSE /\ nvic = FALSE
    /\ enabled = TRUE /\ callback = TRUE   \* after hardware_alarm_set_callback
    /\ pending = FALSE /\ target_hi = 0
    /\ lock = None /\ lag = 0
    /\ pc = [c \in Clients |-> "idle"]
    /\ target = [c \in Clients |-> 0]
    /\ old = [c \in Clients |-> FALSE]
    /\ hpc = "off"
    /\ want = None /\ forced = FALSE /\ overwritten = FALSE /\ early = FALSE

(* The interrupt preempts the clients of its core.                         *)
Runs(c) ==
    IF c \in InCallback THEN hpc = "callback" ELSE c \in OnIrqCore => hpc = "off"

Goto(c, place) == pc' = [pc EXCEPT ![c] = place]

(* hardware_alarm_set_target returns; its locals are forgotten.            *)
SetReturns(c) ==
    /\ Goto(c, "idle")
    /\ target' = [target EXCEPT ![c] = 0]
    /\ old' = [old EXCEPT ![c] = FALSE]

Lock(who) == lock = None /\ lock' = who /\ lag' = 0
Unlock == lock' = None /\ lag' = 0

(* Nothing is due any more.                                                *)
Settled == want' = None /\ forced' = FALSE /\ overwritten' = FALSE /\ early' = FALSE

----------------------------------------------------------------------------
(* The hardware.                                                           *)

(* The match latches intr, disarms, and pends the interrupt.               *)
Tick ==
    /\ Advances
    /\ lock # None => lag < Slack
    /\ lag' = IF lock = None THEN lag ELSE lag + 1
    /\ LET match == armed /\ Low(time + 1) = alarm
       IN  /\ armed' = (armed /\ ~match)
           /\ intr' = (intr \/ match)
           /\ nvic' = (nvic \/ (match /\ enabled))
    /\ UNCHANGED <<alarm, intf, soft, lock, pc, target, old, hpc, history>>

(* Writing the register arms it; at the very time it names, the match may  *)
(* or may not be seen.                                                     *)
WriteAlarm(low) ==
    /\ alarm' = low
    /\ \/ armed' = TRUE /\ UNCHANGED <<intr, nvic>>
       \/ /\ low = Low(time)
          /\ armed' = FALSE /\ intr' = TRUE /\ nvic' = (nvic \/ enabled)

HandlerEnter ==
    /\ hpc = "off" /\ nvic /\ enabled
    /\ lock \notin OnIrqCore
    /\ hpc' = "entered"
    /\ nvic' = FALSE
    /\ UNCHANGED <<time, alarm, armed, intr, intf, soft, lock, lag, pc, target,
                   old, history>>

----------------------------------------------------------------------------
(* hardware_alarm_irq_handler                                              *)

HandlerLock ==
    /\ hpc = "entered"
    /\ Lock("irq")
    /\ intr' = FALSE /\ intf' = FALSE
    /\ hpc' = "cleared"
    /\ UNCHANGED <<time, alarm, armed, nvic, soft, pc, target, old, history>>

(* The high word is compared; the low word is taken to have been reached.  *)
HighWordReached == Hi(time) >= target_hi

HandlerFires ==
    /\ hpc = "cleared"
    /\ pending /\ HighWordReached
    /\ pending' = FALSE
    /\ hpc' = IF callback THEN "callback" ELSE "return"
    /\ Settled
    /\ Unlock
    /\ UNCHANGED <<time, regs, enabled, callback, target_hi, pc, target, old>>

(* Mutant: the handler drops a target whose high word has not been reached. *)
HandlerDrops ==
    /\ hpc = "cleared"
    /\ pending /\ ~HighWordReached
    /\ hpc' = "return"
    /\ Unlock
    /\ UNCHANGED <<time, regs, soft, pc, target, old, history>>

HandlerRearms ==
    /\ hpc = "cleared"
    /\ pending /\ ~HighWordReached
    /\ WriteAlarm(alarm)
    /\ hpc' = "return"
    /\ Unlock
    /\ UNCHANGED <<time, intf, soft, pc, target, old, history>>

HandlerIgnores ==
    /\ hpc = "cleared"
    /\ ~pending
    /\ hpc' = "return"
    /\ Unlock
    /\ UNCHANGED <<time, regs, soft, pc, target, old, history>>

(* callback(alarm_num) outside the lock, then the exception return, which  *)
(* finds the interrupt pending again if its line is still high.            *)
HandlerReturns ==
    /\ hpc \in {"callback", "return"}
    /\ \A c \in InCallback : pc[c] = "idle"
    /\ hpc' = "off"
    /\ nvic' = (nvic \/ (enabled /\ (intr \/ intf)))
    /\ UNCHANGED <<time, alarm, armed, intr, intf, soft, lock, lag, pc, target,
                   old, history>>

Handler ==
    HandlerLock \/ HandlerFires \/ HandlerRearms \/ HandlerIgnores \/ HandlerReturns

----------------------------------------------------------------------------
(* hardware_alarm_set_target                                               *)

(* The first look at the time, outside the lock; past targets are missed.  *)
SetTarget(c) ==
    /\ pc[c] = "idle" /\ Runs(c)
    /\ \E t \in Targets :
          /\ time < t /\ t <= time + Horizon
          /\ target' = [target EXCEPT ![c] = t]
    /\ Goto(c, "set")
    /\ UNCHANGED <<time, regs, soft, lock, lag, old, hpc, history>>

SetLocks(c) ==
    /\ pc[c] = "set" /\ Runs(c)
    /\ Lock(c)
    /\ old' = [old EXCEPT ![c] = pending]
    /\ pending' = TRUE
    /\ intr' = FALSE
    /\ Goto(c, "write")
    /\ UNCHANGED <<time, alarm, armed, intf, nvic, enabled, callback, target_hi,
                   target, hpc, history>>

SetWrites(c) ==
    /\ pc[c] = "write" /\ Runs(c)
    /\ WriteAlarm(Low(target[c]))
    /\ target_hi' = Hi(target[c])
    /\ early' = (Coming \/ Forcing \/ target[c] - time >= LowMod)
    /\ Goto(c, "check")
    /\ UNCHANGED <<time, intf, enabled, callback, pending, lock, lag, target,
                   old, hpc, want, forced, overwritten>>

(* Already fired: the interrupt is on its way.                             *)
SetSeesFired(c) ==
    /\ pc[c] = "check" /\ Runs(c)
    /\ ~armed
    /\ want' = target[c] /\ overwritten' = FALSE
    /\ Unlock
    /\ SetReturns(c)
    /\ UNCHANGED <<time, regs, soft, hpc, forced, early>>

SetSeesArmed(c) ==
    /\ pc[c] = "check" /\ Runs(c)
    /\ armed
    /\ Goto(c, "race")
    /\ UNCHANGED <<time, regs, soft, lock, lag, target, old, hpc, history>>

SetDone(c) ==
    /\ pc[c] = "race" /\ Runs(c)
    /\ time < target[c]
    /\ want' = target[c] /\ overwritten' = FALSE
    /\ Unlock
    /\ SetReturns(c)
    /\ UNCHANGED <<time, regs, soft, hpc, forced, early>>

(* Too late, and nothing else was pending: undo, missed.                   *)
SetMissed(c) ==
    /\ pc[c] = "race" /\ Runs(c)
    /\ time >= target[c] /\ ~old[c]
    /\ armed' = FALSE /\ intr' = FALSE
    /\ nvic' = IF c \in OnIrqCore THEN enabled /\ intf ELSE nvic
    /\ pending' = FALSE
    /\ Unlock
    /\ SetReturns(c)
    /\ UNCHANGED <<time, alarm, intf, enabled, callback, target_hi, hpc,
                   history>>

(* Too late, and something was: missed, and the alarm is left as set.      *)
SetMissedPending(c) ==
    /\ pc[c] = "race" /\ Runs(c)
    /\ time >= target[c] /\ old[c]
    /\ overwritten' = TRUE
    /\ Unlock
    /\ SetReturns(c)
    /\ UNCHANGED <<time, regs, soft, hpc, want, forced, early>>

SetTargetStep(c) ==
    \/ SetTarget(c) \/ SetLocks(c) \/ SetWrites(c) \/ SetSeesFired(c)
    \/ SetSeesArmed(c) \/ SetDone(c) \/ SetMissed(c) \/ SetMissedPending(c)

----------------------------------------------------------------------------
(* hardware_alarm_cancel, hardware_alarm_force_irq and                     *)
(* hardware_alarm_set_callback: the locked part is one step.               *)

Cancel(c) ==
    /\ pc[c] = "idle" /\ Runs(c) /\ lock = None
    /\ armed' = FALSE
    /\ pending' = FALSE
    /\ Settled
    /\ UNCHANGED <<time, alarm, intr, intf, nvic, enabled, callback, target_hi,
                   lock, lag, pc, target, old, hpc>>

ForceIrq(c) ==
    /\ pc[c] = "idle" /\ Runs(c) /\ lock = None
    /\ pending' = TRUE
    /\ forced' = TRUE
    /\ Goto(c, "force")
    /\ UNCHANGED <<time, regs, enabled, callback, target_hi, lock, lag, target,
                   old, hpc, want, overwritten, early>>

(* The forced bit is set after the lock is dropped.                        *)
ForceSetsBit(c) ==
    /\ pc[c] = "force" /\ Runs(c)
    /\ intf' = TRUE
    /\ nvic' = (nvic \/ enabled)
    /\ Goto(c, "idle")
    /\ UNCHANGED <<time, alarm, armed, intr, soft, lock, lag, target, old, hpc,
                   history>>

SetCallback(c) ==
    /\ pc[c] = "idle" /\ Runs(c) /\ lock = None
    /\ c \in OnIrqCore /\ ~callback
    /\ callback' = TRUE /\ enabled' = TRUE
    /\ nvic' = (intr \/ intf)
    /\ UNCHANGED <<time, alarm, armed, intr, intf, pending, target_hi, lock, lag,
                   pc, target, old, hpc, history>>

RemoveCallback(c) ==
    /\ pc[c] = "idle" /\ Runs(c) /\ lock = None
    /\ c \in OnIrqCore /\ callback
    /\ callback' = FALSE /\ enabled' = FALSE
    /\ pending' = FALSE
    /\ Settled
    /\ UNCHANGED <<time, regs, target_hi, lock, lag, pc, target, old, hpc>>

Next ==
    \/ Tick \/ HandlerEnter \/ Handler
    \/ \E c \in Clients :
          \/ SetTargetStep(c) \/ Cancel(c) \/ ForceIrq(c) \/ ForceSetsBit(c)
          \/ SetCallback(c) \/ RemoveCallback(c)

Spec == Init /\ [][Next]_vars

----------------------------------------------------------------------------
(* The variables keep their types, the timer lock is held exactly inside   *)
(* its sections, and an accepted target has its bit in                     *)
(* timer_callbacks_pending (timer.c 113-146, 185-218).                     *)
TypeOK ==
    /\ time \in 0 .. MaxTime /\ alarm \in 0 .. LowMod - 1
    /\ armed \in BOOLEAN /\ intr \in BOOLEAN /\ intf \in BOOLEAN /\ nvic \in BOOLEAN
    /\ enabled \in BOOLEAN /\ callback \in BOOLEAN /\ pending \in BOOLEAN
    /\ forced \in BOOLEAN /\ overwritten \in BOOLEAN /\ early \in BOOLEAN
    /\ target_hi \in Nat /\ want \in Targets \cup {None}
    /\ lag \in 0 .. Slack
    /\ pc \in [Clients -> {"idle", "set", "write", "check", "race", "force"}]
    /\ hpc \in {"off", "entered", "cleared", "callback", "return"}
    /\ target \in [Clients -> Nat] /\ old \in [Clients -> BOOLEAN]
    /\ want # None => pending
    /\ \A c \in Clients : pc[c] \in {"write", "check", "race"} <=> lock = c
    /\ hpc = "cleared" <=> lock = "irq"

Covered == Coming \/ (armed /\ alarm = Low(want) /\ time < want)

(* A target that hardware_alarm_set_target accepted is never passed in     *)
(* silence: until the handler takes it, the comparator is armed ahead of   *)
(* it or an interrupt is on its way, through re-arming at each wrap of the *)
(* low word, races with the match and handlers already entered             *)
(* (timer.c 127-139, 182-218).  The exception is a target that another,    *)
(* itself missed, has replaced in the register (timer.c 199-218).          *)
TargetIsCovered ==
    /\ TypeOK
    /\ want # None /\ ~overwritten /\ lock = None => Covered

(* A callback runs early only for a reason that was there when the target  *)
(* was written: an interrupt already under way, which consumes the new     *)
(* target if its high word has come, or a target more than a wrap ahead,   *)
(* whose low word matches in the wrap before; or because it was forced, or *)
(* for a missed target that took its place (timer.c 127-139).              *)
EarlyForAReason ==
    [][HandlerFires /\ want # None =>
          time >= want \/ forced \/ early \/ overwritten]_vars

(* A forced interrupt is not lost.  A pending target of a later high word  *)
(* can swallow it, the handler clearing the forced bit and taking it for   *)
(* an early match, but then the comparator is armed, and its next match    *)
(* brings the handler back (timer.c 120-139, 234-241).                     *)
ForceIsNotLost ==
    forced /\ lock = None => Coming \/ Forcing \/ armed
=============================================================================
