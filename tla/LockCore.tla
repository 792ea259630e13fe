------------------------------ MODULE LockCore ------------------------------
(***************************************************************************)
(* The waiting protocol every blocking primitive of the SDK is built from: *)
(* pico/lock_core.h over the spin locks, PRIMASK, WFE and SEV of           *)
(* hardware/sync.h, and best_effort_wfe_or_timeout of pico_time/time.c.    *)
(*                                                                         *)
(* A context is a flow of control that can call a primitive: thread mode   *)
(* of a core, named by the core itself, or an interrupt handler.  A call   *)
(* runs                                                                    *)
(*                                                                         *)
(*   idle -> call -> spin -> held -> ... -> idle                           *)
(*                                                                         *)
(* "call" is the top of the do { } while loop, "spin" is inside            *)
(* spin_lock_blocking with interrupts masked, "held" is the code between   *)
(* spin_lock_blocking and the unlock.  That code is one action of the lock *)
(* module that EXTENDS this one; it ends in one of the four unlocks below. *)
(* "wfe", "sev" are the gaps between the unlock and the WFE or SEV that    *)
(* follows it: interrupts are enabled there and the other core runs.       *)
(* "twait", "twfe", "tcancel", "tcheck" are the steps of                   *)
(* best_effort_wfe_or_timeout.                                             *)
(***************************************************************************)
EXTENDS Naturals, FiniteSets

CONSTANTS Cores,     \* the processor cores; also their thread-mode contexts
          Irqs,      \* interrupt-handler contexts
          IrqCore,   \* the core each handler runs on
          NoCtx      \* not a context

Ctx == Cores \cup Irqs

ASSUME CtxAssumption ==
    /\ Cores \cap Irqs = {}
    /\ NoCtx \notin Ctx
    /\ IrqCore \in [Irqs -> Cores]

CoreOf(t) == IF t \in Irqs THEN IrqCore[t] ELSE t

VARIABLES
    pc,        \* where each context is in its call
    op,        \* the call it is making
    until,     \* its deadline: "none", "future" or "past"
    armed,     \* its wake-up alarm is in the default alarm pool
    spin,      \* holder of the lock's hardware spin lock, or NoCtx
    primask,   \* interrupts masked, per core
    active,    \* interrupt handlers entered and not returned
    event      \* the event register WFE consumes, per core

lockVars == <<pc, op, until, armed, spin, primask, active, event>>

Places == {"idle", "call", "spin", "held", "sev", "wfe",
           "twait", "twfe", "tcancel", "tcheck"}

Deadlines == {"none", "future", "past"}

LockInit ==
    /\ pc = [t \in Ctx |-> "idle"]
    /\ op = [t \in Ctx |-> "none"]
    /\ until = [t \in Ctx |-> "none"]
    /\ armed = [t \in Ctx |-> FALSE]
    /\ spin = NoCtx
    /\ primask = [c \in Cores |-> FALSE]
    /\ active = {}
    /\ event = [c \in Cores |-> FALSE]

(* A handler runs once entered; a thread runs when no handler is active on *)
(* its core.                                                               *)
Running(t) ==
    \/ t \in active
    \/ t \in Cores /\ \A i \in active : CoreOf(i) # CoreOf(t)

Goto(t, place) == pc' = [pc EXCEPT ![t] = place] /\ UNCHANGED <<op, until>>

(* The call returns.                                                       *)
Return(t) ==
    /\ pc' = [pc EXCEPT ![t] = "idle"]
    /\ op' = [op EXCEPT ![t] = "none"]
    /\ until' = [until EXCEPT ![t] = "none"]

----------------------------------------------------------------------------
(* The call, and spin_lock_blocking: mask, then take the hardware lock.    *)

Call(t, o, deadline) ==
    /\ pc[t] = "idle" /\ Running(t)
    /\ pc' = [pc EXCEPT ![t] = "call"]
    /\ op' = [op EXCEPT ![t] = o]
    /\ until' = [until EXCEPT ![t] = deadline]
    /\ UNCHANGED <<armed, spin, primask, active, event>>

(* Mutant: the spin lock taken without masking interrupts.                 *)
SpinUnmasked(t) ==
    /\ pc[t] = "call" /\ Running(t)
    /\ Goto(t, "spin")
    /\ UNCHANGED <<armed, spin, primask, active, event>>

MaskInterrupts(t) ==
    /\ pc[t] = "call" /\ Running(t)
    /\ primask' = [primask EXCEPT ![CoreOf(t)] = TRUE]
    /\ Goto(t, "spin")
    /\ UNCHANGED <<armed, spin, active, event>>

AcquireSpin(t) ==
    /\ pc[t] = "spin" /\ Running(t)
    /\ spin = NoCtx
    /\ spin' = t
    /\ Goto(t, "held")
    /\ UNCHANGED <<armed, primask, active, event>>

(* spin_unlock: drop the hardware lock, restore interrupts.                *)
DropSpin(t) ==
    /\ spin' = NoCtx
    /\ primask' = [primask EXCEPT ![CoreOf(t)] = FALSE]
    /\ UNCHANGED <<armed, active, event>>

SpinUnlock(t)             == DropSpin(t) /\ Return(t)
SpinUnlockAndWait(t)      == DropSpin(t) /\ Goto(t, "wfe")
SpinUnlockAndNotify(t)    == DropSpin(t) /\ Goto(t, "sev")
SpinUnlockAndTimedWait(t) == DropSpin(t) /\ Goto(t, "twait")

UnderLock(t) == pc[t] = "held" /\ Running(t)

----------------------------------------------------------------------------
(* The instructions after the unlock.                                      *)

(* Mutant: only the notifying core hears the event.                        *)
SevOwnCore(t) ==
    /\ pc[t] = "sev" /\ Running(t)
    /\ event' = [event EXCEPT ![CoreOf(t)] = TRUE]
    /\ Return(t)
    /\ UNCHANGED <<armed, spin, primask, active>>

Sev(t) ==
    /\ pc[t] = "sev" /\ Running(t)
    /\ event' = [c \in Cores |-> TRUE]
    /\ Return(t)
    /\ UNCHANGED <<armed, spin, primask, active>>

Wfe(t) ==
    /\ pc[t] = "wfe" /\ Running(t)
    /\ event[CoreOf(t)]
    /\ event' = [event EXCEPT ![CoreOf(t)] = FALSE]
    /\ Goto(t, "call")
    /\ UNCHANGED <<armed, spin, primask, active>>

(* best_effort_wfe_or_timeout.  add_alarm_at may fail for any deadline     *)
(* (pool full), and an alarm may be added for a deadline already past.     *)
AddAlarm(t) ==
    /\ pc[t] = "twait" /\ Running(t) /\ t \in Cores
    /\ armed' = [armed EXCEPT ![t] = TRUE]
    /\ Goto(t, "twfe")
    /\ UNCHANGED <<spin, primask, active, event>>

(* In a handler, or when no alarm could be added, the call polls.          *)
Poll(t) ==
    /\ pc[t] = "twait" /\ Running(t)
    /\ Goto(t, "tcheck")
    /\ UNCHANGED <<armed, spin, primask, active, event>>

TimedWfe(t) ==
    /\ pc[t] = "twfe" /\ Running(t)
    /\ event[CoreOf(t)]
    /\ event' = [event EXCEPT ![CoreOf(t)] = FALSE]
    /\ Goto(t, "tcancel")
    /\ UNCHANGED <<armed, spin, primask, active>>

CancelAlarm(t) ==
    /\ pc[t] = "tcancel" /\ Running(t)
    /\ armed' = [armed EXCEPT ![t] = FALSE]
    /\ Goto(t, "tcheck")
    /\ UNCHANGED <<spin, primask, active, event>>

(* Mutant: the loop is repeated without looking at the time.               *)
LoopAgain(t) ==
    /\ pc[t] = "tcheck" /\ Running(t)
    /\ Goto(t, "call")
    /\ UNCHANGED <<armed, spin, primask, active, event>>

(* time_reached(until): the timed call returns false, or loops.            *)
CheckTime(t) ==
    /\ pc[t] = "tcheck" /\ Running(t)
    /\ \/ until[t] = "past" /\ Return(t)
       \/ until[t] # "past" /\ Goto(t, "call")
    /\ UNCHANGED <<armed, spin, primask, active, event>>

WaitStep(t) ==
    \/ MaskInterrupts(t) \/ AcquireSpin(t) \/ Sev(t) \/ Wfe(t)
    \/ AddAlarm(t) \/ Poll(t) \/ TimedWfe(t) \/ CancelAlarm(t) \/ CheckTime(t)

----------------------------------------------------------------------------
(* The hardware and the alarm pool.                                        *)

DeadlinePasses(t) ==
    /\ until[t] = "future"
    /\ until' = [until EXCEPT ![t] = "past"]
    /\ UNCHANGED <<pc, op, armed, spin, primask, active, event>>

(* Mutant: the alarm's callback notifies nobody.                           *)
AlarmFiresSilently(t) ==
    /\ armed[t] /\ until[t] = "past"
    /\ armed' = [armed EXCEPT ![t] = FALSE]
    /\ UNCHANGED <<pc, op, until, spin, primask, active, event>>

(* sleep_until_callback, in the alarm interrupt, notifies both cores.      *)
AlarmFires(t) ==
    /\ armed[t] /\ until[t] = "past"
    /\ armed' = [armed EXCEPT ![t] = FALSE]
    /\ event' = [c \in Cores |-> TRUE]
    /\ UNCHANGED <<pc, op, until, spin, primask, active>>

(* The SDK leaves all interrupts at one priority: handlers do not nest.    *)
IrqEnter(i) ==
    /\ i \notin active
    /\ ~primask[CoreOf(i)]
    /\ \A j \in active : CoreOf(j) # CoreOf(i)
    /\ active' = active \cup {i}
    /\ UNCHANGED <<pc, op, until, armed, spin, primask, event>>

(* A return from an exception may set the event register.                  *)
IrqReturn(i) ==
    /\ i \in active /\ pc[i] = "idle"
    /\ active' = active \ {i}
    /\ \E b \in {event[CoreOf(i)], TRUE} :
          event' = [event EXCEPT ![CoreOf(i)] = b]
    /\ UNCHANGED <<pc, op, until, armed, spin, primask>>

Environment ==
    \/ \E t \in Ctx : DeadlinePasses(t) \/ AlarmFires(t)
    \/ \E i \in Irqs : IrqEnter(i)

----------------------------------------------------------------------------
(* Types and the invariants of the protocol.                               *)

LockTypeOK ==
    /\ pc \in [Ctx -> Places]
    /\ until \in [Ctx -> Deadlines]
    /\ armed \in [Ctx -> BOOLEAN]
    /\ spin \in Ctx \cup {NoCtx}
    /\ primask \in [Cores -> BOOLEAN]
    /\ active \subseteq Irqs
    /\ event \in [Cores -> BOOLEAN]

(* The holder of the spin lock is the one context inside the protected     *)
(* code: mutual exclusion between the bodies of the primitives.            *)
SpinMutex == \A t \in Ctx : spin = t <=> pc[t] = "held"

(* Whoever spins or holds runs with interrupts masked on its core, so it   *)
(* is never preempted: no handler can spin for a lock its own core holds.  *)
SpinnerRuns ==
    \A t \in Ctx : pc[t] \in {"spin", "held"} => primask[CoreOf(t)] /\ Running(t)

(* A handler that is not entered is not in a call, and never at a WFE.     *)
HandlersQuiet ==
    \A i \in Irqs : /\ i \notin active => pc[i] = "idle"
                    /\ pc[i] \notin {"wfe", "twfe", "tcancel"}

(* At most one handler at a time is active on a core.                      *)
NoNesting == \A i, j \in active : CoreOf(i) = CoreOf(j) => i = j

(* Interrupts are masked only by a context that is going to restore them.  *)
MaskHasOwner ==
    \A c \in Cores : primask[c] =>
        \E t \in Ctx : CoreOf(t) = c /\ pc[t] \in {"spin", "held"}

(* A timed waiter about to execute its WFE has an alarm that will set the  *)
(* event register, or the register is set already: it cannot sleep past    *)
(* its deadline for ever.                                                  *)
TimedWaitIsArmed ==
    \A t \in Cores : pc[t] = "twfe" => armed[t] \/ event[CoreOf(t)]

LockInv ==
    /\ SpinMutex /\ SpinnerRuns /\ HandlersQuiet /\ NoNesting
    /\ MaskHasOwner /\ TimedWaitIsArmed

(* A notification is due on core c: latched, or about to be sent.          *)
WakeDue(c) == event[c] \/ \E u \in Ctx : pc[u] = "sev"
=============================================================================
