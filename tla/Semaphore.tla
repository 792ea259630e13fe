----------------------------- MODULE Semaphore ------------------------------
(***************************************************************************)
(* pico_sync/sem.c.  Handlers use it too (sem.h 24-25), but never the      *)
(* blocking acquire, which would stop the thread they interrupted.         *)
(***************************************************************************)
EXTENDS LockCore, Integers

CONSTANTS InitialPermits,  \* initial_permits
          MaxPermits,      \* max_permits
          IntMax           \* INT16_MAX, the width of both

ASSUME SemaphoreAssumption ==
    /\ IntMax \in Nat
    /\ MaxPermits \in 0..IntMax
    /\ InitialPermits \in 0..MaxPermits

VARIABLES
    permits,   \* permits
    arg        \* the value each sem_reset in progress sets

vars == <<lockVars, permits, arg>>

Ops == {"none", "acquire_blocking", "acquire_block_until", "try_acquire",
        "release", "reset"}

AcquireOps == {"acquire_blocking", "acquire_block_until", "try_acquire"}

Init ==
    /\ LockInit
    /\ permits = InitialPermits
    /\ arg = [t \in Ctx |-> 0]

----------------------------------------------------------------------------
(* int16_t arithmetic.                                                     *)
Int16(n) == ((n + IntMax + 1) % (2 * (IntMax + 1))) - (IntMax + 1)

CallAcquireBlocking(t) ==
    t \in Cores /\ Call(t, "acquire_blocking", "none") /\ UNCHANGED <<permits, arg>>

CallAcquireBlockUntil(t) ==
    /\ \E d \in {"future", "past"} : Call(t, "acquire_block_until", d)
    /\ UNCHANGED <<permits, arg>>

CallNonBlocking(t) ==
    /\ \E o \in {"try_acquire", "release"} : Call(t, o, "none")
    /\ UNCHANGED <<permits, arg>>

(* The function asserts 0 <= permits <= max_permits of its argument.       *)
CallReset(t) ==
    /\ Call(t, "reset", "none")
    /\ \E n \in 0..MaxPermits : arg' = [arg EXCEPT ![t] = n]
    /\ UNCHANGED permits

CallStep(t) ==
    \/ CallAcquireBlocking(t) \/ CallAcquireBlockUntil(t)
    \/ CallNonBlocking(t) \/ CallReset(t)

Acquire(t) ==
    /\ UnderLock(t) /\ op[t] \in AcquireOps
    /\ permits > 0
    /\ permits' = permits - 1
    /\ SpinUnlock(t)
    /\ UNCHANGED arg

(* No permit: each of the three acquires leaves the lock its own way.      *)
NoPermit(t) ==
    /\ UnderLock(t)
    /\ permits <= 0
    /\ \/ op[t] = "acquire_blocking" /\ SpinUnlockAndWait(t)
       \/ op[t] = "acquire_block_until" /\ SpinUnlockAndTimedWait(t)
       \/ op[t] = "try_acquire" /\ SpinUnlock(t)
    /\ UNCHANGED <<permits, arg>>

(* Mutants: one permit too many; no notification.                          *)
ReleaseBeyondMax(t) ==
    /\ UnderLock(t) /\ op[t] = "release"
    /\ permits <= MaxPermits
    /\ permits' = Int16(permits + 1)
    /\ SpinUnlockAndNotify(t)
    /\ UNCHANGED arg

ReleaseSilently(t) ==
    /\ UnderLock(t) /\ op[t] = "release"
    /\ permits < MaxPermits
    /\ permits' = Int16(permits + 1)
    /\ SpinUnlock(t)
    /\ UNCHANGED arg

Release(t) ==
    /\ UnderLock(t) /\ op[t] = "release"
    /\ permits < MaxPermits
    /\ permits' = Int16(permits + 1)
    /\ SpinUnlockAndNotify(t)
    /\ UNCHANGED arg

ReleaseFails(t) ==
    /\ UnderLock(t) /\ op[t] = "release"
    /\ permits >= MaxPermits
    /\ SpinUnlock(t)
    /\ UNCHANGED <<permits, arg>>

(* Mutant: a reset never notifies.                                         *)
ResetSilently(t) ==
    /\ UnderLock(t) /\ op[t] = "reset"
    /\ permits' = arg[t]
    /\ SpinUnlock(t)
    /\ arg' = [arg EXCEPT ![t] = 0]

(* sem_reset notifies only when it adds permits.                           *)
Reset(t) ==
    /\ UnderLock(t) /\ op[t] = "reset"
    /\ permits' = arg[t]
    /\ \/ arg[t] > permits /\ SpinUnlockAndNotify(t)
       \/ arg[t] <= permits /\ SpinUnlock(t)
    /\ arg' = [arg EXCEPT ![t] = 0]

SemBody(t) ==
    Acquire(t) \/ NoPermit(t) \/ Release(t) \/ ReleaseFails(t) \/ Reset(t)

Waiting(t) == WaitStep(t) /\ UNCHANGED <<permits, arg>>

HandlerReturns(i) == IrqReturn(i) /\ UNCHANGED <<permits, arg>>

Hardware == Environment /\ UNCHANGED <<permits, arg>>

Next ==
    \/ \E t \in Ctx : CallStep(t) \/ SemBody(t) \/ Waiting(t)
    \/ \E i \in Irqs : HandlerReturns(i)
    \/ Hardware

Spec == Init /\ [][Next]_vars

----------------------------------------------------------------------------
(* The variables keep their types, and the permits stay within what        *)
(* sem_init allowed, at the int16_t limit too (sem.c 69-71).               *)
TypeOK ==
    /\ LockTypeOK
    /\ op \in [Ctx -> Ops]
    /\ permits \in 0..MaxPermits
    /\ arg \in [Ctx -> 0..MaxPermits]

(* A core between its unlock and its WFE in sem_acquire_blocking will find *)
(* the event register set whenever there is a permit to take, though the   *)
(* permit may come from a release, a reset or several of them coalesced    *)
(* into one event (sem.c 29, 72, 85).                                      *)
NoLostWakeup ==
    \A c \in Cores : pc[c] = "wfe" /\ permits > 0 => WakeDue(c)

(* Only threads wait for a permit in WFE, to acquire one.                  *)
WaitersAcquire ==
    /\ \A t \in Ctx : op[t] = "acquire_blocking" => t \in Cores
    /\ \A t \in Ctx : pc[t] = "wfe" => op[t] = "acquire_blocking"

(* The inductive invariant.                                                *)
IInv == TypeOK /\ LockInv /\ WaitersAcquire /\ NoLostWakeup
=============================================================================
