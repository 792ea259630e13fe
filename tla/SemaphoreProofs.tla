-------------------------- MODULE SemaphoreProofs ---------------------------
(***************************************************************************)
(* The semaphore is correct for any number of cores and handlers and any   *)
(* limits within int16_t: permits in range, and no core going to sleep     *)
(* beside a permit.                                                        *)
(***************************************************************************)
EXTENDS Semaphore, LockCoreProofs

(* The conversion to int16_t leaves a value within its range alone.        *)
LEMMA Int16Fits ==
    ASSUME NEW n \in Int, 0 <= n, n <= IntMax
    PROVE  Int16(n) = n
BY SemaphoreAssumption DEF Int16

(* Every action keeps LockCore's part, by the lemmas of LockCoreProofs.    *)
LEMMA BodyIsBodyStep ==
    ASSUME IInv, NEW t \in Ctx, SemBody(t)
    PROVE  BodyStep(t)
<1> USE CoreOfType DEF IInv, TypeOK, LockTypeOK, Deadlines, BodyStep, Goto, Return
<1>1. CASE Acquire(t)       BY <1>1 DEF Acquire, SpinUnlock
<1>2. CASE NoPermit(t)
  BY <1>2 DEF NoPermit, SpinUnlock, SpinUnlockAndWait, SpinUnlockAndTimedWait,
              WaitersAcquire
<1>3. CASE Release(t)       BY <1>3 DEF Release, SpinUnlockAndNotify
<1>4. CASE ReleaseFails(t)  BY <1>4 DEF ReleaseFails, SpinUnlock
<1>5. CASE Reset(t)         BY <1>5 DEF Reset, SpinUnlock, SpinUnlockAndNotify
<1> QED  BY <1>1, <1>2, <1>3, <1>4, <1>5 DEF SemBody

LEMMA LockPartKept ==
    ASSUME IInv, [Next]_vars
    PROVE  LockTypeOK' /\ LockInv'
<1> USE DEF IInv, TypeOK
<1>1. ASSUME NEW t \in Ctx, CallStep(t)
      PROVE  LockTypeOK' /\ LockInv'
  <2>1. \E o, d : d \in Deadlines /\ Call(t, o, d)
    BY <1>1 DEF CallStep, CallAcquireBlocking, CallAcquireBlockUntil,
                CallNonBlocking, CallReset, Deadlines
  <2> QED  BY <2>1, CallKeeps
<1>2. ASSUME NEW t \in Ctx, SemBody(t)
      PROVE  LockTypeOK' /\ LockInv'
  BY <1>2, BodyIsBodyStep, BodyKeeps
<1>3. ASSUME NEW t \in Ctx, Waiting(t)
      PROVE  LockTypeOK' /\ LockInv'
  BY <1>3, WaitStepKeeps DEF Waiting
<1>4. ASSUME NEW i \in Irqs, HandlerReturns(i)
      PROVE  LockTypeOK' /\ LockInv'
  BY <1>4, HardwareKeeps DEF HandlerReturns
<1>5. CASE Hardware
  BY <1>5, HardwareKeeps DEF Hardware
<1>6. CASE UNCHANGED vars
  BY <1>6 DEF vars, lockVars, LockTypeOK, LockInv, SpinMutex, SpinnerRuns,
      HandlersQuiet, NoNesting, MaskHasOwner, TimedWaitIsArmed, Running, CoreOf
<1> QED
  BY <1>1, <1>2, <1>3, <1>4, <1>5, <1>6 DEF Next

(* What a handler's return and the hardware leave alone.                   *)
LEMMA QuietFrame ==
    ASSUME IInv, Hardware \/ \E i \in Irqs : HandlerReturns(i)
    PROVE  /\ UNCHANGED <<pc, op, permits, arg>>
           /\ \A c \in Cores : event[c] => event'[c]
<1> USE CoreOfType DEF IInv, TypeOK, LockTypeOK
<1>1. CASE Hardware
  <2>1. ASSUME NEW t \in Ctx, DeadlinePasses(t) \/ AlarmFires(t)
        PROVE  UNCHANGED <<pc, op>> /\ \A c \in Cores : event[c] => event'[c]
    BY <2>1 DEF DeadlinePasses, AlarmFires
  <2>2. ASSUME NEW i \in Irqs, IrqEnter(i)
        PROVE  UNCHANGED <<pc, op, event>>
    BY <2>2 DEF IrqEnter
  <2> QED  BY <1>1, <2>1, <2>2 DEF Hardware, Environment
<1>2. ASSUME NEW i \in Irqs, HandlerReturns(i)
      PROVE  /\ UNCHANGED <<pc, op, permits, arg>>
             /\ \A c \in Cores : event[c] => event'[c]
  <2>1. PICK b \in {event[CoreOf(i)], TRUE} :
            event' = [event EXCEPT ![CoreOf(i)] = b]
    BY <1>2 DEF HandlerReturns, IrqReturn
  <2>2. CoreOf(i) \in Cores
    BY DEF Ctx
  <2>3. \A c \in Cores : event[c] => event'[c]
    BY <2>1, <2>2, Zenon
  <2> QED  BY <1>2, <2>3 DEF HandlerReturns, IrqReturn
<1> QED  BY <1>1, <1>2

LEMMA TypeKept ==
    ASSUME IInv, [Next]_vars
    PROVE  TypeOK' /\ WaitersAcquire'
<1> USE SemaphoreAssumption, CoreOfType DEF IInv, TypeOK, LockTypeOK, WaitersAcquire
<1>0. ASSUME /\ op' \in [Ctx -> Ops]
             /\ permits' \in 0..MaxPermits
             /\ arg' \in [Ctx -> 0..MaxPermits]
             /\ WaitersAcquire'
      PROVE  TypeOK' /\ WaitersAcquire'
  BY <1>0, LockPartKept
<1>1. ASSUME NEW t \in Ctx, CallStep(t)
      PROVE  TypeOK' /\ WaitersAcquire'
  BY <1>0, <1>1 DEF CallStep, CallAcquireBlocking, CallAcquireBlockUntil,
     CallNonBlocking, CallReset, Call, Ops
<1>2. ASSUME NEW t \in Ctx, SemBody(t)
      PROVE  TypeOK' /\ WaitersAcquire'
  <2> USE <1>0, <1>2 DEF Goto, Return, Ops, AcquireOps
  <2>1. CASE Acquire(t)
    BY <2>1 DEF Acquire, SpinUnlock
  <2>2. CASE NoPermit(t)
    BY <2>2 DEF NoPermit, SpinUnlock, SpinUnlockAndWait, SpinUnlockAndTimedWait
  <2>3. CASE Release(t)
    BY <2>3, Int16Fits DEF Release, SpinUnlockAndNotify
  <2>4. CASE ReleaseFails(t)
    BY <2>4 DEF ReleaseFails, SpinUnlock
  <2>5. CASE Reset(t)
    BY <2>5 DEF Reset, SpinUnlock, SpinUnlockAndNotify
  <2> QED  BY <2>1, <2>2, <2>3, <2>4, <2>5 DEF SemBody
<1>3. ASSUME NEW t \in Ctx, Waiting(t)
      PROVE  TypeOK' /\ WaitersAcquire'
  BY <1>0, <1>3 DEF Waiting, WaitStep, MaskInterrupts, AcquireSpin, Sev, Wfe,
     AddAlarm, Poll, TimedWfe, CancelAlarm, CheckTime, Goto, Return, Ops
<1>4. ASSUME UNCHANGED <<pc, op, permits, arg>>
      PROVE  TypeOK' /\ WaitersAcquire'
  BY <1>0, <1>4
<1> QED
  BY <1>1, <1>2, <1>3, <1>4, QuietFrame DEF Next, vars, lockVars

(* The waiter saw no permit under the spin lock; whoever adds permits      *)
(* later is at its SEV, which reaches every core.                          *)
LEMMA NoLostWakeupKept ==
    ASSUME IInv, [Next]_vars
    PROVE  NoLostWakeup'
<1> USE SemaphoreAssumption, CoreOfType
    DEF IInv, TypeOK, LockTypeOK, NoLostWakeup, WakeDue
<1>1. ASSUME NEW t \in Ctx, UNCHANGED event, pc[t] # "sev",
             \E place \in Places : pc' = [pc EXCEPT ![t] = place],
             permits' > 0 => permits > 0 /\ pc'[t] # "wfe"
      PROVE  NoLostWakeup'
  BY <1>1
<1>2. ASSUME NEW t \in Ctx, CallStep(t)
      PROVE  NoLostWakeup'
  BY <1>1, <1>2 DEF CallStep, CallAcquireBlocking, CallAcquireBlockUntil,
     CallNonBlocking, CallReset, Call, Places
<1>3. ASSUME NEW t \in Ctx, SemBody(t)
      PROVE  NoLostWakeup'
  <2> USE <1>3 DEF UnderLock, DropSpin, Goto, Return, Places
  <2>1. CASE Acquire(t)
    BY <1>1, <2>1 DEF Acquire, SpinUnlock
  <2>2. CASE NoPermit(t)
    BY <1>1, <2>2 DEF NoPermit, SpinUnlock, SpinUnlockAndWait,
                      SpinUnlockAndTimedWait
  <2>3. CASE Release(t)
    BY <2>3 DEF Release, SpinUnlockAndNotify
  <2>4. CASE ReleaseFails(t)
    BY <1>1, <2>4 DEF ReleaseFails, SpinUnlock
  <2>5. CASE Reset(t)
    <3>1. CASE arg[t] > permits
      BY <2>5, <3>1 DEF Reset, SpinUnlockAndNotify
    <3>2. CASE arg[t] <= permits
      BY <1>1, <2>5, <3>2 DEF Reset, SpinUnlock
    <3> QED  BY <3>1, <3>2
  <2> QED  BY <2>1, <2>2, <2>3, <2>4, <2>5 DEF SemBody
<1>4. ASSUME NEW t \in Ctx, Waiting(t)
      PROVE  NoLostWakeup'
  <2> USE <1>4 DEF Goto, Return, Places, Waiting
  <2>1. CASE Sev(t)
    BY <2>1 DEF Sev
  <2>2. CASE Wfe(t) \/ TimedWfe(t)
    <3>1. t \in Cores
      BY <2>2 DEF Wfe, TimedWfe, LockInv, HandlersQuiet, Ctx
    <3>2. /\ UNCHANGED permits
          /\ pc[t] # "sev" /\ pc'[t] # "wfe"
          /\ \A u \in Ctx : u # t => pc'[u] = pc[u]
          /\ \A c \in Cores : c # t => event'[c] = event[c]
      BY <2>2, <3>1 DEF Wfe, TimedWfe
    <3> QED  BY <3>1, <3>2
  <2>3. CASE MaskInterrupts(t) \/ AcquireSpin(t)
    BY <1>1, <2>3 DEF MaskInterrupts, AcquireSpin
  <2>4. CASE AddAlarm(t) \/ Poll(t) \/ CancelAlarm(t) \/ CheckTime(t)
    BY <1>1, <2>4 DEF AddAlarm, Poll, CancelAlarm, CheckTime
  <2> QED  BY <2>1, <2>2, <2>3, <2>4 DEF WaitStep
<1>5. ASSUME UNCHANGED <<pc, permits>>, \A c \in Cores : event[c] => event'[c]
      PROVE  NoLostWakeup'
  BY <1>5
<1> QED
  BY <1>2, <1>3, <1>4, <1>5, QuietFrame DEF Next, vars, lockVars

LEMMA Initially == Init => IInv
<1> SUFFICES ASSUME Init PROVE IInv
  OBVIOUS
<1>1. LockTypeOK /\ LockInv
  BY LockInitial DEF Init
<1> QED
  BY <1>1, SemaphoreAssumption, CoreOfType
     DEF Init, LockInit, IInv, TypeOK, Ops, WaitersAcquire, NoLostWakeup

LEMMA Inductive == IInv /\ [Next]_vars => IInv'
BY LockPartKept, TypeKept, NoLostWakeupKept DEF IInv

(* In every reachable state of every instance: the types, the protocol of  *)
(* lock_core.h, and that no wake-up is lost (sem.c).                       *)
THEOREM InvariantHolds == Spec => []IInv
BY Initially, Inductive, PTL DEF Spec

(* Permits stay between 0 and max_permits, so an int16_t never overflows,  *)
(* through every mix of acquire, release and reset (sem.c 21-90).          *)
THEOREM TypeCorrect == Spec => []TypeOK
BY InvariantHolds, PTL DEF IInv

(* A core about to sleep in sem_acquire_blocking while there is a permit   *)
(* has an event due, wherever the permit came from.                        *)
THEOREM WakeupNotLost == Spec => []NoLostWakeup
BY InvariantHolds, PTL DEF IInv
=============================================================================
