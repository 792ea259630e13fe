---------------------------- MODULE MutexProofs -----------------------------
(***************************************************************************)
(* The mutex is correct for any number of cores and handlers: types,       *)
(* mutual exclusion, an accurate owner, no lost wake-up, no waiting for    *)
(* itself.  All follow from one inductive invariant, IInv.                 *)
(***************************************************************************)
EXTENDS Mutex, LockCoreProofs

(* Who else can be inside while t runs: a context of t's core is t itself, *)
(* or the thread that the handler t has interrupted.                       *)
LEMMA InsideOnMyCore ==
    ASSUME IInv, NEW t \in Ctx, Running(t),
           NEW u \in Ctx, CoreOf(u) = CoreOf(t), holds[u] > 0
    PROVE  u = t \/ (t \in Irqs /\ u = CoreOf(t))
BY CoreOfType DEF IInv, TypeOK, LockTypeOK, HandlersLeave, Running, LockInv,
                  NoNesting, Ctx

(* The three counts that enter_count can stand for, as seen by a running t.*)
LEMMA CountSeen ==
    ASSUME IInv, recursive, NEW t \in Ctx, Running(t), owner = CoreOf(t)
    PROVE  enter_count = IF t \in Irqs THEN holds[CoreOf(t)] + holds[t]
                                       ELSE holds[t]
<1> USE CoreOfType DEF IInv, TypeOK, LockTypeOK, CountAccurate, Running
<1>1. CASE t \in Irqs
  BY <1>1, CtxAssumption DEF Ctx
<1>2. CASE t \notin Irqs
  BY <1>2 DEF Ctx
<1> QED  BY <1>1, <1>2

----------------------------------------------------------------------------
(* Every action keeps LockCore's part, by the lemmas of LockCoreProofs.    *)
LEMMA BodyIsBodyStep ==
    ASSUME IInv, NEW t \in Ctx, MutexBody(t)
    PROVE  BodyStep(t)
<1> USE CoreOfType DEF IInv, TypeOK, LockTypeOK, Deadlines, BodyStep
<1>1. CASE Enter(t)
  BY <1>1 DEF Enter, SpinUnlock, Return
<1>2. CASE EnterBlockingWaits(t)
  <2>1. t \notin Irqs
    BY <1>2 DEF EnterBlockingWaits, CallsLegal
  <2> QED  BY <1>2, <2>1 DEF EnterBlockingWaits, SpinUnlockAndWait, Goto
<1>3. CASE TryEnterFails(t)
  BY <1>3 DEF TryEnterFails, SpinUnlock, Return
<1>4. CASE EnterBlockUntilWaits(t)
  BY <1>4 DEF EnterBlockUntilWaits, SpinUnlockAndTimedWait, Goto
<1>5. CASE TryEnterBlockUntilFails(t)
  BY <1>5 DEF TryEnterBlockUntilFails, Return
<1>6. CASE ExitFrees(t)
  BY <1>6 DEF ExitFrees, SpinUnlockAndNotify, Goto
<1>7. CASE ExitNested(t)
  BY <1>7 DEF ExitNested, SpinUnlock, Return
<1> QED
  BY <1>1, <1>2, <1>3, <1>4, <1>5, <1>6, <1>7 DEF MutexBody

LEMMA LockPartKept ==
    ASSUME IInv, [Next]_vars
    PROVE  LockTypeOK' /\ LockInv'
<1> USE DEF IInv, TypeOK
<1>1. ASSUME NEW t \in Ctx, CallStep(t)
      PROVE  LockTypeOK' /\ LockInv'
  <2>1. \E o, d : d \in Deadlines /\ Call(t, o, d)
    BY <1>1 DEF CallStep, CallEnterBlocking, CallTryEnter, CallTimed, CallExit,
                Deadlines
  <2> QED  BY <2>1, CallKeeps
<1>2. ASSUME NEW t \in Ctx, MutexBody(t)
      PROVE  LockTypeOK' /\ LockInv'
  BY <1>2, BodyIsBodyStep, BodyKeeps
<1>3. ASSUME NEW t \in Ctx, Waiting(t)
      PROVE  LockTypeOK' /\ LockInv'
  BY <1>3, WaitStepKeeps DEF Waiting
<1>4. ASSUME NEW i \in Irqs, HandlerReturns(i)
      PROVE  LockTypeOK' /\ LockInv'
  BY <1>4, HardwareKeeps DEF HandlerReturns
<1>5. CASE Hardware
  BY <1>5, HardwareKeeps DEF Hardware
<1>6. CASE UNCHANGED vars
  BY <1>6 DEF vars, lockVars, LockTypeOK, LockInv, SpinMutex, SpinnerRuns,
      HandlersQuiet, NoNesting, MaskHasOwner, TimedWaitIsArmed, Running, CoreOf
<1> QED
  BY <1>1, <1>2, <1>3, <1>4, <1>5, <1>6 DEF Next

----------------------------------------------------------------------------
(* What each action does to the mutex's own variables.                     *)

(* All but entering and exiting leave the mutex alone.                     *)
Outside(t) ==
    \/ CallStep(t) \/ EnterBlockingWaits(t) \/ TryEnterFails(t)
    \/ EnterBlockUntilWaits(t) \/ TryEnterBlockUntilFails(t) \/ Waiting(t)

LEMMA OutsideFrame ==
    ASSUME NEW t \in Ctx, IInv, Outside(t)
    PROVE  UNCHANGED <<mutexVars, active>> /\ Running(t)
BY DEF Outside, CallStep, CallEnterBlocking, CallTryEnter, CallTimed, CallExit,
       Call, EnterBlockingWaits, TryEnterFails, EnterBlockUntilWaits,
       TryEnterBlockUntilFails, Waiting, UnderLock, DropSpin, SpinUnlock,
       SpinUnlockAndWait, SpinUnlockAndTimedWait, WaitStep, MaskInterrupts,
       AcquireSpin, Sev, Wfe, AddAlarm, Poll, TimedWfe, CancelAlarm, CheckTime

LEMMA HardwareFrame ==
    ASSUME IInv, Hardware
    PROVE  UNCHANGED <<mutexVars, pc, op>> /\ active \subseteq active'
           /\ \A c \in Cores : event[c] => event'[c]
<1> USE DEF Hardware, IInv, TypeOK, LockTypeOK
<1>1. ASSUME NEW t \in Ctx, DeadlinePasses(t)
      PROVE  UNCHANGED <<pc, op, active, event>>
  BY <1>1 DEF DeadlinePasses
<1>2. ASSUME NEW t \in Ctx, AlarmFires(t)
      PROVE  UNCHANGED <<pc, op, active>> /\ \A c \in Cores : event'[c]
  BY <1>2 DEF AlarmFires
<1>3. ASSUME NEW i \in Irqs, IrqEnter(i)
      PROVE  UNCHANGED <<pc, op, event>> /\ active \subseteq active'
  BY <1>3 DEF IrqEnter
<1> QED  BY <1>1, <1>2, <1>3 DEF Environment

LEMMA ReturnFrame ==
    ASSUME IInv, NEW i \in Irqs, HandlerReturns(i)
    PROVE  /\ UNCHANGED <<mutexVars, pc, op>>
           /\ i \in active /\ holds[i] = 0 /\ pc[i] = "idle"
           /\ active' = active \ {i}
           /\ \A c \in Cores : event[c] => event'[c]
<1>1. PICK b \in {event[CoreOf(i)], TRUE} :
          event' = [event EXCEPT ![CoreOf(i)] = b]
  BY DEF HandlerReturns, IrqReturn
<1>2. CoreOf(i) \in Cores
  BY CoreOfType DEF Ctx
<1>3. event \in [Cores -> BOOLEAN]
  BY DEF IInv, TypeOK, LockTypeOK
<1>4. \A c \in Cores : event[c] => event'[c]
  BY <1>1, <1>2, <1>3, Zenon
<1> QED  BY <1>4 DEF HandlerReturns, IrqReturn

(* The cases every proof below splits a step into.                         *)
LEMMA StepCases ==
    ASSUME [Next]_vars
    PROVE  \/ \E t \in Ctx : Outside(t) \/ Enter(t) \/ ExitFrees(t) \/ ExitNested(t)
           \/ \E i \in Irqs : HandlerReturns(i)
           \/ Hardware
           \/ UNCHANGED vars
BY DEF Next, MutexBody, Outside

LEMMA TypeKept ==
    ASSUME IInv, [Next]_vars
    PROVE  TypeOK'
<1> USE MutexAssumption, CoreOfType DEF IInv, TypeOK
<1>1. op' \in [Ctx -> Ops]
  <2>1. ASSUME NEW t \in Ctx, Outside(t)
        PROVE  op' \in [Ctx -> Ops]
    BY <2>1 DEF Outside, CallStep, CallEnterBlocking, CallTryEnter, CallTimed,
       CallExit, Call, EnterBlockingWaits, TryEnterFails, EnterBlockUntilWaits,
       TryEnterBlockUntilFails, Waiting, SpinUnlock, Goto, Return,
       SpinUnlockAndWait, SpinUnlockAndTimedWait, WaitStep, MaskInterrupts,
       AcquireSpin, Sev, Wfe, AddAlarm, Poll, TimedWfe, CancelAlarm, CheckTime,
       Ops, TimedOps
  <2>2. ASSUME NEW t \in Ctx, Enter(t) \/ ExitFrees(t) \/ ExitNested(t)
        PROVE  op' \in [Ctx -> Ops]
    BY <2>2 DEF Enter, ExitFrees, ExitNested, SpinUnlock, SpinUnlockAndNotify,
                Goto, Return, Ops
  <2> QED
    BY <2>1, <2>2, StepCases, ReturnFrame, HardwareFrame DEF vars, lockVars
<1>2. /\ recursive' \in BOOLEAN
      /\ owner' \in Cores \cup {NoOwner}
      /\ enter_count' \in 0..(CountMod - 1)
      /\ holds' \in [Ctx -> 0..MaxDepth]
  <2> DEFINE P == /\ recursive' \in BOOLEAN
                  /\ owner' \in Cores \cup {NoOwner}
                  /\ enter_count' \in 0..(CountMod - 1)
                  /\ holds' \in [Ctx -> 0..MaxDepth]
  <2>1. ASSUME UNCHANGED mutexVars
        PROVE  P
    BY <2>1 DEF mutexVars
  <2>2. ASSUME NEW t \in Ctx, Enter(t)
        PROVE  P
    BY <2>2 DEF Enter, TakeOwnership, Incremented, CallsLegal, EnterOps, Ops
  <2>3. ASSUME NEW t \in Ctx, ExitFrees(t) \/ ExitNested(t)
        PROVE  P
    BY <2>3 DEF ExitFrees, ExitNested, CountDown, Decremented, CallsLegal,
                UnderLock
  <2>4. UNCHANGED vars => UNCHANGED mutexVars
    BY DEF vars
  <2> QED
    BY <2>1, <2>2, <2>3, <2>4, StepCases, OutsideFrame, ReturnFrame, HardwareFrame
<1> QED  BY <1>1, <1>2, LockPartKept

----------------------------------------------------------------------------
(* The conjuncts of IInv, one by one.                                      *)

LEMMA CallsLegalKept ==
    ASSUME IInv, [Next]_vars
    PROVE  CallsLegal'
<1> USE CoreOfType DEF IInv, TypeOK, LockTypeOK, CallsLegal
<1>1. ASSUME NEW t \in Ctx, CallStep(t)
      PROVE  CallsLegal'
  BY <1>1 DEF CallStep, CallEnterBlocking, CallTryEnter, CallTimed, CallExit,
              Call, mutexVars, EnterOps, TimedOps
<1>2. ASSUME NEW t \in Ctx, MutexBody(t)
      PROVE  CallsLegal'
  <2> USE <1>2 DEF UnderLock, EnterOps, TimedOps, Goto, Return
  <2>1. CASE Enter(t)
    BY <2>1 DEF Enter, TakeOwnership, SpinUnlock
  <2>2. CASE EnterBlockingWaits(t)
    BY <2>2 DEF EnterBlockingWaits, SpinUnlockAndWait, mutexVars
  <2>3. CASE TryEnterFails(t)
    BY <2>3 DEF TryEnterFails, SpinUnlock, mutexVars
  <2>4. CASE EnterBlockUntilWaits(t)
    BY <2>4 DEF EnterBlockUntilWaits, SpinUnlockAndTimedWait, mutexVars
  <2>5. CASE TryEnterBlockUntilFails(t)
    BY <2>5 DEF TryEnterBlockUntilFails, mutexVars
  <2>6. CASE ExitFrees(t)
    BY <2>6 DEF ExitFrees, SpinUnlockAndNotify
  <2>7. CASE ExitNested(t)
    BY <2>7 DEF ExitNested, SpinUnlock
  <2> QED
    BY <2>1, <2>2, <2>3, <2>4, <2>5, <2>6, <2>7 DEF MutexBody
<1>3. ASSUME NEW t \in Ctx, Waiting(t)
      PROVE  CallsLegal'
  BY <1>3 DEF Waiting, WaitStep, MaskInterrupts, AcquireSpin, Sev, Wfe,
              AddAlarm, Poll, TimedWfe, CancelAlarm, CheckTime, Goto, Return,
              mutexVars, EnterOps, TimedOps
<1>4. ASSUME UNCHANGED <<holds, pc, op>>
      PROVE  CallsLegal'
  BY <1>4
<1>5. ASSUME NEW i \in Irqs, HandlerReturns(i)
      PROVE  CallsLegal'
  BY <1>4, <1>5, ReturnFrame DEF mutexVars
<1>6. CASE Hardware
  BY <1>4, <1>6, HardwareFrame DEF mutexVars
<1>7. CASE UNCHANGED vars
  BY <1>4, <1>7 DEF vars, lockVars, mutexVars
<1> QED  BY <1>1, <1>2, <1>3, <1>5, <1>6, <1>7 DEF Next

LEMMA HandlersLeaveKept ==
    ASSUME IInv, [Next]_vars
    PROVE  HandlersLeave'
<1> USE CoreOfType DEF IInv, HandlersLeave, TypeOK
<1>1. ASSUME NEW t \in Ctx, Outside(t)
      PROVE  HandlersLeave'
  BY <1>1, OutsideFrame DEF mutexVars
<1>2. ASSUME NEW t \in Ctx, Enter(t) \/ ExitFrees(t) \/ ExitNested(t)
      PROVE  HandlersLeave'
  BY <1>2 DEF Enter, ExitFrees, ExitNested, TakeOwnership, UnderLock, Running,
              SpinUnlock, SpinUnlockAndNotify, DropSpin, LockTypeOK
<1>3. ASSUME NEW i \in Irqs, HandlerReturns(i)
      PROVE  HandlersLeave'
  BY <1>3, ReturnFrame DEF mutexVars
<1>4. CASE Hardware
  BY <1>4, HardwareFrame DEF mutexVars
<1>5. CASE UNCHANGED vars
  BY <1>5 DEF vars, lockVars, mutexVars
<1> QED  BY <1>1, <1>2, <1>3, <1>4, <1>5, StepCases

(* Entering: CanEnter says that nobody is inside, or only contexts of t's  *)
(* own core.  Leaving: when the count reaches zero t was the last one.     *)
LEMMA OwnershipKept ==
    ASSUME IInv, [Next]_vars
    PROVE  MutualExclusion' /\ OwnerAccurate'
<1> USE MutexAssumption, CoreOfType
    DEF IInv, TypeOK, MutualExclusion, OwnerAccurate
<1>1. ASSUME UNCHANGED mutexVars
      PROVE  MutualExclusion' /\ OwnerAccurate'
  BY <1>1 DEF mutexVars, CoreOf
<1>2. ASSUME NEW t \in Ctx, Enter(t)
      PROVE  MutualExclusion' /\ OwnerAccurate'
  <2>1. /\ owner' = CoreOf(t) /\ recursive' = recursive
        /\ \A u \in Ctx : holds'[u] = IF u = t THEN holds[u] + 1 ELSE holds[u]
        /\ CanEnter(t)
    BY <1>2 DEF Enter, TakeOwnership
  <2>2. OwnerAccurate'
    BY <2>1 DEF CanEnter, CoreOf
  <2>3. MutualExclusion'
    BY <2>1 DEF CanEnter, CoreOf
  <2> QED  BY <2>2, <2>3
<1>3. ASSUME NEW t \in Ctx, ExitFrees(t)
      PROVE  MutualExclusion' /\ OwnerAccurate'
  <2>1. /\ owner' = NoOwner /\ Running(t) /\ holds[t] > 0 /\ LastExit
        /\ \A u \in Ctx : holds'[u] = IF u = t THEN holds[u] - 1 ELSE holds[u]
    BY <1>3 DEF ExitFrees, UnderLock, CallsLegal
  <2>2. owner = CoreOf(t)
    BY <2>1
  <2>3. ASSUME NEW u \in Ctx, holds'[u] > 0
        PROVE  FALSE
    <3>1. holds[u] > 0 /\ CoreOf(u) = CoreOf(t)
      BY <2>1, <2>2, <2>3
    <3>2. CASE ~recursive
      <4>1. u = t
        BY <2>1, <3>1, <3>2
      <4>2. holds[t] > 1
        BY <2>1, <2>3, <4>1
      <4> QED  BY <4>2, <3>2 DEF IInv, PlainHeldOnce
    <3>3. CASE recursive
      <4>1. enter_count = 1
        BY <2>1, <3>3 DEF LastExit, Decremented
      <4>2. enter_count = IF t \in Irqs THEN holds[CoreOf(t)] + holds[t]
                                         ELSE holds[t]
        BY <2>1, <2>2, <3>3, CountSeen
      <4>3. u = t \/ (t \in Irqs /\ u = CoreOf(t))
        BY <2>1, <3>1, InsideOnMyCore
      <4> QED  BY <2>1, <2>3, <3>1, <4>1, <4>2, <4>3 DEF Ctx
    <3> QED  BY <3>2, <3>3
  <2>4. \A u \in Ctx : holds'[u] = 0
    BY <2>3, TypeKept
  <2> QED  BY <2>1, <2>4
<1>4. ASSUME NEW t \in Ctx, ExitNested(t)
      PROVE  MutualExclusion' /\ OwnerAccurate'
  <2>1. /\ owner' = owner /\ Running(t) /\ holds[t] > 0
        /\ recursive /\ recursive' = recursive /\ Decremented # 0
        /\ \A u \in Ctx : holds'[u] = IF u = t THEN holds[u] - 1 ELSE holds[u]
    BY <1>4 DEF ExitNested, UnderLock, CallsLegal, LastExit, CountDown
  <2>2. owner = CoreOf(t) /\ owner # NoOwner
    BY <2>1
  <2>3. enter_count = IF t \in Irqs THEN holds[CoreOf(t)] + holds[t]
                                     ELSE holds[t]
    BY <2>1, <2>2, CountSeen
  <2>4. enter_count > 1
    BY <2>1, <2>3 DEF Decremented, Ctx
  <2>5. \E u \in Ctx : holds'[u] # 0
    BY <2>1, <2>3, <2>4 DEF Ctx
  <2> QED  BY <2>1, <2>2, <2>5 DEF CoreOf
<1> QED
  BY <1>1, <1>2, <1>3, <1>4, StepCases, OutsideFrame, ReturnFrame, HardwareFrame
     DEF vars

LEMMA PlainHeldOnceKept ==
    ASSUME IInv, [Next]_vars
    PROVE  PlainHeldOnce'
<1> USE DEF IInv, TypeOK, PlainHeldOnce
<1>1. ASSUME UNCHANGED mutexVars
      PROVE  PlainHeldOnce'
  BY <1>1 DEF mutexVars
<1>2. ASSUME NEW t \in Ctx, Enter(t)
      PROVE  PlainHeldOnce'
  BY <1>2, MutexAssumption DEF Enter, TakeOwnership, CanEnter, OwnerAccurate
<1>3. ASSUME NEW t \in Ctx, ExitFrees(t) \/ ExitNested(t)
      PROVE  PlainHeldOnce'
  BY <1>3 DEF ExitFrees, ExitNested, CountDown
<1> QED
  BY <1>1, <1>2, <1>3, StepCases, OutsideFrame, ReturnFrame, HardwareFrame
     DEF vars

(* A running t is its core's only running context, so the count of its     *)
(* core moves with t's own entries; a handler comes and goes with none.    *)
LEMMA CountAccurateKept ==
    ASSUME IInv, [Next]_vars
    PROVE  CountAccurate'
<1> USE MutexAssumption, CoreOfType DEF IInv, TypeOK, LockTypeOK
<1>1. ASSUME UNCHANGED <<mutexVars, active>>
      PROVE  CountAccurate'
  BY <1>1 DEF mutexVars, CountAccurate, CoreOf
<1>2. ASSUME NEW t \in Ctx, Enter(t)
      PROVE  CountAccurate'
  <2>1. /\ Running(t) /\ CanEnter(t) /\ owner' = CoreOf(t)
        /\ active' = active /\ holds[t] < MaxDepth
        /\ recursive' = recursive
        /\ recursive => enter_count' = Incremented
        /\ \A u \in Ctx : holds'[u] = IF u = t THEN holds[u] + 1 ELSE holds[u]
    BY <1>2 DEF Enter, TakeOwnership, UnderLock, SpinUnlock, DropSpin,
                CallsLegal, EnterOps, Ops
  <2>2. ASSUME recursive
        PROVE  enter_count = IF t \in Irqs THEN holds[CoreOf(t)] + holds[t]
                                           ELSE holds[t]
    <3>1. CASE owner = CoreOf(t)
      BY <2>1, <2>2, <3>1, CountSeen
    <3>2. CASE owner = NoOwner
      BY <2>2, <3>2 DEF CountAccurate, OwnerAccurate, Ctx
    <3> QED  BY <2>1, <3>1, <3>2 DEF CanEnter
  <2>3. recursive => enter_count' = enter_count + 1
    BY <2>1, <2>2 DEF Incremented, Ctx
  <2>4. CASE t \in Irqs
    <3>1. t \in active /\ \A i \in active : CoreOf(i) = CoreOf(t) => i = t
      BY <2>1, <2>4, CtxAssumption DEF Running, LockInv, NoNesting
    <3> QED  BY <2>1, <2>2, <2>3, <2>4, <3>1 DEF CountAccurate, CoreOf
  <2>5. CASE t \notin Irqs
    <3>1. \A i \in active : CoreOf(i) # t
      BY <2>1, <2>5 DEF Running, Ctx
    <3> QED  BY <2>1, <2>2, <2>3, <2>5, <3>1 DEF CountAccurate, CoreOf, Ctx
  <2> QED  BY <2>4, <2>5
<1>3. ASSUME NEW t \in Ctx, ExitFrees(t)
      PROVE  CountAccurate'
  BY <1>3 DEF ExitFrees, LastExit, CountDown, CountAccurate
<1>4. ASSUME NEW t \in Ctx, ExitNested(t)
      PROVE  CountAccurate'
  <2>1. /\ Running(t) /\ owner = CoreOf(t) /\ owner' = owner
        /\ active' = active /\ holds[t] > 0
        /\ recursive /\ recursive' = recursive /\ enter_count' = Decremented
        /\ \A u \in Ctx : holds'[u] = IF u = t THEN holds[u] - 1 ELSE holds[u]
    BY <1>4 DEF ExitNested, UnderLock, SpinUnlock, DropSpin, CallsLegal,
                CountDown, LastExit, OwnerAccurate
  <2>2. enter_count = IF t \in Irqs THEN holds[CoreOf(t)] + holds[t]
                                     ELSE holds[t]
    BY <2>1, CountSeen
  <2>3. enter_count' = enter_count - 1
    BY <2>1, <2>2 DEF Decremented, Ctx
  <2>4. CASE t \in Irqs
    <3>1. t \in active /\ \A i \in active : CoreOf(i) = CoreOf(t) => i = t
      BY <2>1, <2>4, CtxAssumption DEF Running, LockInv, NoNesting
    <3> QED  BY <2>1, <2>2, <2>3, <2>4, <3>1 DEF CountAccurate, CoreOf
  <2>5. CASE t \notin Irqs
    <3>1. \A i \in active : CoreOf(i) # t
      BY <2>1, <2>5 DEF Running, Ctx
    <3> QED  BY <2>1, <2>2, <2>3, <2>5, <3>1 DEF CountAccurate, CoreOf, Ctx
  <2> QED  BY <2>4, <2>5
<1>5. ASSUME NEW i \in Irqs, HandlerReturns(i)
      PROVE  CountAccurate'
  <2>1. /\ UNCHANGED mutexVars /\ i \in active /\ holds[i] = 0
        /\ active' = active \ {i}
        /\ \A j \in active : CoreOf(j) = CoreOf(i) => j = i
    BY <1>5, ReturnFrame DEF LockInv, NoNesting
  <2> QED  BY <2>1 DEF CountAccurate, CoreOf, mutexVars
<1>6. CASE Hardware
  <2>1. ASSUME NEW i \in Irqs, IrqEnter(i), UNCHANGED mutexVars
        PROVE  CountAccurate'
    <3>1. /\ i \notin active /\ active' = active \cup {i} /\ holds[i] = 0
          /\ \A j \in active : CoreOf(j) # CoreOf(i)
      BY <2>1 DEF IrqEnter, HandlersLeave
    <3> QED  BY <2>1, <3>1 DEF CountAccurate, CoreOf, mutexVars
  <2> QED
    BY <1>1, <1>6, <2>1 DEF Hardware, Environment, DeadlinePasses, AlarmFires
<1>7. UNCHANGED vars => UNCHANGED <<mutexVars, active>>
  BY DEF vars, lockVars
<1> QED
  BY <1>1, <1>2, <1>3, <1>4, <1>5, <1>6, <1>7, StepCases, OutsideFrame

(* Only t's own steps, and those of a thread that t as a handler keeps     *)
(* from running, could put t's core inside while t retries.                *)
LEMMA RetriesOutsideKept ==
    ASSUME IInv, [Next]_vars
    PROVE  RetriesOutside'
<1> USE CoreOfType DEF IInv, TypeOK, LockTypeOK, RetriesOutside
<1>1. ASSUME UNCHANGED <<op, holds>>
      PROVE  RetriesOutside'
  BY <1>1 DEF CoreOf
<1>2. ASSUME NEW t \in Ctx, UNCHANGED holds,
             \/ \E o \in Ops \ {"enter_block_until_retry"} : op' = [op EXCEPT ![t] = o]
             \/ op' = op
      PROVE  RetriesOutside'
  BY <1>2 DEF CoreOf
<1>3. ASSUME NEW t \in Ctx, CallStep(t)
      PROVE  RetriesOutside'
  BY <1>2, <1>3 DEF CallStep, CallEnterBlocking, CallTryEnter, CallTimed, CallExit,
              Call, mutexVars, Ops, TimedOps
<1>4. ASSUME NEW t \in Ctx, TryEnterBlockUntilFails(t)
      PROVE  RetriesOutside'
  <2>1. CASE owner = CoreOf(t)
    BY <1>2, <1>4, <2>1 DEF TryEnterBlockUntilFails, Return, mutexVars, Ops
  <2>2. CASE owner # CoreOf(t)
    <3>1. op' = [op EXCEPT ![t] = "enter_block_until_retry"] /\ holds' = holds
      BY <1>4, <2>2 DEF TryEnterBlockUntilFails, mutexVars
    <3>2. holds[t] = 0 /\ holds[CoreOf(t)] = 0
      BY <2>2 DEF OwnerAccurate, Ctx
    <3> QED  BY <3>1, <3>2 DEF CoreOf
  <2> QED  BY <2>1, <2>2
<1>5. ASSUME NEW t \in Ctx, EnterBlockingWaits(t) \/ TryEnterFails(t)
                               \/ EnterBlockUntilWaits(t) \/ Waiting(t)
      PROVE  RetriesOutside'
  BY <1>2, <1>5 DEF EnterBlockingWaits, TryEnterFails, EnterBlockUntilWaits, Waiting,
       SpinUnlock, SpinUnlockAndWait, SpinUnlockAndTimedWait, Goto, Return, WaitStep,
       MaskInterrupts, AcquireSpin, Sev, Wfe, AddAlarm, Poll, TimedWfe,
       CancelAlarm, CheckTime, mutexVars, Ops
<1>6. ASSUME NEW t \in Ctx, Enter(t) \/ ExitFrees(t) \/ ExitNested(t)
      PROVE  RetriesOutside'
  <2>1. /\ Running(t) /\ op'[t] # "enter_block_until_retry"
        /\ \A u \in Ctx : u # t => op'[u] = op[u] /\ holds'[u] = holds[u]
    BY <1>6 DEF Enter, ExitFrees, ExitNested, UnderLock, TakeOwnership,
                SpinUnlock, SpinUnlockAndNotify, Goto, Return
  <2>2. ASSUME NEW u \in Ctx, op[u] = "enter_block_until_retry", CoreOf(u) = t, u # t
        PROVE  FALSE
    <3>1. u \in Irqs /\ u \in active
      BY <2>2 DEF Ctx, LockInv, HandlersQuiet, CallsLegal
    <3> QED  BY <2>1, <2>2, <3>1, CtxAssumption DEF Running, Ctx
  <2> QED  BY <2>1, <2>2 DEF CoreOf
<1>7. UNCHANGED mutexVars => UNCHANGED holds
  BY DEF mutexVars
<1>8. UNCHANGED vars => UNCHANGED <<op, holds>>
  BY DEF vars, lockVars, mutexVars
<1> QED
  BY <1>1, <1>3, <1>4, <1>5, <1>6, <1>7, <1>8, ReturnFrame, HardwareFrame
     DEF Next, MutexBody

(* The waiter saw an owner under the spin lock; whoever frees the mutex    *)
(* later is at its SEV, and the SEV reaches every core.  A core's event    *)
(* register is consumed by its own thread alone, which then looks again.   *)
LEMMA NoLostWakeupKept ==
    ASSUME IInv, [Next]_vars
    PROVE  NoLostWakeup'
<1> USE CoreOfType DEF IInv, TypeOK, LockTypeOK, NoLostWakeup, WakeDue
<1>1. ASSUME NEW t \in Ctx, UNCHANGED <<owner, event>>, pc[t] # "sev",
             \E place \in Places : pc' = [pc EXCEPT ![t] = place],
             pc'[t] = "wfe" => owner # NoOwner
      PROVE  NoLostWakeup'
  BY <1>1
<1>2. ASSUME NEW t \in Ctx, CallStep(t)
      PROVE  NoLostWakeup'
  BY <1>1, <1>2 DEF CallStep, CallEnterBlocking, CallTryEnter, CallTimed,
                    CallExit, Call, Goto, mutexVars, Places
<1>3. ASSUME NEW t \in Ctx, MutexBody(t)
      PROVE  NoLostWakeup'
  <2> USE <1>3 DEF UnderLock, DropSpin, Goto, Return, mutexVars, Places
  <2>1. CASE Enter(t)
    <3>1. owner' = CoreOf(t)
      BY <2>1 DEF Enter, TakeOwnership
    <3>2. owner' # NoOwner
      <4>1. CoreOf(t) \in Cores /\ NoOwner \notin Cores
        BY MutexAssumption
      <4> QED  BY <3>1, <4>1
    <3> QED  BY <3>2
  <2>2. CASE EnterBlockingWaits(t)
    BY <1>1, <2>2 DEF EnterBlockingWaits, SpinUnlockAndWait, CanEnter
  <2>3. CASE TryEnterFails(t)
    BY <1>1, <2>3 DEF TryEnterFails, SpinUnlock
  <2>4. CASE EnterBlockUntilWaits(t)
    BY <1>1, <2>4 DEF EnterBlockUntilWaits, SpinUnlockAndTimedWait
  <2>5. CASE TryEnterBlockUntilFails(t)
    BY <1>1, <2>5 DEF TryEnterBlockUntilFails
  <2>6. CASE ExitFrees(t)
    BY <2>6 DEF ExitFrees, SpinUnlockAndNotify
  <2>7. CASE ExitNested(t)
    BY <1>1, <2>7 DEF ExitNested, SpinUnlock
  <2> QED
    BY <2>1, <2>2, <2>3, <2>4, <2>5, <2>6, <2>7 DEF MutexBody
<1>4. ASSUME NEW t \in Ctx, Waiting(t)
      PROVE  NoLostWakeup'
  <2> USE <1>4 DEF Goto, Return, mutexVars, Places
  <2>1. CASE Sev(t)
    BY <2>1 DEF Sev
  <2>2. CASE Wfe(t) \/ TimedWfe(t)
    <3>1. t \in Cores
      BY <2>2 DEF Wfe, TimedWfe, LockInv, HandlersQuiet, Ctx
    <3>2. /\ UNCHANGED owner
          /\ pc[t] # "sev" /\ pc'[t] # "wfe"
          /\ \A u \in Ctx : u # t => pc'[u] = pc[u]
          /\ \A c \in Cores : c # t => event'[c] = event[c]
      BY <2>2, <1>4, <3>1 DEF Wfe, TimedWfe, Waiting
    <3> QED  BY <3>1, <3>2
  <2>3. CASE MaskInterrupts(t) \/ AcquireSpin(t)
    BY <1>1, <2>3 DEF MaskInterrupts, AcquireSpin, Waiting
  <2>4. CASE AddAlarm(t) \/ Poll(t) \/ CancelAlarm(t) \/ CheckTime(t)
    BY <1>1, <2>4 DEF AddAlarm, Poll, CancelAlarm, CheckTime, Waiting
  <2> QED  BY <2>1, <2>2, <2>3, <2>4 DEF Waiting, WaitStep
<1>5. ASSUME UNCHANGED <<owner, pc>>, \A c \in Cores : event[c] => event'[c]
      PROVE  NoLostWakeup'
  BY <1>5
<1>6. UNCHANGED vars => UNCHANGED <<owner, pc, event>>
  BY DEF vars, lockVars, mutexVars
<1>7. UNCHANGED mutexVars => UNCHANGED owner
  BY DEF mutexVars
<1> QED
  BY <1>2, <1>3, <1>4, <1>5, <1>6, <1>7, ReturnFrame, HardwareFrame DEF Next

----------------------------------------------------------------------------
(* IInv is inductive.                                                      *)

LEMMA Initially == Init => IInv
<1> SUFFICES ASSUME Init PROVE IInv
  OBVIOUS
<1>1. LockTypeOK /\ LockInv
  BY LockInitial DEF Init
<1> QED
  BY <1>1, MutexAssumption, CoreOfType
     DEF Init, LockInit, MutexInit, IInv, TypeOK, Ops, TimedOps, EnterOps,
         CallsLegal, HandlersLeave, MutualExclusion, OwnerAccurate,
         PlainHeldOnce, CountAccurate, RetriesOutside, NoLostWakeup

LEMMA Inductive == IInv /\ [Next]_vars => IInv'
BY LockPartKept, TypeKept, CallsLegalKept, HandlersLeaveKept, OwnershipKept,
   PlainHeldOnceKept, CountAccurateKept, RetriesOutsideKept, NoLostWakeupKept
   DEF IInv

(* In every reachable state of every instance: the types, the protocol of  *)
(* lock_core.h, and all the invariants below (mutex.c).                    *)
THEOREM InvariantHolds == Spec => []IInv
BY Initially, Inductive, PTL DEF Spec

(* The fields of mutex_t and the protocol's places keep their types: in    *)
(* particular enter_count never reaches the end of its uint8_t range while *)
(* callers nest no deeper than MaxDepth.                                   *)
THEOREM TypeCorrect == Spec => []TypeOK
BY InvariantHolds, PTL DEF IInv

(* mutex_t is held by one context at a time, recursive_mutex_t by one core.*)
THEOREM MutexExcludes == Spec => []MutualExclusion
BY InvariantHolds, PTL DEF IInv

(* The owner field tells the truth about who is inside, through any nesting*)
(* of entries by a thread and the handlers that interrupt it.              *)
THEOREM OwnerIsAccurate == Spec => []OwnerAccurate
BY InvariantHolds, PTL DEF IInv

(* A free mutex never has a core going to sleep on it with no event due:   *)
(* the atomicity lock_core.h asks of its wait and notify macros.           *)
THEOREM WakeupNotLost == Spec => []NoLostWakeup
BY InvariantHolds, PTL DEF IInv

(* mutex_try_enter_block_until, once past its check of the owner, never    *)
(* waits for its own core.                                                 *)
THEOREM NeverWaitsForItself == Spec => []NoSelfWait
<1>1. IInv => NoSelfWait
  <2> SUFFICES ASSUME IInv, NEW t \in Ctx, UnderLock(t),
                      op[t] = "enter_block_until_retry", owner = CoreOf(t)
               PROVE  FALSE
    BY DEF NoSelfWait
  <2>1. PICK u \in Ctx : holds[u] > 0 /\ CoreOf(u) = CoreOf(t)
    BY CoreOfType, MutexAssumption DEF IInv, TypeOK, OwnerAccurate
  <2>2. u = t \/ u = CoreOf(t)
    BY <2>1, InsideOnMyCore DEF UnderLock
  <2> QED  BY <2>1, <2>2 DEF IInv, RetriesOutside
<1> QED  BY <1>1, InvariantHolds, PTL
=============================================================================
