--------------------------- MODULE LockCoreProofs ---------------------------
(***************************************************************************)
(* The protocol of LockCore keeps its types and its invariants, whatever   *)
(* the lock built on it does under the spin lock.                          *)
(***************************************************************************)
EXTENDS LockCore, TLAPS

(* What a lock module's action does to LockCore's state: release the spin  *)
(* lock and go to one of the places the four unlocks lead to.  Handlers do *)
(* not take the blocking one.                                              *)
BodyStep(t) ==
    /\ UnderLock(t)
    /\ DropSpin(t)
    /\ \E place \in {"idle", "call", "sev", "wfe", "twait"} :
          /\ pc' = [pc EXCEPT ![t] = place]
          /\ t \in Irqs => place # "wfe"
    /\ until' \in [Ctx -> Deadlines]

(* Every context runs on a core; a thread's core is itself.                *)
LEMMA CoreOfType ==
    /\ \A t \in Ctx : CoreOf(t) \in Cores
    /\ \A c \in Cores : c \in Ctx /\ c \notin Irqs /\ CoreOf(c) = c
    /\ \A i \in Irqs : i \in Ctx /\ i \notin Cores /\ CoreOf(i) = IrqCore[i]
BY CtxAssumption DEF Ctx, CoreOf

(* Two contexts that can run on one core are the same context: threads are *)
(* one per core, and a thread runs when no handler does.                   *)
LEMMA OneRunsPerCore ==
    ASSUME NEW t \in Ctx, NEW u \in Ctx, LockTypeOK, NoNesting,
           Running(t), Running(u), CoreOf(t) = CoreOf(u)
    PROVE  t = u
BY CoreOfType DEF Running, LockTypeOK, NoNesting, Ctx

(* Where an active handler set is unchanged, who runs is unchanged.        *)
LEMMA RunningKept ==
    ASSUME NEW t, UNCHANGED active
    PROVE  Running(t) <=> Running(t)'
BY DEF Running, CoreOf

LEMMA CallKeeps ==
    ASSUME NEW t \in Ctx, NEW o, NEW d \in Deadlines,
           LockTypeOK, LockInv, Call(t, o, d)
    PROVE  LockTypeOK' /\ LockInv'
<1> USE CoreOfType DEF LockTypeOK, LockInv, Call, Goto, Places
<1>1. LockTypeOK'
  OBVIOUS
<1>2. SpinMutex'
  BY DEF SpinMutex
<1>3. SpinnerRuns'
  BY RunningKept DEF SpinnerRuns, CoreOf
<1>4. HandlersQuiet'
  BY DEF HandlersQuiet, Running, Ctx
<1>5. NoNesting'
  BY DEF NoNesting, CoreOf
<1>6. MaskHasOwner'
  BY DEF MaskHasOwner, CoreOf
<1>7. TimedWaitIsArmed'
  BY DEF TimedWaitIsArmed, CoreOf
<1> QED  BY <1>1, <1>2, <1>3, <1>4, <1>5, <1>6, <1>7

(* Releasing the spin lock: t was running, so nobody else on its core was  *)
(* spinning, and clearing PRIMASK there exposes nobody.                    *)
LEMMA BodyKeeps ==
    ASSUME NEW t \in Ctx, LockTypeOK, LockInv, BodyStep(t)
    PROVE  LockTypeOK' /\ LockInv'
<1> USE CoreOfType DEF LockTypeOK, LockInv, BodyStep, DropSpin, UnderLock, Places
<1>a. PICK place \in {"idle", "call", "sev", "wfe", "twait"} :
          /\ pc' = [pc EXCEPT ![t] = place]
          /\ t \in Irqs => place # "wfe"
  OBVIOUS
<1>b. \A u \in Ctx : pc[u] \in {"spin", "held"} /\ CoreOf(u) = CoreOf(t) => u = t
  BY OneRunsPerCore DEF SpinnerRuns
<1>1. LockTypeOK'
  BY <1>a
<1>2. SpinMutex'
  BY <1>a, CtxAssumption DEF SpinMutex
<1>3. SpinnerRuns'
  BY <1>a, <1>b, RunningKept DEF SpinnerRuns, CoreOf
<1>4. HandlersQuiet'
  BY <1>a DEF HandlersQuiet, Running, Ctx
<1>5. NoNesting'
  BY DEF NoNesting, CoreOf
<1>6. MaskHasOwner'
  BY <1>a DEF MaskHasOwner, CoreOf
<1>7. TimedWaitIsArmed'
  BY <1>a DEF TimedWaitIsArmed, CoreOf
<1> QED  BY <1>1, <1>2, <1>3, <1>4, <1>5, <1>6, <1>7

(* The steps after the unlock, and taking the spin lock again.  In each,   *)
(* t is running, so it is the only context of its core that a change of    *)
(* PRIMASK or of the event register of that core can concern.              *)
LEMMA WaitStepKeeps ==
    ASSUME NEW t \in Ctx, LockTypeOK, LockInv, WaitStep(t)
    PROVE  LockTypeOK' /\ LockInv'
<1> USE CoreOfType DEF LockTypeOK, LockInv, Goto, Return, Places, Deadlines
<1>0. \A u \in Ctx : pc[u] \in {"spin", "held"} /\ CoreOf(u) = CoreOf(t) /\ Running(t)
                       => u = t
  BY OneRunsPerCore DEF SpinnerRuns
<1>1. CASE MaskInterrupts(t)
  <2> USE <1>1 DEF MaskInterrupts
  <2>1. LockTypeOK'       OBVIOUS
  <2>2. SpinMutex'        BY DEF SpinMutex
  <2>3. SpinnerRuns'      BY RunningKept DEF SpinnerRuns, CoreOf
  <2>4. HandlersQuiet'    BY DEF HandlersQuiet, Running, Ctx
  <2>5. NoNesting'        BY DEF NoNesting, CoreOf
  <2>6. MaskHasOwner'     BY DEF MaskHasOwner, CoreOf
  <2>7. TimedWaitIsArmed' BY DEF TimedWaitIsArmed, CoreOf
  <2> QED  BY <2>1, <2>2, <2>3, <2>4, <2>5, <2>6, <2>7
<1>2. CASE AcquireSpin(t)
  <2> USE <1>2, CtxAssumption DEF AcquireSpin
  <2>1. LockTypeOK'       OBVIOUS
  <2>2. SpinMutex'        BY DEF SpinMutex
  <2>3. SpinnerRuns'      BY RunningKept DEF SpinnerRuns, CoreOf
  <2>4. HandlersQuiet'    BY DEF HandlersQuiet, Running, Ctx
  <2>5. NoNesting'        BY DEF NoNesting, CoreOf
  <2>6. MaskHasOwner'     BY DEF MaskHasOwner, CoreOf
  <2>7. TimedWaitIsArmed' BY DEF TimedWaitIsArmed, CoreOf
  <2> QED  BY <2>1, <2>2, <2>3, <2>4, <2>5, <2>6, <2>7
<1>3. ASSUME /\ Running(t) /\ pc[t] \notin {"spin", "held"}
             /\ \E place \in {"idle", "call", "twfe", "tcancel", "tcheck"} :
                   /\ pc' = [pc EXCEPT ![t] = place]
                   /\ t \in Irqs => place \notin {"twfe", "tcancel"}
                   /\ place = "twfe" => armed'[t]
             /\ until' \in [Ctx -> Deadlines]
             /\ UNCHANGED <<spin, primask, active>>
             /\ event' \in [Cores -> BOOLEAN] /\ armed' \in [Ctx -> BOOLEAN]
             /\ \A c \in Cores : event'[c] # event[c] => event'[c] \/ c = t
             /\ \A u \in Ctx : u # t => armed'[u] = armed[u]
      PROVE  LockTypeOK' /\ LockInv'
  <2> USE <1>3, CtxAssumption
  <2>0. PICK place \in Places : pc' = [pc EXCEPT ![t] = place]
    OBVIOUS
  <2>1. LockTypeOK'       BY <2>0
  <2>2. SpinMutex'        BY DEF SpinMutex
  <2>3. SpinnerRuns'      BY RunningKept DEF SpinnerRuns, CoreOf
  <2>4. HandlersQuiet'    BY DEF HandlersQuiet, Running, Ctx
  <2>5. NoNesting'        BY DEF NoNesting, CoreOf
  <2>6. MaskHasOwner'     BY DEF MaskHasOwner, CoreOf
  <2>7. TimedWaitIsArmed' BY DEF TimedWaitIsArmed, Ctx
  <2> QED  BY <2>1, <2>2, <2>3, <2>4, <2>5, <2>6, <2>7
<1>4. CASE Sev(t)          BY <1>3, <1>4 DEF Sev
<1>5. CASE Wfe(t)
  <2>1. t \in Cores        BY <1>5 DEF Wfe, HandlersQuiet, Ctx
  <2> QED                  BY <1>3, <1>5, <2>1 DEF Wfe
<1>6. CASE AddAlarm(t)     BY <1>3, <1>6 DEF AddAlarm
<1>7. CASE Poll(t)         BY <1>3, <1>7 DEF Poll
<1>8. CASE TimedWfe(t)
  <2>1. t \in Cores        BY <1>8 DEF TimedWfe, HandlersQuiet, Ctx
  <2> QED                  BY <1>3, <1>8, <2>1 DEF TimedWfe
<1>9. CASE CancelAlarm(t)  BY <1>3, <1>9 DEF CancelAlarm
<1>10. CASE CheckTime(t)   BY <1>3, <1>10 DEF CheckTime
<1> QED
  BY <1>1, <1>2, <1>4, <1>5, <1>6, <1>7, <1>8, <1>9, <1>10 DEF WaitStep

(* The hardware: time, the alarm interrupt, and handlers coming and going. *)
(* A handler is entered only where PRIMASK is clear, so never on top of a  *)
(* spinning context of its core.                                           *)
LEMMA HardwareKeeps ==
    ASSUME LockTypeOK, LockInv,
           \/ Environment
           \/ \E i \in Irqs : IrqReturn(i)
    PROVE  LockTypeOK' /\ LockInv'
<1> USE CoreOfType, CtxAssumption DEF LockTypeOK, LockInv, Places, Deadlines
<1>1. ASSUME NEW t \in Ctx, DeadlinePasses(t) \/ AlarmFires(t)
      PROVE  LockTypeOK' /\ LockInv'
  <2>0. /\ UNCHANGED <<pc, spin, primask, active>>
        /\ until' \in [Ctx -> Deadlines]
        /\ armed' \in [Ctx -> BOOLEAN] /\ event' \in [Cores -> BOOLEAN]
        /\ \/ UNCHANGED <<armed, event>>
           \/ \A c \in Cores : event'[c]
    <3>1. CASE DeadlinePasses(t)  BY <3>1 DEF DeadlinePasses
    <3>2. CASE AlarmFires(t)      BY <3>2 DEF AlarmFires
    <3> QED  BY <1>1, <3>1, <3>2
  <2> USE <2>0
  <2>1. LockTypeOK'       OBVIOUS
  <2>2. SpinMutex'        BY DEF SpinMutex
  <2>3. SpinnerRuns'      BY RunningKept DEF SpinnerRuns, CoreOf
  <2>4. HandlersQuiet'    BY DEF HandlersQuiet
  <2>5. NoNesting'        BY DEF NoNesting, CoreOf
  <2>6. MaskHasOwner'     BY DEF MaskHasOwner, CoreOf
  <2>7. TimedWaitIsArmed' BY DEF TimedWaitIsArmed, Ctx
  <2> QED  BY <2>1, <2>2, <2>3, <2>4, <2>5, <2>6, <2>7
<1>2. ASSUME NEW i \in Irqs, IrqEnter(i)
      PROVE  LockTypeOK' /\ LockInv'
  <2> USE <1>2 DEF IrqEnter
  <2>1. LockTypeOK'       OBVIOUS
  <2>2. SpinMutex'        BY DEF SpinMutex
  <2>3. SpinnerRuns'      BY DEF SpinnerRuns, CoreOf, Running
  <2>4. HandlersQuiet'    BY DEF HandlersQuiet
  <2>5. NoNesting'        BY DEF NoNesting, CoreOf
  <2>6. MaskHasOwner'     BY DEF MaskHasOwner, CoreOf
  <2>7. TimedWaitIsArmed' BY DEF TimedWaitIsArmed, CoreOf
  <2> QED  BY <2>1, <2>2, <2>3, <2>4, <2>5, <2>6, <2>7
<1>3. ASSUME NEW i \in Irqs, IrqReturn(i)
      PROVE  LockTypeOK' /\ LockInv'
  <2>0. /\ UNCHANGED <<pc, until, armed, spin, primask>>
        /\ i \in active /\ pc[i] = "idle" /\ active' = active \ {i}
        /\ event' \in [Cores -> BOOLEAN]
        /\ \A c \in Cores : event[c] => event'[c]
    <3>1. PICK b \in {event[CoreOf(i)], TRUE} :
              event' = [event EXCEPT ![CoreOf(i)] = b]
      BY <1>3 DEF IrqReturn
    <3>2. CoreOf(i) \in Cores /\ b \in BOOLEAN
      OBVIOUS
    <3>3. /\ event' \in [Cores -> BOOLEAN]
          /\ \A c \in Cores : event[c] => event'[c]
      BY <3>1, <3>2, Zenon
    <3> QED  BY <1>3, <3>3 DEF IrqReturn
  <2> USE <2>0
  <2>1. LockTypeOK'       OBVIOUS
  <2>2. SpinMutex'        BY DEF SpinMutex
  <2>3. SpinnerRuns'      BY DEF SpinnerRuns, CoreOf, Running
  <2>4. HandlersQuiet'    BY DEF HandlersQuiet
  <2>5. NoNesting'        BY DEF NoNesting, CoreOf
  <2>6. MaskHasOwner'     BY DEF MaskHasOwner, CoreOf
  <2>7. TimedWaitIsArmed' BY DEF TimedWaitIsArmed, CoreOf
  <2> QED  BY <2>1, <2>2, <2>3, <2>4, <2>5, <2>6, <2>7
<1> QED  BY <1>1, <1>2, <1>3 DEF Environment

LEMMA LockInitial == LockInit => LockTypeOK /\ LockInv
BY CtxAssumption, CoreOfType
   DEF LockInit, LockTypeOK, LockInv, SpinMutex, SpinnerRuns, HandlersQuiet,
       NoNesting, MaskHasOwner, TimedWaitIsArmed, Places, Deadlines
=============================================================================
