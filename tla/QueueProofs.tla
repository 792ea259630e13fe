---------------------------- MODULE QueueProofs -----------------------------
(***************************************************************************)
(* The queue is correct for any number of cores and handlers, any elements *)
(* and any capacity that a uint16_t index can reach: indices in the        *)
(* allocation, no wake-up lost, the recorded maximum one behind at most.   *)
(***************************************************************************)
EXTENDS Queue, LockCoreProofs, SequenceTheorems

(* The index arithmetic: next slot, wrapping after element_count.          *)
LEMMA NextSlot ==
    ASSUME NEW i \in Slots
    PROVE  /\ IncIndex(i) = IF i = ElementCount THEN 0 ELSE i + 1
           /\ IncIndex(i) \in Slots
<1>1. (i + 1) % IndexMod = i + 1 \/ i = ElementCount
  BY QueueAssumption DEF Slots
<1>2. i = ElementCount => (i + 1) % IndexMod \in {0, i + 1}
  BY QueueAssumption DEF Slots
<1>3. i # ElementCount => IncIndex(i) = i + 1
  BY <1>1, QueueAssumption DEF Slots, IncIndex
<1>4. i = ElementCount => IncIndex(i) = 0
  BY <1>2, QueueAssumption DEF Slots, IncIndex
<1> QED
  BY <1>3, <1>4, QueueAssumption DEF Slots

(* The difference of the indices, corrected once, counts the elements, and *)
(* is what it is modulo the width of max_level.                            *)
LEMMA LevelInRange ==
    ASSUME wptr \in Slots, rptr \in Slots
    PROVE  Level \in Slots /\ Level % IndexMod = Level
<1>1. Level \in Slots
  BY QueueAssumption DEF Slots, Level
<1> QED  BY <1>1, QueueAssumption DEF Slots

(* Storing the next wptr adds one to the level, the next rptr takes one.   *)
LEMMA LevelAfter ==
    ASSUME wptr \in Slots, rptr \in Slots
    PROVE  /\ Level # ElementCount /\ wptr' = IncIndex(wptr) /\ rptr' = rptr
                => Level' = Level + 1
           /\ Level # 0 /\ rptr' = IncIndex(rptr) /\ wptr' = wptr
                => Level' = Level - 1
           /\ UNCHANGED <<wptr, rptr>> => Level' = Level
BY NextSlot, QueueAssumption DEF Slots, Level

(* Every action keeps LockCore's part, by the lemmas of LockCoreProofs.    *)
LEMMA BodyIsBodyStep ==
    ASSUME IInv, NEW t \in Ctx, QueueBody(t)
    PROVE  BodyStep(t)
<1> USE CoreOfType DEF IInv, TypeOK, LockTypeOK, Deadlines, BodyStep, Goto, Return
<1>1. CASE Add(t)     BY <1>1 DEF Add, SpinUnlockAndNotify
<1>2. CASE Remove(t)  BY <1>2 DEF Remove, SpinUnlockAndNotify
<1>3. CASE Peek(t)    BY <1>3 DEF Peek, SpinUnlockAndNotify
<1>4. CASE CannotProceed(t)
  BY <1>4 DEF CannotProceed, SpinUnlock, SpinUnlockAndWait, CallsSound
<1>5. CASE ResetMaxLevel(t)
  BY <1>5 DEF ResetMaxLevel, SpinUnlock
<1> QED  BY <1>1, <1>2, <1>3, <1>4, <1>5 DEF QueueBody

LEMMA LockPartKept ==
    ASSUME IInv, [Next]_vars
    PROVE  LockTypeOK' /\ LockInv'
<1> USE DEF IInv, TypeOK
<1>1. ASSUME NEW t \in Ctx, CallStep(t)
      PROVE  LockTypeOK' /\ LockInv'
  <2>1. \E o : Call(t, o, "none")
    BY <1>1 DEF CallStep, CallAdd, CallTake, CallResetMaxLevel, Starting
  <2> QED  BY <2>1, CallKeeps DEF Deadlines
<1>2. ASSUME NEW t \in Ctx, QueueBody(t)
      PROVE  LockTypeOK' /\ LockInv'
  BY <1>2, BodyIsBodyStep, BodyKeeps
<1>3. ASSUME NEW t \in Ctx, Waiting(t)
      PROVE  LockTypeOK' /\ LockInv'
  BY <1>3, WaitStepKeeps DEF Waiting
<1>4. ASSUME NEW i \in Irqs, HandlerReturns(i)
      PROVE  LockTypeOK' /\ LockInv'
  BY <1>4, HardwareKeeps DEF HandlerReturns
<1>5. CASE Hardware
  BY <1>5, HardwareKeeps DEF Hardware
<1>6. CASE UNCHANGED vars
  BY <1>6 DEF vars, lockVars, LockTypeOK, LockInv, SpinMutex, SpinnerRuns,
      HandlersQuiet, NoNesting, MaskHasOwner, TimedWaitIsArmed, Running, CoreOf
<1> QED
  BY <1>1, <1>2, <1>3, <1>4, <1>5, <1>6 DEF Next

(* What a handler's return and the hardware leave alone.                   *)
LEMMA QuietFrame ==
    ASSUME IInv, Hardware \/ \E i \in Irqs : HandlerReturns(i)
    PROVE  /\ UNCHANGED <<pc, op, data, wptr, rptr, max_level, arg, answer>>
           /\ \A c \in Cores : event[c] => event'[c]
<1> USE CoreOfType DEF IInv, TypeOK, LockTypeOK, queueVars
<1>1. CASE Hardware
  <2>1. ASSUME NEW t \in Ctx, DeadlinePasses(t) \/ AlarmFires(t)
        PROVE  UNCHANGED <<pc, op>> /\ \A c \in Cores : event[c] => event'[c]
    BY <2>1 DEF DeadlinePasses, AlarmFires
  <2>2. ASSUME NEW i \in Irqs, IrqEnter(i)
        PROVE  UNCHANGED <<pc, op, event>>
    BY <2>2 DEF IrqEnter
  <2> QED  BY <1>1, <2>1, <2>2 DEF Hardware, Environment
<1>2. ASSUME NEW i \in Irqs, HandlerReturns(i)
      PROVE  /\ UNCHANGED <<pc, op, data, wptr, rptr, max_level, arg, answer>>
             /\ \A c \in Cores : event[c] => event'[c]
  <2>1. PICK b \in {event[CoreOf(i)], TRUE} :
            event' = [event EXCEPT ![CoreOf(i)] = b]
    BY <1>2 DEF HandlerReturns, IrqReturn
  <2>2. CoreOf(i) \in Cores
    BY DEF Ctx
  <2>3. \A c \in Cores : event[c] => event'[c]
    BY <2>1, <2>2, Zenon
  <2> QED  BY <1>2, <2>3 DEF HandlerReturns, IrqReturn
<1> QED  BY <1>1, <1>2

(* The steps of the protocol end or repeat a call, or go on in it.         *)
LEMMA WaitingFrame ==
    ASSUME IInv, NEW t \in Ctx, Waiting(t)
    PROVE  /\ UNCHANGED queueVars
           /\ \E place \in Places \ {"wfe", "sev"} : pc' = [pc EXCEPT ![t] = place]
           /\ \/ op' = op /\ pc[t] # "sev"
              \/ op' = [op EXCEPT ![t] = "none"]
BY DEF Waiting, WaitStep, MaskInterrupts, AcquireSpin, Sev, Wfe, AddAlarm, Poll,
       TimedWfe, CancelAlarm, CheckTime, Goto, Return, Places

(* One action of a call under the lock, as far as the invariant sees it.   *)
LEMMA BodyFrame ==
    ASSUME IInv, NEW t \in Ctx, QueueBody(t)
    PROVE  /\ \E place \in {"idle", "sev", "wfe"} :
                /\ pc' = [pc EXCEPT ![t] = place]
                /\ place = "idle" => op' = [op EXCEPT ![t] = "none"]
                /\ place # "idle" => op' = op
                /\ place # "sev" => UNCHANGED <<wptr, rptr>>
                /\ place = "wfe" => op[t] \in BlockingOps /\ Blocked(t) /\ arg' = arg
           /\ event' = event /\ pc[t] = "held"
           /\ arg' \in {arg, [arg EXCEPT ![t] = Empty]}
           /\ wptr' \in Slots /\ rptr' \in Slots
<1> USE DEF IInv, TypeOK, LockTypeOK, Goto, Return, DropSpin, UnderLock, Gives
<1>1. CASE Add(t)
  BY <1>1, NextSlot DEF Add, SpinUnlockAndNotify
<1>2. CASE Remove(t)
  BY <1>2, NextSlot DEF Remove, SpinUnlockAndNotify
<1>3. CASE Peek(t)
  BY <1>3 DEF Peek, SpinUnlockAndNotify
<1>4. CASE CannotProceed(t)
  BY <1>4 DEF CannotProceed, SpinUnlock, SpinUnlockAndWait
<1>5. CASE ResetMaxLevel(t)
  BY <1>5 DEF ResetMaxLevel, SpinUnlock
<1> QED  BY <1>1, <1>2, <1>3, <1>4, <1>5 DEF QueueBody

(* A call starts with its element.                                         *)
LEMMA CallFrame ==
    ASSUME IInv, NEW t \in Ctx, CallStep(t)
    PROVE  /\ pc' = [pc EXCEPT ![t] = "call"]
           /\ UNCHANGED <<data, wptr, rptr, max_level, answer, event>>
           /\ pc[t] = "idle"
           /\ \E o \in Ops :
                /\ op' = [op EXCEPT ![t] = o]
                /\ o \in BlockingOps => t \in Cores
                /\ \/ o \notin AddOps /\ arg' = arg
                   \/ \E v \in Values : arg' = [arg EXCEPT ![t] = v]
<1>1. \A o : Starting(t, o) =>
        /\ pc' = [pc EXCEPT ![t] = "call"]
        /\ UNCHANGED <<data, wptr, rptr, max_level, answer, event>>
        /\ pc[t] = "idle"
        /\ op' = [op EXCEPT ![t] = o]
        /\ o \in BlockingOps => t \in Cores
  BY CallsAssumption DEF Starting, Call, Ctx
<1>2. CASE CallAdd(t)
  <2>1. PICK o \in AddOps, v \in Offers[t] :
            Starting(t, o) /\ arg' = [arg EXCEPT ![t] = v]
    BY <1>2 DEF CallAdd
  <2>2. v \in Values /\ o \in Ops
    BY <2>1, CallsAssumption DEF Ops
  <2> QED  BY <1>1, <2>1, <2>2
<1>3. CASE CallTake(t)
  BY <1>1, <1>3 DEF CallTake, RemoveOps, PeekOps, AddOps, Ops
<1>4. CASE CallResetMaxLevel(t)
  BY <1>1, <1>4 DEF CallResetMaxLevel, AddOps, Ops
<1> QED  BY <1>2, <1>3, <1>4 DEF CallStep

(* The slots of different elements differ, and the next element's is wptr. *)
LEMMA SlotsDistinct ==
    ASSUME wptr \in Slots, rptr \in Slots
    PROVE  /\ \A k \in 1..Level : SlotOf(k) \in Slots \ {wptr}
           /\ SlotOf(Level + 1) = wptr
BY QueueAssumption DEF Slots, Level, SlotOf

LEMMA SlotsShift ==
    ASSUME wptr \in Slots, rptr \in Slots, Level # 0, rptr' = IncIndex(rptr)
    PROVE  /\ SlotOf(1) = rptr
           /\ \A k \in 1..(Level - 1) : SlotOf(k)' = SlotOf(k + 1)
BY NextSlot, QueueAssumption DEF Slots, Level, SlotOf

(* What an add and a removal do to the contents.                           *)
LEMMA ContentsAfterAdd ==
    ASSUME IInv, NEW t \in Ctx, Add(t)
    PROVE  /\ Level \in Nat /\ Level' = Level + 1
           /\ Contents' = [k \in 1..(Level + 1) |->
                             IF k = Level + 1 THEN arg[t] ELSE Contents[k]]
<1> USE DEF IInv, TypeOK, Add
<1>1. Level \in Nat /\ Level' = Level + 1
  BY LevelInRange, LevelAfter DEF Slots
<1>2. \A k : SlotOf(k)' = SlotOf(k)
  BY DEF SlotOf
<1>3. \A k \in 1..Level : data'[SlotOf(k)] = data[SlotOf(k)]
  BY SlotsDistinct
<1>4. data'[SlotOf(Level + 1)] = arg[t]
  BY SlotsDistinct
<1>5. Contents' = [k \in 1..(Level + 1) |-> data'[SlotOf(k)]]
  BY <1>1, <1>2 DEF Contents
<1>6. \A k \in 1..(Level + 1) :
        data'[SlotOf(k)] = IF k = Level + 1 THEN arg[t] ELSE Contents[k]
  BY <1>1, <1>3, <1>4 DEF Contents
<1> QED  BY <1>1, <1>5, <1>6

LEMMA ContentsAfterRemove ==
    ASSUME IInv, NEW t \in Ctx, Remove(t)
    PROVE  /\ Level \in Nat \ {0} /\ Level' = Level - 1
           /\ data[rptr] = Contents[1]
           /\ Contents' = [k \in 1..(Level - 1) |-> Contents[k + 1]]
<1> USE DEF IInv, TypeOK, Remove
<1>1. Level \in Nat \ {0} /\ Level' = Level - 1
  BY LevelInRange, LevelAfter DEF Slots
<1>2. Contents' = [k \in 1..(Level - 1) |-> data[SlotOf(k + 1)]]
  BY <1>1, SlotsShift DEF Contents
<1>3. \A k \in 1..(Level - 1) : data[SlotOf(k + 1)] = Contents[k + 1]
  BY <1>1 DEF Contents
<1>4. data[rptr] = Contents[1]
  BY <1>1, SlotsShift DEF Contents
<1> QED  BY <1>1, <1>2, <1>3, <1>4

LEMMA ContentsKept ==
    ASSUME UNCHANGED <<data, wptr, rptr>>
    PROVE  Level' = Level /\ Contents' = Contents
BY DEF Contents, Level, SlotOf

(* What the queue keeps: types and indices, the level's record.            *)
LEMMA QueueKept ==
    ASSUME IInv, NEW t \in Ctx, QueueBody(t)
    PROVE  /\ data' \in [Slots -> Values \cup {Empty}]
           /\ max_level' \in Slots
           /\ answer' \in {NoAnswer} \cup
                 ({"add", "remove", "peek"} \X (Values \cup {Ok, Fail}))
           /\ MaxLevelLagsByOne' /\ ContentsWritten'
<1>0. /\ Level \in Nat /\ Level \in Slots /\ Level % IndexMod = Level
      /\ max_level \in Nat /\ MaxLevelLagsByOne /\ ContentsWritten
      /\ max_level \in Slots /\ data \in [Slots -> Values \cup {Empty}]
      /\ wptr \in Slots /\ rptr \in Slots
  BY LevelInRange DEF IInv, TypeOK, Slots
<1>n. NoteLevel => /\ max_level' \in Slots /\ max_level' \in Nat
                   /\ MaxLevelKept => max_level' >= Level
  BY <1>0, QueueAssumption DEF NoteLevel
<1>k. \A r \in Values \cup {Ok, Fail} : Gives(t, r) =>
        answer' \in {NoAnswer} \cup
              ({"add", "remove", "peek"} \X (Values \cup {Ok, Fail}))
  BY DEF Gives, Kind
<1>u. UNCHANGED <<data, wptr, rptr>> => ContentsWritten' /\ Level' = Level
  BY <1>0, ContentsKept DEF ContentsWritten
<1>1. CASE Add(t)
  <2>1. arg[t] \in Values
    BY <1>1 DEF Add, UnderLock, CallsSound, IInv
  <2>2. ContentsWritten'
    <3> SUFFICES ASSUME NEW k \in 1..Level' PROVE Contents'[k] \in Values
      BY DEF ContentsWritten
    <3>1. k = Level + 1 \/ k \in 1..Level
      BY <1>0, <1>1, ContentsAfterAdd
    <3>2. Contents'[k] = IF k = Level + 1 THEN arg[t] ELSE Contents[k]
      BY <1>1, ContentsAfterAdd
    <3> QED  BY <1>0, <2>1, <3>1, <3>2 DEF ContentsWritten
  <2>3. MaxLevelLagsByOne'
    <3>1. NoteLevel
      BY <1>1 DEF Add
    <3>2. Level' = Level + 1
      BY <1>1, ContentsAfterAdd
    <3> QED  BY <3>1, <3>2, <1>0, <1>n DEF MaxLevelLagsByOne
  <2>4. data' \in [Slots -> Values \cup {Empty}]
    BY <1>1, <1>0, <2>1 DEF Add
  <2> QED  BY <1>1, <1>k, <1>n, <2>2, <2>3, <2>4 DEF Add
<1>2. CASE Remove(t)
  <2>1. data[rptr] \in Values
    BY <1>0, <1>2, ContentsAfterRemove DEF ContentsWritten
  <2>2. ContentsWritten'
    <3> SUFFICES ASSUME NEW k \in 1..Level' PROVE Contents'[k] \in Values
      BY DEF ContentsWritten
    <3>1. k + 1 \in 1..Level /\ k \in 1..(Level - 1)
      BY <1>0, <1>2, ContentsAfterRemove
    <3>2. Contents'[k] = Contents[k + 1]
      BY <1>2, <3>1, ContentsAfterRemove
    <3> QED  BY <1>0, <3>1, <3>2 DEF ContentsWritten
  <2>3. MaxLevelLagsByOne'
    BY <1>2, <1>0, <1>n, ContentsAfterRemove DEF Remove, MaxLevelLagsByOne
  <2> QED  BY <1>2, <1>0, <1>k, <1>n, <2>1, <2>2, <2>3 DEF Remove
<1>3. CASE Peek(t)
  <2>1. Level # 0 /\ SlotOf(1) = rptr
    BY <1>0, <1>3, QueueAssumption DEF Peek, SlotOf, Slots
  <2>2. data[rptr] \in Values
    BY <1>0, <2>1 DEF Contents, ContentsWritten
  <2> QED
    BY <1>3, <2>2, <1>0, <1>k, <1>u DEF Peek, MaxLevelLagsByOne
<1>4. CASE CannotProceed(t)
  <2>1. answer' \in {NoAnswer} \cup
              ({"add", "remove", "peek"} \X (Values \cup {Ok, Fail}))
    BY <1>4, <1>k DEF CannotProceed, IInv, TypeOK
  <2> QED
    BY <1>4, <2>1, <1>0, <1>u DEF CannotProceed, MaxLevelLagsByOne
<1>5. CASE ResetMaxLevel(t)
  BY <1>5, <1>0, <1>u DEF ResetMaxLevel, MaxLevelLagsByOne, IInv, TypeOK
<1> QED  BY <1>1, <1>2, <1>3, <1>4, <1>5 DEF QueueBody

LEMMA QueueFixed ==
    ASSUME IInv, UNCHANGED <<data, wptr, rptr, max_level>>
    PROVE  MaxLevelLagsByOne' /\ ContentsWritten'
BY ContentsKept DEF IInv, MaxLevelLagsByOne, ContentsWritten

LEMMA TypeKept ==
    ASSUME IInv, [Next]_vars
    PROVE  TypeOK' /\ CallsSound' /\ MaxLevelLagsByOne' /\ ContentsWritten'
<1>l. LockTypeOK'
  BY LockPartKept
<1> USE CoreOfType DEF IInv, TypeOK, LockTypeOK, CallsSound
<1>0. ASSUME /\ op' \in [Ctx -> Ops]
             /\ arg' \in [Ctx -> Values \cup {Empty}]
             /\ CallsSound'
             /\ UNCHANGED <<data, wptr, rptr, max_level, answer>>
      PROVE  TypeOK' /\ CallsSound' /\ MaxLevelLagsByOne' /\ ContentsWritten'
  BY <1>l, <1>0, QueueFixed
<1>1. ASSUME NEW t \in Ctx, CallStep(t)
      PROVE  TypeOK' /\ CallsSound' /\ MaxLevelLagsByOne' /\ ContentsWritten'
  <2>1. PICK o \in Ops :
                /\ op' = [op EXCEPT ![t] = o]
                /\ o \in BlockingOps => t \in Cores
                /\ \/ o \notin AddOps /\ arg' = arg
                   \/ \E v \in Values : arg' = [arg EXCEPT ![t] = v]
    BY <1>1, CallFrame
  <2>2. pc' = [pc EXCEPT ![t] = "call"]
    BY <1>1, CallFrame
  <2>3. op' \in [Ctx -> Ops] /\ arg' \in [Ctx -> Values \cup {Empty}] /\ CallsSound'
    BY <2>1, <2>2
  <2> QED  BY <1>0, <1>1, <2>3, CallFrame
<1>2. ASSUME NEW t \in Ctx, QueueBody(t)
      PROVE  TypeOK' /\ CallsSound' /\ MaxLevelLagsByOne' /\ ContentsWritten'
  <2>1. PICK place \in {"idle", "sev", "wfe"} :
            /\ pc' = [pc EXCEPT ![t] = place]
            /\ place = "idle" => op' = [op EXCEPT ![t] = "none"]
            /\ place # "idle" => op' = op
            /\ place = "wfe" => op[t] \in BlockingOps /\ arg' = arg
    BY <1>2, BodyFrame
  <2>2. pc[t] = "held" /\ arg' \in {arg, [arg EXCEPT ![t] = Empty]}
    BY <1>2, BodyFrame
  <2>3. op' \in [Ctx -> Ops] /\ arg' \in [Ctx -> Values \cup {Empty}]
    BY <2>1, <2>2 DEF Ops
  <2>4. CallsSound'
    BY <2>1, <2>2 DEF AddOps, BlockingOps
  <2> QED  BY <1>2, <1>l, <2>3, <2>4, BodyFrame, QueueKept
<1>3. ASSUME NEW t \in Ctx, Waiting(t)
      PROVE  TypeOK' /\ CallsSound' /\ MaxLevelLagsByOne' /\ ContentsWritten'
  <2>1. op' \in [Ctx -> Ops] /\ CallsSound' /\ UNCHANGED queueVars
    BY <1>3, WaitingFrame DEF queueVars, AddOps, BlockingOps, Ops
  <2> QED  BY <1>0, <2>1 DEF queueVars
<1>4. ASSUME UNCHANGED <<pc, op, data, wptr, rptr, max_level, arg, answer>>
      PROVE  TypeOK' /\ CallsSound' /\ MaxLevelLagsByOne' /\ ContentsWritten'
  BY <1>0, <1>4
<1> QED
  BY <1>1, <1>2, <1>3, <1>4, QuietFrame DEF Next, vars, lockVars, queueVars

(* A waiter found the queue full, or empty, under the spin lock; whoever   *)
(* adds or removes later is at its SEV, which reaches every core.          *)
LEMMA NoLostWakeupKept ==
    ASSUME IInv, [Next]_vars
    PROVE  NoLostWakeup'
<1> USE CoreOfType DEF IInv, TypeOK, LockTypeOK, NoLostWakeup, WakeDue
<1>0. UNCHANGED <<wptr, rptr>> => Level' = Level
  BY DEF Level
<1>1. ASSUME NEW t \in Ctx, CallStep(t)
      PROVE  NoLostWakeup'
  <2>1. Level' = Level
    BY <1>0, <1>1, CallFrame
  <2> QED  BY <1>1, <2>1, CallFrame DEF Blocked
<1>2. ASSUME NEW t \in Ctx, QueueBody(t)
      PROVE  NoLostWakeup'
  <2>1. PICK place \in {"idle", "sev", "wfe"} :
            /\ pc' = [pc EXCEPT ![t] = place]
            /\ place = "idle" => op' = [op EXCEPT ![t] = "none"]
            /\ place # "idle" => op' = op
            /\ place # "sev" => UNCHANGED <<wptr, rptr>>
            /\ place = "wfe" => op[t] \in BlockingOps /\ Blocked(t) /\ arg' = arg
    BY <1>2, BodyFrame
  <2>2. event' = event /\ pc[t] = "held"
    BY <1>2, BodyFrame
  <2>3. CASE place = "sev"
    BY <2>1, <2>3
  <2>4. CASE place # "sev"
    <3>1. Level' = Level
      BY <1>0, <2>1, <2>4
    <3> QED  BY <2>1, <2>2, <2>4, <3>1 DEF Blocked
  <2> QED  BY <2>3, <2>4
<1>3. ASSUME NEW t \in Ctx, Waiting(t)
      PROVE  NoLostWakeup'
  <2>1. Level' = Level
    BY <1>0, <1>3, WaitingFrame DEF queueVars
  <2>2. CASE Sev(t)
    BY <2>2 DEF Sev
  <2>3. CASE Wfe(t) \/ TimedWfe(t)
    <3>1. t \in Cores
      BY <2>3 DEF Wfe, TimedWfe, LockInv, HandlersQuiet, Ctx
    <3>2. /\ UNCHANGED op
          /\ pc[t] # "sev" /\ pc'[t] # "wfe"
          /\ \A u \in Ctx : u # t => pc'[u] = pc[u]
          /\ \A c \in Cores : c # t => event'[c] = event[c]
      BY <2>3, <3>1 DEF Wfe, TimedWfe, Goto
    <3> QED  BY <2>1, <3>1, <3>2 DEF Blocked
  <2>4. CASE ~(Sev(t) \/ Wfe(t) \/ TimedWfe(t))
    <3>1. UNCHANGED event /\ pc[t] # "sev"
      BY <1>3, <2>4 DEF Waiting, WaitStep, MaskInterrupts, AcquireSpin, AddAlarm,
         Poll, CancelAlarm, CheckTime
    <3> QED  BY <1>3, <2>1, <3>1, WaitingFrame DEF Blocked
  <2> QED  BY <2>2, <2>3, <2>4
<1>4. ASSUME UNCHANGED <<pc, op, wptr, rptr>>,
             \A c \in Cores : event[c] => event'[c]
      PROVE  NoLostWakeup'
  BY <1>0, <1>4 DEF Blocked
<1> QED
  BY <1>1, <1>2, <1>3, <1>4, QuietFrame DEF Next, vars, lockVars, queueVars

LEMMA Initially == Init => IInv
<1> SUFFICES ASSUME Init PROVE IInv
  OBVIOUS
<1>1. LockTypeOK /\ LockInv
  BY LockInitial DEF Init
<1>2. Level = 0
  BY DEF Init, Level
<1> QED
  BY <1>1, <1>2, QueueAssumption, CoreOfType
     DEF Init, LockInit, IInv, TypeOK, Ops, Slots, CallsSound, NoLostWakeup,
         MaxLevelLagsByOne, ContentsWritten, BlockingOps, AddOps

LEMMA Inductive == IInv /\ [Next]_vars => IInv'
BY LockPartKept, TypeKept, NoLostWakeupKept DEF IInv

(* In every reachable state of every instance: the types, the protocol of  *)
(* lock_core.h, no element read that was not written, no wake-up lost.     *)
THEOREM InvariantHolds == Spec => []IInv
BY Initially, Inductive, PTL DEF Spec

(* A producer about to sleep beside a free slot, or a consumer beside an   *)
(* element, has an event due (queue.c 50-54, 68-72, 85-89).                *)
THEOREM WakeupNotLost == Spec => []NoLostWakeup
BY InvariantHolds, PTL DEF IInv

(* queue_get_max_level is at most one below the level ever reached.        *)
THEOREM MaxLevelBehindByOne == Spec => []MaxLevelLagsByOne
BY InvariantHolds, PTL DEF IInv

(* The contents are a sequence of values, as long as the level.            *)
LEMMA ContentsSeq ==
    ASSUME IInv
    PROVE  /\ Contents \in Seq(Values) /\ Len(Contents) = Level
           /\ Level \in 0..ElementCount
<1>1. Level \in Nat /\ Level \in 0..ElementCount
  BY LevelInRange, QueueAssumption DEF IInv, TypeOK, Slots
<1>2. Contents \in [1..Level -> Values]
  BY <1>1 DEF Contents, IInv, ContentsWritten
<1> QED  BY <1>1, <1>2

(* Adding appends the element, removing takes the head off.                *)
LEMMA AddAppends ==
    ASSUME IInv, NEW t \in Ctx, Add(t)
    PROVE  arg[t] \in Values /\ Contents' = Append(Contents, arg[t])
<1>1. arg[t] \in Values
  BY DEF Add, UnderLock, CallsSound, IInv
<1>2. /\ Level \in Nat
      /\ Contents' = [k \in 1..(Level + 1) |->
                        IF k = Level + 1 THEN arg[t] ELSE Contents[k]]
  BY ContentsAfterAdd
<1>3. Contents \in Seq(Values) /\ Len(Contents) = Level
  BY ContentsSeq
<1>4. \A k \in 1..Level : Contents[k] \in Values
  BY <1>3
<1>5. Contents' \in [1..(Level + 1) -> Values]
  BY <1>1, <1>2, <1>4
<1>6. Contents' \in Seq(Values) /\ Len(Contents') = Level + 1
  BY <1>2, <1>5
<1>7. /\ Append(Contents, arg[t]) \in Seq(Values)
      /\ Len(Append(Contents, arg[t])) = Level + 1
      /\ \A k \in 1..(Level + 1) : Append(Contents, arg[t])[k]
                                   = IF k = Level + 1 THEN arg[t] ELSE Contents[k]
  BY <1>1, <1>2, <1>3
<1>8. \A k \in 1..(Level + 1) : Contents'[k] = Append(Contents, arg[t])[k]
  BY <1>2, <1>7
<1> QED  BY <1>1, <1>6, <1>7, <1>8, SeqEqual

LEMMA RemoveBeheads ==
    ASSUME IInv, NEW t \in Ctx, Remove(t)
    PROVE  /\ Contents # <<>> /\ data[rptr] = Head(Contents)
           /\ Contents' = Tail(Contents)
<1>1. /\ Level \in Nat \ {0} /\ data[rptr] = Contents[1]
      /\ Contents' = [k \in 1..(Level - 1) |-> Contents[k + 1]]
  BY ContentsAfterRemove
<1>2. Contents \in Seq(Values) /\ Len(Contents) = Level
  BY ContentsSeq
<1>3. Contents # <<>> /\ Head(Contents) = Contents[1]
  BY <1>1, <1>2
<1>4. /\ Tail(Contents) \in Seq(Values)
      /\ Len(Tail(Contents)) = Level - 1
      /\ \A k \in 1..(Level - 1) : Tail(Contents)[k] = Contents[k + 1]
  BY <1>1, <1>2, <1>3, HeadTailProperties
<1>5. Contents' \in [1..(Level - 1) -> Values]
  BY <1>1, <1>2
<1>6. Contents' \in Seq(Values) /\ Len(Contents') = Level - 1
  BY <1>1, <1>5
<1>7. \A k \in 1..(Level - 1) : Contents'[k] = Tail(Contents)[k]
  BY <1>1, <1>4
<1> QED  BY <1>1, <1>3, <1>4, <1>6, <1>7, SeqEqual

(* Every step is a step of the bounded FIFO, or changes nothing it shows.  *)
LEMMA StepRefines ==
    ASSUME IInv, [Next]_vars
    PROVE  [Fifo!Next]_(Fifo!vars)
<1> USE DEF Fifo!vars
<1>0. ASSUME UNCHANGED <<data, wptr, rptr, answer>>
      PROVE  UNCHANGED Fifo!vars
  BY <1>0, ContentsKept
<1>1. ASSUME NEW t \in Ctx, QueueBody(t)
      PROVE  [Fifo!Next]_(Fifo!vars)
  <2>0. /\ Contents \in Seq(Values) /\ Len(Contents) = Level
        /\ Level = 0 => Contents = <<>>
    BY ContentsSeq, EmptySeq
  <2>1. CASE Add(t)
    <3>1. Len(Contents) < ElementCount
      BY <2>0, <2>1, ContentsSeq, QueueAssumption DEF Add
    <3>2. answer' = <<"add", Ok>>
      BY <2>1 DEF Add, Gives, Kind
    <3> QED  BY <2>1, <3>1, <3>2, AddAppends DEF Fifo!Next, Fifo!Add
  <2>2. CASE Remove(t)
    <3>1. answer' = <<"remove", data[rptr]>>
      BY <2>2 DEF Remove, Gives, Kind, RemoveOps, AddOps
    <3> QED  BY <2>2, <3>1, RemoveBeheads DEF Fifo!Next, Fifo!Remove
  <2>3. CASE Peek(t)
    <3>1. answer' = <<"peek", data[rptr]>> /\ UNCHANGED <<data, wptr, rptr>>
      BY <2>3 DEF Peek, Gives, Kind, PeekOps, RemoveOps, AddOps
    <3>2. Level # 0 /\ Level \in Nat /\ SlotOf(1) = rptr
      BY <2>3, ContentsSeq, QueueAssumption DEF Peek, SlotOf, IInv, TypeOK, Slots
    <3>3. data[rptr] = Contents[1]
      BY <3>2 DEF Contents
    <3>4. Contents # <<>> /\ Head(Contents) = Contents[1]
      BY <2>0, <3>2
    <3> QED  BY <3>1, <3>3, <3>4, ContentsKept DEF Fifo!Next, Fifo!Peek
  <2>4. CASE CannotProceed(t)
    <3>1. UNCHANGED <<data, wptr, rptr>> /\ Blocked(t)
      BY <2>4 DEF CannotProceed
    <3>2. CASE UNCHANGED answer
      BY <1>0, <3>1, <3>2
    <3>3. CASE Gives(t, Fail)
      <4>1. CASE op[t] \in AddOps
        <5>1. answer' = <<"add", Fail>> /\ Len(Contents) = ElementCount
          BY <2>0, <3>1, <3>3, <4>1
             DEF Gives, Kind, Blocked, AddOps, RemoveOps, PeekOps
        <5> QED  BY <3>1, <5>1, ContentsKept DEF Fifo!Next, Fifo!AddFails
      <4>2. CASE op[t] \notin AddOps
        <5>1. Contents = <<>>
          BY <2>0, <3>1, <4>2 DEF Blocked
        <5>2. \E call \in {"remove", "peek"} : answer' = <<call, Fail>>
          BY <3>3, <4>2 DEF Gives, Kind
        <5> QED  BY <3>1, <5>1, <5>2, ContentsKept DEF Fifo!Next, Fifo!TakeFails
      <4> QED  BY <4>1, <4>2
    <3> QED  BY <2>4, <3>2, <3>3 DEF CannotProceed
  <2>5. CASE ResetMaxLevel(t)
    BY <1>0, <2>5 DEF ResetMaxLevel
  <2> QED  BY <1>1, <2>1, <2>2, <2>3, <2>4, <2>5 DEF QueueBody
<1>2. ASSUME NEW t \in Ctx, CallStep(t)
      PROVE  [Fifo!Next]_(Fifo!vars)
  BY <1>0, <1>2, CallFrame
<1>3. ASSUME NEW t \in Ctx, Waiting(t)
      PROVE  [Fifo!Next]_(Fifo!vars)
  BY <1>0, <1>3 DEF Waiting, queueVars
<1> QED
  BY <1>0, <1>1, <1>2, <1>3, QuietFrame DEF Next, vars, queueVars

LEMMA InitRefines == Init => Fifo!Init
<1> SUFFICES ASSUME Init PROVE Contents = <<>> /\ answer = Fifo!NoAnswer
  BY DEF Fifo!Init
<1>1. IInv /\ Level = 0
  BY Initially DEF Init, Level
<1> QED  BY <1>1, ContentsSeq, EmptySeq DEF Init, NoAnswer, Fifo!NoAnswer

(* The ring buffer is the bounded FIFO, for every capacity, every elements *)
(* and every interleaving of its callers (queue.c).                        *)
THEOREM QueueImplementsFifo == Spec => ImplementsFifo
BY InitRefines, StepRefines, InvariantHolds, PTL DEF Spec, ImplementsFifo, Fifo!Spec
=============================================================================
