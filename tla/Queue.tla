------------------------------- MODULE Queue --------------------------------
(***************************************************************************)
(* pico_util/queue.c and queue.h: a ring buffer of ElementCount + 1 slots, *)
(* one of which stays empty, under the lock of LockCore.                   *)
(*                                                                         *)
(* A queue_t is taken to be zeroed before queue_init, which sets every     *)
(* field but max_level.                                                    *)
(***************************************************************************)
EXTENDS LockCore, Integers

CONSTANTS Values,        \* what the callers put in
          Offers,        \* bound: the values each context adds
          Calls,         \* bound: each context's calls; a handler's do not block
          ElementCount,  \* element_count
          IndexMod,      \* wptr, rptr, max_level are uint16_t: 2^16
          MaxLevelKept,  \* PICO_QUEUE_MAX_LEVEL
          Empty,         \* content of a slot never written (calloc)
          Fail, Ok       \* false and true of the calls without an element

ASSUME QueueAssumption ==
    /\ ElementCount \in Nat \ {0}
    /\ IndexMod \in Nat /\ ElementCount < IndexMod
    /\ MaxLevelKept \in BOOLEAN
    /\ Empty \notin Values

VARIABLES
    data,        \* the slots
    wptr, rptr,  \* next slot to write, next to read
    max_level,   \* max_level, with MaxLevelKept
    arg,         \* the element each call in progress adds
    answer       \* history: the latest call to take effect, and its result

queueVars == <<data, wptr, rptr, max_level, arg, answer>>

vars == <<lockVars, queueVars>>

Slots == 0..ElementCount

BlockingOps == {"add_blocking", "remove_blocking", "peek_blocking"}
AddOps == {"add_blocking", "try_add"}
RemoveOps == {"remove_blocking", "try_remove"}
PeekOps == {"peek_blocking", "try_peek"}
Ops == AddOps \cup RemoveOps \cup PeekOps \cup {"none", "reset_max_level"}

Kind(o) == IF o \in AddOps THEN "add"
           ELSE IF o \in RemoveOps THEN "remove" ELSE "peek"

ASSUME CallsAssumption ==
    /\ Offers \in [Ctx -> SUBSET Values]
    /\ Calls \in [Ctx -> SUBSET (Ops \ {"none"})]
    /\ \A i \in Irqs : Calls[i] \cap BlockingOps = {}

NoAnswer == <<"none", "none">>

Init ==
    /\ LockInit
    /\ data = [s \in Slots |-> Empty]
    /\ wptr = 0 /\ rptr = 0
    /\ max_level = 0
    /\ arg = [t \in Ctx |-> Empty]
    /\ answer = NoAnswer

(* Mutant: the ring taken to have element_count slots.                     *)
LevelOneSlotShort ==
    LET rc == wptr - rptr
    IN  IF rc < 0 THEN rc + ElementCount ELSE rc

(* queue_get_level_unsafe: signed subtraction, then one correction.        *)
Level ==
    LET rc == wptr - rptr
    IN  IF rc < 0 THEN rc + ElementCount + 1 ELSE rc

(* Mutant: >= element_count + 2, one slot beyond the allocation.           *)
IncIndexBeyond(index) ==
    IF index + 1 > ElementCount + 1 THEN 0 ELSE index + 1

(* inc_index: the increment wraps at 2^16 before it is compared.           *)
IncIndex(index) ==
    LET i == (index + 1) % IndexMod
    IN  IF i > ElementCount THEN 0 ELSE i

(* ... and notes the level, as it is before the caller stores the index.   *)
NoteLevel ==
    max_level' = IF MaxLevelKept /\ Level % IndexMod > max_level
                 THEN Level % IndexMod ELSE max_level

----------------------------------------------------------------------------
Starting(t, o) ==
    /\ o \in Calls[t]
    /\ Call(t, o, "none")
    /\ UNCHANGED <<data, wptr, rptr, max_level, answer>>

CallAdd(t) ==
    \E o \in AddOps, v \in Offers[t] :
        Starting(t, o) /\ arg' = [arg EXCEPT ![t] = v]

CallTake(t) ==
    \E o \in RemoveOps \cup PeekOps : Starting(t, o) /\ UNCHANGED arg

CallResetMaxLevel(t) ==
    MaxLevelKept /\ Starting(t, "reset_max_level") /\ UNCHANGED arg

CallStep(t) == CallAdd(t) \/ CallTake(t) \/ CallResetMaxLevel(t)

Gives(t, r) ==
    /\ answer' = <<Kind(op[t]), r>>
    /\ arg' = [arg EXCEPT ![t] = Empty]

(* queue_add_internal                                                      *)
Add(t) ==
    /\ UnderLock(t) /\ op[t] \in AddOps
    /\ Level # ElementCount
    /\ data' = [data EXCEPT ![wptr] = arg[t]]
    /\ wptr' = IncIndex(wptr)
    /\ NoteLevel
    /\ Gives(t, Ok)
    /\ SpinUnlockAndNotify(t)
    /\ UNCHANGED rptr

(* Mutant: removing notifies nobody, although a producer may be waiting.   *)
RemoveSilently(t) ==
    /\ UnderLock(t) /\ op[t] \in RemoveOps
    /\ Level # 0
    /\ rptr' = IncIndex(rptr)
    /\ NoteLevel
    /\ Gives(t, data[rptr])
    /\ SpinUnlock(t)
    /\ UNCHANGED <<data, wptr>>

(* queue_remove_internal                                                   *)
Remove(t) ==
    /\ UnderLock(t) /\ op[t] \in RemoveOps
    /\ Level # 0
    /\ rptr' = IncIndex(rptr)
    /\ NoteLevel
    /\ Gives(t, data[rptr])
    /\ SpinUnlockAndNotify(t)
    /\ UNCHANGED <<data, wptr>>

(* queue_peek_internal                                                     *)
Peek(t) ==
    /\ UnderLock(t) /\ op[t] \in PeekOps
    /\ Level # 0
    /\ Gives(t, data[rptr])
    /\ SpinUnlockAndNotify(t)
    /\ UNCHANGED <<data, wptr, rptr, max_level>>

Blocked(t) ==
    \/ op[t] \in AddOps /\ Level = ElementCount
    \/ op[t] \in RemoveOps \cup PeekOps /\ Level = 0

CannotProceed(t) ==
    /\ UnderLock(t) /\ Blocked(t)
    /\ \/ op[t] \in BlockingOps /\ SpinUnlockAndWait(t) /\ UNCHANGED <<arg, answer>>
       \/ op[t] \notin BlockingOps /\ SpinUnlock(t) /\ Gives(t, Fail)
    /\ UNCHANGED <<data, wptr, rptr, max_level>>

(* Mutant: reset to zero rather than to the current level.                 *)
ResetMaxLevelToZero(t) ==
    /\ UnderLock(t) /\ op[t] = "reset_max_level"
    /\ max_level' = 0
    /\ SpinUnlock(t)
    /\ UNCHANGED <<data, wptr, rptr, arg, answer>>

(* queue_reset_max_level                                                   *)
ResetMaxLevel(t) ==
    /\ UnderLock(t) /\ op[t] = "reset_max_level"
    /\ max_level' = Level % IndexMod
    /\ SpinUnlock(t)
    /\ UNCHANGED <<data, wptr, rptr, arg, answer>>

QueueBody(t) ==
    Add(t) \/ Remove(t) \/ Peek(t) \/ CannotProceed(t) \/ ResetMaxLevel(t)

Waiting(t) == WaitStep(t) /\ UNCHANGED queueVars

HandlerReturns(i) == IrqReturn(i) /\ UNCHANGED queueVars

Hardware == Environment /\ UNCHANGED queueVars

Next ==
    \/ \E t \in Ctx : CallStep(t) \/ QueueBody(t) \/ Waiting(t)
    \/ \E i \in Irqs : HandlerReturns(i)
    \/ Hardware

Spec == Init /\ [][Next]_vars

----------------------------------------------------------------------------
(* The variables keep their types; indices stay inside the allocation of   *)
(* element_count + 1 elements (the assertion of element_ptr, queue.c 25).  *)
TypeOK ==
    /\ LockTypeOK
    /\ op \in [Ctx -> Ops]
    /\ data \in [Slots -> Values \cup {Empty}]
    /\ wptr \in Slots /\ rptr \in Slots
    /\ max_level \in Slots
    /\ arg \in [Ctx -> Values \cup {Empty}]
    /\ answer \in {NoAnswer} \cup
         ({"add", "remove", "peek"} \X (Values \cup {Ok, Fail}))

(* The slots from rptr up to wptr, in order, are the queue's contents.     *)
SlotOf(k) ==
    IF rptr + k - 1 > ElementCount THEN rptr + k - ElementCount - 2
                                   ELSE rptr + k - 1

Contents == [k \in 1..Level |-> data[SlotOf(k)]]

Fifo == INSTANCE BoundedFifo WITH
            Capacity <- ElementCount, contents <- Contents

(* The ring buffer is a bounded first-in first-out queue: across wrapped   *)
(* indices, full and empty, and calls interleaved on both cores, elements  *)
(* come out once and in order, and a try_ call fails only when it must.    *)
ImplementsFifo == Fifo!Spec

(* One condition wakes producers and consumers alike, so each kind must    *)
(* survive the other's notifications: a core between its unlock and its    *)
(* WFE whose call could proceed will find the event register set           *)
(* (queue.c 50-54, 68-72, 85-89).                                          *)
NoLostWakeup ==
    \A c \in Cores : pc[c] = "wfe" /\ ~Blocked(c) => WakeDue(c)

(* The level never exceeds the recorded maximum by more than one: inc_index *)
(* measures it before the index is stored, so the add that reaches a new   *)
(* level is not counted until the next one (queue.c 29-41).                *)
MaxLevelLagsByOne == MaxLevelKept => Level <= max_level + 1

(* Only threads wait in WFE, in a blocking call, and a call that adds has  *)
(* its element until it takes effect.                                      *)
CallsSound ==
    /\ \A t \in Ctx : op[t] \in BlockingOps => t \in Cores
    /\ \A t \in Ctx : pc[t] = "wfe" => op[t] \in BlockingOps
    /\ \A t \in Ctx : op[t] \in AddOps /\ pc[t] # "sev" => arg[t] \in Values

(* What is between the indices has been written.                           *)
ContentsWritten == \A k \in 1..Level : Contents[k] \in Values

(* The inductive invariant.                                                *)
IInv == /\ TypeOK /\ LockInv /\ CallsSound /\ ContentsWritten
        /\ NoLostWakeup /\ MaxLevelLagsByOne
=============================================================================
