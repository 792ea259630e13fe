------------------------------- MODULE AlarmPool -----------------------------
(***************************************************************************)
(* An alarm pool of pico_time/time.c: entries ordered by target in a heap, *)
(* one hardware alarm set for the root, and a handler that takes what is   *)
(* due, calls it back outside the lock, and re-arms.                       *)
(*                                                                         *)
(* Everything under pool->lock is one step.  The heap is the set of its    *)
(* nodes and its root; PairingHeap has its links.  The hardware alarm is   *)
(* seen through hardware_alarm_set_target, as HardwareAlarm has it within  *)
(* one wrap of the timer's low word.                                       *)
(***************************************************************************)
EXTENDS Integers, Sequences, FiniteSets

CONSTANTS
    Clients,         \* contexts that add and cancel alarms
    OnPoolCore,      \* those on the core that takes the pool's interrupt
    InCallback,      \* those that are a callback of the pool
    Alarms,          \* calls that add an alarm: their callback and user_data
    MaxNodes,        \* entries of the pool
    HighMod,         \* values of entry_ids_high: 256
    Times,           \* bound: times alarms are added for
    Adds,            \* bound: calls used, as <<"add" or "add_forced", fire_if_past>>
    MaxTime,         \* bound: last value of the timer
    Repeats,         \* bound: what a callback run by the handler returns
    RepeatsInCall,   \* bound: what a callback run by the add returns
    None             \* no target, no alarm

ASSUME AlarmPoolAssumption ==
    /\ InCallback \subseteq OnPoolCore /\ OnPoolCore \subseteq Clients
    /\ MaxNodes \in Nat \ {0} /\ HighMod \in Nat \ {0} /\ MaxTime \in Nat
    /\ Times \subseteq Nat /\ Adds \subseteq {"add", "add_forced"} \X BOOLEAN
    /\ Repeats \subseteq Int /\ RepeatsInCall \subseteq Int
    /\ None \notin Alarms \cup Nat

VARIABLES
    time,        \* get_absolute_time
    heap,        \* nodes in the heap
    root,        \* heap->root_id, 0 if none
    free,        \* the free list, from its head
    high,        \* entry_ids_high
    target,      \* entries[n].target
    alarm,       \* entries[n].callback and user_data
    inProgress,  \* alarm_in_progress: an id, or NoId
    hw,          \* target pending in the hardware alarm
    irq,         \* its interrupt is pending
    handler,     \* alarm_pool_alarm_callback: its place and locals
    call,        \* call[c]: the add in progress, its place and locals
    ids,         \* ids[a]: what the add returned; rt->alarm_id
    dropped,     \* history: a missed target replaced a pending one
    cancelled    \* history: alarms cancelled

store == <<heap, root, free, high, target, alarm, inProgress>>
hardware == <<hw, irq, dropped>>
vars == <<time, store, hardware, handler, call, ids, cancelled>>

Nodes == 1 .. MaxNodes

(* make_public_id                                                          *)
Id(n) == <<high[n], n>>
NoId == <<0, 0>>

Off == [pc |-> "off", now |-> 0, node |-> 0, id |-> NoId, due |-> 0]
Idle == [pc |-> "idle", alarm |-> None, time |-> 0, fire |-> FALSE,
         missed |-> FALSE, id |-> NoId]

Init ==
    /\ time = 0
    /\ heap = {} /\ root = 0 /\ free = [n \in Nodes |-> n]
    /\ high = [n \in Nodes |-> 0]
    /\ target = [n \in Nodes |-> 0]
    /\ alarm = [n \in Nodes |-> None]
    /\ inProgress = NoId
    /\ hw = None /\ irq = FALSE
    /\ handler = Off
    /\ call = [c \in Clients |-> Idle]
    /\ ids = [a \in Alarms |-> NoId]
    /\ dropped = FALSE /\ cancelled = {}

Tick ==
    /\ time < MaxTime /\ time' = time + 1
    /\ UNCHANGED <<store, hardware, handler, call, ids, cancelled>>

----------------------------------------------------------------------------
(* hardware_alarm_set_target, by outcome.                                  *)

HwDue == hw # None /\ time >= hw

(* Accepted.  An interrupt that the old target raised stays pending.       *)
TargetSet(t) ==
    /\ time < t
    /\ hw' = t /\ irq' = (irq \/ HwDue) /\ dropped' = FALSE
    /\ UNCHANGED time

(* Missed at the first look: nothing is touched.                           *)
TargetPassed(t) ==
    /\ time >= t
    /\ UNCHANGED <<time, hardware>>

(* Missed in the race: the comparator is left on the passed target, which  *)
(* also takes the place of one that was pending.                           *)
TargetRaced(t) ==
    /\ t = time + 1 /\ t <= MaxTime
    /\ time' = t
    /\ hw' = None /\ irq' = (irq \/ HwDue)
    /\ dropped' = (dropped \/ (hw # None /\ ~HwDue))

TargetMissed(t) == TargetPassed(t) \/ TargetRaced(t)

----------------------------------------------------------------------------
(* add_alarm_under_lock, by outcome.  A new entry is the root if it is no  *)
(* later than the old one, and only a new root goes to the hardware.       *)

Fill(n, t, a) ==
    /\ target' = [target EXCEPT ![n] = t]
    /\ alarm' = [alarm EXCEPT ![n] = a]

First(t) == IF heap = {} THEN TRUE ELSE t <= target[root]

EntersBehind(n, t) ==
    /\ ~First(t)
    /\ heap' = heap \cup {n}
    /\ UNCHANGED <<root, time, hardware>>

EntersFirst(n, t) ==
    /\ First(t) /\ TargetSet(t)
    /\ heap' = heap \cup {n} /\ root' = n

EntersMissed(n, t) ==
    /\ First(t) /\ TargetMissed(t)
    /\ heap' = heap \cup {n} /\ root' = n

NotEntered(t) ==
    /\ First(t) /\ TargetMissed(t)
    /\ UNCHANGED <<heap, root>>

(* The root once n is removed: any earliest entry, whatever the links are. *)
Earliest(S) == {m \in S : \A k \in S : target[m] <= target[k]}

Remove(n) ==
    /\ heap' = heap \ {n}
    /\ root' \in IF heap' = {} THEN {0} ELSE Earliest(heap')

----------------------------------------------------------------------------
(* The clients.                                                            *)

Runs(c) ==
    IF c \in InCallback
    THEN handler.pc = "callback"
    ELSE c \in OnPoolCore => handler.pc = "off"

Added == {alarm[n] : n \in Nodes} \cup {call[c].alarm : c \in Clients}

(* alarm_pool_add_alarm_at, or its force_in_context form.                  *)
BeginAdd(c) ==
    /\ call[c].pc = "idle" /\ Runs(c)
    /\ \E a \in Alarms, t \in Times, add \in Adds :
          /\ a \notin Added /\ ids[a] = NoId /\ a \notin cancelled
          /\ call' = [call EXCEPT ![c] = [Idle EXCEPT !.pc = add[1], !.fire = add[2],
                                                     !.alarm = a, !.time = t]]
    /\ UNCHANGED <<time, store, hardware, handler, ids, cancelled>>

(* Mutant: the id returned leaves out entry_ids_high.                      *)
AddResultNodeOnly(c, n, missed) ==
    call' = [call EXCEPT ![c].missed = missed,
                         ![c].id = IF missed THEN NoId ELSE <<0, n>>,
                         ![c].pc = IF missed /\ call[c].fire THEN "fire" ELSE "return"]

(* What add_alarm_under_lock leaves in *missed: the caller's value stays   *)
(* when the entry is not the root.                                         *)
AddResult(c, n, missed) ==
    call' = [call EXCEPT ![c].missed = missed,
                         ![c].id = IF missed THEN NoId ELSE Id(n),
                         ![c].pc = IF missed /\ call[c].fire THEN "fire" ELSE "return"]

AddNoSpace(c) ==
    /\ call[c].pc \in {"add", "add_forced"} /\ Runs(c)
    /\ free = <<>>
    /\ call' = [call EXCEPT ![c].pc = "return"]
    /\ UNCHANGED <<time, store, hardware, handler, ids, cancelled>>

AddLocked(c) ==
    /\ call[c].pc = "add" /\ Runs(c)
    /\ free # <<>>
    /\ LET n == Head(free)
           t == call[c].time
       IN  /\ Fill(n, t, call[c].alarm)
           /\ \/ EntersBehind(n, t) /\ free' = Tail(free) /\ AddResult(c, n, call[c].missed)
              \/ EntersFirst(n, t) /\ free' = Tail(free) /\ AddResult(c, n, FALSE)
              \/ NotEntered(t) /\ free' = Append(Tail(free), n) /\ AddResult(c, n, TRUE)
    /\ UNCHANGED <<high, inProgress, handler, ids, cancelled>>

AddForcedLocked(c) ==
    /\ call[c].pc = "add_forced" /\ Runs(c)
    /\ free # <<>>
    /\ LET n == Head(free)
           t == call[c].time
       IN  /\ Fill(n, t, call[c].alarm)
           /\ \/ /\ EntersBehind(n, t) \/ EntersFirst(n, t)
                 /\ call' = [call EXCEPT ![c].id = Id(n), ![c].pc = "return"]
              \/ /\ EntersMissed(n, t)
                 /\ call' = [call EXCEPT ![c].id = Id(n), ![c].pc = "force"]
    /\ free' = Tail(free)
    /\ UNCHANGED <<high, inProgress, handler, ids, cancelled>>

(* hardware_alarm_force_irq                                                *)
AddForces(c) ==
    /\ call[c].pc = "force" /\ Runs(c)
    /\ irq' = TRUE
    /\ call' = [call EXCEPT ![c].pc = "return"]
    /\ UNCHANGED <<time, store, hw, dropped, handler, ids, cancelled>>

(* The past alarm's callback, called by the add itself, and what its       *)
(* result asks for.                                                        *)
AddFires(c) ==
    /\ call[c].pc = "fire" /\ Runs(c)
    /\ \E repeat \in RepeatsInCall :
          call' = [call EXCEPT
                     ![c].pc = IF repeat = 0 THEN "return" ELSE "add",
                     ![c].time = IF repeat < 0 THEN @ - repeat ELSE time + repeat]
    /\ UNCHANGED <<time, store, hardware, handler, ids, cancelled>>

(* The caller stores the id, as alarm_pool_add_repeating_timer_us does in  *)
(* out->alarm_id.                                                          *)
AddReturns(c) ==
    /\ call[c].pc = "return" /\ Runs(c)
    /\ ids' = [ids EXCEPT ![call[c].alarm] = call[c].id]
    /\ call' = [call EXCEPT ![c] = Idle]
    /\ UNCHANGED <<time, store, hardware, handler, cancelled>>

(* alarm_pool_cancel_alarm, by what it finds under the id of a.            *)
CancelFrees(a) ==
    LET n == ids[a][2]
    IN  /\ n \in heap /\ ids[a] = Id(n)
        /\ Remove(n)
        /\ free' = Append(free, n)
        /\ cancelled' = cancelled \cup ({a} \cap {alarm[n]})
        /\ UNCHANGED inProgress

(* Mutant: a cancel of the alarm in progress frees the node, as does the   *)
(* handler.                                                                *)
CancelStopsAndFrees(a) ==
    /\ ids[a][2] \notin heap /\ ids[a] = inProgress
    /\ inProgress' = NoId
    /\ free' = Append(free, ids[a][2])
    /\ cancelled' = cancelled \cup {a}
    /\ UNCHANGED <<heap, root>>

(* Mutant: a cancel of the alarm in progress does not stop its repeats.    *)
CancelMissesRepeat(a) ==
    /\ ids[a][2] \notin heap /\ ids[a] = inProgress
    /\ cancelled' = cancelled \cup {a}
    /\ UNCHANGED <<heap, root, free, inProgress>>

CancelStops(a) ==
    /\ ids[a][2] \notin heap /\ ids[a] = inProgress
    /\ inProgress' = NoId
    /\ cancelled' = cancelled \cup {a}
    /\ UNCHANGED <<heap, root, free>>

CancelFindsNone(a) ==
    /\ ids[a] # inProgress
    /\ ids[a][2] \notin heap \/ ids[a] # Id(ids[a][2])
    /\ UNCHANGED <<heap, root, free, inProgress, cancelled>>

Cancel(c, a) ==
    /\ call[c].pc = "idle" /\ Runs(c)
    /\ ids[a] # NoId
    /\ CancelFrees(a) \/ CancelStops(a) \/ CancelFindsNone(a)
    /\ UNCHANGED <<time, high, target, alarm, hardware, handler, call>>

CancelAlarm(c) == \E a \in Alarms : Cancel(c, a) /\ UNCHANGED ids

(* cancel_repeating_timer clears rt->alarm_id as well.                     *)
CancelRepeatingTimer(c) ==
    \E a \in Alarms : Cancel(c, a) /\ ids' = [ids EXCEPT ![a] = NoId]

----------------------------------------------------------------------------
(* alarm_pool_alarm_callback                                               *)

HandlerEnter ==
    /\ handler.pc = "off"
    /\ HwDue \/ irq
    /\ hw' = None /\ irq' = FALSE /\ dropped' = FALSE
    /\ handler' = [Off EXCEPT !.pc = "look"]
    /\ UNCHANGED <<time, store, call, ids, cancelled>>

(* The time is read before the lock is taken.                              *)
HandlerLooks ==
    /\ handler.pc = "look"
    /\ handler' = [handler EXCEPT !.pc = "head", !.now = time]
    /\ UNCHANGED <<time, store, hardware, call, ids, cancelled>>

HandlerTakes ==
    /\ handler.pc = "head"
    /\ heap # {} /\ target[root] <= handler.now
    /\ Remove(root)
    /\ inProgress' = Id(root)
    /\ handler' = [handler EXCEPT !.pc = "callback", !.node = root,
                                  !.id = Id(root), !.due = target[root]]
    /\ UNCHANGED <<time, free, high, target, alarm, hardware, call, ids,
                   cancelled>>

(* Mutant: the handler does not look again when the next target is missed. *)
HandlerSetsNextOnce ==
    /\ handler.pc = "head"
    /\ heap # {} /\ target[root] > handler.now
    /\ TargetSet(target[root]) \/ TargetMissed(target[root])
    /\ handler' = Off
    /\ UNCHANGED <<store, call, ids, cancelled>>

HandlerSetsNext ==
    /\ handler.pc = "head"
    /\ heap # {} /\ target[root] > handler.now
    /\ \/ TargetSet(target[root]) /\ handler' = Off
       \/ TargetMissed(target[root]) /\ handler' = [handler EXCEPT !.pc = "look"]
    /\ UNCHANGED <<store, call, ids, cancelled>>

HandlerFindsNone ==
    /\ handler.pc = "head"
    /\ heap = {}
    /\ handler' = Off
    /\ UNCHANGED <<time, store, hardware, call, ids, cancelled>>

(* The callback has returned a repeat, and nobody cancelled it meanwhile.  *)
HandlerRepeats ==
    /\ handler.pc = "callback"
    /\ \A c \in InCallback : call[c].pc = "idle"
    /\ inProgress # NoId
    /\ \E repeat \in Repeats \ {0} :
          LET n == handler.node
              t == IF repeat < 0 THEN handler.due - repeat ELSE time + repeat
          IN  /\ Fill(n, t, alarm[n])
              /\ EntersBehind(n, t) \/ EntersFirst(n, t) \/ EntersMissed(n, t)
    /\ inProgress' = NoId
    /\ handler' = [handler EXCEPT !.pc = "look"]
    /\ UNCHANGED <<free, high, call, ids, cancelled>>

(* It has returned 0, and cleared rt->alarm_id if it was a repeating       *)
(* timer's, or it was cancelled: the node is freed and its id retired.     *)
HandlerFrees ==
    /\ handler.pc = "callback"
    /\ \A c \in InCallback : call[c].pc = "idle"
    /\ \/ 0 \in Repeats /\ ids' = [ids EXCEPT ![alarm[handler.node]] = NoId]
       \/ (0 \in Repeats \/ inProgress = NoId) /\ UNCHANGED ids
    /\ free' = Append(free, handler.node)
    /\ high' = [high EXCEPT ![handler.node] = (@ + 1) % HighMod]
    /\ inProgress' = NoId
    /\ handler' = [handler EXCEPT !.pc = "look"]
    /\ UNCHANGED <<time, heap, root, target, alarm, hardware, call, cancelled>>

Handler ==
    \/ HandlerEnter \/ HandlerLooks \/ HandlerTakes \/ HandlerSetsNext
    \/ HandlerFindsNone \/ HandlerRepeats \/ HandlerFrees

Next ==
    \/ Tick \/ Handler
    \/ \E c \in Clients :
          \/ BeginAdd(c) \/ AddNoSpace(c) \/ AddLocked(c) \/ AddForcedLocked(c)
          \/ AddForces(c) \/ AddFires(c) \/ AddReturns(c)
          \/ CancelAlarm(c) \/ CancelRepeatingTimer(c)

Spec == Init /\ [][Next]_vars

----------------------------------------------------------------------------
(* The variables keep their types, and the heap has a root exactly when it *)
(* has nodes (time.c 25-35).                                               *)
TypeOK ==
    /\ time \in 0 .. MaxTime
    /\ heap \subseteq Nodes /\ root \in heap \cup {0} /\ (root = 0 <=> heap = {})
    /\ high \in [Nodes -> 0 .. HighMod - 1]
    /\ target \in [Nodes -> Nat] /\ alarm \in [Nodes -> Alarms \cup {None}]
    /\ hw \in Nat \cup {None} /\ irq \in BOOLEAN /\ dropped \in BOOLEAN
    /\ handler.pc \in {"off", "look", "head", "callback"}
    /\ \A c \in Clients :
          call[c].pc \in {"idle", "add", "add_forced", "fire", "force", "return"}

Listed == {free[i] : i \in 1 .. Len(free)}
Held == IF handler.pc = "callback" THEN {handler.node} ELSE {}

(* Every node is in the heap, in the free list or in the callback's hands, *)
(* once: none is leaked, or freed twice, by cancels that race with the     *)
(* callback (time.c 99-122, 156-174, 293-315).                             *)
NodesAccounted ==
    /\ TypeOK /\ Cardinality(Listed) = Len(free)
    /\ heap \cup Listed \cup Held = Nodes
    /\ heap \cap (Listed \cup Held) = {} /\ Listed \cap Held = {}

(* The hardware alarm is never late for an entry: when the handler is not  *)
(* running and no force is on its way, the interrupt is pending or the     *)
(* hardware target is no later than any entry's (time.c 113-118, 149-153,  *)
(* 245-251, 283-289).                                                      *)
EntriesWillFire ==
    heap # {} /\ handler.pc = "off" =>
        \/ irq
        \/ hw # None /\ \A n \in heap : hw <= target[n]
        \/ \E c \in Clients : call[c].pc = "force"

(* The same, unless hardware_alarm_set_target dropped a pending target     *)
(* (timer.c 199-205).                                                      *)
EntriesWillFireUnlessDropped == ~dropped => EntriesWillFire

(* A cancelled alarm is gone: it is neither left in the heap nor put back  *)
(* by a repeat that was under way (time.c 156-174, 293-315).               *)
CancelledStaysOut == \A n \in heap : alarm[n] \notin cancelled

(* When the add finds its target missed, it has not left the entry in the  *)
(* heap (the comment at time.c 245-246).                                   *)
MissedNotInHeap ==
    \A c \in Clients : call[c].pc = "fire" =>
        \A n \in heap : alarm[n] # call[c].alarm

(* The callback of a repeating timer sees its own id in rt->alarm_id (the  *)
(* assertion at time.c 336): an id stays its alarm's from the add to the   *)
(* callback, through every reuse of nodes, repeat and cancel (74-76,       *)
(* 141-143, 167-171).  The exception is a callback that comes before the   *)
(* add has stored the id (351).                                            *)
RepeatingIdMatchesOnceStored ==
    handler.pc = "callback" /\ inProgress # NoId =>
        \/ ids[alarm[handler.node]] = handler.id
        \/ \E c \in Clients : call[c].alarm = alarm[handler.node]
=============================================================================
