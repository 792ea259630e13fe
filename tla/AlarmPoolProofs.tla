---------------------------- MODULE AlarmPoolProofs ---------------------------
(***************************************************************************)
(* An alarm pool loses no node and, unless hardware_alarm_set_target drops *)
(* a pending target, leaves no entry without an interrupt to come, for any *)
(* number of nodes and callers, any times and any repeats.  As long as no  *)
(* callback that an add runs at once repeats, what is cancelled stays out, *)
(* and a callback sees its own id.  The pairing heap that it keeps them in *)
(* is a priority queue, for any number of nodes and any keys: its links    *)
(* are a forest's, with parents before their children, at every step of a  *)
(* removal's recursion.                                                    *)
(***************************************************************************)
EXTENDS AlarmPool, PairingHeap, FiniteSetTheorems, SequenceTheorems, FunctionTheorems,
        WellFoundedInduction, TLAPS

CallOfType == [pc : {"idle", "add", "add_forced", "fire", "force", "return"},
               alarm : Alarms \cup {None}, time : Nat, fire : BOOLEAN,
               missed : BOOLEAN, id : Nat \X Nat]

HandlerOfType == [pc : {"off", "look", "head", "callback"}, now : Nat,
                  node : Nodes \cup {0}, id : Nat \X Nat, due : Nat]

Types ==
    /\ TypeOK
    /\ call \in [Clients -> CallOfType] /\ handler \in HandlerOfType
    /\ free \in Seq(Nodes)

ListOf(s) == {s[i] : i \in 1 .. Len(s)}
Once(s) == \A i, j \in 1 .. Len(s) : s[i] = s[j] => i = j

(* Every node is in one place, and in the free list once.                  *)
OnePlace ==
    /\ Once(free)
    /\ heap \cup ListOf(free) \cup Held = Nodes
    /\ heap \cap (ListOf(free) \cup Held) = {} /\ ListOf(free) \cap Held = {}

(* The root is no later than any other entry.                              *)
RootFirst == \A n \in heap : target[root] <= target[n]

IInv == Types /\ OnePlace /\ RootFirst /\ EntriesWillFireUnlessDropped

----------------------------------------------------------------------------
(* The free list.                                                          *)

(* A list without repetitions is as long as it has elements.               *)
LEMMA OnceCounts ==
    ASSUME NEW S, NEW s \in Seq(S), Once(s)
    PROVE  Cardinality(ListOf(s)) = Len(s)
<1> DEFINE f == [i \in 1 .. Len(s) |-> s[i]]
<1>1. f \in Bijection(1 .. Len(s), ListOf(s))
  <2>1. f \in [1 .. Len(s) -> ListOf(s)]
    BY DEF ListOf
  <2>2. \A i, j \in 1 .. Len(s) : f[i] = f[j] => i = j
    BY DEF Once
  <2>3. \A x \in ListOf(s) : \E i \in 1 .. Len(s) : f[i] = x
    BY DEF ListOf
  <2> QED  BY <2>1, <2>2, <2>3, Fun_IsBij
<1>2. Len(s) \in Nat
  OBVIOUS
<1> QED
  BY <1>1, <1>2, FS_CountingElements DEF ExistsBijection

(* The first of a list without repetitions is not among the others.        *)
LEMMA TailDropsHead ==
    ASSUME NEW S, NEW s \in Seq(S), s # <<>>, Once(s)
    PROVE  /\ Head(s) \in S /\ Tail(s) \in Seq(S) /\ Once(Tail(s))
           /\ Head(s) \in ListOf(s) /\ ListOf(Tail(s)) = ListOf(s) \ {Head(s)}
<1>1. /\ Head(s) \in S /\ Tail(s) \in Seq(S)
      /\ Len(Tail(s)) = Len(s) - 1 /\ Len(s) \in Nat \ {0}
      /\ \A i \in 1 .. Len(Tail(s)) : Tail(s)[i] = s[i + 1]
      /\ Head(s) = s[1]
  BY HeadTailProperties
<1>2. Once(Tail(s))
  BY <1>1 DEF Once
<1>3. Head(s) \in ListOf(s)
  BY <1>1 DEF ListOf
<1>4. ListOf(Tail(s)) \subseteq ListOf(s) \ {Head(s)}
  BY <1>1 DEF ListOf, Once
<1>5. ASSUME NEW x \in ListOf(s), x # Head(s)
      PROVE  x \in ListOf(Tail(s))
  <2>1. PICK i \in 1 .. Len(s) : x = s[i]
    BY DEF ListOf
  <2>2. i - 1 \in 1 .. Len(Tail(s)) /\ (i - 1) + 1 = i
    BY <1>1, <1>5, <2>1
  <2>3. Tail(s)[i - 1] = x
    BY <1>1, <2>1, <2>2
  <2> QED  BY <2>2, <2>3 DEF ListOf
<1> QED  BY <1>1, <1>2, <1>3, <1>4, <1>5

(* A node that is not in the list is added to it.                          *)
LEMMA AppendAdds ==
    ASSUME NEW S, NEW s \in Seq(S), Once(s), NEW n \in S, n \notin ListOf(s)
    PROVE  /\ Append(s, n) \in Seq(S) /\ Once(Append(s, n))
           /\ ListOf(Append(s, n)) = ListOf(s) \cup {n}
<1>1. /\ Append(s, n) \in Seq(S) /\ Len(Append(s, n)) = Len(s) + 1
      /\ \A i \in 1 .. Len(s) : Append(s, n)[i] = s[i]
      /\ Append(s, n)[Len(s) + 1] = n /\ Len(s) \in Nat
  BY AppendProperties
<1>2. \A i \in 1 .. Len(Append(s, n)) : i = Len(s) + 1 \/ i \in 1 .. Len(s)
  BY <1>1
<1>3. Once(Append(s, n))
  BY <1>1, <1>2 DEF Once, ListOf
<1>4. ListOf(Append(s, n)) \subseteq ListOf(s) \cup {n}
  BY <1>1, <1>2 DEF ListOf
<1>5. ListOf(s) \subseteq ListOf(Append(s, n)) /\ n \in ListOf(Append(s, n))
  BY <1>1 DEF ListOf
<1> QED  BY <1>1, <1>3, <1>4, <1>5

(* The first node taken and appended: the list is in another order.        *)
LEMMA RotateKeeps ==
    ASSUME NEW S, NEW s \in Seq(S), s # <<>>, Once(s)
    PROVE  /\ Append(Tail(s), Head(s)) \in Seq(S) /\ Once(Append(Tail(s), Head(s)))
           /\ ListOf(Append(Tail(s), Head(s))) = ListOf(s)
<1> DEFINE rest == Tail(s)
           n == Head(s)
<1>1. /\ rest \in Seq(S) /\ Once(rest) /\ n \in S
      /\ n \notin ListOf(rest) /\ ListOf(rest) \cup {n} = ListOf(s)
  BY TailDropsHead
<1> HIDE DEF rest, n
<1>2. /\ Append(rest, n) \in Seq(S) /\ Once(Append(rest, n))
      /\ ListOf(Append(rest, n)) = ListOf(rest) \cup {n}
  BY <1>1, AppendAdds
<1> QED  BY <1>1, <1>2 DEF rest, n

----------------------------------------------------------------------------
(* hardware_alarm_set_target, and the heap's operations.                   *)

LEMMA SetTargetType ==
    ASSUME Types, NEW t \in Nat, TargetSet(t) \/ TargetMissed(t)
    PROVE  /\ time' \in 0 .. MaxTime /\ hw' \in Nat \cup {None}
           /\ irq' \in BOOLEAN /\ dropped' \in BOOLEAN
<1>1. CASE TargetSet(t)
  BY <1>1 DEF TargetSet, Types, TypeOK, HwDue
<1>2. CASE TargetPassed(t)
  BY <1>2 DEF TargetPassed, Types, TypeOK, hardware
<1>3. CASE TargetRaced(t)
  BY <1>3, AlarmPoolAssumption DEF TargetRaced, Types, TypeOK, HwDue
<1> QED  BY <1>1, <1>2, <1>3 DEF TargetMissed

(* An entry goes in with its target, as the root or behind it.             *)
Enters(n, t) == EntersBehind(n, t) \/ EntersFirst(n, t) \/ EntersMissed(n, t)

LEMMA EntersKeeps ==
    ASSUME Types, RootFirst, NEW n \in Nodes \ heap, NEW t \in Nat,
           NEW a \in Alarms \cup {None}, Fill(n, t, a), Enters(n, t)
    PROVE  /\ heap' = heap \cup {n} /\ heap' \subseteq Nodes
           /\ root' \in heap' \cup {0} /\ (root' = 0 <=> heap' = {})
           /\ RootFirst'
           /\ target' \in [Nodes -> Nat] /\ alarm' \in [Nodes -> Alarms \cup {None}]
           /\ time' \in 0 .. MaxTime /\ hw' \in Nat \cup {None}
           /\ irq' \in BOOLEAN /\ dropped' \in BOOLEAN
<1> USE DEF Types, TypeOK
<1>1. /\ target' \in [Nodes -> Nat] /\ alarm' \in [Nodes -> Alarms \cup {None}]
      /\ target'[n] = t /\ \A m \in heap : target'[m] = target[m]
  BY DEF Fill
<1>2. \/ ~First(t) /\ root' = root /\ UNCHANGED <<time, hardware>>
      \/ First(t) /\ root' = n /\ (TargetSet(t) \/ TargetMissed(t))
  BY DEF Enters, EntersBehind, EntersFirst, EntersMissed
<1>3. heap' = heap \cup {n}
  BY DEF Enters, EntersBehind, EntersFirst, EntersMissed
<1>4. 0 \notin Nodes
  BY AlarmPoolAssumption DEF Nodes
<1>5. time' \in 0 .. MaxTime /\ hw' \in Nat \cup {None} /\ irq' \in BOOLEAN
      /\ dropped' \in BOOLEAN
  BY <1>2, SetTargetType DEF hardware
<1>6. CASE ~First(t) /\ root' = root
  <2>1. heap # {} /\ root \in heap /\ target[root] < t
    BY <1>6 DEF First
  <2> QED  BY <1>1, <1>3, <1>4, <1>5, <1>6, <2>1 DEF RootFirst
<1>7. CASE First(t) /\ root' = n
  <2>1. \A m \in heap : t <= target[m]
    BY <1>7 DEF First, RootFirst
  <2>2. RootFirst'
    BY <1>1, <1>3, <1>7, <2>1 DEF RootFirst
  <2> QED  BY <1>1, <1>3, <1>4, <1>5, <1>7, <2>2
<1> QED  BY <1>2, <1>6, <1>7

LEMMA RemoveKeeps ==
    ASSUME Types, NEW n \in heap, Remove(n), UNCHANGED target
    PROVE  /\ heap' = heap \ {n} /\ heap' \subseteq Nodes
           /\ root' \in heap' \cup {0} /\ (root' = 0 <=> heap' = {})
           /\ RootFirst'
<1>1. 0 \notin Nodes
  BY AlarmPoolAssumption DEF Nodes
<1> QED  BY <1>1 DEF Remove, Earliest, RootFirst, Types, TypeOK

----------------------------------------------------------------------------
(* Types.                                                                  *)

(* What a step that leaves the entries alone keeps.                        *)
LEMMA QuietTypes ==
    ASSUME Types, UNCHANGED <<heap, root, free, high, target, alarm>>,
           time' \in 0 .. MaxTime, hw' \in Nat \cup {None}, irq' \in BOOLEAN,
           dropped' \in BOOLEAN,
           call' \in [Clients -> CallOfType], handler' \in HandlerOfType
    PROVE  Types'
BY DEF Types, TypeOK, CallOfType, HandlerOfType

LEMMA IdType ==
    ASSUME Types, NEW n \in Nodes
    PROVE  Id(n) \in Nat \X Nat
BY AlarmPoolAssumption DEF Id, Types, TypeOK, Nodes

(* The head of the free list is nowhere else, and gone once it is taken.   *)
LEMMA HeadIsFree ==
    ASSUME Types, OnePlace, free # <<>>
    PROVE  /\ Head(free) \in Nodes \ heap /\ Tail(free) \in Seq(Nodes)
           /\ Once(Tail(free)) /\ Head(free) \in ListOf(free)
           /\ ListOf(Tail(free)) = ListOf(free) \ {Head(free)}
BY TailDropsHead DEF Types, OnePlace

(* What an add does to the pool, by what becomes of its node.              *)
LEMMA AddDoes ==
    ASSUME IInv, NEW c \in Clients, AddLocked(c) \/ AddForcedLocked(c)
    PROVE  /\ free # <<>> /\ UNCHANGED <<high, handler, ids, cancelled>>
           /\ Fill(Head(free), call[c].time, call[c].alarm)
           /\ \/ /\ Enters(Head(free), call[c].time) /\ free' = Tail(free)
              \/ /\ NotEntered(call[c].time)
                 /\ free' = Append(Tail(free), Head(free))
           /\ \E p \in {"fire", "return", "force"}, i \in Nat \X Nat, m \in BOOLEAN :
                 call' = [call EXCEPT ![c].missed = m, ![c].id = i, ![c].pc = p]
<1> USE DEF IInv
<1> DEFINE n == Head(free)
<1>1. Id(n) \in Nat \X Nat /\ NoId \in Nat \X Nat
  <2>1. free # <<>>  BY DEF AddLocked, AddForcedLocked
  <2> QED  BY <2>1, HeadIsFree, IdType DEF NoId
<1>2. call \in [Clients -> CallOfType] /\ call[c] \in CallOfType
  BY DEF Types
<1>3. CASE AddLocked(c)
  <2>0. call[c].missed \in BOOLEAN /\ TRUE \in BOOLEAN /\ FALSE \in BOOLEAN
    BY <1>2 DEF CallOfType
  <2>1. \/ AddResult(c, n, call[c].missed) \/ AddResult(c, n, FALSE)
        \/ AddResult(c, n, TRUE)
    BY <1>3 DEF AddLocked
  <2>2. PICK m \in BOOLEAN : AddResult(c, n, m)
    BY <2>0, <2>1, Zenon
  <2>3. \E p \in {"fire", "return", "force"}, i \in Nat \X Nat :
            call' = [call EXCEPT ![c].missed = m, ![c].id = i, ![c].pc = p]
    <3> DEFINE i == IF m THEN NoId ELSE Id(n)
               p == IF m /\ call[c].fire THEN "fire" ELSE "return"
    <3>1. call' = [call EXCEPT ![c].missed = m, ![c].id = i, ![c].pc = p]
      BY <2>2 DEF AddResult
    <3>2. i \in Nat \X Nat /\ p \in {"fire", "return", "force"}
      BY <1>1
    <3> HIDE DEF i, p
    <3> QED  BY <3>1, <3>2
  <2> QED  BY <1>3, <2>3 DEF AddLocked, Enters
<1>4. CASE AddForcedLocked(c)
  <2>1. PICK p \in {"return", "force"} :
            call' = [call EXCEPT ![c].id = Id(n), ![c].pc = p]
    BY <1>4 DEF AddForcedLocked
  <2>2. call' = [call EXCEPT ![c].missed = call[c].missed, ![c].id = Id(n),
                             ![c].pc = p]
        /\ call[c].missed \in BOOLEAN
    BY <1>2, <2>1 DEF CallOfType
  <2> QED  BY <1>1, <1>4, <2>2 DEF AddForcedLocked, Enters
<1> QED  BY <1>3, <1>4

(* What a cancel does: it frees an entry, or leaves the entries alone.     *)
LEMMA CancelDoes ==
    ASSUME IInv, NEW c \in Clients, CancelAlarm(c) \/ CancelRepeatingTimer(c)
    PROVE  /\ UNCHANGED <<time, high, target, alarm, hardware, handler, call>>
           /\ \/ \E n \in heap : Remove(n) /\ free' = Append(free, n)
              \/ UNCHANGED <<heap, root, free>>
<1>1. PICK a \in Alarms : Cancel(c, a)
  BY DEF CancelAlarm, CancelRepeatingTimer
<1> QED
  BY <1>1 DEF Cancel, CancelFrees, CancelStops, CancelFindsNone

(* What the handler does that frees or moves the node of the callback.     *)
LEMMA HandlerNode ==
    ASSUME IInv, handler.pc = "callback"
    PROVE  /\ handler.node \in Nodes \ heap /\ handler.node \notin ListOf(free)
           /\ Held = {handler.node}
BY DEF IInv, OnePlace, Held

LEMMA RepeatDoes ==
    ASSUME IInv, HandlerRepeats
    PROVE  \E t \in Nat : /\ Fill(handler.node, t, alarm[handler.node])
                          /\ Enters(handler.node, t)
<1>1. PICK repeat \in Repeats \ {0} :
          LET n == handler.node
              t == IF repeat < 0 THEN handler.due - repeat ELSE time + repeat
          IN  /\ Fill(n, t, alarm[n])
              /\ EntersBehind(n, t) \/ EntersFirst(n, t) \/ EntersMissed(n, t)
  BY DEF HandlerRepeats
<1> DEFINE t == IF repeat < 0 THEN handler.due - repeat ELSE time + repeat
<1>2. t \in Nat
  <2>1. repeat \in Int /\ handler.due \in Nat /\ time \in Nat
    BY AlarmPoolAssumption DEF IInv, Types, TypeOK, HandlerOfType
  <2> QED  BY <2>1
<1> QED  BY <1>1, <1>2 DEF Enters

(* TypeOK without callers and handler.                                     *)
PoolOfType ==
    /\ time \in 0 .. MaxTime
    /\ heap \subseteq Nodes /\ root \in heap \cup {0} /\ (root = 0 <=> heap = {})
    /\ high \in [Nodes -> 0 .. HighMod - 1]
    /\ target \in [Nodes -> Nat] /\ alarm \in [Nodes -> Alarms \cup {None}]
    /\ hw \in Nat \cup {None} /\ irq \in BOOLEAN /\ dropped \in BOOLEAN

LEMMA PoolKept ==
    ASSUME IInv, Next
    PROVE  PoolOfType' /\ RootFirst'
<1> USE DEF IInv, Types, TypeOK, PoolOfType
<1>1. ASSUME UNCHANGED <<heap, root, high, target, alarm>>,
             \/ UNCHANGED <<time, hardware>>
             \/ \E t \in Nat : TargetSet(t) \/ TargetMissed(t)
             \/ UNCHANGED <<time, hw, dropped>> /\ irq' = TRUE
             \/ UNCHANGED hardware /\ time < MaxTime /\ time' = time + 1
             \/ UNCHANGED time /\ hw' = None /\ irq' = FALSE /\ dropped' = FALSE
      PROVE  PoolOfType' /\ RootFirst'
  <2>1. /\ time' \in 0 .. MaxTime /\ hw' \in Nat \cup {None}
        /\ irq' \in BOOLEAN /\ dropped' \in BOOLEAN
    <3>1. CASE UNCHANGED <<time, hardware>>
      BY <3>1 DEF hardware
    <3>2. CASE \E t \in Nat : TargetSet(t) \/ TargetMissed(t)
      BY <3>2, SetTargetType
    <3>3. CASE UNCHANGED <<time, hw, dropped>> /\ irq' = TRUE
      BY <3>3
    <3>4. CASE UNCHANGED hardware /\ time < MaxTime /\ time' = time + 1
      BY <3>4, AlarmPoolAssumption DEF hardware
    <3>5. CASE UNCHANGED time /\ hw' = None /\ irq' = FALSE /\ dropped' = FALSE
      BY <3>5
    <3> QED  BY <1>1, <3>1, <3>2, <3>3, <3>4, <3>5
  <2> QED  BY <1>1, <2>1 DEF RootFirst
<1>2. CASE Tick          BY <1>1, <1>2 DEF Tick, store
<1>3. CASE HandlerEnter  BY <1>1, <1>3 DEF HandlerEnter, store
<1>4. CASE HandlerLooks  BY <1>1, <1>4 DEF HandlerLooks, store
<1>5. CASE HandlerTakes
  <2>1. root \in heap  BY <1>5 DEF HandlerTakes
  <2> QED  BY <1>5, <2>1, RemoveKeeps DEF HandlerTakes, hardware
<1>6. CASE HandlerSetsNext
  <2>1. target[root] \in Nat  BY <1>6 DEF HandlerSetsNext
  <2> QED  BY <1>1, <1>6, <2>1 DEF HandlerSetsNext, store
<1>7. CASE HandlerFindsNone  BY <1>1, <1>7 DEF HandlerFindsNone, store
<1>8. CASE HandlerRepeats
  <2>1. handler.node \in Nodes \ heap /\ UNCHANGED high
    BY <1>8, HandlerNode DEF HandlerRepeats
  <2>2. alarm[handler.node] \in Alarms \cup {None}
    BY <2>1
  <2> QED  BY <1>8, <2>1, <2>2, RepeatDoes, EntersKeeps
<1>9. CASE HandlerFrees
  <2>1. handler.node \in Nodes
    BY <1>9, HandlerNode DEF HandlerFrees
  <2>2. (high[handler.node] + 1) % HighMod \in 0 .. HighMod - 1
    BY <2>1, AlarmPoolAssumption
  <2>3. high' = [high EXCEPT ![handler.node] = (high[handler.node] + 1) % HighMod]
    BY <1>9 DEF HandlerFrees
  <2>4. high' \in [Nodes -> 0 .. HighMod - 1]
    BY <2>2, <2>3
  <2> QED  BY <1>9, <2>4 DEF HandlerFrees, hardware, RootFirst
<1>10. ASSUME NEW c \in Clients, AddLocked(c) \/ AddForcedLocked(c)
       PROVE  PoolOfType' /\ RootFirst'
  <2> DEFINE n == Head(free)
             t == call[c].time
             a == call[c].alarm
  <2>1. n \in Nodes \ heap
    BY <1>10, AddDoes, HeadIsFree
  <2>2. t \in Nat /\ a \in Alarms \cup {None}
    BY DEF CallOfType
  <2>3. Fill(n, t, a) /\ UNCHANGED high
    BY <1>10, AddDoes
  <2>4. CASE Enters(n, t)
    BY <2>1, <2>2, <2>3, <2>4, EntersKeeps
  <2>5. CASE NotEntered(t)
    <3>1. /\ target' \in [Nodes -> Nat] /\ alarm' \in [Nodes -> Alarms \cup {None}]
          /\ \A m \in heap : target'[m] = target[m]
      BY <2>1, <2>2, <2>3 DEF Fill
    <3>2. UNCHANGED <<heap, root>> /\ TargetMissed(t)
      BY <2>5 DEF NotEntered
    <3>3. /\ time' \in 0 .. MaxTime /\ hw' \in Nat \cup {None}
          /\ irq' \in BOOLEAN /\ dropped' \in BOOLEAN
      BY <2>2, <3>2, SetTargetType
    <3>4. RootFirst'
      BY <3>1, <3>2 DEF RootFirst
    <3> QED  BY <2>3, <3>1, <3>2, <3>3, <3>4
  <2> QED  BY <1>10, <2>4, <2>5, AddDoes
<1>11. ASSUME NEW c \in Clients,
              \/ BeginAdd(c) \/ AddNoSpace(c) \/ AddForces(c) \/ AddFires(c)
              \/ AddReturns(c)
       PROVE  /\ UNCHANGED <<heap, root, high, target, alarm, time, hw, dropped>>
              /\ irq' \in {irq, TRUE}
  BY <1>11 DEF BeginAdd, AddNoSpace, AddForces, AddFires, AddReturns, store,
               hardware
<1>12. ASSUME NEW c \in Clients, CancelAlarm(c) \/ CancelRepeatingTimer(c)
       PROVE  /\ heap' \subseteq Nodes /\ root' \in heap' \cup {0}
              /\ (root' = 0 <=> heap' = {}) /\ RootFirst'
              /\ UNCHANGED <<high, target, alarm, time, hardware>>
  <2>1. UNCHANGED <<high, target, alarm, time, hardware>>
    BY <1>12, CancelDoes
  <2>2. CASE \E n \in heap : Remove(n)
    BY <2>1, <2>2, RemoveKeeps
  <2>3. CASE UNCHANGED <<heap, root>>
    BY <2>1, <2>3 DEF RootFirst
  <2> QED  BY <1>12, <2>1, <2>2, <2>3, CancelDoes
<1>13. ASSUME NEW c \in Clients,
              \/ BeginAdd(c) \/ AddNoSpace(c) \/ AddForces(c) \/ AddFires(c)
              \/ AddReturns(c)
       PROVE  RootFirst' /\ irq' \in BOOLEAN
  BY <1>11, <1>13 DEF RootFirst
<1> QED
  BY <1>2, <1>3, <1>4, <1>5, <1>6, <1>7, <1>8, <1>9, <1>10, <1>11, <1>12, <1>13
  DEF Next, Handler, hardware

LEMMA CallsKept ==
    ASSUME IInv, Next
    PROVE  call' \in [Clients -> CallOfType]
<1> USE DEF IInv, Types
<1>1. CASE UNCHANGED call
  BY <1>1
<1>2. ASSUME NEW c \in Clients, BeginAdd(c)
      PROVE  call' \in [Clients -> CallOfType]
  <2>1. PICK a \in Alarms, t \in Times, add \in Adds :
            call' = [call EXCEPT ![c] = [Idle EXCEPT !.pc = add[1], !.fire = add[2],
                                                     !.alarm = a, !.time = t]]
    BY <1>2 DEF BeginAdd
  <2>2. add[1] \in {"add", "add_forced"} /\ add[2] \in BOOLEAN /\ t \in Nat
    BY AlarmPoolAssumption
  <2>3. ASSUME NEW p \in {"add", "add_forced"}, NEW b \in BOOLEAN
        PROVE  [Idle EXCEPT !.pc = p, !.fire = b, !.alarm = a, !.time = t]
                 \in CallOfType
    BY <2>2 DEF Idle, CallOfType, NoId
  <2> QED  BY <2>1, <2>2, <2>3
<1>3. ASSUME NEW c \in Clients, AddNoSpace(c) \/ AddForces(c)
      PROVE  call' \in [Clients -> CallOfType]
  <2> DEFINE r == [call[c] EXCEPT !.pc = "return"]
  <2>1. r \in CallOfType
    BY DEF CallOfType
  <2>2. call' = [call EXCEPT ![c] = r]
    BY <1>3 DEF AddNoSpace, AddForces
  <2> QED  BY <2>1, <2>2
<1>4. ASSUME NEW c \in Clients, AddLocked(c) \/ AddForcedLocked(c)
      PROVE  call' \in [Clients -> CallOfType]
  <2>1. PICK p \in {"fire", "return", "force"}, i \in Nat \X Nat, m \in BOOLEAN :
                 call' = [call EXCEPT ![c].missed = m, ![c].id = i, ![c].pc = p]
    BY <1>4, AddDoes
  <2> DEFINE r == [call[c] EXCEPT !.missed = m, !.id = i, !.pc = p]
  <2>2. r \in CallOfType
    <3> DEFINE I == Nat \X Nat
    <3>1. i \in I /\ call[c] \in [pc : {"idle", "add", "add_forced", "fire", "force",
                                       "return"},
              alarm : Alarms \cup {None}, time : Nat, fire : BOOLEAN,
              missed : BOOLEAN, id : I]
      BY DEF CallOfType
    <3> SUFFICES r \in [pc : {"idle", "add", "add_forced", "fire", "force", "return"},
              alarm : Alarms \cup {None}, time : Nat, fire : BOOLEAN,
              missed : BOOLEAN, id : I]
      BY DEF CallOfType
    <3> HIDE DEF I
    <3> QED  BY <3>1
  <2>3. call' = [call EXCEPT ![c] = r]
    BY <2>1
  <2> QED  BY <2>2, <2>3
<1>5. ASSUME NEW c \in Clients, AddFires(c)
      PROVE  call' \in [Clients -> CallOfType]
  <2>1. PICK repeat \in RepeatsInCall :
          call' = [call EXCEPT
                     ![c].pc = IF repeat = 0 THEN "return" ELSE "add",
                     ![c].time = IF repeat < 0 THEN @ - repeat ELSE time + repeat]
    BY <1>5 DEF AddFires
  <2> DEFINE t == IF repeat < 0 THEN call[c].time - repeat ELSE time + repeat
             p == IF repeat = 0 THEN "return" ELSE "add"
  <2>2. t \in Nat
    <3>1. repeat \in Int /\ call[c].time \in Nat /\ time \in Nat
      BY AlarmPoolAssumption DEF CallOfType, TypeOK
    <3> QED  BY <3>1
  <2>3. call' = [call EXCEPT ![c].pc = p, ![c].time = t]
    BY <2>1
  <2>4. p \in {"return", "add"}
    OBVIOUS
  <2> HIDE DEF t, p
  <2> DEFINE r == [call[c] EXCEPT !.pc = p, !.time = t]
  <2>5. r \in CallOfType
    BY <2>2, <2>4 DEF CallOfType
  <2>6. call' = [call EXCEPT ![c] = r]
    BY <2>3
  <2> QED  BY <2>5, <2>6
<1>6. ASSUME NEW c \in Clients, AddReturns(c)
      PROVE  call' \in [Clients -> CallOfType]
  <2>1. Idle \in CallOfType
    BY DEF Idle, CallOfType, NoId
  <2> QED  BY <1>6, <2>1 DEF AddReturns
<1>7. ASSUME NEW c \in Clients, CancelAlarm(c) \/ CancelRepeatingTimer(c)
      PROVE  UNCHANGED call
  BY <1>7, CancelDoes
<1>8. ASSUME Tick \/ Handler
      PROVE  UNCHANGED call
  BY <1>8 DEF Tick, Handler, HandlerEnter, HandlerLooks, HandlerTakes,
              HandlerSetsNext, HandlerFindsNone, HandlerRepeats, HandlerFrees
<1> QED
  BY <1>1, <1>2, <1>3, <1>4, <1>5, <1>6, <1>7, <1>8 DEF Next

LEMMA HandlerKept ==
    ASSUME IInv, Next
    PROVE  handler' \in HandlerOfType
<1> USE DEF IInv, Types
<1>1. Off \in HandlerOfType /\ [Off EXCEPT !.pc = "look"] \in HandlerOfType
  BY DEF Off, HandlerOfType, NoId
<1>2. CASE HandlerEnter \/ HandlerFindsNone
  BY <1>1, <1>2 DEF HandlerEnter, HandlerFindsNone
<1>3. CASE HandlerLooks
  <2>1. time \in Nat
    BY AlarmPoolAssumption DEF TypeOK
  <2> QED  BY <1>3, <2>1 DEF HandlerLooks, HandlerOfType
<1>4. CASE HandlerTakes
  <2>1. root \in Nodes /\ target[root] \in Nat
    BY <1>4 DEF HandlerTakes, TypeOK
  <2>2. Id(root) \in Nat \X Nat
    BY <2>1, IdType
  <2> QED  BY <1>4, <2>1, <2>2 DEF HandlerTakes, HandlerOfType
<1>5. CASE HandlerSetsNext
  BY <1>1, <1>5 DEF HandlerSetsNext, HandlerOfType
<1>6. CASE HandlerRepeats \/ HandlerFrees
  BY <1>6 DEF HandlerRepeats, HandlerFrees, HandlerOfType
<1>7. CASE Tick
  BY <1>7 DEF Tick
<1>8. ASSUME NEW c \in Clients,
              \/ BeginAdd(c) \/ AddNoSpace(c) \/ AddLocked(c) \/ AddForcedLocked(c)
              \/ AddForces(c) \/ AddFires(c) \/ AddReturns(c)
              \/ CancelAlarm(c) \/ CancelRepeatingTimer(c)
      PROVE  UNCHANGED handler
  BY <1>8, CancelDoes DEF BeginAdd, AddNoSpace, AddLocked, AddForcedLocked,
     AddForces, AddFires, AddReturns
<1> QED
  BY <1>2, <1>3, <1>4, <1>5, <1>6, <1>7, <1>8 DEF Next, Handler

----------------------------------------------------------------------------
(* One place for every node.                                               *)

LEMMA PlacesKept ==
    ASSUME IInv, Next
    PROVE  free' \in Seq(Nodes) /\ OnePlace'
<1> USE DEF IInv, Types
<1>1. ASSUME UNCHANGED <<heap, free, handler>>
      PROVE  free' \in Seq(Nodes) /\ OnePlace'
  BY <1>1 DEF OnePlace, Held, ListOf, Once
<1>2. ASSUME UNCHANGED <<heap, free>>, handler.pc # "callback",
             handler'.pc # "callback"
      PROVE  free' \in Seq(Nodes) /\ OnePlace'
  BY <1>2 DEF OnePlace, Held, ListOf, Once
<1>3. CASE HandlerEnter \/ HandlerLooks \/ HandlerSetsNext \/ HandlerFindsNone
  <2>1. UNCHANGED <<heap, free>> /\ handler.pc # "callback"
    BY <1>3 DEF HandlerEnter, HandlerLooks, HandlerSetsNext, HandlerFindsNone,
                store
  <2>2. handler'.pc # "callback"
    <3>1. CASE HandlerEnter \/ HandlerFindsNone
      BY <3>1 DEF HandlerEnter, HandlerFindsNone, Off
    <3>2. CASE HandlerLooks
      BY <3>2 DEF HandlerLooks, HandlerOfType
    <3>3. CASE HandlerSetsNext
      BY <3>3 DEF HandlerSetsNext, HandlerOfType, Off
    <3> QED  BY <1>3, <3>1, <3>2, <3>3
  <2> QED  BY <1>2, <2>1, <2>2
<1>4. CASE HandlerTakes
  <2>1. /\ root \in heap /\ heap' = heap \ {root} /\ UNCHANGED free
        /\ Held = {} /\ Held' = {root}
    BY <1>4 DEF HandlerTakes, Remove, Held, TypeOK, HandlerOfType
  <2> QED  BY <2>1 DEF OnePlace, Once, ListOf
<1>5. CASE HandlerRepeats
  <2>1. /\ handler.node \in Nodes \ heap /\ handler.node \notin ListOf(free)
        /\ Held = {handler.node}
    BY <1>5, HandlerNode DEF HandlerRepeats
  <2>2. heap' = heap \cup {handler.node}
    BY <1>5, RepeatDoes DEF Enters, EntersBehind, EntersFirst, EntersMissed
  <2>3. UNCHANGED free /\ Held' = {}
    BY <1>5 DEF HandlerRepeats, Held, HandlerOfType
  <2> QED  BY <2>1, <2>2, <2>3 DEF OnePlace, Once, ListOf
<1>6. CASE HandlerFrees
  <2>1. /\ handler.node \in Nodes \ heap /\ handler.node \notin ListOf(free)
        /\ Held = {handler.node}
    BY <1>6, HandlerNode DEF HandlerFrees
  <2>2. /\ UNCHANGED heap /\ free' = Append(free, handler.node)
        /\ Held' = {}
    BY <1>6 DEF HandlerFrees, Held, HandlerOfType
  <2>3. /\ free' \in Seq(Nodes) /\ Once(free')
        /\ ListOf(free') = ListOf(free) \cup {handler.node}
    BY <2>1, <2>2, AppendAdds DEF OnePlace
  <2> QED  BY <2>1, <2>2, <2>3 DEF OnePlace
<1>7. CASE Tick
  BY <1>1, <1>7 DEF Tick, store
<1>8. ASSUME NEW c \in Clients, AddLocked(c) \/ AddForcedLocked(c)
      PROVE  free' \in Seq(Nodes) /\ OnePlace'
  <2> DEFINE n == Head(free)
  <2>1. /\ n \in Nodes \ heap /\ Tail(free) \in Seq(Nodes) /\ Once(Tail(free))
        /\ n \in ListOf(free) /\ ListOf(Tail(free)) = ListOf(free) \ {n}
    BY <1>8, AddDoes, HeadIsFree
  <2>2. Held' = Held
    BY <1>8, AddDoes DEF Held
  <2>3. CASE heap' = heap \cup {n} /\ free' = Tail(free)
    BY <2>1, <2>2, <2>3 DEF OnePlace
  <2>4. CASE heap' = heap /\ free' = Append(Tail(free), n)
    <3>1. free # <<>> /\ Once(free)
      BY <1>8, AddDoes DEF OnePlace
    <3>2. /\ free' \in Seq(Nodes) /\ Once(free') /\ ListOf(free') = ListOf(free)
      BY <2>4, <3>1, RotateKeeps
    <3> QED  BY <2>2, <2>4, <3>2 DEF OnePlace
  <2>5. \/ heap' = heap \cup {n} /\ free' = Tail(free)
        \/ heap' = heap /\ free' = Append(Tail(free), n)
    BY <1>8, AddDoes DEF Enters, EntersBehind, EntersFirst, EntersMissed, NotEntered
  <2> QED  BY <2>3, <2>4, <2>5
<1>9. ASSUME NEW c \in Clients, CancelAlarm(c) \/ CancelRepeatingTimer(c)
      PROVE  free' \in Seq(Nodes) /\ OnePlace'
  <2>1. CASE \E n \in heap : Remove(n) /\ free' = Append(free, n)
    <3>1. PICK n \in heap : heap' = heap \ {n} /\ free' = Append(free, n)
      BY <2>1 DEF Remove
    <3>2. n \in Nodes /\ n \notin ListOf(free)
      BY DEF OnePlace
    <3>3. /\ free' \in Seq(Nodes) /\ Once(free')
          /\ ListOf(free') = ListOf(free) \cup {n}
      BY <3>1, <3>2, AppendAdds DEF OnePlace
    <3>4. Held' = Held
      BY <1>9, CancelDoes DEF Held
    <3> QED  BY <3>1, <3>2, <3>3, <3>4 DEF OnePlace
  <2>2. CASE UNCHANGED <<heap, root, free>>
    BY <1>1, <1>9, <2>2, CancelDoes
  <2> QED  BY <1>9, <2>1, <2>2, CancelDoes
<1>10. ASSUME NEW c \in Clients,
              \/ BeginAdd(c) \/ AddNoSpace(c) \/ AddForces(c) \/ AddFires(c)
              \/ AddReturns(c)
       PROVE  free' \in Seq(Nodes) /\ OnePlace'
  BY <1>1, <1>10 DEF BeginAdd, AddNoSpace, AddForces, AddFires, AddReturns, store
<1> QED
  BY <1>3, <1>4, <1>5, <1>6, <1>7, <1>8, <1>9, <1>10 DEF Next, Handler

----------------------------------------------------------------------------
(* No entry without an interrupt to come.                                  *)

Forcing == \E c \in Clients : call[c].pc = "force"
HwCovers == hw # None /\ \A n \in heap : hw <= target[n]

(* A caller that is not about to force the interrupt takes none away.      *)
LEMMA ForcingStays ==
    ASSUME IInv, NEW c \in Clients, call[c].pc # "force", Forcing,
           \A d \in Clients \ {c} : call'[d] = call[d]
    PROVE  Forcing'
BY DEF Forcing

LEMMA OthersUntouched ==
    ASSUME IInv, NEW c \in Clients,
           \/ BeginAdd(c) \/ AddNoSpace(c) \/ AddLocked(c) \/ AddForcedLocked(c)
           \/ AddFires(c) \/ AddReturns(c)
    PROVE  call[c].pc # "force" /\ \A d \in Clients \ {c} : call'[d] = call[d]
<1>1. call \in [Clients -> CallOfType]
  BY DEF IInv, Types
<1>2. CASE AddLocked(c) \/ AddForcedLocked(c)
  <2>1. call[c].pc # "force"
    BY <1>2 DEF AddLocked, AddForcedLocked
  <2> QED  BY <1>1, <1>2, <2>1, AddDoes
<1>3. CASE BeginAdd(c) \/ AddNoSpace(c) \/ AddFires(c) \/ AddReturns(c)
  BY <1>1, <1>3 DEF BeginAdd, AddNoSpace, AddFires, AddReturns
<1> QED  BY <1>2, <1>3

(* An add with the handler off leaves the new entry and the old ones       *)
(* covered, or forces the interrupt.                                       *)
LEMMA AddCovers ==
    ASSUME IInv, NEW c \in Clients, AddLocked(c) \/ AddForcedLocked(c),
           ~dropped', heap' # {}, handler.pc = "off"
    PROVE  irq' \/ HwCovers' \/ Forcing'
<1> DEFINE n == Head(free)
           t == call[c].time
<1> USE DEF IInv, Types, TypeOK
<1>1. /\ n \in Nodes \ heap /\ t \in Nat
      /\ target' = [target EXCEPT ![n] = t]
  BY AddDoes, HeadIsFree DEF Fill, CallOfType
<1>2. target'[n] = t /\ \A m \in heap : target'[m] = target[m] /\ target[m] \in Nat
  BY <1>1
<1>3. Forcing => Forcing'
  BY OthersUntouched, ForcingStays
<1>4. t # None /\ \A m \in heap : target[m] # None
  BY <1>1, AlarmPoolAssumption
<1> HIDE DEF n, t
<1>5. CASE EntersBehind(n, t)
  <2>1. /\ heap # {} /\ heap' = heap \cup {n} /\ UNCHANGED <<hw, irq, dropped>>
        /\ root \in heap /\ t > target[root]
    BY <1>1, <1>2, <1>5 DEF EntersBehind, First, hardware
  <2>2. irq \/ HwCovers \/ Forcing
    BY <2>1 DEF EntriesWillFireUnlessDropped, EntriesWillFire, HwCovers, Forcing
  <2>3. CASE HwCovers
    <3>1. hw \in Nat /\ hw <= target[root]
      BY <2>1, <2>3 DEF HwCovers
    <3> QED  BY <1>1, <1>2, <2>1, <2>3, <3>1 DEF HwCovers
  <2> QED  BY <1>3, <2>1, <2>2, <2>3
<1>6. CASE EntersFirst(n, t)
  <2>1. /\ heap' = heap \cup {n} /\ hw' = t
        /\ \A m \in heap : t <= target[m]
    <3>1. heap' = heap \cup {n} /\ hw' = t /\ First(t)
      BY <1>6 DEF EntersFirst, TargetSet
    <3>2. \A m \in heap : t <= target[root] /\ target[root] <= target[m]
                          /\ target[root] \in Nat
      BY <1>1, <3>1 DEF First, RootFirst
    <3> QED  BY <1>1, <1>2, <3>1, <3>2
  <2> QED  BY <1>1, <1>2, <1>4, <2>1 DEF HwCovers
<1>7. CASE NotEntered(t)
  <2>1. UNCHANGED heap /\ TargetMissed(t)
    BY <1>7 DEF NotEntered
  <2>2. dropped => dropped'
    BY <2>1 DEF TargetMissed, TargetPassed, TargetRaced, hardware
  <2>3. irq \/ HwCovers \/ Forcing
    BY <2>1, <2>2 DEF EntriesWillFireUnlessDropped, EntriesWillFire, HwCovers,
       Forcing
  <2>4. CASE TargetPassed(t)
    BY <1>2, <1>3, <2>1, <2>3, <2>4 DEF TargetPassed, hardware, HwCovers
  <2>5. CASE TargetRaced(t)
    BY <1>3, <2>3, <2>5 DEF TargetRaced, HwCovers
  <2> QED  BY <2>1, <2>4, <2>5 DEF TargetMissed
<1>8. CASE call' = [call EXCEPT ![c].id = Id(n), ![c].pc = "force"]
  BY <1>8 DEF Forcing
<1> QED
  BY <1>5, <1>6, <1>7, <1>8 DEF AddLocked, AddForcedLocked, n, t

LEMMA FireKept ==
    ASSUME IInv, Next
    PROVE  EntriesWillFireUnlessDropped'
<1> USE DEF IInv, Types
<1> SUFFICES ASSUME ~dropped', heap' # {}, handler'.pc = "off"
             PROVE  irq' \/ HwCovers' \/ Forcing'
  BY DEF EntriesWillFireUnlessDropped, EntriesWillFire, HwCovers, Forcing
<1>1. CASE HandlerEnter \/ HandlerLooks \/ HandlerTakes \/ HandlerRepeats
           \/ HandlerFrees
  <2>1. handler'.pc \in {"look", "head", "callback"}
    BY <1>1 DEF HandlerEnter, HandlerLooks, HandlerTakes, HandlerRepeats,
                HandlerFrees, Off, HandlerOfType
  <2> QED  BY <2>1
<1>2. CASE HandlerSetsNext
  <2>1. TargetSet(target[root]) /\ UNCHANGED <<heap, target>> /\ root \in heap
    BY <1>2 DEF HandlerSetsNext, HandlerOfType, store, TypeOK
  <2>2. hw' = target[root] /\ target[root] \in Nat
    BY <2>1 DEF TargetSet, TypeOK
  <2> QED  BY <2>1, <2>2, AlarmPoolAssumption DEF HwCovers, RootFirst
<1>3. CASE HandlerFindsNone
  BY <1>3 DEF HandlerFindsNone, store
<1>4. ASSUME handler.pc = "off", ~dropped, heap # {},
             UNCHANGED <<hw, target>>, heap' \subseteq heap, irq => irq',
             Forcing => Forcing'
      PROVE  irq' \/ HwCovers' \/ Forcing'
  BY <1>4 DEF EntriesWillFireUnlessDropped, EntriesWillFire, HwCovers, Forcing
<1>5. CASE Tick
  BY <1>4, <1>5 DEF Tick, store, hardware, Forcing
<1>6. ASSUME NEW c \in Clients, AddLocked(c) \/ AddForcedLocked(c)
      PROVE  irq' \/ HwCovers' \/ Forcing'
  BY <1>6, AddDoes, AddCovers
<1>7. ASSUME NEW c \in Clients,
             BeginAdd(c) \/ AddNoSpace(c) \/ AddFires(c) \/ AddReturns(c)
      PROVE  irq' \/ HwCovers' \/ Forcing'
  <2>1. Forcing => Forcing'
    BY <1>7, OthersUntouched, ForcingStays
  <2> QED
    BY <1>4, <1>7, <2>1 DEF BeginAdd, AddNoSpace, AddFires, AddReturns, store,
                            hardware
<1>8. ASSUME NEW c \in Clients, AddForces(c)
      PROVE  irq' \/ HwCovers' \/ Forcing'
  BY <1>8 DEF AddForces
<1>9. ASSUME NEW c \in Clients, CancelAlarm(c) \/ CancelRepeatingTimer(c)
      PROVE  irq' \/ HwCovers' \/ Forcing'
  <2>1. /\ UNCHANGED <<target, hardware, handler, call>>
        /\ heap' \subseteq heap
    BY <1>9, CancelDoes DEF Remove
  <2> QED  BY <1>4, <2>1 DEF hardware, Forcing
<1> QED
  BY <1>1, <1>2, <1>3, <1>5, <1>6, <1>7, <1>8, <1>9 DEF Next, Handler

----------------------------------------------------------------------------

LEMMA InvariantStarts ==
    ASSUME Init
    PROVE  IInv
<1>1. /\ [n \in Nodes |-> n] \in Seq(Nodes) /\ Len([n \in Nodes |-> n]) = MaxNodes
  BY AlarmPoolAssumption DEF Nodes
<1>2. free \in Seq(Nodes) /\ Once(free) /\ ListOf(free) = Nodes
  BY <1>1, AlarmPoolAssumption DEF Init, Once, ListOf, Nodes
<1>3. OnePlace
  BY <1>2 DEF Init, OnePlace, Held, Off
<1>4. Idle \in CallOfType /\ Off \in HandlerOfType
  BY DEF Idle, Off, CallOfType, HandlerOfType, NoId
<1>5. call \in [Clients -> CallOfType] /\ handler \in HandlerOfType
  BY <1>4 DEF Init
<1>6. /\ time \in 0 .. MaxTime /\ heap \subseteq Nodes /\ root = 0 /\ heap = {}
      /\ high \in [Nodes -> 0 .. HighMod - 1]
      /\ target \in [Nodes -> Nat] /\ alarm \in [Nodes -> Alarms \cup {None}]
      /\ hw = None
  BY AlarmPoolAssumption DEF Init
<1>7. irq \in BOOLEAN /\ dropped \in BOOLEAN
  BY Zenon DEF Init
<1>8. TypeOK
  BY <1>5, <1>6, <1>7 DEF TypeOK, CallOfType, HandlerOfType
<1> QED
  BY <1>2, <1>3, <1>5, <1>6, <1>8 DEF IInv, Types, RootFirst,
     EntriesWillFireUnlessDropped, EntriesWillFire

LEMMA Inductive ==
    ASSUME IInv, [Next]_vars
    PROVE  IInv'
<1>1. CASE Next
  <2>1. /\ PoolOfType' /\ RootFirst' /\ OnePlace' /\ free' \in Seq(Nodes)
        /\ call' \in [Clients -> CallOfType] /\ handler' \in HandlerOfType
        /\ EntriesWillFireUnlessDropped'
    BY <1>1, PoolKept, PlacesKept, CallsKept, HandlerKept, FireKept
  <2>2. TypeOK'
    BY <2>1 DEF PoolOfType, TypeOK, CallOfType, HandlerOfType
  <2> QED  BY <2>1, <2>2 DEF IInv, Types
<1>2. CASE UNCHANGED vars
  BY <1>2 DEF vars, store, hardware, IInv, Types, TypeOK, OnePlace, Once, ListOf,
     Held, RootFirst, EntriesWillFireUnlessDropped, EntriesWillFire
<1> QED  BY <1>1, <1>2

----------------------------------------------------------------------------

(* The inductive invariant holds in every reachable state.                 *)
THEOREM InvariantHolds == Spec => []IInv
<1>1. Init => IInv                   BY InvariantStarts
<1>2. IInv /\ [Next]_vars => IInv'   BY Inductive
<1> QED  BY <1>1, <1>2, PTL DEF Spec

(* No node is leaked or freed twice, whatever cancels race with the        *)
(* callback (time.c 99-122, 156-174, 293-315).                             *)
THEOREM NodesAreAccounted == Spec => []NodesAccounted
<1>1. IInv => NodesAccounted
  <2>1. ListOf(free) = Listed
    BY DEF ListOf, Listed
  <2> QED
    BY <2>1, OnceCounts DEF IInv, Types, OnePlace, NodesAccounted
<1> QED  BY <1>1, InvariantHolds, PTL

(* Whenever the handler is off and the pool has entries, the interrupt is  *)
(* pending, about to be forced, or set for no later than any of them,      *)
(* unless a missed target took the place of a pending one (time.c 113-118, *)
(* 149-153, 245-251, 283-289).                                             *)
THEOREM EntriesFire == Spec => []EntriesWillFireUnlessDropped
<1>1. IInv => EntriesWillFireUnlessDropped  BY DEF IInv
<1> QED  BY <1>1, InvariantHolds, PTL

----------------------------------------------------------------------------
(* Whose node is whose, as long as an immediate callback does not repeat.  *)

Placed == heap \cup Held

(* In the heap, or called back and not cancelled since.                    *)
Live == {n \in Placed : n \in heap \/ inProgress # NoId}

AlarmsDiffer ==
    /\ \A n \in Placed : alarm[n] \in Alarms
    /\ \A m, n \in Placed : alarm[m] = alarm[n] => m = n

IdInProgress ==
    inProgress # NoId => /\ handler.pc = "callback" /\ handler.id = inProgress
                         /\ inProgress = Id(handler.node)

LiveStays == \A n \in Live : alarm[n] \notin cancelled

CallsDiffer ==
    \A c \in Clients : call[c].pc # "idle" =>
        /\ call[c].alarm \in Alarms /\ ids[call[c].alarm] = NoId
        /\ \A d \in Clients : call[d].alarm = call[c].alarm => c = d

IdleHasNone == \A c \in Clients : call[c].pc = "idle" => call[c].alarm = None

NotYetPlaced ==
    \A c \in Clients : call[c].pc \in {"add", "add_forced", "fire"} =>
        /\ \A n \in Placed : alarm[n] # call[c].alarm
        /\ call[c].pc # "fire" => call[c].alarm \notin cancelled /\ ~call[c].missed

ReturnsItsId ==
    \A c \in Clients : call[c].pc \in {"force", "return"} =>
        \A n \in Live : alarm[n] = call[c].alarm => call[c].id = Id(n)

(* The add that has yet to return is the one whose id is missing.          *)
IdIsStored ==
    \A n \in Live :
        \/ ids[alarm[n]] = Id(n)
        \/ /\ ids[alarm[n]] = NoId
           /\ \E c \in Clients : call[c].alarm = alarm[n]

Identity ==
    /\ ids \in [Alarms -> Nat \X Nat]
    /\ AlarmsDiffer /\ IdInProgress /\ LiveStays /\ CallsDiffer
    /\ IdleHasNone /\ NotYetPlaced /\ ReturnsItsId /\ IdIsStored

LEMMA IdIsNotNone ==
    ASSUME NEW n \in Nodes
    PROVE  Id(n) # NoId
BY DEF Id, NoId, Nodes

LEMMA PlacedAreNodes ==
    ASSUME IInv
    PROVE  /\ Placed \subseteq Nodes /\ heap \subseteq Placed /\ Live \subseteq Placed
           /\ free # <<>> => Head(free) \in Nodes \ Placed
           /\ handler.pc # "callback" => Placed = heap
           /\ handler.pc = "callback" =>
                 handler.node \in Placed \ heap /\ Placed = heap \cup {handler.node}
BY HeadIsFree DEF IInv, Types, OnePlace, Placed, Live, Held

(* What does not touch the entries in use keeps them whose they are.       *)
LEMMA SameEntries ==
    ASSUME IInv, Identity, Placed' = Placed, Live' = Live,
           \A n \in Placed : alarm'[n] = alarm[n],
           UNCHANGED <<high, ids, call, cancelled>>, IdInProgress'
    PROVE  Identity'
<1> USE DEF Identity
<1>1. \A n \in Live : alarm'[n] = alarm[n] /\ Id(n)' = Id(n)
  BY PlacedAreNodes DEF Id
<1>2. NoId' = NoId
  BY DEF NoId
<1>3. AlarmsDiffer' /\ LiveStays'
  BY <1>1 DEF AlarmsDiffer, LiveStays
<1>4. CallsDiffer' /\ NotYetPlaced' /\ IdleHasNone'
  BY <1>2 DEF CallsDiffer, NotYetPlaced, IdleHasNone
<1>5. ReturnsItsId' /\ IdIsStored'
  BY <1>1, <1>2 DEF ReturnsItsId, IdIsStored
<1> QED  BY <1>3, <1>4, <1>5

LEMMA OneChanges ==
    ASSUME NEW S, NEW T, NEW f \in [S -> T], NEW x \in S, NEW v \in T, NEW g,
           g = f \/ g = [f EXCEPT ![x] = v]
    PROVE  g \in [S -> T] /\ \A y \in S : g[y] = f[y] \/ (y = x /\ g[y] = v)
<1>1. CASE g = f  BY <1>1
<1>2. CASE g = [f EXCEPT ![x] = v]  BY <1>2
<1> QED  BY <1>1, <1>2

LEMMA IdentityOfHandler ==
    ASSUME IInv, Identity, Tick \/ Handler
    PROVE  Identity'
<1> USE DEF Identity
<1>0. NoId' = NoId
  BY DEF NoId
<1>1. handler.pc # "callback" => inProgress = NoId
  BY DEF IdInProgress
<1>2. ASSUME UNCHANGED <<heap, alarm, high, inProgress, ids, call, cancelled>>,
             \/ UNCHANGED handler
             \/ handler.pc # "callback" /\ handler'.pc # "callback"
      PROVE  Identity'
  <2>1. Held' = Held
    BY <1>2 DEF Held
  <2>2. Placed' = Placed /\ Live' = Live
    BY <1>0, <1>2, <2>1 DEF Placed, Live
  <2>3. IdInProgress'
    BY <1>0, <1>1, <1>2 DEF IdInProgress, Id
  <2> QED  BY <1>2, <2>2, <2>3, SameEntries
<1>3. CASE Tick
  BY <1>2, <1>3 DEF Tick, store
<1>4. CASE HandlerEnter
  BY <1>2, <1>4 DEF HandlerEnter, store, Off
<1>5. CASE HandlerLooks
  <2>1. handler'.pc = "head"
    BY <1>5 DEF HandlerLooks, IInv, Types, HandlerOfType
  <2> QED  BY <1>2, <1>5, <2>1 DEF HandlerLooks, store
<1>6. CASE HandlerSetsNext
  <2>1. handler'.pc \in {"off", "look"}
    BY <1>6 DEF HandlerSetsNext, Off, IInv, Types, HandlerOfType
  <2> QED  BY <1>2, <1>6, <2>1 DEF HandlerSetsNext, store
<1>7. CASE HandlerFindsNone
  BY <1>2, <1>7 DEF HandlerFindsNone, store, Off
<1>8. CASE HandlerTakes
  <2>1. /\ handler.pc = "head" /\ root \in heap /\ heap' = heap \ {root}
        /\ inProgress' = Id(root) /\ UNCHANGED <<alarm, high, ids, call, cancelled>>
    BY <1>8 DEF HandlerTakes, Remove, IInv, Types, TypeOK
  <2>2. handler'.pc = "callback" /\ handler'.node = root /\ handler'.id = Id(root)
    BY <1>8 DEF HandlerTakes, IInv, Types, HandlerOfType
  <2>3. root \in Nodes /\ Id(root) # NoId /\ Placed = heap
    BY <2>1, IdIsNotNone, PlacedAreNodes
  <2>4. Placed' = heap
    BY <2>1, <2>2 DEF Placed, Held
  <2>5. Live = heap /\ Live' = heap
    BY <1>0, <2>1, <2>3, <2>4 DEF Live
  <2>6. IdInProgress'
    BY <2>1, <2>2 DEF IdInProgress, Id
  <2> QED  BY <2>1, <2>3, <2>4, <2>5, <2>6, SameEntries
<1>9. CASE HandlerRepeats
  <2> DEFINE n == handler.node
  <2>1. /\ handler.pc = "callback" /\ inProgress # NoId /\ inProgress' = NoId
        /\ UNCHANGED <<high, ids, call, cancelled>>
    BY <1>9 DEF HandlerRepeats
  <2>2. PICK t \in Nat : Fill(n, t, alarm[n]) /\ Enters(n, t)
    BY <1>9, RepeatDoes
  <2>3. heap' = heap \cup {n}
    BY <2>2 DEF Enters, EntersBehind, EntersFirst, EntersMissed
  <2>4. alarm' = alarm
    BY <2>2 DEF Fill, IInv, Types, TypeOK
  <2>5. handler'.pc = "look"
    BY <1>9 DEF HandlerRepeats, IInv, Types, HandlerOfType
  <2>6. Placed = heap \cup {n} /\ Placed' = heap \cup {n}
    BY <2>1, <2>3, <2>5, PlacedAreNodes DEF Placed, Held
  <2>7. Live = Placed /\ Live' = Placed'
    BY <2>1, <2>3, <2>6 DEF Live
  <2>8. IdInProgress'
    BY <1>0, <2>1 DEF IdInProgress
  <2> QED  BY <2>1, <2>4, <2>6, <2>7, <2>8, SameEntries
<1>10. CASE HandlerFrees
  <2> DEFINE n == handler.node
             b == alarm[n]
  <2>1. /\ handler.pc = "callback" /\ inProgress' = NoId
        /\ UNCHANGED <<heap, alarm, call, cancelled>>
        /\ high' = [high EXCEPT ![n] = (@ + 1) % HighMod]
        /\ ids' = [ids EXCEPT ![b] = NoId] \/ ids' = ids
    BY <1>10 DEF HandlerFrees
  <2>2. handler'.pc = "look"
    BY <1>10 DEF HandlerFrees, IInv, Types, HandlerOfType
  <2>3. n \in Placed \ heap /\ Placed = heap \cup {n} /\ n \in Nodes
    BY <2>1, PlacedAreNodes
  <2>4. Placed' = heap /\ Live' = heap
    BY <2>1, <2>2 DEF Placed, Live, Held
  <2>5. heap \subseteq Live
    BY <2>3 DEF Live
  <2>6. \A m \in heap : alarm[m] # b /\ Id(m)' = Id(m)
    <3>1. \A m \in heap : alarm[m] # b
      BY <2>3 DEF AlarmsDiffer
    <3>2. high \in [Nodes -> 0 .. HighMod - 1] /\ heap \subseteq Nodes
      BY DEF IInv, Types, TypeOK
    <3>3. \A m \in heap : high'[m] = high[m]
      BY <2>1, <2>3, <3>2
    <3> QED  BY <3>1, <3>3 DEF Id
  <2>7. b \in Alarms /\ NoId \in Nat \X Nat
    BY <2>3 DEF AlarmsDiffer, NoId
  <2>8. /\ ids' \in [Alarms -> Nat \X Nat]
        /\ \A a \in Alarms : ids'[a] = ids[a] \/ (a = b /\ ids'[a] = NoId)
    <3>1. ids \in [Alarms -> Nat \X Nat]  OBVIOUS
    <3> HIDE DEF b
    <3> QED  BY <3>1, <2>1, <2>7, OneChanges
  <2>9. AlarmsDiffer' /\ LiveStays'
    BY <2>1, <2>3, <2>4, <2>5 DEF AlarmsDiffer, LiveStays
  <2>10. IdInProgress'
    BY <1>0, <2>1 DEF IdInProgress
  <2>11. CallsDiffer' /\ IdleHasNone'
    BY <1>0, <2>1, <2>8 DEF CallsDiffer, IdleHasNone
  <2>12. NotYetPlaced'
    BY <2>1, <2>3, <2>4 DEF NotYetPlaced
  <2>13. ReturnsItsId'
    BY <2>1, <2>4, <2>5, <2>6 DEF ReturnsItsId
  <2>14. IdIsStored'
    BY <1>0, <2>1, <2>3, <2>4, <2>5, <2>6, <2>8 DEF IdIsStored, AlarmsDiffer
  <2> QED  BY <2>8, <2>9, <2>10, <2>11, <2>12, <2>13, <2>14
<1> QED
  BY <1>3, <1>4, <1>5, <1>6, <1>7, <1>8, <1>9, <1>10 DEF Handler

LEMMA IdentityOfCancels ==
    ASSUME IInv, Identity,
           NEW c \in Clients, CancelAlarm(c) \/ CancelRepeatingTimer(c)
    PROVE  Identity'
<1> USE DEF Identity
<1>0. NoId' = NoId /\ NoId \in Nat \X Nat
  BY DEF NoId
<1>1. PICK a \in Alarms : /\ Cancel(c, a)
                          /\ ids' = ids \/ ids' = [ids EXCEPT ![a] = NoId]
  BY DEF CancelAlarm, CancelRepeatingTimer
<1>2. ids[a] # NoId /\ UNCHANGED <<high, alarm, handler, call>>
  BY <1>1 DEF Cancel
<1>3. /\ ids' \in [Alarms -> Nat \X Nat]
      /\ \A b \in Alarms : ids'[b] = ids[b] \/ (b = a /\ ids'[b] = NoId)
  <2>1. ids \in [Alarms -> Nat \X Nat]  OBVIOUS
  <2> QED  BY <2>1, <1>0, <1>1, OneChanges
<1>4. Held' = Held /\ \A n \in Nodes : Id(n)' = Id(n)
  BY <1>2 DEF Held, Id
<1>5. heap' \subseteq heap
      /\ inProgress' \in {inProgress, NoId}
      /\ cancelled' \subseteq cancelled \cup {a}
  BY <1>1 DEF Cancel, CancelFrees, CancelStops, CancelFindsNone, Remove
<1>6. Placed' \subseteq Placed /\ Live' \subseteq Live
  BY <1>0, <1>4, <1>5 DEF Placed, Live
(* No entry still live is the one that is cancelled.                       *)
<1>7. \A n \in Live' : alarm[n] = a => ids' = ids /\ cancelled' \subseteq cancelled
  <2> SUFFICES ASSUME NEW n \in Live', alarm[n] = a PROVE FALSE
    OBVIOUS
  <2>1. n \in Live /\ n \in Nodes /\ ids[a] = Id(n) /\ ids[a][2] = n
    BY <1>2, <1>6, PlacedAreNodes DEF IdIsStored, Id
  <2>2. CASE CancelFrees(a)
    BY <2>1, <2>2, <1>0, <1>4, PlacedAreNodes DEF CancelFrees, Remove, Live, Placed, Held,
       IInv, OnePlace
  <2>3. CASE CancelStops(a)
    BY <2>1, <2>3, <1>0, <1>4 DEF CancelStops, Live, Placed
  <2>4. CASE CancelFindsNone(a)
    <3>1. n \notin heap /\ inProgress # NoId /\ n \in Held
      BY <2>1, <2>4 DEF CancelFindsNone, Live, Placed
    <3>2. n = handler.node /\ ids[a] = inProgress
      BY <2>1, <3>1 DEF IdInProgress, Held
    <3> QED  BY <2>4, <3>2 DEF CancelFindsNone
  <2> QED  BY <1>1, <2>2, <2>3, <2>4 DEF Cancel
<1>8. AlarmsDiffer'
  BY <1>2, <1>6 DEF AlarmsDiffer
<1>9. IdInProgress'
  <2>1. CASE inProgress' = NoId
    BY <1>0, <2>1 DEF IdInProgress
  <2>2. CASE inProgress' = inProgress
    BY <1>0, <1>2, <2>2 DEF IdInProgress, Id
  <2> QED  BY <1>5, <2>1, <2>2
<1>10. LiveStays'
  BY <1>2, <1>5, <1>6, <1>7 DEF LiveStays
<1>11. CallsDiffer' /\ IdleHasNone'
  BY <1>0, <1>2, <1>3 DEF CallsDiffer, IdleHasNone
<1>12. NotYetPlaced'
  <2>1. \A d \in Clients : call[d].pc # "idle" => call[d].alarm # a
    BY <1>2 DEF CallsDiffer
  <2> QED  BY <1>2, <1>5, <1>6, <2>1 DEF NotYetPlaced
<1>13. ReturnsItsId'
  BY <1>2, <1>4, <1>6, PlacedAreNodes DEF ReturnsItsId
<1>14. IdIsStored'
  <2> SUFFICES ASSUME NEW n \in Live'
               PROVE  \/ ids'[alarm[n]] = Id(n)
                      \/ /\ ids'[alarm[n]] = NoId
                         /\ \E d \in Clients : call[d].alarm = alarm[n]
    BY <1>0, <1>2, <1>4, <1>6, PlacedAreNodes DEF IdIsStored
  <2>1. n \in Live /\ alarm[n] \in Alarms
    BY <1>6, PlacedAreNodes DEF AlarmsDiffer
  <2>2. ids'[alarm[n]] = ids[alarm[n]]
    BY <1>3, <1>7, <2>1
  <2> QED  BY <2>1, <2>2 DEF IdIsStored
<1> QED
  BY <1>3, <1>8, <1>9, <1>10, <1>11, <1>12, <1>13, <1>14

(* A call in progress goes on, and the pool's entries stay.                *)
LEMMA CallGoesOn ==
    ASSUME IInv, Identity, NEW c \in Clients, call[c].pc # "idle",
           UNCHANGED <<heap, high, inProgress, handler, ids, cancelled>>,
           \A n \in Placed : alarm'[n] = alarm[n],
           \A d \in Clients : d # c => call'[d] = call[d],
           call'[c].alarm = call[c].alarm, call'[c].pc \in {"fire", "force", "return"},
           call'[c].pc = "fire" => \A n \in Placed : alarm[n] # call[c].alarm,
           call'[c].pc # "fire" =>
              \A n \in Live : alarm[n] = call[c].alarm => call'[c].id = Id(n)
    PROVE  Identity'
<1> USE DEF Identity
<1>1. NoId' = NoId /\ Held' = Held /\ \A n \in Nodes : Id(n)' = Id(n)
  BY DEF NoId, Held, Id
<1>2. Placed' = Placed /\ Live' = Live
  BY <1>1 DEF Placed, Live
<1>3. Live \subseteq Placed /\ Placed \subseteq Nodes
  BY PlacedAreNodes
<1>4. \A d \in Clients : /\ call'[d].alarm = call[d].alarm
                         /\ call[d].pc = "idle" <=> call'[d].pc = "idle"
  OBVIOUS
<1>5. AlarmsDiffer' /\ LiveStays'
  BY <1>2, <1>3 DEF AlarmsDiffer, LiveStays
<1>6. IdInProgress'
  BY <1>1 DEF IdInProgress, Id
<1>7. CallsDiffer' /\ IdleHasNone'
  BY <1>1, <1>4 DEF CallsDiffer, IdleHasNone
<1>8. NotYetPlaced'
  <2> SUFFICES ASSUME NEW d \in Clients, call'[d].pc \in {"add", "add_forced", "fire"}
               PROVE  /\ \A n \in Placed : alarm[n] # call'[d].alarm
                      /\ call'[d].pc # "fire" =>
                            call'[d].alarm \notin cancelled /\ ~call'[d].missed
    BY <1>2 DEF NotYetPlaced
  <2>1. CASE d = c  BY <2>1
  <2>2. CASE d # c  BY <2>2 DEF NotYetPlaced
  <2> QED  BY <2>1, <2>2
<1>9. ReturnsItsId'
  <2> SUFFICES ASSUME NEW d \in Clients, call'[d].pc \in {"force", "return"},
                      NEW n \in Live, alarm[n] = call'[d].alarm
               PROVE  call'[d].id = Id(n)
    BY <1>1, <1>2, <1>3 DEF ReturnsItsId
  <2>1. CASE d = c  BY <2>1
  <2>2. CASE d # c  BY <2>2 DEF ReturnsItsId
  <2> QED  BY <2>1, <2>2
<1>10. IdIsStored'
  BY <1>1, <1>2, <1>3, <1>4 DEF IdIsStored
<1> QED  BY <1>5, <1>6, <1>7, <1>8, <1>9, <1>10

(* A call puts its alarm into a free node.                                 *)
LEMMA CallEnters ==
    ASSUME IInv, Identity, NEW c \in Clients, call[c].pc \in {"add", "add_forced"},
           free # <<>>, heap' = heap \cup {Head(free)},
           alarm' = [alarm EXCEPT ![Head(free)] = call[c].alarm],
           UNCHANGED <<high, inProgress, handler, ids, cancelled>>,
           \A d \in Clients : d # c => call'[d] = call[d],
           call'[c].alarm = call[c].alarm, call'[c].pc \in {"force", "return"},
           call'[c].id = Id(Head(free))
    PROVE  Identity'
<1> USE DEF Identity
<1> DEFINE e == Head(free)
           a == call[c].alarm
<1>1. NoId' = NoId /\ Held' = Held /\ \A n \in Nodes : Id(n)' = Id(n)
  BY DEF NoId, Held, Id
<1>2. e \in Nodes \ Placed /\ Live \subseteq Placed /\ Placed \subseteq Nodes
  BY PlacedAreNodes
<1>3. Placed' = Placed \cup {e} /\ Live' = Live \cup {e}
  BY <1>1 DEF Placed, Live
<1>4. alarm'[e] = a /\ \A n \in Placed : alarm'[n] = alarm[n]
  <2>1. alarm \in [Nodes -> Alarms \cup {None}]
    BY DEF IInv, Types, TypeOK
  <2> QED  BY <1>2, <2>1
<1>5. /\ a \in Alarms /\ ids[a] = NoId /\ a \notin cancelled
      /\ \A n \in Placed : alarm[n] # a
      /\ \A d \in Clients : d # c => call[d].alarm # a
  BY DEF CallsDiffer, NotYetPlaced
<1>6. \A d \in Clients : /\ call'[d].alarm = call[d].alarm
                         /\ call[d].pc = "idle" <=> call'[d].pc = "idle"
  OBVIOUS
<1> HIDE DEF e, a
<1>7. AlarmsDiffer' /\ LiveStays'
  BY <1>2, <1>3, <1>4, <1>5 DEF AlarmsDiffer, LiveStays
<1>8. IdInProgress'
  BY <1>1 DEF IdInProgress, Id
<1>9. CallsDiffer' /\ IdleHasNone'
  BY <1>1, <1>6 DEF CallsDiffer, IdleHasNone
<1>10. NotYetPlaced'
  <2> SUFFICES ASSUME NEW d \in Clients, call'[d].pc \in {"add", "add_forced", "fire"}
               PROVE  /\ \A n \in Placed' : alarm'[n] # call'[d].alarm
                      /\ call'[d].pc # "fire" =>
                            call'[d].alarm \notin cancelled /\ ~call'[d].missed
    BY DEF NotYetPlaced
  <2>1. d # c /\ call'[d] = call[d]
    OBVIOUS
  <2> QED  BY <2>1, <1>3, <1>4, <1>5 DEF NotYetPlaced
<1>11. ReturnsItsId'
  <2> SUFFICES ASSUME NEW d \in Clients, call'[d].pc \in {"force", "return"},
                      NEW n \in Live', alarm'[n] = call'[d].alarm
               PROVE  call'[d].id = Id(n)
    BY <1>1, <1>2, <1>3 DEF ReturnsItsId
  <2>1. CASE n = e
    BY <2>1, <1>4, <1>5, <1>6 DEF e
  <2>2. CASE n # e
    <3>1. n \in Live /\ alarm'[n] = alarm[n] /\ alarm[n] # a
      BY <2>2, <1>2, <1>3, <1>4, <1>5
    <3>2. d # c
      BY <3>1 DEF a
    <3> QED  BY <3>1, <3>2 DEF ReturnsItsId
  <2> QED  BY <2>1, <2>2
<1>12. IdIsStored'
  <2> SUFFICES ASSUME NEW n \in Live'
               PROVE  \/ ids[alarm'[n]] = Id(n)
                      \/ /\ ids[alarm'[n]] = NoId
                         /\ \E d \in Clients : call[d].alarm = alarm'[n]
    BY <1>1, <1>2, <1>3, <1>6 DEF IdIsStored
  <2>1. CASE n = e
    BY <2>1, <1>4, <1>5 DEF a
  <2>2. CASE n # e
    BY <2>2, <1>2, <1>3, <1>4 DEF IdIsStored
  <2> QED  BY <2>1, <2>2
<1> QED  BY <1>7, <1>8, <1>9, <1>10, <1>11, <1>12

LEMMA IdentityOfBegin ==
    ASSUME IInv, Identity, NEW c \in Clients, BeginAdd(c)
    PROVE  Identity'
<1> USE DEF Identity
<1>1. PICK a \in Alarms, t \in Times, add \in Adds :
          /\ a \notin Added /\ ids[a] = NoId /\ a \notin cancelled
          /\ call' = [call EXCEPT ![c] = [Idle EXCEPT !.pc = add[1], !.fire = add[2],
                                                     !.alarm = a, !.time = t]]
  BY DEF BeginAdd
<1>2. UNCHANGED <<heap, alarm, high, inProgress, handler, ids, cancelled>>
  BY DEF BeginAdd, store
<1>3. add[1] \in {"add", "add_forced"}
  BY AlarmPoolAssumption
<1>4. /\ \A d \in Clients : d # c => call'[d] = call[d]
      /\ call'[c].pc = add[1] /\ call'[c].alarm = a /\ call'[c].missed = FALSE
  BY <1>1 DEF IInv, Types, Idle
<1>5. /\ \A n \in Placed : alarm[n] # a
      /\ \A d \in Clients : call[d].alarm # a
  BY <1>1, PlacedAreNodes DEF Added
<1>6. /\ NoId' = NoId /\ \A n \in Nodes : Id(n)' = Id(n)
      /\ Placed' = Placed /\ Live' = Live
  BY <1>2 DEF NoId, Id, Placed, Live, Held
<1>7. Live \subseteq Placed /\ Placed \subseteq Nodes
  BY PlacedAreNodes
<1>8. AlarmsDiffer' /\ LiveStays'
  BY <1>2, <1>6 DEF AlarmsDiffer, LiveStays
<1>9. IdInProgress'
  BY <1>2, <1>6 DEF IdInProgress, Id
<1>10. CallsDiffer'
  <2> SUFFICES ASSUME NEW d \in Clients, call'[d].pc # "idle"
               PROVE  /\ call'[d].alarm \in Alarms /\ ids[call'[d].alarm] = NoId
                      /\ \A e \in Clients : call'[e].alarm = call'[d].alarm => d = e
    BY <1>2, <1>6 DEF CallsDiffer
  <2>1. CASE d = c
    BY <2>1, <1>1, <1>4, <1>5
  <2>2. CASE d # c
    BY <2>2, <1>4, <1>5 DEF CallsDiffer
  <2> QED  BY <2>1, <2>2
<1>11. NotYetPlaced'
  <2> SUFFICES ASSUME NEW d \in Clients, call'[d].pc \in {"add", "add_forced", "fire"}
               PROVE  /\ \A n \in Placed : alarm[n] # call'[d].alarm
                      /\ call'[d].pc # "fire" =>
                            call'[d].alarm \notin cancelled /\ ~call'[d].missed
    BY <1>2, <1>6 DEF NotYetPlaced
  <2>1. CASE d = c
    BY <2>1, <1>1, <1>4, <1>5
  <2>2. CASE d # c
    BY <2>2, <1>4 DEF NotYetPlaced
  <2> QED  BY <2>1, <2>2
<1>12. ReturnsItsId'
  <2> SUFFICES ASSUME NEW d \in Clients, call'[d].pc \in {"force", "return"},
                      NEW n \in Live, alarm[n] = call'[d].alarm
               PROVE  call'[d].id = Id(n)
    BY <1>2, <1>6, <1>7 DEF ReturnsItsId
  <2>1. d # c
    BY <1>3, <1>4
  <2> QED  BY <2>1, <1>4 DEF ReturnsItsId
<1>13. IdIsStored'
  <2> SUFFICES ASSUME NEW n \in Live
               PROVE  \/ ids[alarm[n]] = Id(n)
                      \/ /\ ids[alarm[n]] = NoId
                         /\ \E d \in Clients : call'[d].alarm = alarm[n]
    BY <1>2, <1>6, <1>7 DEF IdIsStored
  <2>1. alarm[n] \in Alarms
    BY <1>7 DEF AlarmsDiffer
  (* The call that c begins replaces none.                                 *)
  <2>2. call[c].alarm # alarm[n]
    <3>1. call[c].pc = "idle"
      BY DEF BeginAdd
    <3> QED  BY <3>1, <2>1, AlarmPoolAssumption DEF IdleHasNone
  <2> QED  BY <2>2, <1>4 DEF IdIsStored
<1>14. IdleHasNone'
  BY <1>3, <1>4 DEF IdleHasNone
<1> QED
  BY <1>2, <1>8, <1>9, <1>10, <1>11, <1>12, <1>13, <1>14

LEMMA IdentityOfReturn ==
    ASSUME IInv, Identity, NEW c \in Clients, AddReturns(c)
    PROVE  Identity'
<1> USE DEF Identity
<1> DEFINE a == call[c].alarm
<1>1. /\ call[c].pc = "return" /\ ids' = [ids EXCEPT ![a] = call[c].id]
      /\ call' = [call EXCEPT ![c] = Idle]
      /\ UNCHANGED <<heap, alarm, high, inProgress, handler, cancelled>>
  BY DEF AddReturns, store
<1>2. /\ a \in Alarms /\ ids[a] = NoId
      /\ \A d \in Clients : d # c => call[d].alarm # a
  BY <1>1 DEF CallsDiffer
<1>3. /\ \A d \in Clients : d # c => call'[d] = call[d]
      /\ call'[c].pc = "idle" /\ call'[c].alarm = None
  BY <1>1 DEF IInv, Types, Idle
<1>4. /\ ids' \in [Alarms -> Nat \X Nat] /\ ids'[a] = call[c].id
      /\ \A b \in Alarms : b # a => ids'[b] = ids[b]
  <2>1. call[c].id \in Nat \X Nat
    BY DEF IInv, Types, CallOfType
  <2> QED  BY <1>1, <1>2, <2>1
<1>5. /\ NoId' = NoId /\ \A n \in Nodes : Id(n)' = Id(n)
      /\ Placed' = Placed /\ Live' = Live
  BY <1>1 DEF NoId, Id, Placed, Live, Held
<1>6. Live \subseteq Placed /\ Placed \subseteq Nodes
  BY PlacedAreNodes
<1>7. AlarmsDiffer' /\ LiveStays'
  BY <1>1, <1>5 DEF AlarmsDiffer, LiveStays
<1>8. IdInProgress'
  BY <1>1, <1>5 DEF IdInProgress, Id
<1>9. CallsDiffer'
  <2> SUFFICES ASSUME NEW d \in Clients, call'[d].pc # "idle"
               PROVE  /\ call'[d].alarm \in Alarms /\ ids'[call'[d].alarm] = NoId
                      /\ \A e \in Clients : call'[e].alarm = call'[d].alarm => d = e
    BY <1>5 DEF CallsDiffer
  <2>1. d # c /\ call'[d] = call[d] /\ call[d].alarm \in Alarms /\ call[d].alarm # a
    BY <1>2, <1>3 DEF CallsDiffer
  <2>2. ids'[call[d].alarm] = NoId
    BY <1>4, <2>1 DEF CallsDiffer
  <2>3. ASSUME NEW e \in Clients, call'[e].alarm = call[d].alarm
        PROVE  d = e
    <3>1. e # c
      BY <1>3, <2>1, <2>3, AlarmPoolAssumption
    <3> QED  BY <1>3, <2>1, <2>3, <3>1 DEF CallsDiffer
  <2> QED  BY <2>1, <2>2, <2>3
<1>10. NotYetPlaced'
  <2> SUFFICES ASSUME NEW d \in Clients, call'[d].pc \in {"add", "add_forced", "fire"}
               PROVE  /\ \A n \in Placed : alarm[n] # call'[d].alarm
                      /\ call'[d].pc # "fire" =>
                            call'[d].alarm \notin cancelled /\ ~call'[d].missed
    BY <1>1, <1>5 DEF NotYetPlaced
  <2> QED  BY <1>3 DEF NotYetPlaced
<1>11. ReturnsItsId'
  BY <1>1, <1>3, <1>5, <1>6 DEF ReturnsItsId
<1>12. IdIsStored'
  <2> SUFFICES ASSUME NEW n \in Live
               PROVE  \/ ids'[alarm[n]] = Id(n)
                      \/ /\ ids'[alarm[n]] = NoId
                         /\ \E d \in Clients : call'[d].alarm = alarm[n]
    BY <1>1, <1>5, <1>6 DEF IdIsStored
  <2>1. alarm[n] \in Alarms
    BY <1>6 DEF AlarmsDiffer
  <2>2. CASE alarm[n] = a
    BY <2>2, <1>1, <1>4 DEF ReturnsItsId
  <2>3. CASE alarm[n] # a
    BY <2>1, <2>3, <1>3, <1>4 DEF IdIsStored
  <2> QED  BY <2>2, <2>3
<1>13. IdleHasNone'
  BY <1>3 DEF IdleHasNone
<1> QED
  BY <1>4, <1>7, <1>8, <1>9, <1>10, <1>11, <1>12, <1>13

LEMMA IdentityOfAdd ==
    ASSUME IInv, Identity, NEW c \in Clients, AddLocked(c) \/ AddForcedLocked(c)
    PROVE  Identity'
<1> USE DEF Identity
<1> DEFINE n == Head(free)
           a == call[c].alarm
<1>1. free # <<>> /\ call[c].pc \in {"add", "add_forced"} /\ ~call[c].missed
  BY DEF AddLocked, AddForcedLocked, NotYetPlaced
<1>2. call \in [Clients -> CallOfType] /\ call[c] \in CallOfType
  BY DEF IInv, Types
<1>3. /\ alarm' = [alarm EXCEPT ![n] = a]
      /\ UNCHANGED <<high, inProgress, handler, ids, cancelled>>
  BY DEF AddLocked, AddForcedLocked, Fill
<1>4. \/ /\ heap' = heap \cup {n}
         /\ AddResult(c, n, FALSE)
            \/ \E p \in {"force", "return"} :
                  call' = [call EXCEPT ![c].id = Id(n), ![c].pc = p]
      \/ heap' = heap /\ AddResult(c, n, TRUE)
  BY <1>1, <1>2 DEF AddLocked, AddForcedLocked, EntersBehind, EntersFirst,
     EntersMissed, NotEntered, CallOfType
<1>5. CASE /\ heap' = heap \cup {n}
           /\ AddResult(c, n, FALSE)
              \/ \E p \in {"force", "return"} :
                    call' = [call EXCEPT ![c].id = Id(n), ![c].pc = p]
  <2>1. /\ \A d \in Clients : d # c => call'[d] = call[d]
        /\ call'[c].alarm = call[c].alarm /\ call'[c].pc \in {"force", "return"}
        /\ call'[c].id = Id(n)
    BY <1>2, <1>5 DEF AddResult, CallOfType
  <2> QED  BY <1>1, <1>3, <1>5, <2>1, CallEnters
<1>6. CASE heap' = heap /\ AddResult(c, n, TRUE)
  <2>1. /\ \A d \in Clients : d # c => call'[d] = call[d]
        /\ call'[c].alarm = call[c].alarm /\ call'[c].pc \in {"fire", "return"}
    BY <1>2, <1>6 DEF AddResult, CallOfType
  <2>2. n \notin Placed /\ Live \subseteq Placed /\ Placed \subseteq Nodes
    BY <1>1, PlacedAreNodes
  <2>3. \A m \in Placed : alarm'[m] = alarm[m] /\ alarm[m] # a
    <3>1. alarm \in [Nodes -> Alarms \cup {None}]
      BY DEF IInv, Types, TypeOK
    <3> QED  BY <1>1, <1>3, <2>2, <3>1 DEF NotYetPlaced
  <2> QED  BY <1>1, <1>3, <1>6, <2>1, <2>2, <2>3, CallGoesOn
<1> QED  BY <1>4, <1>5, <1>6

LEMMA IdentityOfCalls ==
    ASSUME RepeatsInCall \subseteq {0}, IInv, Identity, NEW c \in Clients,
           AddNoSpace(c) \/ AddForces(c) \/ AddFires(c)
    PROVE  Identity'
<1> USE DEF Identity
<1>1. call \in [Clients -> CallOfType] /\ call[c] \in CallOfType
  BY DEF IInv, Types
<1>2. UNCHANGED <<heap, alarm, high, inProgress, handler, ids, cancelled>>
  BY DEF AddNoSpace, AddForces, AddFires, store
<1>3. /\ \A d \in Clients : d # c => call'[d] = call[d]
      /\ call'[c].alarm = call[c].alarm /\ call'[c].id = call[c].id
      /\ call'[c].pc = "return"
      /\ call[c].pc \in {"add", "add_forced", "fire", "force"}
  <2>1. CASE AddNoSpace(c)
    BY <1>1, <2>1 DEF AddNoSpace, CallOfType
  <2>2. CASE AddForces(c)
    BY <1>1, <2>2 DEF AddForces, CallOfType
  <2>3. CASE AddFires(c)
    <3>1. PICK t : call' = [call EXCEPT ![c].pc = "return", ![c].time = t]
      BY <2>3 DEF AddFires
    <3> QED  BY <1>1, <2>3, <3>1 DEF AddFires, CallOfType
  <2> QED  BY <2>1, <2>2, <2>3
<1>4. \A n \in Live : alarm[n] = call[c].alarm => call[c].id = Id(n)
  <2>1. Live \subseteq Placed
    BY PlacedAreNodes
  <2>2. CASE call[c].pc = "force"
    BY <2>2 DEF ReturnsItsId
  <2>3. CASE call[c].pc # "force"
    BY <1>3, <2>1, <2>3 DEF NotYetPlaced
  <2> QED  BY <2>2, <2>3
<1> QED  BY <1>2, <1>3, <1>4, CallGoesOn

LEMMA IdentityStarts == Init => Identity
<1> SUFFICES ASSUME Init PROVE Identity
  OBVIOUS
<1>1. heap = {} /\ handler.pc = "off" /\ inProgress = NoId
  BY DEF Init, Off
<1>2. Placed = {} /\ Live = {}
  BY <1>1 DEF Placed, Live, Held
<1>3. \A c \in Clients : call[c].pc = "idle" /\ call[c].alarm = None
  BY DEF Init, Idle
<1>4. ids \in [Alarms -> Nat \X Nat]
  BY DEF Init, NoId
<1> QED
  BY <1>1, <1>2, <1>3, <1>4 DEF Identity, AlarmsDiffer, IdInProgress, LiveStays,
     CallsDiffer, IdleHasNone, NotYetPlaced, ReturnsItsId, IdIsStored

LEMMA IdentityKept ==
    ASSUME RepeatsInCall \subseteq {0}, IInv, Identity, [Next]_vars
    PROVE  Identity'
<1>1. CASE Next
  BY <1>1, IdentityOfHandler, IdentityOfCancels, IdentityOfBegin, IdentityOfAdd,
     IdentityOfCalls, IdentityOfReturn DEF Next
<1>2. CASE UNCHANGED vars
  <2>1. /\ UNCHANGED <<alarm, high, ids, call, cancelled, inProgress, handler>>
        /\ Placed' = Placed /\ Live' = Live
    BY <1>2 DEF vars, store, Placed, Live, Held, NoId
  <2>2. IdInProgress'
    BY <2>1 DEF Identity, IdInProgress, Id, NoId
  <2> QED  BY <2>1, <2>2, SameEntries
<1> QED  BY <1>1, <1>2

(* An alarm that was cancelled, whether waiting or in its callback, does   *)
(* not come back, unless an immediate callback repeats (time.c 156-174,    *)
(* 293-315).                                                               *)
THEOREM CancelledIsOut ==
    ASSUME RepeatsInCall \subseteq {0}
    PROVE  Spec => []CancelledStaysOut
<1>1. Init => Identity  BY IdentityStarts
<1>2. IInv /\ Identity /\ [Next]_vars => Identity'
  BY IdentityKept
<1>3. Identity => CancelledStaysOut
  BY DEF Identity, LiveStays, Live, Placed, CancelledStaysOut
<1> QED  BY <1>1, <1>2, <1>3, InvariantHolds, PTL DEF Spec

(* Once its id is stored, a repeating timer's callback sees its own, with  *)
(* nodes and tags used again and cancels from both cores (time.c 74-76,    *)
(* 141-143, 167-171, 336).                                                 *)
THEOREM StoredIdMatches ==
    ASSUME RepeatsInCall \subseteq {0}
    PROVE  Spec => []RepeatingIdMatchesOnceStored
<1>1. Init => Identity  BY IdentityStarts
<1>2. IInv /\ Identity /\ [Next]_vars => Identity'
  BY IdentityKept
<1>3. Identity => RepeatingIdMatchesOnceStored
  <2> SUFFICES ASSUME Identity, handler.pc = "callback", inProgress # NoId
               PROVE  \/ ids[alarm[handler.node]] = handler.id
                      \/ \E c \in Clients : call[c].alarm = alarm[handler.node]
    BY DEF RepeatingIdMatchesOnceStored
  <2>1. handler.node \in Live
    BY DEF Live, Placed, Held
  <2>2. handler.id = Id(handler.node)
    BY DEF Identity, IdInProgress
  <2> QED  BY <2>1, <2>2 DEF Identity, IdIsStored
<1> QED  BY <1>1, <1>2, <1>3, InvariantHolds, PTL DEF Spec

----------------------------------------------------------------------------
(* The pairing heap: what the links of a forest are.                       *)

(* The links of a forest with nodes T and roots R: they go down in rank,   *)
(* no two lead to one node, and all nodes but the roots are led to.        *)
Forest(T, R, child, sibling, parent, rank) ==
    /\ R \subseteq T /\ T \subseteq HeapNodes
    /\ \A x \in T : child[x] # 0 =>
          child[x] \in T \ R /\ rank[x] < rank[child[x]] /\ parent[child[x]] = x
    /\ \A x \in T : sibling[x] # 0 =>
          /\ sibling[x] \in T \ R /\ rank[x] < rank[sibling[x]]
          /\ parent[sibling[x]] = parent[x]
    /\ \A x \in T \ R : \E y \in T : child[y] = x \/ sibling[y] = x
    /\ \A x, y \in T : sibling[x] = sibling[y] => x = y \/ sibling[x] = 0
    /\ \A x, y \in T : child[x] = sibling[y] => child[x] = 0

(* Parents are in the forest, or the node that is being removed; those in  *)
(* the forest are before their children, and not greater.                  *)
ParentsFirst(T, R, n, parent, key, rank) ==
    \A x \in T \ R :
        /\ parent[x] \in T \cup ({n} \ {0})
        /\ parent[x] \in T => key[parent[x]] <= key[x] /\ rank[parent[x]] < rank[x]

(* The free list from its head to its tail.                                *)
FreeListIs(h, s) ==
    /\ s \in Seq(HeapNodes) /\ Once(s)
    /\ h.freeHead = IF s = <<>> THEN 0 ELSE s[1]
    /\ h.freeTail = IF s = <<>> THEN 0 ELSE s[Len(s)]
    /\ \A i \in 1 .. Len(s) : h.sibling[s[i]] = IF i < Len(s) THEN s[i + 1] ELSE 0

(* Some node of a set is of least rank.                                    *)
LEMMA LeastRank ==
    ASSUME NEW S \in SUBSET HeapNodes, S # {}, NEW rank \in [HeapNodes -> Nat]
    PROVE  \E x \in S : \A y \in S : ~(rank[y] < rank[x])
<1> DEFINE Ranks == {rank[x] : x \in S}
<1>1. Ranks \subseteq Nat /\ Ranks # {}
  OBVIOUS
<1> HIDE DEF Ranks
<1>2. PICK n \in Ranks : \A m \in Ranks : <<m, n>> \notin OpToRel(<, Nat)
  BY <1>1, WFMin, NatLessThanWellFounded, Zenon
<1>3. \A m \in Ranks : ~(m < n)
  BY <1>1, <1>2, Zenon DEF OpToRel
<1>4. PICK x \in S : n = rank[x]
  BY <1>2 DEF Ranks
<1>5. \A y \in S : rank[y] \in Ranks
  BY DEF Ranks
<1> QED  BY <1>3, <1>4, <1>5

(* A set of a forest's nodes that has its roots, and where every link from *)
(* the set leads, has them all: of those missing, one of least rank would  *)
(* be led to from the set.                                                 *)
LEMMA ForestReached ==
    ASSUME NEW T, NEW R, NEW child, NEW sibling, NEW parent,
           NEW rank \in [HeapNodes -> Nat],
           Forest(T, R, child, sibling, parent, rank), 0 \notin T,
           NEW S, R \subseteq S,
           \A x \in S \cap T : {child[x], sibling[x]} \subseteq S \cup {0}
    PROVE  T \subseteq S
<1>1. SUFFICES ASSUME T \ S # {} PROVE FALSE
  OBVIOUS
<1>2. T \ S \in SUBSET HeapNodes
  BY DEF Forest
<1>3. PICK x \in T \ S : \A y \in T \ S : ~(rank[y] < rank[x])
  BY <1>1, <1>2, LeastRank
<1>4. x \in T \ R
  OBVIOUS
<1>5. PICK y \in T : child[y] = x \/ sibling[y] = x
  BY <1>4 DEF Forest
<1>6. x # 0
  OBVIOUS
<1>7. rank[y] < rank[x]
  BY <1>5, <1>6 DEF Forest
<1>8. y \in S
  BY <1>3, <1>7
<1> QED  BY <1>5, <1>6, <1>8

(* The nodes of a forest are those its links lead to from its roots.       *)
LEMMA ReachedIsForest ==
    ASSUME NEW T, NEW R, NEW h, NEW parent, NEW rank \in [HeapNodes -> Nat],
           Forest(T, R, h.child, h.sibling, parent, rank)
    PROVE  Reached(h, R) = T
<1> DEFINE Linked(S) == \A m \in S : {h.child[m], h.sibling[m]} \subseteq S \cup {0}
<1>1. Reached(h, R) = R \cup {n \in HeapNodes \ R : \A S \in SUBSET (HeapNodes \ (R \cup {n})) :
                                                       ~Linked(R \cup S)}
  BY Zenon DEF Reached
<1>2. R \subseteq T /\ T \subseteq HeapNodes /\ 0 \notin T
  BY DEF Forest, HeapNodes
<1>3. Linked(T)
  BY DEF Forest
<1>4. ASSUME NEW n \in HeapNodes \ R, n \notin T
      PROVE  \E S \in SUBSET (HeapNodes \ (R \cup {n})) : Linked(R \cup S)
  <2>1. T \ R \in SUBSET (HeapNodes \ (R \cup {n})) /\ R \cup (T \ R) = T
    BY <1>2, <1>4
  <2> HIDE DEF Linked
  <2> QED  BY <1>3, <2>1
<1>5. ASSUME NEW S, Linked(R \cup S) PROVE T \subseteq R \cup S
  <2>1. R \subseteq R \cup S
    OBVIOUS
  <2>2. \A x \in (R \cup S) \cap T : {h.child[x], h.sibling[x]} \subseteq (R \cup S) \cup {0}
    BY <1>5
  <2>3. PICK V : V = R \cup S
    OBVIOUS
  <2>4. /\ R \subseteq V
        /\ \A x \in V \cap T : {h.child[x], h.sibling[x]} \subseteq V \cup {0}
    BY <2>1, <2>2, <2>3, Zenon
  <2>5. T \subseteq V
    BY <1>2, <2>4, ForestReached
  <2> QED  BY <2>3, <2>5, Zenon
<1> HIDE DEF Linked
<1>6. ASSUME NEW n \in T \ R, NEW S \in SUBSET (HeapNodes \ (R \cup {n})), Linked(R \cup S)
      PROVE  FALSE
  BY <1>5, <1>6
<1>7. \A n \in HeapNodes \ R :
        n \in T <=> \A S \in SUBSET (HeapNodes \ (R \cup {n})) : ~Linked(R \cup S)
  BY <1>4, <1>6, Zenon
<1> QED  BY ONLY <1>1, <1>2, <1>7

(* The root of the only tree is a least node of it.                        *)
LEMMA RootIsLeast ==
    ASSUME NEW T, NEW r \in T, NEW child, NEW sibling, NEW parent,
           NEW key \in [HeapNodes -> Int], NEW rank \in [HeapNodes -> Nat],
           Forest(T, {r}, child, sibling, parent, rank),
           ParentsFirst(T, {r}, 0, parent, key, rank)
    PROVE  \A x \in T : key[r] <= key[x]
<1> DEFINE Less == {x \in T : key[x] < key[r]}
<1>1. T \subseteq HeapNodes
  BY DEF Forest
<1>2. SUFFICES ASSUME Less # {} PROVE FALSE
  BY <1>1
<1>3. PICK x \in Less : \A y \in Less : ~(rank[y] < rank[x])
  BY <1>1, <1>2, LeastRank
<1>4. x \in T \ {r}
  BY <1>1
<1>5. /\ parent[x] \in T /\ key[parent[x]] <= key[x]
      /\ rank[parent[x]] < rank[x]
  BY <1>4 DEF ParentsFirst
<1>6. key[parent[x]] < key[r]
  BY <1>1, <1>5
<1> QED  BY <1>3, <1>5, <1>6

(* Without a root there is no node.                                        *)
LEMMA NoRootNoNode ==
    ASSUME NEW T, NEW child, NEW sibling, NEW parent,
           NEW rank \in [HeapNodes -> Nat],
           Forest(T, {}, child, sibling, parent, rank)
    PROVE  T = {}
<1>1. 0 \notin T
  BY DEF Forest, HeapNodes
<1> QED  BY <1>1, ForestReached

(* Every node but the root is among the children of its parent.            *)
LEMMA InChildList ==
    ASSUME NEW T, NEW r, NEW child, NEW sibling, NEW parent, NEW key,
           NEW rank \in [HeapNodes -> Nat],
           Forest(T, {r}, child, sibling, parent, rank),
           ParentsFirst(T, {r}, 0, parent, key, rank), sibling[r] = 0,
           NEW n \in T \ {r}
    PROVE  /\ n \in Reach(HeapNodes, sibling, child[parent[n]])
           /\ parent[n] \in T
<1> DEFINE InList(x) == x \in Reach(HeapNodes, sibling, child[parent[x]])
           Lost == {x \in T \ {r} : ~InList(x)}
<1>1. T \subseteq HeapNodes /\ 0 \notin HeapNodes
  BY DEF Forest, HeapNodes
<1>2. parent[n] \in T
  BY DEF ParentsFirst
<1>3. SUFFICES ASSUME Lost # {} PROVE FALSE
  BY <1>2
<1>4. PICK x \in Lost : \A y \in Lost : ~(rank[y] < rank[x])
  BY <1>1, <1>3, LeastRank
<1>5. x \in T \ {r} /\ ~InList(x)
  BY <1>4
<1>6. PICK y \in T : child[y] = x \/ sibling[y] = x
  BY <1>5 DEF Forest
<1>7. CASE child[y] = x
  <2>1. parent[x] = y
    BY <1>1, <1>5, <1>7 DEF Forest
  <2>2. x \in Reach(HeapNodes, sibling, x)
    BY <1>1, <1>5 DEF Reach
  <2> QED  BY <1>5, <1>7, <2>1, <2>2
<1>8. CASE sibling[y] = x
  <2>1. rank[y] < rank[x] /\ parent[y] = parent[x] /\ y # r
    BY <1>1, <1>5, <1>8 DEF Forest
  <2>2. InList(y)
    BY <1>4, <2>1
  <2>3. sibling[y] \in Reach(HeapNodes, sibling, child[parent[x]])
    BY <1>1, <1>5, <1>8, <2>1, <2>2, Zenon DEF Reach
  <2> QED  BY <1>5, <1>8, <2>3
<1> QED  BY <1>6, <1>7, <1>8


(* A removal that has merged all children leaves no node whose parent it   *)
(* is: of such nodes one of least rank would be led to from a root.        *)
LEMMA NobodyLeft ==
    ASSUME NEW T, NEW R, NEW n, n \notin T, NEW child, NEW sibling, NEW parent,
           NEW key, NEW rank \in [HeapNodes -> Nat],
           Forest(T, R, child, sibling, parent, rank),
           ParentsFirst(T, R, n, parent, key, rank), \A r \in R : sibling[r] = 0
    PROVE  ParentsFirst(T, R, 0, parent, key, rank)
<1> DEFINE Left == {x \in T \ R : parent[x] \notin T}
<1>1. T \subseteq HeapNodes /\ 0 \notin HeapNodes
  BY DEF Forest, HeapNodes
<1>2. Left = {}
  <2> SUFFICES ASSUME Left # {} PROVE FALSE
    OBVIOUS
  <2>1. PICK x \in Left : \A y \in Left : ~(rank[y] < rank[x])
    BY <1>1, LeastRank
  <2>2. x \in T \ R /\ parent[x] \notin T
    BY <2>1
  <2>3. PICK y \in T : child[y] = x \/ sibling[y] = x
    BY <2>2 DEF Forest
  <2>4. x # 0
    BY <1>1, <2>2
  <2>5. child[y] # x
    BY <2>2, <2>4 DEF Forest
  <2>6. rank[y] < rank[x] /\ parent[y] = parent[x] /\ sibling[y] # 0
    BY <2>3, <2>4, <2>5 DEF Forest
  <2>7. y \in Left
    BY <2>2, <2>6
  <2> QED  BY <2>1, <2>6, <2>7
<1> QED  BY <1>2 DEF ParentsFirst

(* A sibling that is cut off is the root of a tree of its own.             *)
LEMMA CutSibling ==
    ASSUME NEW T, NEW R, NEW child, NEW sibling \in [HeapNodes -> 0 .. HeapSize],
           NEW parent, NEW rank, Forest(T, R, child, sibling, parent, rank),
           NEW a \in T, sibling[a] # 0
    PROVE  Forest(T, R \cup {sibling[a]}, child, [sibling EXCEPT ![a] = 0], parent, rank)
<1> DEFINE b == sibling[a]
           after == [sibling EXCEPT ![a] = 0]
           Roots == R \cup {b}
<1>1. T \subseteq HeapNodes /\ 0 \notin HeapNodes /\ R \subseteq T /\ b \in T \ R
  BY DEF Forest, HeapNodes
<1>2. after[a] = 0 /\ \A x \in T : x # a => after[x] = sibling[x]
  BY <1>1
<1>3. \A x \in T : x # a => sibling[x] # b
  BY <1>1 DEF Forest
<1>4. \A x \in T : child[x] # b
  BY <1>1 DEF Forest
<1> HIDE DEF after
<1>5. \A x \in T : child[x] # 0 =>
        child[x] \in T \ Roots /\ rank[x] < rank[child[x]] /\ parent[child[x]] = x
  BY <1>4 DEF Forest
<1>6. \A x \in T : after[x] # 0 =>
        /\ after[x] \in T \ Roots /\ rank[x] < rank[after[x]]
        /\ parent[after[x]] = parent[x]
  <2> SUFFICES ASSUME NEW x \in T, after[x] # 0
               PROVE  /\ after[x] \in T \ Roots /\ rank[x] < rank[after[x]]
                      /\ parent[after[x]] = parent[x]
    OBVIOUS
  <2>1. x # a /\ after[x] = sibling[x]
    BY <1>2
  <2> QED  BY <1>3, <2>1 DEF Forest
<1>7. \A x \in T \ Roots : \E y \in T : child[y] = x \/ after[y] = x
  <2> SUFFICES ASSUME NEW x \in T \ Roots
               PROVE  \E y \in T : child[y] = x \/ after[y] = x
    OBVIOUS
  <2>1. PICK y \in T : child[y] = x \/ sibling[y] = x
    BY DEF Forest
  <2> QED  BY <1>2, <2>1
<1>8. \A x, y \in T : after[x] = after[y] => x = y \/ after[x] = 0
  BY <1>2 DEF Forest
<1>9. \A x, y \in T : child[x] = after[y] => child[x] = 0
  BY <1>2 DEF Forest
<1>10. Forest(T, Roots, child, after, parent, rank)
  BY <1>1, <1>5, <1>6, <1>7, <1>8, <1>9 DEF Forest
<1> QED  BY <1>10 DEF after

(* More roots, fewer nodes with a parent to speak of.                      *)
LEMMA MoreRoots ==
    ASSUME NEW T, NEW R, NEW S, R \subseteq S, NEW n, NEW parent, NEW key, NEW rank,
           ParentsFirst(T, R, n, parent, key, rank)
    PROVE  ParentsFirst(T, S, n, parent, key, rank)
BY DEF ParentsFirst

(* What ph_add_child_node does to the links of a forest's nodes.           *)
Joined(T, p, c, child, sibling, parent, child2, sibling2, parent2) ==
    /\ child2 \in [HeapNodes -> 0 .. HeapSize]
    /\ sibling2 \in [HeapNodes -> 0 .. HeapSize]
    /\ parent2 \in [HeapNodes -> 0 .. HeapSize]
    /\ \A x \in T : child2[x] = IF x = p THEN c ELSE child[x]
    /\ \A x \in T : sibling2[x] = IF x = c THEN child[p] ELSE sibling[x]
    /\ \A x \in T : parent2[x] = IF x = c THEN p ELSE parent[x]

(* ph_add_child_node makes one tree of two, whose nodes are ranked anew.   *)
LEMMA JoinTrees ==
    ASSUME NEW T, NEW R, NEW n,
           NEW child \in [HeapNodes -> 0 .. HeapSize],
           NEW sibling \in [HeapNodes -> 0 .. HeapSize],
           NEW parent \in [HeapNodes -> 0 .. HeapSize],
           NEW key, NEW rank \in [HeapNodes -> Nat],
           Forest(T, R, child, sibling, parent, rank),
           ParentsFirst(T, R, n, parent, key, rank),
           NEW p \in R, NEW c \in R, p # c, sibling[p] = 0, sibling[c] = 0,
           key[p] <= key[c],
           NEW child2, NEW sibling2, NEW parent2,
           Joined(T, p, c, child, sibling, parent, child2, sibling2, parent2)
    PROVE  \E rank2 \in [HeapNodes -> Nat] :
              /\ Forest(T, R \ {c}, child2, sibling2, parent2, rank2)
              /\ ParentsFirst(T, R \ {c}, n, parent2, key, rank2)
<1> USE DEF Joined
<1> DEFINE f == [x \in HeapNodes |-> IF x = p THEN 0 ELSE IF x = c THEN 1 ELSE rank[x] + 2]
<1>1. /\ T \subseteq HeapNodes /\ 0 \notin HeapNodes /\ R \subseteq T
      /\ p \in T /\ c \in T /\ p # 0 /\ c # 0
  BY DEF Forest, HeapNodes
<1>2. PICK rank2 \in [HeapNodes -> Nat] :
        rank2[p] = 0 /\ rank2[c] = 1 /\ \A x \in T \ {p, c} : rank2[x] = rank[x] + 2
  <2>1. f \in [HeapNodes -> Nat] /\ f[p] = 0 /\ f[c] = 1
    BY <1>1
  <2>2. \A x \in T \ {p, c} : f[x] = rank[x] + 2
    BY <1>1
  <2> HIDE DEF f
  <2> QED  BY <2>1, <2>2
<1>3. \A x \in T : rank[x] \in Nat /\ rank2[x] \in Nat
  BY <1>1
<1>4. \A x, y \in T : rank[x] < rank[y] /\ y \notin {p, c} => rank2[x] < rank2[y]
  <2> SUFFICES ASSUME NEW x \in T, NEW y \in T, rank[x] < rank[y], y \notin {p, c}
               PROVE  rank2[x] < rank2[y]
    OBVIOUS
  <2>1. rank2[y] = rank[y] + 2 /\ rank[y] \in Nat /\ rank[x] \in Nat
    BY <1>2, <1>3
  <2>2. CASE x \in {p, c}
    BY <1>2, <2>1, <2>2
  <2>3. CASE x \notin {p, c}
    <3>1. rank2[x] = rank[x] + 2
      BY <1>2, <2>3
    <3> QED  BY <2>1, <3>1
  <2> QED  BY <2>2, <2>3
<1>5. \A x \in T : child2[x] # 0 =>
        /\ child2[x] \in T \ (R \ {c}) /\ rank2[x] < rank2[child2[x]]
        /\ parent2[child2[x]] = x
  <2> SUFFICES ASSUME NEW x \in T, child2[x] # 0
               PROVE  /\ child2[x] \in T \ (R \ {c}) /\ rank2[x] < rank2[child2[x]]
                      /\ parent2[child2[x]] = x
    OBVIOUS
  <2>1. CASE x = p
    BY <1>1, <1>2, <2>1
  <2>2. CASE x # p
    <3>1. child2[x] = child[x] /\ child[x] # 0
      BY <2>2
    <3>2. child[x] \in T \ R /\ rank[x] < rank[child[x]] /\ parent[child[x]] = x
      BY <3>1 DEF Forest
    <3>3. child[x] \notin {p, c} /\ parent2[child[x]] = x
      BY <3>2
    <3>4. rank2[x] < rank2[child[x]]
      BY <1>4, <3>2, <3>3
    <3> QED  BY <3>1, <3>2, <3>3, <3>4
  <2> QED  BY <2>1, <2>2
<1>6. \A x \in T : sibling2[x] # 0 =>
        /\ sibling2[x] \in T \ (R \ {c}) /\ rank2[x] < rank2[sibling2[x]]
        /\ parent2[sibling2[x]] = parent2[x]
  <2> SUFFICES ASSUME NEW x \in T, sibling2[x] # 0
               PROVE  /\ sibling2[x] \in T \ (R \ {c}) /\ rank2[x] < rank2[sibling2[x]]
                      /\ parent2[sibling2[x]] = parent2[x]
    OBVIOUS
  <2>1. CASE x = c
    <3>1. sibling2[x] = child[p] /\ child[p] # 0 /\ parent2[x] = p
      BY <2>1
    <3>2. child[p] \in T \ R /\ parent[child[p]] = p
      BY <1>1, <3>1 DEF Forest
    <3>3. child[p] \notin {p, c} /\ parent2[child[p]] = p
      BY <3>2
    <3>4. rank2[child[p]] = rank[child[p]] + 2 /\ rank[child[p]] \in Nat
      BY <1>2, <1>3, <3>2, <3>3
    <3>5. rank2[c] < rank2[child[p]]
      BY <1>2, <3>4
    <3> QED  BY <2>1, <3>1, <3>2, <3>3, <3>5
  <2>2. CASE x # c
    <3>1. sibling2[x] = sibling[x] /\ sibling[x] # 0 /\ parent2[x] = parent[x]
      BY <2>2
    <3>2. sibling[x] \in T \ R /\ rank[x] < rank[sibling[x]] /\ parent[sibling[x]] = parent[x]
      BY <3>1 DEF Forest
    <3>3. sibling[x] \notin {p, c} /\ parent2[sibling[x]] = parent[x]
      BY <3>2
    <3>4. rank2[x] < rank2[sibling[x]]
      BY <1>4, <3>2, <3>3
    <3> QED  BY <3>1, <3>2, <3>3, <3>4
  <2> QED  BY <2>1, <2>2
<1>7. \A x \in T \ (R \ {c}) : \E y \in T : child2[y] = x \/ sibling2[y] = x
  <2> SUFFICES ASSUME NEW x \in T \ (R \ {c})
               PROVE  \E y \in T : child2[y] = x \/ sibling2[y] = x
    OBVIOUS
  <2>1. CASE x = c
    BY <1>1, <2>1
  <2>2. CASE x # c
    <3>1. PICK y \in T : child[y] = x \/ sibling[y] = x
      BY <2>2 DEF Forest
    <3>2. x # 0
      BY <1>1
    <3>3. CASE child[y] = x
      BY <1>1, <3>3
    <3>4. CASE sibling[y] = x
      BY <3>2, <3>4
    <3> QED  BY <3>1, <3>3, <3>4
  <2> QED  BY <2>1, <2>2
<1>8. child[p] # 0 => \A y \in T : sibling[y] # child[p] /\ (y # p => child[y] # child[p])
  BY <1>1 DEF Forest
<1>9. \A x \in T : sibling[x] # c /\ child[x] # c
  BY <1>1 DEF Forest
<1>10. \A x, y \in T : sibling2[x] = sibling2[y] => x = y \/ sibling2[x] = 0
  <2>1. \A x, y \in T : sibling[x] = sibling[y] => x = y \/ sibling[x] = 0
    BY DEF Forest
  <2> QED  BY <1>8, <2>1
<1>11. \A x, y \in T : child2[x] = sibling2[y] => child2[x] = 0
  <2> SUFFICES ASSUME NEW x \in T, NEW y \in T, child2[x] = sibling2[y], child2[x] # 0
               PROVE  FALSE
    OBVIOUS
  <2>1. CASE x = p
    <3>1. child2[x] = c
      BY <2>1
    <3>2. CASE y = c
      <4>1. child[p] = c
        BY <3>1, <3>2
      <4> QED  BY <1>1, <1>9, <4>1
    <3>3. CASE y # c
      BY <1>9, <3>1, <3>3
    <3> QED  BY <3>2, <3>3
  <2>2. CASE x # p
    <3>1. child2[x] = child[x]
      BY <2>2
    <3>2. CASE y = c
      BY <1>8, <2>2, <3>1, <3>2
    <3>3. CASE y # c
      <4>1. sibling2[y] = sibling[y]
        BY <3>3
      <4>2. child[x] = sibling[y] /\ child[x] # 0
        BY <3>1, <4>1
      <4>3. \A v, w \in T : child[v] = sibling[w] => child[v] = 0
        BY DEF Forest
      <4> QED  BY <4>2, <4>3
    <3> QED  BY <3>2, <3>3
  <2> QED  BY <2>1, <2>2
<1>12. Forest(T, R \ {c}, child2, sibling2, parent2, rank2)
  BY <1>1, <1>5, <1>6, <1>7, <1>10, <1>11 DEF Forest
<1>13. ParentsFirst(T, R \ {c}, n, parent2, key, rank2)
  <2> SUFFICES ASSUME NEW x \in T \ (R \ {c})
               PROVE  /\ parent2[x] \in T \cup ({n} \ {0})
                      /\ parent2[x] \in T => key[parent2[x]] <= key[x]
                                            /\ rank2[parent2[x]] < rank2[x]
    BY DEF ParentsFirst
  <2>1. CASE x = c
    BY <1>1, <1>2, <2>1
  <2>2. CASE x # c
    <3>1. parent2[x] = parent[x] /\ x \in T \ R /\ x \notin {p, c}
      BY <2>2
    <3>2. /\ parent[x] \in T \cup ({n} \ {0})
          /\ parent[x] \in T => key[parent[x]] <= key[x] /\ rank[parent[x]] < rank[x]
      BY <3>1 DEF ParentsFirst
    <3> QED  BY <1>4, <3>1, <3>2
  <2> QED  BY <2>1, <2>2
<1> QED  BY <1>12, <1>13

(* The root's removal leaves its children's trees, from the first child on.*)
LEMMA RootGoes ==
    ASSUME NEW T, NEW r \in T, NEW child, NEW sibling, NEW parent, NEW key,
           NEW rank \in [HeapNodes -> Nat],
           Forest(T, {r}, child, sibling, parent, rank),
           ParentsFirst(T, {r}, 0, parent, key, rank), sibling[r] = 0
    PROVE  /\ Forest(T \ {r}, {child[r]} \ {0}, child, sibling, parent, rank)
           /\ ParentsFirst(T \ {r}, {child[r]} \ {0}, r, parent, key, rank)
<1> DEFINE U == T \ {r}
           Q1 == {child[r]} \ {0}
<1>1. T \subseteq HeapNodes /\ 0 \notin HeapNodes /\ r # 0
  BY DEF Forest, HeapNodes
<1>2. Q1 \subseteq U
  BY DEF Forest
<1>3. \A x \in U : child[x] # 0 =>
        child[x] \in U \ Q1 /\ rank[x] < rank[child[x]] /\ parent[child[x]] = x
  BY <1>1 DEF Forest
<1>4. \A x \in U : sibling[x] # 0 =>
        /\ sibling[x] \in U \ Q1 /\ rank[x] < rank[sibling[x]]
        /\ parent[sibling[x]] = parent[x]
  <2> SUFFICES ASSUME NEW x \in U, sibling[x] # 0
               PROVE  /\ sibling[x] \in U \ Q1 /\ rank[x] < rank[sibling[x]]
                      /\ parent[sibling[x]] = parent[x]
    OBVIOUS
  <2>1. \A v, w \in T : child[v] = sibling[w] => child[v] = 0
    BY DEF Forest
  <2>2. sibling[x] \notin Q1
    BY <2>1
  <2> QED  BY <2>2 DEF Forest
<1>5. \A x \in U \ Q1 : \E y \in U : child[y] = x \/ sibling[y] = x
  <2> SUFFICES ASSUME NEW x \in U \ Q1
               PROVE  \E y \in U : child[y] = x \/ sibling[y] = x
    OBVIOUS
  <2>1. PICK y \in T : child[y] = x \/ sibling[y] = x
    BY DEF Forest
  <2>2. y # r
    BY <1>1, <2>1
  <2> QED  BY <2>1, <2>2
<1>6. Forest(U, Q1, child, sibling, parent, rank)
  <2>1. \A x, y \in U : sibling[x] = sibling[y] => x = y \/ sibling[x] = 0
    BY DEF Forest
  <2>2. \A x, y \in U : child[x] = sibling[y] => child[x] = 0
    BY DEF Forest
  <2>3. U \subseteq HeapNodes
    BY <1>1
  <2> HIDE DEF U, Q1
  <2> QED  BY <1>2, <1>3, <1>4, <1>5, <2>1, <2>2, <2>3 DEF Forest
<1>7. ParentsFirst(U, Q1, r, parent, key, rank)
  BY <1>1 DEF ParentsFirst
<1> QED  BY <1>6, <1>7

(* The link to n of the node before it, y, now leads to the one after n.   *)
LinkedPast(T, n, y, child, sibling, parent, child2, sibling2, parent2) ==
    /\ \/ child[y] = n /\ child2[y] = sibling[n] /\ sibling2[y] = sibling[y]
       \/ sibling[y] = n /\ sibling2[y] = sibling[n] /\ child2[y] = child[y]
    /\ \A x \in T \ {n, y} : child2[x] = child[x] /\ sibling2[x] = sibling[x]
    /\ \A x \in T \ {n} : parent2[x] = parent[x]

(* A node is unlinked: the link that leads to it, of y, leads to its next  *)
(* sibling now, and its children's trees are left, from the first child on.*)
LEMMA NodeGoes ==
    ASSUME NEW T, NEW R, NEW n \in T \ R, NEW child, NEW sibling,
           NEW parent, NEW key, NEW rank \in [HeapNodes -> Nat],
           Forest(T, R, child, sibling, parent, rank),
           ParentsFirst(T, R, 0, parent, key, rank),
           NEW child2, NEW sibling2, NEW parent2, NEW y \in T,
           LinkedPast(T, n, y, child, sibling, parent, child2, sibling2, parent2)
    PROVE  LET Roots == R \cup ({child[n]} \ {0})
           IN  /\ Forest(T \ {n}, Roots, child2, sibling2, parent2, rank)
               /\ ParentsFirst(T \ {n}, Roots, n, parent2, key, rank)
<1> DEFINE U == T \ {n}
           Roots == R \cup ({child[n]} \ {0})
<1> USE DEF LinkedPast
<1>1. T \subseteq HeapNodes /\ 0 \notin HeapNodes /\ n # 0 /\ R \subseteq T
  BY DEF Forest, HeapNodes
<1>2. /\ \A x \in T : child[x] # 0 =>
            child[x] \in T \ R /\ rank[x] < rank[child[x]] /\ parent[child[x]] = x
      /\ \A x \in T : sibling[x] # 0 =>
            /\ sibling[x] \in T \ R /\ rank[x] < rank[sibling[x]]
            /\ parent[sibling[x]] = parent[x]
  BY DEF Forest
<1>3. /\ \A v, w \in T : sibling[v] = sibling[w] => v = w \/ sibling[v] = 0
      /\ \A v, w \in T : child[v] = sibling[w] => child[v] = 0
      /\ \A v, w \in T : child[v] = child[w] => v = w \/ child[v] = 0
  <2>1. \A v, w \in T : child[v] = child[w] => v = w \/ child[v] = 0
    BY <1>2
  <2> QED  BY <2>1 DEF Forest
<1>4. child[n] # n /\ sibling[n] # n /\ y # n
  <2>1. \A x \in T : rank[x] \in Nat
    BY <1>1
  <2> QED  BY <1>1, <1>2, <2>1
<1>5. \A x \in U \ {y} : child[x] # n /\ sibling[x] # n
  BY <1>1, <1>3
<1>6. /\ sibling[n] # 0 => \A x \in T : child[x] # sibling[n] /\ (x # n => sibling[x] # sibling[n])
      /\ child[n] # 0 => \A x \in T : sibling[x] # child[n] /\ (x # n => child[x] # child[n])
  BY <1>3
<1>7. Roots \subseteq U
  BY <1>1, <1>2, <1>4
<1>8. sibling[n] # 0 => sibling[n] \in U \ Roots
  BY <1>2, <1>4, <1>6
<1>9. \A x \in U : x # y => /\ child2[x] = child[x] /\ sibling2[x] = sibling[x]
                           /\ (child[x] # 0 => child[x] \in U \ Roots)
                           /\ (sibling[x] # 0 => sibling[x] \in U \ Roots)
  BY <1>2, <1>5, <1>6
<1>10. rank[n] \in Nat /\ rank[y] \in Nat
       /\ (sibling[n] # 0 => rank[sibling[n]] \in Nat)
  BY <1>1, <1>2
<1>11. \A x \in U : child2[x] # 0 =>
        /\ child2[x] \in U \ Roots /\ rank[x] < rank[child2[x]]
        /\ parent2[child2[x]] = x
  <2> SUFFICES ASSUME NEW x \in U, child2[x] # 0
               PROVE  /\ child2[x] \in U \ Roots /\ rank[x] < rank[child2[x]]
                      /\ parent2[child2[x]] = x
    OBVIOUS
  <2>1. CASE x # y
    <3>1. child2[x] = child[x] /\ child[x] \in U \ Roots
      BY <1>9, <2>1
    <3> QED  BY <1>2, <3>1
  <2>2. CASE x = y /\ child[y] = n /\ child2[y] = sibling[n]
    <3>1. /\ sibling[n] \in U \ Roots /\ rank[n] < rank[sibling[n]]
          /\ parent[sibling[n]] = parent[n]
      BY <1>2, <1>8, <2>2
    <3>2. rank[y] < rank[n] /\ parent[n] = y
      BY <1>1, <1>2, <2>2
    <3>3. rank[y] < rank[sibling[n]]
      BY <1>10, <2>2, <3>1, <3>2
    <3> QED  BY <2>2, <3>1, <3>2, <3>3
  <2>3. CASE x = y /\ sibling[y] = n /\ child2[y] = child[y]
    <3>1. child[y] # 0 /\ child[y] # n
      BY <1>1, <1>3, <2>3
    <3>2. child[y] \in U \ Roots
      BY <1>2, <1>4, <1>6, <3>1
    <3> QED  BY <1>2, <2>3, <3>1, <3>2
  <2> QED  BY <2>1, <2>2, <2>3
<1>12. \A x \in U : sibling2[x] # 0 =>
        /\ sibling2[x] \in U \ Roots /\ rank[x] < rank[sibling2[x]]
        /\ parent2[sibling2[x]] = parent2[x]
  <2> SUFFICES ASSUME NEW x \in U, sibling2[x] # 0
               PROVE  /\ sibling2[x] \in U \ Roots /\ rank[x] < rank[sibling2[x]]
                      /\ parent2[sibling2[x]] = parent2[x]
    OBVIOUS
  <2>1. CASE x # y
    <3>1. sibling2[x] = sibling[x] /\ sibling[x] \in U \ Roots
      BY <1>9, <2>1
    <3> QED  BY <1>2, <3>1
  <2>2. CASE x = y /\ child[y] = n /\ sibling2[y] = sibling[y]
    <3>1. sibling[y] # 0 /\ sibling[y] # n
      BY <1>1, <1>3, <2>2
    <3>2. sibling[y] \in U \ Roots
      BY <1>2, <1>4, <1>6, <3>1
    <3> QED  BY <1>2, <2>2, <3>1, <3>2
  <2>3. CASE x = y /\ sibling[y] = n /\ sibling2[y] = sibling[n]
    <3>1. /\ sibling[n] \in U \ Roots /\ rank[n] < rank[sibling[n]]
          /\ parent[sibling[n]] = parent[n]
      BY <1>2, <1>8, <2>3
    <3>2. rank[y] < rank[n] /\ parent[n] = parent[y]
      BY <1>1, <1>2, <2>3
    <3>3. rank[y] < rank[sibling[n]]
      BY <1>10, <2>3, <3>1, <3>2
    <3> QED  BY <2>3, <3>1, <3>2, <3>3
  <2> QED  BY <2>1, <2>2, <2>3
<1>13. \A x \in U \ Roots : \E z \in U : child2[z] = x \/ sibling2[z] = x
  <2> SUFFICES ASSUME NEW x \in U \ Roots
               PROVE  \E z \in U : child2[z] = x \/ sibling2[z] = x
    OBVIOUS
  <2>1. PICK z \in T : child[z] = x \/ sibling[z] = x
    BY DEF Forest
  <2>2. x # 0 /\ x # n /\ x # child[n] /\ y \in U
    BY <1>1, <1>4
  <2>3. CASE z = n
    BY <2>1, <2>2, <2>3
  <2>4. CASE z # n /\ z # y
    BY <2>1, <2>4
  <2>5. CASE z = y
    BY <2>1, <2>2, <2>5
  <2> QED  BY <2>3, <2>4, <2>5
<1>14. \A v, w \in U : sibling2[v] = sibling2[w] => v = w \/ sibling2[v] = 0
  BY <1>3, <1>4, <1>6, <1>9
<1>15. \A v, w \in U : child2[v] = sibling2[w] => child2[v] = 0
  BY <1>3, <1>4, <1>6, <1>9
<1>16. Forest(U, Roots, child2, sibling2, parent2, rank)
  <2>1. U \subseteq HeapNodes
    BY <1>1
  <2> HIDE DEF U, Roots
  <2> QED  BY <1>7, <1>11, <1>12, <1>13, <1>14, <1>15, <2>1 DEF Forest
<1>17. ParentsFirst(U, Roots, n, parent2, key, rank)
  BY <1>1 DEF ParentsFirst
<1> QED  BY <1>16, <1>17

(* The links of T stay, and n has none.                                    *)
NodeBeside(T, n, child, sibling, parent, key, child2, sibling2, parent2, key2) ==
    /\ child2[n] = 0 /\ sibling2[n] = 0
    /\ \A x \in T : /\ child2[x] = child[x] /\ sibling2[x] = sibling[x]
                    /\ parent2[x] = parent[x] /\ key2[x] = key[x]

(* A node without links is a tree.                                         *)
LEMMA NodeComes ==
    ASSUME NEW T, NEW R, NEW n \in HeapNodes, n \notin T, NEW m, m # n,
           NEW child, NEW sibling, NEW parent, NEW key, NEW rank,
           Forest(T, R, child, sibling, parent, rank),
           ParentsFirst(T, R, m, parent, key, rank),
           NEW child2, NEW sibling2, NEW parent2, NEW key2,
           NodeBeside(T, n, child, sibling, parent, key, child2, sibling2, parent2, key2)
    PROVE  /\ Forest(T \cup {n}, R \cup {n}, child2, sibling2, parent2, rank)
           /\ ParentsFirst(T \cup {n}, R \cup {n}, m, parent2, key2, rank)
<1> DEFINE U == T \cup {n}
           Roots == R \cup {n}
<1> USE DEF NodeBeside
<1>1. T \subseteq HeapNodes /\ 0 \notin HeapNodes /\ R \subseteq T
  BY DEF Forest, HeapNodes
<1>2. \A x \in U : child2[x] # 0 =>
        /\ child2[x] \in U \ Roots /\ rank[x] < rank[child2[x]]
        /\ parent2[child2[x]] = x
  BY <1>1 DEF Forest
<1>3. \A x \in U : sibling2[x] # 0 =>
        /\ sibling2[x] \in U \ Roots /\ rank[x] < rank[sibling2[x]]
        /\ parent2[sibling2[x]] = parent2[x]
  BY <1>1 DEF Forest
<1>4. \A x \in U \ Roots : \E y \in U : child2[y] = x \/ sibling2[y] = x
  <2> SUFFICES ASSUME NEW x \in U \ Roots
               PROVE  \E y \in U : child2[y] = x \/ sibling2[y] = x
    OBVIOUS
  <2>1. PICK y \in T : child[y] = x \/ sibling[y] = x
    BY DEF Forest
  <2> QED  BY <2>1
<1>5. \A x, y \in U : sibling2[x] = sibling2[y] => x = y \/ sibling2[x] = 0
  BY DEF Forest
<1>6. \A x, y \in U : child2[x] = sibling2[y] => child2[x] = 0
  BY DEF Forest
<1>7. Forest(U, Roots, child2, sibling2, parent2, rank)
  <2>1. U \subseteq HeapNodes /\ Roots \subseteq U
    BY <1>1
  <2> HIDE DEF U, Roots
  <2> QED  BY <1>2, <1>3, <1>4, <1>5, <1>6, <2>1 DEF Forest
<1>8. ParentsFirst(U, Roots, m, parent2, key2, rank)
  BY DEF ParentsFirst
<1> QED  BY <1>7, <1>8

(* The links of T stay, but for the parents of roots with no sibling.      *)
LinksKept(T, R, child, sibling, parent, child2, sibling2, parent2) ==
    /\ \A x \in T : child2[x] = child[x] /\ sibling2[x] = sibling[x]
    /\ \A x \in T : parent2[x] = parent[x] \/ (x \in R /\ sibling[x] = 0)

(* Links outside the forest do not matter, nor do the parents of roots     *)
(* that have no sibling.                                                   *)
LEMMA SameLinks ==
    ASSUME NEW T, NEW R, NEW n, NEW child, NEW sibling, NEW parent, NEW key, NEW rank,
           Forest(T, R, child, sibling, parent, rank),
           ParentsFirst(T, R, n, parent, key, rank),
           NEW child2, NEW sibling2, NEW parent2,
           LinksKept(T, R, child, sibling, parent, child2, sibling2, parent2)
    PROVE  /\ Forest(T, R, child2, sibling2, parent2, rank)
           /\ ParentsFirst(T, R, n, parent2, key, rank)
<1> USE DEF LinksKept
<1>1. /\ R \subseteq T /\ T \subseteq HeapNodes
      /\ \A x, y \in T : sibling2[x] = sibling2[y] => x = y \/ sibling2[x] = 0
      /\ \A x, y \in T : child2[x] = sibling2[y] => child2[x] = 0
  BY DEF Forest
<1>2. \A x \in T \ R : \E y \in T : child2[y] = x \/ sibling2[y] = x
  <2> SUFFICES ASSUME NEW x \in T \ R
               PROVE  \E y \in T : child2[y] = x \/ sibling2[y] = x
    OBVIOUS
  <2>1. PICK y \in T : child[y] = x \/ sibling[y] = x
    BY DEF Forest
  <2> QED  BY <2>1
<1>3. \A x \in T : child2[x] # 0 =>
        child2[x] \in T \ R /\ rank[x] < rank[child2[x]] /\ parent2[child2[x]] = x
  BY DEF Forest
<1>4. \A x \in T : sibling2[x] # 0 =>
        /\ sibling2[x] \in T \ R /\ rank[x] < rank[sibling2[x]]
        /\ parent2[sibling2[x]] = parent2[x]
  BY DEF Forest
<1>5. Forest(T, R, child2, sibling2, parent2, rank)
  BY <1>1, <1>2, <1>3, <1>4 DEF Forest
<1>6. ParentsFirst(T, R, n, parent2, key, rank)
  BY DEF ParentsFirst
<1> QED  BY <1>5, <1>6


----------------------------------------------------------------------------
(* The operators of the heap.                                              *)

(* Nodes and 0, and the heaps of them.                                     *)
NodeIds == 0 .. HeapSize
HeapOfType == [child : [HeapNodes -> NodeIds], sibling : [HeapNodes -> NodeIds],
               parent : [HeapNodes -> NodeIds], key : [HeapNodes -> Keys],
               root : NodeIds, freeHead : NodeIds, freeTail : NodeIds]

(* From h to g, the tree c is added to the tree p.                         *)
ChildAdded(h, g, p, c, T, R, n) ==
    /\ g \in HeapOfType
    /\ g.key = h.key /\ g.root = h.root
    /\ g.freeHead = h.freeHead /\ g.freeTail = h.freeTail
    /\ \A x \in HeapNodes \ {p, c} :
          g.sibling[x] = h.sibling[x] /\ g.parent[x] = h.parent[x]
    /\ g.sibling[p] = 0 /\ g.parent[p] = h.parent[p]
    /\ \E rank2 \in [HeapNodes -> Nat] :
          /\ Forest(T, R \ {c}, g.child, g.sibling, g.parent, rank2)
          /\ ParentsFirst(T, R \ {c}, n, g.parent, h.key, rank2)

(* ph_add_child_node does that.                                            *)
LEMMA AddChildDoes ==
    ASSUME NEW h \in HeapOfType, NEW T, NEW R, NEW n, NEW rank \in [HeapNodes -> Nat],
           Forest(T, R, h.child, h.sibling, h.parent, rank),
           ParentsFirst(T, R, n, h.parent, h.key, rank),
           NEW p \in R, NEW c \in R, p # c, h.sibling[p] = 0, h.sibling[c] = 0,
           h.key[p] <= h.key[c]
    PROVE  ChildAdded(h, AddChild(h, p, c), p, c, T, R, n)
<1>1. /\ T \subseteq HeapNodes /\ 0 \notin HeapNodes /\ R \subseteq T
  BY DEF Forest, HeapNodes
<1>2. /\ h.child \in [HeapNodes -> NodeIds] /\ h.sibling \in [HeapNodes -> NodeIds]
      /\ h.parent \in [HeapNodes -> NodeIds] /\ h.key \in [HeapNodes -> Keys]
  BY DEF HeapOfType
<1>3. PICK g : g = AddChild(h, p, c)
  OBVIOUS
<1>4. p \in HeapNodes /\ c \in HeapNodes /\ p \in NodeIds /\ c \in NodeIds
  <2>1. p \in HeapNodes /\ c \in HeapNodes
    BY <1>1
  <2> QED  BY <2>1 DEF HeapNodes, NodeIds
<1>5. PICK s : s = IF h.child[p] = 0 THEN h.sibling[c] ELSE h.child[p]
  OBVIOUS
<1>6. s = h.child[p] /\ s \in NodeIds
  BY <1>2, <1>4, <1>5
<1>7. g = [h EXCEPT !.parent = [h.parent EXCEPT ![c] = p],
                    !.child = [h.child EXCEPT ![p] = c],
                    !.sibling = [h.sibling EXCEPT ![c] = s]]
  BY <1>3, <1>5 DEF AddChild, HeapOfType
<1>8. /\ g \in HeapOfType
      /\ g.key = h.key /\ g.root = h.root
      /\ g.freeHead = h.freeHead /\ g.freeTail = h.freeTail
      /\ g.parent = [h.parent EXCEPT ![c] = p]
      /\ g.child = [h.child EXCEPT ![p] = c]
      /\ g.sibling = [h.sibling EXCEPT ![c] = s]
  BY <1>2, <1>4, <1>6, <1>7 DEF HeapOfType
<1>9. /\ \A x \in HeapNodes : g.child[x] = IF x = p THEN c ELSE h.child[x]
      /\ \A x \in HeapNodes : g.sibling[x] = IF x = c THEN h.child[p] ELSE h.sibling[x]
      /\ \A x \in HeapNodes : g.parent[x] = IF x = c THEN p ELSE h.parent[x]
  BY <1>2, <1>4, <1>6, <1>8
<1>10. \A x \in T : x \in HeapNodes
  BY <1>1
<1>11. /\ g.child \in [HeapNodes -> 0 .. HeapSize] /\ g.sibling \in [HeapNodes -> 0 .. HeapSize]
      /\ g.parent \in [HeapNodes -> 0 .. HeapSize]
      /\ h.child \in [HeapNodes -> 0 .. HeapSize] /\ h.sibling \in [HeapNodes -> 0 .. HeapSize]
      /\ h.parent \in [HeapNodes -> 0 .. HeapSize]
  BY <1>2, <1>8 DEF HeapOfType, NodeIds
<1>12. \E rank2 \in [HeapNodes -> Nat] :
        /\ Forest(T, R \ {c}, g.child, g.sibling, g.parent, rank2)
        /\ ParentsFirst(T, R \ {c}, n, g.parent, h.key, rank2)
  <2>1. /\ \A x \in T : g.child[x] = IF x = p THEN c ELSE h.child[x]
        /\ \A x \in T : g.sibling[x] = IF x = c THEN h.child[p] ELSE h.sibling[x]
        /\ \A x \in T : g.parent[x] = IF x = c THEN p ELSE h.parent[x]
    BY <1>9, <1>10
  <2>2. Joined(T, p, c, h.child, h.sibling, h.parent, g.child, g.sibling, g.parent)
    BY <1>11, <2>1 DEF Joined
  <2>3. /\ p \in R /\ c \in R /\ p # c /\ h.sibling[p] = 0 /\ h.sibling[c] = 0
        /\ h.key[p] <= h.key[c]
    OBVIOUS
  <2>4. /\ Forest(T, R, h.child, h.sibling, h.parent, rank)
        /\ ParentsFirst(T, R, n, h.parent, h.key, rank) /\ rank \in [HeapNodes -> Nat]
    OBVIOUS
  <2> HIDE DEF NodeIds
  <2> QED  BY <1>11, <2>2, <2>3, <2>4, JoinTrees, Zenon
<1> QED  BY <1>3, <1>8, <1>9, <1>12 DEF ChildAdded

(* From h to g, the trees a and b have become one, whose root w is the one *)
(* of them with the lesser key; the links of the two alone have changed.   *)
TreesMerged(h, g, w, a, b, T, R, n) ==
    /\ g \in HeapOfType
    /\ w \in {a, b} /\ (w = 0 => a = 0 /\ b = 0)
    /\ g.key = h.key /\ g.root = h.root
    /\ g.freeHead = h.freeHead /\ g.freeTail = h.freeTail
    /\ \A x \in HeapNodes \ {a, b} :
          g.sibling[x] = h.sibling[x] /\ g.parent[x] = h.parent[x]
    /\ w # 0 => g.sibling[w] = 0 /\ g.parent[w] = h.parent[w]
    /\ a # 0 /\ b # 0 => w = IF h.key[a] < h.key[b] THEN a ELSE b
    /\ \E rank2 \in [HeapNodes -> Nat] :
          /\ Forest(T, (R \ {a, b}) \cup ({w} \ {0}), g.child, g.sibling, g.parent, rank2)
          /\ ParentsFirst(T, (R \ {a, b}) \cup ({w} \ {0}), n, g.parent, h.key, rank2)

(* ph_merge_nodes does that.                                               *)
LEMMA MergeDoes ==
    ASSUME NEW h \in HeapOfType, NEW T, NEW R, NEW n, NEW rank \in [HeapNodes -> Nat],
           Forest(T, R, h.child, h.sibling, h.parent, rank),
           ParentsFirst(T, R, n, h.parent, h.key, rank),
           NEW a \in R \cup {0}, NEW b \in R \cup {0}, a = b => a = 0,
           a # 0 => h.sibling[a] = 0, b # 0 => h.sibling[b] = 0
    PROVE  TreesMerged(h, Merge(h, a, b)[1], Merge(h, a, b)[2], a, b, T, R, n)
<1>1. /\ T \subseteq HeapNodes /\ 0 \notin HeapNodes /\ R \subseteq T
  BY DEF Forest, HeapNodes
<1>2. /\ h.child \in [HeapNodes -> NodeIds] /\ h.sibling \in [HeapNodes -> NodeIds]
      /\ h.parent \in [HeapNodes -> NodeIds] /\ h.key \in [HeapNodes -> Keys]
  BY DEF HeapOfType
<1>3. CASE a = 0 \/ b = 0
  <2>1. Merge(h, a, b) = <<h, a + b>>
    BY <1>3 DEF Merge
  <2>2. a \in Int /\ b \in Int
    BY <1>1 DEF HeapNodes
  <2>3. /\ a = 0 => a + b = b
        /\ b = 0 => a + b = a
    BY <2>2
  <2>4. PICK w : w = a + b
    OBVIOUS
  <2>5. /\ w \in {a, b} /\ (w = 0 => a = 0 /\ b = 0)
        /\ (R \ {a, b}) \cup ({w} \ {0}) = R
    BY <1>1, <1>3, <2>3, <2>4
  <2>6. Merge(h, a, b)[1] = h /\ Merge(h, a, b)[2] = w
    BY <2>1, <2>4
  <2>7. TreesMerged(h, h, w, a, b, T, R, n)
    BY <1>1, <1>3, <2>5 DEF TreesMerged
  <2> QED  BY <2>6, <2>7
<1>4. CASE a # 0 /\ b # 0 /\ h.key[a] < h.key[b]
  <2>1. Merge(h, a, b) = <<AddChild(h, a, b), a>>
    BY <1>4 DEF Merge
  <2>2. h.key[a] <= h.key[b]
    <3>1. h.key[a] \in Int /\ h.key[b] \in Int
      BY <1>1, <1>2, <1>4, PairingHeapAssumption
    <3> QED  BY <1>4, <3>1
  <2>3. PICK g : g = AddChild(h, a, b)
    OBVIOUS
  <2>4. (R \ {a, b}) \cup ({a} \ {0}) = R \ {b}
    BY <1>4
  <2>5. Merge(h, a, b)[1] = g /\ Merge(h, a, b)[2] = a
    BY <2>1, <2>3
  <2>6. TreesMerged(h, g, a, a, b, T, R, n)
    <3>1. a \in R /\ b \in R /\ a # b /\ h.sibling[a] = 0 /\ h.sibling[b] = 0
      BY <1>4
    <3>2. ChildAdded(h, g, a, b, T, R, n)
      BY <2>2, <2>3, <3>1, AddChildDoes
    <3> QED  BY <1>4, <2>4, <3>2 DEF ChildAdded, TreesMerged
  <2> QED  BY <2>5, <2>6
<1>5. CASE a # 0 /\ b # 0 /\ ~(h.key[a] < h.key[b])
  <2>1. Merge(h, a, b) = <<AddChild(h, b, a), b>>
    BY <1>5 DEF Merge
  <2>2. h.key[b] <= h.key[a]
    <3>1. h.key[a] \in Int /\ h.key[b] \in Int
      BY <1>1, <1>2, <1>5, PairingHeapAssumption
    <3> QED  BY <1>5, <3>1
  <2>3. PICK g : g = AddChild(h, b, a)
    OBVIOUS
  <2>4. (R \ {a, b}) \cup ({b} \ {0}) = R \ {a}
    BY <1>5
  <2>5. Merge(h, a, b)[1] = g /\ Merge(h, a, b)[2] = b
    BY <2>1, <2>3
  <2>6. TreesMerged(h, g, b, a, b, T, R, n)
    <3>1. a \in R /\ b \in R /\ b # a /\ h.sibling[a] = 0 /\ h.sibling[b] = 0
      BY <1>5
    <3>2. ChildAdded(h, g, b, a, T, R, n)
      BY <2>2, <2>3, <3>1, AddChildDoes
    <3>3. {b, a} = {a, b}
      OBVIOUS
    <3> QED  BY <1>5, <2>4, <3>2, <3>3 DEF ChildAdded, TreesMerged
  <2> QED  BY <2>5, <2>6
<1> QED  BY <1>3, <1>4, <1>5

----------------------------------------------------------------------------
(* The free list.                                                          *)

(* The chains of sibling links from each node exist for every length.      *)
LEMMA ChainsExist ==
    ASSUME NEW sibling \in [HeapNodes -> NodeIds], NEW m \in Nat
    PROVE  \E g \in [0 .. m -> [NodeIds -> Seq(NodeIds)]] :
             \A k \in 0 .. m, n \in NodeIds :
               g[k][n] = IF k = 0 \/ n = 0 THEN <<>> ELSE <<n>> \o g[k - 1][sibling[n]]
<1> DEFINE Chains(j, g) == \A k \in 0 .. j, n \in NodeIds :
               g[k][n] = IF k = 0 \/ n = 0 THEN <<>> ELSE <<n>> \o g[k - 1][sibling[n]]
           Have(j) == \E g \in [0 .. j -> [NodeIds -> Seq(NodeIds)]] : Chains(j, g)
           Lack == {j \in Nat : ~Have(j)}
<1>1. Have(0)
  <2> DEFINE g == [k \in 0 .. 0 |-> [n \in NodeIds |-> <<>>]]
  <2>1. g \in [0 .. 0 -> [NodeIds -> Seq(NodeIds)]]
    OBVIOUS
  <2>2. Chains(0, g)
    OBVIOUS
  <2> HIDE DEF g
  <2> QED  BY <2>1, <2>2
<1>2. ASSUME NEW j \in Nat, Have(j) PROVE Have(j + 1)
  <2>1. PICK g \in [0 .. j -> [NodeIds -> Seq(NodeIds)]] : Chains(j, g)
    BY <1>2
  <2> DEFINE last == [n \in NodeIds |-> IF n = 0 THEN <<>> ELSE <<n>> \o g[j][sibling[n]]]
             f == [k \in 0 .. j + 1 |-> IF k = j + 1 THEN last ELSE g[k]]
  <2>2. last \in [NodeIds -> Seq(NodeIds)]
    <3> SUFFICES ASSUME NEW n \in NodeIds, n # 0
                 PROVE  <<n>> \o g[j][sibling[n]] \in Seq(NodeIds)
      OBVIOUS
    <3>1. n \in HeapNodes
      BY DEF NodeIds, HeapNodes
    <3>2. g[j] \in [NodeIds -> Seq(NodeIds)]
      BY <2>1
    <3>3. g[j][sibling[n]] \in Seq(NodeIds)
      BY <3>1, <3>2
    <3>4. <<n>> \in Seq(NodeIds)
      OBVIOUS
    <3> QED  BY <3>3, <3>4, ConcatProperties
  <2>3. \A n \in NodeIds : last[n] = IF n = 0 THEN <<>> ELSE <<n>> \o g[j][sibling[n]]
    OBVIOUS
  <2> HIDE DEF last
  <2>4. f \in [0 .. j + 1 -> [NodeIds -> Seq(NodeIds)]]
    BY <2>1, <2>2
  <2>5. f[j + 1] = last /\ \A k \in 0 .. j : f[k] = g[k]
    OBVIOUS
  <2> HIDE DEF f
  <2>6. Chains(j + 1, f)
    <3> SUFFICES ASSUME NEW k \in 0 .. j + 1, NEW n \in NodeIds
                 PROVE  f[k][n] = IF k = 0 \/ n = 0 THEN <<>>
                                  ELSE <<n>> \o f[k - 1][sibling[n]]
      OBVIOUS
    <3>1. CASE k = j + 1
      <4>1. k # 0 /\ k - 1 = j /\ j \in 0 .. j
        BY <3>1
      <4> QED  BY <2>3, <2>5, <3>1, <4>1
    <3>2. CASE k # j + 1
      <4>1. k \in 0 .. j /\ (k # 0 => k - 1 \in 0 .. j)
        BY <3>2
      <4>2. g[k][n] = IF k = 0 \/ n = 0 THEN <<>> ELSE <<n>> \o g[k - 1][sibling[n]]
        BY <2>1, <4>1
      <4> QED  BY <2>5, <4>1, <4>2
    <3> QED  BY <3>1, <3>2
  <2> QED  BY <2>4, <2>6
<1> HIDE DEF Have
<1>3. Lack = {}
  <2> SUFFICES ASSUME Lack # {} PROVE FALSE
    OBVIOUS
  <2>1. Lack \subseteq Nat
    OBVIOUS
  <2>2. PICK i \in Lack : \A j \in Lack : <<j, i>> \notin OpToRel(<, Nat)
    BY <2>1, WFMin, NatLessThanWellFounded, Zenon
  <2>3. \A j \in Lack : ~(j < i)
    BY <2>1, <2>2, Zenon DEF OpToRel
  <2>4. i \in Nat /\ i # 0 /\ ~Have(i)
    BY <1>1
  <2>5. i - 1 \in Nat /\ i - 1 < i /\ (i - 1) + 1 = i
    BY <2>4
  <2>6. Have(i - 1)
    BY <2>3, <2>5
  <2> QED  BY <1>2, <2>4, <2>5, <2>6
<1>4. Have(m)
  BY <1>3, SMTT(30)
<1> QED  BY <1>4 DEF Have

(* FreeList is the list that the links go through.                         *)
LEMMA FreeListFound ==
    ASSUME NEW h \in HeapOfType, NEW s, FreeListIs(h, s)
    PROVE  FreeList(h) = s
<1> DEFINE Step(f) == [k \in 0 .. HeapSize |-> [n \in 0 .. HeapSize |->
                      IF k = 0 \/ n = 0 THEN <<>> ELSE <<n>> \o f[k - 1][h.sibling[n]]]]
           chain == CHOOSE f : f = Step(f)
           From1(i) == IF i = Len(s) THEN 0 ELSE s[i + 1]
<1>1. FreeList(h) = chain[HeapSize][h.freeHead]
  BY DEF FreeList
<1>2. /\ HeapSize \in Nat /\ h.sibling \in [HeapNodes -> NodeIds]
      /\ NodeIds = 0 .. HeapSize /\ 0 \notin HeapNodes
      /\ s \in Seq(HeapNodes) /\ Len(s) \in Nat
      /\ \A i \in 1 .. Len(s) : s[i] \in HeapNodes /\ s[i] \in NodeIds
      /\ \A i \in 1 .. Len(s) : h.sibling[s[i]] = From1(i)
      /\ h.freeHead = From1(0)
  <2>1. s \in Seq(HeapNodes) /\ Len(s) \in Nat
    BY DEF FreeListIs
  <2>2. \A i \in 1 .. Len(s) : s[i] \in HeapNodes
    BY <2>1
  <2>3. \A i \in 1 .. Len(s) : h.sibling[s[i]] = From1(i)
    BY <2>1 DEF FreeListIs
  <2>4. h.freeHead = From1(0)
    BY <2>1 DEF FreeListIs
  <2>5. HeapNodes \subseteq NodeIds
    BY DEF HeapNodes, NodeIds
  <2>6. HeapSize \in Nat /\ NodeIds = 0 .. HeapSize /\ 0 \notin HeapNodes
    BY PairingHeapAssumption DEF NodeIds, HeapNodes
  <2>7. h.sibling \in [HeapNodes -> NodeIds]
    BY DEF HeapOfType
  <2> HIDE DEF From1
  <2> QED
    BY <2>1, <2>2, <2>3, <2>4, <2>5, <2>6, <2>7
<1>3. \E g : g = Step(g)
  <2>1. PICK g \in [0 .. HeapSize -> [NodeIds -> Seq(NodeIds)]] :
          \A k \in 0 .. HeapSize, n \in NodeIds :
             g[k][n] = IF k = 0 \/ n = 0 THEN <<>> ELSE <<n>> \o g[k - 1][h.sibling[n]]
    BY <1>2, ChainsExist, ZenonT(40)
  <2>2. \A k \in 0 .. HeapSize : g[k] = Step(g)[k]
    BY <1>2, <2>1
  <2>3. g = Step(g)
    BY <2>1, <2>2
  <2> QED  BY <2>3
<1>4. chain = Step(chain)
  BY <1>3, Zenon
<1>5. \A k \in 0 .. HeapSize, n \in NodeIds :
        chain[k][n] = IF k = 0 \/ n = 0 THEN <<>> ELSE <<n>> \o chain[k - 1][h.sibling[n]]
  <2> HIDE DEF chain
  <2> SUFFICES ASSUME NEW k \in 0 .. HeapSize, NEW n \in 0 .. HeapSize
               PROVE  chain[k][n] = IF k = 0 \/ n = 0 THEN <<>>
                                    ELSE <<n>> \o chain[k - 1][h.sibling[n]]
    BY <1>2
  <2>1. Step(chain)[k][n] = IF k = 0 \/ n = 0 THEN <<>>
                            ELSE <<n>> \o chain[k - 1][h.sibling[n]]
    OBVIOUS
  <2> HIDE DEF Step
  <2> QED  BY <1>4, <2>1
<1> HIDE DEF chain
<1> DEFINE Good(k) == \A i \in 0 .. Len(s) : Len(s) - i <= k =>
                          chain[k][From1(i)] = SubSeq(s, i + 1, Len(s))
           Bad == {k \in 0 .. HeapSize : ~Good(k)}
<1>6. 0 \in NodeIds /\ SubSeq(s, Len(s) + 1, Len(s)) = <<>>
  <2>1. SubSeq(s, Len(s) + 1, Len(s)) = <<>>
    BY <1>2, SubSeqProperties
  <2> QED  BY <1>2, <2>1
<1>7. \A k \in 0 .. HeapSize : chain[k][0] = <<>>
  BY <1>5, <1>6
<1>8. Good(0)
  <2> SUFFICES ASSUME NEW i \in 0 .. Len(s), Len(s) - i <= 0
               PROVE  chain[0][From1(i)] = SubSeq(s, i + 1, Len(s))
    OBVIOUS
  <2>1. i = Len(s) /\ From1(i) = 0 /\ 0 \in 0 .. HeapSize
    BY <1>2
  <2>2. chain[0][0] = <<>>
    BY <1>7, <2>1
  <2> QED  BY <1>6, <2>1, <2>2
<1>9. ASSUME NEW k \in 0 .. HeapSize, k # 0, Good(k - 1) PROVE Good(k)
  <2> SUFFICES ASSUME NEW i \in 0 .. Len(s), Len(s) - i <= k
               PROVE  chain[k][From1(i)] = SubSeq(s, i + 1, Len(s))
    OBVIOUS
  <2>1. CASE i = Len(s)
    BY <1>6, <1>7, <2>1
  <2>2. CASE i # Len(s)
    <3>1. /\ i + 1 \in 1 .. Len(s) /\ i + 1 \in 0 .. Len(s) /\ i \in 0 .. Len(s) - 1
          /\ Len(s) - (i + 1) <= k - 1 /\ (i + 1) + 1 = i + 2
      BY <1>2, <2>2
    <3>2. From1(i) = s[i + 1] /\ s[i + 1] # 0 /\ s[i + 1] \in NodeIds
      BY <1>2, <2>2, <3>1
    <3>3. chain[k][s[i + 1]] = <<s[i + 1]>> \o chain[k - 1][h.sibling[s[i + 1]]]
      BY <1>5, <1>9, <3>2
    <3>4. h.sibling[s[i + 1]] = From1(i + 1)
      BY <1>2, <3>1
    <3>5. chain[k - 1][From1(i + 1)] = SubSeq(s, i + 2, Len(s))
      BY <1>9, <3>1
    <3> HIDE DEF From1, Good
    <3>6. chain[k][From1(i)] = <<s[i + 1]>> \o SubSeq(s, i + 2, Len(s))
      BY <3>2, <3>3, <3>4, <3>5
    <3>7. Len(s) \in (i + 1) .. Len(s) /\ (i + 1) + 1 = i + 2
      BY <1>2, <3>1
    <3>8. SubSeq(s, i + 1, Len(s)) = <<s[i + 1]>> \o SubSeq(s, i + 2, Len(s))
      BY <1>2, <3>1, <3>7, SubSeqRecursiveFirst
    <3> QED  BY <3>6, <3>8
  <2> QED  BY <2>1, <2>2
<1> HIDE DEF Good
<1>10. Bad = {}
  <2> SUFFICES ASSUME Bad # {} PROVE FALSE
    OBVIOUS
  <2>1. Bad \subseteq Nat
    BY <1>2
  <2>2. PICK k \in Bad : \A j \in Bad : <<j, k>> \notin OpToRel(<, Nat)
    BY <2>1, WFMin, NatLessThanWellFounded, Zenon
  <2>3. \A j \in Bad : ~(j < k)
    BY <2>1, <2>2, Zenon DEF OpToRel
  <2>4. k \in 0 .. HeapSize /\ ~Good(k) /\ k # 0
    BY <1>8
  <2>5. k - 1 \in 0 .. HeapSize /\ k - 1 < k
    BY <1>2, <2>4
  <2>6. Good(k - 1)
    BY <2>3, <2>5
  <2> QED  BY <1>9, <2>4, <2>6
<1>11. Len(s) <= HeapSize
  <2>1. Cardinality(ListOf(s)) = Len(s)
    BY <1>2, OnceCounts DEF FreeListIs
  <2>2. ListOf(s) \subseteq HeapNodes
    BY <1>2 DEF ListOf
  <2>3. IsFiniteSet(HeapNodes) /\ Cardinality(HeapNodes) = HeapSize
    <3>1. HeapSize \in Int /\ 1 \in Int /\ ~(1 > HeapSize) /\ HeapSize - 1 + 1 = HeapSize
      BY ONLY PairingHeapAssumption
    <3>2. IsFiniteSet(1 .. HeapSize) /\ Cardinality(1 .. HeapSize) = HeapSize - 1 + 1
      BY ONLY <3>1, FS_Interval
    <3> QED  BY <3>1, <3>2, Zenon DEF HeapNodes
  <2> QED  BY <2>1, <2>2, <2>3, FS_Subset
<1>12. Good(HeapSize) /\ 0 \in 0 .. Len(s) /\ Len(s) - 0 <= HeapSize
  BY <1>2, <1>10, <1>11
<1>13. chain[HeapSize][From1(0)] = SubSeq(s, 0 + 1, Len(s))
  BY <1>12 DEF Good
<1>14. SubSeq(s, 0 + 1, Len(s)) = s
  BY <1>2
<1> QED  BY <1>1, <1>2, <1>13, <1>14

----------------------------------------------------------------------------
(* The inductive invariant.                                                *)

(* A removal.                                                              *)
RemovalOfType == [at : {"idle", "down", "up"}, node : NodeIds, toFree : BOOLEAN,
                  rest : NodeIds, winners : Seq(HeapNodes)]

(* The trees that a heap and a removal hold.                               *)
RootsOf(h, r) == ({h.root, r.rest} \cup ListOf(r.winners)) \ {0, r.node}

(* Some ranks show that the links are a forest's.                          *)
LinksSound(h, T, R, n) ==
    \E rank \in [HeapNodes -> Nat] :
        /\ Forest(T, R, h.child, h.sibling, h.parent, rank)
        /\ ParentsFirst(T, R, n, h.parent, h.key, rank)

(* Where each node is, and what the links of those outside the forest are. *)
Placement(h, n, hold, old, T, s) ==
    /\ T = HeapNodes \ (ListOf(s) \cup hold \cup {n})
    /\ ListOf(s) \cap hold = {} /\ n \notin ListOf(s) \cup hold
    /\ \A m \in hold \cup ({n} \ {0}) : h.sibling[m] = 0 /\ h.parent[m] = 0
    /\ old \subseteq ListOf(s)
    /\ \A m \in ListOf(s) : h.parent[m] # 0 <=> m \in old

(* The trees a removal has in hand are different ones, and it goes down    *)
(* while there are two of its rest.                                        *)
RemovalSound(h, r, T) ==
    /\ h.root \in T \cup {0, r.node}
    /\ r.rest \in T \cup {0} /\ r.winners \in Seq(T) /\ Once(r.winners)
    /\ r.rest \notin ListOf(r.winners) /\ h.root \notin ListOf(r.winners)
    /\ h.root = r.rest => h.root = 0
    /\ \A x \in RootsOf(h, r) \ {r.rest} : h.sibling[x] = 0
    /\ r.at = "down" <=> (r.rest # 0 /\ h.sibling[r.rest] # 0)
    /\ r.at = "idle" => r = NoRemoval
    /\ r.at # "idle" => r.node # 0
    /\ ~r.toFree => (r.node = h.root \/ r.at = "idle")

(* The inductive invariant, of a heap h and a removal r, with the nodes    *)
(* hold with the caller, the nodes old from before a clear, the forest T   *)
(* and the free list s.                                                    *)
HeapSound(h, r, hold, old, T, s) ==
    /\ h \in HeapOfType /\ r \in RemovalOfType
    /\ hold \subseteq HeapNodes /\ old \subseteq HeapNodes
    /\ LinksSound(h, T, RootsOf(h, r), r.node)
    /\ FreeListIs(h, s)
    /\ Placement(h, r.node, hold, old, T, s)
    /\ RemovalSound(h, r, T)
    /\ h.root # 0 => h.parent[h.root] = 0

(* There are a forest and a free list for which it holds.                  *)
HeapInv ==
    \E T \in SUBSET HeapNodes, s \in Seq(HeapNodes) :
        HeapSound(pheap, removal, held, stale, T, s)

(* Between the calls.                                                      *)
IdleSound(h, hold, old, T, s) ==
    /\ h \in HeapOfType
    /\ hold \subseteq HeapNodes /\ old \subseteq HeapNodes
    /\ LinksSound(h, T, {h.root} \ {0}, 0)
    /\ FreeListIs(h, s)
    /\ Placement(h, 0, hold, old, T, s)
    /\ h.root \in T \cup {0}
    /\ h.root # 0 => h.sibling[h.root] = 0 /\ h.parent[h.root] = 0

(* What there is when nothing is being removed.                            *)
LEMMA NoWinners ==
    /\ NoRemoval \in RemovalOfType
    /\ NoRemoval.at = "idle" /\ NoRemoval.node = 0 /\ ~NoRemoval.toFree
    /\ NoRemoval.rest = 0 /\ NoRemoval.winners = <<>>
    /\ ListOf(<<>>) = {} /\ Once(<<>>)
<1>1. 0 \in NodeIds
  BY PairingHeapAssumption DEF NodeIds
<1> QED  BY <1>1 DEF RemovalOfType, NoRemoval, ListOf, Once

(* A heap between the calls is one with no removal.                        *)
LEMMA IdleMeans ==
    ASSUME NEW h, NEW hold, NEW old, NEW T, NEW s
    PROVE  HeapSound(h, NoRemoval, hold, old, T, s) <=> IdleSound(h, hold, old, T, s)
<1>1. RootsOf(h, NoRemoval) = {h.root} \ {0}
  BY NoWinners DEF RootsOf
<1>2. RemovalSound(h, NoRemoval, T) <=>
        (h.root \in T \cup {0} /\ (h.root # 0 => h.sibling[h.root] = 0))
  <2>1. <<>> \in Seq(T)
    OBVIOUS
  <2> QED  BY <1>1, <2>1, NoWinners DEF RemovalSound
<1>3. Placement(h, NoRemoval.node, hold, old, T, s) <=> Placement(h, 0, hold, old, T, s)
  BY NoWinners
<1> QED  BY <1>1, <1>2, <1>3, NoWinners DEF HeapSound, IdleSound

(* The fields of a heap.                                                   *)
LEMMA HeapFields ==
    ASSUME NEW h \in HeapOfType
    PROVE  /\ h.child \in [HeapNodes -> NodeIds] /\ h.sibling \in [HeapNodes -> NodeIds]
           /\ h.parent \in [HeapNodes -> NodeIds] /\ h.key \in [HeapNodes -> Keys]
           /\ h.root \in NodeIds /\ h.freeHead \in NodeIds /\ h.freeTail \in NodeIds
           /\ HeapNodes \subseteq NodeIds /\ 0 \in NodeIds /\ 0 \notin HeapNodes
           /\ NodeIds = HeapNodes \cup {0}
<1>1. /\ HeapNodes \subseteq NodeIds /\ 0 \in NodeIds /\ 0 \notin HeapNodes
      /\ NodeIds = HeapNodes \cup {0}
  BY PairingHeapAssumption DEF NodeIds, HeapNodes
<1> QED  BY <1>1 DEF HeapOfType

(* A list stays while the links of its nodes do.                           *)
LEMMA FreeListStays ==
    ASSUME NEW h, NEW g, NEW s, FreeListIs(h, s),
           g.freeHead = h.freeHead, g.freeTail = h.freeTail,
           \A x \in ListOf(s) : g.sibling[x] = h.sibling[x]
    PROVE  FreeListIs(g, s)
BY DEF FreeListIs, ListOf

(* ph_new_node takes the first node of the free list.                      *)
LEMMA HeadTakenDoes ==
    ASSUME NEW h \in HeapOfType, NEW s, FreeListIs(h, s), h.freeHead # 0
    PROVE  /\ HeadTaken(h) \in HeapOfType
           /\ HeadTaken(h).child = h.child /\ HeadTaken(h).sibling = h.sibling
           /\ HeadTaken(h).parent = h.parent /\ HeadTaken(h).key = h.key
           /\ HeadTaken(h).root = h.root
           /\ s # <<>> /\ h.freeHead = Head(s)
           /\ FreeListIs(HeadTaken(h), Tail(s))
<1>1. s \in Seq(HeapNodes) /\ s # <<>> /\ h.freeHead = s[1] /\ Once(s)
      /\ h.freeTail = s[Len(s)]
      /\ \A i \in 1 .. Len(s) : h.sibling[s[i]] = IF i < Len(s) THEN s[i + 1] ELSE 0
  BY DEF FreeListIs
<1>2. /\ Head(s) = s[1] /\ Tail(s) \in Seq(HeapNodes) /\ Len(s) \in Nat \ {0}
      /\ Len(Tail(s)) = Len(s) - 1
      /\ \A i \in 1 .. Len(Tail(s)) : Tail(s)[i] = s[i + 1]
      /\ Once(Tail(s)) /\ s[1] \in HeapNodes
  BY <1>1, HeadTailProperties, TailDropsHead
<1> DEFINE next == h.sibling[h.freeHead]
<1>3. next = IF Len(s) > 1 THEN s[2] ELSE 0
  BY <1>1, <1>2
<1>4. next \in NodeIds /\ h.freeHead \in HeapNodes
  BY <1>1, <1>2, HeapFields
<1>5. PICK g : g = HeadTaken(h)
  OBVIOUS
<1>6. /\ g \in HeapOfType
      /\ g.child = h.child /\ g.sibling = h.sibling /\ g.parent = h.parent
      /\ g.key = h.key /\ g.root = h.root
      /\ g.freeHead = next /\ g.freeTail = IF next = 0 THEN 0 ELSE h.freeTail
  <2> HIDE DEF next
  <2>1. g = [h EXCEPT !.freeHead = next, !.freeTail = IF next = 0 THEN 0 ELSE @]
    BY <1>5 DEF HeadTaken, next
  <2> QED  BY <1>4, <2>1, HeapFields DEF HeapOfType
<1> HIDE DEF next
<1>7. FreeListIs(g, Tail(s))
  <2>1. Tail(s) = <<>> <=> Len(s) = 1
    <3>1. \A t \in Seq(HeapNodes) : t = <<>> <=> Len(t) = 0
      OBVIOUS
    <3> DEFINE t == Tail(s)
    <3>2. t \in Seq(HeapNodes) /\ Len(t) = Len(s) - 1 /\ Len(s) \in Nat
      BY <1>2
    <3> HIDE DEF t
    <3>3. t = <<>> <=> Len(t) = 0
      BY <3>1, <3>2, Zenon
    <3>4. Len(t) = 0 <=> Len(s) = 1
      BY <3>2
    <3> QED  BY <3>3, <3>4, Zenon DEF t
  <2>2. Len(s) > 1 => s[2] \in HeapNodes /\ s[2] # 0 /\ Tail(s)[1] = s[2]
                       /\ Tail(s)[Len(s) - 1] = s[Len(s)]
    BY <1>1, <1>2, HeapFields
  <2>3. g.freeHead = IF Tail(s) = <<>> THEN 0 ELSE Tail(s)[1]
    BY <1>2, <1>3, <1>6, <2>1, <2>2
  <2>4. g.freeTail = IF Tail(s) = <<>> THEN 0 ELSE Tail(s)[Len(Tail(s))]
    BY <1>1, <1>2, <1>3, <1>6, <2>1, <2>2
  <2>5. ASSUME NEW i \in 1 .. Len(Tail(s))
        PROVE  g.sibling[Tail(s)[i]] = IF i < Len(Tail(s)) THEN Tail(s)[i + 1] ELSE 0
    <3>1. i + 1 \in 1 .. Len(s) /\ Tail(s)[i] = s[i + 1] /\ i \in Nat
      BY <1>2
    <3>2. h.sibling[s[i + 1]] = IF i + 1 < Len(s) THEN s[i + 2] ELSE 0
      BY <1>1, <3>1
    <3>3. i < Len(Tail(s)) => Tail(s)[i + 1] = s[i + 2]
      BY <1>2, <3>1
    <3> QED  BY <1>2, <1>6, <3>1, <3>2, <3>3
  <2> QED  BY <1>2, <2>3, <2>4, <2>5 DEF FreeListIs
<1> QED  BY <1>1, <1>2, <1>5, <1>6, <1>7

(* A node that the tail leads to makes the list longer.                    *)
LEMMA FreeListGrows ==
    ASSUME NEW h, NEW g, NEW s, FreeListIs(h, s), NEW n \in HeapNodes, n \notin ListOf(s),
           g.freeHead = IF h.freeHead = 0 THEN n ELSE h.freeHead,
           g.freeTail = n, g.sibling[n] = 0,
           \A x \in ListOf(s) : g.sibling[x] = IF x = h.freeTail THEN n ELSE h.sibling[x]
    PROVE  FreeListIs(g, Append(s, n))
<1> DEFINE t == Append(s, n)
<1>1. /\ s \in Seq(HeapNodes) /\ Once(s) /\ Len(s) \in Nat
      /\ h.freeHead = IF s = <<>> THEN 0 ELSE s[1]
      /\ h.freeTail = IF s = <<>> THEN 0 ELSE s[Len(s)]
      /\ \A i \in 1 .. Len(s) : h.sibling[s[i]] = IF i < Len(s) THEN s[i + 1] ELSE 0
  BY DEF FreeListIs
<1>2. t \in Seq(HeapNodes) /\ Once(t)
  BY <1>1, AppendAdds
<1>3. /\ Len(t) = Len(s) + 1 /\ t[Len(s) + 1] = n
      /\ \A i \in 1 .. Len(s) : t[i] = s[i]
  BY <1>1, AppendProperties
<1>4. s = <<>> <=> Len(s) = 0
  BY <1>1, EmptySeq
<1> HIDE DEF t
<1>5. t # <<>>
  <2>1. \A u \in Seq(HeapNodes) : u = <<>> => Len(u) = 0
    OBVIOUS
  <2>2. t = <<>> => Len(t) = 0
    BY <1>2, <2>1, Zenon
  <2>3. Len(t) # 0
    BY <1>1, <1>3
  <2> QED  BY <2>2, <2>3, Zenon
<1>6. 0 \notin HeapNodes /\ \A i \in 1 .. Len(s) : s[i] \in HeapNodes /\ s[i] \in ListOf(s)
  <2>1. 0 \notin HeapNodes
    BY DEF HeapNodes
  <2>2. \A i \in 1 .. Len(s) : s[i] \in HeapNodes
    BY <1>1
  <2> QED  BY <2>1, <2>2 DEF ListOf
<1>7. g.freeHead = t[1]
  <2>1. CASE Len(s) = 0
    BY <1>1, <1>3, <1>4, <2>1
  <2>2. CASE Len(s) # 0
    <3>1. 1 \in 1 .. Len(s) /\ s # <<>>
      BY <1>1, <1>4, <2>2
    <3>2. h.freeHead = s[1] /\ s[1] # 0 /\ t[1] = s[1]
      BY <1>1, <1>3, <1>6, <3>1
    <3> QED  BY <3>2
  <2> QED  BY <2>1, <2>2
<1>8. g.freeTail = t[Len(t)]
  BY <1>3
<1>9. ASSUME NEW i \in 1 .. Len(t)
      PROVE  g.sibling[t[i]] = IF i < Len(t) THEN t[i + 1] ELSE 0
  <2>1. CASE i = Len(s) + 1
    BY <1>1, <1>3, <2>1
  <2>2. CASE i = Len(s)
    <3>1. i \in 1 .. Len(s) /\ s # <<>>
      BY <1>1, <1>4, <2>2
    <3>2. t[i] = s[i] /\ s[i] = h.freeTail /\ s[i] \in ListOf(s)
      BY <1>1, <1>3, <1>6, <2>2, <3>1
    <3> QED  BY <1>1, <1>3, <2>2, <3>2
  <2>3. CASE i < Len(s)
    <3>1. i \in 1 .. Len(s) /\ Len(s) \in 1 .. Len(s) /\ i + 1 \in 1 .. Len(s) /\ s # <<>>
      BY <1>1, <1>4, <2>3
    <3>2. s[i] # s[Len(s)]
      BY <1>1, <2>3, <3>1 DEF Once
    <3>3. g.sibling[s[i]] = h.sibling[s[i]]
      BY <1>1, <1>6, <3>1, <3>2
    <3>4. h.sibling[s[i]] = s[i + 1]
      BY <1>1, <2>3, <3>1
    <3> QED  BY <1>1, <1>3, <2>3, <3>1, <3>3, <3>4
  <2> QED  BY <1>1, <1>3, <2>1, <2>2, <2>3
<1>10. FreeListIs(g, t)
  BY <1>2, <1>5, <1>7, <1>8, <1>9 DEF FreeListIs
<1> QED  BY <1>10 DEF t

(* ph_free_node's effect: the links of other nodes than the tail stay.     *)
LEMMA FreeLastDoes ==
    ASSUME NEW h \in HeapOfType, NEW n \in HeapNodes
    PROVE  /\ FreeLast(h, n) \in HeapOfType
           /\ FreeLast(h, n).child = h.child /\ FreeLast(h, n).parent = h.parent
           /\ FreeLast(h, n).key = h.key /\ FreeLast(h, n).root = h.root
           /\ FreeLast(h, n).freeHead = IF h.freeHead = 0 THEN n ELSE h.freeHead
           /\ FreeLast(h, n).freeTail = n
           /\ \A x \in HeapNodes :
                FreeLast(h, n).sibling[x] = IF x = h.freeTail THEN n ELSE h.sibling[x]
<1> DEFINE links == IF h.freeTail = 0 THEN h.sibling ELSE [h.sibling EXCEPT ![h.freeTail] = n]
<1>1. links \in [HeapNodes -> NodeIds]
  BY HeapFields
<1>2. \A x \in HeapNodes : links[x] = IF x = h.freeTail THEN n ELSE h.sibling[x]
  BY HeapFields
<1>3. PICK g : g = FreeLast(h, n)
  OBVIOUS
<1>4. g = [h EXCEPT !.sibling = links, !.freeHead = IF @ = 0 THEN n ELSE @, !.freeTail = n]
  BY <1>3 DEF FreeLast
<1> HIDE DEF links
<1>5. n \in NodeIds
  BY HeapFields
<1>6. /\ g \in HeapOfType
      /\ g.child = h.child /\ g.parent = h.parent /\ g.key = h.key /\ g.root = h.root
      /\ g.freeHead = IF h.freeHead = 0 THEN n ELSE h.freeHead
      /\ g.freeTail = n /\ g.sibling = links
  BY <1>1, <1>4, <1>5, HeapFields DEF HeapOfType
<1> QED  BY <1>2, <1>3, <1>6

(* ph_clear makes one list of all nodes, in order.                         *)
LEMMA ClearedDoes ==
    ASSUME NEW h \in HeapOfType
    PROVE  /\ Cleared(h) \in HeapOfType
           /\ Cleared(h).parent = h.parent /\ Cleared(h).key = h.key
           /\ Cleared(h).root = 0
           /\ FreeListIs(Cleared(h), [i \in HeapNodes |-> i])
           /\ ListOf([i \in HeapNodes |-> i]) = HeapNodes
<1> DEFINE links == [n \in HeapNodes |-> IF n = HeapSize THEN 0 ELSE n + 1]
           s == [i \in HeapNodes |-> i]
<1>1. HeapSize \in Nat \ {0} /\ HeapNodes = 1 .. HeapSize /\ NodeIds = 0 .. HeapSize
  BY PairingHeapAssumption DEF HeapNodes, NodeIds
<1>2. links \in [HeapNodes -> NodeIds]
  BY <1>1
<1>3. PICK g : g = Cleared(h)
  OBVIOUS
<1>4. g = [h EXCEPT !.root = 0, !.freeHead = 1, !.freeTail = HeapSize, !.sibling = links]
  BY <1>3 DEF Cleared
<1>5. \A n \in HeapNodes : links[n] = IF n = HeapSize THEN 0 ELSE n + 1
  OBVIOUS
<1> HIDE DEF links
<1>6. 0 \in NodeIds /\ 1 \in NodeIds /\ HeapSize \in NodeIds
  BY <1>1
<1>7. /\ g \in HeapOfType
      /\ g.parent = h.parent /\ g.key = h.key /\ g.root = 0
      /\ g.freeHead = 1 /\ g.freeTail = HeapSize /\ g.sibling = links
  BY <1>2, <1>4, <1>6, HeapFields DEF HeapOfType
<1>8. s \in Seq(HeapNodes) /\ Len(s) = HeapSize /\ \A i \in 1 .. HeapSize : s[i] = i
  BY <1>1, IsASeq
<1>9. s # <<>>
  BY <1>1, <1>8, EmptySeq
<1> HIDE DEF s
<1>10. Once(s) /\ ListOf(s) = HeapNodes
  BY <1>1, <1>8 DEF Once, ListOf
<1>11. ASSUME NEW i \in 1 .. Len(s)
       PROVE  g.sibling[s[i]] = IF i < Len(s) THEN s[i + 1] ELSE 0
  BY <1>1, <1>5, <1>7, <1>8
<1>12. g.freeHead = s[1] /\ g.freeTail = s[Len(s)]
  BY <1>1, <1>7, <1>8
<1>13. FreeListIs(g, s)
  BY <1>8, <1>9, <1>10, <1>11, <1>12 DEF FreeListIs
<1> QED  BY <1>3, <1>7, <1>10, <1>13 DEF s

----------------------------------------------------------------------------
(* The calls between removals.                                             *)

(* From h to g, a heap with nodes T gets the node n.                       *)
NodeInserted(h, g, n, k, T) ==
    /\ g \in HeapOfType
    /\ g.key = [h.key EXCEPT ![n] = k]
    /\ g.freeHead = h.freeHead /\ g.freeTail = h.freeTail
    /\ \A x \in HeapNodes \ (T \cup {n}) :
          g.sibling[x] = h.sibling[x] /\ g.parent[x] = h.parent[x]
    /\ LinksSound(g, T \cup {n}, {g.root} \ {0}, 0)
    /\ g.root \in T \cup {n}
    /\ g.root = IF h.root = 0 THEN n ELSE IF k <= h.key[h.root] THEN n ELSE h.root
    /\ g.sibling[g.root] = 0 /\ g.parent[g.root] = 0

(* ph_insert_node does that.                                               *)
LEMMA InsertedDoes ==
    ASSUME NEW h \in HeapOfType, NEW T, NEW n \in HeapNodes, n \notin T, NEW k \in Keys,
           LinksSound(h, T, {h.root} \ {0}, 0), h.root \in T \cup {0},
           h.root # 0 => h.sibling[h.root] = 0 /\ h.parent[h.root] = 0
    PROVE  NodeInserted(h, Inserted(h, n, k), n, k, T)
<1>1. PICK rank \in [HeapNodes -> Nat] :
        /\ Forest(T, {h.root} \ {0}, h.child, h.sibling, h.parent, rank)
        /\ ParentsFirst(T, {h.root} \ {0}, 0, h.parent, h.key, rank)
  BY DEF LinksSound
<1>2. T \subseteq HeapNodes /\ 0 \notin HeapNodes /\ n # 0
  BY <1>1, HeapFields DEF Forest
<1>3. PICK clean : clean = [h EXCEPT !.child[n] = 0, !.sibling[n] = 0, !.parent[n] = 0,
                                     !.key[n] = k]
  OBVIOUS
<1>4. /\ clean \in HeapOfType
      /\ clean.child = [h.child EXCEPT ![n] = 0]
      /\ clean.sibling = [h.sibling EXCEPT ![n] = 0]
      /\ clean.parent = [h.parent EXCEPT ![n] = 0]
      /\ clean.key = [h.key EXCEPT ![n] = k]
      /\ clean.root = h.root /\ clean.freeHead = h.freeHead /\ clean.freeTail = h.freeTail
  BY <1>3, HeapFields DEF HeapOfType
<1>5. /\ clean.child[n] = 0 /\ clean.sibling[n] = 0 /\ clean.parent[n] = 0
      /\ \A x \in HeapNodes \ {n} :
            /\ clean.child[x] = h.child[x] /\ clean.sibling[x] = h.sibling[x]
            /\ clean.parent[x] = h.parent[x] /\ clean.key[x] = h.key[x]
  BY <1>4, HeapFields
<1> DEFINE U == T \cup {n}
           Both == ({h.root} \ {0}) \cup {n}
<1>6. /\ Forest(U, Both, clean.child, clean.sibling, clean.parent, rank)
      /\ ParentsFirst(U, Both, 0, clean.parent, clean.key, rank)
  <2>1. \A x \in T : /\ clean.child[x] = h.child[x] /\ clean.sibling[x] = h.sibling[x]
                     /\ clean.parent[x] = h.parent[x] /\ clean.key[x] = h.key[x]
    BY <1>2, <1>5
  <2>2. 0 # n /\ n \in HeapNodes /\ n \notin T
    BY <1>2
  <2>3. NodeBeside(T, n, h.child, h.sibling, h.parent, h.key,
                   clean.child, clean.sibling, clean.parent, clean.key)
    BY <1>5, <2>1 DEF NodeBeside
  <2> QED  BY <1>1, <2>2, <2>3, NodeComes
<1> HIDE DEF U, Both
<1>7. h.root \in Both \cup {0} /\ n \in Both \cup {0} /\ (h.root = n => h.root = 0)
  BY <1>2 DEF Both
<1>8. /\ h.root # 0 => clean.sibling[h.root] = 0 /\ clean.parent[h.root] = 0
      /\ n # 0 => clean.sibling[n] = 0
  BY <1>2, <1>5
<1>9. PICK g, w : g = Merge(clean, h.root, n)[1] /\ w = Merge(clean, h.root, n)[2]
  OBVIOUS
<1>10. TreesMerged(clean, g, w, h.root, n, U, Both, 0)
  BY <1>4, <1>6, <1>7, <1>8, <1>9, MergeDoes
<1>11. PICK f : f = Inserted(h, n, k)
  OBVIOUS
<1>12. f = [g EXCEPT !.root = w]
  BY <1>3, <1>9, <1>11 DEF Inserted
<1>13. w \in {h.root, n} /\ w # 0 /\ w \in HeapNodes /\ w \in NodeIds /\ g \in HeapOfType
  BY <1>2, <1>10, HeapFields DEF TreesMerged
<1>14. /\ f \in HeapOfType
       /\ f.child = g.child /\ f.sibling = g.sibling /\ f.parent = g.parent /\ f.key = g.key
       /\ f.root = w /\ f.freeHead = g.freeHead /\ f.freeTail = g.freeTail
  BY <1>12, <1>13, HeapFields DEF HeapOfType
<1>15. (Both \ {h.root, n}) \cup ({w} \ {0}) = {w} \ {0}
  BY DEF Both
<1>16. LinksSound(f, U, {w} \ {0}, 0)
  BY <1>10, <1>14, <1>15 DEF TreesMerged, LinksSound
<1>17. ASSUME NEW x \in HeapNodes \ U
       PROVE  f.sibling[x] = h.sibling[x] /\ f.parent[x] = h.parent[x]
  <2>1. x \in HeapNodes \ {h.root, n}
    BY <1>2 DEF U
  <2> QED  BY <1>5, <1>10, <1>14, <2>1 DEF TreesMerged
<1>18. f.sibling[w] = 0 /\ f.parent[w] = 0
  <2>1. g.sibling[w] = 0 /\ g.parent[w] = clean.parent[w]
    BY <1>10, <1>13 DEF TreesMerged
  <2>2. clean.parent[w] = 0
    BY <1>5, <1>8, <1>13
  <2> QED  BY <1>14, <2>1, <2>2
<1>19. f.key = [h.key EXCEPT ![n] = k]
  BY <1>4, <1>10, <1>14 DEF TreesMerged
<1>20. f.freeHead = h.freeHead /\ f.freeTail = h.freeTail
  BY <1>4, <1>10, <1>14 DEF TreesMerged
<1>21. w \in U
  BY <1>2, <1>13 DEF U
<1>22. w = IF h.root = 0 THEN n ELSE IF k <= h.key[h.root] THEN n ELSE h.root
  <2>1. CASE h.root = 0
    BY <1>13, <2>1
  <2>2. CASE h.root # 0
    <3>1. w = IF clean.key[h.root] < clean.key[n] THEN h.root ELSE n
      BY <1>2, <1>10, <2>2 DEF TreesMerged
    <3>2. h.root \in HeapNodes \ {n}
      BY <1>2, <2>2
    <3>3. clean.key[h.root] = h.key[h.root] /\ clean.key[n] = k
      BY <1>4, <1>5, <3>2, HeapFields
    <3>4. h.key[h.root] \in Int /\ k \in Int
      BY <3>2, HeapFields, PairingHeapAssumption
    <3> QED  BY <2>2, <3>1, <3>3, <3>4
  <2> QED  BY <2>1, <2>2
<1>23. NodeInserted(h, f, n, k, T)
  BY <1>14, <1>16, <1>17, <1>18, <1>19, <1>20, <1>21, <1>22 DEF NodeInserted, U
<1> QED  BY <1>11, <1>23

(* Insertion of a node from the free list.                                 *)
LEMMA InsertKeeps ==
    ASSUME NEW h, NEW hold, NEW old, NEW T, NEW s, IdleSound(h, hold, old, T, s),
           h.freeHead # 0, NEW k \in Keys
    PROVE  LET n == h.freeHead
           IN  /\ IdleSound(Inserted(HeadTaken(h), n, k), hold, old \ {n}, T \cup {n}, Tail(s))
               /\ NodeInserted(HeadTaken(h), Inserted(HeadTaken(h), n, k), n, k, T)
               /\ n \in HeapNodes \ T
<1>1. /\ h \in HeapOfType /\ hold \subseteq HeapNodes /\ old \subseteq HeapNodes
      /\ LinksSound(h, T, {h.root} \ {0}, 0)
      /\ FreeListIs(h, s) /\ Placement(h, 0, hold, old, T, s)
      /\ h.root \in T \cup {0}
      /\ h.root # 0 => h.sibling[h.root] = 0 /\ h.parent[h.root] = 0
  BY DEF IdleSound
<1>2. PICK g, n : g = HeadTaken(h) /\ n = h.freeHead
  OBVIOUS
<1>3. /\ g \in HeapOfType /\ g.child = h.child /\ g.sibling = h.sibling
      /\ g.parent = h.parent /\ g.key = h.key /\ g.root = h.root
      /\ s # <<>> /\ n = Head(s) /\ FreeListIs(g, Tail(s))
  BY <1>1, <1>2, HeadTakenDoes
<1>4. s \in Seq(HeapNodes) /\ Once(s)
  BY <1>1 DEF FreeListIs
<1>5. PICK t : t = Tail(s)
  OBVIOUS
<1>6. /\ n \in HeapNodes /\ n \in ListOf(s)
      /\ t \in Seq(HeapNodes) /\ Once(t) /\ ListOf(t) = ListOf(s) \ {n}
  BY <1>3, <1>4, <1>5, TailDropsHead
<1>7. /\ T = HeapNodes \ (ListOf(s) \cup hold \cup {0})
      /\ ListOf(s) \cap hold = {} /\ 0 \notin ListOf(s) \cup hold
      /\ \A m \in hold : h.sibling[m] = 0 /\ h.parent[m] = 0
      /\ old \subseteq ListOf(s)
      /\ \A m \in ListOf(s) : h.parent[m] # 0 <=> m \in old
  BY <1>1 DEF Placement
<1>8. n \notin T
  BY <1>6, <1>7
<1>9. LinksSound(g, T, {g.root} \ {0}, 0)
  BY <1>1, <1>3 DEF LinksSound
<1>10. PICK f : f = Inserted(g, n, k)
  OBVIOUS
<1>11. g.root \in T \cup {0} /\ (g.root # 0 => g.sibling[g.root] = 0 /\ g.parent[g.root] = 0)
  BY <1>1, <1>3
<1>12. NodeInserted(g, f, n, k, T)
  BY <1>3, <1>6, <1>8, <1>9, <1>10, <1>11, InsertedDoes
<1>13. /\ f \in HeapOfType /\ f.freeHead = g.freeHead /\ f.freeTail = g.freeTail
       /\ \A x \in HeapNodes \ (T \cup {n}) :
             f.sibling[x] = g.sibling[x] /\ f.parent[x] = g.parent[x]
       /\ LinksSound(f, T \cup {n}, {f.root} \ {0}, 0)
       /\ f.root \in T \cup {n} /\ f.sibling[f.root] = 0 /\ f.parent[f.root] = 0
  BY <1>12 DEF NodeInserted
<1>14. ListOf(t) \subseteq HeapNodes
  BY <1>6 DEF ListOf
<1>15. FreeListIs(f, t)
  <2>1. \A x \in ListOf(t) : f.sibling[x] = g.sibling[x]
    BY <1>6, <1>7, <1>13, <1>14
  <2>2. FreeListIs(g, t) /\ f.freeHead = g.freeHead /\ f.freeTail = g.freeTail
    BY <1>3, <1>5, <1>13
  <2> QED  BY <2>1, <2>2, FreeListStays
<1>16. Placement(f, 0, hold, old \ {n}, T \cup {n}, t)
  <2>1. T \cup {n} = HeapNodes \ (ListOf(t) \cup hold \cup {0})
    BY <1>6, <1>7, HeapFields, <1>1
  <2>2. \A m \in hold : f.sibling[m] = 0 /\ f.parent[m] = 0
    BY <1>1, <1>3, <1>6, <1>7, <1>13
  <2>3. ASSUME NEW m \in ListOf(t) PROVE f.parent[m] # 0 <=> m \in old \ {n}
    <3>1. f.parent[m] = h.parent[m] /\ m # n /\ m \in ListOf(s)
      BY <1>3, <1>6, <1>7, <1>13, <1>14
    <3> QED  BY <1>7, <3>1
  <2> QED  BY <1>6, <1>7, <2>1, <2>2, <2>3 DEF Placement
<1>17. IdleSound(f, hold, old \ {n}, T \cup {n}, t)
  BY <1>1, <1>13, <1>15, <1>16 DEF IdleSound
<1> QED  BY <1>2, <1>5, <1>6, <1>8, <1>10, <1>12, <1>17

(* Insertion of a node that the caller holds.                              *)
LEMMA ReinsertKeeps ==
    ASSUME NEW h, NEW hold, NEW old, NEW T, NEW s, IdleSound(h, hold, old, T, s),
           NEW n \in hold, NEW k \in Keys
    PROVE  /\ IdleSound(Inserted(h, n, k), hold \ {n}, old, T \cup {n}, s)
           /\ NodeInserted(h, Inserted(h, n, k), n, k, T)
           /\ n \in HeapNodes \ T
<1>1. /\ h \in HeapOfType /\ hold \subseteq HeapNodes /\ old \subseteq HeapNodes
      /\ LinksSound(h, T, {h.root} \ {0}, 0)
      /\ FreeListIs(h, s) /\ Placement(h, 0, hold, old, T, s)
      /\ h.root \in T \cup {0}
      /\ h.root # 0 => h.sibling[h.root] = 0 /\ h.parent[h.root] = 0
  BY DEF IdleSound
<1>2. ListOf(s) \subseteq HeapNodes
  BY <1>1 DEF FreeListIs, ListOf
<1>3. /\ T = HeapNodes \ (ListOf(s) \cup hold \cup {0})
      /\ ListOf(s) \cap hold = {} /\ 0 \notin ListOf(s) \cup hold
      /\ \A m \in hold : h.sibling[m] = 0 /\ h.parent[m] = 0
      /\ old \subseteq ListOf(s)
      /\ \A m \in ListOf(s) : h.parent[m] # 0 <=> m \in old
  BY <1>1 DEF Placement
<1>4. n \in HeapNodes \ T /\ n # 0
  BY <1>1, <1>3
<1>5. PICK f : f = Inserted(h, n, k)
  OBVIOUS
<1>6. NodeInserted(h, f, n, k, T)
  BY <1>1, <1>4, <1>5, InsertedDoes
<1>7. /\ f \in HeapOfType /\ f.freeHead = h.freeHead /\ f.freeTail = h.freeTail
      /\ \A x \in HeapNodes \ (T \cup {n}) :
            f.sibling[x] = h.sibling[x] /\ f.parent[x] = h.parent[x]
      /\ LinksSound(f, T \cup {n}, {f.root} \ {0}, 0)
      /\ f.root \in T \cup {n} /\ f.sibling[f.root] = 0 /\ f.parent[f.root] = 0
  BY <1>6 DEF NodeInserted
<1>8. \A x \in ListOf(s) \cup (hold \ {n}) : x \in HeapNodes \ (T \cup {n})
  BY <1>1, <1>2, <1>3
<1>9. FreeListIs(f, s)
  BY <1>1, <1>7, <1>8, FreeListStays
<1>10. Placement(f, 0, hold \ {n}, old, T \cup {n}, s)
  <2>1. T \cup {n} = HeapNodes \ (ListOf(s) \cup (hold \ {n}) \cup {0})
    BY <1>3, <1>4
  <2>2. \A m \in hold \ {n} : f.sibling[m] = 0 /\ f.parent[m] = 0
    BY <1>3, <1>7, <1>8
  <2>3. \A m \in ListOf(s) : f.parent[m] # 0 <=> m \in old
    BY <1>3, <1>7, <1>8
  <2> QED  BY <1>3, <2>1, <2>2, <2>3 DEF Placement
<1>11. IdleSound(f, hold \ {n}, old, T \cup {n}, s)
  BY <1>1, <1>7, <1>9, <1>10 DEF IdleSound
<1> QED  BY <1>4, <1>5, <1>6, <1>11

(* A node given back is the last of the free list.                         *)
LEMMA ReleaseKeeps ==
    ASSUME NEW h, NEW hold, NEW old, NEW T, NEW s, IdleSound(h, hold, old, T, s),
           NEW n \in hold
    PROVE  IdleSound(FreeLast(h, n), hold \ {n}, old, T, Append(s, n))
<1>1. /\ h \in HeapOfType /\ hold \subseteq HeapNodes /\ old \subseteq HeapNodes
      /\ LinksSound(h, T, {h.root} \ {0}, 0)
      /\ FreeListIs(h, s) /\ Placement(h, 0, hold, old, T, s)
      /\ h.root \in T \cup {0}
      /\ h.root # 0 => h.sibling[h.root] = 0 /\ h.parent[h.root] = 0
  BY DEF IdleSound
<1>2. /\ s \in Seq(HeapNodes) /\ Once(s) /\ Len(s) \in Nat
      /\ h.freeTail = IF s = <<>> THEN 0 ELSE s[Len(s)]
  BY <1>1 DEF FreeListIs
<1>3. /\ T = HeapNodes \ (ListOf(s) \cup hold \cup {0})
      /\ ListOf(s) \cap hold = {} /\ 0 \notin ListOf(s) \cup hold
      /\ \A m \in hold : h.sibling[m] = 0 /\ h.parent[m] = 0
      /\ old \subseteq ListOf(s)
      /\ \A m \in ListOf(s) : h.parent[m] # 0 <=> m \in old
  BY <1>1 DEF Placement
<1>4. n \in HeapNodes /\ n \notin ListOf(s) /\ n \notin T
  BY <1>1, <1>3
<1>5. ListOf(s) \subseteq HeapNodes
  BY <1>2 DEF ListOf
<1>6. h.freeTail \in ListOf(s) \cup {0}
  <2>1. s # <<>> => Len(s) \in 1 .. Len(s)
    BY <1>2, EmptySeq
  <2> QED  BY <1>2, <2>1 DEF ListOf
<1>7. PICK g : g = FreeLast(h, n)
  OBVIOUS
<1>8. /\ g \in HeapOfType /\ g.child = h.child /\ g.parent = h.parent
      /\ g.key = h.key /\ g.root = h.root
      /\ g.freeHead = IF h.freeHead = 0 THEN n ELSE h.freeHead
      /\ g.freeTail = n
      /\ \A x \in HeapNodes : g.sibling[x] = IF x = h.freeTail THEN n ELSE h.sibling[x]
  BY <1>1, <1>4, <1>7, FreeLastDoes
<1>9. \A x \in HeapNodes \ ListOf(s) : g.sibling[x] = h.sibling[x]
  BY <1>6, <1>8, HeapFields, <1>1
<1>10. PICK t : t = Append(s, n)
  OBVIOUS
<1>11. FreeListIs(g, t)
  <2>1. g.sibling[n] = 0
    BY <1>3, <1>4, <1>9
  <2> QED  BY <1>1, <1>4, <1>5, <1>8, <1>10, <2>1, FreeListGrows
<1>12. ListOf(t) = ListOf(s) \cup {n}
  BY <1>2, <1>4, <1>10, AppendAdds
<1>13. Placement(g, 0, hold \ {n}, old, T, t)
  <2>1. T = HeapNodes \ (ListOf(t) \cup (hold \ {n}) \cup {0})
    BY <1>3, <1>12
  <2>2. \A m \in hold \ {n} : g.sibling[m] = 0 /\ g.parent[m] = 0
    BY <1>1, <1>3, <1>8, <1>9
  <2>3. \A m \in ListOf(t) : g.parent[m] # 0 <=> m \in old
    BY <1>3, <1>4, <1>8, <1>12
  <2> QED  BY <1>3, <1>12, <2>1, <2>2, <2>3 DEF Placement
<1>14. LinksSound(g, T, {g.root} \ {0}, 0)
  <2>1. PICK rank \in [HeapNodes -> Nat] :
          /\ Forest(T, {h.root} \ {0}, h.child, h.sibling, h.parent, rank)
          /\ ParentsFirst(T, {h.root} \ {0}, 0, h.parent, h.key, rank)
    BY <1>1 DEF LinksSound
  <2>2. T \subseteq HeapNodes \ ListOf(s)
    BY <1>3
  <2>3. LinksKept(T, {h.root} \ {0}, h.child, h.sibling, h.parent,
                  g.child, g.sibling, g.parent)
    BY <1>8, <1>9, <2>2 DEF LinksKept
  <2> QED  BY <1>8, <2>1, <2>3, SameLinks DEF LinksSound
<1>15. h.root # 0 => g.sibling[h.root] = 0 /\ g.parent[h.root] = 0
  BY <1>1, <1>3, <1>8, <1>9
<1>16. IdleSound(g, hold \ {n}, old, T, t)
  BY <1>1, <1>8, <1>11, <1>13, <1>14, <1>15 DEF IdleSound
<1> QED  BY <1>7, <1>10, <1>16

(* A cleared heap has no nodes; parent links are those of before.          *)
LEMMA ClearKeeps ==
    ASSUME NEW h \in HeapOfType
    PROVE  IdleSound(Cleared(h), {}, {n \in HeapNodes : h.parent[n] # 0}, {},
                     [i \in HeapNodes |-> i])
<1>1. PICK g, s, old : /\ g = Cleared(h) /\ s = [i \in HeapNodes |-> i]
                       /\ old = {n \in HeapNodes : h.parent[n] # 0}
  OBVIOUS
<1>2. /\ g \in HeapOfType /\ g.parent = h.parent /\ g.root = 0
      /\ FreeListIs(g, s) /\ ListOf(s) = HeapNodes
  BY <1>1, ClearedDoes
<1>3. LinksSound(g, {}, {g.root} \ {0}, 0)
  <2>1. [n \in HeapNodes |-> 0] \in [HeapNodes -> Nat]
    OBVIOUS
  <2>2. {g.root} \ {0} = {}
    BY <1>2
  <2>3. Forest({}, {}, g.child, g.sibling, g.parent, [n \in HeapNodes |-> 0])
    BY DEF Forest
  <2>4. ParentsFirst({}, {}, 0, g.parent, g.key, [n \in HeapNodes |-> 0])
    BY DEF ParentsFirst
  <2> QED  BY <2>1, <2>2, <2>3, <2>4 DEF LinksSound
<1>4. Placement(g, 0, {}, old, {}, s)
  <2>1. 0 \notin HeapNodes
    BY DEF HeapNodes
  <2>2. \A m \in HeapNodes : g.parent[m] # 0 <=> m \in old
    BY <1>1, <1>2
  <2>3. old \subseteq HeapNodes
    BY <1>1
  <2> QED  BY <1>2, <2>1, <2>2, <2>3 DEF Placement
<1>5. old \subseteq HeapNodes
  BY <1>1
<1>6. IdleSound(g, {}, old, {}, s)
  BY <1>2, <1>3, <1>4, <1>5 DEF IdleSound
<1> QED  BY <1>1, <1>6

(* ph_merge_two_pass is called for the children of n, which is out of T.   *)
Begun(h, n, toFree) ==
    [at |-> TwoPass(h, h.child[n]), node |-> n, toFree |-> toFree,
     rest |-> h.child[n], winners |-> <<>>]

(* A removal begins soundly, with those trees in hand.                     *)
LEMMA BegunSound ==
    ASSUME NEW h \in HeapOfType, NEW n \in HeapNodes, NEW toFree \in BOOLEAN, NEW T,
           NEW hold \in SUBSET HeapNodes, NEW old \in SUBSET HeapNodes, NEW s,
           LinksSound(h, T, ({h.root, h.child[n]} \ {0, n}), n),
           FreeListIs(h, s), Placement(h, n, hold, old, T, s),
           h.root \in T \cup {0, n}, h.child[n] \in T \cup {0},
           h.root = h.child[n] => h.root = 0, ~toFree => n = h.root,
           h.root # 0 => h.sibling[h.root] = 0 /\ h.parent[h.root] = 0
    PROVE  HeapSound(h, Begun(h, n, toFree), hold, old, T, s)
<1>1. PICK r : r = Begun(h, n, toFree)
  OBVIOUS
<1>2. h.child[n] \in NodeIds /\ n \in NodeIds /\ n # 0
  BY HeapFields
<1>3. /\ r.at = TwoPass(h, h.child[n]) /\ r.node = n /\ r.toFree = toFree
      /\ r.rest = h.child[n] /\ r.winners = <<>>
      /\ r \in RemovalOfType
      /\ r.at = "down" <=> (r.rest # 0 /\ h.sibling[r.rest] # 0)
      /\ r.at # "idle"
  <2>1. TwoPass(h, h.child[n]) \in {"down", "up"}
    BY DEF TwoPass
  <2>2. r = [at |-> TwoPass(h, h.child[n]), node |-> n, toFree |-> toFree,
             rest |-> h.child[n], winners |-> <<>>]
    BY <1>1 DEF Begun
  <2>3. <<>> \in Seq(HeapNodes)
    OBVIOUS
  <2>4. r.at = TwoPass(h, h.child[n]) /\ r.rest = h.child[n]
    BY <2>2
  <2>5. r.at = "down" <=> (r.rest # 0 /\ h.sibling[r.rest] # 0)
    BY <2>4 DEF TwoPass
  <2>6. r \in RemovalOfType
    BY <1>2, <2>1, <2>2, <2>3 DEF RemovalOfType
  <2>7. r.node = n /\ r.toFree = toFree /\ r.winners = <<>>
    BY <2>2
  <2> QED  BY <2>1, <2>4, <2>5, <2>6, <2>7
<1>4. ListOf(r.winners) = {} /\ Once(r.winners) /\ r.winners \in Seq(T)
  <2>1. <<>> \in Seq(T)
    OBVIOUS
  <2> QED  BY <1>3, <2>1, NoWinners
<1>5. RootsOf(h, r) = {h.root, h.child[n]} \ {0, n}
  BY <1>3, <1>4 DEF RootsOf
<1>6. \A x \in RootsOf(h, r) \ {r.rest} : h.sibling[x] = 0
  BY <1>3, <1>5
<1>7. RemovalSound(h, r, T)
  BY <1>2, <1>3, <1>4, <1>6 DEF RemovalSound
<1>8. HeapSound(h, r, hold, old, T, s)
  BY <1>3, <1>5, <1>7 DEF HeapSound
<1> QED  BY <1>1, <1>8

----------------------------------------------------------------------------
(* A removal, step by step.                                                *)

(* A removal of the root begins.                                           *)
LEMMA RootRemovalBegins ==
    ASSUME NEW h, NEW hold, NEW old, NEW T, NEW s, IdleSound(h, hold, old, T, s),
           h.root # 0, NEW toFree \in BOOLEAN
    PROVE  HeapSound(h, Begun(h, h.root, toFree), hold, old, T \ {h.root}, s)
<1>1. /\ h \in HeapOfType /\ hold \subseteq HeapNodes /\ old \subseteq HeapNodes
      /\ LinksSound(h, T, {h.root} \ {0}, 0)
      /\ FreeListIs(h, s) /\ Placement(h, 0, hold, old, T, s)
      /\ h.root \in T \cup {0}
      /\ h.root # 0 => h.sibling[h.root] = 0 /\ h.parent[h.root] = 0
  BY DEF IdleSound
<1>2. PICK n : n = h.root
  OBVIOUS
<1>3. {h.root} \ {0} = {n} /\ n \in T /\ n # 0 /\ h.sibling[n] = 0 /\ h.parent[n] = 0
  BY <1>1, <1>2
<1>4. PICK rank \in [HeapNodes -> Nat] :
        /\ Forest(T, {n}, h.child, h.sibling, h.parent, rank)
        /\ ParentsFirst(T, {n}, 0, h.parent, h.key, rank)
  BY <1>1, <1>3 DEF LinksSound
<1>5. /\ Forest(T \ {n}, {h.child[n]} \ {0}, h.child, h.sibling, h.parent, rank)
      /\ ParentsFirst(T \ {n}, {h.child[n]} \ {0}, n, h.parent, h.key, rank)
  BY <1>3, <1>4, RootGoes
<1>6. h.child[n] \in (T \ {n}) \cup {0} /\ T \subseteq HeapNodes
  BY <1>3, <1>4 DEF Forest
<1>7. {h.child[n]} \ {0} = {h.root, h.child[n]} \ {0, n}
  BY <1>2, <1>3, <1>6
<1>8. LinksSound(h, T \ {n}, {h.root, h.child[n]} \ {0, n}, n)
  BY <1>5, <1>7 DEF LinksSound
<1>9. Placement(h, n, hold, old, T \ {n}, s)
  <2>1. /\ T = HeapNodes \ (ListOf(s) \cup hold \cup {0})
        /\ ListOf(s) \cap hold = {} /\ 0 \notin ListOf(s) \cup hold
        /\ \A m \in hold : h.sibling[m] = 0 /\ h.parent[m] = 0
        /\ old \subseteq ListOf(s)
        /\ \A m \in ListOf(s) : h.parent[m] # 0 <=> m \in old
    BY <1>1 DEF Placement
  <2>2. T \ {n} = HeapNodes \ (ListOf(s) \cup hold \cup {n})
    BY <1>1, <2>1, HeapFields
  <2> QED  BY <1>3, <2>1, <2>2 DEF Placement
<1>10. /\ n \in HeapNodes /\ h.root \in (T \ {n}) \cup {0, n}
       /\ (h.root = h.child[n] => h.root = 0) /\ (~toFree => n = h.root)
  BY <1>2, <1>3, <1>6
<1>11. HeapSound(h, Begun(h, n, toFree), hold, old, T \ {n}, s)
  BY <1>1, <1>6, <1>8, <1>9, <1>10, BegunSound
<1> QED  BY <1>2, <1>11

(* A node that is not its parent's child is after another of its list.     *)
LEMMA SiblingBefore ==
    ASSUME NEW h, NEW T, NEW R, NEW rank,
           Forest(T, R, h.child, h.sibling, h.parent, rank),
           NEW n \in T, h.parent[n] \in T,
           n \in Reach(HeapNodes, h.sibling, h.child[h.parent[n]]),
           h.child[h.parent[n]] # n
    PROVE  PreviousSibling(h, n) \in T /\ h.sibling[PreviousSibling(h, n)] = n
<1> DEFINE first == h.child[h.parent[n]]
           List == Reach(HeapNodes, h.sibling, first)
<1>1. T \subseteq HeapNodes /\ 0 \notin HeapNodes
  BY DEF Forest, HeapNodes
<1>2. first \in T \cup {0}
  BY DEF Forest
<1>3. \A y \in T : h.sibling[y] \in HeapNodes => h.sibling[y] \in T
  BY <1>1 DEF Forest
<1>4. List \subseteq T
  <2>1. first \in HeapNodes => first \in T
    BY <1>1, <1>2
  <2> HIDE DEF first
  <2> QED  BY <1>1, <1>3, <2>1 DEF Reach
<1>5. \E m \in List : h.sibling[m] = n
  <2> SUFFICES ASSUME \A m \in List : h.sibling[m] # n PROVE FALSE
    OBVIOUS
  <2>1. first # n
    OBVIOUS
  <2> HIDE DEF first
  <2>2. first \in HeapNodes => first \in List \ {n}
    BY <2>1 DEF Reach
  <2>3. \A y \in List : h.sibling[y] \in HeapNodes => h.sibling[y] \in List
    BY DEF Reach
  <2>4. \A y \in List \ {n} : h.sibling[y] \in HeapNodes => h.sibling[y] \in List \ {n}
    BY <2>3
  <2>5. List \subseteq HeapNodes
    BY DEF Reach
  <2>6. n \in List
    BY DEF first
  <2>7. \A S \in SUBSET HeapNodes :
           (/\ first \in HeapNodes => first \in S
            /\ \A y \in S : h.sibling[y] \in HeapNodes => h.sibling[y] \in S)
           => n \in S
    BY <2>6 DEF Reach
  <2>8. PICK S : S = List \ {n}
    OBVIOUS
  <2>9. S \in SUBSET HeapNodes
    BY <2>5, <2>8
  <2> HIDE DEF List
  <2> QED  BY <2>2, <2>4, <2>7, <2>8, <2>9
<1>6. PreviousSibling(h, n) \in List /\ h.sibling[PreviousSibling(h, n)] = n
  BY <1>5, Zenon DEF PreviousSibling
<1> QED  BY <1>4, <1>6

(* From h to g, n is out of the list that y is its neighbour in.           *)
NodeUnlinked(h, g, n, y) ==
    /\ g \in HeapOfType
    /\ g.key = h.key /\ g.root = h.root
    /\ g.freeHead = h.freeHead /\ g.freeTail = h.freeTail
    /\ g.child[n] = h.child[n] /\ g.sibling[n] = 0 /\ g.parent[n] = 0
    /\ \/ h.child[y] = n /\ g.child[y] = h.sibling[n] /\ g.sibling[y] = h.sibling[y]
       \/ h.sibling[y] = n /\ g.sibling[y] = h.sibling[n] /\ g.child[y] = h.child[y]
    /\ \A x \in HeapNodes \ {n, y} : g.child[x] = h.child[x] /\ g.sibling[x] = h.sibling[x]
    /\ \A x \in HeapNodes \ {n} : g.parent[x] = h.parent[x]

(* ph_remove_and_free_node does that, for a node below the root.           *)
LEMMA UnlinkDoes ==
    ASSUME NEW h \in HeapOfType, NEW T, NEW R, NEW rank \in [HeapNodes -> Nat],
           Forest(T, R, h.child, h.sibling, h.parent, rank),
           NEW n \in T, h.parent[n] \in T,
           n \in Reach(HeapNodes, h.sibling, h.child[h.parent[n]])
    PROVE  \E y \in T \ {n} : NodeUnlinked(h, Unlink(h, n), n, y)
<1>1. T \subseteq HeapNodes /\ 0 \in NodeIds /\ h.sibling[n] \in NodeIds /\ n \in HeapNodes
  BY HeapFields DEF Forest
<1>2. /\ \A x \in T : h.child[x] # 0 => rank[x] < rank[h.child[x]]
      /\ \A x \in T : h.sibling[x] # 0 => rank[x] < rank[h.sibling[x]]
      /\ rank[n] \in Nat /\ n # 0
  BY <1>1, HeapFields DEF Forest
<1>3. h.child[n] # n /\ h.sibling[n] # n
  BY <1>2
<1>4. PICK g : g = Unlink(h, n)
  OBVIOUS
<1>5. CASE h.child[h.parent[n]] = n
  <2>1. PICK y : y = h.parent[n]
    OBVIOUS
  <2>2. y \in T \ {n} /\ h.child[y] = n /\ y \in HeapNodes
    BY <1>1, <1>3, <1>5, <2>1
  <2>3. g = [h EXCEPT !.child = [@ EXCEPT ![y] = h.sibling[n]],
                      !.sibling = [@ EXCEPT ![n] = 0], !.parent = [@ EXCEPT ![n] = 0]]
    BY <1>4, <1>5, <2>1 DEF Unlink, HeapOfType
  <2>4. /\ g \in HeapOfType
        /\ g.key = h.key /\ g.root = h.root
        /\ g.freeHead = h.freeHead /\ g.freeTail = h.freeTail
        /\ g.child = [h.child EXCEPT ![y] = h.sibling[n]]
        /\ g.sibling = [h.sibling EXCEPT ![n] = 0]
        /\ g.parent = [h.parent EXCEPT ![n] = 0]
    BY <1>1, <2>3, HeapFields DEF HeapOfType
  <2>5. NodeUnlinked(h, g, n, y)
    BY <1>1, <2>2, <2>4, HeapFields DEF NodeUnlinked
  <2> QED  BY <1>4, <2>2, <2>5
<1>6. CASE h.child[h.parent[n]] # n
  <2>1. PICK y : y = PreviousSibling(h, n)
    OBVIOUS
  <2>2. y \in T /\ h.sibling[y] = n
    BY <1>6, <2>1, SiblingBefore
  <2>3. y \in T \ {n} /\ y \in HeapNodes
    BY <1>1, <1>3, <2>2
  <2>4. g = [h EXCEPT !.sibling = [[@ EXCEPT ![y] = h.sibling[n]] EXCEPT ![n] = 0],
                      !.parent = [@ EXCEPT ![n] = 0]]
    BY <1>4, <1>6, <2>1 DEF Unlink, HeapOfType
  <2>5. /\ g \in HeapOfType
        /\ g.key = h.key /\ g.root = h.root
        /\ g.freeHead = h.freeHead /\ g.freeTail = h.freeTail
        /\ g.child = h.child
        /\ g.sibling = [[h.sibling EXCEPT ![y] = h.sibling[n]] EXCEPT ![n] = 0]
        /\ g.parent = [h.parent EXCEPT ![n] = 0]
    BY <1>1, <2>4, HeapFields DEF HeapOfType
  <2>6. NodeUnlinked(h, g, n, y)
    BY <1>1, <2>2, <2>3, <2>5, HeapFields DEF NodeUnlinked
  <2> QED  BY <1>4, <2>3, <2>6
<1> QED  BY <1>5, <1>6

(* A removal of another node than the root begins.                         *)
LEMMA OtherRemovalBegins ==
    ASSUME NEW h, NEW hold, NEW old, NEW T, NEW s, IdleSound(h, hold, old, T, s),
           NEW n \in HeapNodes, n \notin old, n # h.root, h.parent[n] # 0
    PROVE  /\ HeapSound(Unlink(h, n), Begun(Unlink(h, n), n, TRUE), hold, old, T \ {n}, s)
           /\ n \in T
           /\ Unlink(h, n).key = h.key /\ Unlink(h, n).root = h.root
<1>1. /\ h \in HeapOfType /\ hold \subseteq HeapNodes /\ old \subseteq HeapNodes
      /\ LinksSound(h, T, {h.root} \ {0}, 0)
      /\ FreeListIs(h, s) /\ Placement(h, 0, hold, old, T, s)
      /\ h.root \in T \cup {0}
      /\ h.root # 0 => h.sibling[h.root] = 0 /\ h.parent[h.root] = 0
  BY DEF IdleSound
<1>2. /\ T = HeapNodes \ (ListOf(s) \cup hold \cup {0})
      /\ ListOf(s) \cap hold = {} /\ 0 \notin ListOf(s) \cup hold
      /\ \A m \in hold : h.sibling[m] = 0 /\ h.parent[m] = 0
      /\ old \subseteq ListOf(s)
      /\ \A m \in ListOf(s) : h.parent[m] # 0 <=> m \in old
  BY <1>1 DEF Placement
<1>3. n \in T /\ n # 0 /\ 0 \notin HeapNodes
  BY <1>1, <1>2, HeapFields
<1>4. PICK rank \in [HeapNodes -> Nat] :
        /\ Forest(T, {h.root} \ {0}, h.child, h.sibling, h.parent, rank)
        /\ ParentsFirst(T, {h.root} \ {0}, 0, h.parent, h.key, rank)
  BY <1>1 DEF LinksSound
<1>5. h.root # 0
  <2> SUFFICES ASSUME h.root = 0 PROVE FALSE
    OBVIOUS
  <2>1. {h.root} \ {0} = {}
    OBVIOUS
  <2>2. Forest(T, {}, h.child, h.sibling, h.parent, rank)
    BY <1>4, <2>1
  <2>3. T = {}
    BY <2>2, NoRootNoNode
  <2> QED  BY <1>3, <2>3
<1>6. PICK r : r = h.root
  OBVIOUS
<1>7. {h.root} \ {0} = {r} /\ r \in T /\ h.sibling[r] = 0 /\ h.parent[r] = 0 /\ r # n
  BY <1>1, <1>5, <1>6
<1>8. /\ Forest(T, {r}, h.child, h.sibling, h.parent, rank)
      /\ ParentsFirst(T, {r}, 0, h.parent, h.key, rank)
  BY <1>4, <1>7
<1>9. n \in Reach(HeapNodes, h.sibling, h.child[h.parent[n]]) /\ h.parent[n] \in T
  <2>1. n \in T \ {r}
    BY <1>3, <1>7
  <2> QED  BY <1>7, <1>8, <2>1, InChildList, Zenon
<1>10. PICK g : g = Unlink(h, n)
  OBVIOUS
<1>11. PICK y \in T \ {n} : NodeUnlinked(h, g, n, y)
  BY <1>1, <1>3, <1>8, <1>9, <1>10, UnlinkDoes
<1>12. /\ g \in HeapOfType
       /\ g.key = h.key /\ g.root = h.root
       /\ g.freeHead = h.freeHead /\ g.freeTail = h.freeTail
       /\ g.child[n] = h.child[n] /\ g.sibling[n] = 0 /\ g.parent[n] = 0
       /\ \/ h.child[y] = n /\ g.child[y] = h.sibling[n] /\ g.sibling[y] = h.sibling[y]
          \/ h.sibling[y] = n /\ g.sibling[y] = h.sibling[n] /\ g.child[y] = h.child[y]
       /\ \A x \in HeapNodes \ {n, y} : g.child[x] = h.child[x] /\ g.sibling[x] = h.sibling[x]
       /\ \A x \in HeapNodes \ {n} : g.parent[x] = h.parent[x]
  BY <1>11 DEF NodeUnlinked
<1>13. T \subseteq HeapNodes
  BY <1>2
<1>14. LinkedPast(T, n, y, h.child, h.sibling, h.parent, g.child, g.sibling, g.parent)
  BY <1>12, <1>13 DEF LinkedPast
<1>15. PICK R : R = {r} \cup ({h.child[n]} \ {0})
  OBVIOUS
<1>16. /\ Forest(T \ {n}, R, g.child, g.sibling, g.parent, rank)
       /\ ParentsFirst(T \ {n}, R, n, g.parent, h.key, rank)
  <2>1. n \in T \ {r} /\ y \in T
    BY <1>3, <1>7
  <2>2. LET Roots == {r} \cup ({h.child[n]} \ {0})
        IN  /\ Forest(T \ {n}, Roots, g.child, g.sibling, g.parent, rank)
            /\ ParentsFirst(T \ {n}, Roots, n, g.parent, h.key, rank)
    BY <1>8, <1>14, <2>1, NodeGoes
  <2> QED  BY <1>15, <2>2
<1>17. /\ h.child[n] # 0 => h.child[n] \in T \ {r, n}
  <2>1. h.child[n] # 0 => h.child[n] \in T \ {r} /\ rank[n] < rank[h.child[n]]
    BY <1>3, <1>8 DEF Forest
  <2>2. rank[n] \in Nat
    BY <1>3, <1>13
  <2> QED  BY <2>1, <2>2
<1>18. R = {g.root, g.child[n]} \ {0, n}
  BY <1>5, <1>6, <1>7, <1>12, <1>15, <1>17
<1>19. LinksSound(g, T \ {n}, {g.root, g.child[n]} \ {0, n}, n)
  BY <1>12, <1>16, <1>18 DEF LinksSound
<1>20. \A x \in HeapNodes \ T : g.sibling[x] = h.sibling[x] /\ g.parent[x] = h.parent[x]
  BY <1>3, <1>12
<1>21. ListOf(s) \subseteq HeapNodes \ T
  BY <1>1, <1>2 DEF FreeListIs, ListOf
<1>22. FreeListIs(g, s)
  BY <1>1, <1>12, <1>20, <1>21, FreeListStays
<1>23. Placement(g, n, hold, old, T \ {n}, s)
  <2>1. T \ {n} = HeapNodes \ (ListOf(s) \cup hold \cup {n})
    BY <1>2, <1>3
  <2>2. \A m \in hold \cup ({n} \ {0}) : g.sibling[m] = 0 /\ g.parent[m] = 0
    BY <1>1, <1>2, <1>12, <1>20
  <2>3. \A m \in ListOf(s) : g.parent[m] # 0 <=> m \in old
    BY <1>2, <1>20, <1>21
  <2> QED  BY <1>2, <1>3, <2>1, <2>2, <2>3 DEF Placement
<1>24. g.sibling[g.root] = 0 /\ g.parent[g.root] = 0
  <2>1. g.parent[r] = 0
    BY <1>7, <1>12, <1>13
  <2>2. g.sibling[r] = h.sibling[r]
    <3>1. CASE y = r
      <4>1. h.sibling[y] # n
        BY <1>3, <1>7, <3>1
      <4>2. g.sibling[y] = h.sibling[y]
        BY <1>12, <4>1
      <4> QED  BY <3>1, <4>2
    <3>2. CASE y # r
      <4>1. r \in HeapNodes \ {n, y}
        BY <1>7, <1>13, <3>2
      <4> QED  BY <1>12, <4>1
    <3> QED  BY <3>1, <3>2
  <2> QED  BY <1>6, <1>7, <1>12, <2>1, <2>2
<1>25. /\ g.root \in (T \ {n}) \cup {0, n} /\ g.child[n] \in (T \ {n}) \cup {0}
       /\ (g.root = g.child[n] => g.root = 0) /\ (~TRUE => n = g.root)
  BY <1>6, <1>7, <1>12, <1>17
<1>26. HeapSound(g, Begun(g, n, TRUE), hold, old, T \ {n}, s)
  <2>1. hold \in SUBSET HeapNodes /\ old \in SUBSET HeapNodes /\ TRUE \in BOOLEAN
    BY <1>1
  <2>2. g.root # 0 => g.sibling[g.root] = 0 /\ g.parent[g.root] = 0
    BY <1>24
  <2> QED  BY <1>12, <1>19, <1>22, <1>23, <1>25, <2>1, <2>2, BegunSound
<1> QED  BY <1>3, <1>10, <1>12, <1>26

(* What is outside the forest stays, while the links there do.             *)
LEMMA OutsideStays ==
    ASSUME NEW h, NEW g, NEW n, NEW hold \in SUBSET HeapNodes, NEW old, NEW T, NEW s,
           FreeListIs(h, s), Placement(h, n, hold, old, T, s), n \in NodeIds,
           g.freeHead = h.freeHead, g.freeTail = h.freeTail,
           \A x \in HeapNodes \ T : g.sibling[x] = h.sibling[x] /\ g.parent[x] = h.parent[x]
    PROVE  FreeListIs(g, s) /\ Placement(g, n, hold, old, T, s)
<1>1. ListOf(s) \subseteq HeapNodes
  BY DEF FreeListIs, ListOf
<1>2. /\ T = HeapNodes \ (ListOf(s) \cup hold \cup {n})
      /\ ListOf(s) \cap hold = {} /\ n \notin ListOf(s) \cup hold
      /\ \A m \in hold \cup ({n} \ {0}) : h.sibling[m] = 0 /\ h.parent[m] = 0
      /\ old \subseteq ListOf(s)
      /\ \A m \in ListOf(s) : h.parent[m] # 0 <=> m \in old
  BY DEF Placement
<1>3. hold \cup ({n} \ {0}) \subseteq HeapNodes
  <2>1. n # 0 => n \in HeapNodes
    BY DEF NodeIds, HeapNodes
  <2> QED  BY <2>1
<1>4. FreeListIs(g, s)
  <2>1. \A x \in ListOf(s) : g.sibling[x] = h.sibling[x]
    BY <1>1, <1>2
  <2> QED  BY <2>1, FreeListStays
<1>5. Placement(g, n, hold, old, T, s)
  <2>1. \A m \in hold \cup ({n} \ {0}) : g.sibling[m] = 0 /\ g.parent[m] = 0
    BY <1>2, <1>3
  <2>2. \A m \in ListOf(s) : g.parent[m] # 0 <=> m \in old
    BY <1>1, <1>2
  <2> QED  BY <1>2, <2>1, <2>2 DEF Placement
<1> QED  BY <1>4, <1>5

(* Without its last, a list has the others.                                *)
LEMMA FrontDropsLast ==
    ASSUME NEW S, NEW s \in Seq(S), s # <<>>, Once(s)
    PROVE  /\ SubSeq(s, 1, Len(s) - 1) \in Seq(S) /\ Once(SubSeq(s, 1, Len(s) - 1))
           /\ s[Len(s)] \in ListOf(s)
           /\ ListOf(SubSeq(s, 1, Len(s) - 1)) = ListOf(s) \ {s[Len(s)]}
<1>1. PICK t : t = SubSeq(s, 1, Len(s) - 1)
  OBVIOUS
<1>2. Len(s) \in Nat \ {0}
  BY EmptySeq
<1>3. /\ t \in Seq(S) /\ Len(t) = Len(s) - 1
      /\ \A i \in 1 .. Len(s) - 1 : t[i] = s[i]
  <2>1. /\ Len(s) - 1 \in Int /\ Len(s) - 1 - 1 + 1 = Len(s) - 1
        /\ \A i \in 1 .. Len(s) - 1 : s[i] \in S
    BY <1>2
  <2>2. /\ t \in Seq(S) /\ Len(t) = Len(s) - 1 - 1 + 1
        /\ \A i \in 1 .. Len(s) - 1 - 1 + 1 : t[i] = s[1 + i - 1]
    BY <1>1, <2>1, SubSeqProperties
  <2>3. \A i \in 1 .. Len(s) - 1 : 1 + i - 1 = i
    BY <1>2
  <2> QED  BY <2>1, <2>2, <2>3
<1>4. Once(t)
  BY <1>2, <1>3 DEF Once
<1>5. s[Len(s)] \in ListOf(s)
  BY <1>2 DEF ListOf
<1>6. ListOf(t) = ListOf(s) \ {s[Len(s)]}
  <2>1. \A i \in 1 .. Len(s) : i = Len(s) \/ i \in 1 .. Len(t)
    BY <1>2, <1>3
  <2>2. \A i \in 1 .. Len(t) : i \in 1 .. Len(s) /\ i # Len(s) /\ s[i] # s[Len(s)]
    <3>1. \A i \in 1 .. Len(t) : i \in 1 .. Len(s) /\ i # Len(s) /\ Len(s) \in 1 .. Len(s)
      BY <1>2, <1>3
    <3> QED  BY <3>1 DEF Once
  <2> QED  BY <1>3, <2>1, <2>2 DEF ListOf
<1> QED  BY <1>1, <1>3, <1>4, <1>5, <1>6

(* Two nodes and the one after them become trees of their own.             *)
LEMMA PairCut ==
    ASSUME NEW T, NEW R, NEW child, NEW sibling \in [HeapNodes -> 0 .. HeapSize],
           NEW parent, NEW rank \in [HeapNodes -> Nat],
           Forest(T, R, child, sibling, parent, rank),
           NEW a \in T, sibling[a] # 0
    PROVE  LET b == sibling[a]
               c == sibling[b]
           IN  Forest(T, R \cup {b} \cup ({c} \ {0}), child,
                      [[sibling EXCEPT ![a] = 0] EXCEPT ![b] = 0], parent, rank)
<1>1. PICK b, one : b = sibling[a] /\ one = [sibling EXCEPT ![a] = 0]
  OBVIOUS
<1>2. T \subseteq HeapNodes /\ b \in T \ R /\ b # 0
  BY <1>1 DEF Forest
<1>3. one \in [HeapNodes -> 0 .. HeapSize]
  <2>1. 0 \in 0 .. HeapSize
    BY PairingHeapAssumption
  <2> QED  BY <1>1, <2>1
<1>4. Forest(T, R \cup {b}, child, one, parent, rank)
  BY <1>1, CutSibling
<1>5. one[b] = IF a = b THEN 0 ELSE sibling[b]
  BY <1>1, <1>2
<1>6. a # b
  <2>1. rank[a] < rank[b] /\ rank[a] \in Nat
    BY <1>1, <1>2 DEF Forest
  <2> QED  BY <2>1
<1>7. PICK c : c = sibling[b]
  OBVIOUS
<1>8. one[b] = c
  BY <1>5, <1>6, <1>7
<1>9. CASE c = 0
  <2>1. [one EXCEPT ![b] = 0] = one
    BY <1>2, <1>3, <1>8, <1>9
  <2>2. R \cup {b} \cup ({c} \ {0}) = R \cup {b}
    BY <1>9
  <2> QED  BY <1>1, <1>4, <1>7, <2>1, <2>2
<1>10. CASE c # 0
  <2>1. Forest(T, R \cup {b} \cup {c}, child, [one EXCEPT ![b] = 0], parent, rank)
    BY <1>2, <1>3, <1>4, <1>8, <1>10, CutSibling
  <2>2. R \cup {b} \cup ({c} \ {0}) = R \cup {b} \cup {c}
    BY <1>10
  <2> QED  BY <1>1, <1>7, <2>1, <2>2
<1> QED  BY <1>9, <1>10

(* What a removal has in hand, from what it says of it.                    *)
LEMMA InHand ==
    ASSUME NEW h, NEW r, NEW hold, NEW old, NEW T, NEW s, HeapSound(h, r, hold, old, T, s)
    PROVE  LET R == RootsOf(h, r)
               W == ListOf(r.winners)
           IN  /\ h \in HeapOfType /\ r \in RemovalOfType
               /\ r.node \in NodeIds /\ r.rest \in NodeIds /\ r.toFree \in BOOLEAN
               /\ r.winners \in Seq(HeapNodes)
               /\ T = HeapNodes \ (ListOf(s) \cup hold \cup {r.node})
               /\ T \subseteq HeapNodes /\ r.node \notin T /\ 0 \notin T
               /\ W \subseteq T /\ h.root \in T \cup {0, r.node} /\ r.rest \in T \cup {0}
               /\ R = (({h.root} \ {0, r.node}) \cup W) \cup ({r.rest} \ {0})
               /\ R \subseteq T
<1>1. /\ h \in HeapOfType /\ r \in RemovalOfType
      /\ Placement(h, r.node, hold, old, T, s) /\ RemovalSound(h, r, T)
  BY DEF HeapSound
<1>2. /\ r.node \in NodeIds /\ r.rest \in NodeIds /\ r.toFree \in BOOLEAN
      /\ r.winners \in Seq(HeapNodes)
  BY <1>1 DEF RemovalOfType
<1>3. T = HeapNodes \ (ListOf(s) \cup hold \cup {r.node}) /\ 0 \notin HeapNodes
  BY <1>1, HeapFields DEF Placement
<1>4. r.winners \in Seq(T) /\ h.root \in T \cup {0, r.node} /\ r.rest \in T \cup {0}
  BY <1>1 DEF RemovalSound
<1>5. ListOf(r.winners) \subseteq T
  BY <1>4 DEF ListOf
<1>6. PICK R : R = RootsOf(h, r)
  OBVIOUS
<1>7. R = (({h.root} \ {0, r.node}) \cup ListOf(r.winners)) \cup ({r.rest} \ {0})
  BY <1>3, <1>4, <1>5, <1>6 DEF RootsOf
<1>8. R \subseteq T
  BY <1>4, <1>5, <1>7
<1> QED  BY <1>1, <1>2, <1>3, <1>4, <1>5, <1>6, <1>7, <1>8

(* From h to g, only the links of the forest changed.                      *)
OnlyTreesChange(h, g, T) ==
    /\ g \in HeapOfType /\ g.root = h.root
    /\ g.freeHead = h.freeHead /\ g.freeTail = h.freeTail
    /\ \A x \in HeapNodes \ T : g.sibling[x] = h.sibling[x] /\ g.parent[x] = h.parent[x]
    /\ g.root # 0 => g.parent[g.root] = h.parent[h.root]

(* A removal that goes on with other trees is sound if those are.          *)
LEMMA MergeInHand ==
    ASSUME NEW h, NEW r, NEW hold, NEW old, NEW T, NEW s, HeapSound(h, r, hold, old, T, s),
           NEW g, NEW w, NEW q \in RemovalOfType,
           LinksSound(g, T, RootsOf(g, q), r.node),
           q.node = r.node, RemovalSound(g, q, T), OnlyTreesChange(h, g, T)
    PROVE  HeapSound(g, q, hold, old, T, s)
<1>1. /\ hold \subseteq HeapNodes /\ old \subseteq HeapNodes /\ r.node \in NodeIds
      /\ FreeListIs(h, s) /\ Placement(h, r.node, hold, old, T, s)
      /\ h.root # 0 => h.parent[h.root] = 0
  BY DEF HeapSound, RemovalOfType
<1>2. /\ g \in HeapOfType /\ g.root = h.root
      /\ g.freeHead = h.freeHead /\ g.freeTail = h.freeTail
      /\ \A x \in HeapNodes \ T : g.sibling[x] = h.sibling[x] /\ g.parent[x] = h.parent[x]
      /\ g.root # 0 => g.parent[g.root] = h.parent[h.root]
  BY DEF OnlyTreesChange
<1>3. FreeListIs(g, s) /\ Placement(g, r.node, hold, old, T, s)
  BY <1>1, <1>2, OutsideStays
<1>4. g.root # 0 => g.parent[g.root] = 0
  BY <1>1, <1>2
<1>5. LinksSound(g, T, RootsOf(g, q), q.node) /\ Placement(g, q.node, hold, old, T, s)
  BY <1>3, SMTT(30)
<1> QED  BY <1>1, <1>2, <1>3, <1>4, <1>5 DEF HeapSound

(* Into the recursion: the first two trees of the rest are merged.         *)
LEMMA PairKeeps ==
    ASSUME NEW h, NEW r, NEW hold, NEW old, NEW T, NEW s, HeapSound(h, r, hold, old, T, s),
           r.at = "down"
    PROVE  LET a == r.rest
               b == h.sibling[a]
               c == h.sibling[b]
               m == Merge([h EXCEPT !.sibling[a] = 0, !.sibling[b] = 0], a, b)
               q == [r EXCEPT !.at = TwoPass(m[1], c), !.rest = c,
                              !.winners = Append(@, m[2])]
           IN  /\ HeapSound(m[1], q, hold, old, T, s)
               /\ m[1].key = h.key /\ m[1].root = h.root
<1>a. PICK a : a = r.rest
  OBVIOUS
<1>b. PICK b : b = h.sibling[a]
  OBVIOUS
<1>c. PICK c : c = h.sibling[b]
  OBVIOUS
<1>cut. PICK cut : cut = [h EXCEPT !.sibling[a] = 0, !.sibling[b] = 0]
  OBVIOUS
<1>m. PICK g, w : g = Merge(cut, a, b)[1] /\ w = Merge(cut, a, b)[2]
  OBVIOUS
<1>q. PICK q : q = [r EXCEPT !.at = TwoPass(g, c), !.rest = c, !.winners = Append(@, w)]
  OBVIOUS
<1>W. PICK W : W = ListOf(r.winners)
  OBVIOUS
<1>1. /\ h \in HeapOfType /\ r \in RemovalOfType
      /\ r.node \in NodeIds /\ r.rest \in NodeIds /\ r.toFree \in BOOLEAN
      /\ r.winners \in Seq(HeapNodes)
      /\ T \subseteq HeapNodes /\ r.node \notin T /\ 0 \notin T
      /\ W \subseteq T /\ h.root \in T \cup {0, r.node} /\ r.rest \in T \cup {0}
      /\ RootsOf(h, r) = (({h.root} \ {0, r.node}) \cup W) \cup ({r.rest} \ {0})
      /\ RootsOf(h, r) \subseteq T
  BY <1>W, InHand
<1>2. PICK R : R = RootsOf(h, r)
  OBVIOUS
<1>3. /\ r.winners \in Seq(T) /\ Once(r.winners) /\ r.rest \notin W /\ h.root \notin W
      /\ (h.root = r.rest => h.root = 0)
      /\ \A x \in R \ {r.rest} : h.sibling[x] = 0
      /\ r.rest # 0 /\ h.sibling[r.rest] # 0
      /\ r.node # 0 /\ (~r.toFree => r.node = h.root)
  BY <1>2, <1>W DEF HeapSound, RemovalSound
<1>4. PICK rank \in [HeapNodes -> Nat] :
        /\ Forest(T, R, h.child, h.sibling, h.parent, rank)
        /\ ParentsFirst(T, R, r.node, h.parent, h.key, rank)
  BY <1>2 DEF HeapSound, LinksSound
<1>5. a \in T /\ a \in R /\ a # 0 /\ b # 0 /\ a \notin W /\ a # h.root /\ a \in HeapNodes
  BY <1>1, <1>2, <1>3, <1>a, <1>b
<1>6. /\ b \in T \ R /\ rank[a] < rank[b] /\ b \in HeapNodes
  BY <1>1, <1>4, <1>5, <1>b DEF Forest
<1>7. /\ c # 0 => c \in T \ R /\ rank[b] < rank[c]
  BY <1>4, <1>6, <1>c DEF Forest
<1>8. a # b /\ c # a /\ c # b /\ c \in NodeIds
  <2>1. rank[a] \in Nat /\ rank[b] \in Nat
    BY <1>5, <1>6
  <2>2. c \in NodeIds
    BY <1>1, <1>6, <1>c, HeapFields
  <2> QED  BY <1>5, <1>6, <1>7, <2>1, <2>2
<1>9. /\ cut \in HeapOfType
      /\ cut.child = h.child /\ cut.parent = h.parent /\ cut.key = h.key
      /\ cut.root = h.root /\ cut.freeHead = h.freeHead /\ cut.freeTail = h.freeTail
      /\ cut.sibling = [[h.sibling EXCEPT ![a] = 0] EXCEPT ![b] = 0]
  BY <1>1, <1>cut, HeapFields DEF HeapOfType
<1>10. /\ cut.sibling[a] = 0 /\ cut.sibling[b] = 0
       /\ \A x \in HeapNodes \ {a, b} : cut.sibling[x] = h.sibling[x]
  BY <1>1, <1>5, <1>6, <1>9, HeapFields
<1>11. PICK S : S = R \cup {b} \cup ({c} \ {0})
  OBVIOUS
<1>12. Forest(T, S, cut.child, cut.sibling, cut.parent, rank)
  <2>1. h.sibling \in [HeapNodes -> 0 .. HeapSize]
    BY <1>1, HeapFields DEF NodeIds
  <2>2. Forest(T, S, h.child, [[h.sibling EXCEPT ![a] = 0] EXCEPT ![b] = 0], h.parent, rank)
    BY <1>4, <1>5, <1>11, <1>b, <1>c, <2>1, PairCut
  <2> QED  BY <1>9, <2>2
<1>13. ParentsFirst(T, S, r.node, cut.parent, cut.key, rank)
  <2>1. R \subseteq S
    BY <1>11
  <2> QED  BY <1>4, <1>9, <2>1, MoreRoots
<1>14. TreesMerged(cut, g, w, a, b, T, S, r.node)
  <2>1. a \in S \cup {0} /\ b \in S \cup {0} /\ (a = b => a = 0)
    BY <1>5, <1>8, <1>11
  <2> QED  BY <1>9, <1>10, <1>12, <1>13, <1>m, <2>1, MergeDoes
<1>15. /\ g \in HeapOfType /\ w \in {a, b} /\ w # 0
       /\ g.key = h.key /\ g.root = h.root
       /\ g.freeHead = h.freeHead /\ g.freeTail = h.freeTail
       /\ \A x \in HeapNodes \ {a, b} :
             g.sibling[x] = h.sibling[x] /\ g.parent[x] = h.parent[x]
       /\ g.sibling[w] = 0
       /\ LinksSound(g, T, (S \ {a, b}) \cup ({w} \ {0}), r.node)
  BY <1>5, <1>9, <1>10, <1>14 DEF TreesMerged, LinksSound
<1>16. w \in T /\ w \notin W /\ w # h.root /\ w # c /\ w \in HeapNodes
  BY <1>1, <1>2, <1>5, <1>6, <1>8, <1>15
<1>17. PICK v : v = Append(r.winners, w)
  OBVIOUS
<1>18. v \in Seq(T) /\ v \in Seq(HeapNodes) /\ Once(v) /\ ListOf(v) = W \cup {w}
  BY <1>1, <1>3, <1>16, <1>17, <1>W, AppendAdds
<1>19. TwoPass(g, c) \in {"down", "up"} /\ (TwoPass(g, c) = "down" <=> (c # 0 /\ g.sibling[c] # 0))
  BY DEF TwoPass
<1>20. /\ q.at = TwoPass(g, c) /\ q.node = r.node /\ q.toFree = r.toFree
       /\ q.rest = c /\ q.winners = v /\ q \in RemovalOfType
  BY <1>1, <1>8, <1>17, <1>18, <1>19, <1>q DEF RemovalOfType
<1>21. c # 0 => c \notin W /\ c # h.root
  BY <1>1, <1>2, <1>7
<1>22. PICK U : U = RootsOf(g, q)
  OBVIOUS
<1>23. U = (S \ {a, b}) \cup ({w} \ {0})
  <2>1. U = ({h.root, c} \cup (W \cup {w})) \ {0, r.node}
    BY <1>15, <1>18, <1>20, <1>22 DEF RootsOf
  <2>2. c # r.node /\ w # r.node /\ W \cap {0, r.node} = {}
    BY <1>1, <1>3, <1>7, <1>16
  <2>3. U = ((({h.root} \ {0, r.node}) \cup W) \cup ({c} \ {0})) \cup {w}
    BY <1>15, <2>1, <2>2
  <2>4. R \ {a} = ({h.root} \ {0, r.node}) \cup W
    BY <1>1, <1>2, <1>3, <1>5, <1>a
  <2>5. b \notin R /\ w # 0
    BY <1>6, <1>15
  <2> QED  BY <1>8, <1>11, <2>3, <2>4, <2>5
<1>24. \A x \in U \ {c} : g.sibling[x] = 0
  <2> SUFFICES ASSUME NEW x \in U \ {c}, x # w PROVE g.sibling[x] = 0
    BY <1>15
  <2>1. x \in R \ {a, b}
    BY <1>11, <1>23
  <2>2. x \in HeapNodes \ {a, b}
    BY <1>1, <1>2, <2>1
  <2> QED  BY <1>3, <1>15, <1>a, <2>1, <2>2
<1>25. RemovalSound(g, q, T)
  <2>1. q.at # "idle"
    BY <1>19, <1>20
  <2>2. g.root \in T \cup {0, q.node} /\ q.rest \in T \cup {0}
    BY <1>1, <1>7, <1>15, <1>20
  <2>3. q.rest \notin ListOf(q.winners) /\ g.root \notin ListOf(q.winners)
    BY <1>1, <1>3, <1>15, <1>16, <1>18, <1>20, <1>21
  <2>4. g.root = q.rest => g.root = 0
    BY <1>15, <1>20, <1>21
  <2>5. \A x \in RootsOf(g, q) \ {q.rest} : g.sibling[x] = 0
    BY <1>20, <1>22, <1>24
  <2>6. q.at = "down" <=> (q.rest # 0 /\ g.sibling[q.rest] # 0)
    BY <1>19, <1>20
  <2>7. q.node # 0 /\ (~q.toFree => q.node = g.root)
    BY <1>3, <1>15, <1>20
  <2> QED
    BY <1>18, <1>20, <2>1, <2>2, <2>3, <2>4, <2>5, <2>6, <2>7 DEF RemovalSound
<1>26. HeapSound(g, q, hold, old, T, s)
  <2>1. LinksSound(g, T, RootsOf(g, q), r.node)
    BY <1>15, <1>22, <1>23
  <2>2. \A x \in HeapNodes \ T : g.sibling[x] = h.sibling[x] /\ g.parent[x] = h.parent[x]
    BY <1>5, <1>6, <1>15
  <2>3. g.root # 0 => g.parent[g.root] = h.parent[h.root]
    <3>1. h.root # 0 => h.root \in HeapNodes \ {a, b}
      BY <1>1, <1>2, <1>5, <1>6, HeapFields
    <3> QED  BY <1>15, <3>1
  <2>4. OnlyTreesChange(h, g, T)
    BY <1>15, <2>2, <2>3, SMTT(30) DEF OnlyTreesChange
  <2> QED  BY <1>20, <1>25, <2>1, <2>4, MergeInHand
<1>27. /\ HeapSound(g, [r EXCEPT !.at = TwoPass(g, c), !.rest = c, !.winners = Append(@, w)],
                    hold, old, T, s)
       /\ g.key = h.key /\ g.root = h.root
  BY <1>15, <1>26, <1>q, Zenon
<1> QED  BY ONLY <1>27, <1>a, <1>b, <1>c, <1>cut, <1>m, ZenonT(60)

(* Out of the recursion: the last winner is merged with what came back.    *)
LEMMA ReturnKeeps ==
    ASSUME NEW h, NEW r, NEW hold, NEW old, NEW T, NEW s, HeapSound(h, r, hold, old, T, s),
           r.at = "up", r.winners # <<>>
    PROVE  LET last == Len(r.winners)
               m == Merge(h, r.winners[last], r.rest)
               q == [r EXCEPT !.rest = m[2], !.winners = SubSeq(@, 1, last - 1)]
           IN  /\ HeapSound(m[1], q, hold, old, T, s)
               /\ m[1].key = h.key /\ m[1].root = h.root
<1>a. PICK a : a = r.winners[Len(r.winners)]
  OBVIOUS
<1>b. PICK b : b = r.rest
  OBVIOUS
<1>m. PICK g, w : g = Merge(h, a, b)[1] /\ w = Merge(h, a, b)[2]
  OBVIOUS
<1>v. PICK v : v = SubSeq(r.winners, 1, Len(r.winners) - 1)
  OBVIOUS
<1>q. PICK q : q = [r EXCEPT !.rest = w, !.winners = v]
  OBVIOUS
<1>W. PICK W : W = ListOf(r.winners)
  OBVIOUS
<1>1. /\ h \in HeapOfType /\ r \in RemovalOfType
      /\ r.node \in NodeIds /\ r.rest \in NodeIds /\ r.toFree \in BOOLEAN
      /\ r.winners \in Seq(HeapNodes)
      /\ T \subseteq HeapNodes /\ r.node \notin T /\ 0 \notin T
      /\ W \subseteq T /\ h.root \in T \cup {0, r.node} /\ r.rest \in T \cup {0}
      /\ RootsOf(h, r) = (({h.root} \ {0, r.node}) \cup W) \cup ({r.rest} \ {0})
      /\ RootsOf(h, r) \subseteq T
  BY <1>W, InHand
<1>2. PICK R : R = RootsOf(h, r)
  OBVIOUS
<1>3. /\ r.winners \in Seq(T) /\ Once(r.winners) /\ b \notin W /\ h.root \notin W
      /\ (h.root = b => h.root = 0)
      /\ \A x \in R \ {b} : h.sibling[x] = 0
      /\ (b = 0 \/ h.sibling[b] = 0)
      /\ r.node # 0 /\ (~r.toFree => r.node = h.root)
  BY <1>2, <1>W, <1>b DEF HeapSound, RemovalSound
<1>4. PICK rank \in [HeapNodes -> Nat] :
        /\ Forest(T, R, h.child, h.sibling, h.parent, rank)
        /\ ParentsFirst(T, R, r.node, h.parent, h.key, rank)
  BY <1>2 DEF HeapSound, LinksSound
<1>5. /\ v \in Seq(T) /\ v \in Seq(HeapNodes) /\ Once(v)
      /\ a \in W /\ ListOf(v) = W \ {a}
  BY <1>1, <1>3, <1>a, <1>v, <1>W, FrontDropsLast
<1>6. /\ a \in T /\ a \in R /\ a # 0 /\ a # b /\ h.sibling[a] = 0 /\ a # h.root
      /\ a # r.node
  BY <1>1, <1>2, <1>3, <1>5
<1>7. b \in R \cup {0} /\ b \in T \cup {0} /\ (b # 0 => h.sibling[b] = 0)
  BY <1>1, <1>2, <1>3, <1>b
<1>8. TreesMerged(h, g, w, a, b, T, R, r.node)
  <2>1. a \in R \cup {0} /\ (a = b => a = 0) /\ (a # 0 => h.sibling[a] = 0)
    BY <1>6
  <2> QED  BY <1>1, <1>4, <1>7, <1>m, <2>1, MergeDoes
<1>9. /\ g \in HeapOfType /\ w \in {a, b} /\ w # 0
      /\ g.key = h.key /\ g.root = h.root
      /\ g.freeHead = h.freeHead /\ g.freeTail = h.freeTail
      /\ \A x \in HeapNodes \ {a, b} :
            g.sibling[x] = h.sibling[x] /\ g.parent[x] = h.parent[x]
      /\ g.sibling[w] = 0
      /\ LinksSound(g, T, (R \ {a, b}) \cup ({w} \ {0}), r.node)
  BY <1>6, <1>8 DEF TreesMerged, LinksSound
<1>10. w \in T /\ w \notin W \ {a} /\ (h.root = w => h.root = 0) /\ w \in NodeIds
       /\ w # r.node
  BY <1>1, <1>3, <1>6, <1>7, <1>9, HeapFields
<1>11. /\ q.at = "up" /\ q.node = r.node /\ q.toFree = r.toFree
       /\ q.rest = w /\ q.winners = v /\ q \in RemovalOfType
  BY <1>1, <1>5, <1>10, <1>q DEF RemovalOfType
<1>12. PICK U : U = RootsOf(g, q)
  OBVIOUS
<1>13. U = (R \ {a, b}) \cup ({w} \ {0})
  <2>1. U = ({h.root, w} \cup (W \ {a})) \ {0, r.node}
    BY <1>5, <1>9, <1>11, <1>12 DEF RootsOf
  <2>2. W \cap {0, r.node} = {}
    BY <1>1
  <2>3. U = (({h.root} \ {0, r.node}) \cup (W \ {a})) \cup {w}
    BY <1>9, <1>10, <2>1, <2>2
  <2>4. R \ {a, b} = ({h.root} \ {0, r.node}) \cup (W \ {a})
    BY <1>1, <1>2, <1>3, <1>6, <1>b
  <2> QED  BY <1>9, <2>3, <2>4
<1>14. \A x \in U \ {w} : g.sibling[x] = 0
  <2> SUFFICES ASSUME NEW x \in U \ {w} PROVE g.sibling[x] = 0
    OBVIOUS
  <2>1. x \in R \ {a, b}
    BY <1>13
  <2>2. x \in HeapNodes \ {a, b}
    BY <1>1, <1>2, <2>1
  <2> QED  BY <1>3, <1>9, <2>1, <2>2
<1>15. RemovalSound(g, q, T)
  <2>1. g.root \in T \cup {0, q.node} /\ q.rest \in T \cup {0}
    BY <1>1, <1>9, <1>10, <1>11
  <2>2. q.rest \notin ListOf(q.winners) /\ g.root \notin ListOf(q.winners)
    BY <1>3, <1>5, <1>9, <1>10, <1>11
  <2>3. g.root = q.rest => g.root = 0
    BY <1>9, <1>10, <1>11
  <2>4. \A x \in RootsOf(g, q) \ {q.rest} : g.sibling[x] = 0
    BY <1>11, <1>12, <1>14
  <2>5. q.at = "down" <=> (q.rest # 0 /\ g.sibling[q.rest] # 0)
    BY <1>9, <1>11
  <2>6. q.at # "idle" /\ q.node # 0 /\ (~q.toFree => q.node = g.root)
    BY <1>3, <1>9, <1>11
  <2> QED  BY <1>5, <1>11, <2>1, <2>2, <2>3, <2>4, <2>5, <2>6 DEF RemovalSound
<1>16. HeapSound(g, q, hold, old, T, s)
  <2>1. LinksSound(g, T, RootsOf(g, q), r.node)
    BY <1>9, <1>12, <1>13
  <2>2. \A x \in HeapNodes \ T : g.sibling[x] = h.sibling[x] /\ g.parent[x] = h.parent[x]
    BY <1>6, <1>7, <1>9
  <2>3. g.root # 0 => g.parent[g.root] = h.parent[h.root]
    <3>1. h.root # 0 => h.root \in HeapNodes \ {a, b}
      BY <1>1, <1>3, <1>6, HeapFields
    <3> QED  BY <1>9, <3>1
  <2>4. OnlyTreesChange(h, g, T)
    BY <1>9, <2>2, <2>3 DEF OnlyTreesChange
  <2> QED  BY <1>11, <1>15, <2>1, <2>4, MergeInHand
<1> QED  BY <1>9, <1>16, <1>a, <1>b, <1>m, <1>v, <1>q

(* From h to g, n is out of the links and in the free list, or held; the   *)
(* tree that is left of it has no parent.                                  *)
NodeCut(h, g, n, top, toFree) ==
    /\ g \in HeapOfType /\ g.child = h.child
    /\ g.key = h.key /\ g.root = h.root
    /\ ~toFree => g.freeHead = h.freeHead /\ g.freeTail = h.freeTail
    /\ toFree => /\ g.freeHead = IF h.freeHead = 0 THEN n ELSE h.freeHead
                 /\ g.freeTail = n
    /\ g.sibling[n] = 0 /\ g.parent[n] = 0
    /\ \A x \in HeapNodes \ {n} :
          g.sibling[x] = IF toFree /\ x = h.freeTail THEN n ELSE h.sibling[x]
    /\ \A x \in HeapNodes \ {top} : g.parent[x] = h.parent[x]
    /\ top # 0 => g.parent[top] = 0

(* ph_remove_any_head does that, once the children are merged.             *)
LEMMA CutOffDoes ==
    ASSUME NEW h \in HeapOfType, NEW n \in HeapNodes, NEW top \in NodeIds,
           NEW toFree \in BOOLEAN, h.parent[n] = 0, top # n
    PROVE  NodeCut(h, CutOff(h, n, top, toFree), n, top, toFree)
<1>1. PICK freed : freed = IF toFree THEN FreeLast(h, n) ELSE h
  OBVIOUS
<1>2. /\ freed \in HeapOfType /\ freed.child = h.child /\ freed.parent = h.parent
      /\ freed.key = h.key /\ freed.root = h.root
      /\ ~toFree => freed.freeHead = h.freeHead /\ freed.freeTail = h.freeTail
      /\ toFree => /\ freed.freeHead = IF h.freeHead = 0 THEN n ELSE h.freeHead
                   /\ freed.freeTail = n
      /\ \A x \in HeapNodes :
            freed.sibling[x] = IF toFree /\ x = h.freeTail THEN n ELSE h.sibling[x]
  <2>1. CASE toFree
    BY <1>1, <2>1, FreeLastDoes
  <2>2. CASE ~toFree
    BY <1>1, <2>2
  <2> QED  BY <2>1, <2>2
<1>3. PICK g : g = CutOff(h, n, top, toFree)
  OBVIOUS
<1>4. PICK up : up = IF top = 0 THEN freed.parent ELSE [freed.parent EXCEPT ![top] = 0]
  OBVIOUS
<1>5. g = [freed EXCEPT !.parent = up, !.sibling = [@ EXCEPT ![n] = 0]]
  BY <1>1, <1>2, <1>3, <1>4 DEF CutOff, HeapOfType
<1>6. up \in [HeapNodes -> NodeIds]
  BY <1>2, <1>4, HeapFields
<1>7. /\ g \in HeapOfType /\ g.child = freed.child /\ g.key = freed.key
      /\ g.root = freed.root /\ g.freeHead = freed.freeHead /\ g.freeTail = freed.freeTail
      /\ g.parent = up /\ g.sibling = [freed.sibling EXCEPT ![n] = 0]
  BY <1>2, <1>5, <1>6, HeapFields DEF HeapOfType
<1>8. /\ g.sibling[n] = 0
      /\ \A x \in HeapNodes \ {n} : g.sibling[x] = freed.sibling[x]
  BY <1>2, <1>7, HeapFields
<1>9. /\ \A x \in HeapNodes \ {top} : up[x] = h.parent[x]
      /\ top # 0 => up[top] = 0
  BY <1>2, <1>4, HeapFields
<1>10. NodeCut(h, g, n, top, toFree)
  BY <1>2, <1>7, <1>8, <1>9 DEF NodeCut
<1> QED  BY <1>3, <1>10

(* What a finished merge leaves is a heap, but for its new root.           *)
TopMerged(off, g, w, key, T) ==
    /\ g \in HeapOfType /\ g.key = key
    /\ g.freeHead = off.freeHead /\ g.freeTail = off.freeTail
    /\ \A x \in HeapNodes \ T : g.sibling[x] = off.sibling[x] /\ g.parent[x] = off.parent[x]
    /\ LinksSound(g, T, {w} \ {0}, 0)
    /\ w \in T \cup {0}
    /\ w # 0 => g.sibling[w] = 0 /\ g.parent[w] = 0

(* The end of a removal.                                                   *)
LEMMA FinishKeeps ==
    ASSUME NEW h, NEW r, NEW hold, NEW old, NEW T, NEW s, HeapSound(h, r, hold, old, T, s),
           r.at = "up", r.winners = <<>>
    PROVE  LET n == r.node
               off == CutOff(h, n, r.rest, r.toFree)
               m == IF n = h.root THEN <<off, r.rest>> ELSE Merge(off, h.root, r.rest)
               g == [m[1] EXCEPT !.root = m[2]]
           IN  /\ IdleSound(g, IF r.toFree THEN hold ELSE hold \cup {n}, old, T,
                            IF r.toFree THEN Append(s, n) ELSE s)
               /\ g.key = h.key
<1>n. PICK n : n = r.node
  OBVIOUS
<1>top. PICK top : top = r.rest
  OBVIOUS
<1>off. PICK off : off = CutOff(h, n, top, r.toFree)
  OBVIOUS
<1>m. PICK m : m = IF n = h.root THEN <<off, top>> ELSE Merge(off, h.root, top)
  OBVIOUS
<1>g1. PICK g1, w : g1 = m[1] /\ w = m[2]
  OBVIOUS
<1>g. PICK g : g = [g1 EXCEPT !.root = w]
  OBVIOUS
<1>t. PICK t : t = IF r.toFree THEN Append(s, n) ELSE s
  OBVIOUS
<1>hold. PICK after : after = IF r.toFree THEN hold ELSE hold \cup {n}
  OBVIOUS
<1>R. PICK R : R = RootsOf(h, r)
  OBVIOUS
<1>1. /\ h \in HeapOfType /\ r \in RemovalOfType
      /\ n \in NodeIds /\ top \in NodeIds /\ r.toFree \in BOOLEAN
      /\ T = HeapNodes \ (ListOf(s) \cup hold \cup {n})
      /\ T \subseteq HeapNodes /\ n \notin T /\ 0 \notin T
      /\ h.root \in T \cup {0, n} /\ top \in T \cup {0}
      /\ R = (({h.root} \ {0, n}) \cup ListOf(r.winners)) \cup ({top} \ {0})
      /\ R \subseteq T
  BY <1>n, <1>top, <1>R, InHand
<1>2. R = ({h.root} \ {0, n}) \cup ({top} \ {0})
  BY <1>1, NoWinners
<1>3. /\ (h.root = top => h.root = 0)
      /\ \A x \in R \ {top} : h.sibling[x] = 0
      /\ (top = 0 \/ h.sibling[top] = 0)
      /\ n # 0 /\ (~r.toFree => n = h.root)
  BY <1>R, <1>n, <1>top DEF HeapSound, RemovalSound
<1>4. /\ hold \subseteq HeapNodes /\ old \subseteq HeapNodes
      /\ FreeListIs(h, s) /\ Placement(h, n, hold, old, T, s)
      /\ h.root # 0 => h.parent[h.root] = 0
  BY <1>n DEF HeapSound
<1>5. /\ ListOf(s) \cap hold = {} /\ n \notin ListOf(s) \cup hold
      /\ \A x \in hold \cup ({n} \ {0}) : h.sibling[x] = 0 /\ h.parent[x] = 0
      /\ old \subseteq ListOf(s)
      /\ \A x \in ListOf(s) : h.parent[x] # 0 <=> x \in old
  BY <1>4 DEF Placement
<1>6. /\ s \in Seq(HeapNodes) /\ Once(s) /\ Len(s) \in Nat
      /\ h.freeTail = IF s = <<>> THEN 0 ELSE s[Len(s)]
  BY <1>4 DEF FreeListIs
<1>7. ListOf(s) \subseteq HeapNodes /\ h.freeTail \in ListOf(s) \cup {0}
  <2>1. s # <<>> => Len(s) \in 1 .. Len(s)
    BY <1>6, EmptySeq
  <2> QED  BY <1>6, <2>1 DEF ListOf
<1>8. n \in HeapNodes /\ h.sibling[n] = 0 /\ h.parent[n] = 0 /\ top # n
      /\ 0 \notin HeapNodes /\ 0 \in NodeIds
  BY <1>1, <1>3, <1>5, HeapFields
<1>9. PICK rank \in [HeapNodes -> Nat] :
        /\ Forest(T, R, h.child, h.sibling, h.parent, rank)
        /\ ParentsFirst(T, R, n, h.parent, h.key, rank)
  BY <1>R, <1>n DEF HeapSound, LinksSound
<1>10. NodeCut(h, off, n, top, r.toFree)
  BY <1>1, <1>8, <1>off, CutOffDoes
<1>11. /\ off \in HeapOfType /\ off.child = h.child
       /\ off.key = h.key /\ off.root = h.root
       /\ ~r.toFree => off.freeHead = h.freeHead /\ off.freeTail = h.freeTail
       /\ r.toFree => /\ off.freeHead = IF h.freeHead = 0 THEN n ELSE h.freeHead
                      /\ off.freeTail = n
       /\ off.sibling[n] = 0 /\ off.parent[n] = 0
       /\ \A x \in HeapNodes \ {n} :
             off.sibling[x] = IF r.toFree /\ x = h.freeTail THEN n ELSE h.sibling[x]
       /\ \A x \in HeapNodes \ {top} : off.parent[x] = h.parent[x]
       /\ top # 0 => off.parent[top] = 0
  BY <1>10 DEF NodeCut
<1>12. \A x \in HeapNodes \ ListOf(s) : off.sibling[x] = h.sibling[x]
  BY <1>7, <1>8, <1>11
<1>13. /\ Forest(T, R, off.child, off.sibling, off.parent, rank)
       /\ ParentsFirst(T, R, 0, off.parent, off.key, rank)
  <2>1. \A x \in R : h.sibling[x] = 0
    BY <1>1, <1>3
  <2>2. ParentsFirst(T, R, 0, h.parent, h.key, rank)
    BY <1>1, <1>9, <2>1, NobodyLeft, Zenon
  <2>3. \A x \in T : x \in HeapNodes \ ListOf(s)
    BY <1>1
  <2>4. \A x \in T : off.parent[x] = h.parent[x] \/ (x \in R /\ h.sibling[x] = 0)
    BY <1>1, <1>2, <1>3, <1>11
  <2>5. LinksKept(T, R, h.child, h.sibling, h.parent, off.child, off.sibling, off.parent)
    BY <1>11, <1>12, <2>3, <2>4 DEF LinksKept
  <2>6. /\ Forest(T, R, off.child, off.sibling, off.parent, rank)
        /\ ParentsFirst(T, R, 0, off.parent, h.key, rank)
    BY <1>9, <2>2, <2>5, SameLinks
  <2> QED  BY <1>11, <2>6
<1>14. TopMerged(off, g1, w, h.key, T)
  <2>1. CASE n = h.root
    <3>1. g1 = off /\ w = top
      BY <1>m, <1>g1, <2>1
    <3>2. R = {w} \ {0}
      BY <1>2, <2>1, <3>1
    <3>3. LinksSound(off, T, {w} \ {0}, 0)
      BY <1>13, <3>2 DEF LinksSound
    <3>4. w # 0 => off.sibling[w] = 0 /\ off.parent[w] = 0
      BY <1>1, <1>3, <1>11, <1>12, <3>1
    <3> QED  BY <1>1, <1>11, <3>1, <3>3, <3>4 DEF TopMerged
  <2>2. CASE n # h.root
    <3>1. PICK a : a = h.root
      OBVIOUS
    <3>2. g1 = Merge(off, a, top)[1] /\ w = Merge(off, a, top)[2]
      BY <1>m, <1>g1, <2>2, <3>1
    <3>3. /\ a \in R \cup {0} /\ top \in R \cup {0} /\ (a = top => a = 0)
          /\ a \in T \cup {0}
      BY <1>1, <1>2, <1>3, <2>2, <3>1
    <3>4. /\ a # 0 => off.sibling[a] = 0 /\ off.parent[a] = 0
          /\ top # 0 => off.sibling[top] = 0
      <4>1. a # 0 => h.sibling[a] = 0 /\ h.parent[a] = 0 /\ a # top /\ a \in T
        BY <1>3, <1>4, <3>1, <3>3
      <4>2. a # 0 => off.sibling[a] = h.sibling[a] /\ off.parent[a] = h.parent[a]
        BY <1>1, <1>11, <1>12, <4>1
      <4>3. top # 0 => off.sibling[top] = h.sibling[top]
        BY <1>1, <1>12
      <4> QED  BY <1>3, <4>1, <4>2, <4>3
    <3>5. TreesMerged(off, g1, w, a, top, T, R, 0)
      BY <1>11, <1>13, <3>2, <3>3, <3>4, MergeDoes
    <3>6. /\ g1 \in HeapOfType /\ w \in {a, top}
          /\ g1.key = h.key /\ g1.freeHead = off.freeHead /\ g1.freeTail = off.freeTail
          /\ \A x \in HeapNodes \ {a, top} :
                g1.sibling[x] = off.sibling[x] /\ g1.parent[x] = off.parent[x]
          /\ w # 0 => g1.sibling[w] = 0 /\ g1.parent[w] = off.parent[w]
          /\ LinksSound(g1, T, (R \ {a, top}) \cup ({w} \ {0}), 0)
      BY <1>11, <3>5 DEF TreesMerged, LinksSound
    <3>7. (R \ {a, top}) \cup ({w} \ {0}) = {w} \ {0}
      BY <1>2, <3>1
    <3>8. w # 0 => off.parent[w] = 0
      BY <1>11, <3>4, <3>6
    <3>9. \A x \in HeapNodes \ T : x \in HeapNodes \ {a, top}
      BY <1>1, <1>8, <3>3
    <3>10. w \in T \cup {0} /\ LinksSound(g1, T, {w} \ {0}, 0)
      BY <1>1, <3>3, <3>6, <3>7
    <3> QED  BY <3>6, <3>8, <3>9, <3>10 DEF TopMerged
  <2> QED  BY <2>1, <2>2
<1>15. /\ g1 \in HeapOfType /\ g1.key = h.key
       /\ g1.freeHead = off.freeHead /\ g1.freeTail = off.freeTail
       /\ \A x \in HeapNodes \ T :
             g1.sibling[x] = off.sibling[x] /\ g1.parent[x] = off.parent[x]
       /\ LinksSound(g1, T, {w} \ {0}, 0)
       /\ w \in T \cup {0}
       /\ w # 0 => g1.sibling[w] = 0 /\ g1.parent[w] = 0
  BY <1>14 DEF TopMerged
<1>16. /\ g \in HeapOfType /\ g.key = h.key /\ g.root = w
       /\ g.child = g1.child /\ g.sibling = g1.sibling /\ g.parent = g1.parent
       /\ g.freeHead = g1.freeHead /\ g.freeTail = g1.freeTail
  <2>1. w \in NodeIds
    BY <1>1, <1>8, <1>15, HeapFields
  <2> QED  BY <1>15, <1>g, <2>1, HeapFields DEF HeapOfType
<1>17. LinksSound(g, T, {g.root} \ {0}, 0)
  BY <1>15, <1>16 DEF LinksSound
<1>18. FreeListIs(off, t) /\ ListOf(t) = ListOf(s) \cup (IF r.toFree THEN {n} ELSE {})
  <2>1. CASE r.toFree
    <3>1. \A x \in ListOf(s) : off.sibling[x] = IF x = h.freeTail THEN n ELSE h.sibling[x]
      BY <1>5, <1>7, <1>11, <2>1
    <3>2. FreeListIs(off, Append(s, n))
      BY <1>4, <1>5, <1>8, <1>11, <2>1, <3>1, FreeListGrows
    <3>3. ListOf(Append(s, n)) = ListOf(s) \cup {n}
      BY <1>5, <1>6, <1>8, AppendAdds
    <3> QED  BY <1>t, <2>1, <3>2, <3>3
  <2>2. CASE ~r.toFree
    <3>1. \A x \in ListOf(s) : off.sibling[x] = h.sibling[x]
      BY <1>5, <1>7, <1>11, <2>2
    <3>2. FreeListIs(off, s)
      BY <1>4, <1>11, <2>2, <3>1, FreeListStays
    <3> QED  BY <1>t, <2>2, <3>2
  <2> QED  BY <2>1, <2>2
<1>19. after \subseteq HeapNodes /\ after = hold \cup (IF r.toFree THEN {} ELSE {n})
  BY <1>4, <1>8, <1>hold
<1>20. Placement(off, 0, after, old, T, t)
  <2>1. T = HeapNodes \ (ListOf(t) \cup after \cup {0})
    BY <1>1, <1>8, <1>18, <1>19
  <2>2. ListOf(t) \cap after = {} /\ 0 \notin ListOf(t) \cup after
    BY <1>4, <1>5, <1>7, <1>8, <1>18, <1>19
  <2>3. \A x \in after \cup ({0} \ {0}) : off.sibling[x] = 0 /\ off.parent[x] = 0
    <3>1. ASSUME NEW x \in hold PROVE off.sibling[x] = 0 /\ off.parent[x] = 0
      <4>1. x \in HeapNodes \ ListOf(s) /\ x # top
        BY <1>1, <1>4, <1>5, <1>8
      <4> QED  BY <1>5, <1>11, <1>12, <4>1
    <3> QED  BY <1>11, <1>19, <3>1
  <2>4. ASSUME NEW x \in ListOf(t) PROVE off.parent[x] # 0 <=> x \in old
    <3>1. CASE x = n
      BY <1>5, <1>11, <3>1
    <3>2. CASE x # n
      <4>1. x \in ListOf(s) /\ x \in HeapNodes /\ x # top
        BY <1>1, <1>7, <1>8, <1>18, <3>2
      <4> QED  BY <1>5, <1>11, <4>1
    <3> QED  BY <3>1, <3>2
  <2>5. old \subseteq ListOf(t)
    BY <1>5, <1>18
  <2> QED  BY <2>1, <2>2, <2>3, <2>4, <2>5 DEF Placement
<1>21. FreeListIs(g, t) /\ Placement(g, 0, after, old, T, t)
  BY <1>8, <1>15, <1>16, <1>18, <1>19, <1>20, OutsideStays
<1>22. /\ g.root \in T \cup {0}
       /\ g.root # 0 => g.sibling[g.root] = 0 /\ g.parent[g.root] = 0
  BY <1>15, <1>16
<1>23. IdleSound(g, after, old, T, t)
  BY <1>4, <1>16, <1>17, <1>19, <1>21, <1>22 DEF IdleSound
<1> QED
  BY <1>16, <1>23, <1>n, <1>top, <1>off, <1>m, <1>g1, <1>g, <1>t, <1>hold

----------------------------------------------------------------------------
(* The heap's theorems.                                                    *)

(* Between the calls, a heap is sound on its own.                          *)
LEMMA IdleHeap ==
    ASSUME NEW h, NEW r, NEW hold, NEW old, NEW T, NEW s, HeapSound(h, r, hold, old, T, s),
           r.at = "idle"
    PROVE  r = NoRemoval /\ IdleSound(h, hold, old, T, s)
<1>1. r = NoRemoval
  BY DEF HeapSound, RemovalSound
<1> QED  BY <1>1, IdleMeans

(* A heap that is sound, for some nodes and some list, is so.              *)
LEMMA SomeSound ==
    ASSUME NEW h, NEW r, NEW hold, NEW old, NEW T, NEW s, HeapSound(h, r, hold, old, T, s)
    PROVE  \E U \in SUBSET HeapNodes, t \in Seq(HeapNodes) : HeapSound(h, r, hold, old, U, t)
<1>1. T \in SUBSET HeapNodes
  BY InHand
<1>2. s \in Seq(HeapNodes)
  BY DEF HeapSound, FreeListIs
<1> QED  BY <1>1, <1>2

(* The nodes in the queue.                                                 *)
MembersOf(h, r) == Reached(h, RootsOf(h, r)) \cup ({r.node} \ {0})

(* They are those of the forest, and the one that is being removed.        *)
LEMMA MembersAre ==
    ASSUME NEW h, NEW r, NEW hold, NEW old, NEW T, NEW s, HeapSound(h, r, hold, old, T, s)
    PROVE  MembersOf(h, r) = T \cup ({r.node} \ {0})
<1>1. PICK rank \in [HeapNodes -> Nat] :
        Forest(T, RootsOf(h, r), h.child, h.sibling, h.parent, rank)
  BY DEF HeapSound, LinksSound
<1>2. Reached(h, RootsOf(h, r)) = T
  BY <1>1, ReachedIsForest
<1> QED  BY <1>2 DEF MembersOf

(* Between the calls, the root is a least member; no root, no member.      *)
LEMMA IdleTop ==
    ASSUME NEW h, NEW hold, NEW old, NEW T, NEW s, IdleSound(h, hold, old, T, s)
    PROVE  /\ T = {} <=> h.root = 0
           /\ T # {} => h.root \in T /\ \A x \in T : h.key[h.root] <= h.key[x]
<1>1. /\ h \in HeapOfType /\ h.root \in T \cup {0} /\ LinksSound(h, T, {h.root} \ {0}, 0)
  BY DEF IdleSound
<1>2. PICK rank \in [HeapNodes -> Nat] :
        /\ Forest(T, {h.root} \ {0}, h.child, h.sibling, h.parent, rank)
        /\ ParentsFirst(T, {h.root} \ {0}, 0, h.parent, h.key, rank)
  BY <1>1 DEF LinksSound
<1>3. 0 \notin T
  BY <1>2, <1>1, HeapFields DEF Forest
<1>4. h.key \in [HeapNodes -> Int]
  <2>1. h.key \in [HeapNodes -> Keys]
    BY ONLY <1>1, HeapFields
  <2>2. Keys \subseteq Int
    BY ONLY PairingHeapAssumption
  <2> QED  BY ONLY <2>1, <2>2
<1>5. CASE h.root = 0
  <2>1. {h.root} \ {0} = {}
    BY <1>5
  <2>2. T = {}
    BY <1>2, <2>1, NoRootNoNode
  <2> QED  BY <1>5, <2>2
<1>6. CASE h.root # 0
  <2>1. PICK r : r = h.root
    OBVIOUS
  <2>2. {h.root} \ {0} = {r} /\ r \in T
    BY <1>1, <1>6, <2>1
  <2>3. \A x \in T : h.key[r] <= h.key[x]
    <3>1. /\ Forest(T, {r}, h.child, h.sibling, h.parent, rank)
          /\ ParentsFirst(T, {r}, 0, h.parent, h.key, rank)
      BY ONLY <1>2, <2>2
    <3>2. rank \in [HeapNodes -> Nat] /\ r \in T
      BY ONLY <1>2, <2>2
    <3> QED  BY ONLY <1>4, <3>1, <3>2, RootIsLeast
  <2> QED  BY <1>6, <2>1, <2>2, <2>3
<1> QED  BY <1>5, <1>6

(* A sound heap, seen as a priority queue.                                 *)
LEMMA SeenAs ==
    ASSUME NEW h, NEW r, NEW hold, NEW old, NEW T, NEW s, HeapSound(h, r, hold, old, T, s)
    PROVE  MembersOf(h, r) = T \cup ({r.node} \ {0}) /\ FreeList(h) = s
<1>1. h \in HeapOfType /\ FreeListIs(h, s)
  BY DEF HeapSound
<1> QED  BY <1>1, MembersAre, FreeListFound

(* The merges leave the members, and what a user sees of them, as they are.*)
LEMMA PairStepKeeps ==
    ASSUME NEW T, NEW s, HeapSound(pheap, removal, held, stale, T, s), MergePair
    PROVE  /\ HeapSound(pheap', removal', held, stale, T, s) /\ UNCHANGED <<held, stale>>
           /\ pheap'.key = pheap.key /\ pheap'.root = pheap.root
           /\ removal'.node = removal.node
<1> DEFINE a == removal.rest
           b == pheap.sibling[a]
           c == pheap.sibling[b]
           m == Merge([pheap EXCEPT !.sibling[a] = 0, !.sibling[b] = 0], a, b)
           q == [removal EXCEPT !.at = TwoPass(m[1], c), !.rest = c,
                                !.winners = Append(@, m[2])]
<1>1. removal.at = "down"
  BY DEF MergePair
<1>2. pheap' = m[1] /\ removal' = q /\ UNCHANGED <<held, stale>>
  BY ZenonT(60) DEF MergePair
<1>3. /\ HeapSound(m[1], q, held, stale, T, s)
      /\ m[1].key = pheap.key /\ m[1].root = pheap.root
  BY <1>1, PairKeeps
<1>4. q.node = removal.node
  <2>1. removal \in RemovalOfType
    BY DEF HeapSound
  <2> HIDE DEF m
  <2> QED  BY <2>1 DEF RemovalOfType
<1> HIDE DEF m, q
<1> QED  BY <1>2, <1>3, <1>4

(* The same, on the way out.                                               *)
LEMMA ReturnStepKeeps ==
    ASSUME NEW T, NEW s, HeapSound(pheap, removal, held, stale, T, s), MergeReturns
    PROVE  /\ HeapSound(pheap', removal', held, stale, T, s) /\ UNCHANGED <<held, stale>>
           /\ pheap'.key = pheap.key /\ pheap'.root = pheap.root
           /\ removal'.node = removal.node
<1> DEFINE last == Len(removal.winners)
           m == Merge(pheap, removal.winners[last], removal.rest)
           q == [removal EXCEPT !.rest = m[2], !.winners = SubSeq(@, 1, last - 1)]
<1>1. removal.at = "up" /\ removal.winners # <<>>
  BY DEF MergeReturns
<1>2. pheap' = m[1] /\ removal' = q /\ UNCHANGED <<held, stale>>
  BY ZenonT(60) DEF MergeReturns
<1>3. /\ HeapSound(m[1], q, held, stale, T, s)
      /\ m[1].key = pheap.key /\ m[1].root = pheap.root
  BY <1>1, ReturnKeeps
<1>4. q.node = removal.node
  <2>1. removal \in RemovalOfType
    BY DEF HeapSound
  <2> HIDE DEF m
  <2> QED  BY <2>1 DEF RemovalOfType
<1> HIDE DEF m, q
<1> QED  BY <1>2, <1>3, <1>4

(* Each step keeps the heap sound, and is a step of the priority queue, or *)
(* none.                                                                   *)
LEMMA HeapSteps ==
    ASSUME NEW T, NEW s, HeapSound(pheap, removal, held, stale, T, s), [HeapNext]_heapVars
    PROVE  /\ \E U, t : HeapSound(pheap', removal', held', stale', U, t)
           /\ [Q!Next]_(Q!queueVars)
<1> DEFINE After(U, t) == HeapSound(pheap', removal', held', stale', U, t)
           QStep == [Q!Next]_(Q!queueVars)
<1>1. HeapMembers = T \cup ({removal.node} \ {0}) /\ FreeList(pheap) = s
  <2>1. HeapMembers = MembersOf(pheap, removal)
    BY DEF HeapMembers, TreeRoots, MembersOf, RootsOf, ListOf
  <2> QED  BY <2>1, SeenAs
<1>2. ASSUME NEW U, NEW t, After(U, t)
      PROVE  HeapMembers' = U \cup ({removal'.node} \ {0}) /\ FreeList(pheap)' = t
  <2>1. HeapMembers' = MembersOf(pheap', removal')
    BY DEF HeapMembers, TreeRoots, MembersOf, RootsOf, ListOf
  <2>2. MembersOf(pheap', removal') = U \cup ({removal'.node} \ {0})
    BY <1>2, SeenAs
  <2>3. FreeList(pheap') = t
    BY <1>2, SeenAs
  <2> QED  BY <2>1, <2>2, <2>3
<1>3. HeapIdle => /\ removal = NoRemoval /\ IdleSound(pheap, held, stale, T, s)
                  /\ HeapMembers = T
  <2>1. HeapIdle => removal = NoRemoval /\ IdleSound(pheap, held, stale, T, s)
    BY IdleHeap DEF HeapIdle
  <2>2. NoRemoval.node = 0
    BY NoWinners
  <2> QED  BY <1>1, <2>1, <2>2
<1>4. ASSUME NEW U, NEW t, IdleSound(pheap', held', stale', U, t), removal' = NoRemoval
      PROVE  After(U, t) /\ HeapMembers' = U /\ FreeList(pheap)' = t
  <2>1. After(U, t)
    BY <1>4, IdleMeans
  <2>2. removal'.node = 0
    BY <1>4, NoWinners
  <2>3. HeapMembers' = U \cup ({removal'.node} \ {0}) /\ FreeList(pheap)' = t
    BY <1>2, <2>1
  <2> QED  BY <2>1, <2>2, <2>3
<1>5. Q!Nodes = HeapNodes
  BY DEF Q!Nodes, HeapNodes
<1>6. \E U, t : After(U, t) /\ QStep
  <2>4. ASSUME NEW k \in Keys, Insert(k) PROVE \E U, t : After(U, t) /\ QStep
    <3>1. PICK n, f : n = pheap.freeHead /\ f = HeadTaken(pheap)
      OBVIOUS
    <3>2. /\ HeapIdle /\ n # 0 /\ pheap' = Inserted(f, n, k)
          /\ stale' = stale \ {n} /\ UNCHANGED <<removal, held>>
      BY <2>4, <3>1 DEF Insert
    <3>3. /\ IdleSound(pheap', held', stale', T \cup {n}, Tail(s))
          /\ NodeInserted(f, pheap', n, k, T)
      BY <1>3, <3>1, <3>2, InsertKeeps
    <3>4. /\ After(T \cup {n}, Tail(s))
          /\ HeapMembers' = T \cup {n} /\ FreeList(pheap)' = Tail(s)
      BY <1>3, <1>4, <3>2, <3>3
    <3>5. /\ pheap \in HeapOfType /\ FreeListIs(pheap, s)
          /\ (T = {} <=> pheap.root = 0)
      BY <1>3, <3>2, IdleTop DEF IdleSound
    <3>6. f.key = pheap.key /\ f.root = pheap.root /\ s # <<>> /\ n = Head(s)
      BY <3>1, <3>2, <3>5, HeadTakenDoes
    <3>7. /\ pheap'.key = [pheap.key EXCEPT ![n] = k]
          /\ pheap'.root = IF T = {} THEN n
                           ELSE IF k <= pheap.key[pheap.root] THEN n ELSE pheap.root
      BY <3>3, <3>5, <3>6 DEF NodeInserted
    <3>8. Q!Insert(k)
      BY <1>1, <1>3, <3>2, <3>4, <3>6, <3>7 DEF Q!Insert, Q!Enter
    <3>9. QStep
      BY <3>8 DEF Q!Next
    <3> QED  BY <3>4, <3>9
  <2>5. ASSUME NEW k \in Keys, NEW n \in HeapNodes, Reinsert(n, k)
        PROVE  \E U, t : After(U, t) /\ QStep
    <3>1. /\ HeapIdle /\ n \in held /\ pheap' = Inserted(pheap, n, k)
          /\ held' = held \ {n} /\ UNCHANGED <<removal, stale>>
      BY <2>5 DEF Reinsert
    <3>2. /\ IdleSound(pheap', held', stale', T \cup {n}, s)
          /\ NodeInserted(pheap, pheap', n, k, T)
      BY <1>3, <3>1, ReinsertKeeps
    <3>3. After(T \cup {n}, s) /\ HeapMembers' = T \cup {n} /\ FreeList(pheap)' = s
      BY <1>3, <1>4, <3>1, <3>2
    <3>4. T = {} <=> pheap.root = 0
      BY <1>3, <3>1, IdleTop
    <3>5. /\ pheap'.key = [pheap.key EXCEPT ![n] = k]
          /\ pheap'.root = IF T = {} THEN n
                           ELSE IF k <= pheap.key[pheap.root] THEN n ELSE pheap.root
      BY <3>2, <3>4 DEF NodeInserted
    <3>6. Q!Reinsert(n, k)
      BY <1>1, <1>3, <3>1, <3>3, <3>5 DEF Q!Reinsert, Q!Enter
    <3>7. QStep
      BY <1>5, <3>6 DEF Q!Next
    <3> QED  BY <3>3, <3>7
  <2>6. ASSUME NEW n \in HeapNodes, Release(n) PROVE \E U, t : After(U, t) /\ QStep
    <3>1. /\ HeapIdle /\ n \in held /\ pheap' = FreeLast(pheap, n)
          /\ held' = held \ {n} /\ UNCHANGED <<removal, stale>>
      BY <2>6 DEF Release
    <3>2. IdleSound(pheap', held', stale', T, Append(s, n))
      BY <1>3, <3>1, ReleaseKeeps
    <3>3. After(T, Append(s, n)) /\ HeapMembers' = T /\ FreeList(pheap)' = Append(s, n)
      BY <1>3, <1>4, <3>1, <3>2
    <3>4. pheap'.key = pheap.key /\ pheap'.root = pheap.root
      <4>1. pheap \in HeapOfType
        BY <1>3, <3>1 DEF IdleSound
      <4> QED  BY <3>1, <4>1, FreeLastDoes
    <3>5. Q!Release(n)
      BY <1>1, <1>3, <3>1, <3>3, <3>4 DEF Q!Release
    <3>6. QStep
      BY <1>5, <3>5 DEF Q!Next
    <3> QED  BY <3>3, <3>6
  <2>7. ASSUME Clear PROVE \E U, t : After(U, t) /\ QStep
    <3>1. /\ HeapIdle /\ pheap' = Cleared(pheap) /\ held' = {}
          /\ stale' = {n \in HeapNodes : pheap.parent[n] # 0} /\ UNCHANGED removal
      BY <2>7 DEF Clear
    <3>2. pheap \in HeapOfType
      BY DEF HeapSound
    <3>3. IdleSound(pheap', held', stale', {}, [i \in HeapNodes |-> i])
      BY <3>1, <3>2, ClearKeeps
    <3>4. /\ After({}, [i \in HeapNodes |-> i])
          /\ HeapMembers' = {} /\ FreeList(pheap)' = [i \in HeapNodes |-> i]
      BY <1>3, <1>4, <3>1, <3>3
    <3>5. pheap'.key = pheap.key /\ pheap'.root = 0
      BY <3>1, <3>2, ClearedDoes
    <3>6. Q!Clear
      BY <1>5, <3>1, <3>4, <3>5 DEF Q!Clear
    <3>7. QStep
      BY <3>6 DEF Q!Next
    <3> QED  BY <3>4, <3>7
  <2>8. ASSUME NEW U, NEW g, NEW n \in HeapNodes, NEW q, HeapIdle,
               pheap' = g, removal' = q, UNCHANGED <<held, stale>>,
               HeapSound(g, q, held, stale, U, s), q.node = n, n \in T, U = T \ {n},
               g.key = pheap.key, g.root = pheap.root
        PROVE  \E V, t : After(V, t) /\ QStep
    <3>1. After(U, s)
      BY <2>8
    <3>2. HeapMembers' = U \cup ({removal'.node} \ {0}) /\ FreeList(pheap)' = s
      BY <1>2, <3>1
    <3>3. HeapMembers' = HeapMembers
      BY <1>3, <2>8, <3>2 DEF HeapNodes
    <3>4. QStep
      BY <1>1, <2>8, <3>2, <3>3 DEF Q!queueVars
    <3> QED  BY <3>1, <3>4
  <2>9. ASSUME NEW toFree \in BOOLEAN, HeapIdle, pheap.root # 0,
               removal' = Begun(pheap, pheap.root, toFree),
               UNCHANGED <<pheap, held, stale>>
        PROVE  \E U, t : After(U, t) /\ QStep
    <3>1. PICK n, q : n = pheap.root /\ q = Begun(pheap, n, toFree)
      OBVIOUS
    <3>2. HeapSound(pheap, q, held, stale, T \ {n}, s)
      BY <1>3, <2>9, <3>1, RootRemovalBegins
    <3>3. q.node = n
      BY <3>1 DEF Begun
    <3>4. n \in T /\ n \in HeapNodes
      BY <1>3, <2>9, <3>1 DEF IdleSound, Placement
    <3>5. pheap' = pheap /\ removal' = q /\ UNCHANGED <<held, stale>>
      BY <2>9, <3>1
    <3> QED  BY <2>8, <2>9, <3>2, <3>3, <3>4, <3>5
  <2>10. ASSUME TakeRoot PROVE \E U, t : After(U, t) /\ QStep
    BY <2>9, <2>10 DEF TakeRoot, BeginRemoval, Begun
  <2>11. ASSUME NEW n \in HeapNodes, RemoveHead(n) PROVE \E U, t : After(U, t) /\ QStep
    <3>1. n # 0
      BY DEF HeapNodes
    <3> QED  BY <2>9, <2>11, <3>1 DEF RemoveHead, BeginRemoval, Begun
  <2>12. ASSUME NEW n \in HeapNodes, RemoveOther(n) PROVE \E U, t : After(U, t) /\ QStep
    <3>1. PICK g, q : g = Unlink(pheap, n) /\ q = Begun(g, n, TRUE)
      OBVIOUS
    <3>2. /\ HeapIdle /\ n \notin stale /\ n # pheap.root /\ pheap.parent[n] # 0
          /\ pheap' = g /\ removal' = q /\ UNCHANGED <<held, stale>>
      BY <2>12, <3>1 DEF RemoveOther, BeginRemoval, Begun
    <3>3. /\ HeapSound(g, q, held, stale, T \ {n}, s) /\ n \in T
          /\ g.key = pheap.key /\ g.root = pheap.root
      <4>1. IdleSound(pheap, held, stale, T, s)
        BY ONLY <1>3, <3>2
      <4>2. /\ HeapSound(Unlink(pheap, n), Begun(Unlink(pheap, n), n, TRUE),
                         held, stale, T \ {n}, s)
            /\ n \in T
            /\ Unlink(pheap, n).key = pheap.key /\ Unlink(pheap, n).root = pheap.root
        BY ONLY <2>12, <3>2, <4>1, OtherRemovalBegins
      <4> QED  BY ONLY <3>1, <4>2
    <3>4. q.node = n
      BY <3>1 DEF Begun
    <3> QED  BY <2>8, <3>2, <3>3, <3>4
  <2>13. CASE UNCHANGED heapVars
    <3>1. /\ pheap' = pheap /\ removal' = removal /\ held' = held /\ stale' = stale
      BY <2>13 DEF heapVars
    <3>2. After(T, s)
      BY <3>1
    <3>3. HeapMembers' = HeapMembers /\ FreeList(pheap)' = s
      BY <1>1, <1>2, <3>1, <3>2
    <3>4. QStep
      BY <1>1, <3>1, <3>3 DEF Q!queueVars
    <3> QED  BY <3>2, <3>4
  <2>14. ASSUME NEW g, NEW q, pheap' = g, removal' = q, UNCHANGED <<held, stale>>,
                HeapSound(g, q, held, stale, T, s), q.node = removal.node,
                g.key = pheap.key, g.root = pheap.root
         PROVE  \E U, t : After(U, t) /\ QStep
    <3>1. After(T, s)
      BY <2>14
    <3>2. HeapMembers' = HeapMembers /\ FreeList(pheap)' = s
      BY <1>1, <1>2, <2>14, <3>1
    <3>3. QStep
      BY <1>1, <2>14, <3>2 DEF Q!queueVars
    <3> QED  BY <3>1, <3>3
  <2>15. ASSUME MergePair PROVE \E U, t : After(U, t) /\ QStep
    <3>1. /\ HeapSound(pheap', removal', held, stale, T, s) /\ UNCHANGED <<held, stale>>
          /\ pheap'.key = pheap.key /\ pheap'.root = pheap.root
          /\ removal'.node = removal.node
      BY <2>15, PairStepKeeps
    <3> QED  BY <2>14, <3>1
  <2>16. ASSUME MergeReturns PROVE \E U, t : After(U, t) /\ QStep
    <3>1. /\ HeapSound(pheap', removal', held, stale, T, s) /\ UNCHANGED <<held, stale>>
          /\ pheap'.key = pheap.key /\ pheap'.root = pheap.root
          /\ removal'.node = removal.node
      BY <2>16, ReturnStepKeeps
    <3> QED  BY <2>14, <3>1
  <2>17. ASSUME FinishRemoval PROVE \E U, t : After(U, t) /\ QStep
    <3>1. PICK n, t : /\ n = removal.node
                      /\ t = IF removal.toFree THEN Append(s, n) ELSE s
      OBVIOUS
    <3>2. /\ removal.at = "up" /\ removal.winners = <<>> /\ removal' = NoRemoval
          /\ stale' = stale /\ held' = IF removal.toFree THEN held ELSE held \cup {n}
      BY <2>17, <3>1 DEF FinishRemoval
    <3>3. IdleSound(pheap', held', stale', T, t) /\ pheap'.key = pheap.key
      BY <2>17, <3>1, FinishKeeps DEF FinishRemoval
    <3>4. After(T, t) /\ HeapMembers' = T /\ FreeList(pheap)' = t
      BY <1>4, <3>2, <3>3
    <3>5. /\ n \in HeapNodes /\ n \notin T /\ n # 0
          /\ (~removal.toFree => n = pheap.root)
      <4>1. n \in NodeIds /\ n \notin T
        BY <3>1, InHand
      <4>2. n # 0 /\ (~removal.toFree => n = pheap.root)
        BY <3>1, <3>2 DEF HeapSound, RemovalSound
      <4> QED  BY <4>1, <4>2 DEF NodeIds, HeapNodes
    <3>6. HeapMembers = T \cup {n}
      BY <1>1, <3>1, <3>5
    <3>7. /\ T = {} <=> pheap'.root = 0
          /\ T # {} => /\ pheap'.root \in T
                       /\ \A x \in T : pheap'.key[pheap'.root] <= pheap'.key[x]
      BY <3>3, IdleTop
    <3>8. Q!Leave(n)
      <4>1. pheap'.root \in Q!TopOf(T)
        BY <3>3, <3>7 DEF Q!TopOf, Q!Least
      <4>2. T = HeapMembers \ {n}
        BY <3>5, <3>6
      <4> QED  BY <3>3, <3>4, <3>6, <4>1, <4>2 DEF Q!Leave
    <3>9. CASE removal.toFree
      <4>1. Q!Remove(n)
        BY <1>1, <3>1, <3>2, <3>4, <3>8, <3>9 DEF Q!Remove
      <4>2. QStep
        BY <1>5, <3>5, <4>1 DEF Q!Next
      <4> QED  BY <3>4, <4>2
    <3>10. CASE ~removal.toFree
      <4>1. Q!Take
        BY <1>1, <3>1, <3>2, <3>4, <3>5, <3>8, <3>10 DEF Q!Take
      <4>2. QStep
        BY <4>1 DEF Q!Next
      <4> QED  BY <3>4, <4>2
    <3> QED  BY <3>9, <3>10
  <2> HIDE DEF After, QStep
  <2> QED
    BY <2>4, <2>5, <2>6, <2>7, <2>10, <2>11, <2>12, <2>13, <2>15, <2>16, <2>17
    DEF HeapNext, RemovalStep, RemoveNone
<1> QED  BY <1>6

(* A new heap has no nodes in use.                                         *)
LEMMA HeapStarts ==
    HeapInit => /\ HeapSound(pheap, removal, held, stale, {}, [i \in HeapNodes |-> i])
                /\ removal = NoRemoval /\ held = {}
                /\ pheap.key \in [HeapNodes -> Keys] /\ pheap.root = 0
<1> SUFFICES ASSUME HeapInit
             PROVE  /\ HeapSound(pheap, removal, held, stale, {}, [i \in HeapNodes |-> i])
                    /\ removal = NoRemoval /\ held = {}
                    /\ pheap.key \in [HeapNodes -> Keys] /\ pheap.root = 0
  OBVIOUS
<1>1. PICK k \in [HeapNodes -> Keys] :
        pheap = Cleared([child |-> Zero, sibling |-> Zero, parent |-> Zero, key |-> k,
                         root |-> 0, freeHead |-> 0, freeTail |-> 0])
  BY DEF HeapInit
<1>2. PICK h : h = [child |-> Zero, sibling |-> Zero, parent |-> Zero, key |-> k,
                    root |-> 0, freeHead |-> 0, freeTail |-> 0]
  OBVIOUS
<1>3. h \in HeapOfType /\ h.parent = Zero
  <2>1. 0 \in NodeIds /\ Zero \in [HeapNodes -> NodeIds]
    BY PairingHeapAssumption DEF NodeIds, Zero
  <2> QED  BY <1>2, <2>1 DEF HeapOfType
<1>4. {n \in HeapNodes : h.parent[n] # 0} = {}
  BY <1>3 DEF Zero
<1>5. IdleSound(pheap, {}, {}, {}, [i \in HeapNodes |-> i])
  BY <1>1, <1>2, <1>3, <1>4, ClearKeeps
<1>6. pheap \in HeapOfType /\ pheap.root = 0
  BY <1>1, <1>2, <1>3, ClearedDoes
<1>7. HeapSound(pheap, removal, held, stale, {}, [i \in HeapNodes |-> i])
  BY <1>5, IdleMeans DEF HeapInit
<1> QED  BY <1>6, <1>7, HeapFields DEF HeapInit

(* The links of a pairing heap are a forest's, whose nodes, the free list's *)
(* and the caller's are all nodes, and different ones: ph_insert_node, the *)
(* removals, ph_free_node and ph_clear neither lose nor double a node,     *)
(* however many steps the recursion of ph_merge_two_pass takes.            *)
THEOREM HeapInvHolds == HeapSpec => []HeapInv
<1>1. HeapInit => HeapInv
  BY HeapStarts, SomeSound DEF HeapInv
<1>2. HeapInv /\ [HeapNext]_heapVars => HeapInv'
  <2> SUFFICES ASSUME HeapInv, [HeapNext]_heapVars PROVE HeapInv'
    OBVIOUS
  <2>1. PICK T, s : HeapSound(pheap, removal, held, stale, T, s)
    BY DEF HeapInv
  <2>2. PICK U, t : HeapSound(pheap', removal', held', stale', U, t)
    BY <2>1, HeapSteps
  <2>3. \E V \in SUBSET HeapNodes, v \in Seq(HeapNodes) :
           HeapSound(pheap', removal', held', stale', V, v)
    BY <2>2, SomeSound
  <2> QED  BY <2>3 DEF HeapInv
<1> QED  BY <1>1, <1>2, PTL DEF HeapSpec

(* A forest and a list for the state, and what the queue's members are.    *)
LEMMA SoundNow ==
    HeapInv => \E T, s : /\ HeapSound(pheap, removal, held, stale, T, s)
                         /\ HeapMembers = T \cup ({removal.node} \ {0})
<1> SUFFICES ASSUME HeapInv
             PROVE  \E T, s : /\ HeapSound(pheap, removal, held, stale, T, s)
                              /\ HeapMembers = T \cup ({removal.node} \ {0})
  OBVIOUS
<1>1. PICK T, s : HeapSound(pheap, removal, held, stale, T, s)
  BY DEF HeapInv
<1>2. HeapMembers = MembersOf(pheap, removal)
  BY DEF HeapMembers, TreeRoots, MembersOf, RootsOf, ListOf
<1>3. HeapMembers = T \cup ({removal.node} \ {0})
  BY <1>1, <1>2, MembersAre
<1> QED  BY <1>1, <1>3

(* The links keep their range, and end where they should.                  *)
LEMMA LinksKeepTypes == HeapInv => HeapTypeOK
<1> SUFFICES ASSUME HeapInv PROVE HeapTypeOK
  OBVIOUS
<1>1. PICK T, s : HeapSound(pheap, removal, held, stale, T, s)
  BY DEF HeapInv
<1>2. /\ pheap \in HeapOfType /\ held \subseteq HeapNodes /\ stale \subseteq HeapNodes
      /\ FreeListIs(pheap, s) /\ Placement(pheap, removal.node, held, stale, T, s)
      /\ RemovalSound(pheap, removal, T)
      /\ pheap.root # 0 => pheap.parent[pheap.root] = 0
  BY <1>1 DEF HeapSound
<1>3. pheap.root # 0 => pheap.sibling[pheap.root] = 0
  <2>1. CASE pheap.root = removal.node
    BY <1>2, <2>1 DEF Placement
  <2>2. CASE pheap.root # removal.node /\ pheap.root # 0
    <3>1. pheap.root \in RootsOf(pheap, removal)
      BY <2>2 DEF RootsOf
    <3>2. pheap.root # removal.rest
      BY <1>2, <2>2 DEF RemovalSound
    <3> QED  BY <1>2, <3>1, <3>2 DEF RemovalSound
  <2> QED  BY <2>1, <2>2
<1>4. /\ pheap.freeTail # 0 => pheap.sibling[pheap.freeTail] = 0
      /\ pheap.freeTail = 0 <=> pheap.freeHead = 0
  <2>1. /\ s \in Seq(HeapNodes) /\ Len(s) \in Nat
        /\ pheap.freeHead = IF s = <<>> THEN 0 ELSE s[1]
        /\ pheap.freeTail = IF s = <<>> THEN 0 ELSE s[Len(s)]
        /\ \A i \in 1 .. Len(s) :
              pheap.sibling[s[i]] = IF i < Len(s) THEN s[i + 1] ELSE 0
    BY <1>2 DEF FreeListIs
  <2>2. CASE s = <<>>
    BY <2>1, <2>2
  <2>3. CASE s # <<>>
    <3>1. 1 \in 1 .. Len(s) /\ Len(s) \in 1 .. Len(s)
      BY <2>1, <2>3, EmptySeq
    <3>2. s[1] # 0 /\ s[Len(s)] # 0
      <4>1. s[1] \in HeapNodes /\ s[Len(s)] \in HeapNodes
        BY <2>1, <3>1
      <4> QED  BY <4>1 DEF HeapNodes
    <3> QED  BY <2>1, <2>3, <3>1, <3>2
  <2> QED  BY <2>2, <2>3
<1>5. /\ {pheap.child, pheap.sibling, pheap.parent} \subseteq [HeapNodes -> 0 .. HeapSize]
      /\ {pheap.root, pheap.freeHead, pheap.freeTail} \subseteq 0 .. HeapSize
  BY <1>2, HeapFields DEF NodeIds
<1> QED  BY <1>2, <1>3, <1>4, <1>5 DEF HeapTypeOK

(* Between the calls, parent links agree with child lists, and no child is *)
(* less than its parent (pheap.c 42-53, 89-114).                           *)
THEOREM HeapOrderedHolds == HeapSpec => []HeapOrdered
<1>1. HeapInv => HeapOrdered
  <2> SUFFICES ASSUME HeapInv, HeapIdle, NEW n \in HeapMembers \ {pheap.root}
               PROVE  /\ pheap.parent[n] \in HeapMembers
                      /\ n \in Reach(HeapNodes, pheap.sibling, pheap.child[pheap.parent[n]])
                      /\ pheap.key[pheap.parent[n]] <= pheap.key[n]
    BY LinksKeepTypes DEF HeapOrdered
  <2>1. PICK T, s : /\ HeapSound(pheap, removal, held, stale, T, s)
                    /\ HeapMembers = T \cup ({removal.node} \ {0})
    BY SoundNow
  <2>2. removal = NoRemoval /\ IdleSound(pheap, held, stale, T, s)
    BY <2>1, IdleHeap DEF HeapIdle
  <2>3. HeapMembers = T
    BY <2>1, <2>2, NoWinners
  <2>4. PICK r : r = pheap.root
    OBVIOUS
  <2>5. pheap.root \in T /\ pheap.root # 0
    BY <2>2, <2>3, IdleTop
  <2>6. {pheap.root} \ {0} = {r} /\ r \in T /\ pheap.sibling[r] = 0
    BY <2>2, <2>4, <2>5 DEF IdleSound
  <2>7. PICK rank \in [HeapNodes -> Nat] :
          /\ Forest(T, {r}, pheap.child, pheap.sibling, pheap.parent, rank)
          /\ ParentsFirst(T, {r}, 0, pheap.parent, pheap.key, rank)
    BY <2>2, <2>6 DEF IdleSound, LinksSound
  <2>8. n \in T \ {r}
    BY <2>3, <2>4
  <2>9. /\ n \in Reach(HeapNodes, pheap.sibling, pheap.child[pheap.parent[n]])
        /\ pheap.parent[n] \in T
    BY <2>6, <2>7, <2>8, InChildList, Zenon
  <2>10. pheap.key[pheap.parent[n]] <= pheap.key[n]
    BY <2>7, <2>8, <2>9 DEF ParentsFirst
  <2> QED  BY <2>3, <2>9, <2>10
<1> QED  BY <1>1, HeapInvHolds, PTL

(* ph_contains_node is true of the nodes in the heap, and of those that a  *)
(* ph_clear has freed since (pheap.h 234-236, pheap.c 27-35).              *)
THEOREM ContainsMembersHolds == HeapSpec => []ContainsMembers
<1>1. HeapInv => ContainsMembers
  <2> SUFFICES ASSUME HeapInv, HeapIdle, NEW n \in HeapNodes
               PROVE  ContainsNode(pheap, n) <=> n \in HeapMembers \cup stale
    BY DEF ContainsMembers
  <2>1. PICK T, s : /\ HeapSound(pheap, removal, held, stale, T, s)
                    /\ HeapMembers = T \cup ({removal.node} \ {0})
    BY SoundNow
  <2>2. removal = NoRemoval /\ IdleSound(pheap, held, stale, T, s)
    BY <2>1, IdleHeap DEF HeapIdle
  <2>3. HeapMembers = T
    BY <2>1, <2>2, NoWinners
  <2>4. /\ T = HeapNodes \ (ListOf(s) \cup held \cup {0})
        /\ \A m \in held : pheap.parent[m] = 0
        /\ stale \subseteq ListOf(s)
        /\ \A m \in ListOf(s) : pheap.parent[m] # 0 <=> m \in stale
        /\ pheap.root \in T \cup {0} /\ pheap \in HeapOfType
    BY <2>2 DEF IdleSound, Placement
  <2>5. 0 \notin HeapNodes
    BY DEF HeapNodes
  <2>6. n \in T /\ n # pheap.root => pheap.parent[n] # 0
    <3>1. SUFFICES ASSUME n \in T, n # pheap.root PROVE pheap.parent[n] # 0
      OBVIOUS
    <3>2. PICK rank \in [HeapNodes -> Nat] :
            ParentsFirst(T, {pheap.root} \ {0}, 0, pheap.parent, pheap.key, rank)
      BY <2>2 DEF IdleSound, LinksSound
    <3>3. pheap.parent[n] \in T \cup ({0} \ {0})
      BY <3>1, <3>2 DEF ParentsFirst
    <3> QED  BY <2>4, <2>5, <3>3
  <2>7. n = pheap.root => n \in T
    BY <2>4, <2>5
  <2>8. pheap.parent[n] # 0 => n \in T \cup stale
    BY <2>4, <2>5
  <2>9. n \in stale => pheap.parent[n] # 0
    BY <2>4
  <2> QED  BY <2>3, <2>6, <2>7, <2>8, <2>9 DEF ContainsNode
<1> QED  BY <1>1, HeapInvHolds, PTL

(* The heap is a priority queue: a removal changes it in one step, when it *)
(* returns; the merges before that change nothing that a user sees.        *)
THEOREM HeapRefines == HeapSpec => ImplementsQueue
<1>1. HeapInit => Q!Init
  <2> SUFFICES ASSUME HeapInit PROVE Q!Init
    OBVIOUS
  <2>1. /\ HeapSound(pheap, removal, held, stale, {}, [i \in HeapNodes |-> i])
        /\ removal = NoRemoval /\ held = {}
        /\ pheap.key \in [HeapNodes -> Keys] /\ pheap.root = 0
    BY HeapStarts
  <2>2. /\ MembersOf(pheap, removal) = {} \cup ({removal.node} \ {0})
        /\ FreeList(pheap) = [i \in HeapNodes |-> i]
    BY <2>1, SeenAs
  <2>3. HeapMembers = {}
    BY <2>1, <2>2, NoWinners DEF HeapMembers, TreeRoots, MembersOf, RootsOf, ListOf
  <2>4. Q!Nodes = HeapNodes
    BY DEF Q!Nodes, HeapNodes
  <2> QED  BY <2>1, <2>2, <2>3, <2>4 DEF Q!Init
<1>2. HeapInv /\ [HeapNext]_heapVars => [Q!Next]_(Q!queueVars)
  <2> SUFFICES ASSUME HeapInv, [HeapNext]_heapVars PROVE [Q!Next]_(Q!queueVars)
    OBVIOUS
  <2>1. PICK T, s : HeapSound(pheap, removal, held, stale, T, s)
    BY DEF HeapInv
  <2> QED  BY <2>1, HeapSteps
<1> QED  BY <1>1, <1>2, HeapInvHolds, PTL DEF HeapSpec, ImplementsQueue, Q!Spec
=============================================================================
