---------------------------- MODULE PriorityQueue ---------------------------
(***************************************************************************)
(* What the heap of pico_util/pheap promises its users, AlarmPool among    *)
(* them: nodes with keys, one of the least at the top, and a free list     *)
(* that hands nodes out in the order they came back.                       *)
(***************************************************************************)
EXTENDS Integers, Sequences

CONSTANTS
    MaxNodes,    \* max_nodes
    Keys         \* what the comparator orders nodes by

VARIABLES
    members,     \* nodes in the queue
    key,         \* their keys
    top,         \* the head of the queue, 0 if it is empty
    free,        \* nodes to hand out, first first
    held         \* nodes removed from the queue and not yet freed

queueVars == <<members, key, top, free, held>>

Nodes == 1 .. MaxNodes

Least(S) == {n \in S : \A m \in S : key[n] <= key[m]}

(* Some least member comes to the top.                                     *)
TopOf(S) == IF S = {} THEN {0} ELSE Least(S)

Init ==
    /\ members = {} /\ top = 0 /\ held = {}
    /\ key \in [Nodes -> Keys]
    /\ free = [n \in Nodes |-> n]

(* A new member is at the top if no other is less.                         *)
Enter(n, k) ==
    /\ key' = [key EXCEPT ![n] = k]
    /\ members' = members \cup {n}
    /\ top' = IF members = {} THEN n ELSE IF k <= key[top] THEN n ELSE top

Insert(k) ==
    /\ free # <<>>
    /\ UNCHANGED held
    /\ free' = Tail(free)
    /\ Enter(Head(free), k)

Reinsert(n, k) ==
    /\ n \in held
    /\ held' = held \ {n}
    /\ UNCHANGED free
    /\ Enter(n, k)

Leave(n) ==
    /\ UNCHANGED key
    /\ n \in members
    /\ members' = members \ {n}
    /\ top' \in TopOf(members')

Remove(n) == UNCHANGED held /\ free' = Append(free, n) /\ Leave(n)

Take == held' = held \cup {top} /\ UNCHANGED free /\ Leave(top)

Release(n) ==
    /\ n \in held
    /\ held' = held \ {n}
    /\ free' = Append(free, n)
    /\ UNCHANGED <<members, key, top>>

(* Everything is free again.                                               *)
Clear ==
    /\ held' = {} /\ top' = 0 /\ members' = {}
    /\ free' = [n \in Nodes |-> n]
    /\ UNCHANGED key

Next ==
    \/ \E k \in Keys : Insert(k) \/ \E n \in Nodes : Reinsert(n, k)
    \/ \E n \in Nodes : Remove(n) \/ Release(n)
    \/ Take \/ Clear

Spec == Init /\ [][Next]_queueVars
=============================================================================
