---------------------------- MODULE BoundedFifo -----------------------------
(***************************************************************************)
(* What pico/util/queue.h promises: a first-in first-out queue of at most  *)
(* Capacity elements, safe to share between contexts.  Every call takes    *)
(* effect in one step, and its result is the one that step gives:          *)
(* queue_add succeeds unless the queue is full, queue_remove and           *)
(* queue_peek return the oldest element unless it is empty.                *)
(***************************************************************************)
EXTENDS Sequences, Naturals

CONSTANTS Values, Capacity, Fail, Ok

VARIABLES contents,   \* the queued elements, oldest first
          answer      \* the latest call to take effect: what, its result

NoAnswer == <<"none", "none">>

vars == <<contents, answer>>

Init == contents = <<>> /\ answer = NoAnswer

Add(v) ==
    /\ Len(contents) < Capacity
    /\ contents' = Append(contents, v)
    /\ answer' = <<"add", Ok>>

Remove ==
    /\ contents # <<>>
    /\ contents' = Tail(contents)
    /\ answer' = <<"remove", Head(contents)>>

Peek ==
    /\ contents # <<>>
    /\ answer' = <<"peek", Head(contents)>>
    /\ UNCHANGED contents

AddFails ==
    /\ Len(contents) = Capacity
    /\ answer' = <<"add", Fail>>
    /\ UNCHANGED contents

TakeFails ==
    /\ contents = <<>>
    /\ \E call \in {"remove", "peek"} : answer' = <<call, Fail>>
    /\ UNCHANGED contents

Next ==
    \/ \E v \in Values : Add(v)
    \/ Remove \/ Peek \/ AddFails \/ TakeFails

Spec == Init /\ [][Next]_vars
=============================================================================
