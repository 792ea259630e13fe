--------------------------- MODULE SemaphoreLive ----------------------------
(***************************************************************************)
(* Progress of the semaphore, with the bounded calls and the weak fairness *)
(* of MutexLive.  No caller is obliged to release anything.                *)
(***************************************************************************)
EXTENDS Semaphore

CONSTANT MaxCalls    \* bound: calls, and interrupts, of each context

VARIABLE left        \* what remains of that bound

liveVars == <<vars, left>>

Spend(t) == left[t] > 0 /\ left' = [left EXCEPT ![t] = @ - 1]

Proceeds(t) == (SemBody(t) \/ Waiting(t)) /\ UNCHANGED left

Starts(t) == CallStep(t) /\ Spend(t)

Returns(i) == HandlerReturns(i) /\ UNCHANGED left

Interrupts(i) == IrqEnter(i) /\ UNCHANGED <<permits, arg>> /\ Spend(i)

TimePasses(t) ==
    (DeadlinePasses(t) \/ AlarmFires(t)) /\ UNCHANGED <<permits, arg, left>>

LiveInit == Init /\ left = MaxCalls

LiveNext ==
    \/ \E t \in Ctx : Proceeds(t) \/ Starts(t) \/ TimePasses(t)
    \/ \E i \in Irqs : Returns(i) \/ Interrupts(i)

LiveSpec ==
    /\ LiveInit /\ [][LiveNext]_liveVars
    /\ \A t \in Ctx : WF_liveVars(Proceeds(t)) /\ WF_liveVars(TimePasses(t))
    /\ \A i \in Irqs : WF_liveVars(Returns(i))

(* A core blocked in sem_acquire_blocking gets in if permits remain: it is *)
(* not left asleep beside an available permit, whichever mix of releases   *)
(* and resets made it available (sem.c 21-31, 67-90).                      *)
AcquireGetsPermit ==
    \A c \in Cores :
        op[c] = "acquire_blocking" /\ permits > 0
            ~> (pc[c] = "idle" \/ permits = 0)

(* sem_acquire_block_until comes back with or without a permit.            *)
TimedAcquireReturns ==
    \A t \in Ctx : op[t] = "acquire_block_until" ~> pc[t] = "idle"
=============================================================================
