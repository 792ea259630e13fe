----------------------------- MODULE MutexLive ------------------------------
(***************************************************************************)
(* Progress of the mutex.  Each context makes a bounded number of calls    *)
(* and each handler is entered a bounded number of times, so that weak     *)
(* fairness is all that is assumed: a core that can run executes its next  *)
(* instruction, a handler exits what it entered and returns, time passes   *)
(* and a due alarm fires.  Nothing is assumed about who wins the spin      *)
(* lock, nor that a thread inside the mutex ever exits.                    *)
(***************************************************************************)
EXTENDS Mutex

CONSTANT MaxCalls    \* bound: calls, and interrupts, of each context

VARIABLE left        \* what remains of that bound

liveVars == <<vars, left>>

Spend(t) == left[t] > 0 /\ left' = [left EXCEPT ![t] = @ - 1]

(* The rest of a call in progress.                                         *)
Proceeds(t) == (MutexBody(t) \/ Waiting(t)) /\ UNCHANGED left

Exits(t) == CallExit(t) /\ UNCHANGED left

Starts(t) ==
    (CallEnterBlocking(t) \/ CallTryEnter(t) \/ CallTimed(t)) /\ Spend(t)

Returns(i) == HandlerReturns(i) /\ UNCHANGED left

Interrupts(i) == IrqEnter(i) /\ UNCHANGED mutexVars /\ Spend(i)

TimePasses(t) ==
    (DeadlinePasses(t) \/ AlarmFires(t)) /\ UNCHANGED <<mutexVars, left>>

LiveInit == Init /\ left = MaxCalls

LiveNext ==
    \/ \E t \in Ctx : Proceeds(t) \/ Starts(t) \/ Exits(t) \/ TimePasses(t)
    \/ \E i \in Irqs : Returns(i) \/ Interrupts(i)

LiveSpec ==
    /\ LiveInit /\ [][LiveNext]_liveVars
    /\ \A t \in Ctx : WF_liveVars(Proceeds(t)) /\ WF_liveVars(TimePasses(t))
    /\ \A i \in Irqs : WF_liveVars(Returns(i)) /\ WF_liveVars(Exits(i))

(* A timed call always comes back, whoever owns the mutex and whatever     *)
(* happens to the notifications: its own alarm, or polling, ends it        *)
(* (mutex.c 127-170, time.c best_effort_wfe_or_timeout).                   *)
TimedCallsReturn ==
    \A t \in Ctx : op[t] \in TimedOps ~> pc[t] = "idle"

(* A blocked mutex_enter_blocking is let in if the mutex is freed as often *)
(* as it is taken: no wake-up is lost between the cores (mutex.c 29-62,    *)
(* 172-195).                                                               *)
BlockedEnters ==
    \A c \in Cores : []<>(owner = NoOwner) =>
        (op[c] = "enter_blocking" ~> pc[c] = "idle")
=============================================================================
