---------------------------- MODULE AsyncContext -----------------------------
(***************************************************************************)
(* pico_async_context: async_context_base.c under                          *)
(* async_context_threadsafe_background.c, in its form for two cores.       *)
(*                                                                         *)
(* Four flows of control use a context.  The thread of its own core, home; *)
(* the low-priority interrupt handler of that core, which preempts the     *)
(* thread; the interrupts that preempt both, of devices and of the alarm   *)
(* pool; and the thread of the other core.                                 *)
(*                                                                         *)
(* lock_mutex is the promise of a recursive mutex (module Mutex): entering *)
(* and leaving are one step each.  The alarm pool is its promise: an alarm *)
(* in the pool fires once its time has come, unless it is cancelled, and   *)
(* ids are not used again while somebody keeps them.  A call of the API    *)
(* made inside the lock takes it once more and gives it back, which        *)
(* changes nothing, so whoever is inside may make any number of them.      *)
(* work_needed_sem, which only says that polling is worth while, is left   *)
(* out: it is a semaphore (module Semaphore).                              *)
(***************************************************************************)
EXTENDS Naturals, Links

CONSTANTS
    Workers,     \* when-pending workers of the user
    Sync,        \* the worker in the stack frame of execute_sync
    Timers,      \* at-time workers
    ForceIds,    \* ids of alarms that force the context
    MaxNow,      \* bound: the clock
    MaxTime,     \* bound: the times of at-time workers
    NoId,        \* 0, no alarm's id
    Null, Never  \* no pointer; no time: absent, or at_the_end_of_time

ASSUME AsyncAssumption ==
    /\ Sync \notin Workers /\ Null \notin Workers \cup {Sync}
    /\ MaxNow \in Nat /\ MaxTime \in Nat /\ MaxNow <= MaxTime
    /\ Never \notin Nat /\ NoId \notin ForceIds

VARIABLES
    thread,      \* where the home thread is
    low,         \* where the low-priority handler is
    other,       \* where the other core's thread is
    then,        \* where it goes when it has left the lock and woken the context
    owner,       \* lock_mutex.owner
    enter_count, \* lock_mutex.enter_count
    low_pending, \* the low-priority interrupt is pending
    head, next,  \* when_pending_list and the links of its workers
    work_pending,
    at_time,     \* at_time_list: next_time of each worker, or Never
    step, scan,  \* where process_under_lock is, and its when_pending_worker
    now,
    alarm,       \* the context's alarm in the pool, or Never
    pending_alarm, \* last_set_alarm_time while alarm_pending, or Never
    forced,      \* the forcing alarms in the pool
    force_alarm_id,
    new_id,      \* the id that the other core is about to keep
    sem,         \* permits of the semaphore in the frame of execute_sync
    ran,         \* history: how often the current execute_sync's func has run
    installed,   \* history: the workers added and not removed
    missed,      \* history: what the handler left undone when it gave up
    unseen,      \* history: timers the other core added and home has not seen
    corrupt      \* history: a link was read from a frame that is gone

far == <<other, then>>
core == <<thread, low, far>>
lock == <<owner, enter_count>>
list == <<head, next, work_pending, installed>>
work == <<step, scan>>
time == <<alarm, pending_alarm>>
force == <<forced, force_alarm_id, new_id>>
call == <<sem, ran>>
history == <<missed, unseen, corrupt>>
jobs == <<low_pending, list, at_time>>
alarms == <<now, time, force>>
vars == <<core, lock, jobs, work, alarms, call, history>>

All == Workers \cup {Sync}
Tasks == All \cup Timers
Times == 0 .. MaxTime

Init ==
    /\ thread = "idle" /\ low = "off" /\ other = "idle" /\ then = "idle"
    /\ owner = "none" /\ enter_count = 0
    /\ low_pending = FALSE
    /\ head = Null /\ next = [w \in All |-> Null]
    /\ work_pending = [w \in All |-> FALSE]
    /\ at_time = [t \in Timers |-> Never]
    /\ step = "off" /\ scan = Null
    /\ now = 0
    /\ alarm = Never /\ pending_alarm = Never
    /\ forced = {} /\ force_alarm_id = NoId /\ new_id = NoId
    /\ sem = 0 /\ ran = 0
    /\ installed = {} /\ missed = {} /\ unseen = {} /\ corrupt = FALSE

(* The workers that links lead through from x.                             *)
From(x) == Reach(All, next, x)

InList(w) == w \in From(head)

Last == CHOOSE w \in From(head) : next[w] = Null

(* Home's thread does not run while the handler does.                      *)
ThreadRuns == low = "off"

----------------------------------------------------------------------------
(* async_context_base: the lists, by whoever is inside.                    *)

(* Mutant: the new worker is put in front, and the rest is dropped.        *)
Prepended(w) ==
    head' = w /\ next' = [next EXCEPT ![w] = Null] /\ installed' = installed \cup {w}

(* At the link that is Null, the end of the list.                          *)
Appended(w) ==
    /\ installed' = installed \cup {w}
    /\ IF head = Null
       THEN head' = w /\ next' = [next EXCEPT ![w] = Null]
       ELSE /\ head' = head
            /\ next' = [next EXCEPT ![Last] = w, ![w] = Null]

(* The link that leads to w leads past it; w's own link stays.             *)
Unlinked(w) ==
    /\ installed' = installed \ {w}
    /\ IF head = w
       THEN head' = next[w] /\ UNCHANGED next
       ELSE /\ head' = head
            /\ next' = [x \in All |-> IF InList(x) /\ next[x] = w
                                      THEN next[w] ELSE next[x]]

AddWorker ==
    /\ \E w \in Workers : ~InList(w) /\ Appended(w)
    /\ UNCHANGED <<work_pending, at_time, unseen>>

RemoveWorker ==
    /\ \E w \in Workers : InList(w) /\ Unlinked(w)
    /\ UNCHANGED <<work_pending, at_time, unseen>>

(* by: the timers that the other core has added and home has not seen.     *)
AddTimer(by) ==
    /\ \E t \in Timers, n \in now .. MaxTime :
          /\ at_time[t] = Never
          /\ at_time' = [at_time EXCEPT ![t] = n]
          /\ unseen' = unseen \cup (by \cap {t})
    /\ UNCHANGED list

RemoveTimer ==
    /\ \E t \in Timers : /\ at_time[t] # Never
                         /\ at_time' = [at_time EXCEPT ![t] = Never]
                         /\ unseen' = unseen \ {t}
    /\ UNCHANGED list

Use(by) == AddWorker \/ RemoveWorker \/ AddTimer(by) \/ RemoveTimer

Ready(t) == at_time[t] # Never /\ at_time[t] <= now

(* remove_ready_at_time_worker takes a ready one that is not later than    *)
(* any other.                                                              *)
Earliest(t) == Ready(t) /\ \A u \in Timers : Ready(u) => at_time[t] <= at_time[u]

(* refresh_next_timeout                                                    *)
NextTime ==
    LET set == {at_time[t] : t \in Timers} \ {Never}
    IN  IF set = {} THEN Never ELSE CHOOSE n \in set : \A m \in set : n <= m

(* needs_servicing                                                         *)
NeedsServicing ==
    \/ \E t \in Timers : Ready(t)
    \/ \E w \in All : InList(w) /\ work_pending[w]

----------------------------------------------------------------------------
(* process_under_lock, by home's thread or its handler.                    *)

Starts == step' = "times" /\ scan' = Null /\ missed' = {}

(* It returns to whoever called it, whose next step is to leave.           *)
Returns ==
    /\ step' = "off" /\ scan' = Null
    /\ IF low = "process" THEN low' = "exit" /\ UNCHANGED thread
                          ELSE thread' = "exit" /\ UNCHANGED low
    /\ UNCHANGED far

(* What do_work may do: nothing, set a worker pending, or add a timer.     *)
DoWork(pending, times) ==
    \/ work_pending' = pending /\ at_time' = times /\ UNCHANGED low_pending
    \/ /\ \E w \in Workers : work_pending' = [pending EXCEPT ![w] = TRUE]
       /\ at_time' = times /\ low_pending' = TRUE
    \/ /\ \E t \in Timers, n \in now .. MaxTime :
             times[t] = Never /\ at_time' = [times EXCEPT ![t] = n]
       /\ work_pending' = pending /\ UNCHANGED low_pending

RunTimer ==
    /\ step = "times"
    /\ \E t \in Timers : /\ Earliest(t)
                         /\ DoWork(work_pending, [at_time EXCEPT ![t] = Never])
                         /\ unseen' = unseen \ {t}
    /\ UNCHANGED <<core, lock, head, next, installed, work, alarms, call,
                   missed, corrupt>>

NoTimerReady ==
    /\ step = "times" /\ ~\E t \in Timers : Ready(t)
    /\ step' = "scan" /\ scan' = head
    /\ UNCHANGED <<core, lock, jobs, alarms, call, history>>

PassWorker ==
    /\ step = "scan" /\ scan # Null /\ ~work_pending[scan]
    /\ scan' = next[scan]
    /\ UNCHANGED <<core, lock, jobs, step, alarms, call, history>>

RunWorker ==
    /\ step = "scan" /\ scan \in Workers /\ work_pending[scan]
    /\ DoWork([work_pending EXCEPT ![scan] = FALSE], at_time)
    /\ scan' = next[scan]
    /\ UNCHANGED <<core, lock, head, next, installed, step, alarms, call,
                   history>>

(* A worker that removes itself, whose link still leads on, or another.    *)
RunRemoves ==
    /\ step = "scan" /\ scan \in Workers /\ work_pending[scan]
    /\ \E w \in Workers : InList(w) /\ Unlinked(w)
    /\ work_pending' = [work_pending EXCEPT ![scan] = FALSE]
    /\ scan' = next'[scan]
    /\ UNCHANGED <<core, lock, low_pending, at_time, step, alarms, call,
                   history>>

(* handle_sync_func_call: the function, and the release of the caller.     *)
RunSync ==
    /\ step = "scan" /\ scan = Sync /\ work_pending[Sync]
    /\ work_pending' = [work_pending EXCEPT ![Sync] = FALSE]
    /\ sem' = 1 /\ ran' = ran + 1
    /\ step' = "sync"
    /\ UNCHANGED <<core, lock, low_pending, head, next, installed, at_time,
                   scan, alarms, history>>

(* Mutant: the worker is left to its caller to remove.                     *)
LeaveSync ==
    /\ step = "sync"
    /\ step' = "scan" /\ scan' = next[Sync]
    /\ UNCHANGED <<core, lock, jobs, alarms, call, history>>

(* The removal reads the worker's link, and the loop reads it once more;   *)
(* when the caller has returned they may find anything there.              *)
RemoveSync ==
    /\ step = "sync"
    /\ Unlinked(Sync)
    /\ step' = "scan" /\ scan' = next[Sync]
    /\ corrupt' \in {corrupt, then = "idle"}
    /\ UNCHANGED <<core, lock, low_pending, work_pending, at_time, alarms,
                   call, missed, unseen>>

(* The end of execute_once, and what process_under_lock makes of it.       *)
Refresh ==
    /\ step = "scan" /\ scan = Null
    /\ unseen' = {}
    /\ UNCHANGED <<lock, jobs, now, force, call, missed, corrupt>>

RefreshPast ==
    /\ Refresh /\ NextTime # Never /\ NextTime <= now
    /\ step' = "times" /\ UNCHANGED <<scan, core, time>>

(* The alarm is cancelled; alarm_pending is left as it was.                *)
RefreshNoTimer ==
    /\ Refresh /\ NextTime = Never
    /\ alarm' = Never
    /\ Returns
    /\ UNCHANGED pending_alarm

Future == NextTime # Never /\ NextTime > now

(* Mutant: an alarm that is set is kept, whatever its time.                *)
AnyAlarm == pending_alarm # Never

(* The alarm that is set comes first, and the context is processed then.   *)
EarlierAlarm == pending_alarm # Never /\ pending_alarm < NextTime

RefreshAlarmStays ==
    /\ Refresh /\ Future /\ EarlierAlarm
    /\ Returns /\ UNCHANGED time

RefreshSetsAlarm ==
    /\ Refresh /\ Future /\ ~EarlierAlarm
    /\ alarm' = Never
    /\ pending_alarm' = NextTime
    /\ step' = "add" /\ UNCHANGED <<scan, core>>

AddAlarm ==
    /\ step = "add" /\ NextTime > now
    /\ alarm' = NextTime
    /\ Returns
    /\ UNCHANGED <<lock, jobs, now, force, call, history, pending_alarm>>

(* The time has come already, or the pool is full.                         *)
AddAlarmFails ==
    /\ step = "add"
    /\ pending_alarm' = Never
    /\ step' = "times" /\ UNCHANGED scan
    /\ UNCHANGED <<core, lock, jobs, now, force, call, history, alarm>>

Process ==
    \/ RunTimer \/ NoTimerReady \/ PassWorker \/ RunWorker \/ RunRemoves
    \/ RunSync \/ RemoveSync
    \/ RefreshPast \/ RefreshNoTimer \/ RefreshAlarmStays \/ RefreshSetsAlarm
    \/ AddAlarm \/ AddAlarmFails

----------------------------------------------------------------------------
(* Who will still look at what.                                            *)

(* The other core's thread will force the context to run: it is on its way *)
(* through wake_up, or to it.                                              *)
OtherWakes == other \in {"exit_wake", "wake"}

SomebodyComes == forced # {} \/ thread = "inside" \/ step = "times" \/ OtherWakes

(* w's flag will be tested, though not by the low-priority handler's next  *)
(* run.                                                                    *)
WorkerSeen(w) ==
    \/ SomebodyComes
    \/ other = "inside"
    \/ step = "scan" /\ w \in From(scan)
    \/ step = "sync" /\ w \in From(next[Sync])

TimerSeen(t) ==
    \/ SomebodyComes
    \/ other = "inside" /\ Ready(t)
    \/ step # "off"
    \/ alarm # Never /\ alarm <= at_time[t]

Due == {w \in All : InList(w) /\ work_pending[w]}
Waiting == {t \in Timers : at_time[t] # Never}

----------------------------------------------------------------------------
(* The home thread.                                                        *)

HomeAcquires ==
    /\ ThreadRuns /\ thread = "idle" /\ owner = "none"
    /\ owner' = "home" /\ enter_count' = 1 /\ thread' = "inside"
    /\ UNCHANGED <<low, far, jobs, work, alarms, call, history>>

HomeUses ==
    /\ ThreadRuns /\ thread = "inside" /\ Use({})
    /\ UNCHANGED <<core, lock, low_pending, work, alarms, call, missed,
                   corrupt>>

HomeReleases ==
    /\ ThreadRuns /\ thread = "inside"
    /\ thread' = "process" /\ Starts
    /\ UNCHANGED <<low, far, lock, jobs, alarms, call, unseen, corrupt>>

HomeExits ==
    /\ ThreadRuns /\ thread = "exit"
    /\ thread' = "idle" /\ owner' = "none" /\ enter_count' = 0
    /\ UNCHANGED <<low, far, jobs, work, alarms, call, history>>

----------------------------------------------------------------------------
(* low_priority_irq_handler                                                *)

(* Mutant: a count that is not 1 does not stop it.                         *)
MayProcess == owner # "other"

(* The try succeeds, and the thread it preempted was not inside.           *)
GetsLockAlone == owner = "none"

LowProcesses ==
    /\ low_pending /\ low = "off" /\ GetsLockAlone
    /\ low_pending' = FALSE /\ low' = "process"
    /\ owner' = "home" /\ enter_count' = enter_count + 1
    /\ Starts
    /\ UNCHANGED <<thread, far, list, at_time, alarms, call, unseen, corrupt>>

(* The other core is inside, or the thread that was preempted.             *)
LowGivesUp ==
    /\ low_pending /\ low = "off" /\ ~GetsLockAlone
    /\ low_pending' = FALSE
    /\ missed' = missed \cup {w \in Due : ~WorkerSeen(w)}
                        \cup {t \in Waiting : ~TimerSeen(t)}
    /\ UNCHANGED <<core, lock, list, at_time, work, alarms, call, unseen,
                   corrupt>>

LowExits ==
    /\ low = "exit"
    /\ low' = "off" /\ enter_count' = enter_count - 1
    /\ owner' = IF enter_count = 1 THEN "none" ELSE owner
    /\ UNCHANGED <<thread, far, jobs, work, alarms, call, history>>

----------------------------------------------------------------------------
(* Interrupts of the home core that preempt the handler too.               *)

(* async_context_set_work_pending from a device's handler, or from the     *)
(* thread: the flag and the pending bit, with nothing of note between.     *)
HomeSetsPending ==
    /\ \E w \in Workers : work_pending' = [work_pending EXCEPT ![w] = TRUE]
    /\ low_pending' = TRUE
    /\ UNCHANGED <<core, lock, head, next, installed, at_time, work, alarms,
                   call, history>>

(* alarm_handler                                                           *)
Alarmed ==
    /\ force_alarm_id' = NoId /\ pending_alarm' = Never /\ low_pending' = TRUE
    /\ UNCHANGED <<core, lock, list, at_time, work, now, new_id, call,
                   history>>

AlarmFires ==
    /\ alarm # Never /\ alarm <= now
    /\ alarm' = Never /\ UNCHANGED forced
    /\ Alarmed

ForceFires ==
    /\ \E f \in forced : forced' = forced \ {f}
    /\ UNCHANGED alarm
    /\ Alarmed

----------------------------------------------------------------------------
(* The other core.                                                         *)

OtherAcquires ==
    /\ other = "idle" /\ owner = "none"
    /\ owner' = "other" /\ enter_count' = 1 /\ other' = "inside"
    /\ UNCHANGED <<thread, low, then, jobs, work, alarms, call, history>>

OtherUses ==
    /\ other = "inside" /\ then = "idle" /\ Use(Timers)
    /\ UNCHANGED <<core, lock, low_pending, work, alarms, call, missed,
                   corrupt>>

OtherReleases ==
    /\ other = "inside"
    /\ other' = IF NeedsServicing THEN "exit_wake" ELSE "exit"
    /\ UNCHANGED <<thread, low, then, lock, jobs, work, alarms, call, history>>

(* Mutant: the wake-up is forgotten.                                       *)
OtherExitsQuietly ==
    /\ other \in {"exit", "exit_wake"}
    /\ owner' = "none" /\ enter_count' = 0 /\ other' = then
    /\ UNCHANGED <<thread, low, then, jobs, work, alarms, call, history>>

OtherExits ==
    /\ other \in {"exit", "exit_wake"}
    /\ owner' = "none" /\ enter_count' = 0
    /\ other' = IF other = "exit_wake" THEN "wake" ELSE then
    /\ UNCHANGED <<thread, low, then, jobs, work, alarms, call, history>>

(* wake_up from the other core: cancel and add, and then keep the id,      *)
(* while the alarm's handler clears it.                                    *)
OtherForces ==
    /\ other = "wake"
    /\ \E f \in ForceIds \ (forced \cup {force_alarm_id}) :
          forced' = (forced \ {force_alarm_id}) \cup {f} /\ new_id' = f
    /\ other' = "store"
    /\ UNCHANGED <<thread, low, then, lock, jobs, work, now, time,
                   force_alarm_id, call, history>>

OtherStores ==
    /\ other = "store"
    /\ force_alarm_id' = new_id /\ new_id' = NoId
    /\ other' = then
    /\ UNCHANGED <<thread, low, then, lock, jobs, work, now, time, forced,
                   call, history>>

(* async_context_set_work_pending                                          *)
OtherSetsPending ==
    /\ other = "idle"
    /\ \E w \in Workers : work_pending' = [work_pending EXCEPT ![w] = TRUE]
    /\ other' = "wake"
    /\ UNCHANGED <<thread, low, then, lock, low_pending, head, next, installed,
                   at_time, work, alarms, call, history>>

----------------------------------------------------------------------------
(* async_context_execute_sync, from the other core.                        *)

(* hard_assert(!enter_count), whoever has entered.                         *)
SyncCalled ==
    /\ other = "idle"
    /\ IF enter_count = 0
       THEN other' = "sync_add" /\ then' = "sync_set" /\ ran' = 0
       ELSE other' = "panic" /\ UNCHANGED <<then, ran>>
    /\ UNCHANGED <<thread, low, lock, jobs, work, alarms, sem, history>>

(* The frame is not initialised but for do_work and what do_work needs.    *)
SyncAdds ==
    /\ other = "sync_add" /\ owner = "none"
    /\ owner' = "other" /\ enter_count' = 1 /\ other' = "inside"
    /\ Appended(Sync)
    /\ \E b \in BOOLEAN : work_pending' = [work_pending EXCEPT ![Sync] = b]
    /\ UNCHANGED <<thread, low, then, low_pending, at_time, work, alarms, call,
                   history>>

SyncSetsPending ==
    /\ other = "sync_set"
    /\ work_pending' = [work_pending EXCEPT ![Sync] = TRUE]
    /\ other' = "wake" /\ then' = "sync_wait"
    /\ UNCHANGED <<thread, low, lock, low_pending, head, next, installed,
                   at_time, work, alarms, call, history>>

SyncReturns ==
    /\ other = "sync_wait" /\ sem = 1
    /\ sem' = 0
    /\ other' = "idle" /\ then' = "idle"
    /\ UNCHANGED <<thread, low, lock, jobs, work, alarms, ran, history>>

Tick ==
    /\ now < MaxNow
    /\ now' = now + 1
    /\ UNCHANGED <<core, lock, jobs, work, time, force, call, history>>

Home == HomeAcquires \/ HomeUses \/ HomeReleases \/ HomeExits

Low == LowProcesses \/ LowGivesUp \/ LowExits

Other ==
    \/ OtherAcquires \/ OtherUses \/ OtherReleases \/ OtherExits
    \/ OtherSetsPending \/ OtherForces \/ OtherStores
    \/ SyncCalled \/ SyncAdds \/ SyncSetsPending \/ SyncReturns

(* Nothing is said of what follows a read of a frame that is gone, or a    *)
(* panic.                                                                  *)
Next ==
    /\ ~corrupt /\ other # "panic"
    /\ \/ Process \/ Home \/ Low \/ Other
       \/ HomeSetsPending \/ AlarmFires \/ ForceFires \/ Tick

Spec == Init /\ [][Next]_vars

----------------------------------------------------------------------------
(* The variables keep their types.                                         *)
TypeOK ==
    /\ thread \in {"idle", "inside", "process", "exit"}
    /\ low \in {"off", "process", "exit"}
    /\ other \in {"idle", "inside", "exit", "exit_wake", "wake", "store",
                  "sync_add", "sync_set", "sync_wait", "panic"}
    /\ then \in {"idle", "sync_set", "sync_wait"}
    /\ owner \in {"none", "home", "other"} /\ enter_count \in 0 .. 1
    /\ low_pending \in BOOLEAN
    /\ head \in All \cup {Null} /\ next \in [All -> All \cup {Null}]
    /\ work_pending \in [All -> BOOLEAN]
    /\ at_time \in [Timers -> Times \cup {Never}]
    /\ step \in {"off", "times", "scan", "sync", "add"} /\ scan \in All \cup {Null}
    /\ now \in Times /\ alarm \in Times \cup {Never}
    /\ pending_alarm \in Times \cup {Never}
    /\ forced \subseteq ForceIds /\ force_alarm_id \in ForceIds \cup {NoId}
    /\ new_id \in ForceIds \cup {NoId}
    /\ sem \in 0 .. 1 /\ ran \in Nat
    /\ installed \subseteq All /\ unseen \subseteq Timers
    /\ missed \subseteq Tasks /\ corrupt \in BOOLEAN

(* There is a single logical thread of execution (async_context.h 19-23):  *)
(* whoever touches the lists or calls workers has the lock, and is the     *)
(* only one, although the handler may preempt the home thread anywhere and *)
(* the recursive mutex would let it in (threadsafe_background.c 288-295).  *)
SingleLogicalThread ==
    /\ TypeOK
    /\ step # "off" \/ low = "exit" \/ thread \in {"inside", "exit"} =>
          owner = "home" /\ enter_count = 1
    /\ other \in {"inside", "exit", "exit_wake"} => owner = "other"
    /\ low # "off" => thread = "idle"
    /\ step # "off" <=> thread = "process" \/ low = "process"

(* Work that is pending will be looked at: the low-priority interrupt or a *)
(* forcing alarm is pending, or whoever is inside has yet to look, or the  *)
(* other core is on its way to force the context.  The exception is what   *)
(* the handler left behind when it found the lock taken by somebody who    *)
(* had looked already (threadsafe_background.c 44-71, 105-135, 286-295).   *)
PendingWorkIsSeen == \A w \in Due : low_pending \/ WorkerSeen(w) \/ w \in missed

(* The alarm was cancelled but alarm_pending was left.                     *)
StaleAlarm == pending_alarm # Never /\ alarm = Never /\ step # "add"

(* Every at-time worker has an alarm no later than its time, or somebody   *)
(* will still look at it.  The exceptions: what the handler left behind,   *)
(* timers from the other core that home has not seen, and a time later     *)
(* than the last alarm that was cancelled (threadsafe_background.c 244-279,*)
(* async_context_base.c 81-106).                                           *)
TimersAreSeen ==
    \A t \in Waiting : \/ low_pending \/ TimerSeen(t) \/ t \in missed \cup unseen
                       \/ StaleAlarm /\ pending_alarm < at_time[t]

(* The list holds the workers that were added and not removed, and comes   *)
(* to an end, though it is walked while workers remove themselves and each *)
(* other; the worker in execute_sync's frame outlives the call only        *)
(* between the release of the caller and its removal (async_context_base.c *)
(* 34-57, 98-103; threadsafe_background.c 97-102, 142-150).                *)
ListHoldsTheInstalled ==
    ~corrupt =>
      /\ From(head) = installed
      /\ head # Null => \E w \in installed : next[w] = Null
      /\ then = "idle" /\ Sync \in installed => step = "sync"

(* execute_sync returns when its function has run, once, although the flag *)
(* in its frame is not initialised: the worker may run before it is set    *)
(* pending, and is woken for nothing after (threadsafe_background.c        *)
(* 97-102, 142-150).                                                       *)
SyncRunsOnce ==
    /\ ran <= 1
    /\ (other = "sync_wait" /\ sem = 1) \/ step = "sync" => ran = 1

(* "if it is wrong, it is wrong in the sense that it is false when it      *)
(* should be true" (threadsafe_background.c 268-269).                      *)
AlarmPendingIsTrue == ~StaleAlarm
=============================================================================
