# Verification of the Raspberry Pi Pico SDK

This directory holds TLA+ models of the concurrent core of the Pico SDK (the
libraries under `src/src/common` and `src/src/rp2_common`), the TLC configurations
that check them, and TLAPS proofs about them. Source paths below are relative
to the directory of this repository that holds `common/` and `rp2_common/`.

To check a model: `tlc -config Mutex.cfg MCMutexLive.tla`; to check the proofs:
`tlapm MutexProofs.tla`. `PROJECT.json` maps every definition to its lines.

## 1. The system

The RP2040 has two Cortex-M0+ cores, one memory, 32 hardware spin locks, a
64-bit microsecond timer with four alarms, and one event flag per core (set by
SEV from any core, and by the return from an exception; consumed by WFE). There
is no operating system: the SDK's users are the thread of each core and the
interrupt handlers that preempt it. The SDK leaves all interrupts at one
priority, so handlers do not preempt each other unless the user asks for it.

| Component | State | Operations | What is hard |
|---|---|---|---|
| `lock_core`, `hardware_sync` | a spin lock, PRIMASK, the event flags | lock, unlock, unlock and wait, unlock and notify, timed wait | the gap between unlock and WFE; one event flag for everything a core waits for; handlers on the holder's core |
| mutexes | `owner` (a core), `enter_count` | enter, try, timed enter, exit | ownership is by core, callers are threads and handlers; nested exits |
| semaphores | `permits`, `max_permits` | acquire, timed and try, release, reset | coalesced wake-ups, saturation, reset while others wait |
| queues | `wptr`, `rptr`, the slots, `max_level` | add, remove, peek, blocking and not | wrap of indices, one event for producers and consumers |
| pairing heap | links, root, free list | new, insert, remove head, remove, clear | link surgery, two-pass merge in place |
| `hardware_timer` | comparator, `target_hi`, pending bits, callbacks | set target, cancel, force, set callback; time reads, busy waits | the comparator sees 32 of 64 bits; time runs between any two register accesses |
| alarm pools (`pico_time`) | heap, entries, free list, id tags, `alarm_in_progress` | add, forced add, cancel, the interrupt handler, repeating timers | the callback runs outside the lock; missed targets; ids of reused nodes |
| `hardware_irq` | vector table, chain slots that are code | exclusive and shared handlers, removal from inside a handler | the chain is edited while it runs |
| `hardware_claim` | bitmaps | claim, unclaim | the striped lock numbers |
| `pico_multicore` | the two FIFOs, lockout state | launch, push, pop, lockout | words left by a handshake that timed out |
| `pico_async_context` | lists of workers, a lock, an alarm, a low-priority interrupt | add and remove workers, run now, execute synchronously | workers on the caller's stack, cross-core forcing |
| `pico_stdio` and its drivers | driver list, a mutex, USB timer flags | output, input, enable | one-shot flag, list edited while walked |
| `pico_rand` | 128-bit state | get | unlocked reads and first use |
| `pico_i2c_slave` | transfer-in-progress flag | the interrupt handler | order of events that are pending together |
| everything else | registers | start-up and input/output | see section 7 |

How they interact: mutexes, semaphores and queues call `lock_core`, which calls
`hardware_sync`; a timed wait adds an alarm to the default alarm pool and sleeps
on the same event flag. An alarm pool keeps its entries in a pairing heap, sets
the hardware alarm for the root, and is called back by `hardware_timer` in the
alarm's interrupt. `pico_async_context`, `pico_stdio` and `pico_multicore`
build on mutexes, semaphores, alarm pools and user interrupts.

What makes each component correct: a lock excludes, is never waited for by the
code it was interrupted in, and wakes whoever waits; a semaphore's permits stay
in range and none lies beside a sleeping waiter; a queue is first-in first-out
and bounded; the heap is a priority queue that neither loses nor doubles a
node; an accepted alarm is called back, not early, and once; time never goes
back.

## 2. Modules

| Module | Models | Built from |
|---|---|---|
| `LockCore` | `lock_core.h`, the spin-lock part of `sync.h`, `best_effort_wfe_or_timeout` of `time.c` | |
| `Mutex` | `mutex.c`, both kinds | EXTENDS `LockCore` |
| `MutexLive` | fairness and progress of the mutex | EXTENDS `Mutex` |
| `Semaphore`, `SemaphoreLive` | `sem.c`; its fairness and progress | EXTENDS `LockCore` |
| `Queue` | `queue.c`, `queue.h` | EXTENDS `LockCore` |
| `BoundedFifo` | what a queue promises | refined by `Queue` |
| `PairingHeap` | `pheap.c`, `pheap.h` | EXTENDS `Links` |
| `PriorityQueue` | what the heap promises | refined by `PairingHeap` |
| `Timer` | the 64-bit counter, its two words | |
| `HardwareAlarm` | one alarm of `timer.c` | EXTENDS `Timer` |
| `TimerReads` | `time_us_64` and the busy waits | EXTENDS `Timer` |
| `AlarmPool` | `time.c`: alarm pools and repeating timers | the heap by its promise, the alarm by its outcomes |
| `Links` | where links lead, in a list of any kind | used by `PairingHeap`, `IrqChain` and `AsyncContext` |
| `IrqChain` | exclusive and shared handlers of `irq.c`, `irq_handler_chain.S` | EXTENDS `Links` |
| `AsyncContext` | `async_context_base.c` under `async_context_threadsafe_background.c` | EXTENDS `Links`; the mutex, the alarm pool and the semaphore by their promises |
| `Multicore` | `multicore.c`: the FIFOs and the lockout | the mutex by its promise |
| `LockCoreProofs`, `MutexProofs`, `SemaphoreProofs`, `QueueProofs` | proofs about the locks and what is built on them | EXTEND the modules they prove about |
| `HardwareTimerProofs`, `AlarmPoolProofs`, `MulticoreProofs` | proofs about time and its alarms, the heap that an alarm pool keeps them in, and lockouts | the same |
| `ListProofs` | proofs about ordered lists, and the two components that keep them: the background context and the chains of interrupt handlers | EXTENDS `AsyncContext` and `IrqChain` |
| `MC...` | the instances TLC checks | |

Correspondence, for each family:

* **LockCore.** A context is a core's thread or an interrupt handler. `pc` says
  where its call is: before `spin_lock_blocking`, spinning with interrupts
  masked, holding, in the gap before SEV or WFE, or in one of the four steps of
  the timed wait. The code between lock and unlock is one action, since the
  spin lock with interrupts masked excludes everybody else (proved: `SpinMutex`,
  `SpinnerRuns`). Interrupts may come wherever PRIMASK allows.
* **Mutex, Semaphore, Queue** add the fields of the C structure and one action
  for each way through the code under the lock. `holds`, `answer` are history.
  Callers keep to the headers: they exit what they entered, handlers do not
  block.
* **PairingHeap** has every link of `pheap_node_t`; the comparator is `<` on
  keys. Each API call is one step, since the heap has no lock of its own and its user
  holds one; a removal is a step for each merge, where the user's comparator
  is called. `removal` stands for the recursion of `ph_merge_two_pass`: its
  frames' winners on the way in, what came back on the way out. `stale` is history.
* **HardwareAlarm** splits each function at every register access that the
  timer can overtake, holds the timer lock as the code does, and lets the
  counter advance between any two of them. Under the lock at most `Slack` ticks
  pass: interrupts are masked there and the code is a few instructions.
  `want`, `forced`, `overwritten`, `early` are history.
* **TimerReads** reads one word per step; any amount of time may pass between.
* **AlarmPool** has one action per outcome of each section under `pool->lock`,
  and the gaps outside it: the handler's read of the time, the callback, the
  return of an id before it is stored, the forced interrupt. It sees the heap
  as a set with a root (what `PairingHeap` refines), and
  `hardware_alarm_set_target` by its outcomes: accepted, missed at once, missed
  in the race, which leaves the comparator on the passed target.
* **IrqChain.** A slot has its data (`link`, `priority`, `handler`) and its code:
  `first` for the two instructions that differ at the head, `inst3` for the
  third, a branch to a slot, a return, or the call that removes the tail. Each
  section under `PICO_SPINLOCK_ID_IRQ` is one step; between two of them an
  interrupt in progress executes the `inst3` of the slot it is in, whatever it
  has become. Each interrupt number has a core; a core's thread edits its chain
  when it is not running, its handlers when it is. `due` is history: the
  handlers an interrupt still has to call. What freed slots hold is abstracted
  to one value, so that using it fails `ChainsSound`.
* **AsyncContext** has four flows of control: the thread of the context's core
  (`thread`), the low-priority handler that preempts it (`low`), the interrupts
  that preempt both (one action each, since they only set flags), and the other
  core's thread (`other`). `lock_mutex` is entered and left in one step, as
  `Mutex` promises; an alarm fires once its time has come, as `AlarmPool`
  promises. `step` and `scan` are the place of `process_under_lock` and its
  pointer into the list; every call of a worker is a step, so that interrupts
  come between them, and `DoWork` is what a worker may do to the context. Links
  are kept as the C list has them: removal leaves the removed node's own link.
  `installed`, `missed`, `unseen`, `ran`, `corrupt` are history.
* **Multicore** has, for each core, its FIFO, its event register, the place of
  its thread in `multicore_lockout_*` and of its handler in
  `multicore_lockout_handler`. A test of the FIFO and the `__wfe` after it are
  two steps; a write and its `__sev` are one, which loses nothing, since the
  reader tests before it sleeps and the writer does nothing in between. A thread
  does not run while its core's handler does, or may. `holds`, `timeouts`, `stray` are
  history.

## 3. What the runs check

Passing runs:

| Run | Questions | Bounds |
|---|---|---|
| `Mutex` | one holder; `owner` agrees with who is inside, through nested entries of a thread and of a handler on top of it; nobody about to sleep on a free mutex without an event due; `mutex_try_enter_block_until` never waits for its own core; the inductive invariant; timed calls return; blocked calls get in | both kinds of mutex (`recursive` is chosen in `Init`), depth 2; two cores, one handler on the first; a bounded number of calls each (`MCMaxCalls`) |
| `Semaphore` | the inductive invariant, with permits in range at the end of `int16_t`; no lost wake-up; a waiter gets a permit that stays; timed acquires return | two cores, one handler; a bounded number of calls each; one permit of two |
| `Queue` | FIFO (refinement); the inductive invariant, with indices in the allocation and no slot read that was not written; no lost wake-up; `max_level` lags by at most one | the first core's thread makes every call, the second's the blocking ones, a handler adds; two elements, indices of three values |
| `PairingHeap` | priority queue (refinement); order; `ph_contains_node` | four nodes, two keys |
| `HardwareAlarm` | an accepted target is not passed in silence; a force is not lost; an early callback has a reason | a thread of each core and the callback; low word of 4, almost two wraps |
| `TimerReads` | `time_us_64` returns a time of the call; busy waits wait long enough | word of 4, three wraps |
| `AlarmPool` | nodes accounted for; entries will fire; cancelled alarms stay out; a repeating timer's id is the one its callback sees, once stored | the other core's thread and a callback; two nodes, three alarms, times to 2, two tags |
| `IrqChain` | code and links of a chain agree while it is edited and executed; no slot lost or shared; every handler installed when the interrupt came is called, but one after a handler that removed itself; order of priorities | two interrupts on two cores, three handlers, four slots, a priority on either side of 248 |
| `AsyncContext` | workers run one at a time; work that is pending, and timers, will be looked at; the list has the workers installed; `execute_sync` runs its function once | a worker and that of `execute_sync`, a timer, two ids of forcing alarms (symmetric), the clock to 1, times to 2 |
| `Multicore` | a core that a start has locked out stays so until the end; nobody is left locked out and no assertion fails; no sleep over a FIFO with a word in it; the blocking calls return | two cores that lock each other out, FIFOs of two words; two starts and one end may time out |

Runs that show a disagreement, each with one violated property:

| Run | What happens |
|---|---|
| `AlarmPoolMissed` | `alarm_pool_add_alarm_at`: a repeat after an immediate callback goes in behind an earlier root, is taken for missed again (the flag keeps the first pass's value) and stays in the heap |
| `AsyncContextAlarm` | when no timer is left the alarm is cancelled and `alarm_pending` stays true (`async_context_threadsafe_background.c` 258): a later timer is then taken for covered by an alarm that is not there |

Other disagreements that the models contain and no run of its own shows:

* `time.h` 351-353 expect hundreds of ids before one is reused; the tag of an id changes
  only when the handler frees a node, so after a cancel (`time.c` 302) the node's
  next alarm has the cancelled one's id.
* A repeating timer can fire before `alarm_pool_add_repeating_timer_us` has stored its id
  (`time.c` 351), and the assertion of `repeating_timer_callback` (336) then
  fails. `RepeatingIdMatchesOnceStored` therefore starts at the store.
* `multicore_fifo_pop_timeout_us` sleeps in `__wfe` and no alarm is set
  to wake it: against `multicore.h` 171 it can return long after its timeout.
  `BlockingReturns` is about the calls without one.
* `async_context.h` 31 says that when-pending workers with work run before
  at-time ones; `async_context_base_execute_once` runs at-time workers first.
* `execute_sync` panics (`async_context_threadsafe_background.c` 141) if anybody
  is inside the context when the other core calls it, though only the caller
  itself would be in error and it cannot rule out the others. `SyncCalled` goes
  to "panic" then, and nothing is said of what follows.

Every property of a passing run is broken by a mutant of the code (the
`Mutant:` operators): a property no slip of the code can violate is not kept.

**Why the bounds are enough.** Two cores and one handler are every kind of
relation two contexts can have: another core, the same core preempted, the same
core preempting. A third context adds no new pair. Depth two is the first
nesting. Two elements make a queue that is empty, partly full and full, with
`IndexMod` one more than the number of slots' last index, so that the increment
wraps where `uint16_t` does. Four nodes make a heap whose merges run the
two-pass algorithm on odd and even lists and with a second level below (a
recursion that keeps two winners at once takes five nodes: only the theorems
reach it). Targets
of `HardwareAlarm` are in the first and second wrap, among them one more than a
wrap ahead. Two tags suffice to see a node reused. Three handlers make a chain
with a head, a middle and an end; the fourth slot lets a freed slot differ from
the one taken next.

**Exceptions that the properties name**, because the code has them:
a target that is missed while another was pending takes its place in the
comparator (`overwritten`, `dropped`: in an alarm pool the entries that stay are
then without an interrupt until the next wrap or add); an interrupt under way when a target of
the same high word is set consumes it early, as does the low word's match in
the wrap before (`early`); a forced interrupt that finds a pending target of a
later wrap re-arms instead of calling back (`ForceIsNotLost` allows it only
while the comparator is armed); `ph_contains_node` stays true of nodes that
`ph_clear` freed (`stale`); an add is counted in `max_level` only by the next
one (`MaxLevelLagsByOne`); a repeating timer's first callback may come before
its id is stored; a handler that removes itself makes the chain skip the next one
(`due`), whose cause is expected to interrupt again.

In `AsyncContext`: the low-priority handler that finds the lock taken gives up,
and what it came for is left behind if the holder has already looked at it
(`missed`); timers the other core adds while nothing is ready are not seen by the
home core, which alone sets alarms, until it processes the context for another
reason (`unseen`); `alarm_pending` left true by a cancel hides later timers
(`StaleAlarm`); the frame of `execute_sync` is gone when its caller
returns before the worker has been removed (`corrupt`, after which nothing is
said). In `Multicore`: a start that has timed out leaves its word in the FIFO,
and the victim locks itself up with nobody who waits for it, both cores at worst;
an end that has timed out leaves `lockout_in_progress` set (`multicore.h` 297
allows a retry of it only). Both are in `stray`, which
`StartedIsLocked`, `LockoutsAccounted` and `BlockingReturns` name.

**What callers must do.** `IrqChain` relies on three rules. `irq.h` states the
first: in an interrupt, only the handler that is running is removed. A handler
is in a chain once, since removal takes the first slot that has it. The third is
not written anywhere: a handler that has removed itself from the end of its
chain must not add one of lower order priority before it returns, since the
search for its place follows the link that the removal overwrote with half an
instruction. The value there is `6 * (MAX - slot) + 1`; the module assumes a
table of at most 7 slots (the default is 4), where this is never the number of a
slot.

`Multicore` takes from `multicore.h` that the other core is a victim that has
called `multicore_lockout_victim_init`, that lockouts do not nest, and that whoever
started one ends it, again after a timeout; and, what it does not say, that
callers have their interrupts on: with them masked, two cores that lock each
other out would both wait. `AsyncContext`: a worker does not remove itself and
add itself again in one call, since the walk would then end early.

`CHECK_DEADLOCK FALSE` in every configuration but those of `IrqChain` and
`PairingHeap`: the system
may stop. Callers need
not call, bounded calls run out, time is bounded, and a core that waits for a
mutex nobody frees waits.

## 4. Fairness

`MutexLive` and `SemaphoreLive` assume weak fairness of: each context's next
instruction while it has a call in progress (a core that can run does run); the
return of a handler, and its exit of what it entered (a handler that keeps a
mutex would be a bug of the user's); deadlines passing and due alarms firing
(the timer and the alarm pool). Nothing is assumed of threads leaving a mutex,
of anybody starting a call, or of who wins a spin lock. Each context makes a
bounded number of calls and each handler is entered a bounded number of times:
with unbounded preemption, weak fairness would not give the thread below a
turn, and the spin lock gives no fairness against an endless stream of other
takers. `BlockedEnters` promises entry only if the mutex is free again and
again.

`Multicore` assumes weak fairness of each core's handler, of its thread inside a
call, and of the clock. A thread need not call `multicore_lockout_end`, nor
start anything, nor unmask its interrupts: `BlockingReturns` has the last as its
premise and has "locked out" among its outcomes.

## 5. Proofs

Each module of proofs has the same shape: an inductive invariant `IInv` that is a
conjunction of named parts, one lemma for each part with a case for each action
that can disturb it, `Inductive`, and the theorems that follow. `InvariantHolds`
is `Spec => []IInv` throughout (`IrqInv` and `IrqInvariantHolds` for the chains
of interrupt handlers, `HeapInv` and `HeapInvHolds` for the heap). `IInv` is also an invariant of the runs `Mutex`,
`Semaphore` and `Queue`; those of the other modules were checked by TLC on the
instances of their runs, or smaller ones, before they were proved.

| Theorem | Property of a run | For every |
|---|---|---|
| `MutexProofs!MutexExcludes`, `OwnerIsAccurate`, `WakeupNotLost`, `NeverWaitsForItself`, `TypeCorrect` | `MutualExclusion`, `OwnerAccurate`, `NoLostWakeup`, `NoSelfWait` | sets of cores and handlers, nesting bound that `enter_count` can hold, kind of mutex |
| `SemaphoreProofs!WakeupNotLost`, `TypeCorrect` | `NoLostWakeup`, part of `IInv` | contexts, limits within `int16_t` |
| `QueueProofs!QueueImplementsFifo`, `WakeupNotLost`, `MaxLevelBehindByOne` | `ImplementsFifo`, `NoLostWakeup`, `MaxLevelLagsByOne` | contexts, elements, capacity |
| `HardwareTimerProofs!TimeReadIsOfTheCall`, `WaitsAreLongEnough` | `TimeIsOfTheCall`, `WaitsLongEnough` | width of a word, time |
| `HardwareTimerProofs!AcceptedTargetIsCovered`, `ForceIsKept`, `CallbackIsNotEarly` | `TargetIsCovered`, `ForceIsNotLost`, `EarlyForAReason` | clients, targets, width of the comparator, `Slack` |
| `AlarmPoolProofs!NodesAreAccounted`, `EntriesFire` | `NodesAccounted`, `EntriesWillFireUnlessDropped` | clients, nodes, alarms, times, repeats |
| `AlarmPoolProofs!CancelledIsOut`, `StoredIdMatches` | `CancelledStaysOut`, `RepeatingIdMatchesOnceStored` | the same, where `RepeatsInCall` has nothing but 0 |
| `AlarmPoolProofs!HeapOrderedHolds`, `ContainsMembersHolds`, `HeapRefines` | `HeapOrdered`, `ContainsMembers`, `ImplementsQueue` | nodes, keys |
| `ListProofs!ContextIsSingleThread`, `ListIsWhole` | `SingleLogicalThread`, `ListHoldsTheInstalled` | workers, timers, times, ids of alarms |
| `ListProofs!PendingWorkIsNotForgotten`, `TimersAreNotForgotten`, `SyncFunctionRunsOnce` | `PendingWorkIsSeen`, `TimersAreSeen`, `SyncRunsOnce` | the same |
| `ListProofs!ChainsAreSound`, `SlotsAreAccounted`, `HandlersAreCalled`, `HandlersRunInOrder` | `ChainsSound`, `SlotsAccounted`, `AllCalled`, `InOrder` | interrupts, handlers, priorities, and tables of 1 to 7 slots |
| `MulticoreProofs!StartedStaysLocked`, `NobodyLeftLockedOut`, `SleeperIsWoken` | `StartedIsLocked`, `LockoutsAccounted`, `PopIsWoken` | depth of a FIFO, number of handshakes that time out |

The assumptions are those on the constants: `CtxAssumption` (cores and handlers
are different things, each handler has a core), `MutexAssumption` (twice the
nesting bound fits in `enter_count`: a thread and a handler on top of it), and
`TimerAssumption`, `AsyncAssumption` and their like, which say that
names are distinct and numbers natural. TLC evaluates each in a run.

Why the invariants are what they are.

* **Mutex.** That two contexts are not both inside needs `OwnerAccurate`, which
  for the recursive kind needs `CountAccurate` (`enter_count` is the sum of the
  thread's and the active handler's entries), which needs to know that a handler
  that has returned holds nothing (`HandlersLeave`) and that at most one is
  active on a core (`NoNesting`). All need the protocol of the spin lock: the
  holder is the one context at "held", has its interrupts masked and runs
  (`SpinMutex`, `SpinnerRuns`), since an action under the lock must find nobody
  else's handler between its read and its write. `NoSelfWait` needs
  `RetriesOutside`: between the failed try of `mutex_try_enter_block_until` and
  its wait, the fact that the core was not inside stays true.
* **Semaphore.** `NoLostWakeup` speaks of waiters in `sem_acquire_blocking`; the
  invariant adds `WaitersAcquire`: whoever is in the gap before WFE got there by a
  failed acquire, so its permit was missing when it dropped the lock.
* **Queue.** `CallsSound` ties each place of the protocol to its call and its
  element, `ContentsWritten` says that the slots between `rptr` and `wptr` have
  been written. The refinement maps the slots between the indices to the
  sequence of `BoundedFifo`; `StepRefines` needs lemmas on the arithmetic of
  indices that wrap (what an increment does to the level and to each
  position of the contents).
* **TimerReads.** `LoopsSound` bounds the words a loop holds by the time of the
  call (`HighOfTheCall`): the loop ends only when the high word is the same on both
  sides of the low one. The rest is lemmas on division and remainder.
* **HardwareAlarm.** `TargetIsCovered` is inductive only with `WantIsCovered`,
  which does without the processor's pending bit, since enabling the interrupt
  clears that bit, and with `Written`: in `hardware_alarm_set_target` with no
  target pending before, nothing is wanted. `EarlierByHi`, `NotReached` and
  `LowWordsDiffer` are the arithmetic of a comparator that sees the low word
  of a longer time. `CallbackIsNotEarly` needs `ComesInTime`: whatever is on its
  way to the handler comes no earlier than the target. Nothing is assumed of `Slack`.
* **AlarmPool.** `OnePlace`: each node has one place among the free list, the
  heap and the callback in progress, and is on the free list once; `RootFirst`: the heap's root is its earliest. `AddDoes`,
  `CancelDoes` and `RepeatDoes` say once what the sections under the lock do,
  for the cases of the other lemmas. `FireKept` is the part about the comparator.
  `Identity` is a second invariant, beside `IInv`: no two nodes in use have the
  same alarm, a call's alarm is not in the pool before it enters, and the id of
  an alarm in use is its node's, in `ids` or in the call that has yet to return
  it. Without the condition on `RepeatsInCall` it is false, by what
  `AlarmPoolMissed` shows: the entry of the second pass is in the heap while its
  call takes it for missed.
* **PairingHeap.** `HeapInv` says that for some forest of nodes and some sequence
  of the others the links are those of the forest and of the free list. A `Forest`
  has ranks that grow along child and sibling links, and each node but its roots
  is what one link of one other leads to: so no link closes a cycle, and no node is
  in two lists. `ParentsFirst` is the order, and `Placement` gives every node one
  place: the forest, the free list, the caller, or the removal. `RemovalSound` is
  what a removal has in hand: the trees of the frames and the one they are merged
  into are different ones, and none but the list still to be merged has
  siblings. Each operation has a lemma that finds the forest, the ranks and the list
  after it (`InsertKeeps`, `PairKeeps`, `ReturnKeeps`, `FinishKeeps` and so on), from lemmas
  about forests: a merge makes one root the first child of another
  (`JoinTrees`), a cut makes children roots (`MoreRoots`, `RootGoes`), a splice
  takes a node out of its list (`NodeGoes`).
  `RootIsLeast` and `ForestReached` take the least rank among those that would be
  exceptions: the root is a least member, and the links lead to all of the
  forest. `FreeListFound` shows, by well-founded induction on the length of what is left, that
  following sibling links from the head gives the sequence of the invariant.
  In `HeapRefines` the merges of a removal are stutters and its last step is the
  queue's `Remove` or `Take`.
* **Lists.** `Reach` (module `Links`) says where links lead without recursion: to
  what is in every set that has the start and that no link leaves. `Ordered`
  says of a set of nodes that ranks grow along their links, from the head to an
  end. `OrderedReach` concludes, by the least rank of a node missed, that the
  links lead from the head through all of it, and `OrderedReachOn` that they lead
  from a node through those of its rank and above. `OrderedPush`, `OrderedInsert`
  and `OrderedRemove` are what the code does to a list.
* **IrqChain.** That a slot is lost or in two chains is a fact about links, so the
  invariant says where each slot is: `IrqInv` has, for some `where` and `rank`, each
  slot in one list (the chain of an interrupt, or the free list), and each list
  `Ordered`. The step that edits a chain has to show new ones: a slot freed goes
  before the first free one, a slot inserted gets a place between two ranks, for
  which all are doubled (`SlotFreed`, `SlotPushed`, `SlotInserted`). `CodeSound` is
  `ChainsSound` slot by slot, and adds that an overwritten link is that of
  a slot being executed. `HandlersSound` (a handler is in a chain once, and one
  that runs is called from its own slot) makes the slot that removal finds the one
  that is being executed. `RunsSound` has what an interrupt still has to call at
  higher ranks than its place: it stays true when the next slot is copied over
  that place, which is the case the code's comment argues about (`irq.c` 322-325).
  `PrioritiesSorted` leaves out a slot that is leaving, whose priority has been
  overwritten.
* **AsyncContext.** `FreeIsNotEntered` (a lock nobody owns has `enter_count` 0)
  is what lets `execute_sync`'s and the handler's tests of the count stand for
  tests of the owner; with `SingleLogicalThread` it keeps everybody from the
  list while it is walked. `ListSound` gives each installed worker a rank that
  grows along the links, so that everyone but the head has a worker before it.
  `AppendKeepsList` and `UnlinkKeepsList` keep the ranks; `UnlinkLeadsOn` is why a
  walk loses nobody when a worker removes itself or another: whoever was ahead
  still is. `PendingWorkIsSeen` then needs `ScanSound` (the walk is at a worker
  that is in the list) and `SyncSound` (the worker of `execute_sync` removes
  itself once, and is in the list until then); `TimersAreSeen` needs
  `AlarmSound` (the alarm in the pool is the one that was kept) and
  `NextTimeIsEarliest`.
* **Multicore.** A lockout is sound because of what its words mean, and words of
  handshakes that timed out stay in the FIFOs. `Requester` names the core whose
  requests those are: only one core's can be under way, since the other one
  obeys, and is locked out, until they have all been taken. `Asks` says where they are while it has no
  lockout (in the FIFO to the victim, where "start" comes last; or the victim
  has obeyed the first of them, and its echo is coming back, or has locked up the
  requester itself), `Keeps` the same while it has one. `TurnChanges` is the
  step where the other core becomes the requester: it runs and its interrupts
  are enabled, so it has emptied its FIFO, and nothing is left in either.
  `Undisturbed` are the times at which no handshake that timed out can be in the
  way, and there the victim is where `StartedIsLocked` and `LockoutsAccounted`
  want it. That `hard_assert` of a start fails only after a timeout is part of
  the invariant (`PanicsOfStray`). `AskerPops` shows more than the theorems: the
  pop only ever takes the echo of the word just sent, so that the loop of
  `multicore_lockout_handshake` (`multicore.c` 211) never runs twice.

`LockCoreProofs` has one lemma for each kind of step of the protocol
(`CallKeeps`, `BodyKeeps`, `WaitStepKeeps`, `HardwareKeeps`) about
`LockTypeOK /\ LockInv`, which the proofs of the mutex, the semaphore and the
queue cite.

**Model-checked only.**

* Liveness, which the prover does not do: `TimedCallsReturn`, `BlockedEnters`,
  `AcquireGetsPermit`, `TimedAcquireReturns` and `BlockingReturns`. Every other
  property of a passing run is proved.

## 6. Plan

The SDK's most used and least testable behaviour came first: locks, then what
is built on them, then time and the interrupt chains, then the cores' FIFOs and
the background context. Left, in order:

1. `HwClaim`: claims, the striped spin lock numbers (`sync.c` 31), critical
   sections, user interrupts.
2. `alarm_pool_destroy` and `sleep_until` in `AlarmPool`.
3. `StdioUsb` (the one-shot timer's flag, `stdio_usb.c` 77), `Rand` (first use
   without its lock, `rand.c` 256), `I2cSlave` (the order of events that are
   pending together), as far as they are state machines.
4. Proofs: that a timed wait of `LockCore` meets its deadline as the timer sees
   it, with `HardwareAlarm` under it.

## 7. What is not modelled

* Memory order: the RP2040's cores are in-order with one memory; the `__dmb()`
  calls order the compiler and the bus, and the models are sequentially
  consistent.
* Launching core 1 (`multicore.c` 132-163): the other side of the handshake is in
  the boot ROM, which is not in the repository.
* In `AsyncContext`: the form that polls and the one for FreeRTOS, `deinit`,
  `wait_for_work_until`, a forcing alarm when the pool is full, an
  interrupt of the other core that sets work pending, and the loop of
  `process_under_lock` (249-278) beside a pool that stays full.
* User-set interrupt priorities: handlers do not nest. `irq.c`'s enable and
  pending registers, and its user interrupts.
* `critical_section` (a spin lock by another name), `queue_free`, memory
  allocation and assertions that only name types.
* Drivers that program registers and poll status bits (I2C, SPI, UART, DMA,
  PIO, ADC, PWM, clocks, RTC, watchdog, GPIO, flash), start-up code, numeric
  libraries, `printf`: no protocol between actors, or none that is not in
  hardware.
* Adapters of external stacks (lwIP, BTstack, cyw43, mbedTLS, TinyUSB,
  FreeRTOS): the other side is not in the repository.
* The host build: one core, no interrupts.
