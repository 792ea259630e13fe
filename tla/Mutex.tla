------------------------------- MODULE Mutex --------------------------------
(***************************************************************************)
(* pico_sync/mutex.c: mutex_t, and recursive_mutex_t (recursive = TRUE;    *)
(* under PICO_MUTEX_ENABLE_SDK120_COMPATIBILITY the mutex_ functions       *)
(* dispatch on a field of that name).  The owner recorded is the calling   *)
(* core, so a handler and the thread it interrupted look the same.         *)
(*                                                                         *)
(* Callers keep to mutex.h: a context exits only what it entered, a        *)
(* handler does not block and leaves nothing entered when it returns, and  *)
(* no context blocks on a plain mutex it holds.                            *)
(***************************************************************************)
EXTENDS LockCore

CONSTANTS CountMod,    \* enter_count is a uint8_t: 2^8
          MaxDepth,    \* bound: how deep one context nests its entries
          NoOwner      \* LOCK_INVALID_OWNER_ID

ASSUME MutexAssumption ==
    /\ MaxDepth \in Nat \ {0} /\ CountMod \in Nat /\ 2 * MaxDepth < CountMod
    /\ NoOwner \notin Cores

VARIABLES
    recursive,    \* which of the two kinds the mutex was initialised as
    owner,        \* owner: a core or NoOwner
    enter_count,  \* enter_count, used by the recursive kind only
    holds         \* history: entries each context has not exited

mutexVars == <<recursive, owner, enter_count, holds>>

vars == <<lockVars, mutexVars>>

(* "enter_block_until_retry" is mutex_enter_block_until called from        *)
(* mutex_try_enter_block_until after its own try failed.                   *)
TimedOps == {"enter_block_until", "try_enter_block_until",
             "enter_block_until_retry"}
Ops == TimedOps \cup {"none", "enter_blocking", "try_enter", "exit"}

MutexInit ==
    /\ recursive \in BOOLEAN
    /\ owner = NoOwner
    /\ enter_count = 0
    /\ holds = [t \in Ctx |-> 0]

Init == LockInit /\ MutexInit

----------------------------------------------------------------------------
(* What a caller may start.                                                *)

CallEnterBlocking(t) ==
    /\ t \in Cores
    /\ holds[t] < MaxDepth /\ (recursive \/ holds[t] = 0)
    /\ Call(t, "enter_blocking", "none")
    /\ UNCHANGED mutexVars

CallTryEnter(t) ==
    /\ holds[t] < MaxDepth
    /\ Call(t, "try_enter", "none")
    /\ UNCHANGED mutexVars

CallTimed(t) ==
    /\ holds[t] < MaxDepth
    /\ \E o \in {"enter_block_until", "try_enter_block_until"},
          d \in {"future", "past"} : Call(t, o, d)
    /\ UNCHANGED mutexVars

CallExit(t) ==
    /\ holds[t] > 0
    /\ Call(t, "exit", "none")
    /\ UNCHANGED mutexVars

----------------------------------------------------------------------------
(* The code between spin_lock_blocking and the unlock, one action per      *)
(* function and outcome.                                                   *)

(* Mutant: both kinds let the owning core in again.                        *)
CanReenter(t) == owner = NoOwner \/ owner = CoreOf(t)

(* !lock_is_owner_id_valid(owner), or the recursive kind's owner == caller *)
CanEnter(t) == owner = NoOwner \/ (recursive /\ owner = CoreOf(t))

(* ++enter_count and --enter_count on a uint8_t.                           *)
Incremented == IF enter_count = CountMod - 1 THEN 0 ELSE enter_count + 1
Decremented == IF enter_count = 0 THEN CountMod - 1 ELSE enter_count - 1

TakeOwnership(t) ==
    /\ UNCHANGED recursive
    /\ owner' = CoreOf(t)
    /\ enter_count' = IF recursive THEN Incremented ELSE enter_count
    /\ holds' = [holds EXCEPT ![t] = @ + 1]

Enter(t) ==
    /\ UnderLock(t) /\ op[t] \in Ops \ {"none", "exit"}
    /\ CanEnter(t)
    /\ TakeOwnership(t)
    /\ SpinUnlock(t)

EnterBlockingWaits(t) ==
    /\ UnderLock(t) /\ op[t] = "enter_blocking"
    /\ ~CanEnter(t)
    /\ SpinUnlockAndWait(t)
    /\ UNCHANGED mutexVars

TryEnterFails(t) ==
    /\ UnderLock(t) /\ op[t] = "try_enter"
    /\ ~CanEnter(t)
    /\ SpinUnlock(t)
    /\ UNCHANGED mutexVars

EnterBlockUntilWaits(t) ==
    /\ UnderLock(t) /\ op[t] \in {"enter_block_until", "enter_block_until_retry"}
    /\ ~CanEnter(t)
    /\ SpinUnlockAndTimedWait(t)
    /\ UNCHANGED mutexVars

(* Mutant: no check for the caller itself being the owner.                 *)
TryThenWait(t) ==
    /\ UnderLock(t) /\ op[t] = "try_enter_block_until"
    /\ ~CanEnter(t)
    /\ DropSpin(t)
    /\ pc' = [pc EXCEPT ![t] = "call"]
    /\ op' = [op EXCEPT ![t] = "enter_block_until_retry"]
    /\ UNCHANGED <<until, mutexVars>>

(* The owner the failed try reported decides: itself, and it can never own *)
(* the mutex; another core, and it goes on to mutex_enter_block_until.     *)
TryEnterBlockUntilFails(t) ==
    /\ UnderLock(t) /\ op[t] = "try_enter_block_until"
    /\ ~CanEnter(t)
    /\ DropSpin(t)
    /\ \/ owner = CoreOf(t) /\ Return(t)
       \/ /\ owner # CoreOf(t)
          /\ pc' = [pc EXCEPT ![t] = "call"]
          /\ op' = [op EXCEPT ![t] = "enter_block_until_retry"]
          /\ UNCHANGED until
    /\ UNCHANGED mutexVars

(* Mutant: the count is tested before it is decremented.                   *)
TestThenDecrement == recursive => enter_count = 0

(* mutex_exit, and the outermost recursive_mutex_exit.                     *)
LastExit == recursive => Decremented = 0

CountDown ==
    /\ enter_count' = IF recursive THEN Decremented ELSE enter_count
    /\ UNCHANGED recursive

(* Mutant: the exit does not notify.                                       *)
ExitSilently(t) ==
    /\ UnderLock(t) /\ op[t] = "exit"
    /\ LastExit
    /\ owner' = NoOwner
    /\ CountDown
    /\ holds' = [holds EXCEPT ![t] = @ - 1]
    /\ SpinUnlock(t)

ExitFrees(t) ==
    /\ UnderLock(t) /\ op[t] = "exit"
    /\ LastExit
    /\ owner' = NoOwner
    /\ CountDown
    /\ holds' = [holds EXCEPT ![t] = @ - 1]
    /\ SpinUnlockAndNotify(t)

ExitNested(t) ==
    /\ UnderLock(t) /\ op[t] = "exit"
    /\ ~LastExit
    /\ CountDown
    /\ holds' = [holds EXCEPT ![t] = @ - 1]
    /\ SpinUnlock(t)
    /\ UNCHANGED owner

MutexBody(t) ==
    \/ Enter(t) \/ EnterBlockingWaits(t) \/ TryEnterFails(t)
    \/ EnterBlockUntilWaits(t) \/ TryEnterBlockUntilFails(t)
    \/ ExitFrees(t) \/ ExitNested(t)

HandlerReturns(i) ==
    /\ holds[i] = 0
    /\ IrqReturn(i)
    /\ UNCHANGED mutexVars

CallStep(t) ==
    CallEnterBlocking(t) \/ CallTryEnter(t) \/ CallTimed(t) \/ CallExit(t)

Waiting(t) == WaitStep(t) /\ UNCHANGED mutexVars

Hardware == Environment /\ UNCHANGED mutexVars

Next ==
    \/ \E t \in Ctx : CallStep(t) \/ MutexBody(t) \/ Waiting(t)
    \/ \E i \in Irqs : HandlerReturns(i)
    \/ Hardware

Spec == Init /\ [][Next]_vars

----------------------------------------------------------------------------
(* Invariants.                                                             *)

(* The variables keep their C types and the places of the protocol.        *)
TypeOK ==
    /\ LockTypeOK
    /\ recursive \in BOOLEAN
    /\ op \in [Ctx -> Ops]
    /\ owner \in Cores \cup {NoOwner}
    /\ enter_count \in 0..(CountMod - 1)
    /\ holds \in [Ctx -> 0..MaxDepth]

(* Two contexts inside the mutex at once are on one core and the mutex is  *)
(* recursive; a plain mutex is held by a single context, even though it    *)
(* records only the core (mutex.c 36-43, 71-78, 98-102).                   *)
MutualExclusion ==
    \A t, u \in Ctx : holds[t] > 0 /\ holds[u] > 0 =>
        CoreOf(t) = CoreOf(u) /\ (recursive \/ t = u)

(* The owner field is accurate: unowned exactly when nobody is inside, so  *)
(* a nested exit never frees a mutex still held, nor leaves it owned.      *)
OwnerAccurate ==
    /\ owner = NoOwner <=> \A t \in Ctx : holds[t] = 0
    /\ \A t \in Ctx : holds[t] > 0 => owner = CoreOf(t)

(* No missed notification (lock_core.h 95-97): a caller between its unlock *)
(* and its WFE while the mutex is free will find the event register set.   *)
NoLostWakeup ==
    \A c \in Cores : pc[c] = "wfe" /\ owner = NoOwner => WakeDue(c)

(* mutex_try_enter_block_until gave up early if its own core was the owner *)
(* (mutex.c 88): past that check it never finds its own core the owner,    *)
(* though the check used a value read under an earlier lock.               *)
NoSelfWait ==
    \A t \in Ctx : UnderLock(t) /\ op[t] = "enter_block_until_retry" =>
        owner # CoreOf(t)

----------------------------------------------------------------------------
(* What makes these inductive.                                             *)

EnterOps == TimedOps \cup {"enter_blocking", "try_enter"}

(* The callers' discipline, while a call is in progress.                   *)
CallsLegal ==
    \A t \in Ctx :
        /\ op[t] \in EnterOps => holds[t] < MaxDepth
        /\ op[t] = "exit" /\ pc[t] # "sev" => holds[t] > 0
        /\ op[t] = "enter_blocking" => t \in Cores
        /\ pc[t] = "idle" => op[t] = "none"
        /\ pc[t] = "wfe" => op[t] = "enter_blocking"

(* A handler that has returned is not inside.                              *)
HandlersLeave == \A i \in Irqs \ active : holds[i] = 0

(* A plain mutex is entered at most once by its holder.                    *)
PlainHeldOnce == ~recursive => \A t \in Ctx : holds[t] <= 1

(* enter_count counts the entries of both contexts of the owning core: its *)
(* thread, and the handler that has interrupted it.                        *)
CountAccurate ==
    recursive =>
        /\ owner = NoOwner => enter_count = 0
        /\ \A c \in Cores : owner = c =>
              /\ \A i \in active : CoreOf(i) = c => enter_count = holds[c] + holds[i]
              /\ (\A i \in active : CoreOf(i) # c) => enter_count = holds[c]

(* A context that is retrying was not inside when it was told another core *)
(* was the owner, and the thread a handler interrupted was not either.     *)
RetriesOutside ==
    \A t \in Ctx : op[t] = "enter_block_until_retry" =>
        holds[t] = 0 /\ holds[CoreOf(t)] = 0

IInv ==
    /\ TypeOK /\ LockInv /\ CallsLegal /\ HandlersLeave
    /\ MutualExclusion /\ OwnerAccurate /\ PlainHeldOnce
    /\ CountAccurate /\ RetriesOutside /\ NoLostWakeup
=============================================================================
