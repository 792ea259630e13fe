------------------------------ MODULE Multicore -----------------------------
(***************************************************************************)
(* pico_multicore/multicore.c: the FIFOs between the two cores, and the    *)
(* lockout that is built on them.  A core that wants the other one, its    *)
(* victim, to stand still sends it a word, takes the echo, and later does  *)
(* the same to let it go; the victim waits inside its interrupt handler.   *)
(*                                                                         *)
(* lockout_mutex is what module Mutex promises.  Callers keep to           *)
(* multicore.h: they lock out a core that has called                       *)
(* multicore_lockout_victim_init, with interrupts on, do not nest, and end *)
(* what they started, again if that timed out.  A timeout that passes is   *)
(* one that runs out at a point where the code looks at the clock.         *)
(***************************************************************************)
EXTENDS Naturals, Sequences

CONSTANTS Cores,      \* the two of them
          Depth,      \* how many words a FIFO holds
          MaxTimeouts \* bound: handshakes that time out

None == "none"

ASSUME MulticoreAssumption ==
    /\ \E a, b \in Cores : a # b /\ Cores = {a, b} /\ None \notin Cores
    /\ Depth \in Nat \ {0} /\ MaxTimeouts \in [{"start", "end"} -> Nat]

VARIABLES
    fifo,        \* the words on their way to each core
    event,       \* the event register of each core
    enabled,     \* whether SIO_IRQ_PROCn is enabled
    masked,      \* whether the thread has its core's interrupts masked
    place,       \* where each thread is in multicore_lockout_*
    magic,       \* which handshake it makes
    timed, late, \* whether its call has a timeout, and whether that has passed
    was_enabled, \* enabled of multicore_lockout_handshake
    rc,          \* rc of multicore_lockout_handshake
    handler,     \* where multicore_lockout_handler is
    owner,       \* lockout_mutex
    lockout_in_progress,
    victim,      \* history: who has called multicore_lockout_victim_init
    holds,       \* history: whose start returned true and whose end has not
    timeouts,    \* history: how many handshakes of each kind have timed out
    stray        \* history: whose last handshake timed out

hardware == <<fifo, event>>
irq == <<enabled, masked, victim>>
local == <<magic, timed, was_enabled, rc>>
lockout == <<owner, lockout_in_progress, holds, timeouts, stray>>
vars == <<hardware, irq, place, local, late, handler, lockout>>

Other(c) == CHOOSE d \in Cores : d # c

Words == {"start", "end"}

Init ==
    /\ fifo = [c \in Cores |-> <<>>] /\ event = [c \in Cores |-> FALSE]
    /\ enabled = [c \in Cores |-> FALSE] /\ masked = [c \in Cores |-> FALSE]
    /\ place = [c \in Cores |-> "idle"] /\ magic = [c \in Cores |-> None]
    /\ timed = [c \in Cores |-> FALSE] /\ late = [c \in Cores |-> FALSE]
    /\ was_enabled = [c \in Cores |-> FALSE] /\ rc = [c \in Cores |-> FALSE]
    /\ handler = [c \in Cores |-> "off"]
    /\ owner = None /\ lockout_in_progress = FALSE
    /\ victim = {} /\ holds = {} /\ timeouts = [w \in Words |-> 0]
    /\ stray = {}

----------------------------------------------------------------------------
(* The FIFOs (their full and ready flags) and the event registers.         *)

Valid(c) == fifo[c] # <<>>
HasRoom(c) == Len(fifo[Other(c)]) < Depth

(* Mutant: no __sev after the write.                                       *)
SendsQuietly(c, word) ==
    /\ HasRoom(c)
    /\ fifo' = [fifo EXCEPT ![Other(c)] = Append(@, word)]
    /\ UNCHANGED event

(* fifo_wr and __sev, which the other core's event register remembers.     *)
Sends(c, word) ==
    /\ HasRoom(c)
    /\ fifo' = [fifo EXCEPT ![Other(c)] = Append(@, word)]
    /\ event' = [event EXCEPT ![Other(c)] = TRUE]

Takes(c, word) ==
    /\ Valid(c) /\ Head(fifo[c]) = word
    /\ fifo' = [fifo EXCEPT ![c] = Tail(@)]
    /\ UNCHANGED event

(* __wfe                                                                   *)
Wakes(c) ==
    /\ event[c]
    /\ event' = [event EXCEPT ![c] = FALSE]
    /\ UNCHANGED fifo

----------------------------------------------------------------------------
(* The victim's side: multicore_lockout_handler.                           *)

Raised(c) == Valid(c) /\ enabled[c] /\ ~masked[c]

HandlerGoes(c, from, to) ==
    /\ handler[c] = from
    /\ handler' = [handler EXCEPT ![c] = to]
    /\ UNCHANGED <<irq, place, local, late, lockout>>

HandlerEnters(c) ==
    /\ Raised(c)
    /\ HandlerGoes(c, "off", "read")
    /\ UNCHANGED hardware

HandlerReads(c) ==
    \E w \in Words : /\ Takes(c, w)
                     /\ HandlerGoes(c, "read", IF w = "start" THEN "echo" ELSE "read")

(* An exception return sets the event register.                            *)
HandlerReturns(c) ==
    /\ ~Valid(c)
    /\ HandlerGoes(c, "read", "off")
    /\ event' = [event EXCEPT ![c] = TRUE] /\ UNCHANGED fifo

HandlerEchoesStart(c) == HandlerGoes(c, "echo", "loop") /\ Sends(c, "start")

(* Mutant: any word lets the victim go.                                    *)
HandlerPopsAny(c) ==
    \E w \in Words : Takes(c, w) /\ HandlerGoes(c, "loop", "echo_end")

HandlerPops(c) ==
    \E w \in Words : /\ Takes(c, w)
                     /\ HandlerGoes(c, "loop", IF w = "end" THEN "echo_end" ELSE "loop")

HandlerSleeps(c) ==
    /\ ~Valid(c)
    /\ HandlerGoes(c, "loop", "wfe")
    /\ UNCHANGED hardware

HandlerWakes(c) == HandlerGoes(c, "wfe", "loop") /\ Wakes(c)

HandlerEchoesEnd(c) == HandlerGoes(c, "echo_end", "read") /\ Sends(c, "end")

Handler(c) ==
    \/ HandlerEnters(c) \/ HandlerReads(c) \/ HandlerReturns(c)
    \/ HandlerEchoesStart(c) \/ HandlerPops(c) \/ HandlerSleeps(c)
    \/ HandlerWakes(c) \/ HandlerEchoesEnd(c)

LockedOut(c) == handler[c] \in {"loop", "wfe"}

----------------------------------------------------------------------------
(* The thread.                                                             *)

ThreadGoes(c, from, to) ==
    /\ handler[c] = "off" /\ ~Raised(c)
    /\ place[c] = from
    /\ place' = [place EXCEPT ![c] = to]
    /\ UNCHANGED handler

(* multicore_lockout_victim_init                                           *)
VictimInit(c) ==
    /\ c \notin victim
    /\ ThreadGoes(c, "idle", "idle")
    /\ victim' = victim \cup {c} /\ enabled' = [enabled EXCEPT ![c] = TRUE]
    /\ UNCHANGED <<hardware, masked, local, late, lockout>>

(* The thread masks its interrupts for a while.                            *)
Masks(c) ==
    /\ c \in victim /\ ~masked[c]
    /\ ThreadGoes(c, "idle", "idle")
    /\ masked' = [masked EXCEPT ![c] = TRUE]
    /\ UNCHANGED <<hardware, enabled, victim, local, late, lockout>>

Unmasks(c) ==
    /\ masked[c]
    /\ ThreadGoes(c, "idle", "idle")
    /\ masked' = [masked EXCEPT ![c] = FALSE]
    /\ UNCHANGED <<hardware, enabled, victim, local, late, lockout>>

CallStart(c) ==
    /\ Other(c) \in victim /\ c \notin holds /\ ~masked[c]
    /\ ThreadGoes(c, "idle", "mutex")
    /\ magic' = [magic EXCEPT ![c] = "start"]
    /\ \E b \in BOOLEAN : timed' = [timed EXCEPT ![c] = b]
    /\ UNCHANGED <<hardware, irq, was_enabled, rc, late, lockout>>

CallEnd(c) ==
    /\ c \in holds /\ ~masked[c]
    /\ ThreadGoes(c, "idle", "mutex")
    /\ magic' = [magic EXCEPT ![c] = "end"]
    /\ \E b \in BOOLEAN : timed' = [timed EXCEPT ![c] = b]
    /\ UNCHANGED <<hardware, irq, was_enabled, rc, late, lockout>>

(* Mutant: the handshake leaves its own core's handler enabled.            *)
EntersUndisturbed(c) ==
    /\ owner = None
    /\ ThreadGoes(c, "mutex", IF lockout_in_progress = (magic[c] = "start")
                              THEN "panic" ELSE "check")
    /\ owner' = c
    /\ was_enabled' = [was_enabled EXCEPT ![c] = enabled[c]]
    /\ UNCHANGED <<hardware, irq, magic, timed, rc, late,
                   lockout_in_progress, holds, timeouts, stray>>

(* mutex_enter_block_until; hard_assert(!lockout_in_progress) of a start,  *)
(* assert(lockout_in_progress) of an end; the handshake's own core is not  *)
(* to take the echo for a request.                                         *)
EntersMutex(c) ==
    /\ owner = None
    /\ ThreadGoes(c, "mutex", IF lockout_in_progress = (magic[c] = "start")
                              THEN "panic" ELSE "check")
    /\ owner' = c
    /\ was_enabled' = [was_enabled EXCEPT ![c] = enabled[c]]
    /\ enabled' = [enabled EXCEPT ![c] = FALSE]
    /\ UNCHANGED <<hardware, masked, victim, magic, timed, rc, late,
                   lockout_in_progress, holds, timeouts, stray>>

(* The call returns, and its locals are gone.                              *)
Returns(c) ==
    /\ magic' = [magic EXCEPT ![c] = None]
    /\ timed' = [timed EXCEPT ![c] = FALSE] /\ late' = [late EXCEPT ![c] = FALSE]
    /\ was_enabled' = [was_enabled EXCEPT ![c] = FALSE]
    /\ rc' = [rc EXCEPT ![c] = FALSE]

GivesUpOnMutex(c) ==
    /\ owner # None /\ late[c]
    /\ ThreadGoes(c, "mutex", "idle")
    /\ Returns(c)
    /\ UNCHANGED <<hardware, irq, lockout>>

(* The handshake: the times it looks at the clock, the push, and the pop.  *)
HandshakeGoesOn(c) ==
    /\ ~late[c]
    /\ \/ ThreadGoes(c, "check", "push")
       \/ ThreadGoes(c, "check2", "pop")
       \/ ThreadGoes(c, "woke", "pop")
    /\ UNCHANGED <<hardware, irq, local, late, lockout>>

HandshakeGivesUp(c) ==
    /\ late[c]
    /\ \E p \in {"check", "check2", "woke"} : ThreadGoes(c, p, "restore")
    /\ timeouts' = [timeouts EXCEPT ![magic[c]] = @ + 1]
    /\ stray' = stray \cup {c}
    /\ UNCHANGED <<hardware, irq, local, late, owner, lockout_in_progress, holds>>

HandshakePushes(c) ==
    /\ ThreadGoes(c, "push", "check2")
    /\ Sends(c, magic[c])
    /\ UNCHANGED <<irq, local, late, lockout>>

(* What multicore_fifo_push_timeout_us returns is not looked at.           *)
HandshakePushTimesOut(c) ==
    /\ ~HasRoom(c) /\ late[c]
    /\ ThreadGoes(c, "push", "check2")
    /\ UNCHANGED <<hardware, irq, local, late, lockout>>

HandshakePops(c) ==
    \E w \in Words :
        /\ Takes(c, w)
        /\ ThreadGoes(c, "pop", IF w = magic[c] THEN "restore" ELSE "check")
        /\ rc' = [rc EXCEPT ![c] = w = magic[c]]
        /\ UNCHANGED <<irq, magic, timed, was_enabled, late, lockout>>

HandshakeSleeps(c) ==
    /\ ~Valid(c)
    /\ ThreadGoes(c, "pop", "wfe")
    /\ UNCHANGED <<hardware, irq, local, late, lockout>>

(* No alarm is set to wake it in time.                                     *)
HandshakeWakes(c) ==
    /\ ThreadGoes(c, "wfe", "woke")
    /\ Wakes(c)
    /\ UNCHANGED <<irq, local, late, lockout>>

HandshakeRestores(c) ==
    /\ ThreadGoes(c, "restore", "finish")
    /\ enabled' = [enabled EXCEPT ![c] = was_enabled[c]]
    /\ UNCHANGED <<hardware, masked, victim, local, late, lockout>>

(* Mutant: an end does not reset lockout_in_progress.                      *)
FinishesInProgress(c) ==
    /\ ThreadGoes(c, "finish", "idle")
    /\ lockout_in_progress' = (lockout_in_progress \/ rc[c])
    /\ holds' = CASE ~rc[c] -> holds
                  [] rc[c] /\ magic[c] = "start" -> holds \cup {c}
                  [] rc[c] /\ magic[c] = "end" -> holds \ {c}
    /\ owner' = None
    /\ stray' = IF rc[c] THEN stray \ {c} ELSE stray
    /\ Returns(c)
    /\ UNCHANGED <<hardware, irq, timeouts>>

(* The rest of multicore_lockout_start_ and end_block_until.               *)
Finishes(c) ==
    /\ ThreadGoes(c, "finish", "idle")
    /\ lockout_in_progress' = CASE magic[c] = "start" -> rc[c]
                                [] magic[c] = "end" -> lockout_in_progress /\ ~rc[c]
    /\ holds' = CASE ~rc[c] -> holds
                  [] rc[c] /\ magic[c] = "start" -> holds \cup {c}
                  [] rc[c] /\ magic[c] = "end" -> holds \ {c}
    /\ owner' = None
    /\ stray' = IF rc[c] THEN stray \ {c} ELSE stray
    /\ Returns(c)
    /\ UNCHANGED <<hardware, irq, timeouts>>

Thread(c) ==
    \/ EntersMutex(c) \/ GivesUpOnMutex(c) \/ HandshakeGoesOn(c) \/ HandshakeGivesUp(c)
    \/ HandshakePushes(c) \/ HandshakePushTimesOut(c)
    \/ HandshakePops(c) \/ HandshakeSleeps(c) \/ HandshakeWakes(c)
    \/ HandshakeRestores(c) \/ Finishes(c)

(* Time passes.                                                            *)
TimeIsUp(c) ==
    /\ timed[c] /\ ~late[c] /\ place[c] \notin {"idle", "panic"}
    /\ timeouts[magic[c]] < MaxTimeouts[magic[c]]
    /\ late' = [late EXCEPT ![c] = TRUE]
    /\ UNCHANGED <<hardware, irq, place, local, handler, lockout>>

Next == \E c \in Cores :
    \/ Handler(c) \/ Thread(c)
    \/ VictimInit(c) \/ Masks(c) \/ Unmasks(c) \/ CallStart(c) \/ CallEnd(c) \/ TimeIsUp(c)

(* A core that can run does, and so do its handler and the clock.  That a  *)
(* thread ever calls multicore_lockout_end or unmasks is not assumed.      *)
Spec ==
    /\ Init /\ [][Next]_vars
    /\ \A c \in Cores :
          WF_vars(Handler(c)) /\ WF_vars(Thread(c)) /\ WF_vars(TimeIsUp(c))

----------------------------------------------------------------------------
(* The variables keep their types, and no FIFO takes more than it holds.   *)
TypeOK ==
    /\ fifo \in [Cores -> Seq(Words)] /\ \A c \in Cores : Len(fifo[c]) <= Depth
    /\ event \in [Cores -> BOOLEAN]
    /\ enabled \in [Cores -> BOOLEAN] /\ masked \in [Cores -> BOOLEAN]
    /\ place \in [Cores -> {"idle", "mutex", "panic", "check", "push", "check2",
                            "pop", "wfe", "woke", "restore", "finish"}]
    /\ magic \in [Cores -> Words \cup {None}]
    /\ timed \in [Cores -> BOOLEAN] /\ late \in [Cores -> BOOLEAN]
    /\ was_enabled \in [Cores -> BOOLEAN] /\ rc \in [Cores -> BOOLEAN]
    /\ handler \in [Cores -> {"off", "read", "echo", "loop", "wfe", "echo_end"}]
    /\ owner \in Cores \cup {None} /\ lockout_in_progress \in BOOLEAN
    /\ victim \subseteq Cores /\ holds \subseteq Cores /\ stray \subseteq Cores
    /\ timeouts \in [Words -> Nat]

Holding(c) == c \in holds /\ place[c] = "idle"

(* The variables keep their types, a FIFO is never overrun, and a core     *)
(* whose multicore_lockout_start_ returned true finds the other one in the *)
(* loop of its handler until it ends the lockout (multicore.h 240-243),   *)
(* whatever words earlier lockouts left behind.  Not promised after an end *)
(* that timed out: the victim may already be gone.                         *)
StartedIsLocked ==
    /\ TypeOK
    /\ \A c \in Cores : Holding(c) => LockedOut(Other(c)) \/ c \in stray

(* Nobody is left locked out: a core waits in its handler only for a       *)
(* lockout that the other core holds, is asking for or ending (175-188).   *)
(* lockout_in_progress says whether a lockout is held, so neither          *)
(* hard_assert(!lockout_in_progress) (238) nor the assertion at 258 fails, *)
(* with both cores locking each other out in turns.  Handshakes that timed *)
(* out are the exception: the request stays in the FIFO and the victim     *)
(* obeys it, and an end leaves the flag set (multicore.h 297).             *)
LockoutsAccounted ==
    stray = {} =>
        /\ \A c \in Cores : LockedOut(c) =>
              Other(c) \in holds \/ (place[Other(c)] # "idle" /\ owner = Other(c))
        /\ owner = None => (lockout_in_progress <=> holds # {})
        /\ \A c \in Cores : place[c] # "panic"

(* A core about to sleep in, or asleep in, __wfe over a FIFO that has a    *)
(* word finds its event register set: multicore_fifo_pop_'s test and its   *)
(* __wfe are two steps, and the word may come between them (48-55, 61-73). *)
PopIsWoken ==
    \A c \in Cores : ((place[c] = "wfe" \/ handler[c] = "wfe") /\ Valid(c)) => event[c]

(* multicore_lockout_start_blocking and multicore_lockout_end_blocking     *)
(* return if each core enables its interrupts again and again, though the  *)
(* cores lock each other out, or the caller is itself locked out by a core *)
(* that need not let it go.  Words left by handshakes that timed out can   *)
(* lock out both.                                                          *)
BlockingReturns ==
    \A c \in Cores :
        (\A d \in Cores : []<>~masked[d]) =>
           (place[c] # "idle" /\ ~timed[c] ~>
              place[c] = "idle" \/ LockedOut(c) \/ stray # {})
=============================================================================
