------------------------------- MODULE IrqChain -------------------------------
(***************************************************************************)
(* The handlers of hardware_irq/irq.c.  A chain of shared handlers is a    *)
(* list of slots that are code: each calls its handler and then executes   *)
(* inst3, a branch to the next slot or a return.  The chain is edited by   *)
(* the thread of its core, and by the handlers it is calling.              *)
(*                                                                         *)
(* Each interrupt has a core of its own; the slots are shared by all, and  *)
(* each section under PICO_SPINLOCK_ID_IRQ is one step.                    *)
(*                                                                         *)
(* Callers: a handler removes only itself, a handler is in a chain once,   *)
(* and one that has removed itself from the end of its chain adds no other *)
(* behind it before it returns.  The code asks for the first; removal does *)
(* not tell apart two slots of a handler; and without the third, adding    *)
(* would follow the link that the removal has overwritten.                 *)
(***************************************************************************)
EXTENDS Integers, Links

CONSTANTS
    Irqs,       \* interrupt numbers, each on its core
    Handlers,   \* handler functions
    Priorities, \* order_priority values used
    MaxSlots,   \* PICO_MAX_SHARED_IRQ_HANDLERS
    Unhandled,  \* __unhandled_user_irq
    Pop, Leave, \* inst3: return; call irq_handler_chain_remove_tail
    NoCode      \* inst3 of a free slot

ASSUME IrqChainAssumption ==
    /\ MaxSlots \in 1 .. 7         \* Trash(s) is no slot: see Trash
    /\ Priorities \subseteq 0 .. 255
    /\ Unhandled \notin Handlers \cup Nat /\ Handlers \cap Nat = {}
    /\ {Pop, Leave, NoCode} \cap Nat = {}
    /\ Pop # Leave /\ Pop # NoCode /\ Leave # NoCode

VARIABLES
    slot,        \* irq_handler_chain_slots
    free_head,   \* irq_hander_chain_free_slot_head
    vtable,      \* a slot, a handler or Unhandled
    run,         \* run[q]: the interrupt in progress
    due          \* history: handlers it still has to call

irqVars == <<slot, free_head, vtable, run, due>>

Slots == 0 .. MaxSlots - 1
End == -1

Off == [at |-> End, handler |-> Unhandled]

(* link and priority once the branch of Leave has overwritten them: its    *)
(* second halfword is 0xf800 and the distance, of 6 halfwords for each   *)
(* slot on the way.  With 8 slots or more, Trash(s) may be a slot number.  *)
Trash(s) == 6 * (MaxSlots - s) + 1
TrashPriority == 248

(* A slot in the free list.  Its code and data stay as they were; nothing  *)
(* may depend on them.                                                     *)
Freed(to) ==
    [first |-> FALSE, inst3 |-> NoCode, link |-> to, priority |-> 0,
     handler |-> Unhandled]

IrqInit ==
    /\ slot = [s \in Slots |-> Freed(IF s = MaxSlots - 1 THEN End ELSE s + 1)]
    /\ free_head = 0
    /\ vtable = [q \in Irqs |-> Unhandled]
    /\ run = [q \in Irqs |-> Off]
    /\ due = [q \in Irqs |-> {}]

(* The slots that links lead through from s.                               *)
SlotsFrom(s) == Reach(Slots, [t \in Slots |-> slot[t].link], s)

Chain(q) == SlotsFrom(vtable[q])
FreeList == SlotsFrom(free_head)

InException(q) == run[q].handler # Unhandled
IsShared(q) == vtable[q] \in Slots

(* The handlers of a chain; one that is leaving is still called, or being  *)
(* called, but no longer installed.                                        *)
Installed(q) ==
    {slot[s].handler : s \in {t \in Chain(q) : slot[t].inst3 # Leave}}

----------------------------------------------------------------------------
(* irq_add_shared_handler                                                  *)

NewSlot(first, inst3, link, p, h) ==
    [first |-> first, inst3 |-> inst3, link |-> link, priority |-> p, handler |-> h]

(* Mutant: lower values first, as with the processor's own priorities.     *)
AheadLower(q, p) ==
    {s \in Chain(q) : \A t \in Chain(q) : s \in SlotsFrom(t) => slot[t].priority < p}

(* The slots a new handler of priority p comes after.                      *)
Ahead(q, p) ==
    {s \in Chain(q) : \A t \in Chain(q) : s \in SlotsFrom(t) => slot[t].priority > p}

(* The last of them.                                                       *)
Previous(q, p) == CHOOSE s \in Ahead(q, p) : slot[s].link \notin Ahead(q, p)

CanAdd(q, h) ==
    /\ free_head \in Slots
    /\ vtable[q] \notin Handlers
    /\ h \notin Installed(q) /\ run[q].handler # h

TakesSlot(q) == free_head' = slot[free_head].link /\ UNCHANGED <<run, due>>

StartChain(q, h, p) ==
    /\ CanAdd(q, h) /\ ~IsShared(q)
    /\ slot' = [slot EXCEPT ![free_head] = NewSlot(TRUE, Pop, End, p, h)]
    /\ vtable' = [vtable EXCEPT ![q] = free_head]
    /\ TakesSlot(q)

(* Mutant: the new slot returns instead of going on to the next.           *)
InsertBehindEnds(q, h, p) ==
    /\ CanAdd(q, h) /\ IsShared(q)
    /\ Ahead(q, p) # {}
    /\ LET prev == Previous(q, p)
       IN  /\ slot[prev].inst3 # Leave
           /\ slot' = [slot EXCEPT
                ![prev].inst3 = free_head, ![prev].link = free_head,
                ![free_head] = NewSlot(FALSE, Pop, slot[prev].link, p, h)]
    /\ TakesSlot(q) /\ UNCHANGED vtable

(* After the last slot of a higher priority.                               *)
InsertBehind(q, h, p) ==
    /\ CanAdd(q, h) /\ IsShared(q)
    /\ Ahead(q, p) # {}
    /\ LET prev == Previous(q, p)
           inst3 == IF slot[prev].link >= 0 THEN slot[prev].inst3 ELSE Pop
       IN  /\ slot[prev].inst3 # Leave
           /\ slot' = [slot EXCEPT
                ![prev].inst3 = free_head, ![prev].link = free_head,
                ![free_head] = NewSlot(FALSE, inst3, slot[prev].link, p, h)]
    /\ TakesSlot(q) /\ UNCHANGED vtable

NewHead(q, h, p) ==
    /\ CanAdd(q, h) /\ IsShared(q)
    /\ Ahead(q, p) = {}
    /\ slot' = [slot EXCEPT
         ![free_head] = NewSlot(TRUE, vtable[q], vtable[q], p, h),
         ![vtable[q]].first = FALSE]
    /\ vtable' = [vtable EXCEPT ![q] = free_head]
    /\ TakesSlot(q)

----------------------------------------------------------------------------
(* irq_remove_handler, of a chain; a handler removes only itself.          *)

MayRemove(q, h) ==
    /\ IsShared(q) /\ h \in Installed(q)
    /\ InException(q) => run[q].handler = h

SlotOf(q, h) == CHOOSE s \in Chain(q) : slot[s].handler = h

(* The interrupt owes nothing to those that were removed or skipped.       *)
Owes(q, gone) == due' = [due EXCEPT ![q] = @ \ gone] /\ UNCHANGED run

(* Mutant: the next slot is copied, but not freed.                         *)
RemoveInnerLeaks(q, h) ==
    /\ MayRemove(q, h)
    /\ LET s == SlotOf(q, h)
           n == slot[s].link
       IN  /\ n \in Slots
           /\ slot' = [slot EXCEPT ![s] = [slot[n] EXCEPT !.first = slot[s].first]]
           /\ Owes(q, IF InException(q) THEN {h, slot[n].handler} ELSE {h})
    /\ UNCHANGED <<free_head, vtable>>

(* The next slot is copied over the one removed, and freed.                *)
RemoveInner(q, h) ==
    /\ MayRemove(q, h)
    /\ LET s == SlotOf(q, h)
           n == slot[s].link
       IN  /\ n \in Slots
           /\ slot' = [slot EXCEPT
                ![s] = [slot[n] EXCEPT
                          !.first = slot[s].first,
                          !.inst3 = IF slot[n].link >= 0 THEN @ ELSE Pop],
                ![n] = Freed(free_head)]
           /\ free_head' = n
           /\ Owes(q, IF InException(q) THEN {h, slot[n].handler} ELSE {h})
    /\ UNCHANGED vtable

(* The slot that leads to s, if it is not the head of its chain.           *)
Before(q, s) == {t \in Chain(q) : slot[t].link = s}

RemoveLast(q, h) ==
    /\ MayRemove(q, h) /\ ~InException(q)
    /\ LET s == SlotOf(q, h)
           ends == [t \in Slots |->
                      IF t \in Before(q, s)
                      THEN [slot[t] EXCEPT !.link = End, !.inst3 = Pop] ELSE slot[t]]
       IN  /\ slot[s].link = End
           /\ slot' = [ends EXCEPT ![s] = Freed(free_head)]
           /\ vtable' = [vtable EXCEPT ![q] = IF @ = s THEN Unhandled ELSE @]
           /\ free_head' = s
           /\ Owes(q, {h})

(* Mutant: the last slot is freed at once, while it is being executed.     *)
FreeRunning(q, h) ==
    /\ MayRemove(q, h) /\ InException(q)
    /\ LET s == SlotOf(q, h)
           ends == [t \in Slots |->
                      IF t \in Before(q, s)
                      THEN [slot[t] EXCEPT !.link = End, !.inst3 = Pop] ELSE slot[t]]
       IN  /\ slot[s].link = End
           /\ slot' = [ends EXCEPT ![s] = Freed(free_head)]
           /\ vtable' = [vtable EXCEPT ![q] = IF @ = s THEN Unhandled ELSE @]
           /\ free_head' = s
           /\ Owes(q, {h})

(* The last slot, while it is executed, is left to remove itself: the call *)
(* put in place of inst3 overwrites its link and priority.                 *)
LeaveRunning(q, h) ==
    /\ MayRemove(q, h) /\ InException(q)
    /\ LET s == SlotOf(q, h)
       IN  /\ slot[s].link = End
           /\ slot' = [slot EXCEPT
                ![s] = [@ EXCEPT !.inst3 = Leave, !.link = Trash(s),
                                 !.priority = TrashPriority]]
    /\ Owes(q, {h})
    /\ UNCHANGED <<free_head, vtable>>

----------------------------------------------------------------------------
(* Exclusive handlers.                                                     *)

SetExclusive(q, h) ==
    /\ vtable[q] \in {Unhandled, h}
    /\ vtable' = [vtable EXCEPT ![q] = h]
    /\ UNCHANGED <<slot, free_head, run, due>>

RemoveExclusive(q, h) ==
    /\ vtable[q] = h
    /\ vtable' = [vtable EXCEPT ![q] = Unhandled]
    /\ Owes(q, {h})
    /\ UNCHANGED <<slot, free_head>>

----------------------------------------------------------------------------
(* The interrupt.                                                          *)

Calls(q, s, most) ==
    /\ run' = [run EXCEPT ![q] = [at |-> s, handler |-> slot[s].handler]]
    /\ due' = [due EXCEPT ![q] = most \ {slot[s].handler}]

InterruptShared(q) ==
    /\ ~InException(q) /\ IsShared(q)
    /\ Calls(q, vtable[q], Installed(q))
    /\ UNCHANGED <<slot, free_head, vtable>>

InterruptExclusive(q) ==
    /\ ~InException(q) /\ vtable[q] \in Handlers
    /\ run' = [run EXCEPT ![q].handler = vtable[q]]
    /\ UNCHANGED <<slot, free_head, vtable, due>>

(* A handler returns to inst3 of the slot that called it.                  *)
RunsNext(q) ==
    /\ InException(q) /\ run[q].at \in Slots
    /\ slot[run[q].at].inst3 \in Slots
    /\ Calls(q, slot[run[q].at].inst3, due[q])
    /\ UNCHANGED <<slot, free_head, vtable>>

InterruptReturns(q) ==
    /\ InException(q)
    /\ run[q].at \in Slots => slot[run[q].at].inst3 = Pop
    /\ run' = [run EXCEPT ![q] = Off]
    /\ UNCHANGED <<slot, free_head, vtable, due>>

(* irq_handler_chain_remove_tail, irq_add_tail_to_free_list: whichever     *)
(* slot is found to link to this one becomes the last.                     *)
Least(S) == CHOOSE s \in S : \A t \in S : s <= t
Linked(s) == {t \in Slots : slot[t].link = s}

LeavesChain(q) ==
    /\ InException(q) /\ run[q].at \in Slots
    /\ LET s == run[q].at
       IN  /\ slot[s].inst3 = Leave
           /\ IF vtable[q] = s
              THEN /\ vtable' = [vtable EXCEPT ![q] = Unhandled]
                   /\ slot' = [slot EXCEPT ![s] = Freed(free_head)]
              ELSE /\ Linked(s) # {}
                   /\ slot' = [slot EXCEPT
                        ![Least(Linked(s))].link = End,
                        ![Least(Linked(s))].inst3 = Pop, ![s] = Freed(free_head)]
                   /\ UNCHANGED vtable
           /\ free_head' = s
    /\ run' = [run EXCEPT ![q] = Off]
    /\ UNCHANGED due

Edits(q, h) ==
    \/ \E p \in Priorities :
          StartChain(q, h, p) \/ InsertBehind(q, h, p) \/ NewHead(q, h, p)
    \/ RemoveInner(q, h) \/ RemoveLast(q, h) \/ LeaveRunning(q, h)
    \/ SetExclusive(q, h) \/ RemoveExclusive(q, h)

IrqNext ==
    \E q \in Irqs :
        \/ \E h \in Handlers : Edits(q, h)
        \/ InterruptShared(q) \/ InterruptExclusive(q)
        \/ RunsNext(q) \/ InterruptReturns(q) \/ LeavesChain(q)

IrqSpec == IrqInit /\ [][IrqNext]_irqVars
----------------------------------------------------------------------------
SlotData ==
    [first : BOOLEAN, inst3 : Slots \cup {NoCode, Pop, Leave}, link : Int,
     priority : Nat, handler : Handlers \cup {Unhandled}]

(* The variables keep their types; a link is trash only while its slot is  *)
(* waiting to leave (irq.c 90-99, 353-357, 421-422).                       *)
IrqTypeOK ==
    /\ slot \in [Slots -> SlotData]
    /\ \A s \in Slots : slot[s].link \in Slots \cup {End} \/ slot[s].inst3 = Leave
    /\ free_head \in Slots \cup {End}
    /\ vtable \in [Irqs -> Slots \cup Handlers \cup {Unhandled}]
    /\ run \in [Irqs -> [at : Slots \cup {End}, handler : Handlers \cup {Unhandled}]]
    /\ due \in [Irqs -> SUBSET Handlers]

(* The code of a chain does what its links say, whichever handlers came    *)
(* and went while it ran: only the head has the instructions of a first    *)
(* slot, each slot branches to the next, the last returns, and only the    *)
(* one being executed leaves; the chain comes to an end, and the slot      *)
(* being executed is in it (irq.c 220-274, 319-358, 396-424).              *)
ChainsSound ==
    /\ IrqTypeOK
    /\ \A q \in Irqs :
          /\ \A s \in Chain(q) :
                /\ slot[s].first <=> s = vtable[q]
                /\ slot[s].link \in Slots => slot[s].inst3 = slot[s].link
                /\ slot[s].link \notin Slots =>
                      \/ slot[s].inst3 = Pop
                      \/ slot[s].inst3 = Leave /\ run[q].at = s
          /\ IsShared(q) => \E s \in Chain(q) : slot[s].link \notin Slots
          /\ run[q].at \in Slots => run[q].at \in Chain(q)

(* Handlers are called in the order of their priorities (irq.h 220).       *)
InOrder ==
    \A q \in Irqs : \A s \in Chain(q) : \A t \in SlotsFrom(slot[s].link) :
        slot[t].inst3 # Leave => slot[s].priority >= slot[t].priority

(* No slot is lost, or in two lists: chains of both cores and the free     *)
(* list share them out, through removals in and out of interrupts          *)
(* (irq.c 215-218, 334-336, 349-351, 420-422).                             *)
SlotsAccounted ==
    /\ (UNION {Chain(q) : q \in Irqs}) \cup FreeList = Slots
    /\ \A q \in Irqs :
          /\ Chain(q) \cap FreeList = {}
          /\ \A r \in Irqs \ {q} : Chain(q) \cap Chain(r) = {}

(* An interrupt calls every handler that was installed when it came, but   *)
(* those removed since and the one after a handler that removed itself,    *)
(* however the chain was edited meanwhile (irq.c 322-325).                 *)
AllCalled == \A q \in Irqs : ~InException(q) => due[q] = {}
=============================================================================
