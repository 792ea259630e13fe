----------------------------- MODULE PairingHeap ----------------------------
(***************************************************************************)
(* pico_util/pheap: a pairing heap over an array of nodes with child,      *)
(* sibling and parent links, whose unused nodes are chained through their  *)
(* sibling links into a free list.                                         *)
(*                                                                         *)
(* The C functions run to completion under their user's lock: each is one  *)
(* step, but a removal, which merges the children of a node two by two on  *)
(* the way into the recursion of ph_merge_two_pass and the winners on the  *)
(* way out of it, calling its user's comparator for each.  It is a step    *)
(* for each merge, with nothing in between.  The link updates are          *)
(* operators from heap to heap, in the order of the code.  What the        *)
(* comparator looks up is kept in the heap as key.                         *)
(***************************************************************************)
EXTENDS Integers, Sequences, Links

CONSTANTS
    HeapSize,    \* max_nodes
    Keys         \* what the comparator orders nodes by

ASSUME PairingHeapAssumption == HeapSize \in Nat \ {0} /\ Keys \subseteq Int

VARIABLES
    pheap,       \* pheap_t and its nodes
    removal,     \* the removal in progress: its place, node and recursion
    held,        \* nodes removed with free == false: the caller's
    stale        \* history: inner nodes of a heap cleared since, and not reused

heapVars == <<pheap, removal, held, stale>>

HeapNodes == 1 .. HeapSize

Zero == [n \in HeapNodes |-> 0]

(* Winners are of the frames of the recursion, the outermost first.        *)
NoRemoval == [at |-> "idle", node |-> 0, toFree |-> FALSE, rest |-> 0, winners |-> <<>>]

HeapIdle == removal.at = "idle"

----------------------------------------------------------------------------
(* The links.                                                              *)

AddChild(h, p, c) ==
    [h EXCEPT !.parent[c] = p,
              !.child[p] = c,
              !.sibling[c] = IF h.child[p] = 0 THEN @ ELSE h.child[p]]

(* Mutant: the merge compares the other way round.                         *)
MergeGreater(h, a, b) ==
    IF a = 0 \/ b = 0 THEN <<h, a + b>>
    ELSE IF h.key[a] > h.key[b] THEN <<AddChild(h, a, b), a>>
    ELSE <<AddChild(h, b, a), b>>

(* ph_merge_nodes: the heap after, and the winner; b wins a tie.           *)
Merge(h, a, b) ==
    IF a = 0 \/ b = 0 THEN <<h, a + b>>
    ELSE IF h.key[a] < h.key[b] THEN <<AddChild(h, a, b), a>>
    ELSE <<AddChild(h, b, a), b>>

(* A freed node becomes the tail of the free list.                         *)
FreeLast(h, n) ==
    [h EXCEPT !.sibling = IF h.freeTail = 0 THEN @ ELSE [@ EXCEPT ![h.freeTail] = n],
              !.freeHead = IF @ = 0 THEN n ELSE @,
              !.freeTail = n]

(* ph_remove_any_head once the children of n are merged: n is cut off.     *)
CutOff(h, n, top, toFree) ==
    LET freed == IF toFree THEN FreeLast(h, n) ELSE h
        cut == IF top = 0 THEN freed ELSE [freed EXCEPT !.parent[top] = 0]
    IN  [cut EXCEPT !.sibling[n] = 0]

(* The search for the sibling before n, along the children of its parent.  *)
PreviousSibling(h, n) ==
    CHOOSE m \in Reach(HeapNodes, h.sibling, h.child[h.parent[n]]) : h.sibling[m] = n

(* Mutant: the parent link of an unlinked node is left.                    *)
UnlinkDown(h, n) ==
    IF h.child[h.parent[n]] = n
    THEN [h EXCEPT !.child[h.parent[n]] = h.sibling[n], !.sibling[n] = 0]
    ELSE [h EXCEPT !.sibling[PreviousSibling(h, n)] = h.sibling[n], !.sibling[n] = 0]

Unlink(h, n) ==
    LET off == IF h.child[h.parent[n]] = n
               THEN [h EXCEPT !.child[h.parent[n]] = h.sibling[n]]
               ELSE [h EXCEPT !.sibling[PreviousSibling(h, n)] = h.sibling[n]]
    IN  [off EXCEPT !.sibling[n] = 0, !.parent[n] = 0]

ContainsNode(h, n) == n = h.root \/ h.parent[n] # 0

(* The caller has put the key in place; ph_insert_node.                    *)
Inserted(h, n, k) ==
    LET clean == [h EXCEPT !.child[n] = 0, !.sibling[n] = 0, !.parent[n] = 0, !.key[n] = k]
        m == Merge(clean, h.root, n)
    IN  [m[1] EXCEPT !.root = m[2]]

(* ph_new_node takes the head of the free list.                            *)
HeadTaken(h) ==
    LET next == h.sibling[h.freeHead]
    IN  [h EXCEPT !.freeHead = next, !.freeTail = IF next = 0 THEN 0 ELSE @]

(* ph_clear: the free list is rebuilt; child and parent links stay.        *)
Cleared(h) ==
    [h EXCEPT !.root = 0, !.freeHead = 1, !.freeTail = HeapSize,
              !.sibling = [n \in HeapNodes |-> IF n = HeapSize THEN 0 ELSE n + 1]]

----------------------------------------------------------------------------
(* The operations.                                                         *)

(* ph_create: zeroed nodes, then ph_clear.                                 *)
HeapInit ==
    /\ \E k \in [HeapNodes -> Keys] :
          pheap = Cleared([child |-> Zero, sibling |-> Zero, parent |-> Zero, key |-> k,
                           root |-> 0, freeHead |-> 0, freeTail |-> 0])
    /\ removal = NoRemoval /\ held = {} /\ stale = {}

Insert(k) ==
    /\ HeapIdle /\ pheap.freeHead # 0
    /\ pheap' = Inserted(HeadTaken(pheap), pheap.freeHead, k)
    /\ stale' = stale \ {pheap.freeHead}
    /\ UNCHANGED <<removal, held>>

Reinsert(n, k) ==
    /\ HeapIdle /\ n \in held
    /\ pheap' = Inserted(pheap, n, k)
    /\ held' = held \ {n}
    /\ UNCHANGED <<removal, stale>>

(* ph_free_node                                                            *)
Release(n) ==
    /\ HeapIdle /\ n \in held
    /\ pheap' = FreeLast(pheap, n)
    /\ held' = held \ {n}
    /\ UNCHANGED <<removal, stale>>

(* The caller gives up the nodes it holds.                                 *)
Clear ==
    /\ HeapIdle
    /\ pheap' = Cleared(pheap)
    /\ held' = {}
    /\ stale' = {n \in HeapNodes : pheap.parent[n] # 0}
    /\ UNCHANGED removal

(* ph_merge_two_pass is called for id: with two nodes, it calls itself.    *)
TwoPass(h, id) == IF id = 0 THEN "up" ELSE IF h.sibling[id] = 0 THEN "up" ELSE "down"

(* ph_remove_any_head calls it for the children of n.                      *)
BeginRemoval(h, n, toFree) ==
    removal' = [at |-> TwoPass(h, h.child[n]), node |-> n, toFree |-> toFree,
                rest |-> h.child[n], winners |-> <<>>]

(* ph_remove_head(heap, false)                                             *)
TakeRoot ==
    /\ HeapIdle /\ pheap.root # 0
    /\ BeginRemoval(pheap, pheap.root, FALSE)
    /\ UNCHANGED <<pheap, held, stale>>

(* ph_remove_and_free_node, of any node but one that a ph_clear freed.     *)
RemoveHead(n) ==
    /\ HeapIdle /\ n = pheap.root
    /\ BeginRemoval(pheap, n, TRUE)
    /\ UNCHANGED <<pheap, held, stale>>

RemoveOther(n) ==
    /\ HeapIdle /\ n \notin stale
    /\ n # pheap.root /\ pheap.parent[n] # 0
    /\ LET h == Unlink(pheap, n) IN pheap' = h /\ BeginRemoval(h, n, TRUE)
    /\ UNCHANGED <<held, stale>>

RemoveNone(n) ==
    /\ HeapIdle
    /\ n # pheap.root /\ pheap.parent[n] = 0
    /\ UNCHANGED heapVars

(* Mutant: the children after the first two are forgotten.                 *)
MergePairForgets ==
    LET a == removal.rest
        b == pheap.sibling[a]
        m == Merge([pheap EXCEPT !.sibling[a] = 0, !.sibling[b] = 0], a, b)
    IN  /\ removal.at = "down"
        /\ pheap' = m[1]
        /\ removal' = [removal EXCEPT !.at = "up", !.rest = 0, !.winners = Append(@, m[2])]
        /\ UNCHANGED <<held, stale>>

(* Into the recursion: the first two are merged, it is called for the rest.*)
MergePair ==
    LET a == removal.rest
        b == pheap.sibling[a]
        c == pheap.sibling[b]
        m == Merge([pheap EXCEPT !.sibling[a] = 0, !.sibling[b] = 0], a, b)
    IN  /\ removal.at = "down"
        /\ pheap' = m[1]
        /\ removal' = [removal EXCEPT !.at = TwoPass(m[1], c), !.rest = c,
                                      !.winners = Append(@, m[2])]
        /\ UNCHANGED <<held, stale>>

(* Out of it: the winner of a frame is merged with what came back.         *)
MergeReturns ==
    LET last == Len(removal.winners)
        m == Merge(pheap, removal.winners[last], removal.rest)
    IN  /\ removal.at = "up" /\ removal.winners # <<>>
        /\ pheap' = m[1]
        /\ removal' = [removal EXCEPT !.rest = m[2], !.winners = SubSeq(@, 1, last - 1)]
        /\ UNCHANGED <<held, stale>>

(* The rest of ph_remove_any_head and of its caller.                       *)
FinishRemoval ==
    LET n == removal.node
        off == CutOff(pheap, n, removal.rest, removal.toFree)
        m == IF n = pheap.root THEN <<off, removal.rest>>
             ELSE Merge(off, pheap.root, removal.rest)
    IN  /\ removal.at = "up" /\ removal.winners = <<>>
        /\ pheap' = [m[1] EXCEPT !.root = m[2]]
        /\ held' = IF removal.toFree THEN held ELSE held \cup {n}
        /\ removal' = NoRemoval
        /\ UNCHANGED stale

RemovalStep == MergePair \/ MergeReturns \/ FinishRemoval

HeapNext ==
    \/ \E k \in Keys : Insert(k) \/ \E n \in HeapNodes : Reinsert(n, k)
    \/ \E n \in HeapNodes : Release(n) \/ RemoveHead(n) \/ RemoveOther(n) \/ RemoveNone(n)
    \/ TakeRoot \/ Clear \/ RemovalStep

HeapSpec == HeapInit /\ [][HeapNext]_heapVars

----------------------------------------------------------------------------
(* What the links mean.                                                    *)

(* The nodes that child and sibling links lead to from some: no set that   *)
(* has those, and that no link leaves, is without them.                    *)
Reached(h, from) ==
    LET Linked(S) == \A m \in S : {h.child[m], h.sibling[m]} \subseteq S \cup {0}
    IN  from \cup {n \in HeapNodes \ from :
                      \A S \in SUBSET (HeapNodes \ (from \cup {n})) : ~Linked(from \cup S)}

(* Where trees begin: the heap's own, and those a removal has in hand.     *)
TreeRoots ==
    ({pheap.root, removal.rest} \cup {removal.winners[i] : i \in 1 .. Len(removal.winners)})
        \ {0, removal.node}

(* A node is in the queue until its removal returns.                       *)
HeapMembers == Reached(pheap, TreeRoots) \cup ({removal.node} \ {0})

(* The nodes from freeHead to the end of the sibling links, k at most from *)
(* each.                                                                   *)
FreeList(h) ==
    LET chain[k \in 0 .. HeapSize] ==
           [n \in 0 .. HeapSize |->
              IF k = 0 \/ n = 0 THEN <<>> ELSE <<n>> \o chain[k - 1][h.sibling[n]]]
    IN  chain[HeapSize][h.freeHead]

(* The links keep their range; the root and the free list's tail end their *)
(* chains (pheap.h ph_new_node, pheap.c 55-74).                            *)
HeapTypeOK ==
    /\ {pheap.child, pheap.sibling, pheap.parent} \subseteq [HeapNodes -> 0 .. HeapSize]
    /\ {pheap.root, pheap.freeHead, pheap.freeTail} \subseteq 0 .. HeapSize
    /\ held \subseteq HeapNodes /\ stale \subseteq HeapNodes
    /\ pheap.root # 0 => pheap.sibling[pheap.root] = 0 /\ pheap.parent[pheap.root] = 0
    /\ pheap.freeTail # 0 => pheap.sibling[pheap.freeTail] = 0
    /\ pheap.freeTail = 0 <=> pheap.freeHead = 0

(* The links are sound; between the calls, parent links agree with child   *)
(* lists, and no child is less than its parent (pheap.c 42-53, 89-114).    *)
HeapOrdered ==
    /\ HeapTypeOK
    /\ HeapIdle => \A n \in HeapMembers \ {pheap.root} :
          /\ pheap.parent[n] \in HeapMembers
          /\ n \in Reach(HeapNodes, pheap.sibling, pheap.child[pheap.parent[n]])
          /\ pheap.key[pheap.parent[n]] <= pheap.key[n]

(* ph_contains_node is true of exactly the nodes that can be reached from  *)
(* the root ("Determine if the heap contains a given node", pheap.h), with *)
(* one exception: ph_clear (pheap.c 27-35) leaves the parent links of the  *)
(* nodes it frees, so it stays true of those until they are reused.        *)
ContainsMembers ==
    HeapIdle => \A n \in HeapNodes :
        ContainsNode(pheap, n) <=> n \in HeapMembers \cup stale

(* The heap is a priority queue with a first-in first-out free list:       *)
(* nothing is lost, duplicated or freed twice, the top is a least member,  *)
(* and freed nodes are reused as late as possible.  A removal shows when   *)
(* it returns.                                                             *)
Q == INSTANCE PriorityQueue WITH
        MaxNodes <- HeapSize, members <- HeapMembers, key <- pheap.key,
        top <- pheap.root, free <- FreeList(pheap), held <- held

ImplementsQueue == Q!Spec
=============================================================================
