------------------------------ MODULE ListProofs ------------------------------
(***************************************************************************)
(* The two components that keep linked lists in order, proved for any      *)
(* sizes.  An asynchronous context is a single logical thread that forgets *)
(* neither work nor timers but in the cases named, keeps its list whole,   *)
(* and runs the function of execute_sync once.  The chains of shared       *)
(* interrupt handlers stay sound, share out the slots with the free list,  *)
(* and call every handler in the order of the priorities, however they are *)
(* edited by the handlers they call.                                       *)
(***************************************************************************)
EXTENDS AsyncContext, IrqChain, WellFoundedInduction, TLAPS

----------------------------------------------------------------------------
(* Where links lead.                                                       *)

(* From something that is no node, links lead nowhere.                     *)
LEMMA ReachNothing ==
    ASSUME NEW N, NEW link, NEW x, x \notin N
    PROVE  Reach(N, link, x) = {}
<1>1. {} \in SUBSET N /\ \A y \in {} : link[y] \in N => link[y] \in {}
  OBVIOUS
<1> QED  BY <1>1, Zenon DEF Reach

(* A node is where its links lead from.                                    *)
LEMMA ReachSelf ==
    ASSUME NEW N, NEW link, NEW x \in N
    PROVE  x \in Reach(N, link, x)
BY DEF Reach

(* Following one more link leads to nothing new.                           *)
LEMMA ReachClosed ==
    ASSUME NEW N, NEW link, NEW x, NEW y \in Reach(N, link, x), link[y] \in N
    PROVE  link[y] \in Reach(N, link, x)
<1>1. SUFFICES ASSUME NEW S \in SUBSET N, x \in N => x \in S,
                      \A z \in S : link[z] \in N => link[z] \in S
               PROVE  link[y] \in S
  BY Zenon DEF Reach
<1>2. y \in S
  BY <1>1, Zenon DEF Reach
<1> QED  BY <1>1, <1>2

(* One link further, all but the node itself are still ahead.              *)
LEMMA ReachOn ==
    ASSUME NEW N, NEW link, NEW x \in N, NEW w \in Reach(N, link, x), w # x
    PROVE  w \in Reach(N, link, link[x])
<1> DEFINE S == {x} \cup Reach(N, link, link[x])
<1>1. S \in SUBSET N
  BY DEF Reach
<1>2. link[x] \in N => link[x] \in S
  BY ReachSelf
<1>3. \A y \in S : link[y] \in N => link[y] \in S
  <2> SUFFICES ASSUME NEW y \in S, link[y] \in N PROVE link[y] \in S
    OBVIOUS
  <2>1. CASE y = x
    BY <1>2, <2>1
  <2>2. CASE y \in Reach(N, link, link[x])
    BY <2>2, ReachClosed
  <2> QED  BY <2>1, <2>2
<1>4. x \in S
  OBVIOUS
<1> HIDE DEF S
<1>5. w \in S
  BY <1>1, <1>3, <1>4, Zenon DEF Reach
<1> QED  BY <1>5 DEF S

----------------------------------------------------------------------------
(* Lists in order.                                                         *)

(* set is a list that starts at begin and follows link, in the order of     *)
(* the ranks of its nodes, to an end.                                      *)
Ordered(N, link, begin, set, rank) ==
    /\ set \subseteq N
    /\ begin \in N => begin \in set
    /\ set # {} => begin \in set
    /\ \A x \in set : rank[begin] <= rank[x]
    /\ \A x, y \in set : rank[x] = rank[y] => x = y
    /\ \A x, y \in set : rank[x] < rank[y] =>
          link[x] \in set /\ rank[link[x]] <= rank[y]
    /\ \A x \in set : link[x] \in N => link[x] \in set /\ rank[x] < rank[link[x]]
    /\ \A x \in set : x # begin => \E y \in set : link[y] = x
    /\ set # {} => \E e \in set : link[e] \notin N

(* The same place to go, or none at all.                                   *)
Same(N, a, b) == a = b \/ (a \notin N /\ b \notin N)

(* No node of an ordered list leads to itself or to the head, and no two   *)
(* lead to the same one.                                                   *)
LEMMA OrderedRanks ==
    ASSUME NEW N, NEW link, NEW begin, NEW set, NEW rank \in [N -> Int],
           Ordered(N, link, begin, set, rank)
    PROVE  /\ \A x \in set : rank[x] \in Int /\ x \in N
           /\ \A x \in set : link[x] # x /\ (begin \in N => link[x] # begin)
           /\ \A x, y \in set : link[x] = link[y] /\ link[x] \in N => x = y
<1>1. \A x \in set : rank[x] \in Int /\ x \in N
  BY DEF Ordered
<1>2. \A x \in set : link[x] # x /\ (begin \in N => link[x] # begin)
  BY <1>1 DEF Ordered
<1>3. ASSUME NEW x \in set, NEW y \in set, link[x] = link[y], link[x] \in N
      PROVE  x = y
  <2>1. ~(rank[x] < rank[y]) /\ ~(rank[y] < rank[x])
    BY <1>1, <1>3 DEF Ordered
  <2> QED  BY <1>1, <2>1 DEF Ordered
<1> QED  BY <1>1, <1>2, <1>3

(* Where neither the links of the set nor their ends change.               *)
LEMMA OrderedFrame ==
    ASSUME NEW N, NEW set, NEW link, NEW begin, NEW rank \in [N -> Int],
           Ordered(N, link, begin, set, rank),
           NEW link2, NEW begin2, NEW rank2 \in [N -> Int],
           Same(N, begin2, begin),
           \A x \in set : Same(N, link2[x], link[x]) /\ rank2[x] = rank[x]
    PROVE  Ordered(N, link2, begin2, set, rank2)
BY DEF Ordered, Same

(* Twice every rank leaves room between them.                              *)
LEMMA OrderedDoubled ==
    ASSUME NEW N, NEW set, NEW link, NEW begin, NEW rank \in [N -> Int],
           Ordered(N, link, begin, set, rank), NEW rank2 \in [N -> Int],
           \A x \in set : rank2[x] = 2 * rank[x]
    PROVE  Ordered(N, link, begin, set, rank2)
<1>1. \A x \in set : rank[x] \in Int /\ rank2[x] = 2 * rank[x]
  BY DEF Ordered
<1> QED  BY <1>1 DEF Ordered

(* A new first node.                                                       *)
LEMMA OrderedPush ==
    ASSUME NEW N, NEW set, NEW link, NEW begin, NEW rank \in [N -> Int],
           Ordered(N, link, begin, set, rank),
           NEW w \in N, w \notin set, NEW link2, NEW rank2 \in [N -> Int],
           Same(N, link2[w], begin),
           \A x \in set : Same(N, link2[x], link[x]),
           \A x \in set : rank2[x] = rank[x] /\ rank2[w] < rank[x]
    PROVE  Ordered(N, link2, w, set \cup {w}, rank2)
<1> DEFINE new == set \cup {w}
<1>1. \A x \in new : x = w \/ x \in set
  OBVIOUS
<1>2. \A x \in set : rank[x] \in Int /\ rank2[w] \in Int /\ x # w
  BY DEF Ordered
<1>10. \A x \in set :
          /\ x \in N
          /\ link[x] \in N \/ link[x] \in set => link2[x] = link[x]
          /\ link2[x] \in N => link2[x] = link[x]
          /\ link[x] \notin N => link2[x] \notin N
  BY DEF Same, Ordered
<1> HIDE DEF new
<1>3. new \subseteq N /\ w \in new
  BY DEF Ordered, new
<1>4. \A x \in new : rank2[w] <= rank2[x]
  BY <1>1, <1>2
<1>5. \A x, y \in new : rank2[x] = rank2[y] => x = y
  BY <1>1, <1>2 DEF Ordered
<1>6. \A x \in new : link2[x] \in N => link2[x] \in new /\ rank2[x] < rank2[link2[x]]
  BY <1>1, <1>2, <1>10 DEF Ordered, Same, new
<1>7. ASSUME NEW x \in new, NEW y \in new, rank2[x] < rank2[y]
      PROVE  link2[x] \in new /\ rank2[link2[x]] <= rank2[y]
  <2>1. y \in set
    BY <1>1, <1>2, <1>7
  <2>2. CASE x = w
    BY <1>2, <2>1, <2>2 DEF Ordered, Same, new
  <2>3. CASE x \in set
    BY <1>2, <1>7, <1>10, <2>1, <2>3 DEF Ordered, new
  <2> QED  BY <1>1, <2>2, <2>3
<1>8. ASSUME NEW x \in new, x # w PROVE \E y \in new : link2[y] = x
  <2>1. x \in set
    BY <1>1, <1>8
  <2>2. CASE x = begin
    BY <1>3, <2>1, <2>2 DEF Ordered, Same
  <2>3. CASE x # begin
    BY <1>10, <2>1, <2>3 DEF Ordered, new
  <2> QED  BY <2>2, <2>3
<1>9. \E e \in new : link2[e] \notin N
  <2>1. CASE set = {}
    BY <1>3, <2>1 DEF Ordered, Same
  <2>2. CASE set # {}
    BY <1>10, <2>2 DEF Ordered, new
  <2> QED  BY <2>1, <2>2
<1> QED  BY <1>3, <1>4, <1>5, <1>6, <1>7, <1>8, <1>9 DEF Ordered, new

(* A new node after another one.                                           *)
LEMMA OrderedInsert ==
    ASSUME NEW N, NEW set, NEW link, NEW begin, NEW rank \in [N -> Int],
           Ordered(N, link, begin, set, rank),
           NEW p \in set, NEW w \in N, w \notin set,
           NEW link2, NEW rank2 \in [N -> Int],
           link2[p] = w, Same(N, link2[w], link[p]),
           \A x \in set : x # p => Same(N, link2[x], link[x]),
           \A x \in set : rank2[x] = 2 * rank[x],
           rank2[w] = 2 * rank[p] + 1
    PROVE  Ordered(N, link2, begin, set \cup {w}, rank2)
<1> DEFINE new == set \cup {w}
<1>1. \A x \in new : x = w \/ x \in set
  OBVIOUS
<1>2. /\ \A x \in set : rank[x] \in Int /\ rank2[x] = 2 * rank[x] /\ x # w
      /\ rank2[w] \in Int /\ rank[p] \in Int /\ rank2[w] = 2 * rank[p] + 1
  BY DEF Ordered
<1>10. \A x \in set : x # p =>
          /\ link[x] \in N \/ link[x] \in set => link2[x] = link[x]
          /\ link2[x] \in N => link2[x] = link[x]
          /\ link[x] \notin N => link2[x] \notin N
  BY DEF Same, Ordered
<1>11. \A x \in set : x \in N
  BY DEF Ordered
<1> HIDE DEF new
<1>3. new \subseteq N /\ w \in new /\ p \in new /\ begin \in set
  BY DEF Ordered, new
<1>4. \A x \in new : rank2[begin] <= rank2[x]
  BY <1>1, <1>2, <1>3 DEF Ordered
<1>5. ASSUME NEW x \in new, NEW y \in new, rank2[x] = rank2[y] PROVE x = y
  <2>1. \A z \in set : rank2[z] # rank2[w]
    BY <1>2
  <2>2. \A u, v \in set : rank2[u] = rank2[v] => u = v
    <3> SUFFICES ASSUME NEW u \in set, NEW v \in set, rank2[u] = rank2[v]
                 PROVE  u = v
      OBVIOUS
    <3>0. rank[u] \in Int /\ rank[v] \in Int /\ 2 * rank[u] = 2 * rank[v]
      BY <1>2
    <3>1. rank[u] = rank[v]
      BY <3>0
    <3> QED  BY <3>1 DEF Ordered
  <2> QED  BY <1>1, <1>5, <2>1, <2>2
<1>6. ASSUME NEW x \in new, link2[x] \in N
      PROVE  link2[x] \in new /\ rank2[x] < rank2[link2[x]]
  <2>1. CASE x = p
    BY <1>2, <1>3, <2>1
  <2>2. CASE x = w
    <3>1. link2[w] = link[p] /\ link[p] \in set /\ rank[p] < rank[link[p]]
      BY <1>6, <2>2 DEF Ordered, Same
    <3> QED  BY <1>2, <2>2, <3>1 DEF new
  <2>3. CASE x \in set /\ x # p
    <3>1. link2[x] = link[x] /\ link[x] \in set /\ rank[x] < rank[link[x]]
      BY <1>6, <1>10, <2>3 DEF Ordered
    <3> QED  BY <1>2, <1>10, <2>3, <3>1 DEF new
  <2> QED  BY <1>1, <2>1, <2>2, <2>3
<1>7. ASSUME NEW x \in new, NEW y \in new, rank2[x] < rank2[y]
      PROVE  link2[x] \in new /\ rank2[link2[x]] <= rank2[y]
  <2>1. CASE x = p
    <3>1. rank2[w] <= rank2[y]
      BY <1>1, <1>2, <1>7, <2>1
    <3> QED  BY <1>3, <2>1, <3>1
  <2>2. CASE x = w
    <3>1. y \in set /\ rank[p] < rank[y]
      BY <1>1, <1>2, <1>7, <2>2
    <3>2. link[p] \in set /\ rank[link[p]] <= rank[y]
      BY <3>1 DEF Ordered
    <3>3. link2[w] = link[p]
      BY <3>2 DEF Ordered, Same
    <3> QED  BY <1>2, <2>2, <3>1, <3>2, <3>3 DEF new
  <2>3. CASE x \in set /\ x # p
    <3>1. CASE y \in set
      <4>1. link[x] \in set /\ rank[link[x]] <= rank[y]
        BY <1>2, <1>7, <2>3, <3>1 DEF Ordered
      <4> QED  BY <1>2, <1>10, <2>3, <3>1, <4>1 DEF new
    <3>2. CASE y = w
      <4>1. rank[x] < rank[p]
        <5>1. rank[x] <= rank[p] /\ rank[x] # rank[p]
          BY <1>2, <1>7, <2>3, <3>2 DEF Ordered
        <5> QED  BY <1>2, <2>3, <5>1
      <4>2. link[x] \in set /\ rank[link[x]] <= rank[p]
        BY <2>3, <4>1 DEF Ordered
      <4> QED  BY <1>2, <1>10, <2>3, <3>2, <4>2 DEF new
    <3> QED  BY <1>1, <3>1, <3>2
  <2> QED  BY <1>1, <2>1, <2>2, <2>3
<1>8. ASSUME NEW x \in new, x # begin PROVE \E y \in new : link2[y] = x
  <2>1. CASE x = w
    BY <1>3, <2>1
  <2>2. CASE x \in set
    <3>1. PICK y \in set : link[y] = x
      BY <1>8, <2>2 DEF Ordered
    <3>2. CASE y = p
      BY <1>3, <2>2, <3>1, <3>2 DEF Ordered, Same
    <3>3. CASE y # p
      BY <1>10, <1>11, <2>2, <3>1, <3>3 DEF new
    <3> QED  BY <3>2, <3>3
  <2> QED  BY <1>1, <2>1, <2>2
<1>9. \E e \in new : link2[e] \notin N
  <2>1. PICK e \in set : link[e] \notin N
    BY DEF Ordered
  <2>2. CASE e = p
    BY <1>3, <2>1, <2>2 DEF Same, Ordered
  <2>3. CASE e # p
    BY <1>10, <2>1, <2>3 DEF new
  <2> QED  BY <2>2, <2>3
<1> QED  BY <1>3, <1>4, <1>5, <1>6, <1>7, <1>8, <1>9 DEF Ordered, new

(* A node less.                                                            *)
LEMMA OrderedRemove ==
    ASSUME NEW N, NEW set, NEW link, NEW begin, NEW rank \in [N -> Int],
           Ordered(N, link, begin, set, rank),
           NEW w \in set, NEW link2, NEW begin2, NEW rank2 \in [N -> Int],
           Same(N, begin2, IF begin = w THEN link[w] ELSE begin),
           \A x \in set : x # w =>
              /\ Same(N, link2[x], IF link[x] = w THEN link[w] ELSE link[x])
              /\ rank2[x] = rank[x]
    PROVE  Ordered(N, link2, begin2, set \ {w}, rank2)
<1> DEFINE new == set \ {w}
<1>1. \A x \in new : x # w /\ x \in set /\ rank2[x] = rank[x]
  OBVIOUS
<1>2. /\ \A x \in set : rank[x] \in Int /\ x \in N /\ link[x] # x /\ link[x] # begin
      /\ begin \in set /\ begin \in N
  BY OrderedRanks DEF Ordered
<1>3. \A x \in set : x # w => x \in new
  OBVIOUS
<1> HIDE DEF new
<1>4. link[w] \in N => link[w] \in new /\ rank[w] < rank[link[w]]
  BY <1>2, <1>3 DEF Ordered
<1>5. ASSUME NEW x \in new, link2[x] \in N
      PROVE  link2[x] \in new /\ rank2[x] < rank2[link2[x]]
  <2>1. CASE link[x] = w
    <3>1. link2[x] = link[w] /\ link[w] \in new /\ rank[w] < rank[link[w]]
      BY <1>1, <1>4, <1>5, <2>1 DEF Same
    <3>2. rank[x] < rank[w]
      BY <1>1, <1>2, <2>1 DEF Ordered
    <3> QED  BY <1>1, <1>2, <3>1, <3>2
  <2>2. CASE link[x] # w
    <3>1. link2[x] = link[x] /\ link[x] \in new /\ rank[x] < rank[link[x]]
      BY <1>1, <1>3, <1>5, <2>2 DEF Same, Ordered
    <3> QED  BY <1>1, <3>1
  <2> QED  BY <2>1, <2>2
<1>6. ASSUME NEW x \in new, NEW y \in new, rank2[x] < rank2[y]
      PROVE  link2[x] \in new /\ rank2[link2[x]] <= rank2[y]
  <2>1. link[x] \in set /\ rank[link[x]] <= rank[y]
    BY <1>1, <1>6 DEF Ordered
  <2>2. CASE link[x] = w
    <3>1. rank[w] < rank[y]
      <4>1. rank[w] # rank[y] /\ rank[w] <= rank[y]
        BY <1>1, <2>1, <2>2 DEF Ordered
      <4> QED  BY <1>1, <1>2, <4>1
    <3>2. link[w] \in set /\ rank[link[w]] <= rank[y]
      BY <1>1, <3>1 DEF Ordered
    <3>3. link2[x] = link[w] /\ link[w] \in new
      BY <1>1, <1>2, <1>4, <2>2, <3>2 DEF Same
    <3> QED  BY <1>1, <3>2, <3>3
  <2>3. CASE link[x] # w
    <3>1. link2[x] = link[x] /\ link[x] \in new
      BY <1>1, <1>2, <1>3, <2>1, <2>3 DEF Same
    <3> QED  BY <1>1, <2>1, <3>1
  <2> QED  BY <2>2, <2>3
<1>7. begin2 \in N => begin2 \in new
  BY <1>2, <1>3, <1>4 DEF Same
<1>8. ASSUME NEW x \in new PROVE begin2 \in new /\ rank2[begin2] <= rank2[x]
  <2>1. CASE begin = w
    <3>1. rank[w] < rank[x]
      <4>1. rank[w] # rank[x] /\ rank[w] <= rank[x]
        BY <1>1, <2>1 DEF Ordered
      <4> QED  BY <1>1, <1>2, <4>1
    <3>2. link[w] \in set /\ rank[link[w]] <= rank[x]
      BY <1>1, <3>1 DEF Ordered
    <3>3. begin2 = link[w] /\ link[w] \in new
      BY <1>2, <1>4, <2>1, <3>2 DEF Same
    <3> QED  BY <1>1, <3>2, <3>3
  <2>2. CASE begin # w
    <3>1. begin2 = begin /\ begin \in new
      BY <1>2, <1>3, <2>2 DEF Same
    <3> QED  BY <1>1, <3>1 DEF Ordered
  <2> QED  BY <2>1, <2>2
<1>9. ASSUME NEW x \in new, x # begin2 PROVE \E y \in new : link2[y] = x
  <2>0. x \in N /\ x \in set /\ x # w
    BY <1>1, <1>2
  <2>1. x # begin
    BY <1>2, <1>9, <2>0 DEF Same
  <2>2. PICK y \in set : link[y] = x
    BY <2>0, <2>1 DEF Ordered
  <2>3. CASE y # w
    BY <1>3, <2>0, <2>2, <2>3 DEF Same
  <2>4. CASE y = w
    <3>1. begin # w
      BY <1>9, <2>0, <2>2, <2>4 DEF Same
    <3>2. PICK z \in set : link[z] = w
      BY <3>1 DEF Ordered
    <3>3. z # w /\ link2[z] = x
      BY <1>2, <2>0, <2>2, <2>4, <3>2 DEF Same
    <3> QED  BY <1>3, <3>3
  <2> QED  BY <2>3, <2>4
<1>10. ASSUME new # {} PROVE \E e \in new : link2[e] \notin N
  <2>1. PICK e \in set : link[e] \notin N
    BY DEF Ordered
  <2>2. CASE e # w
    BY <1>2, <1>3, <2>1, <2>2 DEF Same
  <2>3. CASE e = w
    <3>1. begin # w
      BY <1>2, <1>7, <1>8, <1>10, <2>1, <2>3 DEF Same, Ordered, new
    <3>2. PICK z \in set : link[z] = w
      BY <3>1 DEF Ordered
    <3>3. z # w /\ link2[z] \notin N
      BY <1>2, <2>1, <2>3, <3>2 DEF Same
    <3> QED  BY <1>3, <3>3
  <2> QED  BY <2>2, <2>3
<1>11. \A x, y \in new : rank2[x] = rank2[y] => x = y
  BY <1>1 DEF Ordered
<1>12. new \subseteq N /\ (new # {} => begin2 \in new)
  BY <1>1, <1>2, <1>8
<1> QED
  BY <1>5, <1>6, <1>7, <1>8, <1>9, <1>10, <1>11, <1>12 DEF Ordered, new

(* The links lead through all of a list in order: a set that has its begin, *)
(* that no link leaves, and that lacks some node of it, lacks a first one, *)
(* and has the one before.                                                 *)
LEMMA OrderedReach ==
    ASSUME NEW N, NEW set, NEW link, NEW begin, NEW rank \in [N -> Int],
           Ordered(N, link, begin, set, rank)
    PROVE  Reach(N, link, begin) = set
<1>1. Reach(N, link, begin) \subseteq set
  <2>1. /\ set \in SUBSET N
        /\ begin \in N => begin \in set
        /\ \A y \in set : link[y] \in N => link[y] \in set
    BY DEF Ordered
  <2> SUFFICES ASSUME NEW w \in Reach(N, link, begin) PROVE w \in set
    OBVIOUS
  <2> QED  BY <2>1, Zenon DEF Reach
<1>2. ASSUME NEW S \in SUBSET N, begin \in N => begin \in S,
             \A y \in S : link[y] \in N => link[y] \in S
      PROVE  set \subseteq S
  <2> DEFINE Bad == {rank[x] - rank[begin] : x \in set \ S}
  <2>1. SUFFICES ASSUME Bad # {} PROVE FALSE
    OBVIOUS
  <2>2. Bad \subseteq Nat
    BY DEF Ordered
  <2>3. PICK n \in Bad : \A m \in Bad : <<m, n>> \notin OpToRel(<, Nat)
    BY <2>1, <2>2, WFMin, NatLessThanWellFounded, Zenon
  <2>4. \A m \in Bad : ~(m < n)
    BY <2>2, <2>3, Zenon DEF OpToRel
  <2>5. PICK x \in set : x \notin S /\ n = rank[x] - rank[begin]
    BY <2>3
  <2>6. x \in N /\ x # begin /\ begin \in set
    BY <1>2, <2>5 DEF Ordered
  <2>7. PICK y \in set : link[y] = x
    BY <2>5, <2>6 DEF Ordered
  <2>8. rank[y] < rank[x] /\ rank[y] \in Int /\ rank[x] \in Int /\ rank[begin] \in Int
    BY <2>5, <2>6, <2>7 DEF Ordered
  <2>9. y \in S
    <3> SUFFICES ASSUME y \notin S PROVE FALSE
      OBVIOUS
    <3>1. rank[y] - rank[begin] \in Bad
      OBVIOUS
    <3> QED  BY <2>4, <2>5, <2>8, <3>1
  <2> QED  BY <1>2, <2>5, <2>6, <2>7, <2>9
<1>3. \A w \in set : w \in N
  BY DEF Ordered
<1>4. set \subseteq Reach(N, link, begin)
  BY <1>2, <1>3, Zenon DEF Reach
<1> QED  BY <1>1, <1>4

(* From a node on, the links lead through those of higher ranks.           *)
LEMMA OrderedReachOn ==
    ASSUME NEW N, NEW set, NEW link, NEW begin, NEW rank \in [N -> Int],
           Ordered(N, link, begin, set, rank), NEW w \in set
    PROVE  Reach(N, link, w) = {x \in set : rank[w] <= rank[x]}
<1> DEFINE rest == {x \in set : rank[w] <= rank[x]}
<1>1. \A x \in rest : x \in set /\ rank[w] <= rank[x] /\ rank[x] \in Int /\ x \in N
  BY DEF Ordered
<1>2. \A x \in set : rank[x] \in Int /\ (rank[w] <= rank[x] => x \in rest)
  BY DEF Ordered
<1> HIDE DEF rest
<1>3. rest \subseteq N /\ w \in rest
  BY <1>1, <1>2
<1>4. \A x \in rest : link[x] \in N => link[x] \in rest /\ rank[x] < rank[link[x]]
  <2> SUFFICES ASSUME NEW x \in rest, link[x] \in N
               PROVE  link[x] \in rest /\ rank[x] < rank[link[x]]
    OBVIOUS
  <2>1. link[x] \in set /\ rank[x] < rank[link[x]]
    BY <1>1 DEF Ordered
  <2> QED  BY <1>1, <1>2, <1>3, <2>1
<1>5. \A x, y \in rest : rank[x] < rank[y] =>
         link[x] \in rest /\ rank[link[x]] <= rank[y]
  <2> SUFFICES ASSUME NEW x \in rest, NEW y \in rest, rank[x] < rank[y]
               PROVE  link[x] \in rest /\ rank[link[x]] <= rank[y]
    OBVIOUS
  <2>1. link[x] \in set /\ rank[link[x]] <= rank[y] /\ link[x] \in N
    BY <1>1 DEF Ordered
  <2> QED  BY <1>4, <2>1
<1>6. \A x \in rest : x # w => \E y \in rest : link[y] = x
  <2> SUFFICES ASSUME NEW x \in rest, x # w PROVE \E y \in rest : link[y] = x
    OBVIOUS
  <2>1. rank[w] < rank[x]
    BY <1>1, <1>2, <1>3 DEF Ordered
  <2>2. x # begin
    BY <1>1, <1>2, <2>1 DEF Ordered
  <2>3. PICK y \in set : link[y] = x
    BY <1>1, <2>2 DEF Ordered
  <2>4. rank[y] < rank[x] /\ rank[y] \in Int
    BY <1>1, <2>3 DEF Ordered
  <2>5. ~(rank[y] < rank[w])
    BY <1>1, <1>2, <2>1, <2>3 DEF Ordered
  <2> QED  BY <1>1, <1>2, <1>3, <2>3, <2>4, <2>5
<1>7. \E e \in rest : link[e] \notin N
  <2>1. PICK e \in set : link[e] \notin N
    BY DEF Ordered
  <2>2. ~(rank[e] < rank[w])
    BY <2>1 DEF Ordered
  <2> QED  BY <1>2, <1>3, <1>1, <2>1, <2>2
<1>8. \A x, y \in rest : rank[x] = rank[y] => x = y
  BY <1>1 DEF Ordered
<1>9. Ordered(N, link, w, rest, rank)
  BY <1>1, <1>3, <1>4, <1>5, <1>6, <1>7, <1>8 DEF Ordered
<1>10. Reach(N, link, w) = rest
  BY <1>9, OrderedReach
<1> QED  BY <1>10 DEF rest

----------------------------------------------------------------------------
(* The list of an asynchronous context.                                    *)

(* The mutex is free exactly when nobody has entered it: the handler takes *)
(* a free one only, and counts from nothing.                               *)
FreeIsNotEntered == owner = "none" <=> enter_count = 0

(* Workers that are added and not removed, in the order of their ranks.    *)
InstalledInOrder(rank) ==
    /\ \A x, y \in installed : rank[x] = rank[y] => x = y
    /\ \A x, y \in installed : rank[x] < rank[y] =>
          /\ next[x] \in installed
          /\ rank[x] < rank[next[x]] /\ rank[next[x]] <= rank[y]
    /\ \A x \in installed :
          next[x] # Null => next[x] \in installed /\ rank[x] < rank[next[x]]
    /\ \A x \in installed : rank[head] <= rank[x]
    /\ \A x \in installed : x = head \/ \E y \in installed : next[y] = x

(* The links run through the workers that are added and not removed, and   *)
(* come to an end.                                                         *)
ListSound ==
    /\ head \in installed \cup {Null}
    /\ head = Null <=> installed = {}
    /\ installed # {} => \E w \in installed : next[w] = Null
    /\ \E rank \in [All -> Nat] : InstalledInOrder(rank)

(* The walk is at a worker that is still in the list, or at its end.       *)
ScanSound == step = "scan" => scan \in installed \cup {Null}

(* How far execute_sync has come, what its worker has done by then, and    *)
(* that the worker is in the list no longer than until it has removed      *)
(* itself.                                                                 *)
SyncSound ==
    /\ other = "idle" => then = "idle"
    /\ other \in {"sync_add", "sync_set"} => then = "sync_set"
    /\ other = "sync_wait" => then = "sync_wait"
    /\ other = "sync_add" => Sync \notin installed /\ ran = 0 /\ sem = 0
    /\ step = "sync" => Sync \in installed /\ ran = 1
    /\ Sync \in installed => then # "idle" \/ step = "sync"
    /\ Sync \in installed /\ step # "sync" => ran = 0 /\ sem = 0
    /\ sem = 1 => ran = 1 /\ then # "idle"
    /\ ran <= 1

(* An alarm is in the pool at the time that was kept, if one was; between  *)
(* the two it is the time of the earliest timer.                           *)
AlarmSound ==
    /\ step = "add" => alarm = Never /\ pending_alarm \in {Never, NextTime}
    /\ alarm # Never /\ pending_alarm # Never => alarm = pending_alarm

IInv ==
    /\ SingleLogicalThread /\ FreeIsNotEntered
    /\ ListSound /\ ScanSound /\ SyncSound /\ AlarmSound
    /\ PendingWorkIsSeen /\ TimersAreSeen

----------------------------------------------------------------------------
(* Where links lead.                                                       *)

(* Null is no worker, and the worker of execute_sync is one.               *)
LEMMA Names == Null \notin All /\ Sync \in All /\ Workers \subseteq All
BY AsyncAssumption DEF All

(* Workers in the order of their ranks, of which the last leads to Null,   *)
(* are where the links lead from the first.                                *)
LEMMA InstalledIsOrdered ==
    ASSUME NEW link \in [All -> All \cup {Null}], NEW begin, NEW set \in SUBSET All,
           NEW rank \in [All -> Nat],
           begin \in set \cup {Null}, set # {} => begin # Null,
           set # {} => \E w \in set : link[w] = Null,
           \A x, y \in set : rank[x] = rank[y] => x = y,
           \A x, y \in set : rank[x] < rank[y] =>
              link[x] \in set /\ rank[link[x]] <= rank[y],
           \A x \in set : link[x] # Null => link[x] \in set /\ rank[x] < rank[link[x]],
           \A x \in set : rank[begin] <= rank[x],
           \A x \in set : x = begin \/ \E y \in set : link[y] = x
    PROVE  Reach(All, link, begin) = set
<1>1. rank \in [All -> Int] /\ Null \notin All
  BY Names
<1>2. \A x \in set : link[x] \in All => link[x] # Null
  BY <1>1
<1>3. Ordered(All, link, begin, set, rank)
  BY <1>1, <1>2 DEF Ordered
<1> QED  BY <1>1, <1>3, OrderedReach

(* The list has the workers that were added and not removed.               *)
LEMMA ListIsInstalled ==
    ASSUME TypeOK, ListSound
    PROVE  From(head) = installed
<1>1. PICK rank \in [All -> Nat] : InstalledInOrder(rank)
  BY DEF ListSound
<1>2. /\ next \in [All -> All \cup {Null}] /\ installed \subseteq All
      /\ Null \notin installed
  BY Names DEF TypeOK
<1>3. /\ head \in installed \cup {Null} /\ (installed # {} => head # Null)
      /\ installed # {} => \E w \in installed : next[w] = Null
  BY <1>2 DEF ListSound
<1>4. /\ \A x, y \in installed : rank[x] < rank[y] =>
            next[x] \in installed /\ rank[next[x]] <= rank[y]
      /\ \A x, y \in installed : rank[x] = rank[y] => x = y
  BY <1>1 DEF InstalledInOrder
<1>5. Reach(All, next, head) = installed
  BY <1>1, <1>2, <1>3, <1>4, InstalledIsOrdered DEF InstalledInOrder
<1> QED  BY <1>5 DEF From

LEMMA ListIsInstalledNext ==
    ASSUME TypeOK', ListSound'
    PROVE  From(head)' = installed'
<1>1. PICK rank \in [All -> Nat] : InstalledInOrder(rank)'
  BY DEF ListSound
<1>2. /\ next' \in [All -> All \cup {Null}] /\ installed' \subseteq All
      /\ Null \notin installed'
  BY Names DEF TypeOK
<1>3. /\ head' \in installed' \cup {Null} /\ (installed' # {} => head' # Null)
      /\ installed' # {} => \E w \in installed' : next'[w] = Null
  BY <1>2 DEF ListSound
<1>4. /\ \A x, y \in installed' : rank[x] < rank[y] =>
            next'[x] \in installed' /\ rank[next'[x]] <= rank[y]
      /\ \A x, y \in installed' : rank[x] = rank[y] => x = y
  BY <1>1 DEF InstalledInOrder
<1>5. Reach(All, next', head') = installed'
  BY <1>1, <1>2, <1>3, <1>4, InstalledIsOrdered DEF InstalledInOrder
<1> QED  BY <1>5 DEF From

(* The end of the list is its last worker.                                 *)
LEMMA LastDoes ==
    ASSUME TypeOK, ListSound, installed # {}
    PROVE  Last \in installed /\ next[Last] = Null
<1>1. From(head) = installed
  BY ListIsInstalled
<1>2. \E w \in From(head) : next[w] = Null
  BY <1>1 DEF ListSound
<1> QED  BY <1>1, <1>2 DEF Last

LEMMA AppendKeepsList ==
    ASSUME TypeOK, ListSound, NEW w \in All, w \notin installed, Appended(w)
    PROVE  ListSound'
<1>1. /\ next \in [All -> All \cup {Null}]
      /\ installed \subseteq All /\ w # Null
      /\ installed' = installed \cup {w}
  BY Names DEF TypeOK, Appended
<1>2. PICK rank \in [All -> Nat] : InstalledInOrder(rank)
  BY DEF ListSound
<1>3. CASE head = Null
  <2>1. head' = w /\ next' = [next EXCEPT ![w] = Null] /\ installed' = {w}
    BY <1>1, <1>3 DEF Appended, ListSound
  <2>2. next'[w] = Null
    BY <1>1, <2>1
  <2>3. InstalledInOrder(rank)'
    BY <1>1, <2>1, <2>2 DEF InstalledInOrder
  <2> QED  BY <1>1, <2>1, <2>2, <2>3 DEF ListSound
<1>4. CASE head # Null
  <2>1. PICK e \in installed : e = Last /\ next[e] = Null
    BY <1>4, LastDoes DEF ListSound
  <2> DEFINE r == [rank EXCEPT ![w] = rank[e] + 1]
  <2>2. /\ head' = head /\ head \in installed
        /\ next' = [next EXCEPT ![e] = w, ![w] = Null]
    BY <1>4, <2>1 DEF Appended, ListSound
  <2>3. /\ next'[e] = w /\ next'[w] = Null /\ e # w
        /\ \A x \in installed : x # e => next'[x] = next[x]
    BY <1>1, <2>1, <2>2
  <2>4. /\ r \in [All -> Nat] /\ r[w] = rank[e] + 1 /\ rank[e] \in Nat
        /\ \A x \in installed : r[x] = rank[x] /\ rank[x] \in Nat
    BY <1>1, <2>1
  <2> HIDE DEF r
  <2>5. \A x \in installed : rank[x] <= rank[e]
    BY <1>1, <1>2, <2>1, <2>4, Names DEF InstalledInOrder
  <2>6. \A x \in installed : r[x] < r[w]
    BY <2>4, <2>5
  <2>7. \A x, y \in installed' : r[x] = r[y] => x = y
    BY <1>1, <1>2, <2>4, <2>6 DEF InstalledInOrder
  <2>8. \A x \in installed :
           x # e => next[x] \in installed /\ rank[x] < rank[next[x]]
    <3> SUFFICES ASSUME NEW x \in installed, x # e
                 PROVE  next[x] \in installed /\ rank[x] < rank[next[x]]
      OBVIOUS
    <3>1. rank[x] < rank[e]
      BY <1>2, <2>1, <2>4, <2>5 DEF InstalledInOrder
    <3> QED  BY <1>2, <2>1, <3>1 DEF InstalledInOrder
  <2>9. \A x \in installed' :
           next'[x] # Null => next'[x] \in installed' /\ r[x] < r[next'[x]]
    BY <1>1, <2>3, <2>4, <2>6, <2>8
  <2>10. \A x, y \in installed' : r[x] < r[y] =>
            /\ next'[x] \in installed'
            /\ r[x] < r[next'[x]] /\ r[next'[x]] <= r[y]
    <3> SUFFICES ASSUME NEW x \in installed', NEW y \in installed', r[x] < r[y]
                 PROVE  /\ next'[x] \in installed'
                        /\ r[x] < r[next'[x]] /\ r[next'[x]] <= r[y]
      OBVIOUS
    <3>1. x \in installed
      BY <1>1, <2>4, <2>6
    <3>2. CASE x = e
      <4>1. y = w
        BY <1>1, <2>4, <2>5, <3>2
      <4> QED  BY <1>1, <2>3, <2>4, <2>6, <3>1, <3>2, <4>1
    <3>3. CASE x # e
      <4>1. next[x] \in installed /\ rank[x] < rank[next[x]] /\ next'[x] = next[x]
        BY <2>3, <2>8, <3>1, <3>3
      <4>2. CASE y = w
        BY <1>1, <2>4, <2>6, <3>1, <4>1, <4>2
      <4>3. CASE y \in installed
        BY <1>1, <1>2, <2>4, <3>1, <4>1, <4>3 DEF InstalledInOrder
      <4> QED  BY <1>1, <4>2, <4>3
    <3> QED  BY <3>2, <3>3
  <2>11. \A x \in installed' : r[head'] <= r[x]
    BY <1>1, <1>2, <2>2, <2>4, <2>6 DEF InstalledInOrder
  <2>12. \A x \in installed' : x = head' \/ \E y \in installed' : next'[y] = x
    <3> SUFFICES ASSUME NEW x \in installed', x # head
                 PROVE  \E y \in installed' : next'[y] = x
      BY <2>2
    <3>1. CASE x = w
      BY <1>1, <2>1, <2>3, <3>1
    <3>2. CASE x \in installed
      <4>1. PICK y \in installed : next[y] = x
        BY <1>2, <3>2 DEF InstalledInOrder
      <4>2. y # e
        BY <1>1, <2>1, <3>2, <4>1, Names
      <4> QED  BY <1>1, <2>3, <4>1, <4>2
    <3> QED  BY <1>1, <3>1, <3>2
  <2>13. InstalledInOrder(r)'
    BY <2>7, <2>9, <2>10, <2>11, <2>12 DEF InstalledInOrder
  <2> QED  BY <1>1, <1>4, <2>2, <2>3, <2>4, <2>13 DEF ListSound
<1> QED  BY <1>3, <1>4

(* What Unlinked does to the links, wherever the worker stands.            *)
LEMMA UnlinkDoes ==
    ASSUME TypeOK, ListSound, NEW w \in installed, Unlinked(w)
    PROVE  /\ installed' = installed \ {w}
           /\ head' = IF head = w THEN next[w] ELSE head
           /\ \A x \in installed :
                 next'[x] = IF head # w /\ next[x] = w THEN next[w] ELSE next[x]
           /\ \A x \in All : next'[x] \in {next[x], next[w]}
<1>1. From(head) = installed /\ installed \subseteq All
  BY ListIsInstalled DEF TypeOK
<1>2. CASE head = w
  BY <1>2, <1>1 DEF Unlinked
<1>3. CASE head # w
  BY <1>3, <1>1 DEF Unlinked, InList
<1> QED  BY <1>2, <1>3

LEMMA UnlinkKeepsList ==
    ASSUME TypeOK, ListSound, NEW w \in installed, Unlinked(w)
    PROVE  ListSound'
<1>1. /\ next \in [All -> All \cup {Null}]
      /\ installed \subseteq All /\ w # Null
      /\ \A x \in installed : x # Null
  BY Names DEF TypeOK
<1>2. PICK rank \in [All -> Nat] : InstalledInOrder(rank)
  BY DEF ListSound
<1>3. /\ installed' = installed \ {w}
      /\ head' = IF head = w THEN next[w] ELSE head
      /\ \A x \in installed :
            next'[x] = IF head # w /\ next[x] = w THEN next[w] ELSE next[x]
  BY UnlinkDoes
<1>4. head \in installed
  BY DEF ListSound
<1>5. \A x \in installed : rank[x] \in Nat
  BY <1>1
<1>6. /\ next[w] # w /\ \A x \in installed : next[x] # head
      /\ next[w] # Null => next[w] \in installed /\ rank[w] < rank[next[w]]
  BY <1>1, <1>2, <1>4, <1>5 DEF InstalledInOrder
<1>7. \A x \in installed' : next'[x] # w
  BY <1>1, <1>3, <1>6
<1>8. \A x \in installed' :
         next'[x] # Null => next'[x] \in installed' /\ rank[x] < rank[next'[x]]
  <2> SUFFICES ASSUME NEW x \in installed', next'[x] # Null
               PROVE  next'[x] \in installed' /\ rank[x] < rank[next'[x]]
    OBVIOUS
  <2>1. CASE head # w /\ next[x] = w
    BY <1>1, <1>2, <1>3, <1>5, <1>6, <2>1 DEF InstalledInOrder
  <2>2. CASE ~(head # w /\ next[x] = w)
    BY <1>1, <1>2, <1>3, <1>6, <1>7, <2>2 DEF InstalledInOrder
  <2> QED  BY <2>1, <2>2
<1>9. \A x, y \in installed' : rank[x] < rank[y] =>
         /\ next'[x] \in installed'
         /\ rank[x] < rank[next'[x]] /\ rank[next'[x]] <= rank[y]
  <2> SUFFICES ASSUME NEW x \in installed', NEW y \in installed', rank[x] < rank[y]
               PROVE  next'[x] # Null /\ rank[next'[x]] <= rank[y]
    BY <1>8
  <2>1. /\ next[x] \in installed /\ rank[next[x]] <= rank[y]
        /\ x \in installed /\ y \in installed
    BY <1>2, <1>3 DEF InstalledInOrder
  <2>2. CASE head # w /\ next[x] = w
    <3>1. rank[w] < rank[y]
      <4>1. y # w /\ rank[w] # rank[y] /\ rank[w] <= rank[y]
        BY <1>2, <1>3, <2>1, <2>2 DEF InstalledInOrder
      <4> QED  BY <1>5, <2>1, <4>1
    <3> QED  BY <1>1, <1>2, <1>3, <2>1, <2>2, <3>1 DEF InstalledInOrder
  <2>3. CASE ~(head # w /\ next[x] = w)
    BY <1>1, <1>3, <2>1, <2>3
  <2> QED  BY <2>2, <2>3
<1>10. head' \in installed' \cup {Null}
  BY <1>1, <1>3, <1>4, <1>6
<1>11. \A x \in installed' : x # head' => \E y \in installed' : next'[y] = x
  <2> SUFFICES ASSUME NEW x \in installed', x # head'
               PROVE  \E y \in installed' : next'[y] = x
    OBVIOUS
  <2>1. x # head
    BY <1>3
  <2>2. PICK y \in installed : next[y] = x
    BY <1>2, <1>3, <2>1 DEF InstalledInOrder
  <2>3. CASE y # w
    BY <1>3, <2>2, <2>3
  <2>4. CASE y = w
    <3>1. w # head
      BY <1>3, <2>2, <2>4
    <3>2. PICK z \in installed : next[z] = w
      BY <1>2, <3>1 DEF InstalledInOrder
    <3>3. z # w /\ next'[z] = x
      BY <1>3, <1>6, <2>2, <2>4, <3>1, <3>2
    <3> QED  BY <1>3, <3>3
  <2> QED  BY <2>3, <2>4
<1>12. ASSUME NEW x \in installed' PROVE head' # Null /\ rank[head'] <= rank[x]
  <2>1. CASE head = w
    <3>1. rank[w] < rank[x]
      BY <1>2, <1>3, <1>5, <1>12, <2>1 DEF InstalledInOrder
    <3> QED  BY <1>1, <1>2, <1>3, <1>12, <2>1, <3>1 DEF InstalledInOrder
  <2>2. CASE head # w
    BY <1>1, <1>2, <1>3, <1>4, <1>12, <2>2 DEF InstalledInOrder
  <2> QED  BY <2>1, <2>2
<1>13. installed' # {} => \E x \in installed' : next'[x] = Null
  <2> SUFFICES ASSUME installed' # {} PROVE \E x \in installed' : next'[x] = Null
    OBVIOUS
  <2>1. PICK e \in installed : next[e] = Null
    BY DEF ListSound
  <2>2. CASE e # w
    BY <1>1, <1>3, <2>1, <2>2
  <2>3. CASE e = w
    <3>1. w # head
      BY <1>3, <1>10, <1>12, <2>1, <2>3
    <3>2. PICK z \in installed : next[z] = w
      BY <1>2, <3>1 DEF InstalledInOrder
    <3>3. z # w /\ next'[z] = Null
      BY <1>3, <1>6, <2>1, <2>3, <3>1, <3>2
    <3> QED  BY <1>3, <3>3
  <2> QED  BY <2>2, <2>3
<1>14. InstalledInOrder(rank)'
  BY <1>2, <1>3, <1>8, <1>9, <1>11, <1>12 DEF InstalledInOrder
<1>15. head' = Null <=> installed' = {}
  BY <1>1, <1>3, <1>10, <1>12
<1> QED  BY <1>10, <1>13, <1>14, <1>15 DEF ListSound

(* Whoever is ahead of a walk stays ahead while another is unlinked.       *)
LEMMA UnlinkLeadsOn ==
    ASSUME TypeOK, ListSound, NEW w \in installed, Unlinked(w),
           NEW x, NEW u \in From(x), u # w
    PROVE  u \in Reach(All, next', x)
<1>1. /\ next \in [All -> All \cup {Null}] /\ Null \notin All
      /\ installed \subseteq All
      /\ From(head) = installed
  BY Names, ListIsInstalled DEF TypeOK
<1>2. u \in All
  BY DEF From, Reach
<1>3. SUFFICES ASSUME NEW S \in SUBSET All, x \in All => x \in S,
                      \A y \in S : next'[y] \in All => next'[y] \in S
               PROVE  u \in S
  BY <1>2, Zenon DEF Reach
<1>4. \A y \in All : next'[y] = next[y] \/ (next[y] = w /\ next'[y] = next[w])
  BY <1>1 DEF Unlinked
<1>5. CASE \E y \in S : next[y] = w /\ next'[y] = next[w]
  <2> DEFINE T == S \cup {w}
  <2>1. /\ T \in SUBSET All /\ (x \in All => x \in T)
        /\ \A y \in T : next[y] \in All => next[y] \in T
    BY <1>1, <1>3, <1>4, <1>5
  <2> HIDE DEF T
  <2>2. u \in T
    BY <2>1, Zenon DEF From, Reach
  <2> QED  BY <2>2 DEF T
<1>6. CASE ~\E y \in S : next[y] = w /\ next'[y] = next[w]
  <2>1. \A y \in S : next[y] \in All => next[y] \in S
    BY <1>3, <1>4, <1>6
  <2> QED  BY <1>3, <2>1, Zenon DEF From, Reach
<1> QED  BY <1>5, <1>6

(* refresh_next_timeout finds a time, or none.                             *)
LEMMA NextTimeType ==
    ASSUME at_time \in [Timers -> Times \cup {Never}]
    PROVE  NextTime \in Times \cup {Never}
<1> DEFINE set == {at_time[t] : t \in Timers} \ {Never}
<1>1. CASE set = {}
  BY <1>1 DEF NextTime
<1>2. CASE set # {}
  <2>1. set \subseteq Nat /\ set \subseteq Times
    BY AsyncAssumption DEF Times
  <2>2. PICK n \in set : \A m \in set : <<m, n>> \notin OpToRel(<, Nat)
    BY <1>2, <2>1, WFMin, NatLessThanWellFounded, Zenon
  <2>3. \A m \in set : ~(m < n)
    BY <2>1, <2>2, Zenon DEF OpToRel
  <2>4. \A m \in set : n <= m
    BY <2>1, <2>3
  <2>5. NextTime = CHOOSE k \in set : \A m \in set : k <= m
    BY <1>2 DEF NextTime
  <2>6. NextTime \in set
    BY <2>4, <2>5
  <2> QED  BY <2>1, <2>6
<1> QED  BY <1>1, <1>2

(* Linking and unlinking keep the types of the list.                       *)
LEMMA LinksKeepTypes ==
    ASSUME TypeOK, NEW w \in All, Appended(w) \/ Unlinked(w)
    PROVE  /\ head' \in All \cup {Null}
           /\ next' \in [All -> All \cup {Null}]
           /\ installed' \subseteq All
<1>1. CASE Appended(w)
  <2> DEFINE e == Last
  <2>1. \/ head' = w /\ next' = [next EXCEPT ![w] = Null]
        \/ head' = head /\ next' = [next EXCEPT ![e] = w, ![w] = Null]
    BY <1>1 DEF Appended
  <2> HIDE DEF e
  <2> QED  BY <1>1, <2>1 DEF Appended, TypeOK
<1>2. CASE Unlinked(w)
  <2>1. \/ head' = next[w] /\ UNCHANGED next
        \/ /\ head' = head
           /\ next' = [x \in All |-> IF InList(x) /\ next[x] = w
                                     THEN next[w] ELSE next[x]]
    BY <1>2 DEF Unlinked
  <2> QED  BY <1>2, <2>1 DEF Unlinked, TypeOK
<1> QED  BY <1>1, <1>2

(* What whoever is inside does to the lists.                               *)
LEMMA UseKeepsTypes ==
    ASSUME TypeOK, NEW by, by \subseteq Timers, Use(by),
           low_pending' \in BOOLEAN
    PROVE  /\ head' \in All \cup {Null} /\ next' \in [All -> All \cup {Null}]
           /\ work_pending' \in [All -> BOOLEAN]
           /\ at_time' \in [Timers -> Times \cup {Never}]
           /\ installed' \subseteq All /\ unseen' \subseteq Timers
<1>1. CASE AddWorker \/ RemoveWorker
  <2>1. PICK w \in All : Appended(w) \/ Unlinked(w)
    BY <1>1 DEF AddWorker, RemoveWorker, All
  <2>2. UNCHANGED <<work_pending, at_time, unseen>>
    BY <1>1 DEF AddWorker, RemoveWorker
  <2> QED  BY <2>1, <2>2, LinksKeepTypes DEF TypeOK
<1>2. CASE AddTimer(by)
  <2>1. UNCHANGED list  BY <1>2 DEF AddTimer
  <2>2. PICK t \in Timers, n \in now .. MaxTime :
            /\ at_time' = [at_time EXCEPT ![t] = n]
            /\ unseen' = unseen \cup (by \cap {t})
    BY <1>2 DEF AddTimer
  <2>3. n \in Times  BY AsyncAssumption DEF TypeOK, Times
  <2> QED  BY <2>1, <2>2, <2>3 DEF list, TypeOK
<1>3. CASE RemoveTimer
  BY <1>3 DEF RemoveTimer, list, TypeOK
<1> QED  BY <1>1, <1>2, <1>3 DEF Use

(* What a worker's do_work does to flags and timers.                       *)
LEMMA DoWorkKeepsTypes ==
    ASSUME TypeOK, NEW p \in [All -> BOOLEAN],
           NEW a \in [Timers -> Times \cup {Never}], DoWork(p, a)
    PROVE  /\ work_pending' \in [All -> BOOLEAN]
           /\ at_time' \in [Timers -> Times \cup {Never}]
           /\ low_pending' \in BOOLEAN
<1>1. CASE work_pending' = p /\ at_time' = a /\ UNCHANGED low_pending
  BY <1>1 DEF TypeOK
<1>2. CASE /\ \E w \in Workers : work_pending' = [p EXCEPT ![w] = TRUE]
           /\ at_time' = a /\ low_pending' = TRUE
  BY <1>2
<1>3. CASE /\ \E t \in Timers, n \in now .. MaxTime :
                 a[t] = Never /\ at_time' = [a EXCEPT ![t] = n]
           /\ work_pending' = p /\ UNCHANGED low_pending
  <2>1. PICK t \in Timers, n \in now .. MaxTime : at_time' = [a EXCEPT ![t] = n]
    BY <1>3
  <2>2. n \in Times  BY AsyncAssumption DEF TypeOK, Times
  <2> QED  BY <1>3, <2>1, <2>2 DEF TypeOK
<1> QED  BY <1>1, <1>2, <1>3 DEF DoWork

----------------------------------------------------------------------------
(* The types.                                                              *)

LEMMA ProcessKeepsTypes ==
    ASSUME TypeOK, Process
    PROVE  TypeOK'
<1> USE DEF TypeOK, core, far, lock, list, work, time, force, call, history,
            jobs, alarms
<1>1. CASE RunTimer
  <2>1. PICK t \in Timers :
            /\ DoWork(work_pending, [at_time EXCEPT ![t] = Never])
            /\ unseen' = unseen \ {t}
    BY <1>1 DEF RunTimer
  <2>2. /\ work_pending' \in [All -> BOOLEAN]
        /\ at_time' \in [Timers -> Times \cup {Never}]
        /\ low_pending' \in BOOLEAN
    BY <2>1, DoWorkKeepsTypes
  <2> QED  BY <1>1, <2>1, <2>2 DEF RunTimer
<1>2. CASE NoTimerReady  BY <1>2 DEF NoTimerReady
<1>3. CASE PassWorker    BY <1>3 DEF PassWorker
<1>4. CASE RunWorker
  <2>1. [work_pending EXCEPT ![scan] = FALSE] \in [All -> BOOLEAN]
    OBVIOUS
  <2>2. /\ work_pending' \in [All -> BOOLEAN]
        /\ at_time' \in [Timers -> Times \cup {Never}]
        /\ low_pending' \in BOOLEAN
    BY <1>4, <2>1, DoWorkKeepsTypes DEF RunWorker
  <2>3. scan' \in All \cup {Null}
    BY <1>4 DEF RunWorker, All
  <2> QED  BY <1>4, <2>2, <2>3 DEF RunWorker
<1>5. CASE RunRemoves
  <2>1. PICK w \in All : Unlinked(w)
    BY <1>5 DEF RunRemoves, All
  <2>2. /\ head' \in All \cup {Null} /\ next' \in [All -> All \cup {Null}]
        /\ installed' \subseteq All
    BY <2>1, LinksKeepTypes
  <2>3. scan' \in All \cup {Null}
    BY <1>5, <2>2 DEF RunRemoves, All
  <2>4. work_pending' \in [All -> BOOLEAN]
    BY <1>5 DEF RunRemoves
  <2> QED  BY <1>5, <2>2, <2>3, <2>4 DEF RunRemoves
<1>6. CASE RunSync
  <2>1. work_pending' \in [All -> BOOLEAN] /\ sem' \in 0 .. 1 /\ ran' \in Nat
    BY <1>6 DEF RunSync, All
  <2> QED  BY <1>6, <2>1 DEF RunSync
<1>7. CASE RemoveSync
  <2>1. /\ head' \in All \cup {Null} /\ next' \in [All -> All \cup {Null}]
        /\ installed' \subseteq All
    BY <1>7, LinksKeepTypes DEF RemoveSync, All
  <2>2. /\ step' = "scan" /\ scan' = next[Sync] /\ corrupt' \in BOOLEAN
        /\ scan' \in All \cup {Null}
    BY <1>7 DEF RemoveSync, All
  <2>3. UNCHANGED <<core, lock, low_pending, work_pending, at_time, alarms,
                    call, missed, unseen>>
    BY <1>7 DEF RemoveSync
  <2> QED  BY <2>1, <2>2, <2>3
<1>8. CASE RefreshPast
  BY <1>8 DEF RefreshPast, Refresh
<1>9. CASE RefreshNoTimer
  BY <1>9 DEF RefreshNoTimer, Refresh, Returns
<1>10. CASE RefreshAlarmStays
  BY <1>10 DEF RefreshAlarmStays, Refresh, Returns
<1>11. CASE RefreshSetsAlarm
  BY <1>11, NextTimeType DEF RefreshSetsAlarm, Refresh
<1>12. CASE AddAlarm
  BY <1>12, NextTimeType DEF AddAlarm, Returns
<1>13. CASE AddAlarmFails
  BY <1>13 DEF AddAlarmFails
<1> QED
  BY <1>1, <1>2, <1>3, <1>4, <1>5, <1>6, <1>7, <1>8, <1>9, <1>10, <1>11,
     <1>12, <1>13 DEF Process

LEMMA HomeKeepsTypes ==
    ASSUME TypeOK, IInv,
           Home \/ Low \/ HomeSetsPending \/ AlarmFires \/ ForceFires \/ Tick
    PROVE  TypeOK'
<1> USE DEF TypeOK, core, far, lock, list, work, time, force, call, history,
            jobs, alarms
<1>1. CASE HomeAcquires  BY <1>1 DEF HomeAcquires
<1>2. CASE HomeUses
  <2>1. Use({}) /\ low_pending' \in BOOLEAN
    BY <1>2 DEF HomeUses
  <2> QED  BY <1>2, <2>1, UseKeepsTypes DEF HomeUses
<1>3. CASE HomeReleases  BY <1>3 DEF HomeReleases, Starts
<1>4. CASE HomeExits     BY <1>4 DEF HomeExits
<1>5. CASE LowProcesses
  <2>1. enter_count = 0 /\ enter_count' = enter_count + 1
    BY <1>5 DEF LowProcesses, GetsLockAlone, IInv, FreeIsNotEntered
  <2>2. enter_count' \in 0 .. 1 /\ missed' \subseteq Tasks
    BY <1>5, <2>1 DEF LowProcesses, Starts
  <2>3. /\ thread' \in {"idle", "inside", "process", "exit"}
        /\ low' \in {"off", "process", "exit"}
        /\ other' \in {"idle", "inside", "exit", "exit_wake", "wake", "store",
                       "sync_add", "sync_set", "sync_wait", "panic"}
        /\ then' \in {"idle", "sync_set", "sync_wait"}
        /\ owner' \in {"none", "home", "other"} /\ enter_count' \in 0 .. 1
        /\ low_pending' \in BOOLEAN /\ corrupt' \in BOOLEAN
    BY <1>5, <2>2 DEF LowProcesses, Starts
  <2>4. /\ head' \in All \cup {Null} /\ next' \in [All -> All \cup {Null}]
        /\ work_pending' \in [All -> BOOLEAN]
        /\ at_time' \in [Timers -> Times \cup {Never}]
        /\ step' \in {"off", "times", "scan", "sync", "add"}
        /\ scan' \in All \cup {Null}
        /\ now' \in Times /\ alarm' \in Times \cup {Never}
        /\ pending_alarm' \in Times \cup {Never}
    BY <1>5, <2>2 DEF LowProcesses, Starts
  <2>5. /\ forced' \subseteq ForceIds
        /\ force_alarm_id' \in ForceIds \cup {NoId}
        /\ new_id' \in ForceIds \cup {NoId}
        /\ sem' \in 0 .. 1 /\ ran' \in Nat
        /\ installed' \subseteq All /\ unseen' \subseteq Timers
        /\ missed' \subseteq Tasks
    BY <1>5, <2>2 DEF LowProcesses, Starts
  <2> QED  BY <2>3, <2>4, <2>5
<1>6. CASE LowGivesUp
  <2>1. missed' \subseteq Tasks
    BY <1>6 DEF LowGivesUp, Due, Waiting, Tasks
  <2>2. /\ low_pending' = FALSE
        /\ UNCHANGED <<core, lock, list, at_time, work, alarms, call, unseen,
                       corrupt>>
    BY <1>6 DEF LowGivesUp
  <2>3. /\ thread' \in {"idle", "inside", "process", "exit"}
        /\ low' \in {"off", "process", "exit"}
        /\ other' \in {"idle", "inside", "exit", "exit_wake", "wake", "store",
                       "sync_add", "sync_set", "sync_wait", "panic"}
        /\ then' \in {"idle", "sync_set", "sync_wait"}
        /\ owner' \in {"none", "home", "other"} /\ enter_count' \in 0 .. 1
        /\ low_pending' \in BOOLEAN /\ corrupt' \in BOOLEAN
    BY <2>1, <2>2
  <2>4. /\ head' \in All \cup {Null} /\ next' \in [All -> All \cup {Null}]
        /\ work_pending' \in [All -> BOOLEAN]
        /\ at_time' \in [Timers -> Times \cup {Never}]
        /\ step' \in {"off", "times", "scan", "sync", "add"}
        /\ scan' \in All \cup {Null}
        /\ now' \in Times /\ alarm' \in Times \cup {Never}
        /\ pending_alarm' \in Times \cup {Never}
    BY <2>1, <2>2
  <2>5. /\ forced' \subseteq ForceIds
        /\ force_alarm_id' \in ForceIds \cup {NoId}
        /\ new_id' \in ForceIds \cup {NoId}
        /\ sem' \in 0 .. 1 /\ ran' \in Nat
        /\ installed' \subseteq All /\ unseen' \subseteq Timers
        /\ missed' \subseteq Tasks
    BY <2>1, <2>2
  <2> QED  BY <2>3, <2>4, <2>5
<1>7. CASE LowExits
  BY <1>7 DEF LowExits, IInv, SingleLogicalThread
<1>8. CASE HomeSetsPending
  <2>1. work_pending' \in [All -> BOOLEAN]
    BY <1>8 DEF HomeSetsPending
  <2> QED  BY <1>8, <2>1 DEF HomeSetsPending
<1>9. CASE AlarmFires       BY <1>9 DEF AlarmFires, Alarmed
<1>10. CASE ForceFires      BY <1>10 DEF ForceFires, Alarmed
<1>11. CASE Tick
  BY <1>11, AsyncAssumption DEF Tick, Times
<1> QED
  BY <1>1, <1>2, <1>3, <1>4, <1>5, <1>6, <1>7, <1>8, <1>9, <1>10, <1>11
  DEF Home, Low

LEMMA OtherKeepsTypes ==
    ASSUME TypeOK, Other
    PROVE  TypeOK'
<1> USE DEF TypeOK, core, far, lock, list, work, time, force, call, history,
            jobs, alarms
<1>1. CASE OtherAcquires  BY <1>1 DEF OtherAcquires
<1>2. CASE OtherUses
  <2>1. Use(Timers) /\ low_pending' \in BOOLEAN
    BY <1>2 DEF OtherUses
  <2> QED  BY <1>2, <2>1, UseKeepsTypes DEF OtherUses
<1>3. CASE OtherReleases  BY <1>3 DEF OtherReleases
<1>4. CASE OtherExits     BY <1>4 DEF OtherExits
<1>5. CASE OtherSetsPending
  <2>1. work_pending' \in [All -> BOOLEAN]
    BY <1>5 DEF OtherSetsPending
  <2> QED  BY <1>5, <2>1 DEF OtherSetsPending
<1>6. CASE OtherForces    BY <1>6 DEF OtherForces
<1>7. CASE OtherStores    BY <1>7 DEF OtherStores
<1>8. CASE SyncCalled     BY <1>8 DEF SyncCalled
<1>9. CASE SyncAdds
  <2>1. /\ head' \in All \cup {Null} /\ next' \in [All -> All \cup {Null}]
        /\ installed' \subseteq All
    BY <1>9, LinksKeepTypes DEF SyncAdds, All
  <2>2. work_pending' \in [All -> BOOLEAN]
    BY <1>9 DEF SyncAdds
  <2> QED  BY <1>9, <2>1, <2>2 DEF SyncAdds
<1>10. CASE SyncSetsPending
  <2>1. work_pending' \in [All -> BOOLEAN]
    BY <1>10 DEF SyncSetsPending
  <2> QED  BY <1>10, <2>1 DEF SyncSetsPending
<1>11. CASE SyncReturns   BY <1>11 DEF SyncReturns
<1> QED
  BY <1>1, <1>2, <1>3, <1>4, <1>5, <1>6, <1>7, <1>8, <1>9, <1>10, <1>11
  DEF Other

----------------------------------------------------------------------------
(* The single logical thread.                                              *)

(* The lock and who is where, which lists, timers and alarms do not touch. *)
OneInside ==
    /\ step # "off" \/ low = "exit" \/ thread \in {"inside", "exit"} =>
          owner = "home" /\ enter_count = 1
    /\ other \in {"inside", "exit", "exit_wake"} => owner = "other"
    /\ low # "off" => thread = "idle"
    /\ step # "off" <=> thread = "process" \/ low = "process"
    /\ FreeIsNotEntered

(* process_under_lock keeps the lock until it returns.                     *)
LEMMA ProcessKeepsLock ==
    ASSUME TypeOK, OneInside, Process
    PROVE  OneInside'
<1> USE DEF OneInside, FreeIsNotEntered, core, far, lock, work
<1>1. step # "off"
  BY DEF Process, RunTimer, NoTimerReady, PassWorker, RunWorker, RunRemoves,
         RunSync, RemoveSync, RefreshPast, RefreshNoTimer, RefreshAlarmStays,
         RefreshSetsAlarm, Refresh, AddAlarm, AddAlarmFails
<1>2. UNCHANGED lock
  BY DEF Process, RunTimer, NoTimerReady, PassWorker, RunWorker, RunRemoves,
         RunSync, RemoveSync, RefreshPast, RefreshNoTimer, RefreshAlarmStays,
         RefreshSetsAlarm, Refresh, AddAlarm, AddAlarmFails
<1>3. \/ UNCHANGED core /\ step' # "off"
      \/ Returns
  BY <1>1 DEF Process, RunTimer, NoTimerReady, PassWorker, RunWorker,
              RunRemoves,
         RunSync, RemoveSync, RefreshPast, RefreshNoTimer, RefreshAlarmStays,
         RefreshSetsAlarm, Refresh, AddAlarm, AddAlarmFails
<1>4. CASE UNCHANGED core /\ step' # "off"
  BY <1>1, <1>2, <1>4
<1>5. CASE Returns
  BY <1>1, <1>2, <1>5 DEF Returns, TypeOK
<1> QED  BY <1>3, <1>4, <1>5

LEMMA OthersKeepLock ==
    ASSUME TypeOK, OneInside,
           \/ Home \/ Low \/ Other
           \/ HomeSetsPending \/ AlarmFires \/ ForceFires \/ Tick
    PROVE  OneInside'
<1> USE DEF OneInside, FreeIsNotEntered, TypeOK, core, far, lock, work
<1>1. CASE Home
  BY <1>1 DEF Home, HomeAcquires, HomeUses, HomeReleases, HomeExits,
              ThreadRuns,
              Starts
<1>2. CASE Low
  BY <1>2 DEF Low, LowProcesses, LowGivesUp, LowExits, GetsLockAlone, Starts
<1>3. CASE Other
  BY <1>3 DEF Other, OtherAcquires, OtherUses, OtherReleases, OtherExits,
              OtherSetsPending, OtherForces, OtherStores, SyncCalled, SyncAdds,
              SyncSetsPending, SyncReturns
<1>4. CASE HomeSetsPending \/ AlarmFires \/ ForceFires \/ Tick
  BY <1>4 DEF HomeSetsPending, AlarmFires, ForceFires, Alarmed, Tick
<1> QED  BY <1>1, <1>2, <1>3, <1>4

----------------------------------------------------------------------------
(* The list.                                                               *)

(* One step of a walk stays in the list, and neither stands still nor      *)
(* comes back to its head.                                                 *)
LEMMA NextIsInstalled ==
    ASSUME TypeOK, ListSound, NEW x \in installed
    PROVE  next[x] \in installed \cup {Null} /\ next[x] # x /\ next[x] # head
<1>1. PICK rank \in [All -> Nat] : InstalledInOrder(rank)
  BY DEF ListSound
<1>2. /\ x \in All /\ x # Null /\ rank[x] \in Nat
      /\ head \in installed /\ head # Null
  BY Names DEF TypeOK, ListSound
<1>3. CASE next[x] = Null
  BY <1>2, <1>3
<1>4. CASE next[x] # Null
  <2>1. next[x] \in installed /\ rank[x] < rank[next[x]] /\ rank[head] <= rank[x]
    BY <1>1, <1>4 DEF InstalledInOrder
  <2>2. rank[head] \in Nat
    BY <1>2 DEF TypeOK
  <2> QED  BY <1>2, <2>1, <2>2
<1> QED  BY <1>3, <1>4

LEMMA UseKeepsList ==
    ASSUME TypeOK, ListSound, NEW by, Use(by)
    PROVE  ListSound' /\ (Sync \in installed' <=> Sync \in installed)
<1>1. From(head) = installed /\ Sync \notin Workers
  BY ListIsInstalled, AsyncAssumption
<1>2. CASE AddWorker
  <2>1. PICK w \in Workers : w \notin installed /\ Appended(w)
    BY <1>1, <1>2 DEF AddWorker, InList
  <2> QED  BY <1>1, <2>1, AppendKeepsList, Names DEF Appended
<1>3. CASE RemoveWorker
  <2>1. PICK w \in Workers : w \in installed /\ Unlinked(w)
    BY <1>1, <1>3 DEF RemoveWorker, InList
  <2> QED  BY <1>1, <2>1, UnlinkKeepsList DEF Unlinked
<1>4. CASE AddTimer(by) \/ RemoveTimer
  BY <1>4 DEF AddTimer, RemoveTimer, list, ListSound, InstalledInOrder
<1> QED  BY <1>2, <1>3, <1>4 DEF Use

(* Who is where while process_under_lock runs.                             *)
LEMMA Alone ==
    ASSUME OneInside, step # "off"
    PROVE  /\ owner = "home" /\ enter_count = 1
           /\ thread # "inside" /\ other \notin {"inside", "exit", "exit_wake"}
BY DEF OneInside

(* The steps that touch the list.                                          *)
Relinks == HomeUses \/ OtherUses \/ RunRemoves \/ RemoveSync \/ SyncAdds

LEMMA OthersKeepLinks ==
    ASSUME Next, ~Relinks
    PROVE  UNCHANGED <<head, next, installed>>
<1> USE DEF jobs, list, Relinks
<1>1. CASE Process
  BY <1>1 DEF Process, RunTimer, NoTimerReady, PassWorker, RunWorker, RunSync,
         RefreshPast, RefreshNoTimer, RefreshAlarmStays,
         RefreshSetsAlarm, Refresh, AddAlarm, AddAlarmFails
<1>2. CASE Home \/ Low
  BY <1>2 DEF Home, HomeAcquires, HomeReleases, HomeExits,
              Low, LowProcesses, LowGivesUp, LowExits
<1>3. CASE Other
  BY <1>3 DEF Other, OtherAcquires, OtherReleases, OtherExits,
              OtherSetsPending, OtherForces, OtherStores, SyncCalled,
              SyncSetsPending, SyncReturns
<1>4. CASE HomeSetsPending \/ AlarmFires \/ ForceFires \/ Tick
  BY <1>4 DEF HomeSetsPending, AlarmFires, ForceFires, Alarmed, Tick
<1> QED  BY <1>1, <1>2, <1>3, <1>4 DEF Next

LEMMA ListKept ==
    ASSUME TypeOK, ListSound, SyncSound, Next
    PROVE  ListSound'
<1>1. CASE HomeUses \/ OtherUses
  BY <1>1, UseKeepsList DEF HomeUses, OtherUses
<1>2. CASE RunRemoves
  <2>1. PICK w \in installed : Unlinked(w)
    BY <1>2, ListIsInstalled DEF RunRemoves, InList
  <2> QED  BY <2>1, UnlinkKeepsList
<1>3. CASE RemoveSync
  BY <1>3, UnlinkKeepsList DEF RemoveSync, SyncSound
<1>4. CASE SyncAdds
  BY <1>4, AppendKeepsList, Names DEF SyncAdds, SyncSound
<1>5. CASE ~Relinks
  BY <1>5, OthersKeepLinks DEF ListSound, InstalledInOrder
<1> QED  BY <1>1, <1>2, <1>3, <1>4, <1>5 DEF Relinks

LEMMA ScanKept ==
    ASSUME TypeOK, OneInside, ListSound, SyncSound, ScanSound, Next
    PROVE  ScanSound'
<1>1. CASE NoTimerReady
  BY <1>1, OthersKeepLinks DEF NoTimerReady, ScanSound, ListSound, jobs, list
<1>2. CASE PassWorker \/ RunWorker
  <2>1. /\ step = "scan" /\ scan # Null
        /\ scan' = next[scan] /\ installed' = installed
    BY <1>2, Names DEF PassWorker, RunWorker, jobs, list
  <2> QED  BY <2>1, NextIsInstalled DEF ScanSound
<1>3. CASE RunRemoves
  <2>1. PICK w \in installed : Unlinked(w)
    BY <1>3, ListIsInstalled DEF RunRemoves, InList
  <2>2. scan \in installed /\ scan' = next'[scan]
    BY <1>3, Names DEF RunRemoves, ScanSound
  <2>3. /\ installed' = installed \ {w}
        /\ next'[scan] = IF head # w /\ next[scan] = w
                         THEN next[w] ELSE next[scan]
    BY <2>1, <2>2, UnlinkDoes
  <2> QED  BY <2>1, <2>2, <2>3, NextIsInstalled DEF ScanSound
<1>4. CASE RemoveSync
  <2>1. /\ Sync \in installed /\ installed' = installed \ {Sync}
        /\ scan' = next[Sync]
    BY <1>4 DEF RemoveSync, Unlinked, SyncSound
  <2> QED  BY <2>1, NextIsInstalled DEF ScanSound
<1>5. CASE step' # "scan"
  BY <1>5 DEF ScanSound
<1>6. CASE UNCHANGED <<step, scan, installed>>
  BY <1>6 DEF ScanSound
<1>7. ASSUME ~NoTimerReady, ~PassWorker, ~RunWorker, ~RunRemoves, ~RemoveSync
      PROVE  step' # "scan" \/ UNCHANGED <<step, scan, installed>>
  <2>1. CASE HomeUses \/ OtherUses \/ SyncAdds
    BY <2>1, Alone DEF HomeUses, OtherUses, SyncAdds, work
  <2>2. CASE ~Relinks
    <3>1. installed' = installed
      BY <2>2, OthersKeepLinks
    <3>2. CASE Process
      BY <1>7, <3>1, <3>2 DEF Process, RunTimer, RunSync,
         RefreshPast, RefreshNoTimer, RefreshAlarmStays, Returns,
         RefreshSetsAlarm, Refresh, AddAlarm, AddAlarmFails, work
    <3>3. CASE Home \/ Low
      BY <2>2, <3>1, <3>3 DEF Home, HomeAcquires, HomeReleases, HomeExits,
                  Low, LowProcesses, LowGivesUp, LowExits, Starts, work, Relinks
    <3>4. CASE Other
      BY <2>2, <3>1, <3>4 DEF Other, OtherAcquires, OtherReleases, OtherExits,
              OtherSetsPending, OtherForces, OtherStores, SyncCalled,
              SyncSetsPending, SyncReturns, work, Relinks
    <3>5. CASE HomeSetsPending \/ AlarmFires \/ ForceFires \/ Tick
      BY <3>1, <3>5 DEF HomeSetsPending, AlarmFires, ForceFires, Alarmed,
                        Tick, work
    <3> QED  BY <3>2, <3>3, <3>4, <3>5 DEF Next
  <2> QED  BY <1>7, <2>1, <2>2 DEF Relinks
<1> QED  BY <1>1, <1>2, <1>3, <1>4, <1>5, <1>6, <1>7


----------------------------------------------------------------------------
(* execute_sync.                                                           *)

(* Whoever adds and removes workers of the user leaves Sync where it is.   *)
LEMMA SyncStays ==
    ASSUME TypeOK, OneInside, ListSound, SyncSound, Next,
           ~RemoveSync, ~SyncAdds
    PROVE  Sync \in installed' <=> Sync \in installed
<1>1. CASE HomeUses \/ OtherUses
  BY <1>1, UseKeepsList DEF HomeUses, OtherUses
<1>2. CASE RunRemoves
  BY <1>2, AsyncAssumption DEF RunRemoves, Unlinked
<1>3. CASE ~Relinks
  BY <1>3, OthersKeepLinks
<1> QED  BY <1>1, <1>2, <1>3 DEF Relinks

LEMMA SyncKept ==
    ASSUME TypeOK, OneInside, ListSound, ScanSound, SyncSound, Next
    PROVE  SyncSound'
<1> USE DEF core, far, work, call
<1>1. CASE RunSync
  <2>1. /\ Sync \in installed /\ step = "scan" /\ step' = "sync"
        /\ sem' = 1 /\ ran' = ran + 1 /\ UNCHANGED <<other, then, installed>>
    BY <1>1, Names DEF RunSync, ScanSound, jobs, list
  <2>2. ran = 0 /\ then # "idle" /\ other # "sync_add"
    BY <2>1 DEF SyncSound
  <2> QED  BY <2>1, <2>2 DEF SyncSound
<1>2. CASE RemoveSync
  <2>1. /\ step = "sync" /\ step' = "scan" /\ Sync \notin installed'
        /\ UNCHANGED <<other, then, sem, ran>>
    BY <1>2 DEF RemoveSync, Unlinked
  <2> QED  BY <2>1 DEF SyncSound
<1>3. CASE SyncAdds
  <2>1. /\ other = "sync_add" /\ other' = "inside" /\ owner = "none"
        /\ UNCHANGED <<then, sem, ran, step>>
    BY <1>3 DEF SyncAdds
  <2>2. step # "sync"
    BY <2>1, Alone
  <2> QED  BY <2>1, <2>2 DEF SyncSound
<1>4. ASSUME ~RunSync, ~RemoveSync, ~SyncAdds PROVE SyncSound'
  <2>1. Sync \in installed' <=> Sync \in installed
    BY <1>4, SyncStays
  <2>2. CASE Process
    <3>1. /\ UNCHANGED <<other, then, sem, ran>>
          /\ step' # "sync" /\ step # "sync"
      BY <1>4, <2>2 DEF Process, RunTimer, NoTimerReady, PassWorker, RunWorker,
         RunRemoves, RefreshPast, RefreshNoTimer, RefreshAlarmStays, Returns,
         RefreshSetsAlarm, Refresh, AddAlarm, AddAlarmFails
    <3> QED  BY <2>1, <3>1 DEF SyncSound
  <2>3. CASE Home \/ Low \/ HomeSetsPending \/ AlarmFires \/ ForceFires \/ Tick
    <3>1. UNCHANGED <<other, then, sem, ran>>
      BY <2>3 DEF Home, HomeAcquires, HomeUses, HomeReleases, HomeExits,
                  Low, LowProcesses, LowGivesUp, LowExits,
                  HomeSetsPending, AlarmFires, ForceFires, Alarmed, Tick
    <3>2. \/ step' = step
          \/ step' = "times" /\ owner # "home"
          \/ step' = "times" /\ thread = "inside"
      BY <2>3 DEF Home, HomeAcquires, HomeUses, HomeReleases, HomeExits,
                  Low, LowProcesses, LowGivesUp, LowExits, Starts, GetsLockAlone,
                  HomeSetsPending, AlarmFires, ForceFires, Alarmed, Tick
    <3>3. step' = step \/ (step = "off" /\ step' = "times")
      BY <3>2, Alone
    <3> QED  BY <2>1, <3>1, <3>3 DEF SyncSound
  <2>4. CASE SyncCalled
    <3>1. other = "idle" /\ UNCHANGED <<sem, step>>
      BY <2>4 DEF SyncCalled
    <3>2. CASE enter_count = 0
      <4>1. other' = "sync_add" /\ then' = "sync_set" /\ ran' = 0
        BY <2>4, <3>2 DEF SyncCalled
      <4>2. step # "sync"
        BY <3>2, Alone
      <4>3. sem = 0 /\ Sync \notin installed
        BY <3>1, <4>2 DEF SyncSound, TypeOK
      <4> QED  BY <2>1, <3>1, <4>1, <4>2, <4>3 DEF SyncSound
    <3>3. CASE enter_count # 0
      <4>1. other' = "panic" /\ UNCHANGED <<then, ran>>
        BY <2>4, <3>3 DEF SyncCalled
      <4> QED  BY <2>1, <3>1, <4>1 DEF SyncSound
    <3> QED  BY <3>2, <3>3
  <2>5. CASE SyncReturns
    <3>1. /\ other' = "idle" /\ then' = "idle" /\ sem = 1 /\ sem' = 0
          /\ UNCHANGED <<ran, step>>
      BY <2>5 DEF SyncReturns
    <3> QED  BY <2>1, <3>1 DEF SyncSound
  <2>6. CASE SyncSetsPending
    <3>1. /\ other = "sync_set" /\ other' = "wake" /\ then' = "sync_wait"
          /\ UNCHANGED <<sem, ran, step>>
      BY <2>6 DEF SyncSetsPending
    <3> QED  BY <2>1, <3>1 DEF SyncSound
  <2>7. CASE OtherAcquires \/ OtherUses \/ OtherReleases \/ OtherExits
             \/ OtherSetsPending \/ OtherForces \/ OtherStores
    <3>1. /\ UNCHANGED <<then, sem, ran, step>>
          /\ \/ other' = other
             \/ other' \in {"inside", "exit", "exit_wake", "wake", "store", then}
      BY <2>7 DEF OtherAcquires, OtherUses, OtherReleases, OtherExits,
                  OtherSetsPending, OtherForces, OtherStores
    <3> QED  BY <2>1, <3>1 DEF SyncSound, TypeOK
  <2> QED  BY <1>4, <2>2, <2>3, <2>4, <2>5, <2>6, <2>7 DEF Next, Other
<1> QED  BY <1>1, <1>2, <1>3, <1>4

----------------------------------------------------------------------------
(* The alarm.                                                              *)

(* The earliest time is no later than any other, and there is none only    *)
(* when nobody waits.                                                      *)
LEMMA NextTimeIsEarliest ==
    ASSUME TypeOK
    PROVE  /\ NextTime \in Times \cup {Never}
           /\ \A t \in Waiting : NextTime # Never /\ NextTime <= at_time[t]
<1> DEFINE set == {at_time[t] : t \in Timers} \ {Never}
<1>1. SUFFICES ASSUME NEW t \in Waiting
               PROVE  NextTime # Never /\ NextTime <= at_time[t]
  BY NextTimeType DEF TypeOK
<1>2. at_time[t] \in set /\ set \subseteq Times /\ set \subseteq Nat
  BY AsyncAssumption DEF Waiting, TypeOK, Times
<1>3. PICK n \in set : \A m \in set : <<m, n>> \notin OpToRel(<, Nat)
  BY <1>2, WFMin, NatLessThanWellFounded, Zenon
<1>4. \A m \in set : ~(m < n)
  BY <1>2, <1>3, Zenon DEF OpToRel
<1>5. \A m \in set : n <= m
  BY <1>2, <1>4
<1>6. NextTime = CHOOSE k \in set : \A m \in set : k <= m
  BY <1>2 DEF NextTime
<1>7. NextTime \in set /\ \A m \in set : NextTime <= m
  BY <1>5, <1>6
<1> QED  BY <1>2, <1>7

LEMMA AlarmKept ==
    ASSUME TypeOK, OneInside, AlarmSound, Next
    PROVE  AlarmSound'
<1> USE DEF time, work, alarms
<1>1. CASE RefreshNoTimer
  BY <1>1 DEF RefreshNoTimer, Returns, AlarmSound
<1>2. CASE RefreshSetsAlarm
  <2>1. /\ alarm' = Never /\ pending_alarm' = NextTime /\ UNCHANGED at_time
    BY <1>2 DEF RefreshSetsAlarm, Refresh, jobs
  <2> QED  BY <2>1 DEF AlarmSound, NextTime
<1>3. CASE AddAlarm
  <2>1. /\ step = "add" /\ step' = "off"
        /\ alarm' = NextTime /\ UNCHANGED pending_alarm
    BY <1>3 DEF AddAlarm, Returns
  <2> QED  BY <2>1 DEF AlarmSound
<1>4. CASE AddAlarmFails
  BY <1>4 DEF AddAlarmFails, AlarmSound
<1>5. CASE AlarmFires \/ ForceFires
  <2>1. /\ pending_alarm' = Never /\ alarm' \in {alarm, Never} /\ UNCHANGED step
    BY <1>5 DEF AlarmFires, ForceFires, Alarmed
  <2> QED  BY <2>1 DEF AlarmSound
<1>6. ASSUME ~RefreshNoTimer, ~RefreshSetsAlarm, ~AddAlarm, ~AddAlarmFails,
             ~AlarmFires, ~ForceFires
      PROVE  /\ UNCHANGED <<alarm, pending_alarm>>
             /\ step' # "add" \/ (step = "add" /\ UNCHANGED at_time)
  <2>1. CASE Process
    BY <1>6, <2>1 DEF Process, RunTimer, NoTimerReady, PassWorker, RunWorker,
         RunRemoves, RunSync, RemoveSync, RefreshPast, RefreshAlarmStays,
         Returns, Refresh
  <2>2. CASE HomeUses \/ OtherUses
    BY <2>2, Alone DEF HomeUses, OtherUses
  <2>3. CASE Home \/ Low
    BY <2>2, <2>3 DEF Home, HomeAcquires, HomeReleases, HomeExits,
                  Low, LowProcesses, LowGivesUp, LowExits, Starts, jobs
  <2>4. CASE Other
    BY <2>2, <2>4 DEF Other, OtherAcquires, OtherReleases, OtherExits,
              OtherSetsPending, OtherForces, OtherStores, SyncCalled, SyncAdds,
              SyncSetsPending, SyncReturns, jobs
  <2>5. CASE HomeSetsPending \/ Tick
    BY <2>5 DEF HomeSetsPending, Tick, jobs
  <2> QED  BY <1>6, <2>1, <2>3, <2>4, <2>5 DEF Next
<1>7. CASE /\ UNCHANGED <<alarm, pending_alarm>>
           /\ step' # "add" \/ (step = "add" /\ UNCHANGED at_time)
  BY <1>7 DEF AlarmSound, NextTime
<1> QED  BY <1>1, <1>2, <1>3, <1>4, <1>5, <1>6, <1>7

----------------------------------------------------------------------------
(* Work that is pending is seen.                                           *)

Seen(w) == low_pending \/ WorkerSeen(w) \/ w \in missed

(* Who comes is unaffected by process_under_lock, while it runs.           *)
LEMMA ProcessKeepsComing ==
    ASSUME TypeOK, OneInside, Process
    PROVE  /\ UNCHANGED <<other, forced, missed>>
           /\ step # "off" /\ thread # "inside" /\ thread' # "inside"
           /\ low_pending => low_pending'
<1>1. step # "off"
  BY DEF Process, RunTimer, NoTimerReady, PassWorker, RunWorker, RunRemoves,
         RunSync, RemoveSync, RefreshPast, RefreshNoTimer, RefreshAlarmStays,
         RefreshSetsAlarm, Refresh, AddAlarm, AddAlarmFails
<1>2. thread # "inside"
  BY <1>1, Alone
<1>3. /\ UNCHANGED <<other, forced, missed>> /\ thread' \in {thread, "exit"}
  BY DEF Process, RunTimer, NoTimerReady, PassWorker, RunWorker, RunRemoves,
         RunSync, RemoveSync, RefreshPast, RefreshNoTimer, RefreshAlarmStays,
         RefreshSetsAlarm, Refresh, AddAlarm, AddAlarmFails, Returns,
         core, far, alarms, force, history
<1>4. low_pending => low_pending'
  BY DEF Process, RunTimer, NoTimerReady, PassWorker, RunWorker, RunRemoves,
         RunSync, RemoveSync, RefreshPast, RefreshNoTimer, RefreshAlarmStays,
         RefreshSetsAlarm, Refresh, AddAlarm, AddAlarmFails, jobs, DoWork
<1> QED  BY <1>1, <1>2, <1>3, <1>4

(* Somebody who would come when the loop stood at its own step would come  *)
(* still: what is left is what the loop itself has passed.                 *)
LEMMA ProcessKeepsWork ==
    ASSUME TypeOK, OneInside, ListSound, ScanSound, SyncSound, Process,
           \A w \in installed : work_pending[w] => Seen(w),
           NEW v \in installed', work_pending'[v]
    PROVE  Seen(v)'
<1> DEFINE Comes == \/ low_pending \/ forced # {} \/ OtherWakes
                    \/ other = "inside" \/ v \in missed
<1>1. Comes => Seen(v)'
  BY ProcessKeepsComing DEF Seen, WorkerSeen, SomebodyComes, OtherWakes
<1>2. step' = "times" => Seen(v)'
  BY DEF Seen, WorkerSeen, SomebodyComes
<1>3. step' = "scan" /\ v \in Reach(All, next', scan') => Seen(v)'
  BY DEF Seen, WorkerSeen, From
<1>4. /\ v \in All /\ work_pending \in [All -> BOOLEAN]
      /\ next \in [All -> All \cup {Null}]
      /\ next' \in [All -> All \cup {Null}]
  BY ProcessKeepsTypes DEF TypeOK
<1>5. ASSUME v \in installed, work_pending[v]
      PROVE  \/ Comes \/ step = "times"
             \/ step = "scan" /\ v \in From(scan)
             \/ step = "sync" /\ v \in From(next[Sync])
  <2>1. Seen(v)
    BY <1>5
  <2>2. thread # "inside"
    BY ProcessKeepsComing
  <2> QED  BY <2>1, <2>2 DEF Seen, WorkerSeen, SomebodyComes
<1> HIDE DEF Comes
<1>6. CASE RunTimer \/ RefreshPast \/ AddAlarmFails
  BY <1>2, <1>6 DEF RunTimer, RefreshPast, AddAlarmFails, work
<1>7. CASE NoTimerReady
  <2>1. /\ step' = "scan" /\ scan' = head /\ UNCHANGED <<head, next, installed>>
    BY <1>7 DEF NoTimerReady, jobs, list
  <2>2. v \in Reach(All, next', scan')
    BY <2>1, ListIsInstalled DEF From
  <2> QED  BY <1>3, <2>1, <2>2
<1>8. CASE PassWorker \/ RunWorker
  <2>1. /\ step = "scan" /\ step' = "scan" /\ scan \in All /\ scan' = next[scan]
        /\ UNCHANGED <<next, installed>>
    BY <1>8, Names DEF PassWorker, RunWorker, jobs, list, TypeOK
  <2>2. CASE PassWorker
    <3>1. v # scan /\ work_pending[v]
      BY <2>2 DEF PassWorker, jobs, list
    <3>2. Comes \/ v \in From(scan)
      BY <1>5, <2>1, <3>1
    <3>3. v \in From(scan) => v \in Reach(All, next, next[scan])
      BY <1>4, <2>1, <3>1, ReachOn DEF From
    <3> QED  BY <1>1, <1>3, <2>1, <3>2, <3>3
  <2>3. CASE RunWorker
    <3>1. \/ low_pending'
          \/ work_pending' = [work_pending EXCEPT ![scan] = FALSE]
      BY <2>3 DEF RunWorker, DoWork
    <3>2. CASE low_pending'
      BY <3>2 DEF Seen
    <3>3. CASE work_pending' = [work_pending EXCEPT ![scan] = FALSE]
      <4>1. v # scan /\ work_pending[v]
        BY <1>4, <3>3
      <4>2. Comes \/ v \in From(scan)
        BY <1>5, <2>1, <4>1
      <4>3. v \in From(scan) => v \in Reach(All, next, next[scan])
        BY <1>4, <2>1, <4>1, ReachOn DEF From
      <4> QED  BY <1>1, <1>3, <2>1, <4>2, <4>3
    <3> QED  BY <3>1, <3>2, <3>3
  <2> QED  BY <1>8, <2>2, <2>3
<1>9. CASE RunRemoves
  <2>1. PICK w \in installed : Unlinked(w)
    BY <1>9, ListIsInstalled DEF RunRemoves, InList
  <2>2. /\ step = "scan" /\ step' = "scan" /\ scan \in All /\ scan' = next'[scan]
        /\ work_pending' = [work_pending EXCEPT ![scan] = FALSE]
    BY <1>9, Names DEF RunRemoves
  <2>3. v \in installed /\ v # w /\ v # scan /\ work_pending[v]
    BY <1>4, <2>1, <2>2 DEF Unlinked
  <2>4. Comes \/ v \in From(scan)
    BY <1>5, <2>2, <2>3
  <2>5. v \in From(scan) => v \in Reach(All, next', scan)
    BY <2>1, <2>3, UnlinkLeadsOn
  <2>6. v \in Reach(All, next', scan) => v \in Reach(All, next', next'[scan])
    BY <1>4, <2>2, <2>3, ReachOn
  <2> QED  BY <1>1, <1>3, <2>2, <2>4, <2>5, <2>6
<1>10. CASE RunSync
  <2>1. /\ step = "scan" /\ step' = "sync" /\ scan = Sync /\ Sync \in All
        /\ work_pending' = [work_pending EXCEPT ![Sync] = FALSE]
        /\ UNCHANGED <<next, installed>>
    BY <1>10, Names DEF RunSync
  <2>2. v # Sync /\ work_pending[v]
    BY <1>4, <2>1
  <2>3. Comes \/ v \in From(Sync)
    BY <1>5, <2>1, <2>2
  <2>4. v \in From(Sync) => v \in Reach(All, next, next[Sync])
    BY <1>4, <2>1, <2>2, ReachOn DEF From
  <2>5. v \in Reach(All, next, next[Sync]) => Seen(v)'
    BY <2>1 DEF Seen, WorkerSeen, From
  <2> QED  BY <1>1, <2>3, <2>4, <2>5
<1>11. CASE RemoveSync
  <2>1. /\ step = "sync" /\ step' = "scan" /\ scan' = next[Sync] /\ Unlinked(Sync)
        /\ UNCHANGED work_pending /\ Sync \in installed
    BY <1>11 DEF RemoveSync, SyncSound
  <2>2. v \in installed /\ v # Sync /\ work_pending[v]
    BY <2>1 DEF Unlinked
  <2>3. Comes \/ v \in From(next[Sync])
    BY <1>5, <2>1, <2>2
  <2>4. v \in From(next[Sync]) => v \in Reach(All, next', next[Sync])
    BY <2>1, <2>2, UnlinkLeadsOn
  <2> QED  BY <1>1, <1>3, <2>1, <2>3, <2>4
<1>12. CASE RefreshNoTimer \/ RefreshAlarmStays \/ RefreshSetsAlarm
  <2>1. step = "scan" /\ scan = Null /\ UNCHANGED <<work_pending, installed>>
    BY <1>12 DEF RefreshNoTimer, RefreshAlarmStays, RefreshSetsAlarm, Refresh,
                 jobs, list
  <2>2. v \notin From(scan)
    BY <2>1, Names, ReachNothing DEF From
  <2> QED  BY <1>1, <1>5, <2>1, <2>2
<1>13. CASE AddAlarm
  <2>1. step = "add" /\ UNCHANGED <<work_pending, installed>>
    BY <1>13 DEF AddAlarm, jobs, list
  <2> QED  BY <1>1, <1>5, <2>1
<1> QED
  BY <1>6, <1>7, <1>8, <1>9, <1>10, <1>11, <1>12, <1>13 DEF Process

LEMMA HomeKeepsWork ==
    ASSUME TypeOK, OneInside, ListSound, Home \/ Low,
           \A w \in installed : work_pending[w] => Seen(w),
           NEW v \in installed', work_pending'[v]
    PROVE  Seen(v)'
<1>1. CASE HomeUses \/ HomeAcquires
  BY <1>1 DEF HomeUses, HomeAcquires, core, Seen, WorkerSeen, SomebodyComes
<1>2. CASE HomeReleases \/ LowProcesses
  BY <1>2 DEF HomeReleases, LowProcesses, Starts, Seen, WorkerSeen,
              SomebodyComes
<1>3. CASE HomeExits \/ LowExits
  <2>1. /\ UNCHANGED <<low_pending, forced, step, other, scan, next, missed,
                       work_pending, installed>>
        /\ thread # "inside" \/ thread' = thread
    BY <1>3 DEF HomeExits, LowExits, jobs, list, alarms, force, work, history,
                far
  <2>2. Seen(v)
    BY <2>1
  <2> QED
    BY <2>1, <2>2 DEF Seen, WorkerSeen, SomebodyComes, OtherWakes, From
<1>4. CASE LowGivesUp
  <2>1. /\ UNCHANGED <<forced, thread, step, other, scan, next, head,
                       work_pending, installed>>
        /\ missed \subseteq missed'
        /\ \A w \in Due : ~WorkerSeen(w) => w \in missed'
    BY <1>4 DEF LowGivesUp, list, alarms, force, work, core, far
  <2>2. v \in Due
    BY <2>1, ListIsInstalled DEF Due, InList, TypeOK
  <2>3. WorkerSeen(v) => WorkerSeen(v)'
    BY <2>1 DEF WorkerSeen, SomebodyComes, OtherWakes, From
  <2> QED  BY <2>1, <2>2, <2>3 DEF Seen
<1> QED  BY <1>1, <1>2, <1>3, <1>4 DEF Home, Low

LEMMA OthersKeepWork ==
    ASSUME TypeOK, OneInside, ListSound,
           Other \/ HomeSetsPending \/ AlarmFires \/ ForceFires \/ Tick,
           \A w \in installed : work_pending[w] => Seen(w),
           NEW v \in installed', work_pending'[v]
    PROVE  Seen(v)'
<1>1. CASE HomeSetsPending \/ AlarmFires \/ ForceFires
  BY <1>1 DEF HomeSetsPending, AlarmFires, ForceFires, Alarmed, Seen
<1>2. CASE OtherAcquires \/ OtherUses \/ SyncAdds
  BY <1>2 DEF OtherAcquires, OtherUses, SyncAdds, core, far, Seen, WorkerSeen
<1>3. CASE OtherSetsPending \/ SyncSetsPending
  BY <1>3 DEF OtherSetsPending, SyncSetsPending, Seen, WorkerSeen,
              SomebodyComes, OtherWakes
<1>4. CASE OtherForces
  BY <1>4 DEF OtherForces, Seen, WorkerSeen, SomebodyComes
<1>5. CASE OtherReleases
  <2>1. UNCHANGED <<low_pending, forced, thread, step, scan, next, missed,
                    work_pending, installed>>
    BY <1>5 DEF OtherReleases, jobs, list, alarms, force, work, history
  <2>2. v \in All /\ InList(v)
    BY <2>1, ListIsInstalled DEF InList, TypeOK
  <2>3. NeedsServicing
    BY <2>1, <2>2 DEF NeedsServicing
  <2> QED
    BY <1>5, <2>3 DEF OtherReleases, Seen, WorkerSeen, SomebodyComes,
                      OtherWakes
<1>6. CASE OtherExits \/ OtherStores \/ SyncCalled \/ SyncReturns \/ Tick
  <2>1. /\ UNCHANGED <<low_pending, forced, thread, step, scan, next, missed,
                       work_pending, installed>>
        /\ OtherWakes => OtherWakes'
        /\ other = "inside" => other' = "inside"
    BY <1>6 DEF OtherExits, OtherStores, SyncCalled, SyncReturns, Tick,
                OtherWakes,
                jobs, list, alarms, force, work, history, core, far
  <2>2. Seen(v)
    BY <2>1
  <2> QED
    BY <2>1, <2>2 DEF Seen, WorkerSeen, SomebodyComes, From
<1> QED  BY <1>1, <1>2, <1>3, <1>4, <1>5, <1>6 DEF Other

----------------------------------------------------------------------------
(* Timers are seen.                                                        *)

TimerLooked(t) ==
    \/ low_pending \/ TimerSeen(t) \/ t \in missed \cup unseen
    \/ StaleAlarm /\ pending_alarm < at_time[t]

LEMMA ProcessKeepsTimers ==
    ASSUME TypeOK, OneInside, AlarmSound, Process,
           NEW t \in Waiting'
    PROVE  TimerLooked(t)'
<1>1. CASE step' # "off"
  BY <1>1 DEF TimerLooked, TimerSeen
<1>2. CASE step' = "off"
  <2>1. RefreshNoTimer \/ RefreshAlarmStays \/ AddAlarm
    BY <1>2 DEF Process, RunTimer, NoTimerReady, PassWorker, RunWorker,
                RunRemoves,
         RunSync, RemoveSync, RefreshPast, RefreshSetsAlarm, Refresh,
         AddAlarmFails, work
  <2>2. UNCHANGED at_time
    BY <2>1 DEF RefreshNoTimer, RefreshAlarmStays, Refresh, AddAlarm, jobs
  <2>3. t \in Waiting /\ NextTime # Never /\ NextTime <= at_time[t]
        /\ NextTime \in Times /\ at_time[t] \in Times /\ Times \subseteq Nat
    BY <2>2, NextTimeIsEarliest, AsyncAssumption DEF Waiting, TypeOK, Times
  <2>4. CASE AddAlarm
    <3>1. alarm' = NextTime
      BY <2>4 DEF AddAlarm
    <3> QED  BY <2>2, <2>3, <3>1 DEF TimerLooked, TimerSeen
  <2>5. CASE RefreshAlarmStays
    <3>1. /\ pending_alarm # Never /\ pending_alarm < NextTime
          /\ UNCHANGED <<alarm, pending_alarm>>
      BY <2>5 DEF RefreshAlarmStays, EarlierAlarm, time
    <3>2. /\ pending_alarm \in Nat /\ at_time[t] \in Nat
          /\ pending_alarm < at_time[t]
      <4>1. pending_alarm \in Nat /\ NextTime \in Nat /\ at_time[t] \in Nat
        BY <2>3, <3>1 DEF TypeOK
      <4> HIDE DEF NextTime
      <4> QED  BY <2>3, <3>1, <4>1
    <3>3. CASE alarm = Never
      BY <1>2, <2>2, <3>1, <3>2, <3>3 DEF TimerLooked, StaleAlarm
    <3>4. CASE alarm # Never
      <4>1. alarm = pending_alarm
        BY <3>1, <3>4 DEF AlarmSound
      <4>2. pending_alarm <= at_time[t]
        BY <3>2
      <4>3. alarm' # Never /\ alarm' <= at_time'[t]
        BY <2>2, <3>1, <3>4, <4>1, <4>2
      <4> QED  BY <4>3 DEF TimerLooked, TimerSeen
    <3> QED  BY <3>3, <3>4
  <2>6. CASE RefreshNoTimer
    BY <2>3, <2>6 DEF RefreshNoTimer
  <2> QED  BY <2>1, <2>4, <2>5, <2>6
<1> QED  BY <1>1, <1>2

(* Where none of the things that look at a timer changes, it is looked at. *)
LEMMA OthersKeepTimers ==
    ASSUME TypeOK, OneInside, Next, ~Process,
           \A u \in Waiting : TimerLooked(u),
           NEW t \in Waiting'
    PROVE  TimerLooked(t)'
<1>1. CASE HomeUses \/ HomeAcquires
  BY <1>1 DEF HomeUses, HomeAcquires, core, TimerLooked, TimerSeen,
              SomebodyComes
<1>2. CASE HomeReleases \/ LowProcesses
  BY <1>2 DEF HomeReleases, LowProcesses, Starts, TimerLooked, TimerSeen,
              SomebodyComes
<1>3. CASE LowGivesUp
  <2>1. /\ UNCHANGED <<forced, thread, step, other, at_time, now, alarm,
                       pending_alarm, unseen>>
        /\ missed \subseteq missed'
        /\ \A u \in Waiting : ~TimerSeen(u) => u \in missed'
    BY <1>3 DEF LowGivesUp, alarms, time, force, work, core, far
  <2>2. t \in Waiting
    BY <2>1 DEF Waiting
  <2>3. TimerSeen(t) => TimerSeen(t)'
    BY <2>1 DEF TimerSeen, SomebodyComes, OtherWakes, Ready
  <2> QED  BY <2>1, <2>2, <2>3 DEF TimerLooked
<1>4. CASE HomeSetsPending \/ AlarmFires \/ ForceFires
  BY <1>4 DEF HomeSetsPending, AlarmFires, ForceFires, Alarmed, TimerLooked
<1>5. CASE OtherUses
  <2>1. /\ UNCHANGED <<low_pending, forced, thread, step, other, now, alarm,
                       pending_alarm, missed>>
        /\ Use(Timers)
    BY <1>5 DEF OtherUses, alarms, time, force, work, core, far
  <2>2. t \in Timers /\ at_time'[t] # Never
    BY DEF Waiting
  <2>3. t \in unseen' \/ (t \in Waiting /\ at_time'[t] = at_time[t]
                          /\ (t \in unseen => t \in unseen'))
    <3>1. CASE AddWorker \/ RemoveWorker
      BY <2>2, <3>1 DEF AddWorker, RemoveWorker, Waiting
    <3>2. CASE AddTimer(Timers)
      <4>1. PICK s \in Timers, n \in now .. MaxTime :
                /\ at_time' = [at_time EXCEPT ![s] = n]
                /\ unseen' = unseen \cup (Timers \cap {s})
        BY <3>2 DEF AddTimer
      <4> QED  BY <2>2, <4>1 DEF Waiting, TypeOK
    <3>3. CASE RemoveTimer
      <4>1. PICK s \in Timers : /\ at_time' = [at_time EXCEPT ![s] = Never]
                                /\ unseen' = unseen \ {s}
        BY <3>3 DEF RemoveTimer
      <4> QED  BY <2>2, <4>1 DEF Waiting, TypeOK
    <3> QED  BY <2>1, <3>1, <3>2, <3>3 DEF Use
  <2>4. CASE t \in unseen'
    BY <2>4 DEF TimerLooked
  <2>5. CASE /\ t \in Waiting /\ at_time'[t] = at_time[t]
             /\ t \in unseen => t \in unseen'
    <3>1. TimerLooked(t)
      BY <2>5
    <3>2. TimerSeen(t) => TimerSeen(t)'
      BY <2>1, <2>5 DEF TimerSeen, SomebodyComes, OtherWakes, Ready
    <3>3. StaleAlarm => StaleAlarm'
      BY <2>1 DEF StaleAlarm
    <3> QED  BY <2>1, <2>5, <3>1, <3>2, <3>3 DEF TimerLooked
  <2> QED  BY <2>3, <2>4, <2>5
<1>6. CASE OtherSetsPending \/ SyncSetsPending
  BY <1>6 DEF OtherSetsPending, SyncSetsPending, TimerLooked, TimerSeen,
              SomebodyComes, OtherWakes
<1>7. CASE OtherForces
  BY <1>7 DEF OtherForces, TimerLooked, TimerSeen, SomebodyComes
<1>8. CASE \/ HomeExits \/ LowExits \/ OtherAcquires \/ OtherReleases
           \/ OtherExits \/ OtherStores \/ SyncCalled \/ SyncAdds \/ SyncReturns
           \/ Tick
  <2>1. /\ UNCHANGED <<low_pending, forced, step, at_time, alarm, pending_alarm,
                       missed, unseen>>
        /\ thread = "inside" => thread' = "inside"
        /\ OtherWakes => OtherWakes'
    BY <1>8 DEF HomeExits, LowExits, OtherAcquires, OtherReleases, OtherExits,
                OtherStores, SyncCalled, SyncAdds, SyncReturns, Tick, OtherWakes,
                jobs, alarms, time, force, work, history, core, far
  <2>2. t \in Waiting /\ TimerLooked(t)
    BY <2>1 DEF Waiting
  <2>3. other = "inside" /\ Ready(t) =>
           OtherWakes' \/ (other' = "inside" /\ Ready(t)')
    <3>1. CASE OtherReleases
      BY <2>2, <3>1 DEF OtherReleases, NeedsServicing, OtherWakes, Waiting
    <3>2. CASE Tick
      <4>1. other' = other /\ now' = now + 1 /\ now \in Nat
        BY <3>2, AsyncAssumption DEF Tick, core, far, TypeOK, Times
      <4>2. at_time[t] = Never \/ at_time[t] \in Nat
        BY <2>2 DEF Waiting, TypeOK, Times
      <4> QED  BY <2>1, <4>1, <4>2 DEF Ready
    <3>3. CASE \/ HomeExits \/ LowExits \/ OtherAcquires
               \/ OtherExits \/ OtherStores \/ SyncCalled \/ SyncAdds \/ SyncReturns
      <4>1. UNCHANGED now /\ (other = "inside" => other' = "inside")
        BY <3>3 DEF HomeExits, LowExits, OtherAcquires, OtherExits,
                OtherStores, SyncCalled, SyncAdds, SyncReturns, alarms, far
      <4> QED  BY <2>1, <4>1 DEF Ready
    <3> QED  BY <1>8, <3>1, <3>2, <3>3
  <2>4. TimerSeen(t) => TimerSeen(t)'
    BY <2>1, <2>3 DEF TimerSeen, SomebodyComes
  <2>5. StaleAlarm => StaleAlarm'
    BY <2>1 DEF StaleAlarm
  <2> QED  BY <2>1, <2>2, <2>4, <2>5 DEF TimerLooked
<1> QED
  BY <1>1, <1>2, <1>3, <1>4, <1>5, <1>6, <1>7, <1>8 DEF Next, Home, Low, Other

LEMMA InvariantStarts ==
    ASSUME Init
    PROVE  IInv
<1>1. TypeOK
  <2>1. /\ next \in [All -> All \cup {Null}] /\ work_pending \in [All -> BOOLEAN]
        /\ at_time \in [Timers -> Times \cup {Never}]
    BY DEF Init
  <2>2. now \in Times
    BY AsyncAssumption DEF Init, Times
  <2>3. /\ thread \in {"idle", "inside", "process", "exit"}
        /\ low \in {"off", "process", "exit"}
        /\ other \in {"idle", "inside", "exit", "exit_wake", "wake", "store",
                       "sync_add", "sync_set", "sync_wait", "panic"}
        /\ then \in {"idle", "sync_set", "sync_wait"}
        /\ owner \in {"none", "home", "other"} /\ enter_count \in 0 .. 1
        /\ low_pending \in BOOLEAN /\ corrupt \in BOOLEAN
    <3>1. /\ thread = "idle" /\ low = "off" /\ other = "idle" /\ then = "idle"
          /\ owner = "none" /\ enter_count = 0
      BY DEF Init
    <3>2. low_pending \in BOOLEAN /\ corrupt \in BOOLEAN
      BY Zenon DEF Init
    <3> QED  BY <3>1, <3>2
  <2>4. /\ head \in All \cup {Null} /\ next \in [All -> All \cup {Null}]
        /\ work_pending \in [All -> BOOLEAN]
        /\ at_time \in [Timers -> Times \cup {Never}]
        /\ step \in {"off", "times", "scan", "sync", "add"}
        /\ scan \in All \cup {Null}
        /\ now \in Times /\ alarm \in Times \cup {Never}
        /\ pending_alarm \in Times \cup {Never}
    BY <2>1, <2>2 DEF Init
  <2>5. /\ forced \subseteq ForceIds
        /\ force_alarm_id \in ForceIds \cup {NoId}
        /\ new_id \in ForceIds \cup {NoId}
        /\ sem \in 0 .. 1 /\ ran \in Nat
        /\ installed \subseteq All /\ unseen \subseteq Timers
        /\ missed \subseteq Tasks
    BY <2>1, <2>2 DEF Init
  <2> QED  BY <2>3, <2>4, <2>5 DEF TypeOK
<1>2. OneInside
  BY DEF Init, OneInside, FreeIsNotEntered
<1>3. ListSound
  <2>1. head = Null /\ installed = {}
    BY DEF Init
  <2>2. [x \in All |-> 0] \in [All -> Nat] /\ InstalledInOrder([x \in All |-> 0])
    BY <2>1 DEF InstalledInOrder
  <2> QED  BY <2>1, <2>2 DEF ListSound
<1>4. ScanSound /\ SyncSound /\ AlarmSound
  BY DEF Init, ScanSound, SyncSound, AlarmSound
<1>5. Due = {} /\ Waiting = {}
  BY DEF Init, Due, Waiting
<1> QED
  BY <1>1, <1>2, <1>3, <1>4, <1>5 DEF IInv, SingleLogicalThread, OneInside,
     PendingWorkIsSeen, TimersAreSeen

(* With the list sound, work is seen when it is seen for every worker that *)
(* was added and not removed.                                              *)
LEMMA SeenByInstalled ==
    ASSUME TypeOK, ListSound
    PROVE  PendingWorkIsSeen <=> \A w \in installed : work_pending[w] => Seen(w)
<1>1. Due = {w \in installed : work_pending[w]}
  BY ListIsInstalled DEF Due, InList, TypeOK
<1> QED  BY <1>1 DEF PendingWorkIsSeen, Seen

LEMMA StepKeepsWork ==
    ASSUME IInv, Next
    PROVE  \A v \in installed' : work_pending'[v] => Seen(v)'
<1>1. TypeOK /\ OneInside /\ ListSound /\ ScanSound /\ SyncSound
  BY DEF IInv, SingleLogicalThread, OneInside
<1>2. \A w \in installed : work_pending[w] => Seen(w)
  BY <1>1, SeenByInstalled DEF IInv
<1> QED
  BY <1>1, <1>2, ProcessKeepsWork, HomeKeepsWork, OthersKeepWork DEF Next

LEMMA StepKeepsTimers ==
    ASSUME IInv, Next
    PROVE  \A t \in Waiting' : TimerLooked(t)'
<1>1. TypeOK /\ OneInside /\ AlarmSound
  BY DEF IInv, SingleLogicalThread, OneInside
<1>2. \A t \in Waiting : TimerLooked(t)
  BY DEF IInv, TimersAreSeen, TimerLooked
<1> QED
  BY <1>1, <1>2, ProcessKeepsTimers, OthersKeepTimers

LEMMA Inductive ==
    ASSUME IInv, [Next]_vars
    PROVE  IInv'
<1>1. /\ TypeOK /\ OneInside /\ ListSound /\ ScanSound /\ SyncSound /\ AlarmSound
  BY DEF IInv, SingleLogicalThread, OneInside
<1>2. CASE Next
  <2>1. TypeOK'
    BY <1>1, <1>2, ProcessKeepsTypes, HomeKeepsTypes, OtherKeepsTypes DEF Next
  <2>2. OneInside'
    BY <1>1, <1>2, ProcessKeepsLock, OthersKeepLock DEF Next
  <2>3. ListSound' /\ ScanSound' /\ SyncSound' /\ AlarmSound'
    BY <1>1, <1>2, ListKept, ScanKept, SyncKept, AlarmKept
  <2>4. PendingWorkIsSeen'
    <3>1. \A v \in installed' : work_pending'[v] => Seen(v)'
      BY <1>2, StepKeepsWork
    <3>2. Due' = {w \in installed' : work_pending'[w]}
      BY <2>1, <2>3, ListIsInstalledNext DEF Due, InList, TypeOK
    <3> QED  BY <3>1, <3>2 DEF PendingWorkIsSeen, Seen
  <2>5. TimersAreSeen'
    BY <1>2, StepKeepsTimers DEF TimersAreSeen, TimerLooked
  <2> QED  BY <2>1, <2>2, <2>3, <2>4, <2>5 DEF IInv, SingleLogicalThread,
                                               OneInside
<1>3. CASE UNCHANGED vars
  <2> USE <1>3 DEF vars, core, far, lock, list, work, time, force, call, history,
                   jobs, alarms
  <2>1. TypeOK'
    BY <1>1 DEF TypeOK
  <2>2. OneInside'
    BY <1>1 DEF OneInside, FreeIsNotEntered
  <2>3. ListSound' /\ ScanSound'
    BY <1>1 DEF ListSound, InstalledInOrder, ScanSound
  <2>4. SyncSound' /\ AlarmSound'
    BY <1>1 DEF SyncSound, AlarmSound, NextTime
  <2>5. PendingWorkIsSeen' <=> PendingWorkIsSeen
    BY DEF PendingWorkIsSeen, Due, InList, From, WorkerSeen, SomebodyComes,
           OtherWakes
  <2>6. TimersAreSeen' <=> TimersAreSeen
    BY DEF TimersAreSeen, Waiting, TimerSeen, SomebodyComes, OtherWakes, Ready,
           StaleAlarm
  <2> QED
    BY <2>1, <2>2, <2>3, <2>4, <2>5, <2>6 DEF IInv, SingleLogicalThread,
                                              OneInside
<1> QED  BY <1>2, <1>3

----------------------------------------------------------------------------

(* The inductive invariant holds in every reachable state.                 *)
THEOREM InvariantHolds == Spec => []IInv
<1>1. Init => IInv               BY InvariantStarts
<1>2. IInv /\ [Next]_vars => IInv'  BY Inductive
<1> QED  BY <1>1, <1>2, PTL DEF Spec

(* Whoever touches the lists or calls workers has the lock and is the only *)
(* one: the handler never comes in on top of the thread it preempted, nor  *)
(* beside the other core (async_context.h 19-23, threadsafe_background.c   *)
(* 288-295).                                                               *)
THEOREM ContextIsSingleThread == Spec => []SingleLogicalThread
<1>1. IInv => SingleLogicalThread  BY DEF IInv
<1> QED  BY <1>1, InvariantHolds, PTL

(* A worker that is set pending is looked at, whoever set it and whichever *)
(* step of the loop, the handler or the other core's wake-up it falls      *)
(* between, but for what the handler left behind when it gave up           *)
(* (threadsafe_background.c 44-71, 105-135, 286-295).                      *)
THEOREM PendingWorkIsNotForgotten == Spec => []PendingWorkIsSeen
<1>1. IInv => PendingWorkIsSeen  BY DEF IInv
<1> QED  BY <1>1, InvariantHolds, PTL

(* A timer has an alarm no later than its time or somebody who will still  *)
(* look at it, but for what the handler left behind, what the other core   *)
(* added unseen, and times after an alarm that was cancelled and is still  *)
(* thought pending (threadsafe_background.c 244-279).                      *)
THEOREM TimersAreNotForgotten == Spec => []TimersAreSeen
<1>1. IInv => TimersAreSeen  BY DEF IInv
<1> QED  BY <1>1, InvariantHolds, PTL

(* The links lead through the workers that were added and not removed, and *)
(* come to an end, though workers remove themselves and each other while   *)
(* the list is walked (async_context_base.c 34-57, 98-103).                *)
THEOREM ListIsWhole == Spec => []ListHoldsTheInstalled
<1>1. IInv => ListHoldsTheInstalled
  <2> SUFFICES ASSUME IInv PROVE ListHoldsTheInstalled
    OBVIOUS
  <2>1. TypeOK /\ ListSound /\ SyncSound
    BY DEF IInv, SingleLogicalThread
  <2> QED  BY <2>1, ListIsInstalled DEF ListHoldsTheInstalled, ListSound,
                                        SyncSound
<1> QED  BY <1>1, InvariantHolds, PTL

(* The function given to execute_sync runs once, before the caller goes    *)
(* on, whatever the flag in its frame held (threadsafe_background.c        *)
(* 97-102, 142-150).                                                       *)
THEOREM SyncFunctionRunsOnce == Spec => []SyncRunsOnce
<1>1. IInv => SyncRunsOnce  BY DEF IInv, SyncSound, SyncRunsOnce
<1> QED  BY <1>1, InvariantHolds, PTL

----------------------------------------------------------------------------
(* The invariant.                                                          *)

(* The free list, among the lists that slots can be in.                    *)
Free == CHOOSE l : l \notin Irqs
Lists == Irqs \cup {Free}

HeadOf(l) == IF l = Free THEN free_head ELSE vtable[l]
Link == [s \in Slots |-> slot[s].link]
Members(where, l) == {s \in Slots : where[s] = l}

(* Each slot is in one list, at its rank.                                  *)
ListsOrdered(where, rank) ==
    \A l \in Lists : Ordered(Slots, Link, HeadOf(l), Members(where, l), rank)

(* Only the slot being executed waits to leave, and nothing is behind it.  *)
CodeSound(where) ==
    \A s \in Slots :
        /\ where[s] = Free => slot[s].inst3 # Leave
        /\ where[s] \in Irqs =>
              /\ slot[s].first <=> s = vtable[where[s]]
              /\ slot[s].link \in Slots => slot[s].inst3 = slot[s].link
              /\ slot[s].link \notin Slots =>
                    \/ slot[s].inst3 = Pop /\ slot[s].link = End
                    \/ /\ slot[s].inst3 = Leave /\ slot[s].link = Trash(s)
                       /\ run[where[s]] = [at |-> s, handler |-> slot[s].handler]

(* No handler is in a chain twice, and one that runs is where it is called. *)
HandlersSound(where) ==
    \A s \in Slots : where[s] \in Irqs =>
        /\ slot[s].handler \in Handlers
        /\ slot[s].handler = run[where[s]].handler => s = run[where[s]].at
        /\ \A t \in Slots :
              where[t] = where[s] /\ slot[t].handler = slot[s].handler => t = s

PrioritiesSorted(where, rank) ==
    \A s, t \in Slots :
        /\ where[s] \in Irqs /\ where[t] = where[s]
        /\ rank[s] < rank[t] /\ slot[t].inst3 # Leave
        => slot[s].priority >= slot[t].priority

(* What an interrupt still has to call is further on.                      *)
RunsSound(where, rank) ==
    \A q \in Irqs :
        /\ run[q].at \in Slots => InException(q) /\ where[run[q].at] = q
        /\ \A d \in due[q] :
              /\ run[q].at \in Slots
              /\ \E t \in Slots :
                    /\ where[t] = q /\ slot[t].handler = d
                    /\ rank[run[q].at] < rank[t]

Sound(where, rank) ==
    /\ ListsOrdered(where, rank)
    /\ CodeSound(where)
    /\ HandlersSound(where)
    /\ PrioritiesSorted(where, rank)
    /\ RunsSound(where, rank)

IrqInv ==
    /\ IrqTypeOK
    /\ \E where \in [Slots -> Lists], rank \in [Slots -> Int] : Sound(where, rank)

(* The free list is no chain of an interrupt.                              *)
LEMMA FreeIsNoIrq == Free \notin Irqs
BY NoSetContainsEverything DEF Free

(* What slots, ends, instructions and handlers are apart from each other;  *)
(* in a table of at most 7 slots the overwritten link is never a slot      *)
(* number.                                                                 *)
LEMMA Numbers ==
    /\ Slots \subseteq Nat /\ End \notin Slots /\ End \in Int
    /\ \A s \in Slots : Trash(s) \in Nat \ Slots
    /\ Pop \notin Slots /\ Leave \notin Slots /\ NoCode \notin Slots
    /\ Pop # Leave /\ Leave # NoCode /\ Pop # NoCode
    /\ Unhandled \notin Slots /\ Unhandled \notin Handlers
    /\ \A h \in Handlers : h \notin Slots
    /\ Priorities \subseteq Nat
<1>1. /\ Slots \subseteq Nat /\ End \notin Slots /\ End \in Int
      /\ \A s \in Slots : Trash(s) \in Nat \ Slots
  BY IrqChainAssumption DEF Slots, End, Trash
<1>2. \A x : x \notin Nat => x \notin Slots
  BY <1>1
<1>3. Pop # Leave /\ Leave # NoCode /\ Pop # NoCode
  BY IrqChainAssumption
<1> QED  BY <1>1, <1>2, <1>3, IrqChainAssumption

(* The members of a list are the slots that are in it.                     *)
LEMMA MembersOf ==
    ASSUME NEW where \in [Slots -> Lists]
    PROVE  /\ \A l : Members(where, l) \subseteq Slots
           /\ \A s \in Slots : \A l : s \in Members(where, l) <=> where[s] = l
           /\ \A s \in Slots : where[s] \in Lists
BY DEF Members

----------------------------------------------------------------------------
(* What the actions do to the lists.                                       *)

(* Where links and heads stay the same, or lead nowhere as before, so do   *)
(* the lists.                                                              *)
LEMMA ListsKept ==
    ASSUME NEW where \in [Slots -> Lists], NEW rank \in [Slots -> Int],
           ListsOrdered(where, rank),
           \A s \in Slots : Same(Slots, slot'[s].link, slot[s].link),
           \A q \in Irqs : Same(Slots, vtable'[q], vtable[q]),
           free_head' = free_head
    PROVE  ListsOrdered(where, rank)'
<1> SUFFICES ASSUME NEW l \in Lists
             PROVE  Ordered(Slots, Link', HeadOf(l)', Members(where, l), rank)
  BY DEF ListsOrdered, Members, Slots
<1>1. Ordered(Slots, Link, HeadOf(l), Members(where, l), rank)
  BY DEF ListsOrdered
<1>2. Same(Slots, HeadOf(l)', HeadOf(l))
  BY FreeIsNoIrq DEF HeadOf, Lists, Same
<1>3. \A x \in Members(where, l) : Same(Slots, Link'[x], Link[x])
  BY DEF Link, Members, Slots
<1> QED  BY <1>1, <1>2, <1>3, OrderedFrame

(* A slot leaves a chain for the free list.                                *)
LEMMA SlotFreed ==
    ASSUME NEW where \in [Slots -> Lists], NEW rank \in [Slots -> Int],
           ListsOrdered(where, rank),
           NEW w \in Slots, NEW q \in Irqs, where[w] = q,
           slot'[w].link = free_head, free_head' = w,
           \A s \in Slots \ {w} :
              /\ slot[s].link = w => Same(Slots, slot'[s].link, slot[w].link)
              /\ slot[s].link # w => Same(Slots, slot'[s].link, slot[s].link),
           vtable[q] = w => Same(Slots, vtable'[q], slot[w].link),
           vtable[q] # w => Same(Slots, vtable'[q], vtable[q]),
           \A r \in Irqs \ {q} : vtable'[r] = vtable[r],
           NEW where2 \in [Slots -> Lists], where2[w] = Free,
           \A s \in Slots \ {w} : where2[s] = where[s]
    PROVE  \E rank2 \in [Slots -> Int] :
              /\ \A s \in Slots \ {w} : rank2[s] = rank[s]
              /\ ListsOrdered(where2, rank2)'
<1>0. q \in Lists /\ Free \in Lists /\ Free # q
  BY FreeIsNoIrq DEF Lists
<1>b. PICK rank2 : rank2 = [rank EXCEPT ![w] =
                              IF free_head \in Slots THEN rank[free_head] - 1 ELSE 0]
  OBVIOUS
<1>1. rank2 \in [Slots -> Int] /\ \A s \in Slots \ {w} : rank2[s] = rank[s]
  BY <1>b
<1>2. \A l \in Lists : Ordered(Slots, Link, HeadOf(l), Members(where, l), rank)
  BY DEF ListsOrdered
<1>3. \A s \in Slots : Link[s] = slot[s].link /\ Link'[s] = slot'[s].link
  BY DEF Link, Slots
<1>4. /\ HeadOf(Free) = free_head /\ HeadOf(Free)' = free_head' 
      /\ \A r \in Irqs : HeadOf(r) = vtable[r] /\ HeadOf(r)' = vtable'[r]
  BY FreeIsNoIrq DEF HeadOf
<1>5. /\ Members(where2, Free) = Members(where, Free) \cup {w}
      /\ \A r \in Irqs : Members(where2, r) = Members(where, r) \ {w}
  <2>1. \A l : Members(where2, l) =
              IF l = Free THEN Members(where, l) \cup {w} ELSE Members(where, l) \ {w}
    BY <1>0 DEF Members
  <2> QED  BY <2>1, FreeIsNoIrq
<1>6. w \in Members(where, q) /\ w \notin Members(where, Free)
  BY <1>0, MembersOf
<1>7. Ordered(Slots, Link', HeadOf(Free)', Members(where2, Free), rank2)
  <2>1. \A x \in Members(where, Free) :
           x \in Slots /\ x # w /\ (Link[x] \in Slots => Link[x] \in Members(where, Free))
    BY <1>0, <1>2, <1>6, MembersOf DEF Ordered
  <2>2. \A x \in Members(where, Free) : Same(Slots, Link'[x], Link[x])
    BY <1>3, <1>6, <2>1 DEF Same
  <2>3. \A x \in Members(where, Free) : rank2[x] = rank[x] /\ rank2[w] < rank[x]
    <3>0. SUFFICES ASSUME NEW x \in Members(where, Free)
                   PROVE  rank2[x] = rank[x] /\ rank2[w] < rank[x]
      OBVIOUS
    <3>1. free_head \in Slots /\ rank[free_head] <= rank[x]
      BY <1>0, <1>2, <1>4, MembersOf DEF Ordered
    <3>2. rank2[w] = rank[free_head] - 1
      BY <1>b, <3>1
    <3>3. rank[free_head] \in Int /\ rank[x] \in Int
      BY <2>1, <3>1
    <3>4. rank2[x] = rank[x]
      BY <1>1, <2>1
    <3> QED  BY <3>1, <3>2, <3>3, <3>4
  <2>4. Ordered(Slots, Link, free_head, Members(where, Free), rank)
    BY <1>0, <1>2, <1>4
  <2>5. Same(Slots, Link'[w], free_head)
    BY <1>3 DEF Same
  <2>6. Ordered(Slots, Link', w, Members(where, Free) \cup {w}, rank2)
    BY <1>1, <1>6, <2>2, <2>3, <2>4, <2>5, OrderedPush
  <2> QED  BY <1>4, <1>5, <2>6
<1>8. Ordered(Slots, Link', HeadOf(q)', Members(where2, q), rank2)
  <2>1. Ordered(Slots, Link, vtable[q], Members(where, q), rank)
    BY <1>0, <1>2, <1>4
  <2>2. Same(Slots, vtable'[q], IF vtable[q] = w THEN Link[w] ELSE vtable[q])
    BY <1>3
  <2>3. \A x \in Members(where, q) : x # w =>
           /\ Same(Slots, Link'[x], IF Link[x] = w THEN Link[w] ELSE Link[x])
           /\ rank2[x] = rank[x]
    BY <1>1, <1>3, MembersOf
  <2>4. Ordered(Slots, Link', vtable'[q], Members(where, q) \ {w}, rank2)
    BY <1>1, <1>6, <2>1, <2>2, <2>3, OrderedRemove
  <2> QED  BY <1>4, <1>5, <2>4
<1>9. ASSUME NEW r \in Irqs, r # q
      PROVE  Ordered(Slots, Link', HeadOf(r)', Members(where2, r), rank2)
  <2>0. r \in Lists /\ w \notin Members(where, r)
    BY <1>9, MembersOf DEF Lists
  <2>1. Ordered(Slots, Link, vtable[r], Members(where, r), rank)
    BY <1>2, <1>4, <2>0
  <2>2. Same(Slots, vtable'[r], vtable[r])
    BY <1>9 DEF Same
  <2>3. \A x \in Members(where, r) :
           x \in Slots \ {w} /\ (Link[x] \in Slots => Link[x] \in Members(where, r))
    BY <2>0, <2>1, MembersOf DEF Ordered
  <2>4. \A x \in Members(where, r) :
           Same(Slots, Link'[x], Link[x]) /\ rank2[x] = rank[x]
    BY <1>1, <1>3, <2>0, <2>3 DEF Same
  <2>5. Ordered(Slots, Link', vtable'[r], Members(where, r), rank2)
    BY <1>1, <2>1, <2>2, <2>4, OrderedFrame
  <2>6. Members(where2, r) = Members(where, r)
    BY <1>9, <2>0, FreeIsNoIrq DEF Members
  <2> QED  BY <1>4, <2>5, <2>6
<1>10. ListsOrdered(where2, rank2)'
  BY <1>7, <1>8, <1>9 DEF ListsOrdered, Lists, Members, Slots
<1> QED  BY <1>1, <1>10

(* The first free slot becomes the head of a chain.                        *)
LEMMA SlotPushed ==
    ASSUME NEW where \in [Slots -> Lists], NEW rank \in [Slots -> Int],
           ListsOrdered(where, rank),
           NEW w \in Slots, w = free_head, NEW q \in Irqs,
           free_head' = slot[w].link, vtable'[q] = w,
           Same(Slots, slot'[w].link, vtable[q]),
           \A s \in Slots \ {w} : Same(Slots, slot'[s].link, slot[s].link),
           \A r \in Irqs \ {q} : vtable'[r] = vtable[r],
           NEW where2 \in [Slots -> Lists], where2[w] = q,
           \A s \in Slots \ {w} : where2[s] = where[s]
    PROVE  where[w] = Free /\ \E rank2 \in [Slots -> Int] :
              /\ \A s \in Slots \ {w} : rank2[s] = rank[s]
              /\ \A s \in Slots : where[s] = q => rank2[w] < rank[s]
              /\ ListsOrdered(where2, rank2)'
<1>0. q \in Lists /\ Free \in Lists /\ Free # q
  BY FreeIsNoIrq DEF Lists
<1>b. PICK rank2 : rank2 = [rank EXCEPT ![w] =
                              IF vtable[q] \in Slots THEN rank[vtable[q]] - 1 ELSE 0]
  OBVIOUS
<1>1. rank2 \in [Slots -> Int] /\ \A s \in Slots \ {w} : rank2[s] = rank[s]
  BY <1>b
<1>2. \A l \in Lists : Ordered(Slots, Link, HeadOf(l), Members(where, l), rank)
  BY DEF ListsOrdered
<1>3. \A s \in Slots : Link[s] = slot[s].link /\ Link'[s] = slot'[s].link
  BY DEF Link, Slots
<1>4. /\ HeadOf(Free) = free_head /\ HeadOf(Free)' = free_head'
      /\ \A r \in Irqs : HeadOf(r) = vtable[r] /\ HeadOf(r)' = vtable'[r]
  BY FreeIsNoIrq DEF HeadOf
<1>5. \A l : Members(where2, l) =
                 IF l = q THEN Members(where, l) \cup {w} ELSE Members(where, l) \ {w}
  BY <1>0 DEF Members
<1>6. w \in Members(where, Free) /\ w \notin Members(where, q)
  <2>1. w \in Members(where, Free)
    BY <1>0, <1>2, <1>4 DEF Ordered
  <2> QED  BY <1>0, <2>1, MembersOf
<1>7. Ordered(Slots, Link', HeadOf(Free)', Members(where2, Free), rank2)
  <2>1. Ordered(Slots, Link, w, Members(where, Free), rank)
    BY <1>0, <1>2, <1>4
  <2>2. Same(Slots, free_head', IF w = w THEN Link[w] ELSE w)
    BY <1>3 DEF Same
  <2>3. \A x \in Members(where, Free) : Link[x] # w
    BY <2>1, OrderedRanks
  <2>4. \A x \in Members(where, Free) : x # w =>
           /\ Same(Slots, Link'[x], IF Link[x] = w THEN Link[w] ELSE Link[x])
           /\ rank2[x] = rank[x]
    BY <1>1, <1>3, <2>3, MembersOf
  <2>5. Ordered(Slots, Link', free_head', Members(where, Free) \ {w}, rank2)
    BY <1>1, <1>6, <2>1, <2>2, <2>4, OrderedRemove
  <2>6. Members(where2, Free) = Members(where, Free) \ {w}
    BY <1>0, <1>5
  <2> QED  BY <1>4, <2>5, <2>6
<1>8. \A s \in Slots : where[s] = q => rank2[w] < rank[s]
  <2> SUFFICES ASSUME NEW s \in Slots, where[s] = q PROVE rank2[w] < rank[s]
    OBVIOUS
  <2>1. vtable[q] \in Slots /\ rank[vtable[q]] <= rank[s]
    BY <1>0, <1>2, <1>4, MembersOf DEF Ordered
  <2>2. rank2[w] = rank[vtable[q]] - 1
    BY <1>b, <2>1
  <2>3. rank[vtable[q]] \in Int /\ rank[s] \in Int
    BY <2>1
  <2> QED  BY <2>1, <2>2, <2>3
<1>9. Ordered(Slots, Link', HeadOf(q)', Members(where2, q), rank2)
  <2>1. Ordered(Slots, Link, vtable[q], Members(where, q), rank)
    BY <1>0, <1>2, <1>4
  <2>2. Same(Slots, Link'[w], vtable[q])
    BY <1>3
  <2>3. \A x \in Members(where, q) : x \in Slots /\ x # w /\ where[x] = q
    BY <1>6, MembersOf
  <2>4. \A x \in Members(where, q) : Same(Slots, Link'[x], Link[x])
    BY <1>3, <2>3
  <2>5. \A x \in Members(where, q) : rank2[x] = rank[x] /\ rank2[w] < rank[x]
    BY <1>1, <1>8, <2>3
  <2>6. Ordered(Slots, Link', w, Members(where, q) \cup {w}, rank2)
    BY <1>1, <1>6, <2>1, <2>2, <2>4, <2>5, OrderedPush
  <2>7. Members(where2, q) = Members(where, q) \cup {w}
    BY <1>5
  <2> QED  BY <1>4, <2>6, <2>7
<1>10. ASSUME NEW r \in Irqs, r # q
       PROVE  Ordered(Slots, Link', HeadOf(r)', Members(where2, r), rank2)
  <2>0. r \in Lists /\ w \notin Members(where, r)
    BY <1>6, <1>10, MembersOf, FreeIsNoIrq DEF Lists
  <2>1. Ordered(Slots, Link, vtable[r], Members(where, r), rank)
    BY <1>2, <1>4, <2>0
  <2>2. Same(Slots, vtable'[r], vtable[r])
    BY <1>10 DEF Same
  <2>3. \A x \in Members(where, r) : x \in Slots \ {w}
    BY <2>0, MembersOf
  <2>4. \A x \in Members(where, r) :
           Same(Slots, Link'[x], Link[x]) /\ rank2[x] = rank[x]
    BY <1>1, <1>3, <2>3
  <2>5. Ordered(Slots, Link', vtable'[r], Members(where, r), rank2)
    BY <1>1, <2>1, <2>2, <2>4, OrderedFrame
  <2>6. Members(where2, r) = Members(where, r)
    BY <1>10, <2>0 DEF Members
  <2> QED  BY <1>4, <2>5, <2>6
<1>11. ListsOrdered(where2, rank2)'
  BY <1>7, <1>9, <1>10 DEF ListsOrdered, Lists, Members, Slots
<1> QED  BY <1>0, <1>1, <1>6, <1>8, <1>11, MembersOf

(* The first free slot comes after slot p of a chain.                      *)
LEMMA SlotInserted ==
    ASSUME NEW where \in [Slots -> Lists], NEW rank \in [Slots -> Int],
           ListsOrdered(where, rank),
           NEW w \in Slots, w = free_head, NEW q \in Irqs,
           NEW p \in Slots, where[p] = q,
           free_head' = slot[w].link, vtable' = vtable,
           slot'[p].link = w, Same(Slots, slot'[w].link, slot[p].link),
           \A s \in Slots \ {w, p} : Same(Slots, slot'[s].link, slot[s].link),
           NEW where2 \in [Slots -> Lists], where2[w] = q,
           \A s \in Slots \ {w} : where2[s] = where[s]
    PROVE  where[w] = Free /\ \E rank2 \in [Slots -> Int] :
              /\ \A s \in Slots \ {w} : rank2[s] = 2 * rank[s]
              /\ rank2[w] = 2 * rank[p] + 1
              /\ ListsOrdered(where2, rank2)'
<1>0. q \in Lists /\ Free \in Lists /\ Free # q
  BY FreeIsNoIrq DEF Lists
<1>b. PICK rank2 : rank2 = [s \in Slots |-> IF s = w THEN 2 * rank[p] + 1 ELSE 2 * rank[s]]
  OBVIOUS
<1>1. /\ rank2 \in [Slots -> Int] /\ \A s \in Slots \ {w} : rank2[s] = 2 * rank[s]
      /\ rank2[w] = 2 * rank[p] + 1
  BY <1>b
<1>2. \A l \in Lists : Ordered(Slots, Link, HeadOf(l), Members(where, l), rank)
  BY DEF ListsOrdered
<1>3. \A s \in Slots : Link[s] = slot[s].link /\ Link'[s] = slot'[s].link
  BY DEF Link, Slots
<1>4. /\ HeadOf(Free) = free_head /\ HeadOf(Free)' = free_head'
      /\ \A r \in Irqs : HeadOf(r) = vtable[r] /\ HeadOf(r)' = vtable[r]
  BY FreeIsNoIrq DEF HeadOf
<1>5. \A l : Members(where2, l) =
                 IF l = q THEN Members(where, l) \cup {w} ELSE Members(where, l) \ {w}
  BY <1>0 DEF Members
<1>6. w \in Members(where, Free) /\ w \notin Members(where, q) /\ p \in Members(where, q)
  <2>1. w \in Members(where, Free)
    BY <1>0, <1>2, <1>4 DEF Ordered
  <2> QED  BY <1>0, <2>1, MembersOf
<1>7. Ordered(Slots, Link', HeadOf(Free)', Members(where2, Free), rank2)
  <2>1. Ordered(Slots, Link, w, Members(where, Free), rank)
    BY <1>0, <1>2, <1>4
  <2>2. Same(Slots, free_head', IF w = w THEN Link[w] ELSE w)
    BY <1>3 DEF Same
  <2>3. \A x \in Members(where, Free) : Link[x] # w /\ x # p /\ x \in Slots
    BY <1>0, <2>1, OrderedRanks, MembersOf
  <2>4. \A x \in Members(where, Free) : x # w =>
           /\ Same(Slots, Link'[x], IF Link[x] = w THEN Link[w] ELSE Link[x])
           /\ rank[x] = rank[x]
    BY <1>1, <1>3, <2>3
  <2>5. Ordered(Slots, Link', free_head', Members(where, Free) \ {w}, rank)
    BY <1>6, <2>1, <2>2, <2>4, OrderedRemove
  <2>6. \A x \in Members(where, Free) \ {w} : rank2[x] = 2 * rank[x]
    BY <1>1, <2>3
  <2>7. Ordered(Slots, Link', free_head', Members(where, Free) \ {w}, rank2)
    BY <1>1, <2>5, <2>6, OrderedDoubled
  <2>8. Members(where2, Free) = Members(where, Free) \ {w}
    BY <1>0, <1>5
  <2> QED  BY <1>4, <2>7, <2>8
<1>8. Ordered(Slots, Link', HeadOf(q)', Members(where2, q), rank2)
  <2>1. Ordered(Slots, Link, vtable[q], Members(where, q), rank)
    BY <1>0, <1>2, <1>4
  <2>2. Link'[p] = w /\ Same(Slots, Link'[w], Link[p])
    BY <1>3
  <2>3. \A x \in Members(where, q) : x \in Slots /\ x # w
    BY <1>6, MembersOf
  <2>4. \A x \in Members(where, q) : x # p => Same(Slots, Link'[x], Link[x])
    BY <1>3, <2>3
  <2>5. \A x \in Members(where, q) : rank2[x] = 2 * rank[x]
    BY <1>1, <2>3
  <2>6. Ordered(Slots, Link', vtable[q], Members(where, q) \cup {w}, rank2)
    BY <1>1, <1>6, <2>1, <2>2, <2>4, <2>5, OrderedInsert
  <2>7. Members(where2, q) = Members(where, q) \cup {w}
    BY <1>5
  <2> QED  BY <1>4, <2>6, <2>7
<1>9. ASSUME NEW r \in Irqs, r # q
      PROVE  Ordered(Slots, Link', HeadOf(r)', Members(where2, r), rank2)
  <2>0. r \in Lists /\ w \notin Members(where, r) /\ p \notin Members(where, r)
    BY <1>6, <1>9, MembersOf, FreeIsNoIrq DEF Lists
  <2>1. Ordered(Slots, Link, vtable[r], Members(where, r), rank)
    BY <1>2, <1>4, <2>0
  <2>2. Same(Slots, vtable[r], vtable[r])
    BY DEF Same
  <2>3. \A x \in Members(where, r) : x \in Slots \ {w, p}
    BY <2>0, MembersOf
  <2>4. \A x \in Members(where, r) :
           Same(Slots, Link'[x], Link[x]) /\ rank[x] = rank[x]
    BY <1>3, <2>3
  <2>5. Ordered(Slots, Link', vtable[r], Members(where, r), rank)
    BY <2>1, <2>2, <2>4, OrderedFrame
  <2>6. \A x \in Members(where, r) : rank2[x] = 2 * rank[x]
    BY <1>1, <2>3
  <2>7. Ordered(Slots, Link', vtable[r], Members(where, r), rank2)
    BY <1>1, <2>5, <2>6, OrderedDoubled
  <2>8. Members(where2, r) = Members(where, r)
    BY <1>9, <2>0 DEF Members
  <2> QED  BY <1>4, <2>7, <2>8
<1>10. ListsOrdered(where2, rank2)'
  BY <1>7, <1>8, <1>9 DEF ListsOrdered, Lists, Members, Slots
<1> QED  BY <1>0, <1>1, <1>6, <1>10, MembersOf

----------------------------------------------------------------------------
(* What the model's operators are, in a sound state.                       *)

(* What the order of the lists says of each slot, its link and its rank.   *)
LEMMA ListFacts ==
    ASSUME NEW where \in [Slots -> Lists], NEW rank \in [Slots -> Int],
           ListsOrdered(where, rank)
    PROVE  /\ \A s \in Slots : rank[s] \in Int /\ where[s] \in Lists
           /\ free_head \in Slots => where[free_head] = Free
           /\ \A q \in Irqs : vtable[q] \in Slots => where[vtable[q]] = q
           /\ \A s \in Slots : where[s] \in Irqs =>
                 vtable[where[s]] \in Slots /\ rank[vtable[where[s]]] <= rank[s]
           /\ \A s \in Slots : slot[s].link \in Slots =>
                 where[slot[s].link] = where[s] /\ rank[s] < rank[slot[s].link]
           /\ \A s, t \in Slots : where[t] = where[s] /\ rank[s] < rank[t] =>
                 slot[s].link \in Slots /\ rank[slot[s].link] <= rank[t]
           /\ \A s, t \in Slots : where[t] = where[s] /\ rank[t] = rank[s] => t = s
           /\ \A s, t \in Slots : slot[s].link = slot[t].link /\ slot[s].link \in Slots
                 => t = s
           /\ \A s \in Slots : where[s] \in Irqs /\ vtable[where[s]] # s
                 => \E t \in Slots : where[t] = where[s] /\ slot[t].link = s
           /\ \A q \in Irqs, s \in Slots : slot[s].link = vtable[q] => vtable[q] \notin Slots
           /\ \A s \in Slots : \E t \in Slots :
                 where[t] = where[s] /\ slot[t].link \notin Slots
<1>1. \A s \in Slots : Link[s] = slot[s].link
  BY DEF Link
<1>2. /\ HeadOf(Free) = free_head /\ \A q \in Irqs : HeadOf(q) = vtable[q]
      /\ Free \in Lists /\ \A q \in Irqs : q \in Lists
  BY FreeIsNoIrq DEF HeadOf, Lists
<1>3. \A l \in Lists : Ordered(Slots, Link, HeadOf(l), Members(where, l), rank)
  BY DEF ListsOrdered
<1>4. \A s \in Slots : rank[s] \in Int /\ where[s] \in Lists /\ s \in Members(where, where[s])
  BY DEF Members
<1>5. \A l : \A s \in Members(where, l) : s \in Slots /\ where[s] = l
  BY DEF Members
<1>6. free_head \in Slots => where[free_head] = Free
  BY <1>2, <1>3, <1>5 DEF Ordered
<1>7. \A q \in Irqs : vtable[q] \in Slots => where[vtable[q]] = q
  BY <1>2, <1>3, <1>5 DEF Ordered
<1>8. ASSUME NEW s \in Slots, where[s] \in Irqs
      PROVE  vtable[where[s]] \in Slots /\ rank[vtable[where[s]]] <= rank[s]
  BY <1>2, <1>3, <1>4, <1>5, <1>8 DEF Ordered
<1>9. ASSUME NEW s \in Slots, slot[s].link \in Slots
      PROVE  where[slot[s].link] = where[s] /\ rank[s] < rank[slot[s].link]
  BY <1>1, <1>3, <1>4, <1>5, <1>9 DEF Ordered
<1>10. ASSUME NEW s \in Slots, NEW t \in Slots, where[t] = where[s], rank[s] < rank[t]
       PROVE  slot[s].link \in Slots /\ rank[slot[s].link] <= rank[t]
  BY <1>1, <1>3, <1>4, <1>5, <1>10 DEF Ordered
<1>11. ASSUME NEW s \in Slots, NEW t \in Slots, where[t] = where[s], rank[t] = rank[s]
       PROVE  t = s
  BY <1>3, <1>4, <1>11 DEF Ordered
<1>12. ASSUME NEW s \in Slots, NEW t \in Slots,
              slot[s].link = slot[t].link, slot[s].link \in Slots
       PROVE  t = s
  <2>1. where[t] = where[s]
    BY <1>9, <1>12
  <2>2. Ordered(Slots, Link, HeadOf(where[s]), Members(where, where[s]), rank)
    BY <1>3, <1>4
  <2>3. s \in Members(where, where[s]) /\ t \in Members(where, where[s])
    BY <1>4, <2>1
  <2> QED  BY <1>1, <1>12, <2>2, <2>3, OrderedRanks
<1>13. ASSUME NEW s \in Slots, where[s] \in Irqs, vtable[where[s]] # s
       PROVE  \E t \in Slots : where[t] = where[s] /\ slot[t].link = s
  BY <1>1, <1>2, <1>3, <1>4, <1>5, <1>13 DEF Ordered
<1>14. ASSUME NEW q \in Irqs, NEW s \in Slots, slot[s].link = vtable[q]
       PROVE  vtable[q] \notin Slots
  <2> SUFFICES ASSUME vtable[q] \in Slots PROVE FALSE
    OBVIOUS
  <2>1. where[s] = q /\ rank[s] < rank[vtable[q]]
    BY <1>7, <1>9, <1>14
  <2>2. rank[vtable[q]] <= rank[s]
    BY <1>8, <2>1
  <2> QED  BY <1>4, <2>1, <2>2
<1>15. ASSUME NEW s \in Slots
       PROVE  \E t \in Slots : where[t] = where[s] /\ slot[t].link \notin Slots
  BY <1>1, <1>3, <1>4, <1>5 DEF Ordered
<1> QED
  BY <1>4, <1>6, <1>7, <1>8, <1>9, <1>10, <1>11, <1>12, <1>13, <1>14, <1>15

(* Chains and the free list are the slots whose list they are, and from a  *)
(* slot the links lead through those of its list that rank no lower.       *)
LEMMA ChainFacts ==
    ASSUME NEW where \in [Slots -> Lists], NEW rank \in [Slots -> Int],
           ListsOrdered(where, rank)
    PROVE  /\ \A q \in Irqs : Chain(q) = {s \in Slots : where[s] = q}
           /\ FreeList = {s \in Slots : where[s] = Free}
           /\ \A s \in Slots :
                 SlotsFrom(s) = {t \in Slots : where[t] = where[s] /\ rank[s] <= rank[t]}
<1>1. \A x : SlotsFrom(x) = Reach(Slots, Link, x)
  BY DEF SlotsFrom, Link
<1>2. /\ HeadOf(Free) = free_head /\ \A q \in Irqs : HeadOf(q) = vtable[q]
      /\ Free \in Lists /\ \A q \in Irqs : q \in Lists
  BY FreeIsNoIrq DEF HeadOf, Lists
<1>3. \A l \in Lists : Ordered(Slots, Link, HeadOf(l), Members(where, l), rank)
  BY DEF ListsOrdered
<1>4. \A l \in Lists : Reach(Slots, Link, HeadOf(l)) = Members(where, l)
  BY <1>3, OrderedReach
<1>5. ASSUME NEW s \in Slots
      PROVE  SlotsFrom(s) = {t \in Slots : where[t] = where[s] /\ rank[s] <= rank[t]}
  <2>1. Ordered(Slots, Link, HeadOf(where[s]), Members(where, where[s]), rank)
    BY <1>3
  <2>2. s \in Members(where, where[s])
    BY DEF Members
  <2>3. Reach(Slots, Link, s) = {t \in Members(where, where[s]) : rank[s] <= rank[t]}
    BY <2>1, <2>2, OrderedReachOn
  <2> QED  BY <1>1, <2>3 DEF Members
<1>6. \A q \in Irqs : Chain(q) = {s \in Slots : where[s] = q}
  BY <1>1, <1>2, <1>4 DEF Chain, Members
<1>7. FreeList = {s \in Slots : where[s] = Free}
  BY <1>1, <1>2, <1>4 DEF FreeList, Members
<1> QED  BY <1>5, <1>6, <1>7

(* The last slot of higher priority exists, and the next one's is lower.   *)
LEMMA PreviousIs ==
    ASSUME NEW where \in [Slots -> Lists], NEW rank \in [Slots -> Int],
           ListsOrdered(where, rank), IrqTypeOK,
           NEW q \in Irqs, NEW p \in Nat, Ahead(q, p) # {},
           NEW prev, prev = Previous(q, p)
    PROVE  /\ prev \in Slots /\ where[prev] = q
           /\ \A t \in Slots :
                 where[t] = q /\ rank[t] <= rank[prev] => slot[t].priority > p
           /\ slot[prev].link \in Slots => slot[slot[prev].link].priority <= p
<1>1. \A s \in Slots : slot[s].priority \in Nat
  BY DEF IrqTypeOK, SlotData
<1>2. \A s : s \in Ahead(q, p) <=>
         /\ s \in Slots /\ where[s] = q
         /\ \A t \in Slots : where[t] = q /\ rank[t] <= rank[s] => slot[t].priority > p
  BY ChainFacts DEF Ahead
<1>3. \E s \in Ahead(q, p) : slot[s].link \notin Ahead(q, p)
  <2> SUFFICES ASSUME \A s \in Ahead(q, p) : slot[s].link \in Ahead(q, p)
               PROVE  FALSE
    OBVIOUS
  <2>1. PICK a : a \in Ahead(q, p)
    OBVIOUS
  <2>2. vtable[q] \in Slots /\ where[vtable[q]] = q /\ rank[vtable[q]] <= rank[a]
    BY <1>2, <2>1, ListFacts
  <2>3. vtable[q] \in Ahead(q, p)
    BY <1>2, <2>1, <2>2, ListFacts
  <2>4. PICK e \in Slots : where[e] = q /\ slot[e].link \notin Slots
    BY <1>2, <2>1, ListFacts
  <2>5. e \in Chain(q)
    BY <2>4, ChainFacts
  <2>6. /\ Ahead(q, p) \in SUBSET Slots /\ vtable[q] \in Ahead(q, p)
        /\ \A y \in Ahead(q, p) : Link[y] \in Ahead(q, p)
    BY <1>2, <2>3 DEF Link
  <2>7. e \in Reach(Slots, Link, vtable[q])
    BY <2>5 DEF Chain, SlotsFrom, Link
  <2>8. e \in Ahead(q, p)
    BY <2>6, <2>7, Zenon DEF Reach
  <2> QED  BY <1>2, <2>4, <2>8
<1>4. prev \in Ahead(q, p) /\ slot[prev].link \notin Ahead(q, p)
  BY <1>3, Zenon DEF Previous
<1>5. ASSUME slot[prev].link \in Slots PROVE slot[slot[prev].link].priority <= p
  <2>1. where[slot[prev].link] = q /\ rank[prev] < rank[slot[prev].link]
    BY <1>2, <1>4, <1>5, ListFacts
  <2>2. PICK t \in Slots : where[t] = q /\ rank[t] <= rank[slot[prev].link]
                           /\ ~(slot[t].priority > p)
    BY <1>2, <1>4, <1>5, <2>1
  <2>3. ~(rank[t] <= rank[prev])
    BY <1>2, <1>4, <2>2
  <2>4. rank[t] \in Int /\ rank[prev] \in Int /\ rank[slot[prev].link] \in Int
    BY <1>2, <1>4, <1>5
  <2>5. rank[slot[prev].link] <= rank[t]
    BY <1>2, <1>4, <2>2, <2>3, <2>4, ListFacts
  <2>6. t = slot[prev].link
    <3>1. rank[t] = rank[slot[prev].link]
      BY <2>2, <2>4, <2>5
    <3>2. where[t] = where[slot[prev].link]
      BY <2>1, <2>2
    <3>3. \A x, y \in Slots : where[x] = where[y] /\ rank[x] = rank[y] => x = y
      BY ListFacts
    <3> QED  BY <1>5, <3>1, <3>2, <3>3
  <2> QED  BY <1>1, <2>2, <2>6
<1> QED  BY <1>2, <1>4, <1>5

(* An installed handler is that of a slot of the chain which is not        *)
(* leaving.                                                                *)
LEMMA InstalledIs ==
    ASSUME NEW where \in [Slots -> Lists], NEW rank \in [Slots -> Int],
           ListsOrdered(where, rank), NEW q \in Irqs, NEW h
    PROVE  h \in Installed(q) <=>
              \E s \in Slots : /\ where[s] = q /\ slot[s].inst3 # Leave
                               /\ slot[s].handler = h
BY ChainFacts DEF Installed

(* A slot that waits to leave is the last of a chain, and is being         *)
(* executed.                                                               *)
LEMMA LeavingSlot ==
    ASSUME NEW where \in [Slots -> Lists], NEW rank \in [Slots -> Int],
           Sound(where, rank), NEW s \in Slots, slot[s].inst3 = Leave
    PROVE  /\ where[s] \in Irqs /\ slot[s].link \notin Slots
           /\ run[where[s]].at = s /\ run[where[s]].handler = slot[s].handler
<1>1. where[s] \in Irqs
  BY DEF Sound, CodeSound, Lists
<1>2. slot[s].link \notin Slots
  BY <1>1, Numbers DEF Sound, CodeSound
<1>3. run[where[s]] = [at |-> s, handler |-> slot[s].handler]
  BY <1>1, <1>2, Numbers DEF Sound, CodeSound
<1> QED  BY <1>1, <1>2, <1>3

(* The slot found for a handler that may be removed is its only one, and   *)
(* in an interrupt it is the one being executed.                           *)
LEMMA SlotOfIs ==
    ASSUME NEW where \in [Slots -> Lists], NEW rank \in [Slots -> Int],
           Sound(where, rank), IrqTypeOK,
           NEW q \in Irqs, NEW h \in Handlers, MayRemove(q, h)
    PROVE  /\ SlotOf(q, h) \in Slots /\ where[SlotOf(q, h)] = q
           /\ slot[SlotOf(q, h)].handler = h
           /\ InException(q) => run[q].at = SlotOf(q, h) /\ run[q].handler = h
           /\ \A t \in Slots : where[t] = q => slot[t].inst3 # Leave
           /\ ~InException(q) => run[q].at \notin Slots
<1>a. PICK s : s = SlotOf(q, h)
  OBVIOUS
<1>1. PICK t \in Slots : where[t] = q /\ slot[t].inst3 # Leave /\ slot[t].handler = h
  BY InstalledIs DEF MayRemove, Sound
<1>2. s \in Chain(q) /\ slot[s].handler = h
  <2>1. t \in Chain(q)
    BY <1>1, ChainFacts DEF Sound
  <2> QED  BY <1>1, <1>a, <2>1, Zenon DEF SlotOf
<1>3. s \in Slots /\ where[s] = q
  BY <1>2, ChainFacts DEF Sound
<1>4. \A u \in Slots : where[u] = q /\ slot[u].handler = h => u = s
  BY <1>2, <1>3 DEF Sound, HandlersSound
<1>5. t = s
  BY <1>1, <1>4
<1>6. ~InException(q) => run[q].at \notin Slots
  BY DEF Sound, RunsSound
<1>8. ASSUME InException(q) PROVE run[q].at = s /\ run[q].handler = h
  <2>1. run[q].handler = h
    BY <1>8 DEF MayRemove
  <2>2. run[q].at = s
    BY <1>2, <1>3, <2>1 DEF Sound, HandlersSound
  <2> QED  BY <2>1, <2>2
<1>9. ASSUME NEW u \in Slots, where[u] = q, slot[u].inst3 = Leave PROVE FALSE
  <2>1. run[q].at = u /\ run[q].handler = slot[u].handler
    BY <1>9, LeavingSlot
  <2>2. InException(q)
    BY <1>6, <2>1
  <2> QED  BY <1>1, <1>5, <1>8, <1>9, <2>1, <2>2
<1> QED  BY <1>2, <1>3, <1>6, <1>8, <1>9, <1>a

----------------------------------------------------------------------------
(* The actions that leave the lists as they are.                           *)

(* Steps that do not touch the slots keep lists and order.                 *)
LEMMA QuietLists ==
    ASSUME NEW where \in [Slots -> Lists], NEW rank \in [Slots -> Int],
           Sound(where, rank), slot' = slot, free_head' = free_head,
           \A q \in Irqs : Same(Slots, vtable'[q], vtable[q])
    PROVE  ListsOrdered(where, rank)' /\ PrioritiesSorted(where, rank)'
<1>1. \A s \in Slots : Same(Slots, slot'[s].link, slot[s].link)
  BY DEF Same
<1>2. ListsOrdered(where, rank)'
  BY <1>1, ListsKept DEF Sound
<1>3. PrioritiesSorted(where, rank)'
  BY DEF Sound, PrioritiesSorted, Slots
<1> QED  BY <1>2, <1>3

(* irq_set_exclusive_handler, and irq_remove_handler of an exclusive one:  *)
(* no slot changes.                                                        *)
LEMMA ExclusiveKeeps ==
    ASSUME IrqInv, NEW q \in Irqs, NEW h \in Handlers,
           SetExclusive(q, h) \/ RemoveExclusive(q, h)
    PROVE  IrqInv'
<1>1. PICK where \in [Slots -> Lists], rank \in [Slots -> Int] : Sound(where, rank)
  BY DEF IrqInv
<1>2. IrqTypeOK
  BY DEF IrqInv
<1>3. /\ slot' = slot /\ free_head' = free_head /\ run' = run
      /\ vtable[q] \notin Slots /\ vtable'[q] \notin Slots
      /\ \A r \in Irqs \ {q} : vtable'[r] = vtable[r]
      /\ \A r \in Irqs : due'[r] \subseteq due[r]
  BY <1>2, Numbers DEF SetExclusive, RemoveExclusive, Owes, IrqTypeOK
<1>4. IrqTypeOK'
  BY <1>2 DEF SetExclusive, RemoveExclusive, Owes, IrqTypeOK, Slots, SlotData
<1>5. \A s \in Slots : where[s] # q
  BY <1>1, <1>3, ListFacts DEF Sound
<1>6. ListsOrdered(where, rank)' /\ PrioritiesSorted(where, rank)'
  BY <1>1, <1>3, QuietLists DEF Same
<1>7. CodeSound(where)'
  BY <1>1, <1>3, <1>5 DEF Sound, CodeSound, Slots, Trash
<1>8. HandlersSound(where)'
  BY <1>1, <1>3 DEF Sound, HandlersSound, Slots
<1>9. RunsSound(where, rank)'
  BY <1>1, <1>3 DEF Sound, RunsSound, InException, Slots
<1> QED  BY <1>4, <1>6, <1>7, <1>8, <1>9 DEF IrqInv, Sound, Slots, Lists

(* An interrupt enters at the head, which ranks lowest: all it has to call *)
(* is further on.                                                          *)
LEMMA InterruptSharedKeeps ==
    ASSUME IrqInv, NEW q \in Irqs, InterruptShared(q)
    PROVE  IrqInv'
<1>1. PICK where \in [Slots -> Lists], rank \in [Slots -> Int] : Sound(where, rank)
  BY DEF IrqInv
<1>2. IrqTypeOK
  BY DEF IrqInv
<1>3. PICK s : s = vtable[q]
  OBVIOUS
<1>4. /\ slot' = slot /\ free_head' = free_head /\ vtable' = vtable
      /\ s \in Slots /\ ~InException(q)
      /\ run' = [run EXCEPT ![q] = [at |-> s, handler |-> slot[s].handler]]
      /\ due' = [due EXCEPT ![q] = Installed(q) \ {slot[s].handler}]
  BY <1>3 DEF InterruptShared, IsShared, Calls
<1>5. where[s] = q /\ \A t \in Slots : where[t] = q => rank[s] <= rank[t]
  BY <1>1, <1>3, <1>4, ListFacts DEF Sound
<1>6. \A t \in Slots : where[t] = q => slot[t].handler \in Handlers
  BY <1>1 DEF Sound, HandlersSound
<1>7. \A h : h \in Installed(q) => h \in Handlers
  BY <1>1, <1>6, InstalledIs DEF Sound
<1>8. /\ run'[q] = [at |-> s, handler |-> slot[s].handler]
      /\ due'[q] = Installed(q) \ {slot[s].handler}
      /\ \A r \in Irqs \ {q} : run'[r] = run[r] /\ due'[r] = due[r]
  BY <1>2, <1>4 DEF IrqTypeOK
<1>9. IrqTypeOK'
  BY <1>2, <1>4, <1>5, <1>6, <1>7 DEF IrqTypeOK, Slots, SlotData
<1>10. run[q].at \notin Slots
  BY <1>1, <1>4 DEF Sound, RunsSound
<1>11. ListsOrdered(where, rank)' /\ PrioritiesSorted(where, rank)'
  BY <1>1, <1>4, QuietLists DEF Same
<1>12. CodeSound(where)'
  <2>1. \A t \in Slots : where[t] = q => slot[t].inst3 # Leave
    BY <1>1, <1>10, LeavingSlot
  <2> QED  BY <1>1, <1>4, <1>8, <2>1 DEF Sound, CodeSound, Slots, Trash
<1>13. HandlersSound(where)'
  BY <1>1, <1>4, <1>5, <1>8 DEF Sound, HandlersSound, Slots
<1>14. RunsSound(where, rank)'
  <2>1. ASSUME NEW r \in Irqs
        PROVE  /\ run'[r].at \in Slots => run'[r].handler # Unhandled /\ where[run'[r].at] = r
               /\ \A d \in due'[r] :
                     /\ run'[r].at \in Slots
                     /\ \E t \in Slots : /\ where[t] = r /\ slot[t].handler = d
                                          /\ rank[run'[r].at] < rank[t]
    <3>1. CASE r # q
      BY <1>1, <1>8, <3>1 DEF Sound, RunsSound, InException
    <3>2. CASE r = q
      <4>1. slot[s].handler # Unhandled
        BY <1>4, <1>5, <1>6, Numbers
      <4>2. ASSUME NEW d \in due'[q]
            PROVE  \E t \in Slots : where[t] = q /\ slot[t].handler = d /\ rank[s] < rank[t]
        <5>1. PICK t \in Slots : where[t] = q /\ slot[t].handler = d
          BY <1>1, <1>8, <4>2, InstalledIs DEF Sound
        <5>2. t # s
          BY <1>8, <4>2, <5>1
        <5>3. rank[t] # rank[s]
          BY <1>1, <1>4, <1>5, <5>1, <5>2, ListFacts DEF Sound
        <5> QED  BY <1>4, <1>5, <5>1, <5>3
      <4> QED  BY <1>4, <1>5, <1>8, <3>2, <4>1, <4>2
    <3> QED  BY <3>1, <3>2
  <2> QED  BY <1>4, <2>1 DEF RunsSound, InException, Slots
<1> QED  BY <1>9, <1>11, <1>12, <1>13, <1>14 DEF IrqInv, Sound, Slots, Lists

(* An exclusive handler is called from no slot.                            *)
LEMMA InterruptExclusiveKeeps ==
    ASSUME IrqInv, NEW q \in Irqs, InterruptExclusive(q)
    PROVE  IrqInv'
<1>1. PICK where \in [Slots -> Lists], rank \in [Slots -> Int] : Sound(where, rank)
  BY DEF IrqInv
<1>2. IrqTypeOK
  BY DEF IrqInv
<1>3. /\ slot' = slot /\ free_head' = free_head /\ vtable' = vtable /\ due' = due
      /\ ~InException(q) /\ vtable[q] \in Handlers
      /\ run' = [run EXCEPT ![q].handler = vtable[q]]
  BY DEF InterruptExclusive
<1>4. /\ run'[q].at = run[q].at
      /\ \A r \in Irqs \ {q} : run'[r] = run[r]
  BY <1>2, <1>3 DEF IrqTypeOK
<1>5. IrqTypeOK'
  BY <1>2, <1>3 DEF IrqTypeOK, Slots, SlotData
<1>6. run[q].at \notin Slots
  BY <1>1, <1>3 DEF Sound, RunsSound
<1>7. \A s \in Slots : where[s] # q
  BY <1>1, <1>3, Numbers, ListFacts DEF Sound
<1>8. ListsOrdered(where, rank)' /\ PrioritiesSorted(where, rank)'
  BY <1>1, <1>3, QuietLists DEF Same
<1>9. CodeSound(where)'
  BY <1>1, <1>3, <1>4, <1>7 DEF Sound, CodeSound, Slots, Trash
<1>10. HandlersSound(where)'
  BY <1>1, <1>3, <1>4, <1>7 DEF Sound, HandlersSound, Slots
<1>11. RunsSound(where, rank)'
  BY <1>1, <1>3, <1>4, <1>6 DEF Sound, RunsSound, InException, Slots
<1> QED  BY <1>5, <1>8, <1>9, <1>10, <1>11 DEF IrqInv, Sound, Slots, Lists

(* Going on to the next slot calls one handler and passes none.            *)
LEMMA RunsNextKeeps ==
    ASSUME IrqInv, NEW q \in Irqs, RunsNext(q)
    PROVE  IrqInv'
<1>1. PICK where \in [Slots -> Lists], rank \in [Slots -> Int] : Sound(where, rank)
  BY DEF IrqInv
<1>2. IrqTypeOK
  BY DEF IrqInv
<1>a. PICK a : a = run[q].at
  OBVIOUS
<1>b. PICK n : n = slot[a].inst3
  OBVIOUS
<1>3. /\ slot' = slot /\ free_head' = free_head /\ vtable' = vtable
      /\ a \in Slots /\ n \in Slots
      /\ run' = [run EXCEPT ![q] = [at |-> n, handler |-> slot[n].handler]]
      /\ due' = [due EXCEPT ![q] = due[q] \ {slot[n].handler}]
  BY <1>a, <1>b DEF RunsNext, Calls
<1>4. where[a] = q
  BY <1>1, <1>3, <1>a DEF Sound, RunsSound
<1>5. slot[a].link = n
  BY <1>1, <1>3, <1>4, <1>b, Numbers DEF Sound, CodeSound
<1>6. where[n] = q /\ rank[a] < rank[n] /\ slot[n].handler \in Handlers
  <2>1. where[n] = q /\ rank[a] < rank[n]
    BY <1>1, <1>3, <1>4, <1>5, ListFacts DEF Sound
  <2> QED  BY <1>1, <1>3, <2>1 DEF Sound, HandlersSound
<1>7. \A t \in Slots : where[t] = q /\ rank[a] < rank[t] /\ t # n => rank[n] < rank[t]
  <2> SUFFICES ASSUME NEW t \in Slots, where[t] = q, rank[a] < rank[t], t # n
               PROVE  rank[n] < rank[t]
    OBVIOUS
  <2>1. rank[n] <= rank[t]
    BY <1>1, <1>3, <1>4, <1>5, ListFacts DEF Sound
  <2>2. rank[n] # rank[t]
    BY <1>1, <1>3, <1>6, ListFacts DEF Sound
  <2> QED  BY <1>3, <2>1, <2>2
<1>8. /\ run'[q] = [at |-> n, handler |-> slot[n].handler]
      /\ due'[q] = due[q] \ {slot[n].handler}
      /\ \A r \in Irqs \ {q} : run'[r] = run[r] /\ due'[r] = due[r]
  BY <1>2, <1>3 DEF IrqTypeOK
<1>9. IrqTypeOK'
  BY <1>2, <1>3, <1>6 DEF IrqTypeOK, Slots, SlotData
<1>10. ListsOrdered(where, rank)' /\ PrioritiesSorted(where, rank)'
  BY <1>1, <1>3, QuietLists DEF Same
<1>11. CodeSound(where)'
  <2>1. \A t \in Slots : where[t] = q => slot[t].inst3 # Leave
    BY <1>1, <1>3, <1>a, <1>b, Numbers, LeavingSlot
  <2> QED  BY <1>1, <1>3, <1>8, <2>1 DEF Sound, CodeSound, Slots, Trash
<1>12. HandlersSound(where)'
  BY <1>1, <1>3, <1>6, <1>8 DEF Sound, HandlersSound, Slots
<1>13. RunsSound(where, rank)'
  <2>1. ASSUME NEW r \in Irqs
        PROVE  /\ run'[r].at \in Slots => run'[r].handler # Unhandled /\ where[run'[r].at] = r
               /\ \A d \in due'[r] :
                     /\ run'[r].at \in Slots
                     /\ \E t \in Slots : /\ where[t] = r /\ slot[t].handler = d
                                          /\ rank[run'[r].at] < rank[t]
    <3>1. CASE r # q
      BY <1>1, <1>8, <3>1 DEF Sound, RunsSound, InException
    <3>2. CASE r = q
      <4>1. slot[n].handler # Unhandled
        BY <1>6, Numbers
      <4>2. ASSUME NEW d \in due'[q]
            PROVE  \E t \in Slots : where[t] = q /\ slot[t].handler = d /\ rank[n] < rank[t]
        <5>1. PICK t \in Slots : where[t] = q /\ slot[t].handler = d /\ rank[a] < rank[t]
          BY <1>1, <1>8, <1>a, <4>2 DEF Sound, RunsSound
        <5>2. t # n
          BY <1>8, <4>2, <5>1
        <5> QED  BY <1>7, <5>1, <5>2
      <4> QED  BY <1>3, <1>6, <1>8, <3>2, <4>1, <4>2
    <3> QED  BY <3>1, <3>2
  <2> QED  BY <1>3, <2>1 DEF RunsSound, InException, Slots
<1> QED  BY <1>9, <1>10, <1>11, <1>12, <1>13 DEF IrqInv, Sound, Slots, Lists

(* Behind the last slot there is nobody left to call.                      *)
LEMMA InterruptReturnsKeeps ==
    ASSUME IrqInv, NEW q \in Irqs, InterruptReturns(q)
    PROVE  IrqInv'
<1>1. PICK where \in [Slots -> Lists], rank \in [Slots -> Int] : Sound(where, rank)
  BY DEF IrqInv
<1>2. IrqTypeOK
  BY DEF IrqInv
<1>3. /\ slot' = slot /\ free_head' = free_head /\ vtable' = vtable /\ due' = due
      /\ run[q].at \in Slots => slot[run[q].at].inst3 = Pop
      /\ run' = [run EXCEPT ![q] = Off]
  BY DEF InterruptReturns
<1>4. run'[q] = Off /\ \A r \in Irqs \ {q} : run'[r] = run[r]
  BY <1>2, <1>3 DEF IrqTypeOK
<1>5. IrqTypeOK'
  BY <1>2, <1>3 DEF IrqTypeOK, Slots, SlotData, Off
<1>6. \A t \in Slots : where[t] = q => slot[t].inst3 # Leave
  BY <1>1, <1>3, Numbers, LeavingSlot
<1>7. due[q] = {}
  <2> SUFFICES ASSUME NEW d \in due[q] PROVE FALSE
    OBVIOUS
  <2>1. PICK t \in Slots : where[t] = q /\ rank[run[q].at] < rank[t]
    BY <1>1 DEF Sound, RunsSound
  <2>2. run[q].at \in Slots /\ where[run[q].at] = q
    BY <1>1 DEF Sound, RunsSound
  <2>3. slot[run[q].at].link \in Slots
    BY <1>1, <2>1, <2>2, ListFacts DEF Sound
  <2>4. slot[run[q].at].inst3 = slot[run[q].at].link
    BY <1>1, <2>2, <2>3 DEF Sound, CodeSound
  <2> QED  BY <1>3, <2>2, <2>3, <2>4, Numbers
<1>8. ListsOrdered(where, rank)' /\ PrioritiesSorted(where, rank)'
  BY <1>1, <1>3, QuietLists DEF Same
<1>9. CodeSound(where)'
  BY <1>1, <1>3, <1>4, <1>6 DEF Sound, CodeSound, Slots, Trash
<1>10. HandlersSound(where)'
  BY <1>1, <1>3, <1>4, Numbers DEF Sound, HandlersSound, Slots, Off
<1>11. RunsSound(where, rank)'
  BY <1>1, <1>3, <1>4, <1>7, Numbers DEF Sound, RunsSound, InException, Slots,
                                         Off
<1> QED  BY <1>5, <1>8, <1>9, <1>10, <1>11 DEF IrqInv, Sound, Slots, Lists

----------------------------------------------------------------------------
(* The actions that take a slot out of a chain, or are about to.           *)

(* The last slot, left to remove itself, is where the interrupt is; its    *)
(* overwritten link leads nowhere.                                         *)
LEMMA LeaveRunningKeeps ==
    ASSUME IrqInv, NEW q \in Irqs, NEW h \in Handlers, LeaveRunning(q, h)
    PROVE  IrqInv'
<1>1. PICK where \in [Slots -> Lists], rank \in [Slots -> Int] : Sound(where, rank)
  BY DEF IrqInv
<1>2. IrqTypeOK
  BY DEF IrqInv
<1>a. PICK s : s = SlotOf(q, h)
  OBVIOUS
<1>3. /\ free_head' = free_head /\ vtable' = vtable /\ run' = run
      /\ MayRemove(q, h) /\ InException(q) /\ slot[s].link = End
  BY <1>a DEF LeaveRunning, Owes
<1>b. /\ slot' = [slot EXCEPT
           ![s] = [slot[s] EXCEPT !.inst3 = Leave, !.link = Trash(s),
                                  !.priority = TrashPriority]]
      /\ due' = [due EXCEPT ![q] = due[q] \ {h}]
  BY <1>a DEF LeaveRunning, Owes
<1>4. s \in Slots /\ where[s] = q /\ slot[s].handler = h /\ run[q] = [at |-> s, handler |-> h]
  <2>1. s \in Slots /\ where[s] = q /\ slot[s].handler = h /\ run[q].at = s /\ run[q].handler = h
    BY <1>1, <1>2, <1>3, <1>a, SlotOfIs
  <2>2. run[q] \in [at : Slots \cup {End}, handler : Handlers \cup {Unhandled}]
    BY <1>2 DEF IrqTypeOK
  <2> QED  BY <2>1, <2>2
<1>5. /\ \A t \in Slots \ {s} : slot'[t] = slot[t]
      /\ \A t \in Slots : slot'[t].first = slot[t].first /\ slot'[t].handler = slot[t].handler
      /\ slot'[s].inst3 = Leave /\ slot'[s].link = Trash(s)
      /\ \A r \in Irqs : due'[r] \subseteq due[r]
  BY <1>2, <1>4, <1>b DEF IrqTypeOK, SlotData
<1>6. slot' \in [Slots -> SlotData]
  <2>1. Trash(s) \in Int /\ TrashPriority \in Nat
    BY <1>4, Numbers DEF TrashPriority
  <2>2. slot[s] \in SlotData
    BY <1>2, <1>4 DEF IrqTypeOK
  <2>3. [slot[s] EXCEPT !.inst3 = Leave, !.link = Trash(s),
                        !.priority = TrashPriority] \in SlotData
    BY <2>1, <2>2 DEF SlotData
  <2> QED  BY <1>2, <1>4, <1>b, <2>3 DEF IrqTypeOK
<1>7. IrqTypeOK'
  <2>1. due' \in [Irqs -> SUBSET Handlers]
    BY <1>2, <1>b DEF IrqTypeOK
  <2>2. \A t \in Slots : slot'[t].link \in Slots \cup {End} \/ slot'[t].inst3 = Leave
    BY <1>2, <1>5 DEF IrqTypeOK
  <2> QED  BY <1>2, <1>3, <1>6, <2>1, <2>2 DEF IrqTypeOK, Slots, SlotData
<1>8. \A t \in Slots : Same(Slots, slot'[t].link, slot[t].link)
  BY <1>3, <1>4, <1>5, Numbers DEF Same
<1>9. ListsOrdered(where, rank)'
  BY <1>1, <1>3, <1>8, ListsKept DEF Sound, Same
<1>10. CodeSound(where)'
  <2>1. Trash(s) \notin Slots /\ where[s] # Free
    BY <1>4, Numbers, FreeIsNoIrq
  <2> QED  BY <1>1, <1>3, <1>4, <1>5, <2>1 DEF Sound, CodeSound, Slots, Trash
<1>11. HandlersSound(where)'
  BY <1>1, <1>3, <1>5 DEF Sound, HandlersSound, Slots
<1>12. PrioritiesSorted(where, rank)'
  <2>1. \A t \in Slots : where[t] = q => ~(rank[s] < rank[t])
    BY <1>1, <1>3, <1>4, Numbers, ListFacts DEF Sound
  <2>2. \A x, y \in Slots :
           where[x] \in Irqs /\ where[y] = where[x] /\ rank[x] < rank[y] /\ slot'[y].inst3 # Leave
           => x # s /\ y # s
    BY <1>4, <1>5, <2>1
  <2>3. \A x, y \in Slots :
           where[x] \in Irqs /\ where[y] = where[x] /\ rank[x] < rank[y] /\ slot'[y].inst3 # Leave
           => slot'[x].priority >= slot'[y].priority
    BY <1>1, <1>5, <2>2 DEF Sound, PrioritiesSorted
  <2> QED  BY <2>3 DEF PrioritiesSorted, Slots
<1>13. RunsSound(where, rank)'
  BY <1>1, <1>3, <1>5 DEF Sound, RunsSound, InException, Slots
<1> QED  BY <1>7, <1>9, <1>10, <1>11, <1>12, <1>13 DEF IrqInv, Sound, Slots,
            Lists

(* A freed slot has its type and is not leaving.                           *)
LEMMA FreedType ==
    ASSUME NEW to \in Slots \cup {End}
    PROVE  Freed(to) \in SlotData /\ Freed(to).link = to /\ Freed(to).inst3 # Leave
BY Numbers DEF Freed, SlotData

(* The last slot of a chain is freed, and the one before becomes the last. *)
LEMMA LastFreed ==
    ASSUME NEW where \in [Slots -> Lists], NEW rank \in [Slots -> Int],
           Sound(where, rank), IrqTypeOK,
           NEW s \in Slots, NEW q \in Irqs, where[s] = q, slot[s].link \notin Slots,
           slot'[s] = Freed(free_head), free_head' = s,
           \A t \in Slots \ {s} :
              /\ slot'[t].first = slot[t].first /\ slot'[t].handler = slot[t].handler
              /\ slot'[t].priority = slot[t].priority
              /\ slot[t].link = s => slot'[t].link = End /\ slot'[t].inst3 = Pop
              /\ slot[t].link # s =>
                    slot'[t].link = slot[t].link /\ slot'[t].inst3 = slot[t].inst3,
           vtable'[q] = IF vtable[q] = s THEN Unhandled ELSE vtable[q],
           \A r \in Irqs \ {q} : /\ vtable'[r] = vtable[r]
                                 /\ run'[r] = run[r] /\ due'[r] = due[r],
           due'[q] = {}, run'[q].at \notin Slots,
           \A t \in Slots \ {s} : where[t] = q =>
              slot[t].inst3 # Leave /\ slot[t].handler # run'[q].handler
    PROVE  \E where2 \in [Slots -> Lists], rank2 \in [Slots -> Int] : Sound(where2, rank2)'
<1>a. PICK where2 : where2 = [where EXCEPT ![s] = Free]
  OBVIOUS
<1>1. /\ where2 \in [Slots -> Lists] /\ where2[s] = Free
      /\ \A t \in Slots \ {s} : where2[t] = where[t]
      /\ \A t \in Slots : where2[t] \in Irqs => t # s /\ where2[t] = where[t]
  BY <1>a, FreeIsNoIrq DEF Lists
<1>2. \A t \in Slots \ {s} :
         /\ slot'[t].first = slot[t].first /\ slot'[t].handler = slot[t].handler
         /\ slot'[t].priority = slot[t].priority
         /\ slot[t].link = s => slot'[t].link = End /\ slot'[t].inst3 = Pop
         /\ slot[t].link # s => slot'[t].link = slot[t].link /\ slot'[t].inst3 = slot[t].inst3
  OBVIOUS
<1>3. free_head \in Slots \cup {End}
  BY DEF IrqTypeOK
<1>4. /\ slot'[s].link = free_head /\ slot'[s].inst3 # Leave
      /\ vtable[q] = s => Same(Slots, vtable'[q], slot[s].link)
      /\ vtable[q] # s => Same(Slots, vtable'[q], vtable[q])
      /\ \A t \in Slots \ {s} :
            /\ slot[t].link = s => Same(Slots, slot'[t].link, slot[s].link)
            /\ slot[t].link # s => Same(Slots, slot'[t].link, slot[t].link)
  BY <1>2, <1>3, FreedType, Numbers DEF Same
<1>5. PICK rank2 \in [Slots -> Int] :
         /\ \A t \in Slots \ {s} : rank2[t] = rank[t]
         /\ ListsOrdered(where2, rank2)'
  <2>1. ListsOrdered(where, rank)
    BY DEF Sound
  <2>2. \A r \in Irqs \ {q} : vtable'[r] = vtable[r]
    OBVIOUS
  <2> QED  BY <1>1, <1>4, <2>1, <2>2, SlotFreed
<1>6. \A t \in Slots : slot[t].link = s => where[t] = q /\ slot[t].inst3 # Leave
  <2>1. \A t \in Slots : slot[t].link = s => where[t] = q
    BY ListFacts DEF Sound
  <2> QED  BY <2>1, LeavingSlot
<1>7. CodeSound(where2)'
  <2>1. ASSUME NEW t \in Slots, where2[t] \in Irqs
        PROVE  /\ slot'[t].first <=> t = vtable'[where2[t]]
               /\ slot'[t].link \in Slots => slot'[t].inst3 = slot'[t].link
               /\ slot'[t].link \notin Slots =>
                     \/ slot'[t].inst3 = Pop /\ slot'[t].link = End
                     \/ /\ slot'[t].inst3 = Leave /\ slot'[t].link = Trash(t)
                        /\ run'[where2[t]] = [at |-> t, handler |-> slot'[t].handler]
    <3>1. t \in Slots \ {s} /\ where2[t] = where[t]
      BY <1>1, <2>1
    <3>2. slot'[t].first <=> t = vtable'[where2[t]]
      <4>1. slot'[t].first <=> t = vtable[where[t]]
        BY <1>2, <2>1, <3>1 DEF Sound, CodeSound
      <4>2. CASE where[t] = q
        BY <3>1, <4>1, <4>2, Numbers
      <4>3. CASE where[t] # q
        BY <2>1, <3>1, <4>1, <4>3
      <4> QED  BY <4>2, <4>3
    <3>3. CASE slot[t].link = s
      BY <1>2, <3>1, <3>2, <3>3, Numbers
    <3>4. CASE slot[t].link # s
      BY <1>2, <2>1, <3>1, <3>2, <3>4 DEF Sound, CodeSound
    <3> QED  BY <3>3, <3>4
  <2>2. ASSUME NEW t \in Slots, where2[t] = Free PROVE slot'[t].inst3 # Leave
    <3>1. CASE t = s
      BY <1>4, <3>1
    <3>2. CASE t # s
      <4>0. where[t] = Free
        BY <1>1, <2>2, <3>2
      <4>1. slot[t].inst3 # Leave
        BY <4>0 DEF Sound, CodeSound
      <4>2. slot'[t].inst3 = slot[t].inst3 \/ slot'[t].inst3 = Pop
        BY <1>2, <3>2
      <4> QED  BY <4>1, <4>2, Numbers
    <3> QED  BY <3>1, <3>2
  <2> QED  BY <2>1, <2>2 DEF CodeSound, Slots, Trash
<1>8. HandlersSound(where2)'
  <2>1. ASSUME NEW t \in Slots, where2[t] \in Irqs
        PROVE  /\ slot'[t].handler \in Handlers
               /\ slot'[t].handler = run'[where2[t]].handler => t = run'[where2[t]].at
               /\ \A u \in Slots :
                     where2[u] = where2[t] /\ slot'[u].handler = slot'[t].handler => u = t
    BY <1>1, <1>2, <2>1 DEF Sound, HandlersSound
  <2> QED  BY <2>1 DEF HandlersSound, Slots
<1>9. PrioritiesSorted(where2, rank2)'
  <2>1. ASSUME NEW x \in Slots, NEW y \in Slots, where2[x] \in Irqs, where2[y] = where2[x],
               rank2[x] < rank2[y], slot'[y].inst3 # Leave
        PROVE  slot'[x].priority >= slot'[y].priority
    <3>1. x \in Slots \ {s} /\ y \in Slots \ {s} /\ where[x] \in Irqs /\ where[y] = where[x]
      BY <1>1, <2>1
    <3>2. rank[x] < rank[y] /\ slot[y].inst3 # Leave
      BY <1>2, <1>5, <1>6, <2>1, <3>1
    <3> QED  BY <1>2, <3>1, <3>2 DEF Sound, PrioritiesSorted
  <2> QED  BY <2>1 DEF PrioritiesSorted, Slots
<1>10. RunsSound(where2, rank2)'
  <2>1. ASSUME NEW r \in Irqs
        PROVE  /\ run'[r].at \in Slots => run'[r].handler # Unhandled /\ where2[run'[r].at] = r
               /\ \A d \in due'[r] :
                     /\ run'[r].at \in Slots
                     /\ \E t \in Slots : /\ where2[t] = r /\ slot'[t].handler = d
                                          /\ rank2[run'[r].at] < rank2[t]
    <3>1. CASE r = q
      BY <3>1
    <3>2. CASE r # q
      <4>1. run[r].at \in Slots => /\ run[r].at \in Slots \ {s} /\ where2[run[r].at] = r
                                   /\ run[r].handler # Unhandled
        BY <1>1, <3>2 DEF Sound, RunsSound, InException
      <4>2. ASSUME NEW d \in due[r]
            PROVE  /\ run[r].at \in Slots
                   /\ \E t \in Slots : /\ where2[t] = r /\ slot'[t].handler = d
                                        /\ rank2[run[r].at] < rank2[t]
        <5>1. PICK t \in Slots : /\ where[t] = r /\ slot[t].handler = d
                                 /\ run[r].at \in Slots /\ rank[run[r].at] < rank[t]
          BY <4>2 DEF Sound, RunsSound
        <5>2. t \in Slots \ {s}
          BY <3>2, <5>1
        <5> QED  BY <1>1, <1>2, <1>5, <4>1, <5>1, <5>2
      <4> QED  BY <3>2, <4>1, <4>2
    <3> QED  BY <3>1, <3>2
  <2> QED  BY <2>1 DEF RunsSound, InException, Slots
<1> QED  BY <1>1, <1>5, <1>7, <1>8, <1>9, <1>10 DEF Sound

(* So has a slot that becomes the last one.                                *)
LEMMA LastType ==
    ASSUME NEW d \in SlotData, NEW e, e = [d EXCEPT !.link = End, !.inst3 = Pop]
    PROVE  /\ e \in SlotData /\ e.link = End /\ e.inst3 = Pop
           /\ e.first = d.first /\ e.handler = d.handler /\ e.priority = d.priority
BY Numbers DEF SlotData

(* The new contents of the slots when the last one of a chain is freed.    *)
LEMMA LastShape ==
    ASSUME IrqTypeOK, NEW s \in Slots,
           slot' = [t \in Slots |-> slot'[t]],
           slot'[s] = Freed(free_head),
           \A t \in Slots \ {s} :
              /\ slot[t].link = s => slot'[t] = [slot[t] EXCEPT !.link = End, !.inst3 = Pop]
              /\ slot[t].link # s => slot'[t] = slot[t]
    PROVE  /\ slot' \in [Slots -> SlotData] /\ slot'[s] = Freed(free_head)
           /\ \A t \in Slots : slot'[t].link \in Slots \cup {End} \/ slot'[t].inst3 = Leave
           /\ \A t \in Slots \ {s} :
                 /\ slot'[t].first = slot[t].first /\ slot'[t].handler = slot[t].handler
                 /\ slot'[t].priority = slot[t].priority
                 /\ slot[t].link = s => slot'[t].link = End /\ slot'[t].inst3 = Pop
                 /\ slot[t].link # s =>
                       slot'[t].link = slot[t].link /\ slot'[t].inst3 = slot[t].inst3
<1>1. slot'[s] = Freed(free_head) /\ slot'[s] \in SlotData /\ slot'[s].link \in Slots \cup {End}
  <2>1. free_head \in Slots \cup {End}
    BY DEF IrqTypeOK
  <2>2. slot'[s] = Freed(free_head)
    OBVIOUS
  <2> QED  BY <2>1, <2>2, FreedType
<1>2. ASSUME NEW t \in Slots \ {s}
      PROVE  /\ slot'[t] \in SlotData
             /\ slot'[t].link \in Slots \cup {End} \/ slot'[t].inst3 = Leave
             /\ slot'[t].first = slot[t].first /\ slot'[t].handler = slot[t].handler
             /\ slot'[t].priority = slot[t].priority
             /\ slot[t].link = s => slot'[t].link = End /\ slot'[t].inst3 = Pop
             /\ slot[t].link # s =>
                   slot'[t].link = slot[t].link /\ slot'[t].inst3 = slot[t].inst3
  <2>1. slot[t] \in SlotData /\ (slot[t].link \in Slots \cup {End} \/ slot[t].inst3 = Leave)
    BY DEF IrqTypeOK
  <2>2. CASE slot[t].link = s
    <3>1. slot'[t] = [slot[t] EXCEPT !.link = End, !.inst3 = Pop]
      BY <2>2
    <3>2. /\ slot'[t] \in SlotData /\ slot'[t].link = End /\ slot'[t].inst3 = Pop
          /\ slot'[t].first = slot[t].first /\ slot'[t].handler = slot[t].handler
          /\ slot'[t].priority = slot[t].priority
      <4>1. slot[t] \in SlotData
        BY <2>1
      <4> QED  BY <3>1, <4>1, LastType
    <3>3. slot'[t].link \in Slots \cup {End}
      BY <3>2
    <3> QED  BY <2>2, <3>2, <3>3
  <2>3. CASE slot[t].link # s
    <3>1. slot'[t] = slot[t]
      BY <2>3
    <3> QED  BY <2>1, <2>3, <3>1
  <2> QED  BY <2>2, <2>3
<1>3. slot' \in [Slots -> SlotData]
  <2>1. \A t \in Slots : slot'[t] \in SlotData
    BY <1>1, <1>2
  <2> QED  BY <2>1, Zenon
<1> QED  BY <1>1, <1>2, <1>3

(* Removing the last slot from the thread: nothing is executed, and        *)
(* nothing is owed.                                                        *)
LEMMA RemoveLastKeeps ==
    ASSUME IrqInv, NEW q \in Irqs, NEW h \in Handlers, RemoveLast(q, h)
    PROVE  IrqInv'
<1>1. PICK where \in [Slots -> Lists], rank \in [Slots -> Int] : Sound(where, rank)
  BY DEF IrqInv
<1>2. IrqTypeOK
  BY DEF IrqInv
<1>a. PICK s : s = SlotOf(q, h)
  OBVIOUS
<1>3. /\ MayRemove(q, h) /\ ~InException(q) /\ slot[s].link = End
      /\ free_head' = s /\ run' = run
  BY <1>a DEF RemoveLast, Owes
<1>4. /\ s \in Slots /\ where[s] = q /\ run[q].at \notin Slots
      /\ \A t \in Slots : where[t] = q => slot[t].inst3 # Leave
  <2>0. MayRemove(q, h)
    BY <1>3
  <2>1. s \in Slots /\ where[s] = q
    BY <1>1, <1>2, <1>a, <2>0, SlotOfIs
  <2>2. run[q].at \notin Slots
    BY <1>1, <1>3 DEF Sound, RunsSound
  <2> QED  BY <1>1, <2>1, <2>2, LeavingSlot
<1>5. /\ vtable' = [vtable EXCEPT ![q] = IF vtable[q] = s THEN Unhandled ELSE vtable[q]]
      /\ due' = [due EXCEPT ![q] = due[q] \ {h}]
  BY <1>a DEF RemoveLast, Owes
<1>6. slot' = [t \in Slots |->
         IF t = s THEN Freed(free_head)
         ELSE IF t \in Before(q, s) THEN [slot[t] EXCEPT !.link = End, !.inst3 = Pop]
         ELSE slot[t]]
  BY <1>4, <1>a DEF RemoveLast
<1>7. \A t \in Slots : t \in Before(q, s) <=> slot[t].link = s
  BY <1>1, <1>4, ListFacts, ChainFacts DEF Before, Sound
<1>14. /\ slot' = [t \in Slots |-> slot'[t]] /\ slot'[s] = Freed(free_head)
       /\ \A t \in Slots \ {s} :
             /\ slot[t].link = s => slot'[t] = [slot[t] EXCEPT !.link = End, !.inst3 = Pop]
             /\ slot[t].link # s => slot'[t] = slot[t]
  BY <1>4, <1>6, <1>7
<1>8. /\ slot' \in [Slots -> SlotData] /\ slot'[s] = Freed(free_head)
      /\ \A t \in Slots : slot'[t].link \in Slots \cup {End} \/ slot'[t].inst3 = Leave
      /\ \A t \in Slots \ {s} :
            /\ slot'[t].first = slot[t].first /\ slot'[t].handler = slot[t].handler
            /\ slot'[t].priority = slot[t].priority
            /\ slot[t].link = s => slot'[t].link = End /\ slot'[t].inst3 = Pop
            /\ slot[t].link # s =>
                  slot'[t].link = slot[t].link /\ slot'[t].inst3 = slot[t].inst3
  BY <1>2, <1>4, <1>14, LastShape
<1>9. due[q] = {}
  BY <1>1, <1>4 DEF Sound, RunsSound
<1>10. /\ vtable'[q] = IF vtable[q] = s THEN Unhandled ELSE vtable[q]
       /\ \A r \in Irqs \ {q} :
             vtable'[r] = vtable[r] /\ run'[r] = run[r] /\ due'[r] = due[r]
       /\ due'[q] = {} /\ run'[q] = run[q]
  BY <1>2, <1>3, <1>5, <1>9 DEF IrqTypeOK
<1>11. IrqTypeOK'
  <2>1. vtable' \in [Irqs -> Slots \cup Handlers \cup {Unhandled}]
    BY <1>2, <1>5 DEF IrqTypeOK
  <2>2. due' \in [Irqs -> SUBSET Handlers]
    BY <1>2, <1>5 DEF IrqTypeOK
  <2> QED  BY <1>2, <1>3, <1>4, <1>8, <2>1, <2>2 DEF IrqTypeOK, Slots, SlotData
<1>12. slot[s].link \notin Slots
  BY <1>3, Numbers
<1>13. \A t \in Slots \ {s} : where[t] = q =>
          slot[t].inst3 # Leave /\ slot[t].handler # run'[q].handler
  BY <1>1, <1>3, <1>4, Numbers DEF Sound, HandlersSound, InException
<1>15. \E where2 \in [Slots -> Lists], rank2 \in [Slots -> Int] : Sound(where2, rank2)'
  BY <1>1, <1>2, <1>3, <1>4, <1>8, <1>10, <1>12, <1>13, LastFreed
<1> QED  BY <1>11, <1>15 DEF IrqInv, Slots, Lists

(* irq_add_tail_to_free_list: at most one slot links to the one that       *)
(* leaves, so the least of them is the one before it.                      *)
LEMMA LeavesChainKeeps ==
    ASSUME IrqInv, NEW q \in Irqs, LeavesChain(q)
    PROVE  IrqInv'
<1>1. PICK where \in [Slots -> Lists], rank \in [Slots -> Int] : Sound(where, rank)
  BY DEF IrqInv
<1>2. IrqTypeOK
  BY DEF IrqInv
<1>a. PICK s : s = run[q].at
  OBVIOUS
<1>3. /\ InException(q) /\ s \in Slots /\ slot[s].inst3 = Leave
      /\ free_head' = s /\ due' = due /\ run' = [run EXCEPT ![q] = Off]
  BY <1>a DEF LeavesChain
<1>4. where[s] = q /\ slot[s].link \notin Slots
  BY <1>1, <1>3, <1>a, LeavingSlot DEF Sound, RunsSound
<1>5. \A t \in Slots \ {s} : where[t] = q =>
         slot[t].inst3 # Leave /\ slot[t].handler # Off.handler
  <2>1. \A t \in Slots \ {s} : where[t] = q => slot[t].inst3 # Leave
    BY <1>1, <1>a, LeavingSlot
  <2>2. \A t \in Slots : where[t] = q => slot[t].handler \in Handlers
    BY <1>1 DEF Sound, HandlersSound
  <2> QED  BY <2>1, <2>2, Numbers DEF Off
<1>6. due[q] = {}
  <2> SUFFICES ASSUME NEW d \in due[q] PROVE FALSE
    OBVIOUS
  <2>1. PICK t \in Slots : where[t] = q /\ rank[run[q].at] < rank[t]
    BY <1>1 DEF Sound, RunsSound
  <2> QED  BY <1>1, <1>3, <1>4, <1>a, <2>1, ListFacts DEF Sound
<1> DEFINE S == {t \in Slots : slot[t].link = s}
<1>7. /\ slot' = [t \in Slots |->
            IF t = s THEN Freed(free_head)
            ELSE IF t \in S THEN [slot[t] EXCEPT !.link = End, !.inst3 = Pop] ELSE slot[t]]
      /\ vtable' = [vtable EXCEPT ![q] = IF vtable[q] = s THEN Unhandled ELSE vtable[q]]
  <2>0. slot \in [Slots -> SlotData] /\ vtable \in [Irqs -> Slots \cup Handlers \cup {Unhandled}]
    BY <1>2 DEF IrqTypeOK
  <2>1. CASE vtable[q] = s
    <3>1. slot' = [slot EXCEPT ![s] = Freed(free_head)] /\ vtable' = [vtable EXCEPT ![q] = Unhandled]
      BY <1>a, <2>1 DEF LeavesChain
    <3>2. \A t \in Slots : t \notin S
      BY <1>1, <1>3, <2>1, ListFacts DEF Sound
    <3> QED  BY <1>3, <2>0, <2>1, <3>1, <3>2
  <2>2. CASE vtable[q] # s
    <3>1. PICK u : u = Least(Linked(s))
      OBVIOUS
    <3>2. /\ Linked(s) # {} /\ vtable' = vtable
          /\ slot' = [slot EXCEPT ![u].link = End, ![u].inst3 = Pop, ![s] = Freed(free_head)]
      BY <1>a, <2>2, <3>1 DEF LeavesChain
    <3>3. Linked(s) = S
      BY DEF Linked
    <3>4. PICK t \in S : TRUE
      BY <3>2, <3>3
    <3>5. S = {t}
      BY <1>1, <1>3, ListFacts DEF Sound
    <3>6. t <= t
      BY Numbers
    <3>7. u = t
      BY <3>1, <3>3, <3>5, <3>6 DEF Least
    <3>8. S = {u} /\ u \in Slots /\ u # s
      <4>1. u \in Slots /\ S = {u} /\ slot[u].link = s
        BY <3>5, <3>7
      <4> QED  BY <1>3, <1>4, <4>1
    <3>9. slot' = [t1 \in Slots |->
            IF t1 = s THEN Freed(free_head)
            ELSE IF t1 \in S THEN [slot[t1] EXCEPT !.link = End, !.inst3 = Pop] ELSE slot[t1]]
      <4> HIDE DEF S
      <4> QED  BY <1>3, <2>0, <3>2, <3>8
    <3>10. vtable' = [vtable EXCEPT ![q] = IF vtable[q] = s THEN Unhandled ELSE vtable[q]]
      BY <2>0, <2>2, <3>2
    <3> QED  BY <3>9, <3>10
  <2> QED  BY <2>1, <2>2
<1>14. /\ slot' = [t \in Slots |-> slot'[t]] /\ slot'[s] = Freed(free_head)
       /\ \A t \in Slots \ {s} :
             /\ slot[t].link = s => slot'[t] = [slot[t] EXCEPT !.link = End, !.inst3 = Pop]
             /\ slot[t].link # s => slot'[t] = slot[t]
  BY <1>3, <1>7
<1>8. /\ slot' \in [Slots -> SlotData] /\ slot'[s] = Freed(free_head)
      /\ \A t \in Slots : slot'[t].link \in Slots \cup {End} \/ slot'[t].inst3 = Leave
      /\ \A t \in Slots \ {s} :
            /\ slot'[t].first = slot[t].first /\ slot'[t].handler = slot[t].handler
            /\ slot'[t].priority = slot[t].priority
            /\ slot[t].link = s => slot'[t].link = End /\ slot'[t].inst3 = Pop
            /\ slot[t].link # s =>
                  slot'[t].link = slot[t].link /\ slot'[t].inst3 = slot[t].inst3
  <2> HIDE DEF S
  <2> QED  BY <1>2, <1>3, <1>14, LastShape
<1>9. /\ vtable'[q] = IF vtable[q] = s THEN Unhandled ELSE vtable[q]
      /\ \A r \in Irqs \ {q} :
            vtable'[r] = vtable[r] /\ run'[r] = run[r] /\ due'[r] = due[r]
      /\ due'[q] = {} /\ run'[q] = Off
  BY <1>2, <1>3, <1>6, <1>7 DEF IrqTypeOK
<1>10. IrqTypeOK'
  <2>1. vtable' \in [Irqs -> Slots \cup Handlers \cup {Unhandled}]
    BY <1>2, <1>7 DEF IrqTypeOK
  <2>2. run' \in [Irqs -> [at : Slots \cup {End}, handler : Handlers \cup {Unhandled}]]
    BY <1>2, <1>3 DEF IrqTypeOK, Off
  <2> QED  BY <1>2, <1>3, <1>8, <2>1, <2>2 DEF IrqTypeOK, Slots, SlotData
<1>11. run'[q].at \notin Slots
  BY <1>9, Numbers DEF Off
<1>12. \A t \in Slots \ {s} : where[t] = q =>
          slot[t].inst3 # Leave /\ slot[t].handler # run'[q].handler
  BY <1>5, <1>9
<1>13. \E where2 \in [Slots -> Lists], rank2 \in [Slots -> Int] : Sound(where2, rank2)'
  <2> HIDE DEF S
  <2> QED  BY <1>1, <1>2, <1>3, <1>4, <1>8, <1>9, <1>11, <1>12, LastFreed
<1> QED  BY <1>10, <1>13 DEF IrqInv, Slots, Lists

(* The next slot, copied over the one removed, takes its place and its     *)
(* rank: what ranked between them was nobody, and the interrupt goes on    *)
(* behind.                                                                 *)
LEMMA RemoveInnerKeeps ==
    ASSUME IrqInv, NEW q \in Irqs, NEW h \in Handlers, RemoveInner(q, h)
    PROVE  IrqInv'
<1>1. PICK where \in [Slots -> Lists], rank \in [Slots -> Int] : Sound(where, rank)
  BY DEF IrqInv
<1>2. IrqTypeOK
  BY DEF IrqInv
<1>a. PICK s : s = SlotOf(q, h)
  OBVIOUS
<1>b. PICK n : n = slot[s].link
  OBVIOUS
<1>3. MayRemove(q, h) /\ n \in Slots /\ free_head' = n /\ run' = run /\ vtable' = vtable
  BY <1>a, <1>b DEF RemoveInner, Owes
<1>4. /\ s \in Slots /\ where[s] = q /\ slot[s].handler = h
      /\ InException(q) => run[q].at = s /\ run[q].handler = h
      /\ \A t \in Slots : where[t] = q => slot[t].inst3 # Leave
      /\ ~InException(q) => run[q].at \notin Slots
  BY <1>1, <1>2, <1>3, <1>a, SlotOfIs
<1>5. /\ slot' = [slot EXCEPT
           ![s] = [slot[n] EXCEPT !.first = slot[s].first,
                     !.inst3 = IF slot[n].link >= 0 THEN slot[n].inst3 ELSE Pop],
           ![n] = Freed(free_head)]
      /\ due' = [due EXCEPT ![q] =
                   due[q] \ (IF InException(q) THEN {h, slot[n].handler} ELSE {h})]
  BY <1>a, <1>b DEF RemoveInner, Owes
<1>6. where[n] = q /\ rank[s] < rank[n] /\ n # s
  <2>1. where[n] = q /\ rank[s] < rank[n]
    BY <1>1, <1>3, <1>4, <1>b, ListFacts DEF Sound
  <2> QED  BY <2>1, <1>4
<1>c. PICK copy : copy = [slot[n] EXCEPT !.first = slot[s].first,
                            !.inst3 = IF slot[n].link >= 0 THEN slot[n].inst3 ELSE Pop]
  OBVIOUS
<1>7. /\ copy \in SlotData /\ copy.first = slot[s].first /\ copy.link = slot[n].link
      /\ copy.priority = slot[n].priority /\ copy.handler = slot[n].handler
      /\ slot[n].link >= 0 => copy.inst3 = slot[n].inst3
      /\ ~(slot[n].link >= 0) => copy.inst3 = Pop
  <2>1. slot[n] \in SlotData /\ slot[s].first \in BOOLEAN
    BY <1>2, <1>3, <1>4 DEF IrqTypeOK, SlotData
  <2> QED  BY <1>c, <2>1, Numbers DEF SlotData
<1>8. Freed(free_head) \in SlotData /\ Freed(free_head).link = free_head
      /\ Freed(free_head).inst3 # Leave /\ free_head \in Slots \cup {End}
  BY <1>2, FreedType DEF IrqTypeOK
<1>9. /\ slot' \in [Slots -> SlotData] /\ slot'[s] = copy /\ slot'[n] = Freed(free_head)
      /\ \A t \in Slots \ {s, n} : slot'[t] = slot[t]
  <2>1. slot' = [slot EXCEPT ![s] = copy, ![n] = Freed(free_head)]
    BY <1>5, <1>c, Zenon
  <2>2. slot \in [Slots -> SlotData]
    BY <1>2 DEF IrqTypeOK
  <2> QED  BY <1>3, <1>4, <1>6, <1>7, <1>8, <2>1, <2>2
<1>10. /\ slot[n].link \in Slots => slot'[s].link \in Slots /\ slot'[s].inst3 = slot[n].link
       /\ slot[n].link \notin Slots => slot'[s].link = End /\ slot'[s].inst3 = Pop
       /\ slot'[s].link = slot[n].link
  <2>1. slot[n].link \in Slots => slot[n].inst3 = slot[n].link
    BY <1>1, <1>3, <1>6 DEF Sound, CodeSound
  <2>2. slot[n].link \in Slots \/ slot[n].link = End
    BY <1>2, <1>3, <1>4, <1>6 DEF IrqTypeOK
  <2>3. (slot[n].link \in Slots => slot[n].link >= 0) /\ ~(End >= 0)
    BY IrqChainAssumption DEF End, Slots
  <2> QED  BY <1>7, <1>9, <2>1, <2>2, <2>3, Numbers
<1>11. /\ \A d \in due'[q] : d \in due[q] /\ (InException(q) => d # slot[n].handler)
       /\ \A r \in Irqs \ {q} : due'[r] = due[r]
       /\ due' \in [Irqs -> SUBSET Handlers]
  BY <1>2, <1>5 DEF IrqTypeOK
<1>12. IrqTypeOK'
  <2>1. \A t \in Slots : slot'[t].link \in Slots \cup {End} \/ slot'[t].inst3 = Leave
    BY <1>2, <1>8, <1>9, <1>10 DEF IrqTypeOK
  <2> QED  BY <1>2, <1>3, <1>9, <1>11, <2>1 DEF IrqTypeOK, Slots, SlotData
<1>d. PICK where2 : where2 = [where EXCEPT ![n] = Free]
  OBVIOUS
<1>13. /\ where2 \in [Slots -> Lists] /\ where2[n] = Free
       /\ \A t \in Slots \ {n} : where2[t] = where[t]
       /\ \A t \in Slots : where2[t] \in Irqs => t # n /\ where2[t] = where[t]
  BY <1>3, <1>d, FreeIsNoIrq DEF Lists
<1>14. PICK rank2 \in [Slots -> Int] :
          /\ \A t \in Slots \ {n} : rank2[t] = rank[t]
          /\ ListsOrdered(where2, rank2)'
  <2>1. slot'[n].link = free_head
    BY <1>8, <1>9
  <2>2. \A t \in Slots \ {n} :
           /\ slot[t].link = n => Same(Slots, slot'[t].link, slot[n].link)
           /\ slot[t].link # n => Same(Slots, slot'[t].link, slot[t].link)
    <3>1. \A t \in Slots : slot[t].link = n => t = s
      BY <1>1, <1>3, <1>4, <1>b, ListFacts DEF Sound
    <3> QED  BY <1>4, <1>6, <1>9, <1>10, <1>b, <3>1 DEF Same
  <2>3. vtable[q] # n
    BY <1>1, <1>3, <1>4, <1>b, ListFacts DEF Sound
  <2>4. Same(Slots, vtable'[q], vtable[q]) /\ \A r \in Irqs \ {q} : vtable'[r] = vtable[r]
    BY <1>3 DEF Same
  <2>5. ListsOrdered(where, rank)
    BY <1>1 DEF Sound
  <2> QED  BY <1>3, <1>6, <1>13, <2>1, <2>2, <2>3, <2>4, <2>5, SlotFreed
<1>15. CodeSound(where2)'
  <2>1. ASSUME NEW t \in Slots, where2[t] \in Irqs
        PROVE  /\ slot'[t].first <=> t = vtable'[where2[t]]
               /\ slot'[t].link \in Slots => slot'[t].inst3 = slot'[t].link
               /\ slot'[t].link \notin Slots =>
                     \/ slot'[t].inst3 = Pop /\ slot'[t].link = End
                     \/ /\ slot'[t].inst3 = Leave /\ slot'[t].link = Trash(t)
                        /\ run'[where2[t]] = [at |-> t, handler |-> slot'[t].handler]
    <3>1. CASE t = s
      <4>1. slot'[s].first <=> s = vtable[q]
        BY <1>1, <1>4, <1>7, <1>9 DEF Sound, CodeSound
      <4>2. where2[s] = q
        BY <1>4, <1>6, <1>13
      <4> QED  BY <1>3, <1>10, <3>1, <4>1, <4>2
    <3>2. CASE t # s
      <4>1. t # n /\ where2[t] = where[t] /\ slot'[t] = slot[t]
        BY <1>9, <1>13, <2>1, <3>2
      <4> QED  BY <1>1, <1>3, <2>1, <4>1 DEF Sound, CodeSound
    <3> QED  BY <3>1, <3>2
  <2>2. ASSUME NEW t \in Slots, where2[t] = Free PROVE slot'[t].inst3 # Leave
    <3>1. CASE t = n
      BY <1>8, <1>9, <3>1
    <3>2. CASE t # n
      <4>1. where[t] = Free /\ t # s
        BY <1>4, <1>13, <2>2, <3>2, FreeIsNoIrq
      <4>2. slot'[t] = slot[t]
        BY <1>9, <3>2, <4>1
      <4> QED  BY <1>1, <4>1, <4>2 DEF Sound, CodeSound
    <3> QED  BY <3>1, <3>2
  <2> QED  BY <2>1, <2>2 DEF CodeSound, Slots, Trash
<1>16. slot[n].handler # run[q].handler /\ slot[n].handler \in Handlers
  <2>1. slot[n].handler \in Handlers /\ slot[n].handler # h
    BY <1>1, <1>3, <1>4, <1>6 DEF Sound, HandlersSound
  <2>2. CASE InException(q)
    BY <1>4, <2>1, <2>2
  <2>3. CASE ~InException(q)
    BY <2>1, <2>3, Numbers DEF InException
  <2> QED  BY <2>1, <2>2, <2>3
<1>17. /\ slot'[s].handler = slot[n].handler /\ slot'[s].priority = slot[n].priority
       /\ slot'[s].inst3 # Leave
  BY <1>3, <1>7, <1>9, <1>10, Numbers
<1>18. HandlersSound(where2)'
  <2>1. ASSUME NEW t \in Slots, where2[t] \in Irqs
        PROVE  /\ slot'[t].handler \in Handlers
               /\ slot'[t].handler = run'[where2[t]].handler => t = run'[where2[t]].at
               /\ \A u \in Slots :
                     where2[u] = where2[t] /\ slot'[u].handler = slot'[t].handler => u = t
    <3>1. /\ t # n /\ where2[t] = where[t]
          /\ \A u \in Slots : where2[u] = where2[t] => u # n /\ where[u] = where[t]
      BY <1>13, <2>1, FreeIsNoIrq
    <3>2. CASE t = s
      <4>1. \A u \in Slots : u # n /\ where[u] = q => slot[u].handler # slot[n].handler
        BY <1>1, <1>3, <1>6 DEF Sound, HandlersSound
      <4> QED  BY <1>3, <1>4, <1>9, <1>16, <1>17, <3>1, <3>2, <4>1
    <3>3. CASE t # s
      <4>1. slot'[t] = slot[t]
        BY <1>9, <3>1, <3>3
      <4>2. ASSUME NEW u \in Slots, where2[u] = where2[t], slot'[u].handler = slot'[t].handler
            PROVE  u = t
        <5>1. CASE u = s
          BY <1>1, <1>3, <1>4, <1>6, <1>17, <2>1, <3>1, <4>1, <4>2,
             <5>1 DEF Sound, HandlersSound
        <5>2. CASE u # s
          BY <1>1, <1>9, <2>1, <3>1, <4>1, <4>2, <5>2 DEF Sound, HandlersSound
        <5> QED  BY <5>1, <5>2
      <4> QED  BY <1>1, <1>3, <2>1, <3>1, <4>1, <4>2 DEF Sound, HandlersSound
    <3> QED  BY <3>2, <3>3
  <2> QED  BY <2>1 DEF HandlersSound, Slots
<1>19. PrioritiesSorted(where2, rank2)'
  <2>1. ASSUME NEW x \in Slots, NEW y \in Slots, where2[x] \in Irqs, where2[y] = where2[x],
               rank2[x] < rank2[y], slot'[y].inst3 # Leave
        PROVE  slot'[x].priority >= slot'[y].priority
    <3>1. /\ x # n /\ y # n /\ where[x] \in Irqs /\ where[y] = where[x]
          /\ rank[x] < rank[y]
      BY <1>13, <1>14, <2>1
    <3>2. CASE x = s
      <4>1. y # s /\ slot'[y] = slot[y]
        BY <1>4, <1>9, <3>1, <3>2
      <4>2. rank[n] < rank[y]
        <5>1. rank[n] <= rank[y]
          BY <1>1, <1>b, <3>1, <3>2, ListFacts DEF Sound
        <5>2. rank[n] # rank[y]
          BY <1>1, <1>3, <1>4, <1>6, <3>1, <3>2, ListFacts DEF Sound
        <5> QED  BY <1>3, <5>1, <5>2
      <4> QED  BY <1>1, <1>3, <1>4, <1>6, <1>17, <2>1, <3>1, <3>2, <4>1,
                  <4>2 DEF Sound, PrioritiesSorted
    <3>3. CASE y = s
      <4>1. x # s /\ slot'[x] = slot[x]
        BY <1>4, <1>9, <3>1, <3>3
      <4>2. rank[x] < rank[n]
        BY <1>3, <1>6, <3>1, <3>3
      <4> QED  BY <1>1, <1>3, <1>4, <1>6, <1>17, <3>1, <3>3, <4>1,
                  <4>2 DEF Sound, PrioritiesSorted
    <3>4. CASE x # s /\ y # s
      BY <1>1, <1>9, <2>1, <3>1, <3>4 DEF Sound, PrioritiesSorted
    <3> QED  BY <3>2, <3>3, <3>4
  <2> QED  BY <2>1 DEF PrioritiesSorted, Slots
<1>20. RunsSound(where2, rank2)'
  <2>1. ASSUME NEW r \in Irqs
        PROVE  /\ run'[r].at \in Slots => run'[r].handler # Unhandled /\ where2[run'[r].at] = r
               /\ \A d \in due'[r] :
                     /\ run'[r].at \in Slots
                     /\ \E t \in Slots : /\ where2[t] = r /\ slot'[t].handler = d
                                          /\ rank2[run'[r].at] < rank2[t]
    <3>1. run[r].at \in Slots => /\ run[r].at # n /\ where[run[r].at] = r
                                 /\ run[r].handler # Unhandled
      BY <1>1, <1>4, <1>6 DEF Sound, RunsSound, InException
    <3>2. ASSUME NEW d \in due'[r]
          PROVE  /\ run[r].at \in Slots
                 /\ \E t \in Slots : /\ where2[t] = r /\ slot'[t].handler = d
                                      /\ rank2[run[r].at] < rank2[t]
      <4>1. PICK t \in Slots : /\ where[t] = r /\ slot[t].handler = d
                               /\ run[r].at \in Slots /\ rank[run[r].at] < rank[t]
        BY <1>1, <1>11, <3>2 DEF Sound, RunsSound
      <4>2. t # n /\ t # s
        BY <1>4, <1>6, <1>11, <3>2, <4>1
      <4> QED  BY <1>9, <1>13, <1>14, <3>1, <4>1, <4>2
    <3> QED  BY <1>3, <1>13, <3>1, <3>2
  <2> QED  BY <2>1 DEF RunsSound, InException, Slots
<1> QED
  BY <1>12, <1>13, <1>14, <1>15, <1>18, <1>19, <1>20 DEF IrqInv, Sound, Slots,
     Lists

----------------------------------------------------------------------------
(* The actions that put a slot into a chain.                               *)

(* A handler that may be added is not in the chain, not even leaving it.   *)
LEMMA NewHandler ==
    ASSUME NEW where \in [Slots -> Lists], NEW rank \in [Slots -> Int],
           Sound(where, rank), NEW q \in Irqs, NEW h \in Handlers, CanAdd(q, h)
    PROVE  \A t \in Slots : where[t] = q => slot[t].handler # h
<1> SUFFICES ASSUME NEW t \in Slots, where[t] = q, slot[t].handler = h PROVE FALSE
  OBVIOUS
<1>1. slot[t].inst3 = Leave
  BY InstalledIs DEF CanAdd, Sound
<1>2. run[q].handler = h
  BY <1>1, LeavingSlot
<1> QED  BY <1>2 DEF CanAdd

(* A new slot has its type.                                                *)
LEMMA NewSlotType ==
    ASSUME NEW f \in BOOLEAN, NEW i \in Slots \cup {Pop}, NEW l \in Slots \cup {End},
           NEW p \in Nat, NEW h \in Handlers
    PROVE  NewSlot(f, i, l, p, h) \in SlotData
BY Numbers DEF NewSlot, SlotData

(* The new slot holds a new handler, and the others keep their order.      *)
LEMMA AddedParts ==
    ASSUME NEW where \in [Slots -> Lists], NEW rank \in [Slots -> Int],
           Sound(where, rank),
           NEW q \in Irqs, NEW h \in Handlers, CanAdd(q, h),
           NEW w \in Slots, where[w] = Free,
           NEW where2 \in [Slots -> Lists], where2[w] = q,
           \A t \in Slots \ {w} : where2[t] = where[t],
           NEW rank2 \in [Slots -> Int],
           \A x, y \in Slots \ {w} : rank[x] < rank[y] => rank2[x] < rank2[y],
           slot'[w].handler = h,
           \A t \in Slots \ {w} : slot'[t].handler = slot[t].handler,
           run' = run, due' = due
    PROVE  HandlersSound(where2)' /\ RunsSound(where2, rank2)'
<1>1. /\ \A t \in Slots : where[t] = q => slot[t].handler # h
      /\ run[q].handler # h
  BY NewHandler DEF CanAdd
<1>2. \A t \in Slots : where[t] \in Irqs => t # w
  BY FreeIsNoIrq
<1>3. HandlersSound(where2)'
  <2>1. ASSUME NEW t \in Slots, where2[t] \in Irqs
        PROVE  /\ slot'[t].handler \in Handlers
               /\ slot'[t].handler = run'[where2[t]].handler => t = run'[where2[t]].at
               /\ \A u \in Slots :
                     where2[u] = where2[t] /\ slot'[u].handler = slot'[t].handler => u = t
    <3>1. CASE t = w
      BY <1>1, <3>1
    <3>2. CASE t # w
      <4>1. where2[t] = where[t] /\ slot'[t].handler = slot[t].handler
        BY <3>2
      <4>2. ASSUME NEW u \in Slots, where2[u] = where2[t], slot'[u].handler = slot'[t].handler
            PROVE  u = t
        <5>1. CASE u = w
          BY <1>1, <4>1, <4>2, <5>1
        <5>2. CASE u # w
          BY <2>1, <4>1, <4>2, <5>2 DEF Sound, HandlersSound
        <5> QED  BY <5>1, <5>2
      <4> QED  BY <2>1, <4>1, <4>2 DEF Sound, HandlersSound
    <3> QED  BY <3>1, <3>2
  <2> QED  BY <2>1 DEF HandlersSound, Slots
<1>4. RunsSound(where2, rank2)'
  <2>1. ASSUME NEW r \in Irqs
        PROVE  /\ run[r].at \in Slots => run[r].handler # Unhandled /\ where2[run[r].at] = r
               /\ \A d \in due[r] :
                     /\ run[r].at \in Slots
                     /\ \E t \in Slots : /\ where2[t] = r /\ slot'[t].handler = d
                                          /\ rank2[run[r].at] < rank2[t]
    <3>1. run[r].at \in Slots => /\ run[r].at \in Slots \ {w} /\ where[run[r].at] = r
                                 /\ run[r].handler # Unhandled
      BY <1>2 DEF Sound, RunsSound, InException
    <3>2. ASSUME NEW d \in due[r]
          PROVE  /\ run[r].at \in Slots
                 /\ \E t \in Slots : /\ where2[t] = r /\ slot'[t].handler = d
                                      /\ rank2[run[r].at] < rank2[t]
      <4>1. PICK t \in Slots : /\ where[t] = r /\ slot[t].handler = d
                               /\ run[r].at \in Slots /\ rank[run[r].at] < rank[t]
        BY <3>2 DEF Sound, RunsSound
      <4>2. t \in Slots \ {w}
        BY <1>2, <4>1
      <4> QED  BY <3>1, <4>1, <4>2
    <3> QED  BY <3>1, <3>2
  <2> QED  BY <2>1 DEF RunsSound, InException, Slots
<1> QED  BY <1>3, <1>4

(* A chain of one slot.                                                    *)
LEMMA StartChainKeeps ==
    ASSUME IrqInv, NEW q \in Irqs, NEW h \in Handlers, NEW p \in Priorities,
           StartChain(q, h, p)
    PROVE  IrqInv'
<1>1. PICK where \in [Slots -> Lists], rank \in [Slots -> Int] : Sound(where, rank)
  BY DEF IrqInv
<1>2. IrqTypeOK /\ p \in Nat
  BY Numbers DEF IrqInv
<1>a. PICK w : w = free_head
  OBVIOUS
<1>3. /\ CanAdd(q, h) /\ ~IsShared(q) /\ w \in Slots
      /\ free_head' = slot[w].link /\ run' = run /\ due' = due
  BY <1>a DEF StartChain, CanAdd, TakesSlot
<1>4. /\ slot' = [slot EXCEPT ![w] = NewSlot(TRUE, Pop, End, p, h)]
      /\ vtable' = [vtable EXCEPT ![q] = w]
  BY <1>a DEF StartChain
<1>5. NewSlot(TRUE, Pop, End, p, h) \in SlotData
  BY <1>2, NewSlotType
<1>6. /\ slot' \in [Slots -> SlotData] /\ \A t \in Slots \ {w} : slot'[t] = slot[t]
      /\ slot'[w].first = TRUE /\ slot'[w].inst3 = Pop /\ slot'[w].link = End
      /\ slot'[w].priority = p /\ slot'[w].handler = h
  <2>1. slot' \in [Slots -> SlotData] /\ \A t \in Slots \ {w} : slot'[t] = slot[t]
    BY <1>2, <1>3, <1>4, <1>5 DEF IrqTypeOK
  <2>2. slot'[w] = NewSlot(TRUE, Pop, End, p, h)
    BY <1>2, <1>3, <1>4 DEF IrqTypeOK
  <2> QED  BY <2>1, <2>2 DEF NewSlot
<1>7. vtable'[q] = w /\ \A r \in Irqs \ {q} : vtable'[r] = vtable[r]
  BY <1>2, <1>4 DEF IrqTypeOK
<1>8. where[w] = Free
  BY <1>1, <1>3, <1>a, ListFacts DEF Sound
<1>9. slot[w].link \in Slots \cup {End}
  BY <1>1, <1>2, <1>3, <1>8 DEF IrqTypeOK, Sound, CodeSound
<1>10. IrqTypeOK'
  <2>1. vtable' \in [Irqs -> Slots \cup Handlers \cup {Unhandled}]
    BY <1>2, <1>3, <1>4 DEF IrqTypeOK
  <2>2. \A t \in Slots : slot'[t].link \in Slots \cup {End} \/ slot'[t].inst3 = Leave
    BY <1>2, <1>6 DEF IrqTypeOK
  <2> QED  BY <1>2, <1>3, <1>6, <1>9, <2>1, <2>2 DEF IrqTypeOK, Slots, SlotData
<1>11. \A t \in Slots : where[t] # q
  BY <1>1, <1>3, ListFacts DEF Sound, IsShared
<1>b. PICK where2 : where2 = [where EXCEPT ![w] = q]
  OBVIOUS
<1>12. /\ where2 \in [Slots -> Lists] /\ where2[w] = q
       /\ \A t \in Slots \ {w} : where2[t] = where[t]
  BY <1>3, <1>b DEF Lists
<1>13. PICK rank2 \in [Slots -> Int] :
          /\ \A s \in Slots \ {w} : rank2[s] = rank[s]
          /\ ListsOrdered(where2, rank2)'
  <2>1. Same(Slots, slot'[w].link, vtable[q])
    BY <1>3, <1>6, Numbers DEF Same, IsShared
  <2>2. \A s \in Slots \ {w} : Same(Slots, slot'[s].link, slot[s].link)
    BY <1>6 DEF Same
  <2>3. ListsOrdered(where, rank)
    BY <1>1 DEF Sound
  <2> QED  BY <1>3, <1>7, <1>12, <1>a, <2>1, <2>2, <2>3, SlotPushed
<1>14. HandlersSound(where2)' /\ RunsSound(where2, rank2)'
  <2>1. \A t \in Slots \ {w} : slot'[t].handler = slot[t].handler
    BY <1>6
  <2>2. \A x, y \in Slots \ {w} : rank[x] < rank[y] => rank2[x] < rank2[y]
    BY <1>13
  <2> QED  BY <1>1, <1>3, <1>6, <1>8, <1>12, <1>13, <2>1, <2>2, AddedParts
<1>15. CodeSound(where2)'
  <2>1. ASSUME NEW t \in Slots
        PROVE  /\ where2[t] = Free => slot'[t].inst3 # Leave
               /\ where2[t] \in Irqs =>
                     /\ slot'[t].first <=> t = vtable'[where2[t]]
                     /\ slot'[t].link \in Slots => slot'[t].inst3 = slot'[t].link
                     /\ slot'[t].link \notin Slots =>
                           \/ slot'[t].inst3 = Pop /\ slot'[t].link = End
                           \/ /\ slot'[t].inst3 = Leave /\ slot'[t].link = Trash(t)
                              /\ run'[where2[t]] = [at |-> t, handler |-> slot'[t].handler]
    <3>1. CASE t = w
      BY <1>6, <1>7, <1>12, <3>1, Numbers, FreeIsNoIrq
    <3>2. CASE t # w
      <4>1. where2[t] = where[t] /\ where[t] # q /\ slot'[t] = slot[t]
        BY <1>6, <1>11, <1>12, <3>2
      <4> QED  BY <1>1, <1>3, <1>7, <4>1 DEF Sound, CodeSound
    <3> QED  BY <3>1, <3>2
  <2> QED  BY <2>1 DEF CodeSound, Slots, Trash
<1>16. PrioritiesSorted(where2, rank2)'
  <2>1. ASSUME NEW x \in Slots, NEW y \in Slots, where2[x] \in Irqs, where2[y] = where2[x],
               rank2[x] < rank2[y], slot'[y].inst3 # Leave
        PROVE  slot'[x].priority >= slot'[y].priority
    <3>1. x # y
      BY <1>13, <2>1
    <3>2. x # w /\ y # w /\ where[x] \in Irqs /\ where[y] = where[x] /\ rank[x] < rank[y]
      BY <1>11, <1>12, <1>13, <2>1, <3>1
    <3> QED  BY <1>1, <1>6, <2>1, <3>2 DEF Sound, PrioritiesSorted
  <2> QED  BY <2>1 DEF PrioritiesSorted, Slots
<1> QED
  BY <1>10, <1>12, <1>13, <1>14, <1>15, <1>16 DEF IrqInv, Sound, Slots, Lists

(* A new head ranks below the old one; an interrupt in progress has passed *)
(* it.                                                                     *)
LEMMA NewHeadKeeps ==
    ASSUME IrqInv, NEW q \in Irqs, NEW h \in Handlers, NEW p \in Priorities,
           NewHead(q, h, p)
    PROVE  IrqInv'
<1>1. PICK where \in [Slots -> Lists], rank \in [Slots -> Int] : Sound(where, rank)
  BY DEF IrqInv
<1>2. IrqTypeOK /\ p \in Nat
  BY Numbers DEF IrqInv
<1>a. PICK w : w = free_head
  OBVIOUS
<1>b. PICK v : v = vtable[q]
  OBVIOUS
<1>3. /\ CanAdd(q, h) /\ v \in Slots /\ w \in Slots /\ Ahead(q, p) = {}
      /\ free_head' = slot[w].link /\ run' = run /\ due' = due
  BY <1>a, <1>b DEF NewHead, CanAdd, TakesSlot, IsShared
<1>4. /\ slot' = [slot EXCEPT ![w] = NewSlot(TRUE, v, v, p, h), ![v].first = FALSE]
      /\ vtable' = [vtable EXCEPT ![q] = w]
  BY <1>a, <1>b DEF NewHead
<1>5. where[w] = Free /\ where[v] = q /\ v # w
  <2>1. where[w] = Free /\ where[v] = q
    BY <1>1, <1>3, <1>a, <1>b, ListFacts DEF Sound
  <2> QED  BY <2>1, FreeIsNoIrq
<1>6. NewSlot(TRUE, v, v, p, h) \in SlotData
  BY <1>2, <1>3, NewSlotType
<1>c. PICK old : old = [slot[v] EXCEPT !.first = FALSE]
  OBVIOUS
<1>7. /\ old \in SlotData /\ old.first = FALSE /\ old.inst3 = slot[v].inst3
      /\ old.link = slot[v].link /\ old.priority = slot[v].priority
      /\ old.handler = slot[v].handler
  <2>1. slot[v] \in SlotData
    BY <1>2, <1>3 DEF IrqTypeOK
  <2> QED  BY <1>c, <2>1 DEF SlotData
<1>8. /\ slot' \in [Slots -> SlotData] /\ slot'[w] = NewSlot(TRUE, v, v, p, h) /\ slot'[v] = old
      /\ \A t \in Slots \ {w, v} : slot'[t] = slot[t]
  <2>1. slot \in [Slots -> SlotData]
    BY <1>2 DEF IrqTypeOK
  <2> QED  BY <1>3, <1>4, <1>5, <1>6, <1>7, <1>c, <2>1
<1>9. /\ slot'[w].first = TRUE /\ slot'[w].inst3 = v /\ slot'[w].link = v
      /\ slot'[w].priority = p /\ slot'[w].handler = h
      /\ \A t \in Slots \ {w} :
            /\ slot'[t].inst3 = slot[t].inst3 /\ slot'[t].link = slot[t].link
            /\ slot'[t].priority = slot[t].priority /\ slot'[t].handler = slot[t].handler
      /\ slot'[v].first = FALSE
      /\ \A t \in Slots \ {w, v} : slot'[t].first = slot[t].first
  <2>1. /\ slot'[w].first = TRUE /\ slot'[w].inst3 = v /\ slot'[w].link = v
        /\ slot'[w].priority = p /\ slot'[w].handler = h
    BY <1>8 DEF NewSlot
  <2> QED  BY <1>7, <1>8, <2>1
<1>10. vtable'[q] = w /\ \A r \in Irqs \ {q} : vtable'[r] = vtable[r]
  BY <1>2, <1>4 DEF IrqTypeOK
<1>11. slot[w].link \in Slots \cup {End}
  BY <1>1, <1>2, <1>3, <1>5 DEF IrqTypeOK, Sound, CodeSound
<1>12. IrqTypeOK'
  <2>1. vtable' \in [Irqs -> Slots \cup Handlers \cup {Unhandled}]
    BY <1>2, <1>3, <1>4 DEF IrqTypeOK
  <2>2. \A t \in Slots : slot'[t].link \in Slots \cup {End} \/ slot'[t].inst3 = Leave
    BY <1>2, <1>3, <1>9 DEF IrqTypeOK
  <2> QED  BY <1>2, <1>3, <1>8, <1>11, <2>1, <2>2 DEF IrqTypeOK, Slots,
              SlotData
<1>d. PICK where2 : where2 = [where EXCEPT ![w] = q]
  OBVIOUS
<1>13. /\ where2 \in [Slots -> Lists] /\ where2[w] = q
       /\ \A t \in Slots \ {w} : where2[t] = where[t]
  BY <1>3, <1>d DEF Lists
<1>14. PICK rank2 \in [Slots -> Int] :
          /\ \A s \in Slots \ {w} : rank2[s] = rank[s]
          /\ \A s \in Slots : where[s] = q => rank2[w] < rank[s]
          /\ ListsOrdered(where2, rank2)'
  <2>1. Same(Slots, slot'[w].link, vtable[q])
    BY <1>9, <1>b DEF Same
  <2>2. \A s \in Slots \ {w} : Same(Slots, slot'[s].link, slot[s].link)
    BY <1>9 DEF Same
  <2>3. ListsOrdered(where, rank)
    BY <1>1 DEF Sound
  <2> QED  BY <1>3, <1>10, <1>13, <1>a, <2>1, <2>2, <2>3, SlotPushed
<1>15. HandlersSound(where2)' /\ RunsSound(where2, rank2)'
  <2>1. \A t \in Slots \ {w} : slot'[t].handler = slot[t].handler
    BY <1>9
  <2>2. \A x, y \in Slots \ {w} : rank[x] < rank[y] => rank2[x] < rank2[y]
    BY <1>14
  <2> QED  BY <1>1, <1>3, <1>5, <1>9, <1>13, <1>14, <2>1, <2>2, AddedParts
<1>16. CodeSound(where2)'
  <2>1. ASSUME NEW t \in Slots
        PROVE  /\ where2[t] = Free => slot'[t].inst3 # Leave
               /\ where2[t] \in Irqs =>
                     /\ slot'[t].first <=> t = vtable'[where2[t]]
                     /\ slot'[t].link \in Slots => slot'[t].inst3 = slot'[t].link
                     /\ slot'[t].link \notin Slots =>
                           \/ slot'[t].inst3 = Pop /\ slot'[t].link = End
                           \/ /\ slot'[t].inst3 = Leave /\ slot'[t].link = Trash(t)
                              /\ run'[where2[t]] = [at |-> t, handler |-> slot'[t].handler]
    <3>1. CASE t = w
      BY <1>3, <1>9, <1>10, <1>13, <3>1, FreeIsNoIrq
    <3>2. CASE t # w
      <4>1. where2[t] = where[t] /\ (where[t] \in Irqs => where[t] = q \/ where[t] \in Irqs \ {q})
        BY <1>13, <3>2
      <4>2. where[t] \in Irqs => (slot'[t].first <=> t = vtable'[where[t]])
        <5> SUFFICES ASSUME where[t] \in Irqs PROVE slot'[t].first <=> t = vtable'[where[t]]
          OBVIOUS
        <5>1. slot[t].first <=> t = vtable[where[t]]
          BY <1>1 DEF Sound, CodeSound
        <5>2. CASE t = v
          BY <1>5, <1>9, <1>10, <3>2, <5>2
        <5>3. CASE t # v /\ where[t] = q
          BY <1>9, <1>10, <1>b, <3>2, <5>1, <5>3
        <5>4. CASE t # v /\ where[t] # q
          BY <1>9, <1>10, <3>2, <5>1, <5>4
        <5> QED  BY <5>2, <5>3, <5>4
      <4>3. /\ slot'[t].inst3 = slot[t].inst3 /\ slot'[t].link = slot[t].link
            /\ slot'[t].handler = slot[t].handler
        BY <1>9, <3>2
      <4> QED  BY <1>1, <1>3, <4>1, <4>2, <4>3 DEF Sound, CodeSound
    <3> QED  BY <3>1, <3>2
  <2> QED  BY <2>1 DEF CodeSound, Slots, Trash
<1>17. slot[v].priority <= p
  <2>1. v \notin Ahead(q, p) /\ v \in Chain(q)
    BY <1>1, <1>3, <1>5, ChainFacts DEF Sound
  <2>2. PICK t \in Chain(q) : v \in SlotsFrom(t) /\ ~(slot[t].priority > p)
    BY <2>1, Zenon DEF Ahead
  <2>3. t \in Slots /\ where[t] = q /\ rank[t] <= rank[v]
    BY <1>1, <2>2, ChainFacts DEF Sound
  <2>4. rank[v] <= rank[t] /\ rank[t] \in Int /\ rank[v] \in Int
    BY <1>1, <1>3, <1>b, <2>3, ListFacts DEF Sound
  <2>5. rank[t] = rank[v]
    BY <2>3, <2>4
  <2>6. t = v
    BY <1>1, <1>3, <1>5, <2>3, <2>5, ListFacts DEF Sound
  <2>7. slot[v].priority \in Nat
    BY <1>2, <1>3 DEF IrqTypeOK, SlotData
  <2> QED  BY <1>2, <2>2, <2>6, <2>7
<1>18. \A y \in Slots : where[y] = q /\ slot[y].inst3 # Leave => p >= slot[y].priority
  <2> SUFFICES ASSUME NEW y \in Slots, where[y] = q, slot[y].inst3 # Leave
               PROVE  p >= slot[y].priority
    OBVIOUS
  <2>1. slot[v].priority \in Nat /\ slot[y].priority \in Nat
    BY <1>2, <1>3 DEF IrqTypeOK, SlotData
  <2>2. CASE y = v
    BY <1>2, <1>17, <2>1, <2>2
  <2>3. CASE y # v
    <3>1. rank[v] <= rank[y] /\ rank[v] # rank[y]
      BY <1>1, <1>3, <1>5, <1>b, <2>3, ListFacts DEF Sound
    <3>2. rank[v] < rank[y]
      BY <1>3, <3>1
    <3>3. slot[v].priority >= slot[y].priority
      BY <1>1, <1>3, <1>5, <3>2 DEF Sound, PrioritiesSorted
    <3> QED  BY <1>2, <1>17, <2>1, <3>3
  <2> QED  BY <2>2, <2>3
<1>19. PrioritiesSorted(where2, rank2)'
  <2>1. ASSUME NEW x \in Slots, NEW y \in Slots, where2[x] \in Irqs, where2[y] = where2[x],
               rank2[x] < rank2[y], slot'[y].inst3 # Leave
        PROVE  slot'[x].priority >= slot'[y].priority
    <3>1. x # y
      BY <1>14, <2>1
    <3>2. CASE x = w
      <4>1. y # w /\ where[y] = q
        BY <1>13, <2>1, <3>1, <3>2
      <4> QED  BY <1>9, <1>18, <2>1, <3>2, <4>1
    <3>3. CASE y = w
      <4>1. x # w /\ where[x] = q
        BY <1>13, <2>1, <3>1, <3>3
      <4>2. rank2[w] < rank[x] /\ rank2[x] = rank[x]
        BY <1>14, <4>1
      <4> QED  BY <1>14, <2>1, <3>3, <4>2
    <3>4. CASE x # w /\ y # w
      <4>1. where[x] \in Irqs /\ where[y] = where[x] /\ rank[x] < rank[y] /\ slot[y].inst3 # Leave
        BY <1>9, <1>13, <1>14, <2>1, <3>4
      <4> QED  BY <1>1, <1>9, <3>4, <4>1 DEF Sound, PrioritiesSorted
    <3> QED  BY <3>2, <3>3, <3>4
  <2> QED  BY <2>1 DEF PrioritiesSorted, Slots
<1> QED
  BY <1>12, <1>13, <1>14, <1>15, <1>16, <1>19 DEF IrqInv, Sound, Slots, Lists

(* A slot in the middle of a chain: the doubled ranks leave room for it,   *)
(* those before it have higher priorities and those behind it do not.      *)
LEMMA InsertBehindKeeps ==
    ASSUME IrqInv, NEW q \in Irqs, NEW h \in Handlers, NEW p \in Priorities,
           InsertBehind(q, h, p)
    PROVE  IrqInv'
<1>1. PICK where \in [Slots -> Lists], rank \in [Slots -> Int] : Sound(where, rank)
  BY DEF IrqInv
<1>2. IrqTypeOK /\ p \in Nat
  BY Numbers DEF IrqInv
<1>a. PICK w : w = free_head
  OBVIOUS
<1>b. PICK v : v = Previous(q, p)
  OBVIOUS
<1>c. PICK n, i : n = slot[v].link /\ i = IF n >= 0 THEN slot[v].inst3 ELSE Pop
  OBVIOUS
<1>3. /\ CanAdd(q, h) /\ w \in Slots /\ Ahead(q, p) # {} /\ slot[v].inst3 # Leave
      /\ free_head' = slot[w].link /\ run' = run /\ due' = due /\ vtable' = vtable
  BY <1>a, <1>b DEF InsertBehind, CanAdd, TakesSlot
<1>4. slot' = [slot EXCEPT ![v].inst3 = w, ![v].link = w, ![w] = NewSlot(FALSE, i, n, p, h)]
  BY <1>a, <1>b, <1>c DEF InsertBehind
<1>5. /\ v \in Slots /\ where[v] = q
      /\ \A t \in Slots : where[t] = q /\ rank[t] <= rank[v] => slot[t].priority > p
      /\ n \in Slots => slot[n].priority <= p
  <2>1. ListsOrdered(where, rank)
    BY <1>1 DEF Sound
  <2> QED  BY <1>2, <1>3, <1>b, <1>c, <2>1, PreviousIs
<1>6. where[w] = Free /\ v # w
  <2>1. where[w] = Free
    BY <1>1, <1>3, <1>a, ListFacts DEF Sound
  <2> QED  BY <1>5, <2>1, FreeIsNoIrq
<1>7. /\ n \in Slots => i = n
      /\ n \notin Slots => n = End /\ i = Pop
  <2>1. n \in Slots \/ n = End
    BY <1>2, <1>3, <1>5, <1>c DEF IrqTypeOK
  <2>2. (n \in Slots => n >= 0) /\ ~(End >= 0)
    BY IrqChainAssumption DEF End, Slots
  <2>3. n \in Slots => slot[v].inst3 = n
    BY <1>1, <1>5, <1>c DEF Sound, CodeSound
  <2> QED  BY <1>c, <2>1, <2>2, <2>3
<1>8. NewSlot(FALSE, i, n, p, h) \in SlotData
  BY <1>2, <1>7, NewSlotType
<1>d. PICK old : old = [slot[v] EXCEPT !.inst3 = w, !.link = w]
  OBVIOUS
<1>9. /\ old \in SlotData /\ old.first = slot[v].first /\ old.inst3 = w
      /\ old.link = w /\ old.priority = slot[v].priority
      /\ old.handler = slot[v].handler
  <2>1. slot[v] \in SlotData /\ w \in Int
    BY <1>2, <1>3, <1>5, Numbers DEF IrqTypeOK
  <2> QED  BY <1>3, <1>d, <2>1 DEF SlotData
<1>10. /\ slot' \in [Slots -> SlotData] /\ slot'[w] = NewSlot(FALSE, i, n, p, h)
       /\ slot'[v] = old
       /\ \A t \in Slots \ {w, v} : slot'[t] = slot[t]
  <2>1. slot \in [Slots -> SlotData]
    BY <1>2 DEF IrqTypeOK
  <2>2. slot' = [slot EXCEPT ![v] = old, ![w] = NewSlot(FALSE, i, n, p, h)]
    BY <1>4, <1>5, <1>6, <1>d, <2>1
  <2> QED  BY <1>3, <1>5, <1>6, <1>8, <1>9, <2>1, <2>2
<1>11. /\ slot'[w].first = FALSE /\ slot'[w].inst3 = i /\ slot'[w].link = n
       /\ slot'[w].priority = p /\ slot'[w].handler = h
       /\ slot'[v].inst3 = w /\ slot'[v].link = w
       /\ \A t \in Slots \ {w} :
             /\ slot'[t].first = slot[t].first
             /\ slot'[t].priority = slot[t].priority /\ slot'[t].handler = slot[t].handler
       /\ \A t \in Slots \ {w, v} :
             slot'[t].inst3 = slot[t].inst3 /\ slot'[t].link = slot[t].link
  <2>1. /\ slot'[w].first = FALSE /\ slot'[w].inst3 = i /\ slot'[w].link = n
        /\ slot'[w].priority = p /\ slot'[w].handler = h
    BY <1>10 DEF NewSlot
  <2> QED  BY <1>9, <1>10, <2>1
<1>12. slot[w].link \in Slots \cup {End}
  BY <1>1, <1>2, <1>3, <1>6 DEF IrqTypeOK, Sound, CodeSound
<1>13. IrqTypeOK'
  <2>1. \A t \in Slots : slot'[t].link \in Slots \cup {End} \/ slot'[t].inst3 = Leave
    BY <1>2, <1>3, <1>7, <1>11 DEF IrqTypeOK
  <2> QED  BY <1>2, <1>3, <1>10, <1>12, <2>1 DEF IrqTypeOK, Slots, SlotData
<1>e. PICK where2 : where2 = [where EXCEPT ![w] = q]
  OBVIOUS
<1>14. /\ where2 \in [Slots -> Lists] /\ where2[w] = q
       /\ \A t \in Slots \ {w} : where2[t] = where[t]
  BY <1>3, <1>e DEF Lists
<1>15. PICK rank2 \in [Slots -> Int] :
          /\ \A s \in Slots \ {w} : rank2[s] = 2 * rank[s]
          /\ rank2[w] = 2 * rank[v] + 1
          /\ ListsOrdered(where2, rank2)'
  <2>1. Same(Slots, slot'[w].link, slot[v].link) /\ slot'[v].link = w
    BY <1>11, <1>c DEF Same
  <2>2. \A s \in Slots \ {w, v} : Same(Slots, slot'[s].link, slot[s].link)
    BY <1>11 DEF Same
  <2>3. ListsOrdered(where, rank)
    BY <1>1 DEF Sound
  <2> QED  BY <1>3, <1>5, <1>14, <1>a, <2>1, <2>2, <2>3, SlotInserted
<1>16. \A s \in Slots : rank[s] \in Int /\ rank2[s] \in Int
  OBVIOUS
<1>17. HandlersSound(where2)' /\ RunsSound(where2, rank2)'
  <2>1. \A t \in Slots \ {w} : slot'[t].handler = slot[t].handler
    BY <1>11
  <2>2. \A x, y \in Slots \ {w} : rank[x] < rank[y] => rank2[x] < rank2[y]
    BY <1>15, <1>16
  <2> QED  BY <1>1, <1>3, <1>6, <1>11, <1>14, <2>1, <2>2, AddedParts
<1>18. CodeSound(where2)'
  <2>1. ASSUME NEW t \in Slots
        PROVE  /\ where2[t] = Free => slot'[t].inst3 # Leave
               /\ where2[t] \in Irqs =>
                     /\ slot'[t].first <=> t = vtable'[where2[t]]
                     /\ slot'[t].link \in Slots => slot'[t].inst3 = slot'[t].link
                     /\ slot'[t].link \notin Slots =>
                           \/ slot'[t].inst3 = Pop /\ slot'[t].link = End
                           \/ /\ slot'[t].inst3 = Leave /\ slot'[t].link = Trash(t)
                              /\ run'[where2[t]] = [at |-> t, handler |-> slot'[t].handler]
    <3>1. CASE t = w
      <4>1. vtable[q] # w
        BY <1>1, <1>3, <1>6, ListFacts, FreeIsNoIrq DEF Sound
      <4> QED  BY <1>3, <1>7, <1>11, <1>14, <3>1, <4>1, FreeIsNoIrq
    <3>2. CASE t = v
      <4>1. where2[v] = q /\ (slot[v].first <=> v = vtable[q])
        BY <1>1, <1>5, <1>6, <1>14 DEF Sound, CodeSound
      <4>2. slot'[v].first = slot[v].first
        BY <1>5, <1>6, <1>11
      <4> QED  BY <1>3, <1>11, <3>2, <4>1, <4>2, FreeIsNoIrq
    <3>3. CASE t # w /\ t # v
      <4>1. where2[t] = where[t]
        BY <1>14, <3>3
      <4>2. /\ slot'[t].inst3 = slot[t].inst3 /\ slot'[t].link = slot[t].link
            /\ slot'[t].handler = slot[t].handler /\ slot'[t].first = slot[t].first
        BY <1>11, <3>3
      <4> QED  BY <1>1, <1>3, <4>1, <4>2 DEF Sound, CodeSound
    <3> QED  BY <3>1, <3>2, <3>3
  <2> QED  BY <2>1 DEF CodeSound, Slots, Trash
<1>19. \A y \in Slots : where[y] = q /\ rank[v] < rank[y] /\ slot[y].inst3 # Leave
          => p >= slot[y].priority
  <2> SUFFICES ASSUME NEW y \in Slots, where[y] = q, rank[v] < rank[y], slot[y].inst3 # Leave
               PROVE  p >= slot[y].priority
    OBVIOUS
  <2>1. n \in Slots /\ where[n] = q /\ rank[n] <= rank[y]
    BY <1>1, <1>5, <1>c, ListFacts DEF Sound
  <2>2. slot[n].priority \in Nat /\ slot[y].priority \in Nat
    BY <1>2, <2>1 DEF IrqTypeOK, SlotData
  <2>3. CASE y = n
    BY <1>2, <1>5, <2>1, <2>2, <2>3
  <2>4. CASE y # n
    <3>1. rank[n] # rank[y]
      BY <1>1, <2>1, <2>4, ListFacts DEF Sound
    <3>2. rank[n] < rank[y]
      BY <1>16, <2>1, <3>1
    <3>3. slot[n].priority >= slot[y].priority
      BY <1>1, <2>1, <3>2 DEF Sound, PrioritiesSorted
    <3> QED  BY <1>2, <1>5, <2>1, <2>2, <3>3
  <2> QED  BY <2>3, <2>4
<1>20. PrioritiesSorted(where2, rank2)'
  <2>1. ASSUME NEW x \in Slots, NEW y \in Slots, where2[x] \in Irqs, where2[y] = where2[x],
               rank2[x] < rank2[y], slot'[y].inst3 # Leave
        PROVE  slot'[x].priority >= slot'[y].priority
    <3>1. x # y
      BY <1>16, <2>1
    <3>2. CASE x = w
      <4>1. y # w /\ where[y] = q /\ rank2[y] = 2 * rank[y]
        BY <1>14, <1>15, <2>1, <3>1, <3>2
      <4>2. rank[v] < rank[y]
        BY <1>5, <1>15, <1>16, <2>1, <3>2, <4>1
      <4>3. y # v
        BY <1>16, <4>2
      <4> QED  BY <1>11, <1>19, <2>1, <3>2, <4>1, <4>2, <4>3
    <3>3. CASE y = w
      <4>1. x # w /\ where[x] = q /\ rank2[x] = 2 * rank[x]
        BY <1>14, <1>15, <2>1, <3>1, <3>3
      <4>2. rank[x] <= rank[v]
        BY <1>5, <1>15, <1>16, <2>1, <3>3, <4>1
      <4>3. slot[x].priority > p /\ slot[x].priority \in Nat
        BY <1>2, <1>5, <4>1, <4>2 DEF IrqTypeOK, SlotData
      <4> QED  BY <1>2, <1>11, <3>3, <4>1, <4>3
    <3>4. CASE x # w /\ y # w
      <4>1. where[x] \in Irqs /\ where[y] = where[x]
        BY <1>14, <2>1, <3>4
      <4>2. rank[x] < rank[y]
        <5>1. 2 * rank[x] < 2 * rank[y]
          BY <1>15, <2>1, <3>4
        <5> QED  BY <1>16, <5>1
      <4>3. slot[y].inst3 # Leave
        BY <1>3, <1>11, <2>1, <3>4
      <4> QED  BY <1>1, <1>11, <3>4, <4>1, <4>2, <4>3 DEF Sound,
                  PrioritiesSorted
    <3> QED  BY <3>2, <3>3, <3>4
  <2> QED  BY <2>1 DEF PrioritiesSorted, Slots
<1> QED
  BY <1>13, <1>14, <1>15, <1>17, <1>18, <1>20 DEF IrqInv, Sound, Slots, Lists
----------------------------------------------------------------------------
(* At first all slots are in the free list, ranked by their numbers.       *)
LEMMA IrqInitially == IrqInit => IrqInv
<1> SUFFICES ASSUME IrqInit PROVE IrqInv
  OBVIOUS
<1>0. PICK where, rank : where = [s \in Slots |-> Free] /\ rank = [s \in Slots |-> s]
  OBVIOUS
<1>1. /\ MaxSlots \in 1 .. 7 /\ Slots = 0 .. MaxSlots - 1 /\ End = -1
      /\ \A s \in Slots : s \in Int
  BY IrqChainAssumption DEF Slots, End
<1>2. /\ where \in [Slots -> Lists] /\ rank \in [Slots -> Int]
      /\ \A s \in Slots : where[s] = Free /\ rank[s] = s
  BY <1>0, <1>1 DEF Lists
<1>3. \A s \in Slots :
         /\ slot[s] = Freed(IF s = MaxSlots - 1 THEN End ELSE s + 1)
         /\ slot[s].link = IF s = MaxSlots - 1 THEN End ELSE s + 1
         /\ slot[s].inst3 = NoCode
  BY DEF IrqInit, Freed
<1>4. free_head = 0 /\ \A q \in Irqs : vtable[q] = Unhandled
  BY DEF IrqInit
<1>5. IrqTypeOK
  <2>1. \A s \in Slots : (IF s = MaxSlots - 1 THEN End ELSE s + 1) \in Slots \cup {End}
    BY <1>1
  <2>2. \A s \in Slots : slot[s] \in SlotData /\ slot[s].link \in Slots \cup {End}
    BY <1>3, <2>1, FreedType
  <2>3. slot \in [Slots -> SlotData]
    BY <2>2 DEF IrqInit
  <2>4. free_head \in Slots \cup {End}
    BY <1>1, <1>4
  <2> QED  BY <2>2, <2>3, <2>4 DEF IrqTypeOK, IrqInit, Off
<1>6. ListsOrdered(where, rank)
  <2>1. Ordered(Slots, Link, free_head, Slots, rank)
    <3>1. \A s \in Slots : Link[s] = IF s = MaxSlots - 1 THEN End ELSE s + 1
      BY <1>3 DEF Link
    <3>2. \A x, y \in Slots : rank[x] < rank[y] =>
             Link[x] \in Slots /\ rank[Link[x]] <= rank[y]
      <4> SUFFICES ASSUME NEW x \in Slots, NEW y \in Slots, x < y
                   PROVE  Link[x] \in Slots /\ Link[x] <= y
        BY <1>2
      <4>1. x # MaxSlots - 1 /\ x + 1 <= y /\ x + 1 \in Slots
        BY <1>1
      <4> QED  BY <3>1, <4>1
    <3>3. \A x \in Slots : Link[x] \in Slots => rank[x] < rank[Link[x]]
      <4> SUFFICES ASSUME NEW x \in Slots, Link[x] \in Slots PROVE x < Link[x]
        BY <1>2
      <4> QED  BY <1>1, <3>1
    <3>4. \A x \in Slots : x # 0 => \E y \in Slots : Link[y] = x
      <4> SUFFICES ASSUME NEW x \in Slots, x # 0 PROVE Link[x - 1] = x /\ x - 1 \in Slots
        OBVIOUS
      <4>1. x - 1 \in Slots /\ x - 1 # MaxSlots - 1
        BY <1>1
      <4>2. x - 1 + 1 = x
        BY <1>1
      <4> QED  BY <3>1, <4>1, <4>2
    <3>5. MaxSlots - 1 \in Slots /\ Link[MaxSlots - 1] \notin Slots
      BY <1>1, <3>1
    <3>6. 0 \in Slots /\ \A x \in Slots : rank[0] <= rank[x]
      BY <1>1, <1>2
    <3> QED  BY <1>2, <1>4, <3>2, <3>3, <3>4, <3>5, <3>6 DEF Ordered
  <2>2. Members(where, Free) = Slots /\ \A q \in Irqs : Members(where, q) = {}
    BY <1>2, FreeIsNoIrq DEF Members
  <2>3. ASSUME NEW q \in Irqs PROVE Ordered(Slots, Link, vtable[q], {}, rank)
    BY <1>4, Numbers DEF Ordered
  <2> QED  BY <2>1, <2>2, <2>3, FreeIsNoIrq DEF ListsOrdered, Lists, HeadOf
<1>7. CodeSound(where) /\ HandlersSound(where) /\ PrioritiesSorted(where, rank)
  BY <1>2, <1>3, FreeIsNoIrq, Numbers DEF CodeSound, HandlersSound,
                                          PrioritiesSorted
<1>8. RunsSound(where, rank)
  BY <1>1 DEF RunsSound, IrqInit, Off
<1> QED  BY <1>2, <1>5, <1>6, <1>7, <1>8 DEF IrqInv, Sound

(* Every step keeps the invariant.                                         *)
LEMMA IrqInductive == IrqInv /\ [IrqNext]_irqVars => IrqInv'
<1>1. ASSUME IrqInv, UNCHANGED irqVars PROVE IrqInv'
  <2>1. PICK where \in [Slots -> Lists], rank \in [Slots -> Int] : Sound(where, rank)
    BY <1>1 DEF IrqInv
  <2>2. IrqTypeOK'
    BY <1>1 DEF IrqInv, irqVars, IrqTypeOK, Slots
  <2>3. ListsOrdered(where, rank)' /\ PrioritiesSorted(where, rank)'
    BY <1>1, <2>1, QuietLists DEF irqVars, Same
  <2>4. CodeSound(where)' /\ HandlersSound(where)' /\ RunsSound(where, rank)'
    BY <1>1, <2>1
    DEF irqVars, Sound, CodeSound, HandlersSound, RunsSound, InException, Slots, Trash
  <2> QED  BY <2>1, <2>2, <2>3, <2>4 DEF IrqInv, Sound, Slots, Lists
<1>2. ASSUME IrqInv, NEW q \in Irqs, NEW h \in Handlers, Edits(q, h) PROVE IrqInv'
  <2>1. CASE \E p \in Priorities :
                StartChain(q, h, p) \/ InsertBehind(q, h, p) \/ NewHead(q, h, p)
    BY <1>2, <2>1, StartChainKeeps, InsertBehindKeeps, NewHeadKeeps
  <2>2. CASE RemoveInner(q, h)
    BY <1>2, <2>2, RemoveInnerKeeps
  <2>3. CASE RemoveLast(q, h)
    BY <1>2, <2>3, RemoveLastKeeps
  <2>4. CASE LeaveRunning(q, h)
    BY <1>2, <2>4, LeaveRunningKeeps
  <2>5. CASE SetExclusive(q, h) \/ RemoveExclusive(q, h)
    BY <1>2, <2>5, ExclusiveKeeps
  <2> QED  BY <1>2, <2>1, <2>2, <2>3, <2>4, <2>5, Zenon DEF Edits
<1>3. ASSUME IrqInv, NEW q \in Irqs,
             \/ InterruptShared(q) \/ InterruptExclusive(q)
             \/ RunsNext(q) \/ InterruptReturns(q) \/ LeavesChain(q)
      PROVE  IrqInv'
  BY <1>3, InterruptSharedKeeps, InterruptExclusiveKeeps, RunsNextKeeps,
     InterruptReturnsKeeps, LeavesChainKeeps
<1> QED  BY <1>1, <1>2, <1>3, Zenon DEF IrqNext

(* What the invariant says of the chains as they are followed: Chain(q) is *)
(* the slots whose list is q, and a link leads to higher ranks.            *)
LEMMA IrqConsequences ==
    IrqInv => ChainsSound /\ SlotsAccounted /\ AllCalled /\ InOrder
<1> SUFFICES ASSUME IrqInv PROVE ChainsSound /\ SlotsAccounted /\ AllCalled /\ InOrder
  OBVIOUS
<1>1. PICK where \in [Slots -> Lists], rank \in [Slots -> Int] : Sound(where, rank)
  BY DEF IrqInv
<1>2. IrqTypeOK /\ ListsOrdered(where, rank)
  BY <1>1 DEF IrqInv, Sound
<1>3. /\ \A q \in Irqs, s \in Slots : s \in Chain(q) <=> where[s] = q
      /\ \A q \in Irqs : Chain(q) \subseteq Slots
      /\ \A s \in Slots : s \in FreeList <=> where[s] = Free
      /\ FreeList \subseteq Slots
  BY <1>1, <1>2, ChainFacts
<1>4. ChainsSound
  <2> SUFFICES ASSUME NEW q \in Irqs
        PROVE  /\ \A s \in Chain(q) :
                     /\ slot[s].first <=> s = vtable[q]
                     /\ slot[s].link \in Slots => slot[s].inst3 = slot[s].link
                     /\ slot[s].link \notin Slots =>
                           \/ slot[s].inst3 = Pop
                           \/ slot[s].inst3 = Leave /\ run[q].at = s
               /\ IsShared(q) => \E s \in Chain(q) : slot[s].link \notin Slots
               /\ run[q].at \in Slots => run[q].at \in Chain(q)
    BY <1>2 DEF ChainsSound
  <2>1. ASSUME NEW s \in Chain(q)
        PROVE  /\ slot[s].first <=> s = vtable[q]
               /\ slot[s].link \in Slots => slot[s].inst3 = slot[s].link
               /\ slot[s].link \notin Slots =>
                     \/ slot[s].inst3 = Pop
                     \/ slot[s].inst3 = Leave /\ run[q].at = s
    <3>1. s \in Slots /\ where[s] = q /\ where[s] \in Irqs
      BY <1>3
    <3>2. /\ slot[s].first <=> s = vtable[where[s]]
          /\ slot[s].link \in Slots => slot[s].inst3 = slot[s].link
          /\ slot[s].link \notin Slots =>
                \/ slot[s].inst3 = Pop /\ slot[s].link = End
                \/ /\ slot[s].inst3 = Leave /\ slot[s].link = Trash(s)
                   /\ run[where[s]] = [at |-> s, handler |-> slot[s].handler]
      BY <1>1, <3>1, Zenon DEF Sound, CodeSound
    <3>3. run[q] = [at |-> s, handler |-> slot[s].handler] => run[q].at = s
      OBVIOUS
    <3> QED  BY <3>1, <3>2, <3>3
  <2>2. ASSUME IsShared(q) PROVE \E s \in Chain(q) : slot[s].link \notin Slots
    <3>1. vtable[q] \in Slots /\ where[vtable[q]] = q
      BY <1>1, <1>2, <2>2, ListFacts DEF IsShared
    <3>2. PICK e \in Slots : where[e] = q /\ slot[e].link \notin Slots
      BY <1>1, <1>2, <3>1, ListFacts
    <3> QED  BY <1>3, <3>2
  <2>3. ASSUME run[q].at \in Slots PROVE run[q].at \in Chain(q)
    BY <1>1, <1>3, <2>3 DEF Sound, RunsSound
  <2> QED  BY <2>1, <2>2, <2>3
<1>5. SlotsAccounted
  <2>1. \A s \in Slots : s \in FreeList \/ \E q \in Irqs : s \in Chain(q)
    BY <1>1, <1>3 DEF Lists
  <2>2. UNION {Chain(q) : q \in Irqs} \subseteq Slots
    BY <1>3
  <2>3. Slots \subseteq (UNION {Chain(q) : q \in Irqs}) \cup FreeList
    BY <2>1
  <2> QED  BY <1>3, <2>2, <2>3, FreeIsNoIrq DEF SlotsAccounted
<1>6. AllCalled
  BY <1>1 DEF AllCalled, Sound, RunsSound
<1>7. InOrder
  <2> SUFFICES ASSUME NEW q \in Irqs, NEW s \in Chain(q),
                      NEW t \in SlotsFrom(slot[s].link), slot[t].inst3 # Leave
               PROVE  slot[s].priority >= slot[t].priority
    BY DEF InOrder
  <2>1. s \in Slots /\ where[s] = q
    BY <1>3
  <2>2. slot[s].link \in Slots
    BY ReachNothing DEF SlotsFrom
  <2>3. /\ where[slot[s].link] = q /\ rank[s] < rank[slot[s].link]
        /\ rank[s] \in Int /\ rank[slot[s].link] \in Int
    BY <1>1, <1>2, <2>1, <2>2, ListFacts
  <2>4. t \in Slots /\ where[t] = q /\ rank[slot[s].link] <= rank[t] /\ rank[t] \in Int
    BY <1>1, <1>2, <2>2, <2>3, ChainFacts
  <2>5. rank[s] < rank[t]
    BY <2>3, <2>4
  <2> QED  BY <1>1, <2>1, <2>4, <2>5 DEF Sound, PrioritiesSorted
<1> QED  BY <1>4, <1>5, <1>6, <1>7

(* Every slot is in one list, at a rank that grows along the links, and    *)
(* what an interrupt still has to call is further on, whatever is added to *)
(* the chains or removed from them while they run (irq.c 206-424).         *)
THEOREM IrqInvariantHolds == IrqSpec => []IrqInv
BY IrqInitially, IrqInductive, PTL DEF IrqSpec

(* Code and links of the chains agree, each chain ends, and the slot being *)
(* executed is in its own: a handler that removes itself never has the     *)
(* slot it returns to freed under it (irq.c 220-274, 319-358, 396-424).    *)
THEOREM ChainsAreSound == IrqSpec => []ChainsSound
BY IrqInvariantHolds, IrqConsequences, PTL

(* The chains and the free list share out the slots: none is lost, none is *)
(* in two of them (irq.c 215-218, 334-336, 349-351, 420-422).              *)
THEOREM SlotsAreAccounted == IrqSpec => []SlotsAccounted
BY IrqInvariantHolds, IrqConsequences, PTL

(* An interrupt that returns has called every handler that was installed   *)
(* when it came, but those removed since and the one next to a handler     *)
(* that removed itself (irq.c 322-325).                                    *)
THEOREM HandlersAreCalled == IrqSpec => []AllCalled
BY IrqInvariantHolds, IrqConsequences, PTL

(* Handlers are called in the order of their priorities (irq.h 220), also  *)
(* behind one whose priority its removal has overwritten.                  *)
THEOREM HandlersRunInOrder == IrqSpec => []InOrder
BY IrqInvariantHolds, IrqConsequences, PTL
=============================================================================
