-------------------------------- MODULE Links --------------------------------
(***************************************************************************)
(* Lists whose nodes hold the name of the next one, or something that is   *)
(* no node at the end.                                                     *)
(***************************************************************************)

(* The nodes that links lead through from x: they are in every set that    *)
(* has x and that no link leaves.                                          *)
Reach(nodes, link, x) ==
    {w \in nodes : \A S \in SUBSET nodes :
        /\ x \in nodes => x \in S
        /\ \A y \in S : link[y] \in nodes => link[y] \in S
        => w \in S}
=============================================================================
