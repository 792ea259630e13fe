--------------------------- MODULE MCAsyncContext ---------------------------
(* Names for the model values of AsyncContext's configurations.            *)
EXTENDS AsyncContext, TLC

CONSTANTS w1, t1, f1, f2

Symmetry == Permutations({f1, f2})
=============================================================================
