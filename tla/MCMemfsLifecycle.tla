---------------------------- MODULE MCMemfsLifecycle ----------------------------
(* Values of the constants of MemfsLifecycle for TLC: the name a has two   *)
(* addresses for its file, so that a file may be made anew while a pointer *)
(* to the old one is left.                                                 *)
EXTENDS MemfsLifecycle

CONSTANTS a, b, fa1, fa2, fb

MCNames  == {a, b}
MCFiles  == {fa1, fa2, fb}
MCzName  == [f \in MCFiles |-> IF f = fb THEN b ELSE a]
MCLowest == -1

(* bound: nothing is promised of a broken list, and no further step taken  *)
Unbroken == ~broken

Symmetry == Permutations(Threads) \cup Permutations({fa1, fa2})
              \cup Permutations(Nodes) \cup Permutations(Users)

===============================================================================
