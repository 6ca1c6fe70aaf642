------------------------------- MODULE MCMemfsVfs -------------------------------
(* Values of the constants of MemfsVfs for TLC.                            *)
EXTENDS MemfsVfs

(* The threads are alike, and so are the handles, the names and the        *)
(* addresses.                                                              *)
Symmetry ==
  Permutations(Threads) \cup Permutations(Handles)
    \cup Permutations(Names) \cup Permutations(Files)

===============================================================================
