------------------------------ MODULE MCAneDrv ------------------------------
(* AneDrv for TLC: two threads over two buffer objects and two IOVAs.      *)
EXTENDS AneDrv, TLC

Symmetry == Permutations(Threads) \cup Permutations(Bos) \cup Permutations(Handles)

=============================================================================
