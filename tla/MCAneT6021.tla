----------------------------- MODULE MCAneT6021 -----------------------------
(* Instances of AneT6021 for TLC. *)
EXTENDS AneT6021, TLC

CONSTANT Large    \* the objects of size 2; the others have size 1

MCSize == [b \in Bos |-> IF b \in Large THEN 2 ELSE 1]

Symmetry ==
    Permutations(Threads) \cup Permutations(Files) \cup Permutations(Digests)
        \cup Permutations(Ids) \cup Permutations(Large)
        \cup Permutations(Bos \ Large)
=============================================================================
