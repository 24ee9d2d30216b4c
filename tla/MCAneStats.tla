----------------------------- MODULE MCAneStats -----------------------------
(* AneStats for TLC: two producers that overlap, one reader.               *)
EXTENDS AneStats, TLC

Symmetry == Permutations(Producers)

=============================================================================
