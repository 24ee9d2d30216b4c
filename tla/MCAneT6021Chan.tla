--------------------------- MODULE MCAneT6021Chan ---------------------------
(* An instance of AneT6021Chan for TLC. *)
EXTENDS AneT6021Chan, TLC

Symmetry == Permutations(Dmas \ {CmdBuf})
=============================================================================
