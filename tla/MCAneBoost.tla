----------------------------- MODULE MCAneBoost -----------------------------
(* AneBoost on its own, for the liveness of the delayed drop.              *)
EXTENDS AneBoost

=============================================================================
