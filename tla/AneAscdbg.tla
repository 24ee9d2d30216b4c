----------------------------- MODULE AneAscdbg ------------------------------
(***************************************************************************)
(* The commands of the debug file of ane/h13/ane_ascdbg.c: each names an   *)
(* operation, an offset and a count, and is refused or accesses words of   *)
(* the engine's aperture.                                                  *)
(*                                                                         *)
(* Abstractions.  One unit is a 32-bit word; offsets and the sums the      *)
(* checks form have the width of the machine word.  Values, polling and    *)
(* the text of the answer are left out; phys, which reads memory and not   *)
(* the aperture, too.  itr uses three words of the block at its offset.    *)
(***************************************************************************)
LOCAL INSTANCE Integers

CONSTANTS
    Offsets,    \* words a machine word can name: sums are modulo this
    Aperture,   \* APERTURE_SIZE
    MaxCount    \* the largest count of d32

VARIABLES
    pc,     \* "idle", "answered"
    cfg,    \* the command: [op, off, n]
    hw      \* the words of the aperture it accessed

vars == <<pc, cfg, hw>>

Ops == {"r32", "w32", "p32", "s32", "r64", "w64", "p64", "pcs", "d32", "itr"}
Command == [op : Ops, off : 0..(Offsets - 1), n : 0..(MaxCount + 1)]
Width(op) == IF op \in {"r64", "w64", "p64", "pcs"} THEN 2 ELSE 1
Sum(a, b) == (a + b) % Offsets

\* The file's mutex lets one command in at a time, and no state is kept from
\* one to the next: a behaviour is one command.
Init == pc = "idle" /\ cfg \in Command /\ hw = {}

check_off(off, width) == Sum(off, width) =< Aperture /\ off % width = 0

\* The bug: d32 checks its first word and not its last.
Bug_Accepted(c) ==
    /\ check_off(c.off, Width(c.op))
    /\ c.op = "d32" => c.n =< MaxCount
    /\ c.op = "itr" => Sum(c.off, 3) =< Aperture
Accepted(c) ==
    /\ check_off(c.off, Width(c.op))
    /\ c.op = "d32" => c.n =< MaxCount /\ check_off((c.off + c.n - 1) % Offsets, 1)
    /\ c.op = "itr" => Sum(c.off, 3) =< Aperture

Touched(c) ==
    CASE c.op = "d32" -> {Sum(c.off, i) : i \in 0..(c.n - 1)}
      [] c.op = "itr" -> {Sum(c.off, i) : i \in 1..3}
      [] OTHER -> {Sum(c.off, i) : i \in 0..(Width(c.op) - 1)}

run_cmd ==
    /\ pc = "idle" /\ pc' = "answered"
    /\ hw' = IF Accepted(cfg) THEN Touched(cfg) ELSE {}
    /\ UNCHANGED cfg

Next == run_cmd
Spec == Init /\ [][Next]_vars

\* A command stays inside the aperture, with two exceptions: the check of an
\* offset at the very end of the machine word wraps, and the last word of itr
\* is not counted by the check of its block.
CommandInside ==
    \/ hw \subseteq 0..(Aperture - 1)
    \/ cfg.off + Width(cfg.op) = Offsets
    \/ cfg.op = "itr" /\ hw \ (0..(Aperture - 1)) = {Aperture}
====
