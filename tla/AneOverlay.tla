----------------------------- MODULE AneOverlay -----------------------------
(***************************************************************************)
(* Loading and unloading the M3 and M4 modules with apply_overlay=1: the   *)
(* guards, the edits of the live device tree, the driver registration, and *)
(* their reversal at unload.  Source: ane/h15/ane_h15_overlay.c and        *)
(* ane/h16/ane_h16_overlay.c.                                              *)
(*                                                                         *)
(* Abstractions.  The tree is what the two files read and write: the       *)
(* labels of /__symbols__ (a label names its own path, or a foreign one),  *)
(* the phandles of the target nodes, the available nodes, whether the ANE  *)
(* node is complete and has iommus, and whether the overlay is applied.    *)
(* A change set is the set of edits that reverting undoes; the kernel      *)
(* applies one whole or not at all, and reverting it succeeds (the code    *)
(* does not look).  Another overlay may take a phandle between loads.      *)
(***************************************************************************)
LOCAL INSTANCE Integers
LOCAL INSTANCE FiniteSets
LOCAL INSTANCE FiniteSetsExt

CONSTANTS
    Targets,      \* the nodes the edits refer to (power controllers)
    MaxPhandle    \* bound: phandles other overlays take

VARIABLES
    pc,    \* "unloaded", a step of register(), "loaded", a step of unregister()
    cfg,   \* the load: [fam, optin, apply]
    k,     \* ane_ovl: [symbols, overlay, cs]; cs = the edits to revert
    hw,    \* the live tree
    note   \* history: [boot (the tree before this load), stuck]

vars == <<pc, cfg, k, hw, note>>

Families == {"h15", "h16"}
NoEdits == [sym |-> {}, symnode |-> FALSE, avail |-> {}, type |-> FALSE, iommus |-> FALSE]
NoOvl == [symbols |-> FALSE, overlay |-> FALSE, applied |-> FALSE, cs |-> NoEdits]
NoLoad == [fam |-> "h15", optin |-> "other", apply |-> FALSE]

Trees ==
    [sym : SUBSET Targets, foreign : SUBSET Targets, symnode : BOOLEAN, present : SUBSET Targets,
     phandle : [Targets -> 0..1], other : {2}, avail : SUBSET (Targets \cup {"ane", "dart"}),
     ane : BOOLEAN, type : BOOLEAN, iommus : BOOLEAN, overlay : {FALSE}]

\* A tree as the boot loader leaves it: labels need the symbols node, no two nodes share a phandle,
\* and no overlay is applied (one that would not come out is met by the next load).
BootTree(t) ==
    /\ (t.sym # {} \/ t.foreign # {}) => t.symnode
    /\ t.sym \cap t.foreign = {} /\ Cardinality(t.foreign) <= 1 /\ Cardinality(Targets \ t.present) <= 1
    /\ Cardinality({n \in Targets : t.phandle[n] = 1}) <= 1
    /\ t.avail \cap Targets \subseteq t.present
    /\ (~t.ane => "ane" \notin t.avail /\ ~t.type /\ ~t.iommus)

Init ==
    /\ pc = "unloaded" /\ cfg = NoLoad /\ k = NoOvl
    /\ hw \in {t \in Trees : BootTree(t)}
    /\ note = [boot |-> hw, stuck |-> FALSE]

Goto(l) == pc' = l
\* register() returns an error: the module does not load.
Refuse == pc' = "unloaded" /\ cfg' = NoLoad /\ UNCHANGED note

max_phandle == Max({hw.other} \cup {hw.phandle[n] : n \in Targets})

\* Each target without a phandle gets the next free one.
Bug_Minted == [n \in Targets |-> IF hw.phandle[n] # 0 THEN hw.phandle[n] ELSE max_phandle + 1]
Minted ==
    LET none == {n \in Targets : hw.phandle[n] = 0}
    IN CHOOSE f \in [Targets -> 1..(max_phandle + Cardinality(none))] :
          /\ \A n \in Targets \ none : f[n] = hw.phandle[n]
          /\ \A n \in none : f[n] > max_phandle
          /\ \A n, m \in none : f[n] = f[m] => n = m

register ==
    /\ pc = "unloaded"
    /\ \E f \in Families, o \in {"own", "other"}, a \in BOOLEAN :
          /\ cfg' = [fam |-> f, optin |-> o, apply |-> a]
          /\ Goto(IF ~a THEN "driver" ELSE IF f = "h15" THEN "h15_check" ELSE "h16_check")
    /\ note' = [note EXCEPT !.boot = hw, !.stuck = FALSE]
    /\ UNCHANGED <<k, hw>>

(***************************************************************************)
(* M3: symbols, phandles, the compiled overlay.                            *)
(***************************************************************************)
\* find_ovl, the board, the node already there, then every target and label; nothing is written yet.
ane_h15_check_targets ==
    /\ pc = "h15_check"
    /\ \/ /\ cfg.optin # "own" /\ Refuse
       \/ /\ cfg.optin = "own" /\ (hw.ane \/ hw.overlay)
          /\ Goto("driver") /\ UNCHANGED <<cfg, note>>
       \/ /\ cfg.optin = "own" /\ ~hw.ane /\ ~hw.overlay
          /\ IF hw.present = Targets /\ hw.foreign = {}
             THEN Goto("publish") /\ UNCHANGED <<cfg, note>>
             ELSE Refuse
    /\ UNCHANGED <<k, hw>>

ane_h15_publish_symbols ==
    /\ pc = "publish"
    /\ \/ /\ k' = [k EXCEPT !.symbols = TRUE,
                            !.cs = [NoEdits EXCEPT !.sym = Targets \ hw.sym, !.symnode = ~hw.symnode]]
          /\ hw' = [hw EXCEPT !.sym = Targets, !.symnode = TRUE]
          /\ Goto("overlay") /\ UNCHANGED <<cfg, note>>
       \/ Refuse /\ UNCHANGED <<k, hw>>

\* of_changeset_revert() of the symbols.
Unpublished(t) ==
    [t EXCEPT !.sym = t.sym \ k.cs.sym, !.symnode = t.symnode /\ ~k.cs.symnode]

\* assign_phandles, then of_overlay_fdt_apply(): a refused overlay may hold a change set that
\* of_overlay_remove() must take out, and that can fail as well.
ane_h15_overlay_apply ==
    /\ pc = "overlay"
    /\ LET t == [hw EXCEPT !.phandle = Minted] IN
       \/ /\ hw' = [t EXCEPT !.overlay = TRUE]
          /\ k' = [k EXCEPT !.overlay = TRUE]
          /\ Goto("driver") /\ UNCHANGED <<cfg, note>>
       \/ \E left \in BOOLEAN :
             /\ hw' = [Unpublished(t) EXCEPT !.overlay = left]
             /\ k' = NoOvl
             /\ pc' = "unloaded" /\ cfg' = NoLoad
             /\ note' = [note EXCEPT !.stuck = left]

\* The flags are cleared whatever of_overlay_remove() answers.
Bug_h15_overlay_remove(t, removed) ==
    IF k.overlay THEN [t EXCEPT !.overlay = ~removed] ELSE t
ane_h15_overlay_remove(t, removed) ==
    LET u == IF k.overlay THEN [t EXCEPT !.overlay = ~removed] ELSE t
    IN IF k.symbols THEN Unpublished(u) ELSE u

(***************************************************************************)
(* M4: one change set that completes the ANE node.                         *)
(***************************************************************************)
ane_h16_check ==
    /\ pc = "h16_check"
    /\ IF cfg.optin # "own" \/ ~hw.ane \/ hw.present # Targets
       THEN Refuse
       ELSE /\ Goto(IF "ane" \in hw.avail /\ hw.type THEN "driver" ELSE "build")
            /\ UNCHANGED <<cfg, note>>
    /\ UNCHANGED <<k, hw>>

\* The phandles are minted first.  add_prop_u32 of an existing apple,ane-type makes the kernel
\* refuse the set; so may an allocation.
Built ==
    [NoEdits EXCEPT !.avail = (Targets \cup {"ane"}) \ hw.avail, !.type = TRUE,
                    !.iommus = hw.iommus /\ "dart" \notin hw.avail]
ane_h16_build ==
    /\ pc = "build"
    /\ LET t == [hw EXCEPT !.phandle = Minted] IN
       \/ /\ ~hw.type
          /\ hw' = [t EXCEPT !.avail = @ \cup Built.avail, !.type = TRUE, !.iommus = @ /\ ~Built.iommus]
          /\ k' = [k EXCEPT !.applied = TRUE, !.cs = Built]
          /\ Goto("driver") /\ UNCHANGED <<cfg, note>>
       \/ hw' = t /\ Refuse /\ UNCHANGED k

ane_h16_overlay_remove(t) ==
    IF ~k.applied THEN t
    ELSE [t EXCEPT !.avail = @ \ k.cs.avail, !.type = FALSE, !.iommus = @ \/ k.cs.iommus]

Removed(removed) ==
    IF cfg.fam = "h15" THEN ane_h15_overlay_remove(hw, removed) ELSE ane_h16_overlay_remove(hw)

(***************************************************************************)
(* platform_driver_register(), and unregister().                           *)
(***************************************************************************)
TakeOut ==
    \E removed \in BOOLEAN :
       /\ hw' = Removed(removed)
       /\ k' = NoOvl
       /\ pc' = "unloaded" /\ cfg' = NoLoad
       /\ note' = [note EXCEPT !.stuck = k.overlay /\ ~removed]

Bug_driver_register ==
    /\ pc = "driver"
    /\ \/ Goto("loaded") /\ UNCHANGED <<cfg, k, hw, note>>
       \/ Refuse /\ k' = NoOvl /\ UNCHANGED hw
driver_register ==
    /\ pc = "driver"
    /\ \/ Goto("loaded") /\ UNCHANGED <<cfg, k, hw, note>>
       \/ TakeOut

unregister == pc = "loaded" /\ TakeOut

\* Another overlay comes with its own phandle.
other_overlay ==
    /\ pc = "unloaded" /\ max_phandle + 1 <= MaxPhandle
    /\ hw' = [hw EXCEPT !.other = max_phandle + 1]
    /\ note' = [note EXCEPT !.boot.other = max_phandle + 1]
    /\ UNCHANGED <<pc, cfg, k>>

Next ==
    \/ register \/ ane_h15_check_targets \/ ane_h15_publish_symbols \/ ane_h15_overlay_apply
    \/ ane_h16_check \/ ane_h16_build \/ driver_register \/ unregister \/ other_overlay

Spec == Init /\ [][Next]_vars

(***************************************************************************)
(* Properties.                                                             *)
(***************************************************************************)
\* However a load ends (refused, failed at any step, or loaded and unloaded again), the tree is the
\* one it started from, except for the phandles, which are only ever added ("Minted phandles remain"),
\* and for an overlay that the kernel would not take out.
TreeRestored ==
    pc = "unloaded" =>
       /\ [hw EXCEPT !.phandle = note.boot.phandle, !.overlay = FALSE]
             = [note.boot EXCEPT !.overlay = FALSE]
       /\ hw.overlay => note.stuck \/ note.boot.overlay
       /\ \A n \in Targets : note.boot.phandle[n] # 0 => hw.phandle[n] = note.boot.phandle[n]

\* No two nodes of the tree share a phandle, whatever loads, unloads and other overlays came before.
PhandlesUnique ==
    \A n \in Targets : hw.phandle[n] # 0 =>
       /\ hw.phandle[n] # hw.other
       /\ \A m \in Targets \ {n} : hw.phandle[m] # hw.phandle[n]
=============================================================================
