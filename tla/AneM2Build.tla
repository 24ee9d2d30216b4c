----------------------------- MODULE AneM2Build -----------------------------
(***************************************************************************)
(* libane/ane_m2.c: the section builder.  A program's task stream names    *)
(* its surfaces by BAR slot; the firmware writes one slot table per call,  *)
(* so the builder has to find, for all tasks together, one buffer (tag)    *)
(* per slot.  ane_m2_program_build() derives it from the records of the    *)
(* stream, ane_m2_program_build_ports() takes it from a port table.        *)
(*                                                                         *)
(* Abstractions.  The stream is a sequence of items: a zero frame          *)
(* ("fill"), a task (its records) or one of the malformed shapes the walk  *)
(* refuses.  A record is [cls, slot, off]: the register it patches, by     *)
(* class, and its first payload word in tile units (so that rounding to    *)
(* 16 KiB is the identity); "plain" is no BAR reference, "over" declares   *)
(* more payload than its task holds.  The slot is the six bits 28:23 of    *)
(* the record, so that a record with bit 28 set names a slot from 32 on.   *)
(* The 64-entry limit of the slot lists is not reached by the instances.   *)
(***************************************************************************)
LOCAL INSTANCE Integers
LOCAL INSTANCE Sequences
LOCAL INSTANCE FiniteSets
LOCAL INSTANCE FiniteSetsExt
LOCAL INSTANCE SequencesExt

CONSTANT Programs   \* what the instances build

VARIABLES
    pc,     \* "split", "scan", "refs", "oprefs", "io", "emit", then "built" or "refused"
    cfg,    \* the program: [kind, hdr, items, count, inputs, out, krn, scratch, oprefs, ports];
            \* hdr: the sizes, version and first-task words of its header agree
    k       \* struct ane_m2_model and the sections

vars == <<pc, cfg, k>>

KERNEL == 2
SCRATCH == 64   \* ANE_M2_SCRATCH_BUFID
Unknown == -1

Init ==
    /\ pc = "split" /\ cfg \in Programs
    /\ k = [tasks |-> <<>>, refs |-> {}, io |-> <<>>, secs |-> {}]

Refuse == pc' = "refused" /\ UNCHANGED <<cfg, k>>

(***************************************************************************)
(* The walks over the stream.                                              *)
(***************************************************************************)
Bar == {"srcA", "srcB", "dst", "kdma", "other"}
bit28(r) == r.slot >= 32
Src == {"srcA", "srcB"}

\* The records of all tasks, in stream order.
Flat == FlattenSeq(k.tasks)
BarRefs == SelectSeq(Flat, LAMBDA r : r.cls \in Bar)

split_h14_tasks(items) ==
    IF \E i \in DOMAIN items : items[i].t \notin {"fill", "task"} THEN <<>>
    ELSE LET tasks == SelectSeq(items, LAMBDA i : i.t = "task")
         IN [j \in DOMAIN tasks |-> tasks[j].recs]

\* The firmware's own walk, which starts after the first frame and knows no
\* filler between two tasks.
tdprop_block_count ==
    LET rest == Tail(cfg.items)
    IN IF \E i \in DOMAIN rest : rest[i].t = "fill" THEN Unknown ELSE Len(rest)

HeaderOK == cfg.hdr
CountsAgree(tasks) == tasks # <<>> /\ Len(tasks) = cfg.count

\* The header, the zero frame, the task walk and its counts.
build_split ==
    /\ pc = "split"
    /\ LET tasks == split_h14_tasks(cfg.items) IN
       IF ~HeaderOK \/ cfg.items = <<>> \/ cfg.items[1].t # "fill" \/ ~CountsAgree(tasks)
       THEN Refuse
       ELSE /\ k' = [k EXCEPT !.tasks = tasks, !.secs = {"descriptor"}]
            /\ pc' = IF cfg.kind = "ports" THEN "ports" ELSE "scan"
            /\ UNCHANGED cfg

(***************************************************************************)
(* derive_refs(), first pass: what the stream says of every slot.          *)
(***************************************************************************)
DstBefore(i) == \E j \in 1..(i - 1) : BarRefs[j].cls = "dst" /\ BarRefs[j].slot = BarRefs[i].slot
Input(i, c) == BarRefs[i].cls = c /\ BarRefs[i].slot > 1 /\ ~DstBefore(i)

\* srcA slots are listed once, by their first reference; a slot that had a
\* destination reference before is no input.
FirstA(i) == \A j \in 1..(i - 1) : ~(BarRefs[j].cls = "srcA" /\ BarRefs[j].slot = BarRefs[i].slot)
srcA_slots == {BarRefs[i].slot : i \in {j \in DOMAIN BarRefs : Input(j, "srcA") /\ FirstA(j)}}

\* srcB slots are listed once per reference.
srcB_refs == {j \in DOMAIN BarRefs : Input(j, "srcB")}
srcB_slots == {BarRefs[i].slot : i \in srcB_refs}

Offs(c, s) ==
    LET of == SelectSeq(BarRefs, LAMBDA r : r.slot = s /\ r.cls \in c)
    IN [i \in DOMAIN of |-> of[i].off]
Gap(a, b) == IF a > b THEN a - b ELSE b - a
slot_max_offset(c, s) == Max({0} \cup Range(Offs(c, s)))
slot_chunk(c, s) ==
    LET o == Offs(c, s)
    IN IF Len(o) < 2 THEN 0 ELSE Min({Gap(o[i], o[i - 1]) : i \in 2..Len(o)})

\* The slots of a select program: its mask is read through a srcA slot that
\* is numbered above an operand's srcB slot.
blend_mode == srcB_slots # {} /\ srcA_slots # {} /\ Min(srcB_slots) < Max(srcA_slots)
is_matmul == Cardinality(srcA_slots) >= 2

slot_rank_blend(s) ==
    IF s \in srcA_slots THEN 5 + Cardinality(srcB_refs) + Cardinality({a \in srcA_slots : a < s})
    ELSE IF s \in srcB_slots THEN 4 + Cardinality({i \in srcB_refs : BarRefs[i].slot >= s})
    ELSE Unknown

(***************************************************************************)
(* The tag of one reference.                                               *)
(***************************************************************************)
Channels(d) == {i \in DOMAIN k.io : k.io[i].dir = d}
pick_smallest_fit_channel(d, reach) ==
    LET fit == {i \in Channels(d) : k.io[i].size >= reach}
        best == {i \in fit : \A j \in fit : k.io[i].size <= k.io[j].size}
    IN IF fit = {} THEN Unknown ELSE Min({k.io[i].buf : i \in best})

slot_max_in_alloc_src == Max({k.io[i].size : i \in Channels(0)})

bar_ref_tag_extents(r) ==
    LET dmax == slot_max_offset({"dst"}, r.slot)
        wide == pick_smallest_fit_channel(1, dmax + slot_chunk({"dst"}, r.slot))
        narrow == pick_smallest_fit_channel(1, dmax)
        chunk == slot_chunk(Src, r.slot)
    IN CASE r.cls = "kdma" -> KERNEL
         [] r.cls = "dst" /\ slot_chunk({"dst"}, r.slot) = 0 -> pick_smallest_fit_channel(1, 0)
         [] r.cls = "dst" /\ slot_chunk({"dst"}, r.slot) # 0 ->
                IF wide # Unknown THEN wide ELSE IF narrow # Unknown THEN narrow
                ELSE IF cfg.scratch THEN SCRATCH ELSE Unknown
         [] r.cls \in Src /\ r.slot <= 1 -> KERNEL
         [] r.cls \in Src /\ r.slot > 1 /\ is_matmul -> r.slot
         [] r.cls \in Src /\ r.slot > 1 /\ ~is_matmul ->
                pick_smallest_fit_channel(0, slot_max_offset(Src, r.slot) + (IF chunk = 0 THEN slot_max_in_alloc_src ELSE chunk))
         [] OTHER -> Unknown

bar_ref_tag_legacy(r) ==
    CASE r.cls = "kdma" -> KERNEL
      [] r.cls = "dst" -> 4
      [] r.cls \in Src /\ r.slot <= 1 -> KERNEL
      [] r.cls = "srcA" /\ r.slot > 3 -> 5
      [] r.cls = "srcB" /\ r.slot > 3 -> 6
      [] OTHER -> Unknown

\* Unknown: the reference is refused.
Tag(r) ==
    IF blend_mode /\ r.cls \in Src /\ r.slot > 1
    THEN IF slot_rank_blend(r.slot) # Unknown THEN slot_rank_blend(r.slot)
         ELSE IF cfg.scratch THEN SCRATCH ELSE Unknown
    ELSE IF is_matmul \/ blend_mode THEN bar_ref_tag_extents(r) ELSE bar_ref_tag_legacy(r)

\* One task: the first reference to a slot decides for the whole task.
refs_of_task(t) ==
    LET of == SelectSeq(t, LAMBDA r : r.cls \in Bar)
        first(s) == SelectSeq(of, LAMBDA r : r.slot = s)[1]
    IN {<<s, Tag(first(s))>> : s \in {of[i].slot : i \in DOMAIN of}}

TaskTags(s) == {p[2] : p \in {q \in UNION {refs_of_task(k.tasks[t]) : t \in DOMAIN k.tasks} : q[1] = s}}

\* A slot on which tasks disagree goes to the scratch buffer, if the class of
\* its first reference and of the disagreeing one are eligible; every class
\* that gets this far is.
FirstClasses(s) ==
    LET first(t) == SelectSeq(k.tasks[t], LAMBDA r : r.cls \in Bar /\ r.slot = s)
    IN {first(t)[1].cls : t \in {u \in DOMAIN k.tasks : first(u) # <<>>}}
scratch_eligible_addr(c) == c \in {"dst", "kdma", "srcA", "srcB"}
Bug_Merge(s) == CHOOSE x \in TaskTags(s) : TRUE
Merge(s) ==
    IF Cardinality(TaskTags(s)) = 1 THEN CHOOSE x \in TaskTags(s) : TRUE
    ELSE IF cfg.scratch /\ \A c \in FirstClasses(s) : scratch_eligible_addr(c)
    THEN SCRATCH ELSE Unknown

Known(x) == x = KERNEL \/ (cfg.scratch /\ x = SCRATCH) \/ \E i \in DOMAIN k.io : k.io[i].buf = x

\* The io table of the channel contract: inputs 5, 6, 7 and output 4.
derive_io ==
    /\ pc = "scan" /\ UNCHANGED cfg
    /\ k' = [k EXCEPT !.io = [i \in 1..Len(cfg.inputs) |-> [buf |-> 4 + i, dir |-> 0, size |-> cfg.inputs[i]]]
                             \o <<[buf |-> 4, dir |-> 1, size |-> cfg.out]>>]
    /\ pc' = "refs"

derive_refs ==
    /\ pc = "refs"
    /\ LET slots == {BarRefs[i].slot : i \in DOMAIN BarRefs}
           refs == {<<s, Merge(s)>> : s \in slots}
       IN IF \/ \E i \in DOMAIN Flat : Flat[i].cls = "over"
             \/ \E i \in DOMAIN BarRefs : bit28(BarRefs[i])
             \/ \E i \in DOMAIN BarRefs : Tag(BarRefs[i]) = Unknown
             \/ \E p \in refs : p[2] = Unknown \/ ~Known(p[2])
             \/ slots = {}
          THEN Refuse
          ELSE k' = [k EXCEPT !.refs = refs] /\ pc' = "oprefs" /\ UNCHANGED cfg

\* ANE_M2_OPREFS replaces the derived set; nothing looks at the stream again.
oprefs_apply ==
    /\ pc = "oprefs" /\ UNCHANGED cfg
    /\ k' = IF cfg.oprefs = {} THEN k ELSE [k EXCEPT !.refs = cfg.oprefs]
    /\ pc' = "io"

ScratchSlots == {p[1] : p \in {q \in k.refs : q[2] = SCRATCH}}
\* The extent of the lowest scratch slot, the output and a guard page.
Bug_scratch_size_bytes(s) == 1
scratch_size_bytes(s) == slot_max_offset(Bar, s) + cfg.out + 1

scratch_entry ==
    /\ pc = "io" /\ UNCHANGED cfg
    /\ k' = IF ScratchSlots = {} THEN k
            ELSE [k EXCEPT !.io = Append(@, [buf |-> SCRATCH, dir |-> 2, size |-> scratch_size_bytes(Min(ScratchSlots))])]
    /\ pc' = "emit"

(***************************************************************************)
(* ane_m2_program_build_ports(): the table is checked, then every          *)
(* reference of the stream against it.                                     *)
(***************************************************************************)
PortOK(p) ==
    /\ p.size > 0 /\ p.dir \in 0..2 /\ p.slot \in 2..60
    /\ IF p.dir = 2 THEN p.buf = SCRATCH ELSE p.buf \notin {2, 3} /\ p.buf < 32

PortsOK ==
    LET P == DOMAIN cfg.ports
        of(d) == {i \in P : cfg.ports[i].dir = d}
    IN /\ P # {} /\ \A i \in P : PortOK(cfg.ports[i])
       /\ \A i, j \in P : i # j => /\ cfg.ports[i].buf # cfg.ports[j].buf
                                   /\ cfg.ports[i].slot # cfg.ports[j].slot
       /\ Cardinality(of(0)) = Len(cfg.inputs) /\ of(1) # {} /\ Cardinality(of(2)) <= 1

\* Inputs, outputs, scratch, each in the order of the table.
PortsOf(d) ==
    LET of == SelectSeq(cfg.ports, LAMBDA p : p.dir = d)
    IN [i \in DOMAIN of |-> [buf |-> of[i].buf, dir |-> d, size |-> of[i].size]]

build_ports_inner ==
    /\ pc = "ports"
    /\ IF ~PortsOK THEN Refuse
       ELSE /\ k' = [k EXCEPT !.io = PortsOf(0) \o PortsOf(1) \o PortsOf(2),
                              !.refs = {<<1, KERNEL>>} \cup {<<p.slot, p.buf>> : p \in Range(cfg.ports)}]
            /\ pc' = "bound" /\ UNCHANGED cfg

SizeOf(x) == IF x = KERNEL THEN cfg.krn
             ELSE Max({0} \cup {k.io[i].size : i \in {j \in DOMAIN k.io : k.io[j].buf = x}})
Inside(r, p) == p[1] = r.slot /\ r.off < SizeOf(p[2])
Bug_Bound(r) == \E p \in k.refs : p[1] = r.slot /\ r.off <= SizeOf(p[2])
Bound(r) == \E p \in k.refs : Inside(r, p)

\* Bit 28 is not refused here: the slot it makes has to be bound like any other.
check_bound_slots ==
    /\ pc = "bound"
    /\ IF \/ \E i \in DOMAIN Flat : Flat[i].cls = "over"
          \/ \E i \in DOMAIN BarRefs : ~Bound(BarRefs[i])
       THEN Refuse
       ELSE pc' = "emit" /\ UNCHANGED <<cfg, k>>

Bug_BlocksOK == TRUE
BlocksOK == tdprop_block_count \notin {Unknown, 0}
emit_io_sections ==
    /\ pc = "emit"
    /\ IF ~BlocksOK THEN Refuse
       ELSE /\ k' = [k EXCEPT !.secs = @ \cup {"kernel", "generic", "operation", "procedure", "tdprop"}]
            /\ pc' = "built" /\ UNCHANGED cfg

Next == build_split \/ derive_io \/ derive_refs \/ oprefs_apply \/ scratch_entry
        \/ build_ports_inner \/ check_bound_slots \/ emit_io_sections
Spec == Init /\ [][Next]_vars

(***************************************************************************)
(* Properties of a program that was built (ANE_M2_OPREFS not set).         *)
(***************************************************************************)
Built == pc = "built" /\ cfg.oprefs = {}

\* The one slot table of a call serves every task: each slot the stream
\* references has one buffer, the buffer is the kernel region or in the io
\* table, and no task gets another surface than the one its own first
\* reference to the slot resolves to, except the scratch buffer, and that only
\* where two tasks disagree and merging is on.  Which reference comes first is
\* not claimed: scratch_eligible_addr() also merges a slot whose first
\* reference is a source, and a mix of destination and source, both of which
\* the comments of derive_refs() exclude.
SlotsResolved ==
    Built => /\ \A i \in DOMAIN BarRefs : \E p \in k.refs : p[1] = BarRefs[i].slot
             /\ \A p, q \in k.refs : p[1] = q[1] => p = q
             /\ \A p \in k.refs : p[2] = KERNEL \/ \E i \in DOMAIN k.io : k.io[i].buf = p[2]
             /\ cfg.kind = "derive" =>
                    \A p \in k.refs :
                        \/ TaskTags(p[1]) = {p[2]}
                        \/ p[2] = SCRATCH /\ cfg.scratch /\ Cardinality(TaskTags(p[1])) > 1

\* A program built from a port table references no byte outside the buffers
\* it binds, one whose conflicts merged into a single slot none outside the
\* scratch buffer sized for it, and the block count it declares is the one
\* the firmware's walk of the same descriptor finds.
BuildInside ==
    Built => /\ cfg.kind = "ports" => \A i \in DOMAIN BarRefs : \E p \in k.refs : Inside(BarRefs[i], p)
             /\ Cardinality(ScratchSlots) = 1 =>
                    \A i \in DOMAIN BarRefs : BarRefs[i].slot \in ScratchSlots => \E p \in k.refs : Inside(BarRefs[i], p)
             /\ tdprop_block_count = Len(k.tasks)
====
