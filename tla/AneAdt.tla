------------------------------- MODULE AneAdt -------------------------------
(***************************************************************************)
(* Reading the boot loader's device tree (ADT): the M3 walker, which       *)
(* recurses and refuses a malformed blob, and the M4 walker, which keeps   *)
(* its own stack and ends at an empty node.  Both look for the child of    *)
(* /arm-io whose ane-type is the SoC's, and decode its segment-ranges.     *)
(* Sources: ane/h15/ane_h15_adt.h; ane/h16/ane_h16_main.c, adt_*.          *)
(*                                                                         *)
(* Abstractions.  The blob is a sequence of cells: a node header is one    *)
(* cell, a property is two header cells (its name, its length) and `len`   *)
(* cells of body, so a blob can end inside any of them.  A cell that is    *)
(* read as something else gives counts and lengths of Junk, which is more  *)
(* than MaxCount.  Names and types are model strings.  segment-ranges is a *)
(* sequence of words, each with the flags of its upper half.               *)
(***************************************************************************)
LOCAL INSTANCE Integers
LOCAL INSTANCE Sequences
LOCAL INSTANCE FiniteSetsExt
LOCAL INSTANCE SequencesExt

CONSTANTS
    Trees,      \* the trees to encode: [name, type, kids]
    MaxDepth,   \* ADT_MAX_DEPTH, 32
    MaxCount,   \* the largest count the M3 walker believes, 4096
    PROP_ALIGN, \* ANE_H15_ADT_PROP_ALIGN
    Ranges      \* segment-ranges properties: sequences of [v, flags]

VARIABLES
    pc,   \* "none", "blob", "seg", "done"
    hw,   \* the blob: [tree, cells, whole, garbage] or the words of segment-ranges
    k     \* what the two walkers answered

vars == <<pc, hw, k>>

Junk == MaxCount + 1
Missing == -1    \* ENOENT
Malformed == -2  \* EFORMAT

(***************************************************************************)
(* The encoding, and what a search of the tree should find.                *)
(***************************************************************************)
Prop(name, value) == <<[c |-> "name", v |-> name], [c |-> "len", v |-> 1], [c |-> "body", v |-> value]>>
Props(t) ==
    (IF t.name = "none" THEN <<>> ELSE Prop("name", t.name))
        \o (IF t.type = "none" THEN <<>> ELSE Prop("ane-type", t.type))
Header(t, extra) == [c |-> "node", nprops |-> Len(Props(t)) \div 3, nchildren |-> Len(t.kids) + extra]
Zero == [c |-> "node", nprops |-> 0, nchildren |-> 0]

RECURSIVE Enc(_, _)
Enc(t, extra) ==
    <<Header(t, extra)>> \o Props(t) \o FlattenSeq([i \in 1..Len(t.kids) |-> Enc(t.kids[i], 0)])

RECURSIVE Height(_)
Height(t) == 1 + Max({0} \cup {Height(t.kids[i]) : i \in 1..Len(t.kids)})

\* Offset of the i-th child inside the encoding of its parent.
KidOff(t, i) ==
    1 + Len(Props(t)) + FoldSeq(LAMBDA x, y : Len(Enc(x, 0)) + y, 0, SubSeq(t.kids, 1, i - 1))

\* The offset of the first child of the first arm-io whose ane-type is "ane".
Reference(t) ==
    LET io == {i \in 1..Len(t.kids) : t.kids[i].name = "arm-io"}
        a == t.kids[Min(io)]
        anes == {i \in 1..Len(a.kids) : a.kids[i].type = "ane"}
    IN IF io = {} THEN Missing
       ELSE IF anes = {} THEN Missing ELSE KidOff(t, Min(io)) + KidOff(a, Min(anes))

(***************************************************************************)
(* Reading cells.                                                          *)
(***************************************************************************)
N == Len(hw.cells)
Cell(off) == hw.cells[off + 1]
NPropsAt(off) == IF Cell(off).c = "node" THEN Cell(off).nprops ELSE Junk
NChildrenAt(off) == IF Cell(off).c = "node" THEN Cell(off).nchildren ELSE Junk
LenAt(off) == IF Cell(off + 1).c = "len" THEN Cell(off + 1).v ELSE Junk
NameAt(off) == IF Cell(off).c = "name" THEN Cell(off).v ELSE "junk"
BodyAt(off) == IF Cell(off + 2).c = "body" THEN Cell(off + 2).v ELSE "junk"

(***************************************************************************)
(* The M3 walker.                                                          *)
(***************************************************************************)
\* No header here, or one whose counts cannot be.
ane_h15_adt_node_at(off) == off + 1 > N \/ NPropsAt(off) > MaxCount \/ NChildrenAt(off) > MaxCount

RECURSIVE ane_h15_props_end(_, _)
\* Past n properties; only a header that does not fit is refused here.
ane_h15_props_end(off, n) ==
    IF n = 0 THEN off
    ELSE IF off + 2 > N THEN Malformed
    ELSE ane_h15_props_end(off + 2 + LenAt(off), n - 1)

RECURSIVE ane_h15_adt_subtree_end(_), ane_h15_skip(_, _)
\* Past n siblings.
ane_h15_skip(off, n) ==
    IF n = 0 \/ off = Malformed THEN off
    ELSE IF ane_h15_adt_node_at(off) THEN Malformed
    ELSE ane_h15_skip(ane_h15_adt_subtree_end(off), n - 1)
ane_h15_adt_subtree_end(off) ==
    LET p == ane_h15_props_end(off + 1, NPropsAt(off))
        e == IF p = Malformed THEN p ELSE ane_h15_skip(p, NChildrenAt(off))
    IN IF e > N THEN Malformed ELSE e

ane_h15_adt_nth_child_off(off, i) ==
    LET p == ane_h15_props_end(off + 1, NPropsAt(off))
    IN IF p = Malformed THEN p ELSE ane_h15_skip(p, i)

RECURSIVE ane_h15_adt_prop(_, _, _)
ane_h15_adt_prop(off, n, name) ==
    IF n = 0 THEN Missing
    ELSE IF off + 2 > N \/ off + 2 + LenAt(off) > N THEN Malformed
    ELSE IF NameAt(off) = name THEN off
    ELSE ane_h15_adt_prop(off + 2 + LenAt(off), n - 1, name)

\* A child is the one wanted: its property has the value.  The loops differ in what an unreadable
\* property does: the search for arm-io goes on, the one for the ANE stops.
Has15(c, name, value) ==
    LET p == ane_h15_adt_prop(c + 1, NPropsAt(c), name) IN p >= 0 /\ BodyAt(p) = value
Broken15(c, name) == ane_h15_adt_prop(c + 1, NPropsAt(c), name) = Malformed

RECURSIVE ane_h15_adt_child_named(_, _, _, _, _)
ane_h15_adt_child_named(parent, i, name, value, strict) ==
    IF i = NChildrenAt(parent) THEN Missing
    ELSE LET c == ane_h15_adt_nth_child_off(parent, i)
         IN IF c < 0 THEN c
            ELSE IF ane_h15_adt_node_at(c) THEN Malformed
            ELSE IF strict /\ Broken15(c, name) THEN Malformed
            ELSE IF Has15(c, name, value) THEN c
            ELSE ane_h15_adt_child_named(parent, i + 1, name, value, strict)

ane_h15_adt_find_ane ==
    IF ane_h15_adt_node_at(0) \/ ane_h15_adt_subtree_end(0) < 0 THEN Malformed
    ELSE LET io == ane_h15_adt_child_named(0, 0, "name", "arm-io", FALSE)
         IN IF io < 0 THEN io ELSE ane_h15_adt_child_named(io, 0, "ane-type", "ane", TRUE)

(***************************************************************************)
(* The M4 walker: N is the end sentinel, where every walk finds an empty   *)
(* node.                                                                   *)
(***************************************************************************)
adt_nprops(off) == IF off + 1 > N THEN 0 ELSE NPropsAt(off)
adt_nchildren(off) == IF off + 1 > N THEN 0 ELSE NChildrenAt(off)

RECURSIVE adt_props_end(_, _)
adt_props_end(off, n) ==
    IF n = 0 THEN off
    ELSE IF off + 2 > N \/ off + 2 + LenAt(off) > N THEN Malformed
    ELSE adt_props_end(off + 2 + LenAt(off), n - 1)

\* todo[d] counts the nodes still to enter at depth d.
Bug_walk(off, todo) == Min({N, off + 1 + 3 * NPropsAt(off)})
RECURSIVE adt_walk(_, _)
adt_walk(off, todo) ==
    LET open == {d \in 1..Len(todo) : todo[d] > 0}
        d == Max(open)
        left == [SubSeq(todo, 1, d) EXCEPT ![d] = @ - 1]
    IN IF open = {} THEN off
       ELSE IF off + 1 > N THEN N
       ELSE LET p == adt_props_end(off + 1, NPropsAt(off))
            IN IF p = Malformed THEN N
               ELSE IF NChildrenAt(off) = 0 THEN adt_walk(p, left)
               ELSE IF d >= MaxDepth THEN N
               ELSE adt_walk(p, Append(left, NChildrenAt(off)))
adt_subtree_end(off) == adt_walk(off, <<1>>)

RECURSIVE adt_skip(_, _)
adt_skip(off, n) == IF n = 0 \/ off + 1 > N THEN off ELSE adt_skip(adt_subtree_end(off), n - 1)

RECURSIVE adt_props_seen(_, _)
\* In adt_child() a property header that does not fit only ends the loop; a body that does not fit ends the walk.
adt_props_seen(off, n) ==
    IF n = 0 \/ off + 2 > N THEN off
    ELSE IF off + 2 + LenAt(off) > N THEN Malformed
    ELSE adt_props_seen(off + 2 + LenAt(off), n - 1)
adt_child(parent, i) ==
    LET p == adt_props_seen(parent + 1, adt_nprops(parent))
    IN IF p = Malformed THEN N ELSE adt_skip(p, i)

RECURSIVE adt_prop(_, _, _)
adt_prop(off, n, name) ==
    IF n = 0 \/ off + 2 > N THEN Missing
    ELSE IF off + 2 + LenAt(off) > N THEN Malformed
    ELSE IF NameAt(off) = name THEN off
    ELSE adt_prop(off + 2 + LenAt(off), n - 1, name)
Has16(c, name, value) ==
    LET p == adt_prop(c + 1, adt_nprops(c), name) IN p >= 0 /\ BodyAt(p) = value

First16(parent, name, value) ==
    LET hits == {i \in 0..(adt_nchildren(parent) - 1) : Has16(adt_child(parent, i), name, value)}
    IN IF hits = {} THEN Missing ELSE adt_child(parent, Min(hits))
adt_find_ane ==
    LET io == First16(0, "name", "arm-io")
    IN IF io < 0 THEN io ELSE First16(io, "ane-type", "ane")

(***************************************************************************)
(* segment-ranges: two entries of three or of four words.                  *)
(***************************************************************************)
Word(w, mask) == IF mask THEN [w EXCEPT !.flags = 0] ELSE w
Entry(ws, i, mask) ==
    LET n == Len(ws) \div 2
        row == SubSeq(ws, i * n + 1, (i + 1) * n)
    IN [phys |-> row[1], iova |-> row[IF n = 4 THEN 3 ELSE 2], size |-> Word(row[n], mask /\ n = 4)]
Strides(ws) == Len(ws) \in {6, 8}
IsZero(w) == w.v = 0 /\ w.flags = 0
\* text and data: the pinned sizes; the TEXT size must be equal, the DATA size at least that.
Fits(text, data, es) == es[1].size = text /\ (es[2].size.v >= data.v \/ es[2].size.flags > 0)

Bug_h15_adt_segments(ws, text, data) ==
    LET es == <<Entry(ws, 0, FALSE), Entry(ws, 1, FALSE)>>
    IN IF ~Strides(ws) THEN <<>> ELSE es
ane_h15_adt_segments(ws, text, data) ==
    LET es == <<Entry(ws, 0, FALSE), Entry(ws, 1, FALSE)>>
    IN IF ~Strides(ws) THEN <<>>
       ELSE IF \E i \in 1..2 : IsZero(es[i].phys) \/ IsZero(es[i].iova) \/ IsZero(es[i].size) THEN <<>>
       ELSE IF \E i \in 1..2 : es[i].size.v % PROP_ALIGN # 0 THEN <<>>
       ELSE IF Fits(text, data, es) THEN es ELSE <<>>
ane_h16_seg_decode(ws, text, data) ==
    LET es == <<Entry(ws, 0, TRUE), Entry(ws, 1, TRUE)>>
    IN IF Strides(ws) /\ Fits(text, data, es) THEN es ELSE <<>>

(***************************************************************************)
(* A boot hands over a blob, or a property; both walkers read it.          *)
(***************************************************************************)
NoBlob == [tree |-> <<>>, cells |-> <<>>, whole |-> TRUE, garbage |-> FALSE, words |-> <<>>]
Init == pc = "none" /\ hw = NoBlob /\ k = <<>>

\* Cut anywhere, followed by zeroes, or with a root that counts one child too many.
boot_blob ==
    /\ pc = "none"
    /\ \E t \in Trees, extra \in {0, 1}, slack \in BOOLEAN :
          LET b == Enc(t, extra) IN
          \E n \in (IF slack THEN {Len(b) + 1} ELSE 0..Len(b)) :
             hw' = [NoBlob EXCEPT !.tree = t, !.cells = SubSeq(Append(b, Zero), 1, n),
                                  !.whole = extra = 0 /\ n >= Len(b)]
    /\ pc' = "blob" /\ UNCHANGED k
\* One count of one header is garbage.
boot_garbage ==
    /\ pc = "none"
    /\ \E t \in Trees, f \in {"nprops", "nchildren"} :
          LET b == Enc(t, 0) IN
          \E i \in {j \in 1..Len(b) : b[j].c = "node"} :
             hw' = [NoBlob EXCEPT !.tree = t, !.cells = [b EXCEPT ![i][f] = Junk],
                                  !.whole = FALSE, !.garbage = TRUE]
    /\ pc' = "blob" /\ UNCHANGED k
boot_ranges ==
    /\ pc = "none"
    /\ \E ws \in Ranges : hw' = [NoBlob EXCEPT !.words = ws]
    /\ pc' = "seg" /\ UNCHANGED k

find_ane ==
    /\ pc = "blob" /\ pc' = "done" /\ UNCHANGED hw
    /\ k' = <<ane_h15_adt_find_ane, adt_find_ane>>
Text == [v |-> 2, flags |-> 0]
Data == [v |-> 1, flags |-> 0]
segments ==
    /\ pc = "seg" /\ pc' = "done" /\ UNCHANGED hw
    /\ k' = <<ane_h15_adt_segments(hw.words, Text, Data), ane_h16_seg_decode(hw.words, Text, Data)>>

Next == boot_blob \/ boot_garbage \/ boot_ranges \/ find_ane \/ segments
Spec == Init /\ [][Next]_vars

(***************************************************************************)
(* Properties.                                                             *)
(***************************************************************************)
\* In a complete blob both walkers, the recursive one and the one with the fixed stack, find the
\* same node: the one a search of the tree finds.  In a blob that ends early, or whose root counts
\* a child that is not there, neither walker finds another node: the M3 walker refuses the blob
\* unless its padding reads as the missing child, and the M4 walker finds that node or none; none
\* also behind a subtree deeper than its stack.  A count that is garbage is refused by the M3 walker;
\* of the M4 walker, which believes it, nothing is claimed.
Shallow(t) == Height(t) <= MaxDepth + 1
AdtAgrees ==
    (pc = "done" /\ hw.words = <<>>) =>
       LET r == Reference(hw.tree)
       IN CASE hw.garbage -> k[1] = Malformed
            [] hw.whole /\ ~hw.garbage -> k[1] = r /\ (IF Shallow(hw.tree) THEN k[2] = r ELSE k[2] \in {Missing, r})
            [] OTHER -> k[1] \in {Malformed, r} /\ k[2] \in {Missing, r}

\* Segment ranges that both drivers accept are decoded to the same addresses and, in three-word
\* entries, the same sizes.  In four-word entries the last word is the size below flags: the M4
\* driver takes the size only, the M3 driver the whole word, so that DATA flags make its size larger.
\* No driver accepts a TEXT size other than the pinned one; the M3 decoder passes on no empty entry.
SegmentsAgree ==
    (pc = "done" /\ hw.words # <<>>) =>
       /\ (k[1] # <<>> /\ k[2] # <<>>) =>
             IF Len(hw.words) = 6 THEN k[1] = k[2] ELSE k[2] = [k[1] EXCEPT ![2].size.flags = 0]
       /\ k[1] # <<>> => \A i \in 1..2 : ~IsZero(k[1][i].phys) /\ ~IsZero(k[1][i].iova)
       /\ \A w \in 1..2 : k[w] # <<>> => k[w][1].size = Text
=============================================================================
