------------------------------ MODULE AneTile -------------------------------
(***************************************************************************)
(* Moving a tensor into the tiled layout of a channel and back: ane_tile,  *)
(* ane_untile, and the span by which tile_fits refuses a transfer.         *)
(* Sources: libane/ane.c, libane/ane_bind.h.                               *)
(*                                                                         *)
(* Abstractions.  Memory is counted in fp16 elements, P and R (plane and   *)
(* row) in bytes as in the header.  Element i of the tensor holds i + 1, a *)
(* cleared cell holds 0.  A row is copied in one step.  Byte counts wrap   *)
(* at U64; the addresses of rows do not, so that a row beyond is outside.  *)
(***************************************************************************)
LOCAL INSTANCE Integers
LOCAL INSTANCE FiniteSetsExt

CONSTANTS
    Geoms,   \* header geometries [N, C, H, W, P, R] with their channel's bytes: size
    U64      \* 2^64, scaled down with the sizes

VARIABLES
    pc,    \* "idle", "tile", "tiled", "untile", "done"
    cfg,   \* the geometry
    k,     \* the row the loop nest is at
    hw     \* [tile, data]: the channel's mapping and the tensor read back

vars == <<pc, cfg, k, hw>>

new_H(g) == g.P \div g.R
new_W(g) == g.R \div 2
RowsOf(g) == g.N * g.C * g.H
Wrap(x) == x % U64
Planes(g) == Wrap(g.N * g.C * g.P)
Dense(g) == new_H(g) = g.H /\ new_W(g) = g.W

Bug_ane_bind_tile_span(g) ==
    IF g.R < Wrap(g.W * 2) THEN U64 - 1 ELSE 0
\* The end of the last row that tiling touches.
LastRow(g) == (((g.N - 1) * g.C + (g.C - 1)) * new_H(g) * new_W(g) + (g.H - 1) * new_W(g) + g.W) * 2
NoElements(g) == 0 \in {g.N, g.C, g.H, g.W}
\* The last byte that tiling touches; a row narrower than W elements cannot be tiled.
ane_bind_tile_span(g) ==
    IF NoElements(g) THEN 0
    ELSE IF g.R < Wrap(g.W * 2) THEN U64 - 1
    ELSE Max({Wrap(LastRow(g)), Planes(g)})
tile_fits(g) == ane_bind_tile_span(g) <= g.size

\* First element of row r of the tensor, and of its place in the tile.
Src(g, r) == r * g.W
Bug_Dst(g, r) == (r \div g.H) * (g.H * g.W) + (r % g.H) * new_W(g)
Dst(g, r) == (r \div g.H) * (new_H(g) * new_W(g)) + (r % g.H) * new_W(g)

Cells(g) == 0..((g.size \div 2) - 1)
Elems(g) == 0..(RowsOf(g) * g.W - 1)
NoGeom == [N |-> 0, C |-> 0, H |-> 0, W |-> 0, P |-> 0, R |-> 1, size |-> 0]
Empty == [tile |-> <<>>, data |-> <<>>, past |-> FALSE]

Init == pc = "idle" /\ cfg = NoGeom /\ k = 0 /\ hw = Empty

\* __ane_tile_send(): the whole plane span is cleared, or copied when the layouts agree.
ane_tile_send ==
    /\ pc = "idle"
    /\ \E g \in Geoms :
          /\ tile_fits(g) /\ cfg' = g /\ k' = 0
          /\ hw' = [Empty EXCEPT !.tile = [i \in Cells(g) |->
                                             IF Dense(g) /\ i \in Elems(g) THEN i + 1 ELSE 0],
                                 !.past = Planes(g) > g.size]
          /\ pc' = IF Dense(g) \/ RowsOf(g) = 0 THEN "tiled" ELSE "tile"

\* memcpy of `n` elements; a place outside the destination is recorded, not written.
Copied(d, to, s, from, n) ==
    [i \in DOMAIN d |-> IF i - to \in 0..(n - 1) /\ from + (i - to) \in DOMAIN s THEN s[from + (i - to)] ELSE d[i]]
Outside(d, to, n) == n > 0 /\ (to + n - 1) \notin DOMAIN d

tile_row ==
    /\ pc = "tile"
    /\ hw' = [hw EXCEPT !.tile = Copied(@, Dst(cfg, k), [e \in Elems(cfg) |-> e + 1], Src(cfg, k), cfg.W),
                        !.past = @ \/ Outside(hw.tile, Dst(cfg, k), cfg.W)]
    /\ IF k + 1 = RowsOf(cfg) THEN pc' = "tiled" /\ k' = 0 ELSE k' = k + 1 /\ UNCHANGED pc
    /\ UNCHANGED cfg

\* __ane_tile_read() of the same geometry; nothing is modelled after a write outside.
ane_tile_read ==
    /\ pc = "tiled" /\ ~hw.past
    /\ hw' = [hw EXCEPT !.data = [i \in Elems(cfg) |-> IF Dense(cfg) THEN hw.tile[i] ELSE 0]]
    /\ pc' = IF Dense(cfg) \/ RowsOf(cfg) = 0 THEN "done" ELSE "untile"
    /\ UNCHANGED <<cfg, k>>

untile_row ==
    /\ pc = "untile"
    /\ hw' = [hw EXCEPT !.data = Copied(@, Src(cfg, k), hw.tile, Dst(cfg, k), cfg.W)]
    /\ IF k + 1 = RowsOf(cfg) THEN pc' = "done" /\ k' = 0 ELSE k' = k + 1 /\ UNCHANGED pc
    /\ UNCHANGED cfg

Next == ane_tile_send \/ tile_row \/ ane_tile_read \/ untile_row
Spec == Init /\ [][Next]_vars

(***************************************************************************)
(* Properties.                                                             *)
(***************************************************************************)
\* No row that tile_fits accepts is copied outside the channel's mapping, and reading back what was
\* sent gives the same tensor whenever a plane holds all of its rows.  Excepted are geometries whose
\* span exceeds 64 bits, which wraps to one that fits, and those without elements, for which the span
\* is 0 and the planes are cleared all the same.
Measured(g) == ~NoElements(g) /\ Max({LastRow(g), g.N * g.C * g.P}) < U64
TilesRoundTrip ==
    /\ hw.past => ~Measured(cfg)
    /\ (pc = "done" /\ cfg.P >= cfg.H * cfg.R) => hw.data = [i \in Elems(cfg) |-> i + 1]
=============================================================================
