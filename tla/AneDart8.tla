------------------------------ MODULE AneDart8 ------------------------------
(***************************************************************************)
(* ane/common/dart_t8110.h: the page-table builder of the newer DARTs, its *)
(* window and level count, the mapping call with tables allocated on       *)
(* demand, and the walk.                                                   *)
(*                                                                         *)
(* Abstractions.  Addresses count pages and have Space values; a table has *)
(* E entries.  A table is named by the indices that lead to it, so that    *)
(* two addresses with the same masked indices meet in the same table.  An  *)
(* entry is its page and its permissions; every address fits the 42 bits   *)
(* of its field.                                                           *)
(***************************************************************************)
LOCAL INSTANCE Integers
LOCAL INSTANCE Sequences

CONSTANTS
    Space, E, MaxLevels,
    Calls,      \* the calls made: <<iova, pa, size, prot>>
    MaxCalls    \* bound: calls in one life of the table

VARIABLES
    pc,     \* "init", "idle", "map"
    cfg,    \* struct dart8_cfg: [base, size, levels]
    k,      \* the call in progress and how far it came: [call, off, calls]
    hw,     \* [tables, leaf]: the tables there are, the entries of the last level
    note    \* what the pages mapped so far should translate to

vars == <<pc, cfg, k, hw, note>>
None == <<>>
Pages == 0..(Space - 1)
NoCall == [call |-> <<0, 0, 0, {}>>, off |-> 0, calls |-> 0]

Init ==
    /\ pc = "init" /\ cfg = [base |-> 0, size |-> 0, levels |-> 0] /\ k = NoCall
    /\ hw = [tables |-> {<<>>}, leaf |-> <<>>] /\ note = <<>>

\* The least number of levels whose indices hold the last page of the window,
\* at least 2.
Bug_Covers(n, page) == page =< E ^ n
Covers(n, page) == page < E ^ n
Levels(base, size) == CHOOSE n \in 2..MaxLevels + 1 : /\ Covers(n, base + size - 1) \/ n = MaxLevels + 1
                                                      /\ n = 2 \/ ~Covers(n - 1, base + size - 1)
dart8_cfg_init ==
    /\ pc = "init"
    /\ \E base \in Pages, size \in 1..Space :
        /\ base + size =< Space /\ Levels(base, size) =< MaxLevels
        /\ cfg' = [base |-> base, size |-> size, levels |-> Levels(base, size)]
    /\ pc' = "idle" /\ UNCHANGED <<k, hw, note>>

dart8_index(a, l) == (a \div E ^ (cfg.levels - l)) % E
Path(a, l) == [i \in 1..(l - 1) |-> dart8_index(a, i)]
Entry(a) == Path(a, cfg.levels + 1)
Set(f, x, v) == [y \in DOMAIN f \cup {x} |-> IF y = x THEN v ELSE f[y]]

\* A range outside the window, or one that wraps, is refused.
InWindow(a, n) == a >= cfg.base /\ a + n =< Space /\ a + n =< cfg.base + cfg.size
dart8_map ==
    /\ pc = "idle" /\ k.calls < MaxCalls
    /\ \E c \in Calls :
        IF c[3] > 0 /\ InWindow(c[1], c[3])
        THEN pc' = "map" /\ k' = [call |-> c, off |-> 0, calls |-> k.calls + 1]
        ELSE pc' = pc /\ k' = [k EXCEPT !.calls = @ + 1]
    /\ UNCHANGED <<cfg, hw, note>>

\* One page: the tables on its path, any of which may not be had, then the
\* entry, which may hold another mapping.  What an ended call has written
\* stays.
Bug_Conflict(pte, want) == FALSE
Conflict(pte, want) == pte # None /\ pte # want
PteOf(a) == IF Entry(a) \in DOMAIN hw.leaf THEN hw.leaf[Entry(a)] ELSE None
map_page ==
    /\ pc = "map" /\ k.off < k.call[3]
    /\ LET a == k.call[1] + k.off
           want == <<k.call[2] + k.off, k.call[4]>>
           missing == {l \in 2..cfg.levels : Path(a, l) \notin hw.tables}
       IN \/ \E n \in missing :     \* -ENOMEM at level n
                /\ hw' = [hw EXCEPT !.tables = @ \cup {Path(a, l) : l \in 2..(n - 1)}]
                /\ pc' = "idle" /\ UNCHANGED <<k, note>>
          \/ LET tables == hw.tables \cup {Path(a, l) : l \in 2..cfg.levels}
             IN IF Conflict(PteOf(a), want)
                THEN hw' = [hw EXCEPT !.tables = tables] /\ pc' = "idle" /\ UNCHANGED <<k, note>>
                ELSE /\ hw' = [tables |-> tables, leaf |-> Set(hw.leaf, Entry(a), want)]
                     /\ k' = [k EXCEPT !.off = @ + 1] /\ note' = Set(note, a, want) /\ UNCHANGED pc
    /\ UNCHANGED cfg
map_done == pc = "map" /\ k.off = k.call[3] /\ pc' = "idle" /\ UNCHANGED <<cfg, k, hw, note>>

\* The walk: the level at which it ends, then the permissions.
dart8_translate(a, write) ==
    LET absent == {l \in 2..cfg.levels : Path(a, l) \notin hw.tables}
    IN IF absent # {} THEN "no table"
       ELSE IF PteOf(a) = None THEN "no pte"
       ELSE IF (IF write THEN "NO_WRITE" ELSE "NO_READ") \in PteOf(a)[2] THEN "permission"
       ELSE "ok"

Next == dart8_cfg_init \/ dart8_map \/ map_page \/ map_done
Spec == Init /\ [][Next]_vars

\* In every state, also between two pages and after a call that failed in the
\* middle: a page inside the window translates to what was mapped there first
\* and to nothing if nothing was, whatever other pages share its tables; no
\* page outside the window is mapped.
WalkAgrees ==
    /\ DOMAIN note \subseteq cfg.base..(cfg.base + cfg.size - 1)
    /\ pc # "init" => \A a \in cfg.base..(cfg.base + cfg.size - 1), write \in BOOLEAN :
        LET r == dart8_translate(a, write)
        IN IF a \in DOMAIN note
           THEN /\ PteOf(a) = note[a]
                /\ r = IF (IF write THEN "NO_WRITE" ELSE "NO_READ") \in note[a][2] THEN "permission" ELSE "ok"
           ELSE r \in {"no table", "no pte"}

\* A page, once mapped, keeps its translation: a later call for it either
\* agrees or is refused.
MappingKept == \A a \in DOMAIN note : note'[a] = note[a]
====
