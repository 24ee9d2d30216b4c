------------------------------- MODULE MCHost -------------------------------
(***************************************************************************)
(* The host side, for TLC: the run-time library and its tools, the code    *)
(* that reads and edits the device tree, and the buffer pool of the T6021  *)
(* driver.  As in MCBoot, one behaviour is the life of one part, and the   *)
(* variables a part does not have stay Off.  AneT6021, the part with the   *)
(* most states, is extended and keeps its names.                           *)
(***************************************************************************)
EXTENDS AneT6021, TLC

CONSTANT Parts

VARIABLES
    part,
    pc, cfg, ane, held, k, wire, hw, note

common == <<pc, cfg, ane, held, k, wire, hw, note>>
hostVars == <<part, common, vars>>
Off == "off"

-----------------------------------------------------------------------------
(* libane: tasks that read and write the command buffer, a port or an      *)
(* intermediate, whose extent fits its channel or not; programs whose      *)
(* stream can be walked or not; files that are shorter than the program,   *)
(* and programs larger than their channel 0.                               *)
LibTask(a, b, d, lb, ea) ==
    [sel |-> <<a, b, d>>, live |-> <<a # 0, lb, d # 0>>, ext |-> <<ea, 0, 1>>]
LibTasks == {LibTask(a, 6, d, lb, ea) : a \in {0, 5, 6}, d \in {0, 4, 5}, lb \in BOOLEAN, ea \in {1, 2}}
LibTiles == {[c \in {0, 4, 5, 6} |-> CASE c = 0 -> 2 [] c = 4 -> 1 [] c = 5 -> n [] c = 6 -> IF b THEN 1 ELSE 0] : b \in BOOLEAN, n \in 1..2}
LibProgram(s, t, ts, walks, size, have) ==
    [src_count |-> s, dst_count |-> 1, tiles |-> t, tasks |-> ts, walks |-> walks, size |-> size, have |-> have]
LibPrograms ==
    {LibProgram(s, t, ts, TRUE, 2, 1) : s \in 1..2, t \in LibTiles,
        ts \in {<<a>> : a \in LibTasks} \cup {<<a, LibTask(4, 0, 5, FALSE, 1)>> : a \in LibTasks}}
    \cup {LibProgram(1, t, <<>>, FALSE, n, h) : t \in LibTiles, h \in {0, 2}, n \in {0, 2, 3}}

\* Tensors whose rows are padded or not, in planes that hold all rows or not; some without rows,
\* and some of more bytes than U64.
TileGeoms ==
    {g \in [N : 1..2, C : 1..2, H : 0..3, W : 1..3, R : {2, 4, 6, 8}, P : {4, 8, 12, 16, 24, 32},
            size : {16, 48, 96}] : g.P >= g.R}

(* ane_m2: streams of two or three tasks over three slots, records of      *)
(* every class, port tables, and programs the reader must refuse.          *)
Rec(S, O) == [cls : {"srcA", "srcB", "dst", "kdma"}, slot : S, off : O]
OddRecs == {[cls |-> c, slot |-> 4, off |-> 0] : c \in {"plain", "over", "other"}}
           \cup {[cls |-> "dst", slot |-> 36, off |-> 0]}     \* bit 28
Fill == [t |-> "fill", recs |-> <<>>]
Task(rs) == [t |-> "task", recs |-> rs]
M2Program(kind, items, n, in, scr, op, ports) ==
    [kind |-> kind, hdr |-> TRUE, items |-> items, count |-> n, inputs |-> in, out |-> 2, krn |-> 1,
     scratch |-> scr, oprefs |-> op, ports |-> ports]
Derive(items, n, in, scr) == M2Program("derive", items, n, in, scr, {}, <<>>)
Recs == Rec({1, 4, 5}, {0, 2})
Recs0 == Rec({1, 4, 5}, {0})
PortTables ==
    {<<[dir |-> 0, buf |-> 5, slot |-> s, size |-> 1], [dir |-> 1, buf |-> 4, slot |-> t, size |-> 2]>> :
        s \in {1, 4, 5}, t \in {1, 4, 5, 36}}
M2Programs ==
    {Derive(<<Fill, Task(<<a>>), Task(<<b, c>>)>>, 2, <<2, 1>>, TRUE) : a, b, c \in Recs0}
    \cup {Derive(<<Fill, Task(<<a>>), Task(<<b>>)>>, 2, <<2, 1>>, scr) : a, b \in Recs, scr \in BOOLEAN}
    \cup {Derive(<<Fill, Task(<<a>>), Task(<<b>>), Task(<<c>>)>>, 3, <<1, 2, 2>>, TRUE) : a, b, c \in Rec({4, 5}, {0})}
    \cup {Derive(<<Fill, x, Task(<<a>>)>>, n, <<2>>, TRUE) :
            x \in {Fill, [t |-> "bad", recs |-> <<>>], Task(<<>>)}, a \in Recs \cup OddRecs, n \in {1, 2}}
    \cup {M2Program("derive", <<Fill, Task(<<a>>)>>, 1, <<2>>, TRUE, op, <<>>) :
            a \in Recs, op \in {{<<4, 5>>, <<5, 64>>}, {<<4, 2>>}}}
    \cup {M2Program("ports", <<Fill, Task(<<a>>), Task(<<b>>)>>, 2, <<1>>, TRUE, {}, pt) :
            a \in Recs, b \in Rec({4, 5}, {0}) \cup OddRecs, pt \in PortTables}
    \cup {[Derive(<<Fill, Task(<<a>>)>>, 1, <<2>>, TRUE) EXCEPT !.hdr = FALSE] : a \in Recs0}
    \cup {M2Program("ports", <<Fill, Fill, Task(<<a>>)>>, 1, <<1>>, TRUE, {}, pt) :
            a \in Recs, pt \in PortTables \cup {<<>>}}

(* ADT: trees of depth four with up to two children a node (one, under the *)
(* root's second child), in which the node looked for is missing, in the   *)
(* right place or in a wrong one.                                          *)
Node(n, t, ks) == [name |-> n, type |-> t, kids |-> ks]
AdtLeafs == {Node("none", "ane", <<>>), Node("x", "y", <<>>)}
AdtGrands == AdtLeafs \cup {Node("none", "none", <<Node("none", "ane", <<>>)>>)}
UpTo2(S) == UNION {[1..n -> S] : n \in 0..2}
AdtMids(kids) == {Node(n, "none", ks) : n \in {"x", "arm-io"}, ks \in kids}
AdtTrees == {Node("none", "none", ks) : ks \in {<<>>} \cup {<<m>> : m \in AdtMids(UpTo2(AdtGrands))}
                \cup {<<m, o>> : m \in AdtMids(UpTo2(AdtGrands)), o \in AdtMids([1..1 -> AdtGrands] \cup {<<>>})}}
Word(v, f) == [v |-> v, flags |-> f]
Words == {Word(0, 0), Word(1, 0), Word(2, 0), Word(2, 1)}
AdtRanges ==
    {<<a, b, c, d, b, e>> : a, b, c, d, e \in Words}
    \cup {<<a, Word(1, 0), b, c, Word(1, 0), d, Word(1, 0), e>> : a, b, c, d, e \in Words}
    \cup {<<Word(1, 0), Word(2, 0)>>}

(* ane-run: port tables with a malformed, missing or repeated member, and  *)
(* arguments by index and by name, before and after the table.             *)
RunMembers == <<"name", "direction", "buffer_id", "bar_slot", "surface_bytes", "tile_bytes">>
Good == [i \in DOMAIN RunMembers |-> [key |-> RunMembers[i], ok |-> TRUE]]
RunPort(n, d, ms, fits) == [name |-> n, dir |-> d, members |-> ms, fits |-> fits]
PortOf(n, d) == RunPort(n, d, Good, TRUE)
OddPorts ==
    {RunPort("x", 0, ms, TRUE) :
        ms \in {[Good EXCEPT ![i].ok = FALSE] : i \in DOMAIN Good}
               \cup {[Good EXCEPT ![i].key = e] : i \in DOMAIN Good, e \in {"name", "ignored", "unknown"}}}
    \cup {RunPort("x", 0, Good, FALSE)}
TopMember(key, ok, ps) == [key |-> key, ok |-> ok, ports |-> ps]
Whole(ps) == <<TopMember("program", TRUE, <<>>), TopMember("ports", TRUE, ps)>>
RunTables == {<<PortOf("x", a), PortOf("y", b), PortOf(n, c)>> :
                a, b \in 0..2, c \in 0..1, n \in {"x", "z"}}
OddFiles ==
    {Whole(<<PortOf("y", 1), o>>) : o \in OddPorts}
    \cup {<<TopMember("program", TRUE, <<>>), TopMember(e, ok, <<PortOf("x", 0)>>), TopMember(f, TRUE, <<>>)>> :
            e, f \in {"bad", "other", "program", "ports"}, ok \in BOOLEAN}
Opt(o) == [opt |-> o, name |-> "none", idx |-> 0, file |-> "none"]
Named(o, n, f) == [opt |-> o, name |-> n, idx |-> 0, file |-> f]
Io(o, i, f) == [opt |-> o, name |-> "none", idx |-> i, file |-> f]
RunCases ==
    {[args |-> <<Opt("ports"), Named("--in", n, "f"), Named("--in", m, "g"), Named("--out", o, "h")>>, file |-> Whole(t)] :
        n, m, o \in {"x", "y", "z"}, t \in RunTables}
    \cup {[args |-> <<Io("--in", 0, "f"), Opt("ports"), Named("--in", "x", "g")>>, file |-> f] : f \in OddFiles}
    \cup {[args |-> <<Opt("ports"), Opt(e)>>, file |-> Whole(<<PortOf("x", 0)>>)] :
            e \in {"dry_run", "expect_bind", "tile_shift", "unknown", "--in"}}
    \cup {[args |-> <<Io("--in", i, "f"), Io("--in", 0, "g"), Io("--out", 0, "h"), Opt(e)>>, file |-> <<>>] :
            i \in 0..2, e \in {"expect_bind", "tile_shift", "time", "check", "--in"}}

-----------------------------------------------------------------------------
Lib == INSTANCE AneLib WITH Programs <- LibPrograms, TILE_COUNT <- 7, MaxIter <- 3
Tile == INSTANCE AneTile WITH Geoms <- TileGeoms, U64 <- 112
Session == INSTANCE AneSession WITH Names <- {"a", "b"}, Pairs <- {"p", "q"},
                Need <- [p \in {"p", "q"} |-> IF p = "p" THEN 2 ELSE 3],
                Cap <- 6, Used <- 2, MaxProgs <- 2, M <- 3
M2 == INSTANCE AneM2 WITH Procs <- {"p", "q"}, Digests <- {"x", "y"},
                SecSize <- <<1, 3, 2>>, IoDir <- <<0, 0, 1, 2>>
Build == INSTANCE AneM2Build WITH Programs <- M2Programs
Run == INSTANCE AneRun WITH Cases <- RunCases, IO_ARGS <- 2, Repeat <- 2
Overlay == INSTANCE AneOverlay WITH Targets <- {"ps1", "ps2"}, MaxPhandle <- 3
Adt == INSTANCE AneAdt WITH Trees <- AdtTrees, MaxDepth <- 2, MaxCount <- 4, PROP_ALIGN <- 2, Ranges <- AdtRanges

ASSUME HostConstants == Session!SessionAssumption /\ M2!M2Assumption

mcSize == [b \in Bos |-> 1]
Symmetry == Permutations(Threads) \cup Permutations(Bos)

NoPool ==
    /\ fw_lock = Off /\ bo_lock = Off /\ th = Off /\ quarantined = Off /\ max_mb = Off
    /\ bo = Off /\ listed = Off /\ mem = Off /\ pool = Off /\ sec_bytes = Off
    /\ total = Off /\ progs = Off /\ open = Off /\ holds = Off /\ fw = Off

HostInit ==
    /\ part \in Parts
    /\ \/ part = "lib" /\ Lib!Init /\ ane = Off /\ wire = Off /\ NoPool
       \/ part = "tile" /\ Tile!Init /\ ane = Off /\ held = Off /\ wire = Off /\ note = Off /\ NoPool
       \/ part = "session" /\ Session!Init /\ cfg = Off /\ ane = Off /\ held = Off /\ NoPool
       \/ part = "m2" /\ M2!Init /\ cfg = Off /\ k = Off /\ wire = Off /\ note = Off /\ NoPool
       \/ /\ part = "build" /\ Build!Init /\ NoPool
          /\ ane = Off /\ held = Off /\ wire = Off /\ hw = Off /\ note = Off
       \/ part = "run" /\ Run!Init /\ ane = Off /\ wire = Off /\ NoPool
       \/ part = "overlay" /\ Overlay!Init /\ ane = Off /\ held = Off /\ wire = Off /\ NoPool
       \/ /\ part = "adt" /\ Adt!Init /\ NoPool
          /\ cfg = Off /\ ane = Off /\ held = Off /\ wire = Off /\ note = Off
       \/ /\ part = "pool" /\ Init /\ pc = Off /\ cfg = Off /\ ane = Off /\ held = Off
          /\ k = Off /\ wire = Off /\ hw = Off /\ note = Off

HostNext ==
    \/ part = "lib" /\ Lib!Next /\ UNCHANGED <<part, ane, wire, vars>>
    \/ part = "tile" /\ Tile!Next /\ UNCHANGED <<part, ane, held, wire, note, vars>>
    \/ part = "session" /\ Session!Next /\ UNCHANGED <<part, cfg, ane, held, vars>>
    \/ part = "m2" /\ M2!Next /\ UNCHANGED <<part, cfg, k, wire, note, vars>>
    \/ part = "build" /\ Build!Next /\ UNCHANGED <<part, ane, held, wire, hw, note, vars>>
    \/ part = "run" /\ Run!Next /\ UNCHANGED <<part, ane, wire, vars>>
    \/ part = "overlay" /\ Overlay!Next /\ UNCHANGED <<part, ane, held, wire, vars>>
    \/ part = "adt" /\ Adt!Next /\ UNCHANGED <<part, cfg, ane, held, wire, note, vars>>
    \/ part = "pool" /\ Next /\ UNCHANGED <<part, common>>

HostSpec == HostInit /\ [][HostNext]_hostVars

-----------------------------------------------------------------------------
(* Whichever step failed, nothing stays acquired: a failed or freed load   *)
(* of libane and of ane_m2 leaves no descriptor, buffer or reference, a    *)
(* run of ane-run no block but one, and an unloaded overlay leaves the     *)
(* device tree as it was, phandles added by it excepted.                   *)
ReleasesAll ==
    /\ part = "lib" => Lib!LibUnwound
    /\ part = "m2" => M2!M2Held
    /\ part = "run" => Run!RunFrees
    /\ part = "overlay" => Overlay!TreeRestored

(* A program that is ready is whole in its buffers, its tasks and ports    *)
(* name channels that exist and are large enough, each slot of an M2       *)
(* program resolves to one buffer it binds, and a program with a port      *)
(* table, or with one merged slot, references nothing outside its buffers. *)
(* What the T6021 firmware holds of it is never freed, whoever closes,     *)
(* frees or unmaps a buffer meanwhile.                                     *)
ProgramsSound ==
    /\ part = "lib" => Lib!LibReady
    /\ part = "build" => Build!SlotsResolved /\ Build!BuildInside
    /\ part = "pool" => FwNeverSeesFreed

(* Data survives the calls around it: the state of a loop that fails half  *)
(* way, the state of a session's program among others that share its       *)
(* buffers, a tensor sent to a tiled surface and read back, and the files  *)
(* named for the ports of a program.                                       *)
DataKept ==
    /\ part = "lib" => Lib!LoopKeepsState
    /\ part = "session" => Session!StateIsolated
    /\ part = "tile" => Tile!TilesRoundTrip
    /\ part = "run" => Run!NamedReached

(* What two walkers of the boot's device tree, written for two machines,   *)
(* find is the node a search finds and the ranges it states, and the       *)
(* handles minted for the live tree are unique.                            *)
TreesAgree ==
    /\ part = "adt" => Adt!AdtAgrees /\ Adt!SegmentsAgree
    /\ part = "overlay" => Overlay!PhandlesUnique

(* Counts are exact: the references, pool bytes and total bytes of the     *)
(* T6021 driver, the users of a program two processes share, and the       *)
(* projected demand of a session, each within its limit.                   *)
Accounted ==
    /\ part = "pool" => TypeOK /\ References /\ PoolAccounted /\ TotalAccounted
    /\ part = "m2" => M2!M2Shared
    /\ part = "session" => Session!SessionBounded

(* In ane-session a failure is final: no program runs after it, and the    *)
(* process does not report success.                                        *)
FailureFinal == [][part = "session" => Session!FailureFinal]_hostVars
=============================================================================
