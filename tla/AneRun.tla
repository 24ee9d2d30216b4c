------------------------------- MODULE AneRun -------------------------------
(***************************************************************************)
(* tools/ane-run.c: one run of a program from the command line, by index   *)
(* or, with a port table (--ports), by port name.  The arguments, the      *)
(* strict reader of the table and the blocks it allocates, the resolution  *)
(* of names to the indexes of libane, send, the repeated execution, and    *)
(* the output files.                                                       *)
(*                                                                         *)
(* Abstractions.  The table file is its members: a top-level member and a  *)
(* member of a port have a key and may be malformed; the values kept are a *)
(* port's name, direction and whether its surface fits its tile.  A heap   *)
(* block is the name of the variable that holds it.  The program file and  *)
(* the comparison that --check makes are outcomes.                         *)
(***************************************************************************)
LOCAL INSTANCE Integers
LOCAL INSTANCE Sequences
LOCAL INSTANCE SequencesExt
LOCAL INSTANCE FiniteSets
LOCAL INSTANCE FiniteSetsExt

CONSTANTS
    Cases,      \* [args, file]: the arguments, a sequence of [opt, name, idx, file] (IDX=FILE
                \* or NAME=FILE), and the port table, a sequence of [key, ok, ports]
    IO_ARGS,    \* --in and --out arguments that are kept
    Repeat      \* --repeat

VARIABLES
    pc,     \* where main() is
    cfg,    \* [args, file]
    held,   \* the heap blocks and the device that are live
    k,      \* positions: [a, i, j, m], the member flags of a port, io index, ret
    hw,     \* the buffers: [in (position -> file), runs, out (<<file, position>>)]
    note    \* ins, outs, nins, nouts, the switches on; pr

vars == <<pc, cfg, held, k, hw, note>>

Init ==
    /\ pc = "args" /\ cfg \in Cases
    /\ held = {} /\ hw = [in |-> <<>>, runs |-> 0, out |-> {}]
    /\ k = [a |-> 1, i |-> 1, j |-> 1, m |-> 1, seen |-> {}, top |-> {}, io |-> 1, ret |-> 0]
    /\ note = [ins |-> <<>>, outs |-> <<>>, nins |-> <<>>, nouts |-> <<>>, on |-> {},
               pr |-> <<>>]

\* free() of blocks, some of which may not be there.
Free(S) == held' = held \ S
Exit(code, S) == pc' = "end" /\ k' = [k EXCEPT !.ret = code] /\ Free(S)

\* free_port_read(): the names and the array.
Name == <<"name 1", "name 2", "name 3", "name 4">>      \* the instances' tables have no more
Bug_PortRead == {Name[i] : i \in 2..Len(note.pr)} \cup {"ports"}
PortRead == {Name[i] : i \in DOMAIN note.pr} \cup {"ports"}

-----------------------------------------------------------------------------
\* The first slot that is not set: the slots fill from the first one.
Slot(s) == IF Len(s) < IO_ARGS THEN Len(s) + 1 ELSE 0
Table(a) ==
    IF a.opt = "--in" THEN (IF "ports" \in note.on THEN "nins" ELSE "ins")
    ELSE (IF "ports" \in note.on THEN "nouts" ELSE "outs")
parse_arg(a) ==
    IF Slot(note[Table(a)]) = 0 \/ a.file = "none" THEN Exit(2, {}) /\ UNCHANGED <<hw, note>>
    ELSE /\ note' = [note EXCEPT ![Table(a)] = Append(@, [name |-> a.name, idx |-> a.idx, file |-> a.file])]
         /\ k' = [k EXCEPT !.a = @ + 1] /\ UNCHANGED <<pc, held, hw>>

next_arg ==
    /\ pc = "args" /\ k.a <= Len(cfg.args) /\ UNCHANGED cfg
    /\ LET a == cfg.args[k.a] IN
       \/ a.opt \in {"--in", "--out"} /\ parse_arg(a)
       \/ a.opt = "unknown" /\ Exit(2, {}) /\ UNCHANGED <<hw, note>>
       \/ /\ a.opt \in {"ports", "dry_run", "expect_bind", "tile_shift", "time", "check"}
          /\ note' = [note EXCEPT !.on = @ \cup {a.opt}]
          /\ k' = [k EXCEPT !.a = @ + 1] /\ UNCHANGED <<pc, held, hw>>

Ports == "ports" \in note.on
end_args ==
    /\ pc = "args" /\ k.a > Len(cfg.args) /\ UNCHANGED <<cfg, hw, note>>
    /\ IF Ports /\ note.on \cap {"expect_bind", "tile_shift"} # {} THEN Exit(2, {})
       ELSE pc' = (IF Ports THEN "file" ELSE "init") /\ UNCHANGED <<k, held>>

-----------------------------------------------------------------------------
\* An error anywhere in the table: the reader frees S, read_port_file() its
\* buffer, main() the ports read so far.  The program's name is left behind.
Malformed(S) == Exit(1, S \cup {"buf"} \cup PortRead) /\ UNCHANGED <<hw, note>>

read_port_file ==
    /\ pc = "file" /\ UNCHANGED <<cfg, hw, note>>
    /\ \/ Exit(1, {})                        \* open, seek, malloc or read failed
       \/ pc' = "top" /\ held' = held \cup {"buf"} /\ UNCHANGED k

Top == cfg.file[k.i]
NextTop(seen) == k' = [k EXCEPT !.i = @ + 1, !.top = @ \cup seen]

\* One member of the top level; "ports" goes on with the first port.
json_read_top ==
    /\ pc = "top" /\ k.i <= Len(cfg.file) /\ UNCHANGED <<cfg, hw>>
    /\ \/ /\ Top.key = "bad" /\ Malformed({})
       \/ /\ Top.key = "program" /\ Top.ok
          /\ held' = held \cup {"prog"} /\ NextTop({"program"}) /\ UNCHANGED <<pc, note>>
       \/ /\ Top.key = "program" /\ ~Top.ok /\ Malformed({"prog"})
       \/ /\ Top.key = "ports" /\ pc' = "ports" /\ held' = held \cup {"key"}
          /\ k' = [k EXCEPT !.j = 1] /\ UNCHANGED note
       \/ /\ Top.key = "other" /\ Top.ok /\ NextTop({}) /\ UNCHANGED <<pc, held, note>>
       \/ /\ Top.key = "other" /\ ~Top.ok /\ Malformed({})

end_top ==
    /\ pc = "top" /\ k.i > Len(cfg.file) /\ UNCHANGED <<cfg, hw>>
    /\ IF k.top # {"program", "ports"} THEN Malformed({"prog"})
       ELSE /\ Free({"prog", "buf"}) /\ UNCHANGED <<k, note>>
            /\ pc' = IF "dry_run" \in note.on THEN "dry" ELSE "init"

Port == Top.ports[k.j]
next_port ==
    /\ pc = "ports" /\ UNCHANGED <<cfg, hw>>
    /\ \/ /\ k.j <= Len(Top.ports) /\ pc' = "member"
          /\ k' = [k EXCEPT !.m = 1, !.seen = {}] /\ UNCHANGED <<held, note>>
       \/ /\ k.j > Len(Top.ports) /\ Top.ok
          /\ pc' = "top" /\ Free({"key"}) /\ NextTop({"ports"}) /\ UNCHANGED note
       \/ /\ k.j > Len(Top.ports) /\ ~Top.ok /\ Malformed({"key"})

\* The reader of a port holds a key and the port's name.
PortFails == Malformed({"name_buf", "key"})

Member == Port.members[k.m]
Kept == {"direction", "buffer_id", "bar_slot", "tile_bytes"}
Read == Kept \cup {"name", "surface_bytes", "ignored"}
json_read_port ==
    /\ pc = "member" /\ k.m <= Len(Port.members) /\ UNCHANGED <<cfg, hw>>
    /\ \/ /\ Member.ok /\ Member.key \in Read
          /\ held' = held \cup (IF Member.key = "name" THEN {"name_buf"} ELSE {})
          /\ k' = [k EXCEPT !.m = @ + 1, !.seen = @ \cup {Member.key}] /\ UNCHANGED <<pc, note>>
       \/ ~(Member.ok /\ Member.key \in Read) /\ PortFails

\* port_read_push() fails when the array cannot grow.
Complete == (Kept \cup {"name", "surface_bytes"}) \subseteq k.seen /\ Port.fits
port_read_push ==
    /\ pc = "member" /\ k.m > Len(Port.members) /\ UNCHANGED <<cfg, hw>>
    /\ \/ PortFails
       \/ /\ Complete
          /\ note' = [note EXCEPT !.pr = Append(@, [name |-> Port.name, dir |-> Port.dir])]
          /\ held' = (held \ {"name_buf"}) \cup {"ports", Name[Len(note.pr) + 1]}
          /\ pc' = "ports" /\ k' = [k EXCEPT !.j = @ + 1]

-----------------------------------------------------------------------------
dry_run_ports ==
    /\ pc = "dry" /\ UNCHANGED <<cfg, hw, note>> /\ \E code \in 0..1 : Exit(code, PortRead)

\* ane_m2_init_ports() with the table, __ane_init() without; a model loaded by
\* index has two inputs and an output.
Bound == IF Ports THEN [i \in DOMAIN note.pr |-> note.pr[i].dir] ELSE <<0, 1, 0>>
ane_init ==
    /\ pc = "init" /\ UNCHANGED <<cfg, note>>
    /\ \/ Exit(1, PortRead) /\ UNCHANGED hw
       \/ /\ held' = held \cup {"nn"} /\ hw' = [hw EXCEPT !.in = [i \in DOMAIN Bound |-> "none"]]
          /\ pc' = (IF "expect_bind" \in note.on THEN "expect" ELSE "names") /\ UNCHANGED k

check_expected_bind ==
    /\ pc = "expect" /\ UNCHANGED <<cfg, hw, note>>
    /\ (Exit(2, {"nn"}) \/ (pc' = "names" /\ UNCHANGED <<k, held>>))

\* The first port of that name, and its place among the ports of its direction, from 0.
port_find(n) == SelectInSeq(note.pr, LAMBDA p : p.name = n)
Bug_port_host_idx(n, dir) ==
    IF port_find(n) = 0 \/ note.pr[port_find(n)].dir # dir THEN -1 ELSE port_find(n) - 1
port_host_idx(n, dir) ==
    IF port_find(n) = 0 \/ note.pr[port_find(n)].dir # dir THEN -1
    ELSE Len(SelectSeq(SubSeq(note.pr, 1, port_find(n) - 1), LAMBDA p : p.dir = dir))

\* Slot k of the named arguments replaces slot k of the others.
Resolve(s, ns, dir) ==
    [i \in 1..Max({Len(s), Len(ns)}) |->
        IF i <= Len(ns) THEN [ns[i] EXCEPT !.idx = port_host_idx(ns[i].name, dir)] ELSE s[i]]
Missing(ns, dir) == \E i \in DOMAIN ns : port_host_idx(ns[i].name, dir) < 0
resolve_names ==
    /\ pc = "names" /\ UNCHANGED <<cfg, hw>>
    /\ IF Missing(note.nins, 0) \/ Missing(note.nouts, 1)
       THEN Exit(1, PortRead \cup {"nn"}) /\ UNCHANGED note
       ELSE /\ note' = [note EXCEPT !.ins = Resolve(@, note.nins, 0), !.outs = Resolve(@, note.nouts, 1)]
            /\ Free(PortRead) /\ pc' = "send" /\ UNCHANGED k

\* What libane's index i of a direction is: the place of that port, 0 for none.
Nth(dir, i) ==
    LET of == {p \in DOMAIN Bound : Bound[p] = dir /\ Cardinality({q \in 1..(p - 1) : Bound[q] = dir}) = i}
    IN IF of = {} THEN 0 ELSE CHOOSE p \in of : TRUE

\* read_exact() may fail; its buffer is freed after the copy.
Failed == Exit(1, {"nn"}) /\ UNCHANGED hw
send ==
    /\ pc = "send" /\ UNCHANGED <<cfg, note>>
    /\ IF k.io > Len(note.ins) THEN pc' = "exec" /\ k' = [k EXCEPT !.io = 1] /\ UNCHANGED <<held, hw>>
       ELSE LET p == Nth(0, note.ins[k.io].idx) IN
            \/ Failed
            \/ /\ p # 0 /\ hw' = [hw EXCEPT !.in[p] = note.ins[k.io].file]
               /\ k' = [k EXCEPT !.io = @ + 1] /\ UNCHANGED <<pc, held>>

\* The timing buffers, then the calls; a failed call, and a timing file that
\* cannot be written, fail the run.
exec ==
    /\ pc = "exec" /\ UNCHANGED <<cfg, note>>
    /\ \/ /\ hw.runs < Repeat /\ hw' = [hw EXCEPT !.runs = @ + 1] /\ UNCHANGED <<pc, k, held>>
       \/ /\ hw.runs = Repeat /\ pc' = "write" /\ UNCHANGED <<k, held, hw>>
       \/ /\ (hw.runs < Repeat \/ "time" \in note.on) /\ Failed

write_out ==
    /\ pc = "write" /\ UNCHANGED <<cfg, note>>
    /\ IF k.io > Len(note.outs)
       THEN /\ \E code \in IF "check" \in note.on THEN 0..1 ELSE {0} : Exit(code, {"nn"})
            /\ UNCHANGED hw
       ELSE LET p == Nth(1, note.outs[k.io].idx) IN
            \/ Failed
            \/ /\ p # 0 /\ hw' = [hw EXCEPT !.out = @ \cup {<<note.outs[k.io].file, p>>}]
               /\ k' = [k EXCEPT !.io = @ + 1] /\ UNCHANGED <<pc, held>>

Next ==
    \/ next_arg \/ end_args \/ read_port_file \/ json_read_top \/ end_top \/ next_port
    \/ json_read_port \/ port_read_push \/ dry_run_ports \/ ane_init \/ check_expected_bind
    \/ resolve_names \/ send \/ exec \/ write_out

Spec == Init /\ [][Next]_vars

-----------------------------------------------------------------------------
(* Whichever argument, member of the port table or call failed, main()     *)
(* returns with every block and the device freed; the name of the program, *)
(* which json_read_top() forgets on its error paths, is the exception.     *)
RunFrees == pc = "end" => held \subseteq (IF k.ret = 1 THEN {"prog"} ELSE {})

(* When a run with a port table ends well, the file of every --in NAME is  *)
(* in the buffer of the first port of that name unless a later --in NAME   *)
(* named it again, each --out NAME was written from the port of its name,  *)
(* and all calls were made before.  (An index argument that came before    *)
(* --ports is the exception: a name may replace it, and it may hit the     *)
(* same port.)                                                             *)
NamedReached ==
    LET Given(o) == SelectSeq(cfg.args, LAMBDA a : a.opt = o)
        named == Ports /\ cfg.args[1].opt = "ports"
    IN pc = "end" /\ k.ret = 0 /\ named /\ "dry_run" \notin note.on =>
          /\ hw.runs = Repeat
          /\ \A i \in DOMAIN Given("--in") :
                LET a == Given("--in")[i] IN
                \/ \E j \in DOMAIN Given("--in") : j > i /\ Given("--in")[j].name = a.name
                \/ \E p \in DOMAIN note.pr : /\ note.pr[p].name = a.name /\ note.pr[p].dir = 0
                                             /\ hw.in[p] = a.file
          /\ {<<o[1], note.pr[o[2]].name>> : o \in hw.out}
                = {<<a.file, a.name>> : a \in ToSet(Given("--out"))}
=============================================================================
