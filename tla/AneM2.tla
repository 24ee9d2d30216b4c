-------------------------------- MODULE AneM2 --------------------------------
(***************************************************************************)
(* libane/ane_m2.c, the device path: several processes open, run and close *)
(* programs on one driver.  A program whose digest the driver already      *)
(* holds is not loaded a second time; the client's copies of the sections  *)
(* go as soon as the process exists.                                       *)
(*                                                                         *)
(* Abstractions.  A buffer object is the name of its slot; an open handle  *)
(* with its mapping is membership in held.  A digest stands for the        *)
(* section bytes.  The driver answers a second load with the same identity *)
(* and keeps a program while an open file loaded or looked it up (AneT6021 *)
(* models that side); ane_free() and a failed open close the file.         *)
(***************************************************************************)
EXTENDS Integers, Sequences, FiniteSets

CONSTANTS
    Procs, Digests,
    SecSize,    \* the sizes of the section slots, by slot
    IoDir       \* the directions of the io table: 0 input, 1 output, 2 scratch

\* The sections and the io table of a program, as read from its file.
M2Assumption ==
    /\ IsFiniteSet(Digests)
    /\ "none" \notin Digests
    /\ SecSize \in Seq(Nat)
    /\ IoDir \in Seq(0..2)

VARIABLES
    pc,     \* per process: "idle", "lookup", "sections", "ios", "load", "create", "open"
    ane,    \* per process: struct ane_m2_ctx
    held,   \* per process: the buffer objects it has a handle of
    hw      \* the driver: [prog, refs, lookup]

vars == <<pc, ane, held, hw>>

Secs == {<<"sec", i>> : i \in DOMAIN SecSize}
Ios == {<<"io", i>> : i \in DOMAIN IoDir}
NoCtx == [digest |-> "none", found |-> FALSE, prog |-> 0, ios |-> 0,
          map |-> [i \in DOMAIN IoDir |-> "none"]]

Init ==
    /\ pc = [p \in Procs |-> "idle"] /\ ane = [p \in Procs |-> NoCtx]
    /\ held = [p \in Procs |-> {}]
    /\ \E l \in BOOLEAN : 
        hw = [prog |-> [d \in Digests |-> 0], refs |-> [d \in Digests |-> {}], lookup |-> l]

Go(p, s) == pc' = [pc EXCEPT ![p] = s]

\* ane_m2_ctx_free(): every section slot, because the slots are visited out
\* of order, and the io slots that were created.
Bug_ctx_free(p, n) ==
    LET visited == Cardinality(held[p] \cap Secs)
    IN held' = [held EXCEPT ![p] = @ \ ({<<"sec", i>> : i \in 1..visited} \cup {<<"io", i>> : i \in 1..n})]
ane_m2_ctx_free(p, n) == held' = [held EXCEPT ![p] = @ \ (Secs \cup {<<"io", i>> : i \in 1..n})]

\* ane_device_close(): a program no file refers to any more is unloaded.
ane_device_close(p) ==
    hw' = [hw EXCEPT !.refs = [d \in Digests |-> @[d] \ {p}],
                     !.prog = [d \in Digests |-> IF hw.refs[d] \subseteq {p} THEN 0 ELSE @[d]]]

Error(p) ==
    /\ ane_m2_ctx_free(p, ane[p].ios) /\ ane' = [ane EXCEPT ![p] = NoCtx]
    /\ Go(p, "idle") /\ ane_device_close(p)

\* Reading the file and building the sections; a failure holds nothing yet.
ane_m2_open(p, d) ==
    /\ pc[p] = "idle" /\ Go(p, "lookup")
    /\ ane' = [ane EXCEPT ![p].digest = d]
    /\ UNCHANGED <<held, hw>>

\* The key of a program, over its sections in the order of their ids.
program_digest(p) == ane[p].digest

Bug_Refer(p) == hw
Refer(p) == [hw EXCEPT !.refs[program_digest(p)] = @ \cup {p}]

\* PROG_LOOKUP with the driver's own dedup key; a kernel without it, or an
\* empty section, takes the classic path.
lookup(p) ==
    /\ pc[p] = "lookup"
    /\ \E asked \in {FALSE} \cup (IF hw.lookup THEN {TRUE} ELSE {}) :
       LET id == IF asked THEN hw.prog[program_digest(p)] ELSE 0
       IN /\ ane' = [ane EXCEPT ![p].found = id # 0, ![p].prog = id]
          /\ Go(p, IF id # 0 THEN "ios" ELSE "sections")
          /\ hw' = IF id # 0 THEN Refer(p) ELSE hw
    /\ UNCHANGED held

\* The largest section that has no buffer object yet.
Order(S) == CHOOSE i \in S : \A j \in S : SecSize[j] <= SecSize[i]

\* bo_alloc() leaves no handle behind when it fails.
bo_alloc(p, b) == held' = [held EXCEPT ![p] = @ \cup {b}]

bo_alloc_section(p) ==
    /\ pc[p] = "sections"
    /\ LET left == {i \in DOMAIN SecSize : <<"sec", i>> \notin held[p]} IN
       \/ left = {} /\ Go(p, "ios") /\ UNCHANGED <<ane, held, hw>>
       \/ /\ left # {} /\ bo_alloc(p, <<"sec", Order(left)>>)
          /\ UNCHANGED <<pc, ane, hw>>
       \/ left # {} /\ Error(p)

bo_alloc_io(p) ==
    /\ pc[p] = "ios"
    /\ LET i == ane[p].ios + 1 IN
       \/ i > Len(IoDir) /\ Go(p, "load") /\ UNCHANGED <<ane, held, hw>>
       \/ /\ i <= Len(IoDir) /\ bo_alloc(p, <<"io", i>>)
          /\ ane' = [ane EXCEPT ![p].ios = i, ![p].map = [ane[p].map EXCEPT ![i] = "zero"]]
          /\ UNCHANGED <<pc, hw>>
       \/ i <= Len(IoDir) /\ Error(p)

\* PROG_LOAD, skipped on a hit; another process may have loaded the same
\* program since the lookup, and the driver then returns its identity.
Fresh == CHOOSE i \in 1..Cardinality(Digests) : \A d \in Digests : hw.prog[d] # i
Identity(d) == IF hw.prog[d] # 0 THEN hw.prog[d] ELSE Fresh
prog_load(p) ==
    /\ pc[p] = "load"
    /\ LET d == program_digest(p)
           id == Identity(d)
       IN \/ ane[p].found /\ Go(p, "create") /\ UNCHANGED <<ane, held, hw>>
          \/ /\ ~ane[p].found /\ hw' = [Refer(p) EXCEPT !.prog[d] = id]
             /\ ane' = [ane EXCEPT ![p].prog = id]
             /\ Go(p, "create") /\ UNCHANGED held
          \/ ~ane[p].found /\ Error(p)

proc_create(p) ==
    /\ pc[p] = "create"
    /\ \/ /\ held' = [held EXCEPT ![p] = @ \ Secs]
          /\ Go(p, "open") /\ UNCHANGED <<ane, hw>>
       \/ Error(p)

ane_m2_close(p) ==
    /\ pc[p] = "open" /\ ane_m2_ctx_free(p, Len(IoDir))
    /\ ane' = [ane EXCEPT ![p] = NoCtx] /\ Go(p, "idle") /\ ane_device_close(p)

\* The idx-th entry of a direction (from 0), 0 when there is none.
Bug_nth_io(d, idx) == IF idx + 1 \in DOMAIN IoDir THEN idx + 1 ELSE 0
nth_io(d, idx) ==
    LET S == {i \in DOMAIN IoDir : IoDir[i] = d /\ Cardinality({j \in 1..(i - 1) : IoDir[j] = d}) = idx}
    IN IF S = {} THEN 0 ELSE CHOOSE i \in S : TRUE

ane_m2_send(p, idx) ==
    /\ pc[p] = "open" /\ nth_io(0, idx) # 0
    /\ ane' = [ane EXCEPT ![p].map[nth_io(0, idx)] = "sent"]
    /\ UNCHANGED <<pc, held, hw>>

\* A failed EXEC may have written the output.
ane_m2_exec(p) ==
    /\ pc[p] = "open"
    /\ ane' = [ane EXCEPT ![p].map = [i \in DOMAIN IoDir |-> IF IoDir[i] = 0 THEN @[i] ELSE "written"]]
    /\ UNCHANGED <<pc, held, hw>>

Next == \E p \in Procs :
    \/ \E d \in Digests : ane_m2_open(p, d)
    \/ lookup(p) \/ bo_alloc_section(p) \/ bo_alloc_io(p) \/ prog_load(p) \/ proc_create(p)
    \/ \E idx \in 0..Len(IoDir) : ane_m2_send(p, idx)
    \/ ane_m2_exec(p) \/ ane_m2_close(p)
Spec == Init /\ [][Next]_vars

\* A process that is not inside ane_m2_open() holds exactly the io buffers of
\* its open program and no copy of a section, whichever allocation or ioctl
\* failed before; a copy of the input reaches no output or scratch buffer.
M2Held ==
    \A p \in Procs : /\ pc[p] = "idle" => held[p] = {}
                     /\ pc[p] = "open" => held[p] = Ios
                     /\ \A i \in DOMAIN IoDir : ane[p].map[i] = "sent" => IoDir[i] = 0

\* The program a process runs stays loaded under it with the identity it was
\* given, two processes that run the same program share it, and a program
\* that is found costs no second set of sections, also when both looked it
\* up before either loaded it and when the first loader is gone.
M2Shared ==
    \A p \in Procs :
        /\ pc[p] = "open" => /\ ane[p].prog # 0 /\ hw.prog[ane[p].digest] = ane[p].prog
                             /\ \A d \in Digests : d # ane[p].digest => hw.prog[d] # ane[p].prog
        /\ ane[p].found => held[p] \cap Secs = {}
====
