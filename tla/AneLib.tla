------------------------------- MODULE AneLib -------------------------------
(***************************************************************************)
(* libane on the M1: opening the device, loading a program into buffer     *)
(* objects, deriving which channel carries which surface, moving surfaces, *)
(* executing once or in a loop with a state that alternates between two    *)
(* buffers, and freeing.  Sources: libane/ane.c, libane/ane_bind.h.        *)
(*                                                                         *)
(* Abstractions.  A program is a header (surface counts, tiles per         *)
(* channel) and a list of tasks, each with three selectors (source 1,      *)
(* source 2, destination), whether each is live, and the extent it moves.  *)
(* Sizes are in tiles.  A surface's contents are a number; a run of the    *)
(* program adds one to its source.  The payload is the number of its cells *)
(* that the file really has.  An ioctl, mmap or read may fail.             *)
(***************************************************************************)
LOCAL INSTANCE Integers
LOCAL INSTANCE Sequences
LOCAL INSTANCE FiniteSets
LOCAL INSTANCE FiniteSetsExt
LOCAL INSTANCE SequencesExt

CONSTANTS
    Programs,     \* [src_count, dst_count, tiles, tasks, walks, size, have]
    TILE_COUNT,   \* channels of a program
    MaxIter       \* bound: iterations of ane_exec_loop

VARIABLES
    pc,     \* "closed", a step of ane_init_common, "ready", "loop"
    cfg,    \* the call: [prog, staged, ports]
    held,   \* [nn, fd, data, bo, map]: what is allocated
    k,      \* struct ane_nn: [src, dst (bind), derived, chan, i, n]
    hw,     \* buffer contents: [cmd, btsp, buf]
    note    \* history: [loop]

vars == <<pc, cfg, held, k, hw, note>>

Surfaces == 4..(TILE_COUNT - 1)
Chans == {0} \cup Surfaces
Btsp == TILE_COUNT          \* the bootstrap buffer, after the channels
Nothing == [nn |-> FALSE, fd |-> FALSE, data |-> FALSE, bo |-> {}, map |-> {}]
NoProg == [src_count |-> 0, dst_count |-> 0, tiles |-> [c \in Chans |-> 0], tasks |-> <<>>,
           walks |-> FALSE, size |-> 0, have |-> 0]
NoCall == [prog |-> NoProg, staged |-> FALSE, ports |-> FALSE]
NoNn == [src |-> <<>>, dst |-> <<>>, derived |-> FALSE, chan |-> 0, i |-> 0, n |-> 0]
Blank == [cmd |-> [file |-> 0, zero |-> 0, past |-> FALSE], btsp |-> FALSE, buf |-> [c \in Surfaces |-> 0]]
NoLoop == [x |-> 0, n |-> 0, done |-> 0, over |-> FALSE]
Torn == -1                  \* a destination that a failed run left half written

anec == cfg.prog
Alloc == {c \in Chans : anec.tiles[c] > 0}

Init ==
    /\ pc = "closed" /\ cfg = NoCall /\ held = Nothing /\ k = NoNn /\ hw = Blank
    /\ note = [loop |-> NoLoop]

(***************************************************************************)
(* ane_bind.h: surfaces named by the task stream.                          *)
(***************************************************************************)
\* Live selectors of one role: slots 1 and 2 are sources, slot 3 the destination.
ane_bind_walk(p, slots) ==
    {c \in Surfaces : p.tiles[c] > 0 /\ \E t \in ToSet(p.tasks), s \in slots : t.live[s] /\ t.sel[s] = c}

\* The largest extent moved through a channel, allocated or not; source 2's size is not decoded.
Moves(p, c) ==
    {m \in ToSet(p.tasks) \X {1, 3} : m[1].live[m[2]] /\ m[1].sel[m[2]] = c}
Extent(p, c) == Max({0} \cup {m[1].ext[m[2]] : m \in Moves(p, c)})

Bug_ane_bind_overrun(p) == FALSE
ane_bind_overrun(p) == p.walks /\ \E c \in Surfaces : Extent(p, c) > p.tiles[c]

ane_bind_positional(p) ==
    [dst |-> [i \in 1..p.dst_count |-> 3 + i], src |-> [i \in 1..p.src_count |-> 3 + p.dst_count + i]]

Ascending(S) == SetToSortSeq(S, <)
First(S, n) == SubSeq(Ascending(S), 1, IF n < 0 THEN 0 ELSE Min({n, Cardinality(S)}))

\* Named destinations, then named sources that are not destinations; the surfaces the stream leaves
\* unnamed take the unused allocated channels, destinations first.
Bug_ane_bind_init(p) ==
    LET d == ane_bind_walk(p, {3})
        s == ane_bind_walk(p, {1, 2})
    IN [dst |-> Ascending(d), src |-> Ascending(s),
        ok |-> p.walks /\ Cardinality(d) = p.dst_count /\ Cardinality(s) = p.src_count]
ane_bind_init(p) ==
    LET d == ane_bind_walk(p, {3})
        s == ane_bind_walk(p, {1, 2}) \ d
        free == {c \in Surfaces : p.tiles[c] > 0} \ (d \cup s)
        moreD == First(free, p.dst_count - Cardinality(d))
        moreS == First(free \ ToSet(moreD), p.src_count - Cardinality(s))
        dst == Ascending(d) \o moreD
        src == Ascending(s) \o moreS
    IN [dst |-> dst, src |-> src,
        ok |-> p.walks /\ Len(dst) = p.dst_count /\ Len(src) = p.src_count]

\* The map libane uses: the derived one, or the positional one.
Bound(p) ==
    LET b == ane_bind_init(p)
        q == ane_bind_positional(p)
    IN IF b.ok THEN [dst |-> b.dst, src |-> b.src, derived |-> TRUE]
       ELSE [dst |-> q.dst, src |-> q.src, derived |-> FALSE]

(***************************************************************************)
(* ane_init_common().                                                      *)
(***************************************************************************)
Goto(l) == pc' = l /\ UNCHANGED cfg
\* Everything is released: the caller gets NULL.
Fail(h) ==
    /\ pc' = "closed" /\ cfg' = NoCall /\ k' = NoNn /\ hw' = Blank /\ held' = h
    /\ note' = [loop |-> NoLoop]

ane_init_common ==
    /\ pc = "closed"
    /\ \E p \in Programs, s, po \in BOOLEAN :
          /\ cfg' = [prog |-> p, staged |-> s, ports |-> po]
          /\ pc' = "open"
    /\ held' = [Nothing EXCEPT !.nn = TRUE]
    /\ UNCHANGED <<k, hw, note>>

\* The dev_id-th accel node of this driver; port tables need the other ABI.
ane_device_open ==
    /\ pc = "open"
    /\ \/ /\ ~cfg.ports /\ held' = [held EXCEPT !.fd = TRUE]
          /\ Goto("model") /\ UNCHANGED <<k, hw, note>>
       \/ Fail(Nothing)

\* The header; a staged load also reads, binds and checks the payload here.
Bug_model_failed == [held EXCEPT !.fd = FALSE, !.nn = FALSE]
model_failed == [held EXCEPT !.fd = FALSE, !.nn = FALSE, !.data = FALSE]
ane_model_init ==
    /\ pc = "model"
    /\ \/ Fail(model_failed)
       \/ /\ anec.size > 0 /\ ~cfg.staged
          /\ Goto("chans") /\ UNCHANGED <<held, k, hw, note>>
       \/ /\ anec.size > 0 /\ cfg.staged
          /\ held' = [held EXCEPT !.data = TRUE]
          /\ Goto("bind") /\ UNCHANGED <<k, hw, note>>

\* The staged payload is checked; the read itself may have failed.
model_bind ==
    /\ pc = "bind"
    /\ \/ /\ ~ane_bind_overrun(anec)
          /\ LET b == Bound(anec) IN k' = [k EXCEPT !.src = b.src, !.dst = b.dst, !.derived = b.derived]
          /\ Goto("chans") /\ UNCHANGED <<held, hw, note>>
       \/ Fail(model_failed)

ane_chan_free(h) == [h EXCEPT !.bo = {}, !.map = {}]
chan_failed == ane_chan_free([held EXCEPT !.fd = FALSE, !.data = FALSE, !.nn = FALSE])

\* ane_bo_init() of the next channel: DRM_IOCTL_ANE_BO_INIT and mmap.
ane_chan_init ==
    /\ pc = "chans"
    /\ LET rest == (Alloc \cup {Btsp}) \ held.bo
       IN \/ /\ rest # {}
             /\ held' = [held EXCEPT !.bo = @ \cup {Min(rest)}, !.map = @ \cup {Min(rest)}]
             /\ UNCHANGED <<pc, cfg, k, hw, note>>
          \/ rest # {} /\ Fail(chan_failed)
          \/ /\ rest = {}
             /\ Goto(IF cfg.staged THEN "copy" ELSE "place") /\ UNCHANGED <<held, k, hw, note>>

\* The program, zero past the end of a short file, in the tiles of channel 0; nobody compares the
\* two sizes, and a larger program is written past the mapping: the process ends or goes on.
Image(p) == [file |-> p.have, zero |-> p.size - p.have, past |-> FALSE]
InChannel(p, n) == Min({n, p.tiles[0]})
Written(p) ==
    [file |-> InChannel(p, p.have), zero |-> InChannel(p, p.size) - InChannel(p, p.have),
     past |-> p.size > p.tiles[0]]
Faults == anec.size > anec.tiles[0] /\ Fail(Nothing)

\* set_btsp_and_command(): the staging buffer is copied.
set_btsp_and_command ==
    /\ pc = "copy"
    /\ \/ /\ hw' = [hw EXCEPT !.cmd = Written(anec), !.btsp = TRUE]
          /\ Goto("ready") /\ UNCHANGED <<held, k, note>>
       \/ Faults

\* The payload goes straight into channel 0, its tail is cleared, and it is bound and checked there.
Bug_place_program ==
    /\ pc = "place"
    /\ \/ /\ ~ane_bind_overrun(anec)
          /\ LET b == Bound(anec) IN k' = [k EXCEPT !.src = b.src, !.dst = b.dst, !.derived = b.derived]
          /\ hw' = [hw EXCEPT !.cmd = [Written(anec) EXCEPT !.zero = 0], !.btsp = TRUE]
          /\ Goto("ready") /\ UNCHANGED <<held, note>>
       \/ Fail(chan_failed)
ane_place_program ==
    /\ pc = "place"
    /\ \/ /\ ~ane_bind_overrun(anec)
          /\ LET b == Bound(anec) IN k' = [k EXCEPT !.src = b.src, !.dst = b.dst, !.derived = b.derived]
          /\ hw' = [hw EXCEPT !.cmd = Written(anec), !.btsp = TRUE]
          /\ Goto("ready") /\ UNCHANGED <<held, note>>
       \/ Fail(chan_failed)
       \/ Faults

ane_free == pc = "ready" /\ Fail(ane_chan_free([held EXCEPT !.fd = FALSE, !.data = FALSE, !.nn = FALSE]))

(***************************************************************************)
(* Surfaces and execution.                                                 *)
(***************************************************************************)
Mapped(c) == c \in held.map
ane_send ==
    /\ pc = "ready" /\ anec.src_count > 0 /\ Mapped(k.src[1])
    /\ hw' = [hw EXCEPT !.buf[k.src[1]] = 0]
    /\ note' = [note EXCEPT !.loop = NoLoop]
    /\ UNCHANGED <<pc, cfg, held, k>>

\* One DRM_IOCTL_ANE_SUBMIT, with the two state handles exchanged or not.
Submit(swap, ok) ==
    LET from == IF swap THEN k.dst[1] ELSE k.src[1]
        to == IF swap THEN k.src[1] ELSE k.dst[1]
    IN hw' = [hw EXCEPT !.buf[to] = IF ok THEN hw.buf[from] + 1 ELSE Torn]
Runnable == anec.src_count > 0 /\ anec.dst_count > 0 /\ Mapped(k.src[1]) /\ Mapped(k.dst[1])

ane_exec ==
    /\ pc = "ready" /\ Runnable /\ hw.buf[k.src[1]] \in 0..MaxIter
    /\ \E ok \in BOOLEAN : Submit(FALSE, ok)
    /\ note' = [note EXCEPT !.loop = NoLoop]
    /\ UNCHANGED <<pc, cfg, held, k>>

\* Refused when the two state surfaces differ in size.
ane_exec_loop ==
    /\ pc = "ready" /\ Runnable /\ hw.buf[k.src[1]] \in 0..MaxIter
    /\ anec.tiles[k.src[1]] = anec.tiles[k.dst[1]]
    /\ \E n \in 1..MaxIter :
          /\ k' = [k EXCEPT !.i = 0, !.n = n]
          /\ note' = [note EXCEPT !.loop = [x |-> hw.buf[k.src[1]], n |-> n, done |-> 0, over |-> FALSE]]
    /\ pc' = "loop" /\ UNCHANGED <<cfg, held, hw>>

Bug_swap(i) == FALSE
swap_state(i) == i % 2 = 1
exec_iteration ==
    /\ pc = "loop"
    /\ \E ok \in BOOLEAN :
          /\ Submit(swap_state(k.i), ok)
          /\ IF ok /\ k.i + 1 < k.n
             THEN /\ k' = [k EXCEPT !.i = @ + 1]
                  /\ note' = [note EXCEPT !.loop.done = @ + 1]
                  /\ UNCHANGED pc
             ELSE /\ k' = [k EXCEPT !.i = 0, !.n = 0]
                  /\ note' = [note EXCEPT !.loop.done = @ + (IF ok THEN 1 ELSE 0), !.loop.over = TRUE]
                  /\ pc' = "ready"
    /\ UNCHANGED <<cfg, held>>

Next ==
    \/ ane_init_common \/ ane_device_open \/ ane_model_init \/ model_bind \/ ane_chan_init
    \/ set_btsp_and_command \/ ane_place_program \/ ane_free
    \/ ane_send \/ ane_exec \/ ane_exec_loop \/ exec_iteration
Spec == Init /\ [][Next]_vars

(***************************************************************************)
(* Properties.                                                             *)
(***************************************************************************)
\* A failed load leaves nothing behind, at whichever step it failed: no descriptor, buffer object,
\* mapping or staging buffer; freeing a loaded program does not either.
LibUnwound == pc = "closed" => held = Nothing

\* A loaded program is in its buffers whole, zero past the end of a short file, whichever way it was
\* loaded, if channel 0 is as large as the header's size (which the library takes on trust); every
\* task transfer that the library could measure fits the buffer of its channel; and with a map
\* derived from the stream no channel has two roles and none is without a buffer.
LibReady ==
    pc \in {"ready", "loop"} =>
       /\ (anec.size <= anec.tiles[0] => hw.cmd = Image(anec)) /\ hw.btsp /\ held.map = Alloc \cup {Btsp}
       /\ anec.walks => \A t \in ToSet(anec.tasks), s \in {1, 3} :
             (t.live[s] /\ t.sel[s] \in Surfaces) => t.ext[s] <= anec.tiles[t.sel[s]]
       /\ k.derived =>
             /\ ToSet(k.src) \cap ToSet(k.dst) = {} /\ ToSet(k.src) \cup ToSet(k.dst) \subseteq Alloc
             /\ Cardinality(ToSet(k.src)) = anec.src_count /\ Cardinality(ToSet(k.dst)) = anec.dst_count
             /\ \A t \in ToSet(anec.tasks) :
                   (t.live[3] /\ t.sel[3] \in Alloc \cap Surfaces) => t.sel[3] \in ToSet(k.dst)

\* ane_exec_loop applies the program n times to the state: the result is in the destination after an
\* odd number of iterations and in the source after an even one.  A run that fails part of the way
\* never destroys the state it was reading: the last complete state is still in its buffer.
LoopKeepsState ==
    note.loop.over =>
       LET at == IF note.loop.done % 2 = 1 THEN k.dst[1] ELSE k.src[1]
       IN hw.buf[at] = note.loop.x + note.loop.done
=============================================================================
