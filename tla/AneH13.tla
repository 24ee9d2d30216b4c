------------------------------- MODULE AneH13 -------------------------------
(***************************************************************************)
(* The M1 laboratory modules that visit the device of the legacy driver:   *)
(* ane_h13_perf.c and ane_ascdbg.c look it up and borrow its runtime PM,   *)
(* ane_t8103_fw.c binds the same node when the legacy module is removed.   *)
(* Source: ane/h13.                                                        *)
(*                                                                         *)
(* Abstractions.  A resource is a name in `held`.  Runtime PM is the       *)
(* disable depth, the usage count and whether the device is active; the    *)
(* legacy driver appears by what it does to them.  The firmware payload is *)
(* its digest and the result of the comparison with memory.  The mailbox   *)
(* delivers one message at a time.  Reports, dumps and the debug file's    *)
(* reading commands are one access.                                        *)
(***************************************************************************)
LOCAL INSTANCE Integers
LOCAL INSTANCE FiniteSets

CONSTANTS
    NPages,     \* bound: pages of the DATA segment
    MaxPds,     \* bound: power-domains entries of the node
    MaxDepth    \* bound: disable depth up to which the debug module is loaded

VARIABLES
    pc,     \* where each module is: [ane, fw, perf, dbg]
    cfg,    \* module parameters: [boot, perf_mode, stage, go]
    held,   \* what the modules hold
    pm,     \* the device: [depth, usage, active]
    k,      \* perf's session: [hello, last, eps, rung, sent]
    hw,     \* [core, s7 (a READY word of an earlier start at first), map]
    note    \* history: [blind, cut, dbg, leak, checked, early]

vars == <<pc, cfg, held, pm, k, hw, note>>
Pages == 1..NPages
Fresh == [hello |-> FALSE, last |-> FALSE, eps |-> FALSE, rung |-> FALSE, sent |-> FALSE]
NoCfg == [boot |-> FALSE, perf_mode |-> FALSE, stage |-> 0, go |-> FALSE]

Init ==
    /\ pc = [ane |-> "bound", fw |-> "out", perf |-> "out", dbg |-> "out"]
    /\ cfg = NoCfg /\ held = {} /\ k = Fresh
    /\ pm = [depth |-> 0, usage |-> 0, active |-> FALSE]
    /\ hw \in [core : {"parked"}, s7 : {"ready"}, map : [Pages -> {"none", "other"}]]
    /\ note = [blind |-> FALSE, cut |-> FALSE, dbg |-> FALSE, leak |-> FALSE, checked |-> {}, early |-> FALSE]

(***************************************************************************)
(* Runtime PM.  Enabling an enabled device only warns; a disabled device   *)
(* that is suspended cannot be resumed.                                    *)
(***************************************************************************)
Enable(p) == [p EXCEPT !.depth = IF @ > 0 THEN @ - 1 ELSE 0]
Disable(p) == [p EXCEPT !.depth = @ + 1]
Put(p) == [p EXCEPT !.usage = @ - 1]
Resumable(p) == p.depth = 0 \/ p.active
Resumed(p) == [p EXCEPT !.usage = @ + 1, !.active = TRUE]

On == pm.active

\* Without power the core is back in its parked state.
Off(h) == [h EXCEPT !.core = "parked"]
Visited == pc.perf # "out" \/ pc.dbg # "out"
At(m, s) == pc[m] = s
Goto(m, s) == pc' = [pc EXCEPT ![m] = s]
Access == note' = [note EXCEPT !.blind = @ \/ ~On]

autosuspend ==
    /\ pm.active /\ pm.usage = 0 /\ pm.depth = 0
    /\ pm' = [pm EXCEPT !.active = FALSE] /\ hw' = Off(hw)
    /\ UNCHANGED <<pc, cfg, held, k, note>>

\* The legacy driver's probe enables runtime PM and resumes; its removal
\* detaches the domains, so that the device is off whoever pins it.
legacy_probe ==
    /\ At("ane", "out") /\ At("fw", "out")
    /\ LET p == Enable(pm)
       IN IF Resumable(p) THEN Goto("ane", "bound") /\ pm' = [p EXCEPT !.active = TRUE]
          ELSE UNCHANGED <<pc, pm>>
    /\ UNCHANGED <<cfg, held, k, hw, note>>
legacy_remove ==
    /\ At("ane", "bound") /\ Goto("ane", "out")
    /\ pm' = [Disable(pm) EXCEPT !.active = FALSE] /\ hw' = Off(hw)
    /\ note' = [note EXCEPT !.cut = @ \/ Visited]
    /\ UNCHANGED <<cfg, held, k>>
\* The removal of a wedged device resumes and pins it, and returns: nothing is
\* detached or disabled.  Bound: no driver is bound to the node after it.
legacy_remove_wedged ==
    /\ At("ane", "bound") /\ Goto("ane", "gone")
    /\ pm' = [pm EXCEPT !.usage = @ + 1, !.active = Resumable(pm)]
    /\ held' = held \cup {"wedge_pin"}
    /\ UNCHANGED <<cfg, k, hw, note>>

(***************************************************************************)
(* ane_h13_perf: a visit within module_init, then the module stays.        *)
(***************************************************************************)
PerfMine == {"perf_dev", "perf_pin", "perf_maps", "ring"}

\* A usage reference only: enabling and disabling belong to the legacy driver.
Bug_PutPin(p) == Disable(Put(p))
PutPin(p) == Put(p)
ane_h13_perf_cleanup ==
    /\ held' = held \ PerfMine
    /\ pm' = IF "perf_pin" \in held THEN PutPin(pm) ELSE pm
    /\ Goto("perf", "out") /\ k' = Fresh
    /\ cfg' = [cfg EXCEPT !.boot = FALSE, !.perf_mode = FALSE]

\* With pdev_name the device is taken whatever driver it has, if any.
ane_h13_perf_init ==
    /\ At("perf", "out")
    /\ \E b, m \in BOOLEAN : cfg' = [cfg EXCEPT !.boot = b, !.perf_mode = m]
    /\ Goto("perf", "pin") /\ held' = held \cup {"perf_dev"}
    /\ UNCHANGED <<pm, k, hw, note>>

\* pm_runtime_resume_and_get(): up, and held up for the whole visit.
Bug_Pinned(p) == [p EXCEPT !.active = TRUE]
Pinned(p) == Resumed(p)
perf_pin ==
    /\ At("perf", "pin")
    /\ \/ ane_h13_perf_cleanup
       \/ /\ Resumable(pm) /\ pm' = Pinned(pm)
          /\ held' = held \cup {"perf_pin"} /\ Goto("perf", "map") /\ UNCHANGED <<cfg, k>>
    /\ UNCHANGED <<hw, note>>

\* Both windows, then CPU_STATUS and the reconnaissance reads, which end the
\* visit; a parked core needs boot=1.
perf_map ==
    /\ At("perf", "map")
    /\ \/ ane_h13_perf_cleanup /\ UNCHANGED note
       \/ /\ Access
          /\ \/ ane_h13_perf_cleanup
             \/ /\ hw.core = "parked" => cfg.boot
                /\ Goto("perf", IF hw.core = "parked" THEN "boot" ELSE "ring")
                /\ held' = held \cup {"perf_maps"} /\ UNCHANGED <<cfg, pm, k>>
    /\ UNCHANGED hw

\* The outbox, CPU_CONTROL 0 and RUN, then at most 3 s for the stop bit to
\* clear.
perf_boot ==
    /\ At("perf", "boot") /\ Access
    /\ \/ hw' = [hw EXCEPT !.core = "run"] /\ Goto("perf", "ring") /\ UNCHANGED <<cfg, held, pm, k>>
       \/ ane_h13_perf_cleanup /\ hw' \in {hw, [hw EXCEPT !.core = "run"]}

perf_ring ==
    /\ At("perf", "ring")
    /\ \/ ane_h13_perf_cleanup /\ UNCHANGED note
       \/ held' = held \cup {"ring"} /\ Goto("perf", "hello") /\ Access /\ UNCHANGED <<cfg, pm, k>>
    /\ UNCHANGED hw

\* A HELLO of another version is ignored; a last EPMAP ends the map.
Messages == {"hello", "hello_reply", "epmap", "epmap_ep", "epmap_last", "other"}
mgmt_handle(m) ==
    [k EXCEPT !.hello = @ \/ m \in {"hello", "hello_reply"}, !.last = @ \/ m = "epmap_last",
              !.eps = @ \/ m = "epmap_ep"]
mb_pump ==
    /\ pc.perf \in {"hello", "start"} /\ Access
    /\ \E m \in Messages : k' = mgmt_handle(m)
    /\ UNCHANGED <<pc, cfg, held, pm, hw>>

\* The session is up when both the version and the whole map have arrived.
Bug_handshake_done == k.hello \/ k.last
handshake_done == k.hello /\ k.last
handshake ==
    /\ At("perf", "hello")
    /\ \/ ane_h13_perf_cleanup /\ UNCHANGED note       \* mailbox full, or 5 s passed
       \/ /\ handshake_done /\ Access
          /\ Goto("perf", IF cfg.perf_mode THEN "send" ELSE "loaded") /\ UNCHANGED <<cfg, held, pm, k>>
    /\ UNCHANGED hw

\* An unadvertised endpoint is refused; then the ring's doorbell, STARTEP (lost
\* when the mailbox stays full: its result is not looked at), the messages of
\* 50 ms, and the command.
send_perf_mode ==
    /\ At("perf", "send")
    /\ \/ ane_h13_perf_cleanup /\ UNCHANGED note
       \/ /\ k.eps /\ Access
          /\ k' = [k EXCEPT !.rung = TRUE]
          /\ Goto("perf", "start") /\ UNCHANGED <<cfg, held, pm>>
    /\ UNCHANGED hw
send_command ==
    /\ At("perf", "start")
    /\ \/ ane_h13_perf_cleanup /\ UNCHANGED note
       \/ Access /\ k' = [k EXCEPT !.sent = TRUE] /\ Goto("perf", "reply") /\ UNCHANGED <<cfg, held, pm>>
    /\ UNCHANGED hw

\* Any message ends the wait; none within 5 s ends the visit.
perf_reply ==
    /\ At("perf", "reply") /\ Access
    /\ \/ Goto("perf", "loaded") /\ UNCHANGED <<cfg, held, pm, k>>
       \/ ane_h13_perf_cleanup
    /\ UNCHANGED hw

ane_h13_perf_exit == At("perf", "loaded") /\ ane_h13_perf_cleanup /\ UNCHANGED <<hw, note>>

(***************************************************************************)
(* ane_ascdbg: the debug file.                                             *)
(***************************************************************************)
\* The last reference suspends at once; then runtime PM is disabled.
Suspends == pm.usage = 1 /\ pm.depth = 0
ane_ascdbg_cleanup ==
    /\ held' = held \ {"dbg_dev", "dbg_pin", "dbg_map", "dbg_file"}
    /\ pm' = Disable([Put(pm) EXCEPT !.active = @ /\ ~Suspends])
    /\ hw' = IF Suspends THEN Off(hw) ELSE hw
    /\ note' = [note EXCEPT !.dbg = TRUE]
    /\ Goto("dbg", "out")

ane_ascdbg_init ==
    /\ At("dbg", "out") /\ At("ane", "bound") /\ pm.depth < MaxDepth
    /\ LET p == Enable(pm)
       IN \/ pm' = Disable(p) /\ note' = [note EXCEPT !.dbg = TRUE] /\ UNCHANGED <<pc, held>>
          \/ /\ Resumable(p) /\ pm' = Resumed(p)
             /\ held' = held \cup {"dbg_dev", "dbg_pin"} /\ Goto("dbg", "map") /\ UNCHANGED note
    /\ UNCHANGED <<cfg, k, hw>>
dbg_map ==
    /\ At("dbg", "map")
    /\ \/ ane_ascdbg_cleanup
       \/ /\ held' = held \cup {"dbg_map", "dbg_file"} /\ Goto("dbg", "loaded") /\ Access
          /\ UNCHANGED <<pm, hw>>
    /\ UNCHANGED <<cfg, k>>
\* A command is refused (AneAscdbg) or accesses the engine, pinned or not.
cmd_write ==
    /\ At("dbg", "loaded")
    /\ \E accepted \in BOOLEAN : IF accepted THEN Access ELSE UNCHANGED note
    /\ UNCHANGED <<pc, cfg, held, pm, k, hw>>
ane_ascdbg_exit == At("dbg", "loaded") /\ ane_ascdbg_cleanup /\ UNCHANGED <<cfg, k>>

(***************************************************************************)
(* ane_t8103_fw: the staged start of the firmware.                         *)
(***************************************************************************)
Pd(i) == <<"pd1", "pd2", "pd3">>[i]
Link(i) == <<"link1", "link2", "link3">>[i]
Upto(f(_), n) == {f(i) : i \in 1..n}

\* Several domains are detached in reverse; a count of one is taken for the
\* single domain of the platform bus.
Detached(h, n) == IF n > 1 THEN h \ (Upto(Pd, n) \cup Upto(Link, n)) ELSE h

\* The labels of probe, by how far it came.
Fails(pds) ==
    /\ held' = Detached(held, pds) \ {"fw_blob", "fw_pm", "eng"}
    /\ pm' = IF "fw_pm" \in held THEN Disable([Put(pm) EXCEPT !.active = FALSE]) ELSE Disable(pm)
    /\ hw' = Off(hw) /\ Goto("fw", "out") /\ cfg' = [cfg EXCEPT !.stage = 0, !.go = FALSE]
    /\ note' = [note EXCEPT !.cut = @ \/ Visited, !.checked = {}]

\* Stage 3 needs go=1; the payload must be the pinned image.
fw_probe ==
    /\ At("fw", "out") /\ At("ane", "out") /\ ~note.leak
    /\ \E s \in 1..3, g \in BOOLEAN :
        /\ s = 3 => g
        /\ cfg' = [cfg EXCEPT !.stage = s, !.go = g]
    /\ Goto("fw", "attach") /\ held' = held \cup {"fw_blob"}
    /\ UNCHANGED <<pm, k, hw, note>>

fw_attach_genpd ==
    /\ At("fw", "attach")
    /\ \/ \E n \in 0..(MaxPds - 1), linkless \in BOOLEAN :    \* entry n + 1 fails, or its link
            LET count == IF linkless THEN n + 1 ELSE n
                h == held \cup Upto(Pd, count) \cup Upto(Link, n)
            IN /\ held' = Detached(h, count) \ {"fw_blob"}
               /\ note' = [note EXCEPT !.leak = count = 1]
               /\ Goto("fw", "out") /\ cfg' = [cfg EXCEPT !.stage = 0, !.go = FALSE]
               /\ UNCHANGED pm
       \/ /\ held' = held \cup Upto(Pd, MaxPds) \cup Upto(Link, MaxPds)
          /\ pm' = Enable(pm) /\ Goto("fw", "resume") /\ UNCHANGED <<cfg, note>>
    /\ UNCHANGED <<k, hw>>

fw_resume ==
    /\ At("fw", "resume")
    /\ \/ Fails(MaxPds)
       \/ /\ Resumable(pm) /\ pm' = Resumed(pm) /\ held' = held \cup {"fw_pm"}
          /\ Goto("fw", "check") /\ UNCHANGED <<cfg, hw, note>>
    /\ UNCHANGED k

\* The islands, the latched vector and the preloaded text, by reads only.
fw_check_text ==
    /\ At("fw", "check")
    /\ \/ Fails(MaxPds)
       \/ /\ held' = held \cup {"eng"} /\ Goto("fw", IF cfg.stage = 1 THEN "bound" ELSE "stage")
          /\ note' = [note EXCEPT !.blind = @ \/ ~On, !.checked = {"islands", "vector", "text"}]
          /\ UNCHANGED <<cfg, pm, hw>>
    /\ UNCHANGED k

\* Only the pages this driver mapped are unmapped.
Bug_Unstaged(m, n) == [i \in Pages |-> "none"]
Unstaged(m, n) == [i \in Pages |-> IF i <= n THEN "none" ELSE m[i]]

\* All pages are allocated and found free before the first is mapped; a
\* failing map or a wrong read-back undoes those that are.
fw_stage_data ==
    /\ At("fw", "stage")
    /\ \/ /\ \A i \in Pages : hw.map[i] = "none"
          /\ hw' = [hw EXCEPT !.map = [i \in Pages |-> "own"]]
          /\ note' = [note EXCEPT !.checked = @ \cup {"data"}]
          /\ held' = held \cup {"data"} /\ Goto("fw", IF cfg.stage = 2 THEN "bound" ELSE "release")
          /\ UNCHANGED <<cfg, pm>>
       \/ /\ held' = Detached(held, MaxPds) \ {"fw_blob", "fw_pm", "eng"}
          /\ pm' = Disable([Put(pm) EXCEPT !.active = FALSE])
          /\ \E n \in IF \A i \in Pages : hw.map[i] = "none" THEN 0..NPages ELSE {0} :
                hw' = [Off(hw) EXCEPT !.map = Unstaged(@, n)]
          /\ Goto("fw", "out") /\ cfg' = [cfg EXCEPT !.stage = 0, !.go = FALSE]
          /\ note' = [note EXCEPT !.cut = @ \/ Visited, !.checked = {}]
    /\ UNCHANGED k

\* The scratch cells are cleared and SCRATCH7 pulsed before RUN, so that a
\* READY word is one of this start.
Bug_Cleared(h) == h
Cleared(h) == [h EXCEPT !.s7 = "zero"]
fw_stage3 ==
    /\ At("fw", "release") /\ Goto("fw", "poll")
    /\ hw' = [Cleared(hw) EXCEPT !.core = "run"]
    /\ note' = [note EXCEPT !.blind = @ \/ ~On, !.early = @ \/ note.checked # {"islands", "vector", "text", "data"}]
    /\ UNCHANGED <<cfg, held, pm, k>>
fw_ready == At("fw", "poll") /\ hw.core = "run" /\ hw' = [hw EXCEPT !.s7 = "ready_now"] /\ UNCHANGED <<pc, cfg, held, pm, k, note>>
fw_poll ==
    /\ At("fw", "poll") /\ Access
    /\ Goto("fw", IF hw.s7 \in {"ready", "ready_now"} THEN "ready" ELSE "bound")
    /\ UNCHANGED <<cfg, held, pm, k, hw>>

fw_remove ==
    /\ pc.fw \in {"bound", "ready"}
    /\ hw' = [Off(hw) EXCEPT !.map = IF "data" \in held THEN Unstaged(@, NPages) ELSE @]
    /\ held' = Detached(held, MaxPds) \ {"fw_blob", "fw_pm", "eng", "data"}
    /\ pm' = Disable([Put(pm) EXCEPT !.active = FALSE])
    /\ Goto("fw", "out") /\ cfg' = [cfg EXCEPT !.stage = 0, !.go = FALSE]
    /\ note' = [note EXCEPT !.cut = @ \/ Visited, !.checked = {}]
    /\ UNCHANGED k

Perf ==
    \/ ane_h13_perf_init \/ perf_pin \/ perf_map \/ perf_boot \/ perf_ring \/ mb_pump \/ handshake
    \/ send_perf_mode \/ send_command \/ perf_reply \/ ane_h13_perf_exit
Dbg == ane_ascdbg_init \/ dbg_map \/ cmd_write \/ ane_ascdbg_exit
Fw ==
    \/ fw_probe \/ fw_attach_genpd \/ fw_resume \/ fw_check_text \/ fw_stage_data \/ fw_stage3
    \/ fw_ready \/ fw_poll \/ fw_remove
Next == autosuspend \/ legacy_probe \/ legacy_remove \/ legacy_remove_wedged \/ Perf \/ Dbg \/ Fw
Spec == Init /\ [][Next]_vars

\* A module that is out holds nothing and its pins are returned, whatever
\* failed; the one exception is the first domain, left attached when
\* fw_attach_genpd() fails with a count of one.  A wedged legacy device stays
\* pinned.
H13Unwound ==
    /\ pc.perf = "out" => held \cap PerfMine = {}
    /\ pc.dbg = "out" => held \cap {"dbg_dev", "dbg_pin", "dbg_map", "dbg_file"} = {}
    /\ pc.fw = "out" => /\ held \cap {"fw_blob", "fw_pm", "eng", "data"} = {}
                        /\ held \cap (Upto(Pd, MaxPds) \cup Upto(Link, MaxPds)) # {} => note.leak
                        /\ \A i \in Pages : hw.map[i] # "own"
    /\ pm.usage = Cardinality(held \cap {"perf_pin", "dbg_pin", "fw_pm", "wedge_pin"})

\* A register is accessed without power only after a driver was unbound under
\* a visit: the visitors pin the device but do not hold its driver.
H13Powered == note.blind => note.cut

\* As long as ane_ascdbg has not ended a visit, the bound legacy device keeps
\* its runtime PM enabled: ane_h13_perf takes a usage reference only.
LegacyPmKept == pc.ane = "bound" /\ ~note.dbg => pm.depth = 0

\* The core is released only with the islands, the vector, the text and the
\* whole DATA segment checked, READY is a word of this start, and the command
\* follows a complete handshake, an advertised endpoint and the ring's
\* doorbell (not necessarily a STARTEP that arrived).
H13Ordered ==
    /\ ~note.early
    /\ pc.fw = "ready" => hw.s7 = "ready_now"
    /\ k.rung => k.hello /\ k.last /\ k.eps /\ "ring" \in held
    /\ k.sent => k.rung

\* Mappings that were there before are never removed.
OthersKept == \A i \in Pages : hw.map[i] = "other" => hw'.map[i] = "other"
====
