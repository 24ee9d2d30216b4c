------------------------------- MODULE AneH15 -------------------------------
(***************************************************************************)
(* ane_h15.ko, the staged bring-up module for the M3 (H15) engine:         *)
(* ane/h15/ane_h15_main.c and ane_h15_fwload.h.  One probe() runs one      *)
(* stage: it maps the windows, attaches the power domains, waits for the   *)
(* PMGR gate and then reads (stages 1..4), or maps the firmware, releases  *)
(* the core, talks RTKit and the SCRATCH handshake, stops the core again   *)
(* and releases everything (stages 5..7).  The firmware is an environment: *)
(* it may start, answer late, twice or never, and not stop.                *)
(*                                                                         *)
(* Abstractions.  A resource is a name in `held`; error codes are "err";   *)
(* a wait loop is a state that is left when the awaited fact holds or, at  *)
(* any time, by its time-out; the register offset checks (constants of the *)
(* SoC row) always pass; an RTKit message is its type with the argument    *)
(* the handler tells apart.  Log lines and the steplog text are left out.  *)
(***************************************************************************)
LOCAL INSTANCE Integers
LOCAL INSTANCE Sequences
LOCAL INSTANCE FiniteSets

CONSTANTS
    Configs,    \* the module parameters tried: [stage, on (set of switches)]
    MaxPds,     \* power-domains entries of a multi_pd device-tree node, 2 or 3
    MaxSend,    \* ANE_H15_RTK_MAXSEND: messages per phase of a session
    MaxDepth    \* bound: nested pm_runtime_disable() calls

VARIABLES
    pc,     \* where probe() is; "unbound" and "bound" are outside it
    cfg,    \* the parameters of this load
    ane,    \* struct ane_h15
    held,   \* what is acquired and not released
    pm,     \* runtime PM of the device: [depth, usage, on]; outlives a bind
    k,      \* struct ane_h15_rtk
    wire,   \* the messages the firmware has received since RUN
    hw,     \* the core, its mailbox and its scratch words
    note    \* history: [pinned, blind, given]

vars == <<pc, cfg, ane, held, pm, k, wire, hw, note>>

On(f) == f \in cfg.on
Segs == {"seg0", "seg1"}
Windows == {"engine", "pmgr"}
Surfaces == {"pool", "ipc", "heap"}
Pd(n) == { <<"pd0", "pd1", "pd2">>[i] : i \in 1..n }
Link(n) == { <<"link0", "link1", "link2">>[i] : i \in 1..n }

Idle == [stage |-> 0, on |-> {}]
Fresh == [ret |-> "ok", pds |-> 0, dom |-> "none", mapped |-> 0,
          started |-> FALSE, touched |-> FALSE, retained |-> FALSE,
          gate |-> FALSE, seen |-> "none"]
NoSession == [hello |-> FALSE, eps |-> {}, epmap_last |-> FALSE, ap_sent |-> FALSE,
              ap_on |-> FALSE, app_started |-> FALSE, shutdown |-> FALSE,
              ap_acked |-> FALSE, iop_acked |-> FALSE, iop_idle |-> FALSE,
              sent |-> 0, hs |-> "ok"]

\* The hardware as iBoot leaves it: usually a stopped core with a live entry.
HwStates == [run : BOOLEAN, core : {"stopped", "running"}, rvbar : BOOLEAN,
             live : BOOLEAN, gate : {"open", "closed"}, box : {"empty", "HELLO"}, addr : {"req"},
             s7 : {"other"}, s3 : {"req"}, slot : {"host"},
             boot : {FALSE}]

Init ==
    /\ pc = "unbound" /\ cfg = Idle /\ ane = Fresh
    /\ held = {} /\ pm = [depth |-> 1, usage |-> 0, on |-> FALSE]
    /\ k = NoSession /\ wire = {}
    /\ hw \in HwStates
    /\ Cardinality({f \in {"run", "core", "rvbar", "live", "gate", "box"} :
            hw[f] # [run |-> FALSE, core |-> "stopped", rvbar |-> TRUE,
                     live |-> TRUE, gate |-> "open", box |-> "empty"][f]}) =< 1
    /\ note = [pinned |-> FALSE, blind |-> FALSE, given |-> {}]

(***************************************************************************)
(* Runtime PM of the device, as the core of Linux keeps it.                *)
(***************************************************************************)
PmEnable(p) == [p EXCEPT !.depth = @ - 1]
PmDisable(p) == [p EXCEPT !.depth = @ + 1]
PmGet(p, ok) == [p EXCEPT !.usage = @ + 1, !.on = @ \/ ok]
PmPut(p) == [p EXCEPT !.usage = @ - 1, !.on = @ /\ ~(p.usage = 1 /\ p.depth = 0)]

\* pm_runtime_get_sync(): -EACCES while disabled, else success or an error.
PmResults(p) == IF p.depth > 0 THEN {"acces"} ELSE {"ok", "err"}

Goto(p) == pc' = p
Return(p) == pc' = p /\ cfg' = Idle
Finish(r) == pc' = "exit" /\ ane' = [ane EXCEPT !.ret = r]

\* A register of the engine window is read or written.
Touch(a) == note' = [note EXCEPT !.blind =
                        @ \/ ~(a.gate /\ pm.on /\ "engine" \in held)]

\* detach_pds(): every domain counted in pd_count, its link first.
Detached(h, a) == h \ (Pd(a.pds) \cup Link(a.pds))

(***************************************************************************)
(* probe(): the refusals, all before any mapping.                          *)
(***************************************************************************)
ane_h15_stage_idx(c) == c.stage \in 0..7

Refused(c) ==
    \/ {"optin", "ane_type", "dart_scan_mask"} \ c.on # {}
    \/ ~ane_h15_stage_idx(c)
    \/ "scratch_boot" \in c.on /\ c.stage # 5
    \/ "pwgate" \in c.on /\ (c.stage # 5 \/ "row_pwgate" \notin c.on)
    \/ "ps_assert" \in c.on /\ ("pwgate" \notin c.on \/ c.stage # 5)
    \/ "stop_after_pwgate" \in c.on
         /\ ("pwgate" \notin c.on \/ "scratch_boot" \in c.on)
    \/ "pwgate_read" \in c.on
         /\ (c.stage # 2 \/ "fw_seg" \in c.on \/ "row_pwgate" \notin c.on)

ane_h15_unmap_windows(h) == h \ Windows
ane_h15_steplog_close(h) == h \ {"steplog"}
Released(h) == ane_h15_steplog_close(ane_h15_unmap_windows(h))

\* Up to the windows.  Stage 0 parses the device tree and is done: nothing
\* is mapped and runtime PM is not enabled.
ane_h15_probe ==
    /\ pc = "unbound" /\ ~note.pinned
    /\ \E c \in Configs, r \in {"ok", "err"} :
        /\ ane' = Fresh
        /\ IF Refused(c) \/ r = "err"
           THEN Goto("unbound") /\ UNCHANGED <<held, cfg>>
           ELSE IF c.stage = 0 THEN Goto("bound") /\ UNCHANGED <<held, cfg>>
                ELSE Goto("windows") /\ held' = held \cup {"steplog"} /\ cfg' = c
    /\ UNCHANGED <<pm, k, wire, hw, note>>

map_windows ==
    /\ pc = "windows"
    /\ \E got \in SUBSET Windows :
        IF got = Windows
        THEN Goto("pds") /\ held' = held \cup got /\ UNCHANGED cfg
        ELSE Return("unbound") /\ held' = Released(held \cup got)
    /\ UNCHANGED <<ane, pm, k, wire, hw, note>>

\* pd_count counts a domain before its link is added.
Bug_PdCount(got, linked) == linked
PdCount(got, linked) == got

\* With one power domain or none the driver core has done the work.
ane_h15_attach_pds ==
    /\ pc = "pds"
    /\ \E got, linked \in 0..MaxPds :
        /\ linked \in {got, got - 1}
        /\ LET n == IF On("multi_pd") THEN MaxPds ELSE 1
               a == [ane EXCEPT !.pds = PdCount(got, linked)]
               h == held \cup Pd(got) \cup Link(linked)
           IN IF n =< 1
              THEN Goto("rpm") /\ UNCHANGED <<cfg, held, ane, pm>>
              ELSE IF got = n /\ linked = n
              THEN /\ Goto("rpm") /\ held' = h /\ ane' = a /\ UNCHANGED cfg
                   /\ pm' = [pm EXCEPT !.on = TRUE]
              ELSE /\ Return("unbound") /\ ane' = Fresh
                   /\ held' = Released(Detached(h, a))
                   /\ UNCHANGED pm
    /\ UNCHANGED <<k, wire, hw, note>>

\* -EACCES is tolerated when the domain links have already powered the engine.
power_up ==
    /\ pc = "rpm"
    /\ LET p == PmEnable(pm) IN \E r \in PmResults(p) :
        IF r = "ok" \/ (r = "acces" /\ ane.pds > 0)
        THEN /\ Goto("stage") /\ pm' = PmGet(p, r = "ok") /\ UNCHANGED <<cfg, held, ane>>
        ELSE /\ Return("unbound")
             /\ pm' = [PmDisable([PmGet(p, FALSE) EXCEPT !.usage = @ - 1])
                          EXCEPT !.on = FALSE]
             /\ held' = Released(Detached(held, ane))
             /\ ane' = Fresh
    /\ UNCHANGED <<k, wire, hw, note>>

(***************************************************************************)
(* The power gate: every ACTUAL field reads 0xf before the time-out.  On a *)
(* domain that is off it reads 0; one that is coming up reads in between.  *)
(***************************************************************************)
Bug_ps_on(v) == v # 0
ane_h15_ps_on(v) == v = 15
ane_h15_ps_wait == IF pm.on THEN {4, 15} ELSE {0}
Gated(v) == [ane EXCEPT !.gate = (v = 15)]

\* Stage 1, and the pattern of stages 2 and 4: confirmation, window check,
\* gate, then reads only.
ReadStage(confirmed, results) ==
    \/ ~confirmed /\ Finish("err") /\ UNCHANGED note
    \/ /\ confirmed
       /\ \E v \in ane_h15_ps_wait, r \in results :
            /\ pc' = "exit"
            /\ ane' = [Gated(v) EXCEPT !.ret = IF ane_h15_ps_on(v) THEN r ELSE "err"]
            /\ IF ane_h15_ps_on(v) THEN Touch(Gated(v)) ELSE UNCHANGED note

ane_h15_stage_status ==
    /\ pc = "stage" /\ cfg.stage = 1
    /\ \E v \in ane_h15_ps_wait :
        /\ pc' = "exit"
        /\ ane' = [Gated(v) EXCEPT !.ret = IF ane_h15_ps_on(v) THEN "ok" ELSE "err"]
    /\ UNCHANGED <<cfg, held, pm, k, wire, hw, note>>

\* The segments of fw_seg: sizes, alignment, overlap, no system RAM.
ane_h15_parse_segs == IF On("fw_seg") THEN {"ok", "err"} ELSE {"err"}

\* With fw_seg stage 2 also looks the measured RVBAR up in the DART domain.
ane_h15_translation ==
    IF On("row_rvbar") /\ hw.rvbar THEN ane_h15_parse_segs ELSE {"err"}

ane_h15_stage_wrapper ==
    /\ pc = "stage" /\ cfg.stage = 2
    /\ ReadStage(On("confirm_read"), IF On("fw_seg") THEN ane_h15_translation ELSE {"ok", "err"})
    /\ UNCHANGED <<cfg, held, pm, k, wire, hw>>

ane_h15_stage_dart ==
    /\ pc = "stage" /\ cfg.stage = 4
    /\ ReadStage(On("confirm_read") /\ On("row_dart"), {"ok", "err"})
    /\ UNCHANGED <<cfg, held, pm, k, wire, hw>>

(***************************************************************************)
(* The Linux-owned image: checked, copied into one coherent buffer.        *)
(***************************************************************************)
ane_h15_prepare_owned_firmware(v) ==
    IF "owned_fw" \in held \/ ~On("confirm_read") \/ ~ane_h15_ps_on(v)
       \/ hw.core # "stopped" \/ hw.run
    THEN {"err"} ELSE {"err", "ok"}

\* Stage 3 prepares the image and then always refuses.
ane_h15_stage_boot ==
    /\ pc = "stage" /\ cfg.stage = 3
    /\ IF ~(On("confirm_boot") /\ On("fw_path"))
       THEN Finish("err") /\ UNCHANGED <<held, note>>
       ELSE \E v \in ane_h15_ps_wait : \E r \in ane_h15_prepare_owned_firmware(v) :
                /\ pc' = "exit" /\ ane' = [Gated(v) EXCEPT !.ret = "err"]
                /\ held' = IF r = "ok" THEN held \cup {"owned_fw"} ELSE held
                /\ IF ane_h15_ps_on(v) THEN Touch(Gated(v)) ELSE UNCHANGED note
    /\ UNCHANGED <<cfg, pm, k, wire, hw>>

(***************************************************************************)
(* run_common(): the refusals, the gate and the read-only preflight.       *)
(***************************************************************************)
Owned == On("map_fw") /\ On("fw_path")

RunRefused ==
    \/ ~On("confirm_run")
    \/ cfg.stage >= 6 /\ ~On("confirm_rtkit")
    \/ cfg.stage = 7 /\ ~(On("confirm_chan") /\ On("map_fw"))
    \/ ~On("row_rvbar")
    \/ On("map_fw") /\ ~On("iommus")
    \/ Owned /\ (~On("confirm_read") \/ On("fw_seg"))
    \/ On("map_fw") /\ ~On("fw_path") /\ ~On("fw_seg")

\* CPU_CONTROL is read here only when the DART is about to be attached.
Bug_preflight == hw.core = "stopped" /\ (On("map_fw") => ~hw.run) /\ hw.rvbar
preflight ==
    /\ hw.core = "stopped" /\ (On("map_fw") => ~hw.run)
    /\ hw.rvbar /\ hw.box = "empty"

ane_h15_run_common ==
    /\ pc = "stage" /\ cfg.stage \in 5..7
    /\ IF RunRefused THEN Finish("err") /\ UNCHANGED note
       ELSE \E v \in ane_h15_ps_wait, a2i_empty \in BOOLEAN : LET a == Gated(v) IN
            /\ IF ane_h15_ps_on(v) THEN Touch(a) ELSE UNCHANGED note
            /\ IF ane_h15_ps_on(v) /\ preflight /\ a2i_empty
               THEN /\ ane' = a
                    /\ Goto(IF Owned THEN "plan" ELSE IF On("map_fw") THEN "map" ELSE "scan")
               ELSE pc' = "exit" /\ ane' = [a EXCEPT !.ret = "err"]
    /\ UNCHANGED <<cfg, held, pm, k, wire, hw>>

\* The page addresses are read before the attach replaces the domain; a page
\* that does not resolve leaves the image to the failure path of probe().
ane_h15_plan_owned_map ==
    /\ pc = "plan"
    /\ \E r \in UNION {ane_h15_prepare_owned_firmware(v) : v \in ane_h15_ps_wait}, pages \in {"ok", "err"} :
        /\ held' = IF r = "ok" THEN held \cup {"owned_fw"} ELSE held
        /\ IF r = "ok" /\ pages = "ok" THEN Goto("map") /\ UNCHANGED ane
           ELSE Finish("err")
    /\ Touch(ane)
    /\ UNCHANGED <<cfg, pm, k, wire, hw>>

(***************************************************************************)
(* unmap_firmware(): the segments in order, then the private domain.  A    *)
(* short unmap stops it, keeps the rest and marks the map retained.        *)
(***************************************************************************)
Unmapped(h, a) ==
    IF a.dom = "none" \/ a.retained THEN { [h |-> h, a |-> a] }
    ELSE { [h |-> h \ (Segs \cup {"domain"}),
            a |-> [a EXCEPT !.dom = "none", !.mapped = 0]] }
         \cup { [h |-> IF i = 1 THEN h \ {"seg0"} ELSE h,
                 a |-> [a EXCEPT !.retained = TRUE]] : i \in 0..(a.mapped - 1) }

UnmapAndFinish(a, r) ==
    \E u \in Unmapped(held, a) :
        pc' = "exit" /\ held' = u.h /\ ane' = [u.a EXCEPT !.ret = r]

\* What mapping segment i can do: succeed; fail with nothing left; map and
\* read back wrong (counted in map_n); or, run by run for the owned image,
\* fail and then fail to unmap what it had mapped.
SegResults == {"ok", "err", IF Owned THEN "stuck" ELSE "wrong"}

MapSegs(h, a) ==
    { [h |-> h \cup Segs, a |-> [a EXCEPT !.mapped = 2], r |-> "ok"] }
    \cup { [h |-> (IF i = 1 THEN h \cup {"seg0"} ELSE h)
                   \cup (IF r = "err" THEN {} ELSE {IF i = 0 THEN "seg0" ELSE "seg1"}),
            a |-> [a EXCEPT !.mapped = IF r = "wrong" THEN i + 1 ELSE i,
                            !.retained = (r = "stuck")],
            r |-> "err"] : i \in 0..1, r \in SegResults \ {"ok"} }

\* Stage 7 uses the default DMA domain; the others attach a private one.
ane_h15_map_firmware ==
    /\ pc = "map"
    /\ \/ Finish("err") /\ UNCHANGED <<held, hw>>
       \/ LET own == cfg.stage # 7
              h == IF own THEN held \cup {"domain"} ELSE held
              a == [ane EXCEPT !.dom = IF own THEN "own" ELSE "default"]
          IN \E m \in MapSegs(h, a) :
             /\ hw' = IF own THEN [hw EXCEPT !.live = TRUE] ELSE hw
             /\ IF m.r = "ok" THEN Goto("scan") /\ held' = m.h /\ ane' = m.a
                ELSE \E u \in Unmapped(m.h, m.a) :
                     pc' = "exit" /\ held' = u.h /\ ane' = [u.a EXCEPT !.ret = "err"]
    /\ UNCHANGED <<cfg, pm, k, wire, note>>

\* ps_assert, the optional runtime-PM hold around the DART sweep, the sweep,
\* and the first CPU_CONTROL read of a run without map_fw.
ScanPasses == (hw.live \/ On("run_unmapped")) /\ (On("map_fw") \/ ~hw.run)

ane_h15_dart_scan ==
    /\ pc = "scan"
    /\ \/ UnmapAndFinish(ane, "err")
       \/ /\ ScanPasses /\ (On("rpm_hold_sweep") => pm.depth = 0)
          /\ Goto(IF On("pwgate") /\ ~On("scratch_boot") THEN "pwgate" ELSE "start")
          /\ UNCHANGED <<held, ane>>
    /\ Touch(ane)
    /\ UNCHANGED <<cfg, pm, k, wire, hw>>

\* The PWGATE word, in a window of its own, is cleared and polled until it
\* reads open; if it does not, the run stops before CPU_CONTROL.
Bug_pwgate_open == {[ok |-> TRUE, gate |-> hw.gate]}
ane_h15_pwgate_open ==
    {[ok |-> FALSE, gate |-> hw.gate], [ok |-> TRUE, gate |-> "open"]}

pwgate ==
    /\ pc = "pwgate"
    /\ \E w \in ane_h15_pwgate_open :
        /\ hw' = [hw EXCEPT !.gate = w.gate]
        /\ IF ~w.ok THEN UnmapAndFinish(ane, "err")
           ELSE IF On("stop_after_pwgate") THEN UnmapAndFinish(ane, "ok")
           ELSE Goto("start") /\ UNCHANGED <<held, ane>>
    /\ UNCHANGED <<cfg, pm, k, wire, note>>

\* RUN, plainly or as the cold-boot order of scratch_boot, whose refusals
\* (a SCRATCH7 that keeps its old word, a gate that stays closed) come
\* before CPU_CONTROL.
Given == Windows \cup (held \cap (Segs \cup {"domain", "owned_fw"}))

ane_h15_write_ctrl(run) == [hw EXCEPT !.run = run]

start_core ==
    LET w == [ane_h15_write_ctrl(TRUE) EXCEPT !.boot = TRUE] IN
    /\ IF ~On("scratch_boot") THEN hw' = w
       ELSE \E g \in IF On("pwgate") THEN ane_h15_pwgate_open ELSE {[ok |-> TRUE, gate |-> hw.gate]} :
            g.ok /\ hw' = [w EXCEPT !.s7 = "other", !.gate = g.gate]
    /\ Goto(IF cfg.stage >= 6 THEN "session" ELSE "watch")
    /\ ane' = [ane EXCEPT !.started = TRUE, !.touched = TRUE]

release_core ==
    /\ pc = "start"
    /\ \/ UnmapAndFinish(ane, "err") /\ UNCHANGED <<hw, note>>
       \/ /\ start_core /\ UNCHANGED held
          /\ note' = [note EXCEPT !.given = Given,
                        !.blind = @ \/ ~(ane.gate /\ pm.on /\ "engine" \in held)]
    /\ UNCHANGED <<cfg, pm, k, wire>>

(***************************************************************************)
(* RTKit, management endpoint.  Reply(m) is what the handler sends on m,   *)
(* in order; After(m, n) is the session once n of those went out: a send   *)
(* fails at the cap, or when the mailbox stays FULL for ten tries, and the *)
(* handler stops at the first that fails.                                  *)
(***************************************************************************)
EpMap(m) == IF m = "EPMAP" THEN {1} ELSE IF m = "EPMAP_LAST" THEN {1, 32} ELSE {}
StartEps(eps) == IF 32 \in eps THEN <<"START_APP">> ELSE <<>>
Bug_SystemEps(eps) == (IF 1 \in eps THEN <<"START_SYS">> ELSE <<>>) \o StartEps(eps)
SystemEps(eps) == IF 1 \in eps THEN <<"START_SYS">> ELSE <<>>

Reply(m) ==
    CASE m = "HELLO" -> <<"HELLO_REPLY">>
      [] m = "EPMAP" -> <<"EPMAP_REPLY">>
      [] m = "EPMAP_LAST" -> <<"EPMAP_REPLY">> \o SystemEps(k.eps \cup EpMap(m))
      [] ~k.shutdown /\ m = "IOP_ON" /\ ~k.ap_sent -> <<"AP_ON">>
      [] k.shutdown /\ m = "AP_DOWN" -> <<"IOP_DOWN">>
      [] ~k.shutdown /\ m = "AP_ON" /\ ~k.ap_on /\ k.epmap_last -> StartEps(k.eps)
      [] OTHER -> <<>>

After(m, n) ==
    LET up == ~k.shutdown /\ m = "AP_ON" /\ ~k.ap_on IN
    [k EXCEPT !.sent = @ + n,
              !.hello = @ \/ m \in {"HELLO", "HELLO_BAD"},
              !.eps = @ \cup EpMap(m),
              !.epmap_last = @ \/ (m = "EPMAP_LAST" /\ n > 0),
              !.ap_sent = @ \/ (m = "IOP_ON" /\ n > 0),
              !.ap_on = @ \/ up,
              !.app_started = @ \/ (up /\ k.epmap_last /\ n = Len(StartEps(k.eps))),
              !.ap_acked = @ \/ (k.shutdown /\ m = "AP_DOWN"),
              !.iop_acked = @ \/ (k.shutdown /\ m = "IOP_DOWN"),
              !.iop_idle = @ \/ (k.shutdown /\ m = "IOP_IDLE")]

\* rtk_poll_once() hands each message to rtk_handle(); the handshake loop
\* polls too.
ane_h15_rtk_handle ==
    /\ pc \in {"session", "hs_wait", "shutdown"} /\ hw.box # "empty"
    /\ \E n \in 0..Len(Reply(hw.box)) :
        /\ k.sent + n =< MaxSend
        /\ k' = After(hw.box, n)
        /\ wire' = wire \cup {Reply(hw.box)[i] : i \in 1..n}
    /\ hw' = [hw EXCEPT !.box = "empty"]
    /\ Touch(ane)
    /\ UNCHANGED <<pc, cfg, ane, held, pm>>

\* Stage 5 only watches: it drains what the firmware posts, for run_wait_ms.
watch ==
    /\ pc = "watch" /\ hw.box # "empty"
    /\ hw' = [hw EXCEPT !.box = "empty"]
    /\ Touch(ane)
    /\ UNCHANGED <<pc, cfg, ane, held, pm, k, wire>>

\* The start phase ends by its time-out, or 100 ms after the endpoints started.
session_started ==
    /\ pc = "session"
    /\ Goto(IF k.app_started /\ cfg.stage = 7 THEN "hs" ELSE "down")
    /\ UNCHANGED <<cfg, ane, held, pm, k, wire, hw, note>>

\* The handshake words, once nothing reads them before they are written again.
Halted(w) == [w EXCEPT !.addr = IF @ = "req" THEN "req" ELSE "old",
                       !.s7 = IF @ = "WAKE" THEN "other" ELSE @,
                       !.s3 = "req", !.slot = "host", !.boot = FALSE]

\* Without AP power there is no session to shut down.  The shutdown has its
\* own send budget; if AP_DOWN cannot be sent nothing is waited for.
begin_shutdown ==
    /\ pc = "down"
    /\ \/ ~k.ap_on /\ Goto("stop") /\ UNCHANGED <<k, wire>>
       \/ /\ k.ap_on
          /\ \E ok \in BOOLEAN :
                /\ k' = [k EXCEPT !.shutdown = TRUE, !.sent = IF ok THEN 1 ELSE 0]
                /\ wire' = IF ok THEN wire \cup {"AP_DOWN"} ELSE wire
                /\ Goto(IF ok THEN "shutdown" ELSE "stop")
    /\ hw' = Halted(hw)
    /\ ane' = [ane EXCEPT !.seen = "none"]
    /\ Touch(ane)
    /\ UNCHANGED <<cfg, held, pm>>

(***************************************************************************)
(* Stage 7: the SCRATCH handshake.  The firmware publishes a channel table *)
(* by writing its address and then READY; the host reads the address words *)
(* first and SCRATCH7 after them.                                          *)
(***************************************************************************)
HsFail == k' = [k EXCEPT !.hs = "err"] /\ Goto("down")

\* SCRATCH7 reads READY and SCRATCH0 is a request, not an address.
Requested == hw.s7 = "READY" /\ hw.addr = "req"

\* The surfaces in order; a failure leaves the ones before it (an overlap
\* with a firmware segment also its own) to be freed after the core stopped.
ane_h15_hs_alloc == {{"pool"}, {"pool", "ipc"}, Surfaces}

ane_h15_chan_run ==
    /\ pc = "hs" /\ Touch(ane)
    /\ \/ HsFail /\ UNCHANGED <<held, hw>>
       \/ /\ Requested
          /\ \E got \in ane_h15_hs_alloc :
                HsFail /\ held' = held \cup got /\ UNCHANGED hw
    /\ UNCHANGED <<cfg, ane, pm, wire>>

hs_publish ==
    /\ pc = "hs" /\ Requested
    /\ \E got \in ane_h15_hs_alloc \ {{"pool"}} :
        /\ held' = held \cup got
        /\ note' = [note EXCEPT !.given = @ \cup got,
                      !.blind = @ \/ ~(ane.gate /\ pm.on /\ "engine" \in held)]
    /\ hw' = [hw EXCEPT !.addr = "blk", !.s7 = "WAKE"]
    /\ Goto("hs_wait")
    /\ UNCHANGED <<cfg, ane, pm, k, wire>>

hs_read_addr ==
    /\ pc = "hs_wait" /\ Goto("hs_ready")
    /\ ane' = [ane EXCEPT !.seen = hw.addr]
    /\ Touch(ane)
    /\ UNCHANGED <<cfg, held, pm, k, wire, hw>>

Answered == ane.seen # "blk" /\ hw.s7 = "READY"

hs_read_ready ==
    /\ pc = "hs_ready" /\ Touch(ane)
    /\ IF ~Answered THEN Goto("hs_wait") /\ UNCHANGED k
       ELSE IF ane.seen = "alien" THEN HsFail ELSE Goto("chan") /\ UNCHANGED k
    /\ UNCHANGED <<cfg, ane, held, pm, wire, hw>>

hs_timeout ==
    /\ pc \in {"hs_wait", "hs_ready", "chan_wait", "cmd_wait"} /\ HsFail
    /\ UNCHANGED <<cfg, ane, held, pm, wire, hw, note>>

\* The whole table is checked before the first slot is written.
Bug_TableOK(t) == t \in {"tab", "badtab", "blk"}
TableOK(t) == t = "tab"

ane_h15_chan_step ==
    /\ pc = "chan" /\ Touch(ane)
    /\ IF TableOK(ane.seen)
       THEN Goto("chan_wait") /\ hw' = [hw EXCEPT !.s3 = "READY"] /\ UNCHANGED k
       ELSE HsFail /\ UNCHANGED hw
    /\ UNCHANGED <<cfg, ane, held, pm, wire>>

chan_ready ==
    /\ pc = "chan_wait" /\ hw.s3 = "0" /\ Touch(ane)
    /\ \/ ~On("chan_cmds") /\ Goto("down") /\ UNCHANGED <<held, k>>
       \/ On("chan_cmds") /\ HsFail /\ UNCHANGED held
       \/ On("chan_cmds") /\ Goto("cmd1") /\ held' = held \cup {"cmd"} /\ UNCHANGED k
    /\ UNCHANGED <<cfg, ane, pm, wire, hw>>

\* One command: the block is rewritten, the slot handed over, the bell rung.
ane_h15_cmd ==
    /\ pc \in {"cmd1", "cmd2"}
    /\ \/ HsFail /\ UNCHANGED <<hw, ane>>
       \/ /\ hw.slot = "host" /\ hw' = [hw EXCEPT !.slot = pc]
          /\ Goto("cmd_wait") /\ UNCHANGED <<k, ane>>
    /\ note' = [note EXCEPT !.given = @ \cup {"cmd"},
                    !.blind = @ \/ ~(ane.gate /\ pm.on /\ "engine" \in held)]
    /\ UNCHANGED <<cfg, held, pm, wire>>

cmd_answered ==
    /\ pc = "cmd_wait" /\ hw.slot \in {"done1", "done2", "bad"}
    /\ hw' = [hw EXCEPT !.slot = "host"]
    /\ CASE hw.slot = "done1" -> Goto("cmd2") /\ UNCHANGED k
         [] hw.slot = "done2" -> Goto("down") /\ UNCHANGED k
         [] OTHER -> HsFail
    /\ UNCHANGED <<cfg, ane, held, pm, wire, note>>

(***************************************************************************)
(* Stopping, the verdict and the end of probe().                           *)
(***************************************************************************)
Verdict ==
    IF cfg.stage >= 6 /\ ~( /\ k.hello /\ k.epmap_last /\ k.ap_on /\ k.app_started
                           /\ k.ap_acked /\ k.iop_acked
                           /\ (cfg.stage = 7 => k.hs = "ok") )
    THEN "err" ELSE "ok"

\* The shutdown ends on the IOP acknowledgement, on idle or by its time-out,
\* the watch by its own; RUN is cleared.  The session is over, so its verdict is known here; it
\* counts only if the core stops.  A message still in the mailbox stays there.
stop_core ==
    /\ pc \in {"watch", "shutdown", "stop"} /\ Goto("stopping")
    /\ hw' = [ane_h15_write_ctrl(FALSE) EXCEPT !.box = IF @ = "empty" THEN @ ELSE "HELLO"]
    /\ ane' = [ane EXCEPT !.ret = Verdict]
    /\ k' = NoSession /\ wire' = {}
    /\ Touch(ane)
    /\ UNCHANGED <<cfg, held, pm>>

\* The surfaces and the owned image; only after the map of the same pages is gone.
HsFreed(h) == h \ (Surfaces \cup {"cmd", "owned_fw"})

ane_h15_core_stopped == hw.core = "stopped"

Bug_core_stopped ==
    /\ pc = "stopping"
    /\ LET a == [ane EXCEPT !.started = FALSE, !.touched = FALSE] IN
       \E u \in Unmapped(held, a) :
          /\ pc' = "exit"
          /\ held' = IF u.a.retained THEN u.h ELSE HsFreed(u.h)
          /\ ane' = [u.a EXCEPT !.ret = IF u.a.retained THEN "err" ELSE ane.ret]
    /\ note' = [note EXCEPT !.given = IF hw.core = "stopped" THEN {} ELSE @]
    /\ UNCHANGED <<cfg, pm, k, wire, hw>>
core_stopped ==
    /\ pc = "stopping" /\ ane_h15_core_stopped
    /\ LET a == [ane EXCEPT !.started = FALSE, !.touched = FALSE] IN
       \E u \in Unmapped(held, a) :
          /\ pc' = "exit"
          /\ held' = IF u.a.retained THEN u.h ELSE HsFreed(u.h)
          /\ ane' = [u.a EXCEPT !.ret = IF u.a.retained THEN "err" ELSE ane.ret]
    /\ note' = [note EXCEPT !.given = {}]
    /\ hw' = Halted(hw)
    /\ UNCHANGED <<cfg, pm, k, wire>>

\* Twenty polls without STOPPED: the module is pinned and probe succeeds.
core_not_stopped ==
    /\ pc = "stopping" /\ hw.core # "stopped"
    /\ Finish("ok") /\ note' = [note EXCEPT !.pinned = TRUE]
    /\ UNCHANGED <<cfg, held, pm, k, wire, hw>>

\* A retained map pins the module; a core that may run keeps its power claim;
\* a failed probe releases everything, since remove() will not run.
probe_exit ==
    /\ pc = "exit"
    /\ LET p == IF ane.started \/ ane.retained THEN pm ELSE PmPut(pm) IN
       IF ane.retained
       THEN /\ Return("bound") /\ held' = ane_h15_steplog_close(held)
            /\ note' = [note EXCEPT !.pinned = TRUE] /\ UNCHANGED <<pm, ane>>
       ELSE IF ane.ret = "ok"
       THEN /\ Return("bound") /\ held' = ane_h15_steplog_close(held) /\ pm' = p
            /\ UNCHANGED <<note, ane>>
       ELSE /\ Return("unbound")
            /\ held' = Released(Detached(HsFreed(held), ane))
            /\ pm' = [PmDisable(p) EXCEPT !.on = @ /\ ane.pds = 0]
            /\ ane' = Fresh /\ UNCHANGED note
    /\ UNCHANGED <<hw, k, wire>>

\* remove() runs at unload, which a pinned module refuses.
ane_h15_remove ==
    /\ pc = "bound" /\ ~note.pinned /\ pm.depth < MaxDepth
    /\ Return("unbound")
    /\ IF ane.touched \/ ane.retained THEN UNCHANGED <<held, pm, ane>>
       ELSE /\ held' = ane_h15_unmap_windows(Detached(HsFreed(held), ane))
            /\ pm' = [PmDisable(pm) EXCEPT !.on = @ /\ ane.pds = 0]
            /\ ane' = Fresh
    /\ UNCHANGED <<k, wire, hw, note>>

(***************************************************************************)
(* The core and its firmware.                                              *)
(***************************************************************************)
Fw == UNCHANGED <<pc, cfg, ane, held, pm, k, wire, note>>
fw_core ==
    /\ hw' = [hw EXCEPT !.core = IF hw.run THEN "running" ELSE "stopped"]
    /\ hw' # hw /\ Fw

\* It acknowledges a power state only after it was asked for it, but late, or
\* more than once; everything else it may post whenever the mailbox is free.
fw_post ==
    /\ hw.core = "running" /\ hw.box = "empty" /\ ane.started /\ ~hw.boot
    /\ pc \in {"session", "hs_wait", "shutdown", "watch"}
    /\ \E m \in {"EPMAP", "EPMAP_LAST", "IOP_ON"}
             \cup (IF k.hello THEN {} ELSE {"HELLO", "HELLO_BAD"})
             \cup (IF k.shutdown THEN {"IOP_IDLE"} ELSE {})
             \cup (wire \cap {"AP_ON", "AP_DOWN", "IOP_DOWN"}) :
        hw' = [hw EXCEPT !.box = m]
    /\ Fw

\* Once per boot and before its first message: the requests in SCRATCH0, 1 and 3, then READY.
fw_ready == hw.core = "running" /\ hw.boot
            /\ hw' = [hw EXCEPT !.s7 = "READY", !.addr = "req", !.s3 = "req", !.boot = FALSE] /\ Fw

fw_publish ==
    /\ hw.core = "running" /\ hw.s7 = "WAKE"
    /\ \/ hw.addr = "blk" /\ \E t \in {"tab", "badtab", "alien"} :
            hw' = [hw EXCEPT !.addr = t]
       \/ hw.addr # "blk" /\ hw' = [hw EXCEPT !.s7 = "READY"]
    /\ Fw

fw_s3 == hw.core = "running" /\ hw.s3 = "READY" /\ hw' = [hw EXCEPT !.s3 = "0"] /\ Fw

fw_doorbell ==
    /\ hw.core = "running" /\ hw.slot \in {"cmd1", "cmd2"}
    /\ \E r \in {IF hw.slot = "cmd1" THEN "done1" ELSE "done2", "bad"} :
        hw' = [hw EXCEPT !.slot = r]
    /\ Fw

Firmware == fw_core \/ fw_post \/ fw_ready \/ fw_publish \/ fw_s3 \/ fw_doorbell

Advance ==
    \/ map_windows \/ ane_h15_attach_pds \/ power_up
    \/ ane_h15_stage_status \/ ane_h15_stage_wrapper \/ ane_h15_stage_dart
    \/ ane_h15_stage_boot \/ ane_h15_run_common \/ ane_h15_plan_owned_map
    \/ ane_h15_map_firmware \/ ane_h15_dart_scan \/ pwgate \/ release_core
    \/ session_started \/ begin_shutdown
    \/ ane_h15_chan_run \/ hs_publish \/ hs_timeout
    \/ ane_h15_chan_step \/ chan_ready \/ ane_h15_cmd \/ cmd_answered
    \/ stop_core \/ core_stopped \/ core_not_stopped \/ probe_exit

Polling == ane_h15_rtk_handle \/ watch \/ hs_read_addr \/ hs_read_ready

Next == ane_h15_probe \/ Advance \/ Polling \/ ane_h15_remove \/ Firmware

Spec == Init /\ [][Next]_vars

(***************************************************************************)
(* Properties.                                                             *)
(***************************************************************************)

\* When no driver is bound, whichever step of probe() failed and whatever ran
\* before, every window, domain, link, mapping and buffer is released, the
\* runtime-PM usage count is back at zero and every core this driver released
\* was seen stopped - unless the module is pinned until the reboot.
Unwound ==
    pc = "unbound" =>
        \/ note.pinned
        \/ held = {} /\ pm.usage = 0 /\ note.given = {}

\* While the core this driver released may run, everything it can reach (the
\* firmware segments, the owned image, the handshake surfaces, the command
\* block) stays mapped and allocated, the windows stay mapped and the power
\* domains stay on, also after probe() has returned.
CoreKeepsMemory ==
    note.given # {} /\ (hw.run \/ hw.core = "running") =>
        note.given \subseteq held /\ pm.on

\* No engine register is accessed unless the window is mapped, the power
\* domains are on and the ACTUAL gate of ane_h15_ps_wait() has passed.
NoBlindMmio == ~note.blind

\* RUN is set only on a stopped core with the measured RVBAR, empty mailboxes
\* and a live DART stream (or run_unmapped=1), with both segments mapped if
\* the run maps them and the power gate open if the run opens it.
RunAfterPreflight ==
    hw'.run /\ ~hw.run =>
        /\ hw.core = "stopped" /\ hw.rvbar /\ hw.box = "empty"
        /\ hw.live \/ On("run_unmapped")
        /\ On("map_fw") => Segs \subseteq held
        /\ On("pwgate") => hw'.gate = "open"

\* The application endpoints are started only with AP power acknowledged and
\* the endpoint map complete, the IOP is told to power down only after the
\* firmware acknowledged the AP state, and a phase never sends more than
\* its budget, however often the firmware repeats itself.
RtkOrder ==
    /\ "START_APP" \in wire => k.ap_on /\ k.epmap_last
    /\ "IOP_DOWN" \in wire => k.ap_acked
    /\ k.sent =< MaxSend

\* SCRATCH3 tells the firmware to go on only with the table it published,
\* checked as a whole, although the address and READY are read one after
\* the other while the firmware writes them.
TableChecked == hw'.s3 = "READY" /\ hw.s3 # "READY" => hw.addr = "tab"
====
