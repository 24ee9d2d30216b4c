---------------------------- MODULE AneT6021Bind ----------------------------
(***************************************************************************)
(* How ane_t6021.ko binds to the M2 engine: probe(), remove() and the poll *)
(* worker of ane_t6021_rtclient_main.c, the firmware stager of             *)
(* ane_t6021_fwload.c and the boot sequence of ane_t6021_boot.c/.h.        *)
(*                                                                         *)
(* A probe that fails before it writes the hardware is unwound and may be  *)
(* retried; one that fails later sets a latch that only a reboot clears;   *)
(* once the firmware core runs, nothing it may reach is ever taken back.   *)
(*                                                                         *)
(* Abstractions.  The entry alias is NPages pages of the DART's page table,*)
(* each unmapped, the driver's or someone else's; in reserved mode they    *)
(* are three windows.  The blob check, the image patches and the tunables  *)
(* pass or fail; READY and DONE are the same SCRATCH7 word.  An exchange   *)
(* with the firmware (AneT6021Chan) answers or fails.  A wait loop is a    *)
(* state left when the awaited fact holds or, at any time, by time-out.    *)
(***************************************************************************)
LOCAL INSTANCE Integers
LOCAL INSTANCE FiniteSets

CONSTANTS
    Configs,    \* the module parameters tried: [on (set of switches), table]
    NPds,       \* power domains of the device-tree node
    NPages      \* pages of the entry alias

VARIABLES
    pc,     \* where the module is: "unloaded", "idle", "bound", "gone" or in probe()
    cfg,    \* the module parameters, fixed while it is loaded
    ane,    \* struct ane_rtclient and struct ane_t6021: devm memory, gone after a failure
    held,   \* what is acquired and not released
    pm,     \* runtime PM of the device: [en, use]
    k,      \* file statics, the poll work and the writer of fw_perf_mode
    hw,     \* the engine, its firmware and its DART
    note    \* history: [blind, empty, staged, gates, others]

vars == <<pc, cfg, ane, held, pm, k, hw, note>>

On(f) == f \in cfg.on
Pages == 1..NPages
Pds == { <<"pd1", "pd2">>[i] : i \in 1..NPds }
Links == { <<"link1", "link2">>[i] : i \in 1..NPds }
Pins == {"pin_pd", "pin_boot", "pin_dirty"}

Idle == [on |-> {}, table |-> 0]
Gone == [alloc |-> FALSE, touched |-> FALSE, held |-> FALSE, fw |-> FALSE, alive |-> FALSE,
         booted |-> FALSE, done |-> FALSE, chman |-> FALSE, rtk |-> FALSE]
PmOff == [en |-> FALSE, use |-> 0]
Static == [dirty |-> FALSE, perf |-> FALSE, work |-> "off", user |-> FALSE]

\* iBoot may have latched the reset vector, with an entry or with entry 0 (the
\* stale state), left an old ack in SCRATCH7 and a page of its own in the DART;
\* the core may already run for someone else.
Init ==
    /\ pc = "unloaded" /\ cfg = Idle /\ ane = Gone /\ held = {} /\ pm = PmOff /\ k = Static
    /\ \E vector \in {"clear", "entry", "zero"}, other \in {{}} \cup {{i} : i \in Pages},
          s7 \in {"zero", "ack"}, gate \in {"open", "closed", "odd"}, cpu \in {"off", "other"} :
        hw = [cpu |-> cpu, phase |-> "off", s7 |-> s7, s3 |-> FALSE, vector |-> vector,
              map |-> [i \in Pages |-> IF i \in other THEN "other" ELSE "none"],
              pmu |-> FALSE, gate |-> gate, table |-> "none", slots |-> "raw"]
    /\ note = [blind |-> FALSE, empty |-> FALSE, staged |-> 0, gates |-> 0,
                others |-> Cardinality({i \in Pages : hw.map[i] = "other"})]

Goto(p) == pc' = p
Powered == pm.use > 0 /\ hw.gate = "open"
Touch == note' = [note EXCEPT !.blind = @ \/ ~Powered]

(***************************************************************************)
(* Loading, and how a probe fails.                                         *)
(***************************************************************************)
ane_rtclient_init ==
    /\ pc = "unloaded"
    /\ Goto("idle") /\ cfg' \in Configs /\ k' = [Static EXCEPT !.work = k.work]
    /\ UNCHANGED <<ane, held, pm, hw, note>>

\* rmmod: refused while a reference on the module is held.
ane_rtclient_exit ==
    /\ pc = "idle" /\ held \cap Pins = {}
    /\ Goto("unloaded") /\ cfg' = Idle
    /\ UNCHANGED <<ane, held, pm, k, hw, note>>

\* The links and devices of every domain go; with the list empty the pin too.
ane_rtclient_detach_genpd(h) == h \ (Pds \cup Links \cup {"pin_pd"})

\* A probe that touched the hardware bars every later one, and rmmod with it.
Bug_Latch(a) == {}
Latch(a) == IF a.touched THEN {"pin_dirty"} ELSE {}

\* probe() after an error of the inner function: what devm owns is freed.
Fails(a, h, p) ==
    /\ Goto("idle") /\ ane' = Gone /\ pm' = p
    /\ held' = (IF a.held THEN h ELSE ane_rtclient_detach_genpd(h)) \cup Latch(a)
    /\ k' = [k EXCEPT !.dirty = @ \/ a.touched]

\* err_pm_or_hold: a started core keeps its power.
Bug_err_pm_or_hold(a, h) == Fails(a, h, PmOff)
err_pm_or_hold(a, h) == Fails(a, h, IF a.held THEN pm ELSE PmOff)

\* fwload_remove(): the recorded extents are unmapped, the buffer freed.
Unmapped(m) == [i \in Pages |-> IF m[i] = "own" THEN "none" ELSE m[i]]

(***************************************************************************)
(* The inner probe, up to the first engine access.                         *)
(***************************************************************************)
\* The switches that are refused before anything is allocated or powered.
OptionsOK ==
    /\ On("reserved") => On("reserved_nodes")
    /\ On("legacy") => On("fw_start") /\ ~On("rtb")
    /\ On("query") => On("legacy")
    /\ On("dyn_pg") => On("selene")

\* Failures up to here change nothing, so only the way on is a step.
ane_rtclient_probe_inner ==
    /\ pc = "idle" /\ ~k.dirty /\ OptionsOK
    /\ Goto("pds") /\ ane' = [Gone EXCEPT !.alloc = TRUE]
    /\ UNCHANGED <<cfg, held, pm, k, hw, note>>

\* The module is pinned before the first link; probe() unwinds a failure.
ane_rtclient_attach_genpd ==
    /\ pc = "pds"
    /\ \E got \in SUBSET Pds, linked \in SUBSET Links :
        LET h == held \cup got \cup linked \cup (IF linked # {} THEN {"pin_pd"} ELSE {}) IN
        /\ Cardinality(linked) \in {Cardinality(got), Cardinality(got) - 1}
        /\ IF linked = Links
           THEN Goto("rpm") /\ held' = h /\ UNCHANGED <<ane, pm, k>>
           ELSE Fails(ane, h, pm)
    /\ UNCHANGED <<cfg, hw, note>>

resume_and_get ==
    /\ pc = "rpm"
    /\ \/ Goto("ps") /\ pm' = [en |-> TRUE, use |-> 1] /\ UNCHANGED <<ane, held, k>>
       \/ Fails(ane, held, PmOff)
    /\ UNCHANGED <<cfg, hw, note>>

\* Only the boot firmware's own closed word may be written, and by opt-in only.
Bug_pwgate_plan(gate, opt_in) ==
    IF gate # "closed" THEN "OPEN" ELSE IF opt_in THEN "WRITE" ELSE "REFUSE"
ane_pwgate_plan(gate, opt_in) ==
    IF gate = "open" THEN "OPEN" ELSE IF opt_in /\ gate = "closed" THEN "WRITE" ELSE "REFUSE"

\* The CPU power word must read on, and on T8112 the power gate be open: a
\* closed gate is written once, and a write that does not open it is the last.
power_gate ==
    /\ pc = "ps"
    /\ \/ Fails(ane, held, PmOff) /\ UNCHANGED <<hw, note>>
       \/ /\ ane_pwgate_plan(hw.gate, On("pwgate_open")) = "OPEN"
          /\ Goto("engine") /\ UNCHANGED <<ane, held, pm, k, hw, note>>
       \/ /\ ane_pwgate_plan(hw.gate, On("pwgate_open")) = "WRITE"
          /\ note' = [note EXCEPT !.gates = @ + 1]
          /\ \/ /\ Goto("engine") /\ hw' = [hw EXCEPT !.gate = "open"]
                /\ UNCHANGED <<ane, held, pm, k>>
             \/ /\ Fails([ane EXCEPT !.touched = TRUE], held, PmOff)
                /\ UNCHANGED hw
    /\ UNCHANGED cfg

\* A core that does not run is started here, or the probe is deferred.
engine_reads ==
    /\ pc = "engine" /\ Touch
    /\ LET a == [ane EXCEPT !.touched = TRUE] IN
       CASE hw.cpu # "off" -> Goto("service") /\ ane' = a /\ UNCHANGED <<held, pm, k>>
         [] hw.cpu = "off" /\ {"fw_start", "fw_load", "iommu"} \subseteq cfg.on ->
                \/ Goto("stage") /\ ane' = [a EXCEPT !.fw = TRUE] /\ UNCHANGED <<held, pm, k>>
                \/ Fails(ane, held, PmOff)
         [] OTHER -> Fails(ane, held, PmOff)
    /\ UNCHANGED <<cfg, hw>>

(***************************************************************************)
(* Staging the firmware: the owned buffer and the alias at the entry.      *)
(***************************************************************************)
\* n pages are mapped when page n + 1 is refused: those n are unmapped.
Bug_Unwind(n) == 1..(n + 1)
Unwind(n) == 1..n

Restored(m, n) == [i \in Pages |-> IF i \in Unwind(n) THEN "none"
                                   ELSE IF i \in 1..n THEN "own" ELSE m[i]]

\* Every page must be free; nothing is aliased, nor the pmgr page mapped, when
\* the vector is not latched or its entry is 0.
ane_t6021_fw_alias_map(m) ==
    IF hw.vector # "entry" THEN {[ok |-> TRUE, map |-> m, pmu |-> FALSE]}
    ELSE {[ok |-> FALSE, map |-> Restored(m, n), pmu |-> FALSE] :
              n \in {n \in 0..(NPages - 1) : \A i \in 1..n : m[i] # "other"}}
         \cup (IF \E i \in Pages : m[i] = "other" THEN {}
               ELSE {[ok |-> ok, map |-> IF ok THEN [i \in Pages |-> "own"] ELSE Unmapped(m),
                      pmu |-> ok] : ok \in BOOLEAN})

\* Request, check, allocate, copy, patch, alias; every failure frees the buffer.
ane_t6021_fwload_probe ==
    /\ pc = "stage"
    /\ note' = [note EXCEPT !.staged = @ + 1]
    /\ \/ Fails(ane, held, PmOff) /\ UNCHANGED hw
       \/ \E r \in ane_t6021_fw_alias_map(hw.map) :
            /\ hw' = [hw EXCEPT !.map = r.map, !.pmu = r.pmu]
            /\ IF r.ok THEN Goto("boot") /\ held' = held \cup {"fwbuf"} /\ UNCHANGED <<ane, pm, k>>
               ELSE Fails(ane, held, PmOff)
    /\ UNCHANGED cfg

(***************************************************************************)
(* The boot sequence.                                                      *)
(***************************************************************************)
\* A module that is being removed, or table mode 0, refuses before any write.
boot_refused ==
    /\ pc = "boot"
    /\ Fails(ane, held \ {"fwbuf"}, PmOff) /\ hw' = [hw EXCEPT !.map = Unmapped(@)]
    /\ UNCHANGED <<cfg, note>>

\* InitANEScratchRegisters: all cells cleared, SCRATCH7 pulsed 1, 0.
Bug_InitScratch(h) == [h EXCEPT !.s3 = FALSE]
InitScratch(h) == [h EXCEPT !.s3 = FALSE, !.s7 = "zero"]

\* Table, tunables, scratch, the reset vector if it is clear, then CPU_CONTROL 0
\* and RUN.
boot_release ==
    /\ pc = "boot" /\ cfg.table # 0 /\ Touch
    /\ Goto("poll_a") /\ held' = held \cup {"pin_boot"}
    /\ hw' = [InitScratch(hw) EXCEPT !.cpu = "run", !.phase = "reset",
                                     !.vector = IF @ = "clear" THEN "own" ELSE @]
    /\ UNCHANGED <<cfg, ane, pm, k>>

\* RTBuddy mode publishes nothing; without READY only that mode goes on.
poll_a ==
    /\ pc = "poll_a"
    /\ \/ /\ hw.s7 = "ack"
          /\ ane' = [ane EXCEPT !.alive = TRUE, !.held = On("rtb")]
          /\ Goto(IF On("rtb") THEN "service" ELSE "prepare")
       \/ /\ ane' = [ane EXCEPT !.held = TRUE]
          /\ Goto(IF On("rtb") THEN "service" ELSE "bound")
    /\ UNCHANGED <<cfg, held, pm, k, hw, note>>

\* The sizes are bounded before the first allocation; what was allocated when
\* a later one fails is kept, as the core may reach it.
ane_t6021_boot_prepare ==
    /\ pc = "prepare"
    /\ \/ \E got \in {{}, {"pool"}, {"pool", "ipc"}} :
            /\ held' = held \cup got
            /\ Goto("service") /\ ane' = [ane EXCEPT !.held = TRUE] /\ UNCHANGED hw
       \/ /\ held' = held \cup {"pool", "ipc", "heap"}
          /\ Goto("publish") /\ UNCHANGED <<ane, hw>>
    /\ UNCHANGED <<cfg, pm, k, note>>

\* The wake word replaces READY, so that DONE can be told from it.
Bug_Wake(h) == h
Wake(h) == [h EXCEPT !.s7 = "wake"]

boot_publish ==
    /\ pc = "publish"
    /\ Goto("poll_b") /\ hw' = Wake(hw)
    /\ UNCHANGED <<cfg, ane, held, pm, k, note>>

poll_b ==
    /\ pc = "poll_b" /\ Goto("service")
    /\ \E ok \in BOOLEAN :
        /\ ok => hw.s7 = "ack"
        /\ ane' = [ane EXCEPT !.booted = ok, !.held = TRUE]
    /\ UNCHANGED <<cfg, held, pm, k, hw, note>>

(***************************************************************************)
(* After the boot: the channel table, the host's ack, CONFIG_GET.          *)
(***************************************************************************)
\* The table counts only in the surface this driver gave the firmware.
ane_rtclient_validate_chman ==
    /\ pc = "service" /\ On("legacy")
    /\ Goto("ack")
    /\ ane' = [ane EXCEPT !.chman = ane.fw /\ "ipc" \in held /\ hw.table = "good"]
    /\ UNCHANGED <<cfg, held, pm, k, hw, note>>

\* Every host-to-firmware slot is marked the host's before the ack goes out.
Bug_chman_host_init(h) == h
ane_t6021_chman_host_init(h) == [h EXCEPT !.slots = "init"]

MayAck == ane.fw /\ ane.booted /\ On("ack") /\ ane.chman

\* With hello_wait_ms the poll worker is armed before the ack is written.
host_ack ==
    /\ pc = "ack"
    /\ \/ /\ MayAck /\ Touch
          /\ hw' = [ane_t6021_chman_host_init(hw) EXCEPT !.s3 = TRUE]
          /\ \E rtk \in IF On("hello") THEN BOOLEAN ELSE {FALSE} :
              /\ ane' = [ane EXCEPT !.rtk = rtk]
              /\ k' = [k EXCEPT !.work = IF rtk THEN "armed" ELSE @]
              /\ Goto(IF rtk THEN "hello" ELSE "query")
       \/ ~MayAck /\ Goto("query") /\ UNCHANGED <<ane, k, hw, note>>
    /\ UNCHANGED <<cfg, held, pm>>

\* cancel_delayed_work_sync() waits for a worker that runs.
Cancellable == k.work # "running"
Cancelled == k' = [k EXCEPT !.work = "off"]

legacy_hello ==
    /\ pc = "hello" /\ Goto("query")
    /\ \/ ane' = [ane EXCEPT !.done = TRUE] /\ UNCHANGED k
       \/ Cancellable /\ Cancelled /\ UNCHANGED ane
    /\ UNCHANGED <<cfg, held, pm, hw, note>>

\* The command buffer, then CONFIG_GET: an answer needs an acked firmware.
config_get ==
    /\ pc = "query"
    /\ LET a == [ane EXCEPT !.done = TRUE]
           h == IF ane.chman THEN held \cup {"cmd"} ELSE held
       IN \/ /\ (ane.chman /\ On("query")) => (hw.s3 /\ hw.phase = "serving")
             /\ Goto("install") /\ ane' = a /\ held' = h /\ UNCHANGED <<pm, k>>
          \/ /\ ane.chman
             /\ \E h1 \in {held, h} : err_pm_or_hold(a, h1)
    /\ UNCHANGED <<cfg, hw, note>>

\* Without legacy_only the RTKit HELLO is the proof of life.
rtkit_init ==
    /\ pc = "service" /\ ~On("legacy")
    /\ \/ err_pm_or_hold(ane, held)
       \/ /\ Goto("rtboot") /\ ane' = [ane EXCEPT !.rtk = TRUE]
          /\ k' = [k EXCEPT !.work = "armed"] /\ UNCHANGED <<held, pm>>
    /\ UNCHANGED <<cfg, hw, note>>

rtkit_boot ==
    /\ pc = "rtboot"
    /\ \/ Goto("install") /\ ane' = [ane EXCEPT !.done = TRUE] /\ UNCHANGED <<held, pm, k>>
       \/ Cancellable /\ Goto("rt_fail") /\ Cancelled /\ UNCHANGED <<ane, held, pm>>
    /\ UNCHANGED <<cfg, hw, note>>

\* No DRM device without a validated table.
no_table ==
    /\ pc = "install" /\ ~ane.chman /\ Cancellable
    /\ Cancelled /\ Goto("rt_fail") /\ UNCHANGED <<cfg, ane, held, pm, hw, note>>

cancelled_fail ==
    /\ pc = "rt_fail" /\ err_pm_or_hold(ane, held)
    /\ UNCHANGED <<cfg, hw, note>>

ane_t6021_dyn_pg_on ==
    /\ pc = "install" /\ ane.chman
    /\ \/ Goto("drm") /\ UNCHANGED k
       \/ On("dyn_pg") /\ Cancellable /\ Cancelled /\ Goto("rt_fail")
    /\ UNCHANGED <<cfg, ane, held, pm, hw, note>>

\* fw_perf_mode may be written from here on, before the device is registered.
drm_alloc ==
    /\ pc = "drm"
    /\ \/ err_pm_or_hold(ane, held)
       \/ Goto("register") /\ k' = [k EXCEPT !.perf = TRUE] /\ UNCHANGED <<ane, held, pm>>
    /\ UNCHANGED <<cfg, hw, note>>

drm_register ==
    /\ pc = "register"
    /\ \/ err_pm_or_hold(ane, held)
       \/ Goto("bound") /\ held' = held \cup {"drm"} /\ UNCHANGED <<ane, pm, k>>
    /\ UNCHANGED <<cfg, hw, note>>

(***************************************************************************)
(* The poll worker, the fw_perf_mode switch, and the removal of the node.  *)
(***************************************************************************)
post_boot ==
    /\ k.work = "armed"
    /\ k' = [k EXCEPT !.work = "running"]
    /\ UNCHANGED <<pc, cfg, ane, held, pm, hw, note>>

\* Until the handshake every 10 ms, then every second while poll_rx is on.
post_boot_end ==
    /\ k.work = "running"
    /\ \E again \in IF ane.alloc THEN {~ane.done \/ On("poll_rx")} ELSE BOOLEAN :
        k' = [k EXCEPT !.work = IF again THEN "armed" ELSE "off"]
    /\ UNCHANGED <<pc, cfg, ane, held, pm, hw, note>>

\* The pointer is read before the firmware lock is taken ...
perf_mode_read ==
    /\ k.perf /\ ~k.user
    /\ k' = [k EXCEPT !.user = TRUE]
    /\ UNCHANGED <<pc, cfg, ane, held, pm, hw, note>>

\* ... and used after it.
ane_t6021_perf_mode_set ==
    /\ k.user
    /\ k' = [k EXCEPT !.user = FALSE]
    /\ UNCHANGED <<pc, cfg, ane, held, pm, hw, note>>

\* Mutant: the work is not cancelled.
Bug_rtclient_remove ==
    /\ pc = "bound"
    /\ Goto("gone") /\ ane' = Gone
    /\ k' = [k EXCEPT !.perf = FALSE]
    /\ UNCHANGED <<cfg, held, pm, hw, note>>
\* Only the device-tree node can go: the module is pinned.  A held device
\* keeps everything but what devm frees.
ane_rtclient_remove ==
    /\ pc = "bound" /\ Cancellable
    /\ Goto("gone") /\ ane' = Gone
    /\ k' = [k EXCEPT !.perf = FALSE, !.work = "off"]
    /\ UNCHANGED <<cfg, held, pm, hw, note>>

(***************************************************************************)
(* The firmware: READY, then on the wake word the table and DONE, then on  *)
(* the host's ack it takes every slot that is not marked the host's.       *)
(***************************************************************************)
fw_ready ==
    /\ hw.phase = "reset"
    /\ hw' = [hw EXCEPT !.phase = "ready", !.s7 = "ack"]
    /\ UNCHANGED <<pc, cfg, ane, held, pm, k, note>>

fw_done ==
    /\ hw.phase = "ready" /\ hw.s7 = "wake"
    /\ \E t \in {"good", "bad"} :
        hw' = [hw EXCEPT !.phase = "done", !.s7 = "ack", !.table = t]
    /\ UNCHANGED <<pc, cfg, ane, held, pm, k, note>>

fw_serve ==
    /\ hw.phase = "done" /\ hw.s3
    /\ hw' = [hw EXCEPT !.phase = "serving"]
    /\ note' = [note EXCEPT !.empty = @ \/ hw.slots = "raw"]
    /\ UNCHANGED <<pc, cfg, ane, held, pm, k>>

Probe ==
    \/ ane_rtclient_attach_genpd \/ resume_and_get \/ power_gate \/ engine_reads
    \/ ane_t6021_fwload_probe \/ boot_refused \/ boot_release \/ poll_a
    \/ ane_t6021_boot_prepare \/ boot_publish \/ poll_b
    \/ ane_rtclient_validate_chman \/ host_ack \/ legacy_hello \/ config_get
    \/ rtkit_init \/ rtkit_boot \/ no_table \/ cancelled_fail
    \/ ane_t6021_dyn_pg_on \/ drm_alloc \/ drm_register

Next ==
    \/ ane_rtclient_init \/ ane_rtclient_exit \/ ane_rtclient_probe_inner \/ Probe
    \/ post_boot \/ post_boot_end \/ perf_mode_read \/ ane_t6021_perf_mode_set
    \/ ane_rtclient_remove \/ fw_ready \/ fw_done \/ fw_serve

Spec == Init /\ [][Next]_vars

(***************************************************************************)
(* Properties.                                                             *)
(***************************************************************************)
TypeOK ==
    /\ pm \in [en : BOOLEAN, use : 0..1]
    /\ k.work \in {"off", "armed", "running"}
    /\ hw.map \in [Pages -> {"none", "own", "other"}]
    /\ hw.s7 \in {"zero", "ack", "wake"}

\* From the RUN write on nothing the firmware may reach is taken back, whether
\* probe succeeds, fails late or the node is removed: power, its domains, the
\* image, the alias of a latched entry with the pmgr page, and every surface
\* once published.  A clear vector is set to the image, without a pmgr page; a
\* vector latched with entry 0 is started with nothing mapped at its entry.
CoreKeepsMemory ==
    hw.cpu = "run" =>
        /\ pm = [en |-> TRUE, use |-> 1]
        /\ Pds \cup Links \cup {"fwbuf", "pin_boot"} \subseteq held
        /\ hw.vector \in {"own", "entry", "zero"}
        /\ hw.vector = "entry" => hw.pmu /\ \A i \in Pages : hw.map[i] = "own"
        /\ hw.phase \in {"done", "serving"} => {"pool", "ipc", "heap"} \subseteq held

\* remove() leaves no poll work behind, and neither the work nor a writer of
\* fw_perf_mode outlives the struct - except that of a probe that failed
\* after the core was started, or the writer that already had the pointer.
PollFenced ==
    /\ pc = "gone" => k.work = "off"
    /\ ~ane.alloc /\ (k.work # "off" \/ k.user) => hw.cpu = "run"

\* A failed probe that did not start the core leaves nothing but the latch:
\* no power reference, domain, buffer or alias page, and nobody else's page
\* was unmapped on the way.
ProbeUnwound ==
    /\ pc = "idle" /\ hw.cpu # "run" =>
        /\ held \subseteq {"pin_dirty"} /\ pm = PmOff
        /\ \A i \in Pages : hw.map[i] # "own"
    /\ hw.cpu # "run" => Cardinality({i \in Pages : hw.map[i] = "other"}) = note.others

\* In one boot the firmware is staged at most once and a power gate that did
\* not open is not written again, across retries, rmmod and reload.
OneAttempt == note.staged <= 1 /\ note.gates <= 1

\* fw_alive and booted are only set by words this firmware wrote in this boot:
\* a stale SCRATCH7 is not READY, and READY is not DONE.
HandshakeFresh ==
    /\ ane.alive => hw.phase \in {"ready", "done", "serving"}
    /\ ane.booted => hw.phase \in {"done", "serving"}

\* The firmware never finds a host-to-firmware slot that the host did not mark
\* its own before the SCRATCH3 ack.
SlotsMarked == ~note.empty

\* The engine is only read or written with power on and the gate open.
NoBlindMmio == ~note.blind

\* A device that clients can open has the command buffer, a validated table
\* and a firmware this driver started.
InstalledHeld == "drm" \in held /\ pc = "bound" => ane.chman /\ ane.held /\ "cmd" \in held
=============================================================================
