------------------------------- MODULE AneH18 -------------------------------
(***************************************************************************)
(* ane_h18.ko, the bring-up module for the T8152 (H18) engine:             *)
(* ane/h18/ane_h18_main.c.  probe() runs one stage: dt, psd (read), power  *)
(* (request the power slots, read) or boot: map the firmware, set RUN,     *)
(* speak RTKit over a counted mailbox with a transmit queue, the SCRATCH   *)
(* handshake, the channel table, the command sequence and one program,     *)
(* then shut RTKit down, clear RUN and release everything.                 *)
(* The SHAREDMALLOC ring it serves meanwhile is the module AneH18Malloc.   *)
(*                                                                         *)
(* Abstractions.  A resource is a name in `held`; error codes are classes; *)
(* a wait loop is a state left when the awaited fact holds or, at any      *)
(* time, by its time-out; an RTKit message is its type with the argument   *)
(* the handler tells apart; the mailbox has one transmit slot; the command *)
(* ring is one slot.  Logging, snapshots and DART dumps are left out.      *)
(***************************************************************************)
LOCAL INSTANCE Integers
LOCAL INSTANCE Sequences
LOCAL INSTANCE FiniteSets

CONSTANTS
    Configs,    \* the module parameters tried: [stage, on (set of switches)]
    Reloads,    \* those tried again behind a core that was left running
    MaxSend,    \* ANE_H18_PO_MAXSEND: messages accepted per phase
    MaxQ        \* entries of rtk_txq

VARIABLES
    pc,     \* where probe() is; "unbound" and "bound" are outside it
    cfg,    \* the parameters of this load
    ane,    \* struct ane_h18: power, mapping and verdict
    held,   \* what is acquired and not released
    k,      \* struct ane_h18: the RTKit session and the command in flight
    wire,   \* the messages the firmware has received since RUN
    hw,     \* power slots, core, mailbox, scratch words, command slot
    note    \* history: [blind, dim, given, left, acked (slots turned on), order, lost]

vars == <<pc, cfg, ane, held, k, wire, hw, note>>

On(f) == f \in cfg.on
Slots == 0..1
Segs == {"seg0", "seg1"}
Asc == {"psd", "asc", "mbox", "scratch", "doorbell", "dart"}
Surfaces == {"pool", "ipc", "heap"}
ProgBufs == {"sections", "io"}

Idle == [stage |-> "none", on |-> {}]
Fresh == [ret |-> "ok", slot |-> 0, psd_on |-> {}, rpm |-> FALSE, dom |-> "none",
          started |-> FALSE]
NoSession == [eps |-> {}, ap_sent |-> FALSE, ap_on |-> FALSE, app_started |-> FALSE,
              shutdown |-> FALSE, ap_acked |-> FALSE, iop_acked |-> FALSE,
              iop_idle |-> FALSE, q |-> <<>>, sent |-> 0, n |-> 0, last |-> 0,
              hs |-> "ok", cmd |-> "none", pmu |-> FALSE, loaded |-> FALSE,
              created |-> FALSE, perr |-> FALSE]

Init ==
    /\ pc = "unbound" /\ cfg = Idle /\ ane = Fresh /\ held = {}
    /\ k = NoSession /\ wire = {}
    /\ \E core \in {"stopped", "running"}, rv \in BOOLEAN :
        hw = [psd |-> [i \in Slots |-> "P6"], req |-> [i \in Slots |-> "P6"],
              run |-> FALSE, core |-> core, rvbar |-> rv, box |-> "empty", tx |-> TRUE,
              s7 |-> "other", addr |-> "req", s3 |-> "req", slot |-> "host", boot |-> FALSE]
    /\ note = [blind |-> FALSE, dim |-> {}, given |-> {}, left |-> {}, acked |-> {},
               order |-> TRUE, lost |-> FALSE]

Goto(p) == pc' = p
Powered == \A i \in Slots : hw.psd[i] = "P0"

\* A register of the engine is accessed: it needs its slots and its window.
Need == IF On("slots2") \/ On("kpsd") THEN Slots ELSE {0}
Touch == note' = [note EXCEPT !.blind =
                     @ \/ "asc" \notin held \/ \E i \in Need : hw.psd[i] # "P0"]

\* ane_h18_read_scratch_words(): the SCRATCH page lies behind both slots.  dim
\* keeps the power switches of a load that read it with one of them off.
ReadScratch(n) ==
    [n EXCEPT !.dim = IF "scratch" \in held /\ ~Powered THEN @ \cup {cfg.on \cap {"kpsd", "slots2"}}
                      ELSE @]

(***************************************************************************)
(* probe(): opt-in, windows that match the SoC row, then the mappings the  *)
(* stage and its switches ask for.  Every failure unmaps what was mapped.  *)
(***************************************************************************)
Wanted(c) ==
    CASE c.stage = "psd"   -> {"psd"}
      [] c.stage = "power" -> {"psd", "asc"} \cup (IF "read_mbox" \in c.on THEN {"mbox"} ELSE {})
      [] c.stage = "boot"  -> {"psd", "asc", "mbox"}
            \cup (IF "read_scratch" \in c.on THEN {"scratch"} ELSE {})
            \cup (IF "hs_chan" \in c.on THEN {"doorbell"} ELSE {})
            \cup (IF "read_dart" \in c.on THEN {"dart"} ELSE {})
      [] OTHER -> {}

ane_h18_probe ==
    /\ pc = "unbound"
    /\ \E c \in IF note.left = {} THEN Configs ELSE Reloads, matches \in BOOLEAN :    \* FALSE: a window differs or cannot be mapped
        /\ ane' = Fresh
        /\ IF "optin" \notin c.on \/ c.stage \notin {"dt", "psd", "power", "boot"} \/ ~matches
           THEN Goto("unbound") /\ UNCHANGED <<cfg, held>>
           ELSE IF c.stage = "dt" THEN Goto("bound") /\ UNCHANGED <<cfg, held>>
           ELSE /\ Goto(IF c.stage = "psd" THEN "exit" ELSE "refuse")
                /\ cfg' = c /\ held' = Wanted(c)
    /\ note' = [note EXCEPT !.acked = {}]
    /\ UNCHANGED <<k, wire, hw>>

(***************************************************************************)
(* The switches a stage refuses, before any power slot is requested.       *)
(***************************************************************************)
Requires == \* pairs <<switch, switch it needs>>, checked before the program file is loaded ...
    { <<"map_fw", "kpsd">>, <<"hello", "alias">>, <<"stop", "start">>, <<"start", "hello">>,
      <<"hs_chan", "handshake">>, <<"hs_cmds", "hs_chan">>, <<"hs_start", "hs_cmds">>,
      <<"hs_prog", "hs_start">>, <<"hs_props", "hs_start">>, <<"hs_prog", "prog_fw">> }
LateRequires == \* ... and after it
    { <<"premap", "hs_prog">>, <<"handshake", "map_fw">>, <<"handshake", "start">>,
      <<"handshake", "stop">>, <<"handshake", "read_scratch">> }

Lacks(pairs) == \E p \in pairs : On(p[1]) /\ ~On(p[2])
Refused ==
    ~On("confirm_power") \/ (cfg.stage = "boot" /\ (~On("confirm_boot") \/ Lacks(Requires)))
RefusedLate ==
    cfg.stage = "boot" /\ (Lacks(LateRequires) \/ (On("read_dart") /\ ~On("kpsd") /\ ~On("slots2")))

\* With hs_prog the program file is loaded and parsed in between; a file that
\* does not parse stays with the device until probe() fails.
stage_refuse ==
    /\ pc = "refuse"
    /\ \E blob \in {"ok", "missing", "invalid"} :
        LET load == On("hs_prog") /\ ~Refused IN
        /\ (~load => blob = "ok")
        /\ held' = IF load /\ blob # "missing" THEN held \cup {"blob"} ELSE held
        /\ IF Refused \/ blob # "ok" \/ RefusedLate
           THEN Goto("exit") /\ ane' = [ane EXCEPT !.ret = "err"]
           ELSE Goto(IF On("kpsd") THEN "rpm" ELSE "psd_up") /\ UNCHANGED ane
    /\ UNCHANGED <<cfg, k, wire, hw, note>>

(***************************************************************************)
(* Power.  Without power-domains the driver writes the slot requests and   *)
(* waits for each acknowledge; the PMGR may act late.  With them it holds  *)
(* a runtime-PM reference and the kernel's PSD driver owns the slots.      *)
(***************************************************************************)
Bug_Asked == 1
Asked == IF On("slots2") THEN 2 ELSE 1

psd_up_rpm ==
    /\ pc = "rpm"
    /\ \/ /\ Goto("preflight") /\ ane' = [ane EXCEPT !.rpm = TRUE]
          /\ hw' = [hw EXCEPT !.psd = [i \in Slots |-> "P0"], !.req = [i \in Slots |-> "P0"]]
       \/ Goto("exit") /\ ane' = [ane EXCEPT !.ret = "err"] /\ UNCHANGED hw
    /\ UNCHANGED <<cfg, held, k, wire, note>>

\* ane_h18_psd_up(): the request of the next slot, or done.
ane_h18_psd_up ==
    /\ pc = "psd_up"
    /\ IF ane.slot = Asked THEN Goto("preflight") /\ UNCHANGED hw
       ELSE Goto("psd_wait") /\ hw' = [hw EXCEPT !.req[ane.slot] = "P0"]
    /\ UNCHANGED <<cfg, ane, held, k, wire, note>>

Bug_Acked(i) == [ane EXCEPT !.slot = @ + 1]
Acked(i) == [ane EXCEPT !.psd_on = @ \cup {i}, !.slot = @ + 1]
psd_acked ==
    /\ pc = "psd_wait" /\ hw.psd[ane.slot] = "P0"
    /\ ane' = Acked(ane.slot) /\ Goto("psd_up")
    /\ note' = [note EXCEPT !.acked = @ \cup {ane.slot}]
    /\ UNCHANGED <<cfg, held, k, wire, hw>>

psd_not_acked ==
    /\ pc = "psd_wait" /\ Goto("psd_off") /\ ane' = [ane EXCEPT !.ret = "err"]
    /\ UNCHANGED <<cfg, held, k, wire, hw, note>>

\* ane_h18_psd_off(): newest first; a slot that does not acknowledge is
\* counted and forgotten, and only stage=power makes that a failure.
ane_h18_psd_off ==
    /\ pc = "psd_off"
    /\ IF On("kpsd")
       THEN /\ Goto("exit") /\ ane' = [ane EXCEPT !.rpm = FALSE]
            /\ hw' = IF ane.rpm THEN [hw EXCEPT !.psd = [i \in Slots |-> "P6"], !.req = [i \in Slots |-> "P6"]]
                     ELSE hw
       ELSE IF ane.psd_on = {} THEN Goto("exit") /\ UNCHANGED <<ane, hw>>
       ELSE LET i == CHOOSE i \in ane.psd_on : \A j \in ane.psd_on : j =< i IN
            \E acked \in BOOLEAN :
                /\ hw' = [hw EXCEPT !.req[i] = "P6", !.psd[i] = IF acked THEN "P6" ELSE @]
                /\ ane' = [ane EXCEPT !.psd_on = @ \ {i},
                              !.ret = IF cfg.stage = "power" /\ ~acked THEN "err" ELSE @]
                /\ UNCHANGED pc
    /\ UNCHANGED <<cfg, held, k, wire, note>>

pmgr_acts ==
    /\ \E i \in Slots : hw.psd[i] # hw.req[i] /\ hw' = [hw EXCEPT !.psd[i] = hw.req[i]]
    /\ UNCHANGED <<pc, cfg, ane, held, k, wire, note>>

(***************************************************************************)
(* stage=power reads and gives the power back; stage=boot goes on only if  *)
(* the core is as iBoot leaves it.                                         *)
(***************************************************************************)
ane_h18_stage_power ==
    /\ pc = "preflight" /\ cfg.stage = "power" /\ Touch
    /\ \E r \in {"ok", "err"} : ane' = [ane EXCEPT !.ret = r]
    /\ Goto(IF On("keep_on") THEN "exit" ELSE "psd_off")
    /\ UNCHANGED <<cfg, held, k, wire, hw>>

Bug_AsIbootLeft == hw.rvbar
AsIbootLeft == hw.core = "stopped" /\ ~hw.run /\ hw.rvbar

preflight ==
    /\ pc = "preflight" /\ cfg.stage = "boot" /\ Touch
    /\ \/ /\ AsIbootLeft
          /\ Goto(IF On("map_fw") THEN "map" ELSE "start") /\ UNCHANGED ane
       \/ Goto("psd_off") /\ ane' = [ane EXCEPT !.ret = "err"]   \* also a refused read
    /\ UNCHANGED <<cfg, held, k, wire, hw>>

\* unmap_firmware(n): n segments, then the domain if it is our own.
Unmapped(h, n) == (h \ {<<"seg0", "seg1">>[i] : i \in 1..n}) \ {"domain"}

\* The handshake needs the default DMA domain; otherwise a new one is
\* attached.  Segment i failing unmaps the i mapped before it; the DART
\* read that follows may be refused with both mapped.  What an earlier load
\* left behind a running core is in the way, unless it is in another domain.
ane_h18_map_firmware ==
    /\ pc = "map"
    /\ LET own == IF On("handshake") THEN {} ELSE {"domain"}
           free == note.left \cap Segs = {} \/ ("domain" \notin note.left /\ ~On("handshake"))
       IN
       \/ /\ free /\ Goto("start") /\ held' = held \cup own \cup Segs
          /\ ane' = [ane EXCEPT !.dom = IF own = {} THEN "default" ELSE "own"]
       \/ \E i \in IF free THEN 0..2 ELSE {0} :
            /\ held' = Unmapped(held \cup own \cup {<<"seg0", "seg1">>[j] : j \in 1..i}, i)
            /\ Goto("psd_off") /\ ane' = [ane EXCEPT !.ret = "err"]
    /\ UNCHANGED <<cfg, k, wire, hw, note>>

Given == held
start_core ==
    /\ pc = "start"
    /\ hw' = [hw EXCEPT !.run = TRUE, !.boot = TRUE]
    /\ ane' = [ane EXCEPT !.started = TRUE] /\ Goto("session")
    /\ note' = [ReadScratch(note) EXCEPT !.given = Given,
                   !.blind = @ \/ \E i \in Need : hw.psd[i] # "P0"]
    /\ UNCHANGED <<cfg, held, k, wire>>

(***************************************************************************)
(* RTKit.  A message is accepted (stored now, or queued behind the others) *)
(* or refused past the cap or with the queue full.  x is the session with  *)
(* the transmit slot: [s (k), tx, got, order].                             *)
(***************************************************************************)
X == [s |-> k, tx |-> hw.tx, got |-> wire, order |-> note.order, ok |-> TRUE]
Stored(x, m, n) ==
    [x EXCEPT !.tx = FALSE, !.got = @ \cup {m}, !.s.last = n, !.order = @ /\ n = x.s.last + 1]

Bug_Overtakes(x) == x.tx
StoreNow(x) == x.tx /\ x.s.q = <<>>

ane_h18_rtkit_send(x, m) ==
    LET n == x.s.n + 1
        counted == [x EXCEPT !.s.n = n, !.s.sent = @ + 1, !.ok = TRUE]
    IN IF ~x.ok \/ x.s.sent >= MaxSend THEN [x EXCEPT !.ok = FALSE]
       ELSE IF StoreNow(x) THEN Stored(counted, m, n)
       ELSE IF Len(x.s.q) = MaxQ THEN [x EXCEPT !.ok = FALSE]
       ELSE [counted EXCEPT !.s.q = Append(@, <<m, n>>)]

\* With one slot at most one queued message leaves per poll.
ane_h18_rtkit_flush(x) ==
    IF x.tx /\ x.s.q # <<>>
    THEN [Stored(x, Head(x.s.q)[1], Head(x.s.q)[2]) EXCEPT !.s.q = Tail(@)] ELSE x

EpMap(s, m) == [s EXCEPT !.eps = @ \cup (IF m = "EPMAP" THEN {"app"} ELSE {"sys", "app"})]

\* One message of endpoint 0, after the flush.
Handled(x, m) ==
    LET s == x.s IN
    CASE m = "HELLO" -> ane_h18_rtkit_send(x, "HELLO_REPLY")
      [] m = "EPMAP" -> ane_h18_rtkit_send([x EXCEPT !.s = EpMap(s, m)], "EPMAP_REPLY")
      [] m = "EPMAP_LAST" ->
            LET y == ane_h18_rtkit_send([x EXCEPT !.s = EpMap(s, m)], "EPMAP_REPLY")
            IN IF On("start") THEN ane_h18_rtkit_send(y, "START_SYS") ELSE y
      [] m = "IOP_ON" /\ On("start") /\ ~s.ap_sent ->
            LET y == ane_h18_rtkit_send(x, "AP_ON") IN [y EXCEPT !.s.ap_sent = y.ok]
      [] m = "IOP_DOWN" /\ s.shutdown -> [x EXCEPT !.s.iop_acked = TRUE]
      [] m = "AP_DOWN" /\ s.shutdown ->
            ane_h18_rtkit_send([x EXCEPT !.s.ap_acked = TRUE], "IOP_DOWN")
      [] m = "AP_ON" /\ On("start") /\ ~s.shutdown /\ ~s.app_started ->
            LET y == [x EXCEPT !.s.ap_on = TRUE, !.s.app_started = TRUE]
            IN IF "app" \in s.eps THEN ane_h18_rtkit_send(y, "START_APP") ELSE y
      [] m = "IOP_IDLE" /\ s.shutdown -> [x EXCEPT !.s.iop_idle = TRUE]
      [] OTHER -> x    \* a bad version, another type: no reply

Apply(x) ==
    /\ k' = x.s /\ wire' = x.got /\ note' = [note EXCEPT !.order = x.order]

\* A poll: flush, then at most one message.
ane_h18_rtkit_step ==
    /\ pc \in {"session", "hs_wait", "drain", "shutdown"} /\ On("alias")
    /\ LET x == ane_h18_rtkit_flush(X)
           y == IF hw.box \in {"empty", "OTHER"} \/ ~On("hello") THEN x ELSE Handled(x, hw.box)
       IN /\ Apply(y) /\ hw' = [hw EXCEPT !.tx = y.tx, !.box = "empty"]
          /\ y # X \/ hw.box # "empty"
    /\ UNCHANGED <<pc, cfg, ane, held>>

Verdict(s, r) ==
    IF \/ r = "err"
       \/ On("stop") /\ ~(s.ap_on /\ s.ap_acked /\ s.iop_acked)
       \/ On("handshake") /\ s.hs # "ok"
    THEN "err" ELSE "ok"

\* The session is over: what is left of it is the verdict.
ToStop(s, r) ==
    /\ Goto("stop") /\ ane' = [ane EXCEPT !.ret = Verdict(s, r)]
    /\ k' = NoSession /\ wire' = {}

\* The boot_wait_ms are over (or a read was refused).
session_over ==
    /\ pc = "session"
    /\ \E r \in {"ok", "err"} :
        LET s == IF On("handshake") /\ ~k.ap_on THEN [k EXCEPT !.hs = "err"] ELSE k IN
        IF k.ap_on /\ (On("handshake") \/ On("stop"))
        THEN /\ Goto(IF On("handshake") THEN "hs" ELSE "drain")
             /\ ane' = [ane EXCEPT !.ret = r] /\ UNCHANGED <<k, wire>>
        ELSE ToStop(s, r)
    /\ note' = ReadScratch(note)
    /\ UNCHANGED <<cfg, held, hw>>

\* Queued boot messages go out first, if the firmware takes them in time; the
\* shutdown then has a budget of its own.
begin_shutdown ==
    /\ pc = "drain"
    /\ LET x == ane_h18_rtkit_send([X EXCEPT !.s.sent = 0, !.s.shutdown = TRUE], "AP_DOWN")
       IN /\ hw' = [hw EXCEPT !.tx = x.tx]
          /\ IF x.ok THEN Goto("shutdown") /\ Apply(x) /\ UNCHANGED ane
             ELSE ToStop(x.s, ane.ret) /\ UNCHANGED note
    /\ UNCHANGED <<cfg, held>>

\* Both acknowledges or the idle word came, or the time is over.
shutdown_over ==
    /\ pc = "shutdown" /\ ToStop(k, ane.ret)
    /\ UNCHANGED <<cfg, held, hw, note>>

(***************************************************************************)
(* The SCRATCH handshake and the channel step.                             *)
(***************************************************************************)
HsOver(r) == k' = [k EXCEPT !.hs = r, !.cmd = "none"] /\ Goto("drain")

\* Surfaces are allocated before anything is published: a failure frees them.
ane_h18_handshake ==
    /\ pc = "hs"
    /\ \/ HsOver("err") /\ UNCHANGED <<held, hw, note>>    \* not READY, too much asked, no memory
       \/ /\ hw.s7 = "READY" /\ Goto("hs_wait") /\ UNCHANGED k
          /\ held' = held \cup Surfaces
          /\ note' = [note EXCEPT !.given = @ \cup Surfaces]
          /\ hw' = [hw EXCEPT !.addr = "blk", !.s7 = "WAKE"]
    /\ UNCHANGED <<cfg, ane, wire>>

\* The answer is judged by the address: READY alone may be an old one.
Answered == hw.addr # "blk" /\ hw.s7 = "READY"

hs_answered ==
    /\ pc = "hs_wait" /\ Answered
    /\ IF ~On("hs_chan") THEN HsOver("ok")
       ELSE IF hw.addr = "alien" THEN HsOver("err")
       ELSE Goto("chan") /\ UNCHANGED k
    /\ UNCHANGED <<cfg, ane, held, wire, hw, note>>

hs_timeout ==
    /\ pc = "hs_wait" /\ HsOver("timeout")
    /\ UNCHANGED <<cfg, ane, held, wire, hw, note>>

\* Every entry and every overlap is checked before the first write.
Bug_TableOK(t) == t \in {"tab", "badtab"}
TableOK(t) == t = "tab"
ane_h18_chan_step ==
    /\ pc = "chan"
    /\ IF TableOK(hw.addr)
       THEN hw' = [hw EXCEPT !.s3 = "READY", !.slot = "host"] /\ Goto("chan_wait") /\ UNCHANGED k
       ELSE HsOver("err") /\ UNCHANGED hw
    /\ UNCHANGED <<cfg, ane, held, wire, note>>

chan_ready ==
    /\ pc = "chan_wait"
    /\ \/ HsOver("err")
       \/ hw.s3 = "0" /\ (IF On("hs_cmds") THEN Goto("cmd") /\ k' = [k EXCEPT !.cmd = "PRINT"]
                          ELSE HsOver("ok"))
    /\ UNCHANGED <<cfg, ane, held, wire, hw, note>>

(***************************************************************************)
(* Commands, one at a time: the set-up sequence, then the program.         *)
(***************************************************************************)
\* Which command follows c; DYN only after a PMU base the firmware took.  PROP1
\* and PROP2 stand for the property writes before and after RESOURCE (with the
\* cache-size read and the default setting, which are refused the same way).
FirstProg == IF ~On("hs_prog") THEN "none" ELSE IF On("premap") THEN "PREMAP" ELSE "LOAD"
Follows(c, s) ==
    CASE c = "PRINT"  -> IF On("hs_start") THEN "START" ELSE "CONFIG"
      [] c = "START"  -> IF On("hs_pmu") THEN "PMU" ELSE "CONFIG"
      [] c = "PMU"    -> IF s.pmu /\ On("hs_dyn") THEN "DYN" ELSE "CONFIG"
      [] c = "DYN"    -> "CONFIG"
      [] c = "CONFIG" -> IF ~On("hs_start") THEN FirstProg
                         ELSE IF On("hs_props") THEN "PROP1" ELSE "RESOURCE"
      [] c = "PROP1"  -> "RESOURCE"
      [] c = "RESOURCE" -> IF On("hs_props") THEN "PROP2" ELSE FirstProg
      [] c = "PROP2"  -> FirstProg
      [] c = "PREMAP" -> "LOAD"
      [] c = "LOAD"   -> "CREATE"
      [] c = "CREATE" -> "CALL"
      [] c = "CALL"   -> "TERMINATE"
      [] c = "TERMINATE" -> "DESTROY"
      [] OTHER -> "none"
Tolerated == {"PMU", "DYN", "PROP1", "PROP2", "PREMAP"}     \* a refusal of these is logged only
Program == {"LOAD", "CREATE", "CALL", "TERMINATE", "DESTROY"}

\* The buffers of the program are made before its first command; those made
\* before a failed allocation stay until the core has stopped.
prog_buffers ==
    /\ pc = "cmd" /\ k.cmd \in {"PREMAP", "LOAD"} /\ ~(ProgBufs \subseteq held)
    /\ \E got \in {{}, {"sections"}, ProgBufs} :
        /\ held' = held \cup got
        /\ IF got = ProgBufs THEN UNCHANGED <<pc, k>> ELSE HsOver("err")
    /\ UNCHANGED <<cfg, ane, wire, hw, note>>

\* cmd_body(): the slot must be the host's; then slot, doorbell, wait.
Bug_SlotFree == TRUE
SlotFree == hw.slot # "fw"
ane_h18_cmd_body ==
    /\ pc = "cmd" /\ k.cmd \notin {"none"}
    /\ (k.cmd \in {"PREMAP", "LOAD"} => ProgBufs \subseteq held)
    /\ IF SlotFree
       THEN /\ hw' = [hw EXCEPT !.slot = "fw"] /\ Goto("cmd_wait")
            /\ note' = [note EXCEPT !.lost = @ \/ hw.slot = "fw",
                            !.given = IF k.cmd \in {"PREMAP", "LOAD"} THEN @ \cup ProgBufs ELSE @]
            /\ UNCHANGED k
       ELSE HsOver("err") /\ UNCHANGED <<hw, note>>
    /\ UNCHANGED <<cfg, ane, held, wire>>

\* After a program command failed: a time-out sends nothing more; otherwise a
\* created process is terminated and a loaded program destroyed, the reply
\* to the terminate being ignored.
Unload(s, r) ==
    CASE r = "timeout" -> [s EXCEPT !.hs = "err", !.cmd = "none"]
      [] r # "timeout" /\ s.created -> [s EXCEPT !.perr = TRUE, !.cmd = "TERMINATE"]
      [] r # "timeout" /\ ~s.created /\ s.loaded -> [s EXCEPT !.perr = TRUE, !.cmd = "DESTROY"]
      [] OTHER -> [s EXCEPT !.hs = "err", !.cmd = "none"]

\* The session after the reply r to s.cmd.
Replied(s, r) ==
    LET c == s.cmd
        t == CASE c = "PMU" -> [s EXCEPT !.pmu = (r = "done")]
               [] c = "LOAD" -> [s EXCEPT !.loaded = (r = "done")]
               [] c = "CREATE" -> [s EXCEPT !.created = (r = "done")]
               [] c = "TERMINATE" -> [s EXCEPT !.created = FALSE]
               [] c = "DESTROY" -> [s EXCEPT !.loaded = FALSE]
               [] OTHER -> s
    IN IF c = "TERMINATE" /\ (r = "done" \/ s.perr)
       THEN [t EXCEPT !.cmd = IF t.loaded THEN "DESTROY" ELSE "none"]
       ELSE IF c = "DESTROY" \/ c = "TERMINATE"
       THEN [t EXCEPT !.cmd = "none", !.hs = IF r = "done" /\ ~s.perr THEN "ok" ELSE "err"]
       ELSE IF r = "done" \/ (r = "refused" /\ c \in Tolerated)
       THEN [t EXCEPT !.cmd = Follows(c, t)]
       ELSE IF c \in Program THEN Unload(s, r)
       ELSE [t EXCEPT !.cmd = "none", !.hs = "err"]

After(s) == k' = s /\ Goto(IF s.cmd = "none" THEN "drain" ELSE "cmd")

cmd_answered ==
    /\ pc = "cmd_wait" /\ hw.slot # "fw"
    /\ IF k.cmd = "CALL" /\ hw.slot = "done" THEN Goto("finish") /\ UNCHANGED k
       ELSE After(Replied(k, hw.slot))
    /\ hw' = [hw EXCEPT !.slot = "host"]
    /\ UNCHANGED <<cfg, ane, held, wire, note>>

cmd_timeout ==
    /\ pc = "cmd_wait" /\ After(Replied(k, "timeout"))
    /\ UNCHANGED <<cfg, ane, held, wire, hw, note>>

\* The finish event on IO_T2H, or none within hs_wait_ms.
prog_finished ==
    /\ pc = "finish" /\ \E r \in {"done", "timeout"} : After(Replied(k, r))
    /\ UNCHANGED <<cfg, ane, held, wire, hw, note>>

(***************************************************************************)
(* Stop, and what depends on it.                                           *)
(***************************************************************************)
stop_core ==
    /\ pc = "stop" /\ Goto("stopping") /\ hw' = [hw EXCEPT !.run = FALSE, !.box = "empty", !.tx = TRUE]
    /\ UNCHANGED <<cfg, ane, held, k, wire, note>>

\* hs_free(), unmap_firmware(), psd_off() unless keep_on.
Freed(h) == h \ (Surfaces \cup ProgBufs \cup {"blob"})
Bug_core_stopped == pc = "stopping"
CoreStopped == pc = "stopping" /\ hw.core = "stopped"

core_stopped ==
    /\ CoreStopped
    /\ held' = Unmapped(Freed(held), 2) /\ ane' = [ane EXCEPT !.started = FALSE, !.dom = "none"]
    /\ note' = [note EXCEPT !.given = IF hw.core = "stopped" THEN {} ELSE @]
    /\ hw' = [hw EXCEPT !.s7 = "other", !.addr = "req", !.s3 = "req", !.slot = "host", !.boot = FALSE]
    /\ Goto(IF On("keep_on") THEN "exit" ELSE "psd_off")
    /\ UNCHANGED <<cfg, k, wire>>

\* Reported as a failure of probe(), with everything left as it is.
core_not_stopped ==
    /\ pc = "stopping" /\ Goto("exit") /\ ane' = [ane EXCEPT !.ret = "err"]
    /\ UNCHANGED <<cfg, held, k, wire, hw, note>>

\* The device goes: its windows and the file are released, or, behind a core
\* that may still run, everything is left with nobody to release it.
Leave ==
    /\ ane' = Fresh
    /\ held' = IF ane.started THEN {} ELSE held \ (Asc \cup {"blob"})
    /\ note' = [note EXCEPT !.left = IF ane.started THEN @ \cup held ELSE @,
                            !.acked = IF On("keep_on") THEN {} ELSE @]

probe_exit ==
    /\ pc = "exit" /\ cfg' = Idle
    /\ IF ane.ret = "ok"
       THEN /\ Goto("bound") /\ UNCHANGED <<held, ane>>
            /\ note' = IF On("keep_on") THEN [note EXCEPT !.acked = {}] ELSE note
       ELSE Goto("unbound") /\ Leave
    /\ UNCHANGED <<k, wire, hw>>

ane_h18_remove ==
    /\ pc = "bound" /\ Goto("unbound") /\ Leave
    /\ UNCHANGED <<cfg, k, wire, hw>>

(***************************************************************************)
(* The core and its firmware.                                              *)
(***************************************************************************)
Fw == UNCHANGED <<pc, cfg, ane, held, k, wire, note>>
Running == hw.core = "running" /\ note.given # {}

fw_core ==
    /\ note.given # {} /\ hw' = [hw EXCEPT !.core = IF hw.run THEN "running" ELSE "stopped"]
    /\ hw' # hw /\ Fw
fw_take == Running /\ ~hw.tx /\ hw' = [hw EXCEPT !.tx = TRUE] /\ Fw
\* Bound: with a handshake the firmware posts only what is due, else anything.
Due(m) ==
    CASE m = "EPMAP_LAST" -> k.eps = {}
      [] m = "IOP_ON" -> ~k.ap_sent
      [] m = "AP_ON" -> ~k.ap_on
      [] m = "AP_DOWN" -> ~k.ap_acked
      [] m = "IOP_DOWN" -> ~k.iop_acked
      [] OTHER -> FALSE
fw_post ==
    /\ Running /\ ~hw.boot /\ hw.box = "empty" /\ On("hello")
    /\ pc \in {"session", "hs_wait", "drain", "shutdown"}
    /\ \E m \in {"HELLO", "EPMAP", "EPMAP_LAST", "IOP_ON", "OTHER"}
             \cup (IF k.shutdown THEN {"IOP_IDLE"} ELSE {})
             \cup (wire \cap {"AP_ON", "AP_DOWN", "IOP_DOWN"}) :
        /\ (m \in {"HELLO", "OTHER"} => k.n = 0) /\ (On("handshake") => Due(m))
        /\ hw' = [hw EXCEPT !.box = m]
    /\ Fw
fw_ready == Running /\ hw.boot /\ hw' = [hw EXCEPT !.s7 = "READY", !.boot = FALSE] /\ Fw
fw_publish ==
    /\ Running /\ pc = "hs_wait"
    /\ \/ hw.addr = "blk" /\ \E t \in {"tab", "badtab", "alien"} : hw' = [hw EXCEPT !.addr = t]
       \/ hw.addr # "blk" /\ hw.s7 = "WAKE" /\ hw' = [hw EXCEPT !.s7 = "READY"]
    /\ Fw
fw_s3 == Running /\ hw.s3 = "READY" /\ hw' = [hw EXCEPT !.s3 = "0"] /\ Fw
fw_answer ==
    /\ Running /\ hw.slot = "fw" /\ \E r \in {"done", "refused", "bad"} : hw' = [hw EXCEPT !.slot = r]
    /\ Fw

Firmware == fw_core \/ fw_take \/ fw_post \/ fw_ready \/ fw_publish \/ fw_s3 \/ fw_answer \/ pmgr_acts

Advance ==
    \/ stage_refuse \/ psd_up_rpm \/ ane_h18_psd_up \/ psd_acked \/ psd_not_acked
    \/ ane_h18_psd_off \/ ane_h18_stage_power \/ preflight \/ ane_h18_map_firmware
    \/ start_core \/ session_over \/ begin_shutdown \/ shutdown_over
    \/ ane_h18_handshake \/ hs_answered \/ hs_timeout \/ ane_h18_chan_step \/ chan_ready
    \/ prog_buffers \/ ane_h18_cmd_body \/ cmd_answered \/ cmd_timeout \/ prog_finished
    \/ stop_core \/ core_stopped \/ core_not_stopped \/ probe_exit

Next == ane_h18_probe \/ Advance \/ ane_h18_rtkit_step \/ ane_h18_remove \/ Firmware

Spec == Init /\ [][Next]_vars

(***************************************************************************)
(* Properties.                                                             *)
(***************************************************************************)

\* When no driver is bound, every window, mapping, surface, program buffer and
\* file is released or was left to a core that did not stop in time, and every
\* power slot that acknowledged its request was asked back (unless keep_on, or
\* such a core was left).
Unwound ==
    pc = "unbound" =>
        /\ held = {}
        /\ note.left = {} => \A i \in note.acked : hw.req[i] = "P6"

\* While the core may run, the segments, surfaces and buffers it was given
\* stay mapped and allocated, also when probe() has failed meanwhile.
CoreKeepsMemory ==
    note.given \subseteq held \cup note.left

\* The engine is accessed only with its window mapped and with the slots it
\* needs powered and acknowledged - but the SCRATCH page, which needs both, is
\* also read with the second one off when a load asks for one slot only.
NoBlindMmio == ~note.blind /\ note.dim \subseteq {{}}

\* RUN is set only on a stopped core with RUN clear and IORVBAR as iBoot left
\* it, with both segments mapped if the run maps them.
RunAfterPreflight ==
    hw'.run /\ ~hw.run =>
        /\ hw.core = "stopped" /\ hw.rvbar
        /\ On("map_fw") => Segs \subseteq held

\* The firmware receives the messages in the order they were accepted, the
\* application endpoints are started only after AP power was acknowledged,
\* the IOP is told to go down only after the AP state was, and each phase
\* keeps its budget and the queue its size.
RtkOrder ==
    /\ note.order
    /\ "START_APP" \in wire => k.ap_on
    /\ "IOP_DOWN" \in wire => k.ap_acked
    /\ k.sent =< MaxSend /\ Len(k.q) =< MaxQ

\* SCRATCH3 tells the firmware to go on only with its published table, checked
\* as a whole, and the handshake is taken for answered only by an address.
TableChecked == hw'.s3 = "READY" /\ hw.s3 # "READY" => hw.addr = "tab"

\* A command never overwrites a slot the firmware still owns: not even after
\* a time-out whose answer is late.
CommandKept == ~note.lost
====
