------------------------------- MODULE AneH16 -------------------------------
(***************************************************************************)
(* ane_h16.ko, the bring-up module for the M4 (H16) engine:                *)
(* ane/h16/ane_h16_main.c.  Stage 0 prints the device tree, stage 1 powers *)
(* up and reads, stage 3 stages a copy of the preloaded firmware, maps it  *)
(* page by page at the addresses the boot ADT gives, releases the core and *)
(* answers its RTKit management messages.  Once the core was released the  *)
(* driver never takes anything back: only a reboot parks it.               *)
(*                                                                         *)
(* Abstractions.  The staged image is NPages pages, the first half TEXT,   *)
(* the second half DATA; a page of the IOMMU domain is unmapped, maps the  *)
(* staged image or maps someone else's memory.  The ADT walk is a module   *)
(* of its own (AneAdt); here it finds the segments or not.  The comparison *)
(* of image and preload either passes or refuses.  A wait loop is a state  *)
(* left when the awaited fact holds or, at any time, by its time-out.      *)
(***************************************************************************)
LOCAL INSTANCE Integers
LOCAL INSTANCE FiniteSets

CONSTANTS
    Configs,    \* the module parameters tried: [stage, on (set of switches)]
    MaxPds,     \* power-domains entries of a multi_pd device-tree node
    NPages,     \* 16 KiB pages of the staged image, an even number
    MaxMsg,     \* bound: messages the firmware sends in one boot
    MaxDepth    \* bound: nested pm_runtime_disable() calls

VARIABLES
    pc,     \* where probe() is; "unbound" and "bound" are outside it
    cfg,    \* the parameters of this load
    ane,    \* struct ane_h16
    held,   \* what is acquired and not released
    pm,     \* runtime PM of the device: [depth, usage, on]; outlives a bind
    wire,   \* the kinds of message the firmware has received
    hw,     \* the core, its mailbox and the page table of its DART
    note    \* history: [blind, again (a bind began with the core running)]

vars == <<pc, cfg, ane, held, pm, wire, hw, note>>

On(f) == f \in cfg.on
Windows == {"engine", "pmgr"}
Pages == 1..NPages
Segment(s) == IF s = 0 THEN 1..(NPages \div 2) ELSE (NPages \div 2 + 1)..NPages
Pd(n) == { <<"pd0", "pd1", "pd2">>[i] : i \in 1..n }
Link(n) == { <<"link0", "link1", "link2">>[i] : i \in 1..n }

Idle == [stage |-> 0, on |-> {}]
Fresh == [ret |-> "ok", pds |-> 0, domain |-> FALSE, page |-> 0, gate |-> FALSE,
          touched |-> FALSE, started |-> FALSE, hello |-> FALSE]

\* The reset vector may be latched by iBoot; at most one page is in use.
Init ==
    /\ pc = "unbound" /\ cfg = Idle /\ ane = Fresh
    /\ held = {} /\ pm = [depth |-> 1, usage |-> 0, on |-> FALSE] /\ wire = {}
    /\ \E other \in {{}} \cup {{i} : i \in Pages}, v \in {"clear", "entry", "elsewhere"} :
        hw = [run |-> FALSE, awake |-> FALSE, rvbar |-> v, box |-> "empty", left |-> 0,
              map |-> [i \in Pages |-> IF i \in other THEN "other" ELSE "none"]]
    /\ note = [blind |-> FALSE, again |-> FALSE]

\* Enabling an enabled device only warns.
PmEnable(p) == [p EXCEPT !.depth = IF @ > 0 THEN @ - 1 ELSE 0]
PmDisable(p) == [p EXCEPT !.depth = @ + 1]
PmGet(p, ok) == [p EXCEPT !.usage = @ + 1, !.on = @ \/ ok]
PmPut(p) == [p EXCEPT !.usage = @ - 1, !.on = @ /\ ~(p.usage = 1 /\ p.depth = 0)]
PmResults(p) == IF p.depth > 0 THEN {"acces"} ELSE {"ok", "err"}

Goto(p) == pc' = p
Return(p) == pc' = p /\ cfg' = Idle
Touch(a) == note' = [note EXCEPT !.blind =
                        @ \/ ~(a.gate /\ pm.on /\ "engine" \in held)]
Detached(h, a) == h \ (Pd(a.pds) \cup Link(a.pds))

(***************************************************************************)
(* probe() up to the power gate.                                           *)
(***************************************************************************)
Refused(c) == ({"optin", "ane_type"} \ c.on # {}) \/ c.stage \notin {0, 1, 3}

\* Stage 0 only prints: no window, no domain, no runtime PM.
ane_h16_probe ==
    /\ pc = "unbound" /\ (hw.run => ~note.again)   \* bound: one reload
    /\ \E c \in Configs, r \in {"ok", "err"} :
        /\ ane' = Fresh /\ wire' = {}
        /\ IF Refused(c) \/ r = "err" \/ (c.stage # 0 /\ "confirm_read" \notin c.on)
           THEN Goto("unbound") /\ UNCHANGED cfg
           ELSE IF c.stage = 0 THEN Goto("bound") /\ UNCHANGED cfg
                ELSE Goto("pds") /\ cfg' = c
    /\ note' = [note EXCEPT !.again = @ \/ hw.run]
    /\ UNCHANGED <<held, pm, hw>>

\* pd_count counts a domain before its link is added.
Bug_PdCount(got, linked) == linked
PdCount(got, linked) == got

\* Several domains: attach and link each; a failure detaches those counted.
ane_h16_attach_pds ==
    /\ pc = "pds"
    /\ \E got, linked \in 0..MaxPds :
        /\ linked \in {got, got - 1}
        /\ LET a == [ane EXCEPT !.pds = PdCount(got, linked)]
               h == held \cup Pd(got) \cup Link(linked)
           IN IF ~On("multi_pd") THEN Goto("windows") /\ UNCHANGED <<cfg, held, ane, pm>>
              ELSE IF linked = MaxPds
              THEN /\ Goto("windows") /\ held' = h /\ ane' = a /\ UNCHANGED cfg
                   /\ pm' = [pm EXCEPT !.on = TRUE]
              ELSE Return("unbound") /\ held' = Detached(h, a) /\ ane' = Fresh /\ UNCHANGED pm
    /\ UNCHANGED <<wire, hw, note>>

ane_h16_map ==
    /\ pc = "windows"
    /\ \E got \in SUBSET Windows :
        IF got = Windows
        THEN Goto("rpm") /\ held' = held \cup got /\ UNCHANGED <<cfg, ane, pm>>
        ELSE /\ Return("unbound") /\ held' = Detached(held, ane) /\ ane' = Fresh
             /\ pm' = [pm EXCEPT !.on = @ /\ ane.pds = 0]
    /\ UNCHANGED <<wire, hw, note>>

\* -EACCES is let through when the domain links have powered the engine.
power_up ==
    /\ pc = "rpm"
    /\ LET p == PmEnable(pm) IN \E r \in PmResults(p) :
        IF r = "ok" \/ (r = "acces" /\ ane.pds > 0)
        THEN Goto("gate") /\ pm' = PmGet(p, r = "ok") /\ UNCHANGED <<cfg, held, ane>>
        ELSE /\ Return("unbound") /\ ane' = Fresh
             /\ pm' = [PmDisable(p) EXCEPT !.on = FALSE]
             /\ held' = Detached(held, ane) \ Windows
    /\ UNCHANGED <<wire, hw, note>>

Bug_ps_on(v) == v # 0
ane_h16_ps_on(v) == v = 15

\* Each word is polled to 0xf and then all are read again: a domain that
\* dropped meanwhile refuses.  Then the register reads of ane_h16_status().
ane_h16_ps_wait ==
    /\ pc = "gate"
    /\ \E first, again \in IF pm.on THEN {4, 15} ELSE {0} :
        LET pass == ane_h16_ps_on(first) /\ ane_h16_ps_on(again)
            a == [ane EXCEPT !.gate = (first = 15 /\ again = 15)]
        IN IF ~pass THEN Goto("off") /\ ane' = [a EXCEPT !.ret = "err"] /\ UNCHANGED note
           ELSE Goto(IF cfg.stage = 3 THEN "boot" ELSE "off") /\ ane' = a /\ Touch(a)
    /\ UNCHANGED <<cfg, held, pm, wire, hw>>

(***************************************************************************)
(* boot: segments, pinned file, staged copy.                               *)
(***************************************************************************)
\* The ADT region is mapped by the device's resource list, which ends a
\* failed bind; the firmware file is the caller's from here on.
ane_h16_fw_pin ==
    /\ pc = "boot"
    /\ \E adt, pin \in {"ok", "err"} :
        IF adt = "ok" /\ pin = "ok"
        THEN Goto("stage") /\ held' = held \cup {"file"} /\ UNCHANGED ane
        ELSE Goto("off") /\ ane' = [ane EXCEPT !.ret = "err"] /\ UNCHANGED held
    /\ UNCHANGED <<cfg, pm, wire, hw, note>>

\* A word that differs is copied if it is one iBoot patches, else refuses.
ane_h16_stage ==
    /\ pc = "stage"
    /\ \E r \in {"ok", "nomem", "preload"} :
        /\ held' = IF r = "nomem" THEN held ELSE held \cup {"stage_cpu"}
        /\ IF r = "ok" THEN Goto("map") /\ UNCHANGED ane
           ELSE Goto("free") /\ ane' = [ane EXCEPT !.ret = "err"]
    /\ UNCHANGED <<cfg, pm, wire, hw, note>>

(***************************************************************************)
(* The mapping, one page at a time, and its undoing.                       *)
(***************************************************************************)
ane_h16_map_stage_begin ==
    /\ pc = "map" /\ ane.page = 0
    /\ \E dom \in BOOLEAN, aligned \in BOOLEAN :
        /\ ane' = [ane EXCEPT !.domain = dom, !.page = 1,
                              !.ret = IF dom /\ aligned THEN @ ELSE "err"]
        /\ Goto(IF dom /\ aligned THEN "map" ELSE "unmap")
    /\ UNCHANGED <<cfg, held, pm, wire, hw, note>>

Bug_Aliases(i) == FALSE
Aliases(i) == hw.map[i] # "none"

ane_h16_map_stage ==
    /\ pc = "map" /\ ane.page > 0
    /\ LET i == ane.page IN
       \/ i > NPages /\ Goto("rvbar") /\ UNCHANGED <<ane, hw>>
       \/ /\ i =< NPages /\ Goto("unmap")      \* already mapped, or iommu_map() failed
          /\ ane' = [ane EXCEPT !.ret = "err"] /\ UNCHANGED hw
       \/ /\ i =< NPages /\ ~Aliases(i)
          /\ hw' = [hw EXCEPT !.map[i] = "image"]
          /\ ane' = [ane EXCEPT !.page = @ + 1] /\ Goto("map")
    /\ UNCHANGED <<cfg, held, pm, wire, note>>

\* iommu_unmap() of a range removes pages up to the first that is not mapped.
Removed(m, s) ==
    {i \in Segment(s) : \A j \in Segment(s) : j =< i => m[j] # "none"}
ane_h16_unmap_stage ==
    /\ pc = "unmap" /\ Goto("free")
    /\ hw' = IF ~ane.domain THEN hw
             ELSE [hw EXCEPT !.map = [i \in Pages |->
                      IF i \in Removed(@, 0) \cup Removed(@, 1) THEN "none" ELSE @[i]]]
    /\ UNCHANGED <<cfg, ane, held, pm, wire, note>>

free_stage ==
    /\ pc = "free" /\ Goto("off") /\ held' = held \ {"stage_cpu", "file"}
    /\ UNCHANGED <<cfg, ane, pm, wire, hw, note>>

(***************************************************************************)
(* Release, wake word, management messages.                                *)
(***************************************************************************)
Bug_Latched == FALSE
Latched == hw.rvbar = "elsewhere"

release_core ==
    /\ pc = "rvbar" /\ Touch(ane)
    /\ IF Latched
       THEN Goto("unmap") /\ ane' = [ane EXCEPT !.ret = "err"] /\ UNCHANGED hw
       ELSE /\ Goto("wake") /\ ane' = [ane EXCEPT !.touched = TRUE]
            /\ hw' = [hw EXCEPT !.run = TRUE, !.awake = FALSE, !.left = MaxMsg,
                                !.rvbar = IF @ = "clear" THEN "entry" ELSE @]
    /\ UNCHANGED <<cfg, held, pm, wire>>

\* A time-out leaves the mapping and the staged buffer in place.
Bug_wake_timeout ==
    /\ pc = "wake" /\ Goto("unmap") /\ Touch(ane)
    /\ ane' = [ane EXCEPT !.ret = "err"] /\ UNCHANGED <<cfg, held, pm, wire, hw>>
wake_timeout ==
    /\ pc = "wake" /\ Goto("off") /\ Touch(ane)
    /\ ane' = [ane EXCEPT !.ret = "err"] /\ held' = held \ {"file"}
    /\ UNCHANGED <<cfg, pm, wire, hw>>

wake_word ==
    /\ pc = "wake" /\ hw.awake /\ Touch(ane)
    /\ ane' = [ane EXCEPT !.started = TRUE]
    /\ IF On("hello_wait") THEN Goto("rtkit") /\ UNCHANGED held
       ELSE Goto("off") /\ held' = held \ {"file"}
    /\ UNCHANGED <<cfg, pm, wire, hw>>

\* What the driver answers to a management message; a failed send is ignored.
Reply(m) ==
    CASE m = "HELLO"      -> {"HELLO_REPLY"}
      [] m = "EPMAP"      -> {"EPMAP_REPLY"}
      [] m = "EPMAP_LAST" -> {"EPMAP_REPLY", "STARTEP"}
      [] m = "IOP_PWR"    -> {"IOP_ACK"}
      [] m = "REPORT"     -> {"REPORT"}
      [] OTHER            -> {}

\* HELLO counts as received even when its version is refused.
Greeted(m) == ane.hello \/ m \in {"HELLO", "HELLO_NEW"}

ane_h16_rtkit_rx ==
    /\ pc = "rtkit" /\ hw.box # "empty" /\ Touch(ane)
    /\ hw' = [hw EXCEPT !.box = "empty"]
    /\ IF hw.box = "OTHER" THEN Goto("off") /\ held' = held \ {"file"} /\ UNCHANGED <<ane, wire>>
       ELSE /\ ane' = [ane EXCEPT !.hello = Greeted(hw.box)]
            /\ \E lost \in SUBSET Reply(hw.box) : wire' = wire \cup (Reply(hw.box) \ lost)
            /\ UNCHANGED <<pc, held>>
    /\ UNCHANGED <<cfg, pm>>

\* An empty mailbox ends the poll after HELLO, or at the deadline.
ane_h16_rtkit_poll_done ==
    /\ pc = "rtkit" /\ hw.box = "empty" /\ Touch(ane)
    /\ Goto("off") /\ held' = held \ {"file"}
    /\ UNCHANGED <<cfg, ane, pm, wire, hw>>

\* rpm_off: the usage count is dropped on every path; windows and domains go
\* only if the bind failed before the core was released.
rpm_off ==
    /\ pc = "off"
    /\ LET p == PmPut(pm) IN
       IF ane.ret = "ok" THEN Return("bound") /\ pm' = p /\ UNCHANGED <<held, ane>>
       ELSE IF ane.touched THEN Return("unbound") /\ pm' = p /\ UNCHANGED <<held, ane>>
       ELSE /\ Return("unbound") /\ held' = Detached(held, ane) \ Windows /\ ane' = Fresh
            /\ pm' = [PmDisable(p) EXCEPT !.on = @ /\ ane.pds = 0]
    /\ UNCHANGED <<wire, hw, note>>

ane_h16_remove ==
    /\ pc = "bound" /\ pm.depth < MaxDepth /\ Return("unbound")
    /\ IF ane.touched THEN pm' = [pm EXCEPT !.usage = @ + 1] /\ UNCHANGED <<held, ane>>
       ELSE /\ held' = Detached(held, ane) \ Windows /\ ane' = Fresh
            /\ pm' = [PmDisable(pm) EXCEPT !.on = @ /\ ane.pds = 0]
    /\ UNCHANGED <<wire, hw, note>>

(***************************************************************************)
(* The firmware.                                                           *)
(***************************************************************************)
fw_wake == hw.run /\ ~hw.awake /\ hw' = [hw EXCEPT !.awake = TRUE]
           /\ UNCHANGED <<pc, cfg, ane, held, pm, wire, note>>
fw_post ==
    /\ hw.awake /\ hw.box = "empty" /\ hw.left > 0 /\ pc = "rtkit"
    /\ \E m \in {"HELLO", "HELLO_NEW", "EPMAP", "EPMAP_LAST", "IOP_PWR", "REPORT", "OTHER"} :
        hw' = [hw EXCEPT !.box = m, !.left = @ - 1]
    /\ UNCHANGED <<pc, cfg, ane, held, pm, wire, note>>

Advance ==
    \/ ane_h16_attach_pds \/ ane_h16_map \/ power_up \/ ane_h16_ps_wait
    \/ ane_h16_fw_pin \/ ane_h16_stage \/ ane_h16_map_stage_begin \/ ane_h16_map_stage
    \/ ane_h16_unmap_stage \/ free_stage \/ release_core \/ wake_timeout \/ wake_word
    \/ ane_h16_rtkit_rx \/ ane_h16_rtkit_poll_done \/ rpm_off

Next == ane_h16_probe \/ Advance \/ ane_h16_remove \/ fw_wake \/ fw_post

Spec == Init /\ [][Next]_vars

(***************************************************************************)
(* Properties.                                                             *)
(***************************************************************************)

\* When no driver is bound, whichever step of probe() failed, every window,
\* domain, link, buffer and file is released, no page maps the staged image
\* and the usage count is zero - unless the core was released.
Unwound ==
    pc = "unbound" /\ ~ane.touched /\ ~hw.run =>
        /\ held = {} /\ pm.usage = 0
        /\ \A i \in Pages : hw.map[i] # "image"

\* Once the core is released its whole image stays mapped and allocated and
\* the windows stay mapped: after a wake time-out, after a failed handshake,
\* after remove() - until the module is loaded again without the reboot it
\* asks for: the next bind does not know of the core, finds the image in its
\* own way and takes it down.
CoreKeepsMemory ==
    hw.run /\ ~note.again =>
              /\ \A i \in Pages : hw.map[i] = "image"
              /\ {"stage_cpu"} \cup Windows \subseteq held

\* No engine register is accessed unless the window is mapped, the power
\* domains are on and the ACTUAL gate has passed.
NoBlindMmio == ~note.blind

\* The core is released only with every page of the image mapped and the
\* reset vector at its entry.
RunAfterPreflight ==
    hw'.run /\ ~hw.run =>
        hw'.rvbar = "entry" /\ \A i \in Pages : hw.map[i] = "image"

\* A page that someone else has mapped at one of the image's addresses is
\* never replaced ("refusing to alias over it"); but ane_h16_unmap_stage()
\* then unmaps the whole segment, that page included.
OthersKept ==
    \A i \in Pages : hw.map[i] = "other" =>
        \/ hw'.map[i] = "other"
        \/ pc = "unmap" /\ hw'.map[i] = "none"
====
