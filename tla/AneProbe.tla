------------------------------ MODULE AneProbe ------------------------------
(***************************************************************************)
(* Binding and unbinding ane.ko: ane_platform_probe() with its tier gate,  *)
(* power-domain links, windows, boost, DVFS, IOMMU range, runtime PM, DART *)
(* containment, DRM registration and statistics, the unwinding of each     *)
(* failure, and ane_platform_remove().  Source: ane/src/ane_drv.c, with    *)
(* the init and exit functions of ane_boost.c, ane_dvfs.c and ane_dart.c.  *)
(*                                                                         *)
(* Abstractions.  A resource is a name in `held`; the driver core releases *)
(* the devm resources when probe fails or the device is removed.  Clients  *)
(* appear as one that opens the device and maps a buffer as soon as the    *)
(* DRM device is registered.  What a bound driver does is module AneDrv.   *)
(***************************************************************************)
LOCAL INSTANCE Integers
LOCAL INSTANCE Sequences

CONSTANT MaxPds      \* bound: power-domains entries of the node

VARIABLES
    pc,     \* "unbound", a step of probe, a cleanup label, "bound"
    cfg,    \* the node: [compatible, set, forced, pds, stats]
    ane,    \* struct ane_device: [i (loop of attach), wedged]
    held,   \* what is acquired and not released
    pm,     \* runtime PM: [enabled, usage, active]
    note    \* history: [touched, blind, raced]

vars == <<pc, cfg, ane, held, pm, note>>

(***************************************************************************)
(* The tier gate.                                                          *)
(***************************************************************************)
Compatibles == {"t8103", "t6000", "t6020", "t6021"}
Bases == {"none", "23b70c000", "28e08c000", "228e08c000", "guess"}

\* The descriptors' die-0 SET bases.
ps_base(c) == CASE c = "t8103" -> "23b70c000" [] c = "t6020" -> "none" [] OTHER -> "28e08c000"

ane_qual_table ==
    { <<"t8103", "23b70c000", "qualified">>, <<"t6000", "28e08c000", "qualified">>,
      <<"t6000", "228e08c000", "recognized">>, <<"t6021", "28e08c000", "recognized">> }

Bug_ane_qual_for(c, b) ==
    IF c = "t6020" THEN "unsupported" ELSE IF c = "t6021" THEN "recognized" ELSE "qualified"
ane_qual_for(c, b) ==
    IF \E r \in ane_qual_table : r[1] = c /\ r[2] = b
    THEN (CHOOSE r \in ane_qual_table : r[1] = c /\ r[2] = b)[3] ELSE "unsupported"

Base(c) == IF c.set # "none" THEN c.set ELSE ps_base(c.compatible)
Gate(c) ==
    LET q == ane_qual_for(c.compatible, Base(c))
    IN q = "qualified" \/ (q = "recognized" /\ c.forced)

Nodes == [compatible : Compatibles, set : Bases, forced : BOOLEAN, pds : -1..MaxPds, stats : BOOLEAN]
NoNode == [compatible |-> "t8103", set |-> "none", forced |-> FALSE, pds |-> 0, stats |-> FALSE]
Fresh == [i |-> 0, wedged |-> FALSE]

Init ==
    /\ pc = "unbound" /\ cfg = NoNode /\ ane = Fresh /\ held = {}
    /\ pm = [enabled |-> FALSE, usage |-> 0, active |-> FALSE]
    /\ note = [touched |-> {}, blind |-> FALSE, raced |-> FALSE]

\* The steps of probe in order, and the label each one's failure goes to.
After(s) ==
    CASE s = "irq" -> "engine" [] s = "engine" -> "boost" [] s = "boost" -> "dvfs"
      [] s = "dvfs" -> "iommu" [] s = "iommu" -> "resume" [] s = "resume" -> "dart"
      [] s = "dart" -> "register" [] s = "register" -> "stats" [] s = "stats" -> "loaded"
Bug_Label(s) ==
    CASE s \in {"irq", "engine", "boost", "dvfs"} -> "detach_boost"
      [] s \in {"iommu", "resume"} -> "detach_dvfs" [] s = "stats" -> "unregister" [] OTHER -> "put_pm"
Label(s) ==
    CASE s \in {"irq", "engine", "boost", "dvfs"} -> "detach_boost"
      [] s = "iommu" -> "detach_dvfs"
      [] s = "resume" -> "disable_pm"
      [] s \in {"dart", "register"} -> "put_pm"
      [] s = "stats" -> "unregister"

Goto(p) == pc' = p
Pd(i) == <<"pd1", "pd2", "pd3">>[i]
Link(i) == <<"link1", "link2", "link3">>[i]
Devm == {"drm_dev", "engine", "ps", "dart"}

ane_platform_probe ==
    /\ pc = "unbound" /\ ~ane.wedged
    /\ \E c \in Nodes :
        IF Gate(c) THEN Goto("attach") /\ cfg' = c /\ held' = held \cup {"drm_dev"}
        ELSE UNCHANGED <<pc, cfg, held>>
    /\ ane' = Fresh /\ note' = [note EXCEPT !.touched = {}]
    /\ UNCHANGED pm

\* ane_detach_genpd(): all links and devices attached so far, if several.
Detached(h) == h \ ({Pd(i) : i \in 1..MaxPds} \cup {Link(i) : i \in 1..MaxPds})
Failed == Goto("unbound") /\ cfg' = NoNode

\* ane_attach_genpd(): no entry or an error refuses; a single entry belongs to
\* the platform bus and is deferred until attached; otherwise one by one.
ane_attach_genpd ==
    /\ pc = "attach"
    /\ \/ /\ cfg.pds =< 1
          /\ \/ Failed /\ held' = held \ Devm /\ UNCHANGED ane
             \/ cfg.pds = 1 /\ Goto("irq") /\ UNCHANGED <<cfg, held, ane>>
       \/ /\ cfg.pds > 1 /\ ane.i = cfg.pds /\ Goto("irq") /\ UNCHANGED <<cfg, held, ane>>
       \/ /\ cfg.pds > 1 /\ ane.i < cfg.pds
          /\ \/ /\ held' = held \cup {Pd(ane.i + 1), Link(ane.i + 1)}
                /\ ane' = [ane EXCEPT !.i = @ + 1] /\ UNCHANGED <<pc, cfg>>
             \/ \E got \in {{}, {Pd(ane.i + 1)}} :     \* attach or link fails
                /\ held' = Detached(held \cup got) \ Devm /\ Failed /\ UNCHANGED ane
    /\ UNCHANGED <<pm, note>>

\* What a step acquires; "dvfs" is optional and may take only its windows.
Gets(s) ==
    CASE s = "irq" -> {{}}
      [] s = "engine" -> {{"engine"}, {"engine", "ps"}}
      [] s = "boost" -> {{"legs"}}
      [] s = "dvfs" -> {{}, {"dvfs"}, {"dvfs", "symbol"}}
      [] s = "iommu" -> {{"mm"}}
      [] s = "dart" -> {{}, {"dart"}}
      [] OTHER -> {{}}

\* irq .. iommu, dart: take something or go to the label.
probe_step ==
    /\ pc \in {"irq", "engine", "boost", "dvfs", "iommu", "dart"}
    /\ \/ \E got \in Gets(pc) : held' = held \cup got /\ Goto(After(pc))
       \/ Goto(Label(pc)) /\ UNCHANGED held
    /\ UNCHANGED <<cfg, ane, pm, note>>

\* pm_runtime_enable() and the resume that raises the partition and makes the
\* first engine access; then stale mappings are purged, powered.
Linked == cfg.pds = 1 \/ \A i \in 1..cfg.pds : Link(i) \in held
probe_resume ==
    /\ pc = "resume"
    /\ \/ /\ pm' = [enabled |-> TRUE, usage |-> pm.usage + 1, active |-> TRUE]
          /\ note' = [note EXCEPT !.touched = {<<cfg.compatible, Base(cfg), cfg.forced>>},
                         !.blind = @ \/ ~Linked \/ "engine" \notin held]
          /\ Goto(After(pc))
       \/ pm' = [pm EXCEPT !.enabled = TRUE] /\ Goto(Label(pc)) /\ UNCHANGED note
    /\ UNCHANGED <<cfg, ane, held>>

drm_dev_register ==
    /\ pc = "register"
    /\ \/ held' = held \cup {"registered"} /\ Goto(After(pc))
       \/ Goto(Label(pc)) /\ UNCHANGED held
    /\ UNCHANGED <<cfg, ane, pm, note>>

\* ane_stats_init(): slots, attribute, debugfs; each failure frees its own.
ane_stats_init ==
    /\ pc = "stats"
    /\ \/ /\ held' = IF cfg.stats THEN held \cup {"slots", "ane_stats", "debugfs"} ELSE held
          /\ Goto("loaded")
       \/ cfg.stats /\ Goto(Label(pc)) /\ UNCHANGED held
    /\ UNCHANGED <<cfg, ane, pm, note>>

\* Probe drops its reference: the device may autosuspend.
probe_loaded ==
    /\ pc = "loaded" /\ Goto("bound") /\ pm' = [pm EXCEPT !.usage = @ - 1]
    /\ UNCHANGED <<cfg, ane, held, note>>

\* The cleanup labels, falling through from the one the failure named.
label_unregister ==
    /\ pc = "unregister" /\ Goto("put_pm") /\ held' = held \ {"registered"}
    /\ UNCHANGED <<cfg, ane, pm, note>>
label_put_pm ==
    /\ pc = "put_pm" /\ Goto("disable_pm") /\ pm' = [pm EXCEPT !.usage = @ - 1]
    /\ UNCHANGED <<cfg, ane, held, note>>
label_disable_pm ==
    /\ pc = "disable_pm" /\ Goto("detach_dvfs")
    /\ pm' = [pm EXCEPT !.enabled = FALSE] /\ held' = held \ {"mm"}
    /\ UNCHANGED <<cfg, ane, note>>
label_detach_dvfs ==
    /\ pc = "detach_dvfs" /\ Goto("detach_boost") /\ held' = held \ {"dvfs", "symbol"}
    /\ UNCHANGED <<cfg, ane, pm, note>>
label_detach_boost ==
    /\ pc = "detach_boost" /\ Failed
    /\ held' = (IF cfg.pds > 1 THEN Detached(held \ {"legs"}) ELSE held \ {"legs"}) \ Devm
    /\ pm' = [pm EXCEPT !.active = FALSE]
    /\ UNCHANGED <<ane, note>>

\* A client: open and BO_INIT while registered; close unmaps what it mapped.
client_map ==
    /\ "registered" \in held /\ "bo" \notin held
    /\ held' = held \cup {"bo"} /\ note' = [note EXCEPT !.raced = pc # "bound"]
    /\ UNCHANGED <<pc, cfg, ane, pm>>
client_close ==
    /\ "bo" \in held /\ held' = held \ {"bo"} /\ note' = [note EXCEPT !.raced = FALSE]
    /\ UNCHANGED <<pc, cfg, ane, pm>>

\* The engine wedges while bound (module AneDrv).
wedge ==
    /\ pc = "bound" /\ ane' = [ane EXCEPT !.wedged = TRUE]
    /\ UNCHANGED <<pc, cfg, held, pm, note>>

\* Device removal: wedged, everything the driver owns stays; otherwise every
\* mapping still listed is removed, then what probe acquired.
ane_platform_remove ==
    /\ pc = "bound" /\ Failed
    /\ IF ane.wedged
       THEN /\ held' = held \ (Devm \cup {"registered"})
            /\ pm' = [pm EXCEPT !.usage = @ + 1, !.active = TRUE]
       ELSE /\ held' = LET rest == held \ {"registered", "slots", "ane_stats", "debugfs", "bo",
                                           "mm", "dvfs", "symbol", "legs"}
                       IN (IF cfg.pds > 1 THEN Detached(rest) ELSE rest) \ Devm
            /\ pm' = [enabled |-> FALSE, usage |-> pm.usage, active |-> FALSE]
    /\ UNCHANGED <<ane, note>>

autosuspend ==
    /\ pc = "bound" /\ pm.usage = 0 /\ pm.active /\ pm' = [pm EXCEPT !.active = FALSE]
    /\ UNCHANGED <<pc, cfg, ane, held, note>>

Next ==
    \/ ane_platform_probe \/ ane_attach_genpd \/ probe_step \/ probe_resume \/ drm_dev_register
    \/ ane_stats_init \/ probe_loaded \/ label_unregister \/ label_put_pm \/ label_disable_pm
    \/ label_detach_dvfs \/ label_detach_boost \/ client_map \/ client_close \/ wedge
    \/ ane_platform_remove \/ autosuspend

Spec == Init /\ [][Next]_vars

(***************************************************************************)
(* Properties.                                                             *)
(***************************************************************************)

\* Whichever step of probe fails, and after a removal, nothing stays acquired
\* and runtime PM is disabled with its count at zero; the exceptions are a
\* wedged device, and a buffer of a client that came between the DRM registration
\* and a failing ane_stats_init(), which outlives the address range.
ProbeUnwound ==
    pc = "unbound" /\ ~ane.wedged =>
        /\ held \subseteq (IF note.raced THEN {"bo"} ELSE {})
        /\ ~pm.enabled /\ pm.usage = 0

\* The engine is first touched with its window mapped and all power domains
\* linked, and only on a (SoC, SET base) pair of the qualification table, an
\* unproven one by explicit override only.
GateHolds ==
    /\ ~note.blind
    /\ \A t \in note.touched : \E r \in ane_qual_table :
         r[1] = t[1] /\ r[2] = t[2] /\ (r[3] = "recognized" => t[3])
====
