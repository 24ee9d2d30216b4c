------------------------------- MODULE MCBoot -------------------------------
(***************************************************************************)
(* The drivers that power and start an engine, for TLC: one behaviour is   *)
(* the life of one of them, chosen at the start ("part"), so that a claim  *)
(* they all make is one property.  The modules take their variables from   *)
(* this module by name; the variables a part does not have stay Off.       *)
(***************************************************************************)
EXTENDS Naturals, Sequences

CONSTANT Parts      \* the drivers this instance looks at

VARIABLES
    part,
    pc, cfg, ane, held, pm, k, wire, hw, note,
    ap, mmlo, mmhi, pte, mm, op, lost, debris, wide     \* AnePages

pool == <<pc, cfg, ane, held, pm, k, wire, hw, note>>
pageVars == <<ap, mmlo, mmhi, pte, mm, op, lost, debris, wide>>
bootVars == <<part, pool, pageVars>>
Off == "off"

-----------------------------------------------------------------------------
(* H15: each stage with its switches, and every one of stage 7's missing.  *)
Base15 == {"optin", "ane_type", "dart_scan_mask"}
Read15 == Base15 \cup {"confirm_read", "row_dart", "row_pwgate"}
Run15 == Base15 \cup {"confirm_run", "row_rvbar"}
Own15 == Run15 \cup {"multi_pd", "confirm_read", "iommus", "map_fw", "fw_path"}
Lacking(s) == {s} \cup {s \ {x} : x \in s}
At(i, s) == {[stage |-> i, on |-> f] : f \in s}
H15Configs ==
    At(0, Lacking(Base15)) \cup At(1, {Base15, Base15 \cup {"multi_pd"}})
    \cup At(2, {Read15, Read15 \ {"confirm_read"}, Read15 \cup {"pwgate_read"},
                Read15 \cup {"fw_seg", "row_rvbar"}})
    \cup At(3, {Read15 \cup {"confirm_boot", "fw_path"}, Base15}) \cup At(4, {Read15, Base15})
    \cup At(5, {Own15 \cup {"pwgate", "row_pwgate", "ps_assert", "rpm_hold_sweep", "stop_after_pwgate"},
                Own15 \cup {"pwgate", "row_pwgate"}, Run15 \cup {"pwgate", "row_pwgate", "scratch_boot"},
                Run15, Run15 \ {"confirm_run"}, Run15 \cup {"scratch_boot", "run_unmapped"},
                Run15 \cup {"map_fw", "iommus", "fw_seg"}})
    \cup At(6, {Own15 \cup {"confirm_rtkit"}, Own15})
    \cup At(7, Lacking(Own15 \cup {"confirm_rtkit", "confirm_chan", "chan_cmds"}))

Base16 == {"optin", "ane_type"}
H16Configs ==
    {[stage |-> s, on |-> o] : s \in 0..3,
        o \in {Base16, {"optin"}, Base16 \cup {"confirm_read"},
               Base16 \cup {"confirm_read", "multi_pd"}, Base16 \cup {"confirm_read", "hello_wait"}}}

Power18 == {"optin", "confirm_power"}
Boot18 == Power18 \cup {"confirm_boot", "kpsd", "map_fw", "alias", "hello", "start", "stop"}
Shake18 == Boot18 \cup {"handshake", "read_scratch"}
Full18 == Shake18 \cup {"hs_chan", "hs_cmds", "hs_start", "hs_pmu", "hs_dyn", "hs_props",
                        "hs_prog", "prog_fw", "premap"}
H18Configs ==
    At("dt", {{"optin"}, {}}) \cup At("none", {{"optin"}}) \cup At("psd", {{"optin"}})
    \cup At("power", {{"optin"}, Power18, Power18 \cup {"slots2", "read_mbox"},
                      Power18 \cup {"kpsd"}, Power18 \cup {"keep_on"}})
    \cup At("boot", {Power18, Power18 \cup {"confirm_boot"}, Boot18, Shake18, Shake18 \cup {"hs_chan"}, Full18,
                     Full18 \ {"hs_prog"}, Full18 \ {"hs_prog", "premap", "hs_props", "hs_dyn"},
                     Power18 \cup {"confirm_boot", "slots2", "read_dart"},
                     Power18 \cup {"confirm_boot", "read_dart"},
                     Power18 \cup {"confirm_boot", "read_scratch"},
                     Power18 \cup {"confirm_boot", "slots2", "read_scratch"},
                     Full18 \ {"read_scratch"}})
H18Reloads == At("boot", {Power18 \cup {"confirm_boot", "kpsd", "map_fw"}})

M2Default == {"fw_start", "fw_load", "iommu", "legacy", "query", "ack", "poll_rx", "selene"}
M2Configs ==
    {[on |-> M2Default \cup x, table |-> t] : x \in SUBSET {"hello", "dyn_pg", "pwgate_open"}, t \in {0, 2}}
    \cup {[on |-> (M2Default \ {"legacy", "query"}) \cup x, table |-> 2] : x \in SUBSET {"rtb", "pwgate_open"}}
    \cup {[on |-> M2Default \ x, table |-> 2] :
            x \in {{"fw_start", "legacy", "query"}, {"query"}, {"ack", "query"}, {"poll_rx"}}}

\* pdraise's list: in order, with an empty token, an unknown label, a label twice.
RaiseLists == {<<"a", "b">>, <<"b", "", "a", "c">>, <<"a", "none", "b">>, <<"c", "a", "b">>, <<"a", "a">>}

\* Calls of dart8_map: both sides of a table, across one, and out of the window.
DartCalls == {<<a, p, n, pr>> : a \in {0, 3, 4, 6, 14}, p \in {0, 1}, n \in {0, 1, 2, 4}, pr \in {{}, {"NO_WRITE"}}}

\* Two buffers, of two pages and of one, and one of a page more than 32 bits
\* hold; apertures that start at 0, end before the buffers fit, and start
\* above the 32-bit limit.
PageBOs == {"a", "b", "wide"}
PageCount == [b \in PageBOs |-> CASE b = "a" -> 2 [] b = "b" -> 1 [] b = "wide" -> 6]
PageApertures == {[start |-> 0, end |-> 99], [start |-> 3, end |-> 8], [start |-> 9, end |-> 10]}

-----------------------------------------------------------------------------
H15 == INSTANCE AneH15 WITH Configs <- H15Configs, MaxPds <- 2, MaxSend <- 4, MaxDepth <- 2
H16 == INSTANCE AneH16 WITH Configs <- H16Configs, MaxPds <- 2, NPages <- 4, MaxMsg <- 3, MaxDepth <- 2
H18 == INSTANCE AneH18 WITH Configs <- H18Configs, Reloads <- H18Reloads, MaxSend <- 4, MaxQ <- 2
Malloc == INSTANCE AneH18Malloc WITH Addrs <- {"a1", "a2", "a3", "a4"}, Sizes <- {1, 2, 4},
                MaxSize <- 2, MaxBufs <- 3, MaxBytes <- 4, NSlots <- 2
H13 == INSTANCE AneH13 WITH NPages <- 2, MaxPds <- 2, MaxDepth <- 2
Ascdbg == INSTANCE AneAscdbg WITH Offsets <- 16, Aperture <- 6, MaxCount <- 7
Probe == INSTANCE AneProbe WITH MaxPds <- 3
M2 == INSTANCE AneT6021Bind WITH Configs <- M2Configs, NPds <- 2, NPages <- 3
Prep == INSTANCE AneT6021Prep WITH W <- 8, Band <- 2, Page <- 4, IpcCeiling <- 6, HeapFloor <- 2,
            HeapCeiling <- 5, Dvas <- 1..5, Alias <- {3}, Half <- 2, Bits <- {0, 10, 11, 47, 48, 55}
Patch == INSTANCE AneFwPatch
Raise == INSTANCE AneRaise WITH Labels <- {"a", "b", "c"}, Lists <- RaiseLists, MAX_PD <- 3
Dart == INSTANCE AneDart8 WITH Space <- 16, E <- 2, MaxLevels <- 3, Calls <- DartCalls, MaxCalls <- 2
Pages == INSTANCE AnePages WITH BOs <- PageBOs, NPages <- PageCount, Apertures <- PageApertures,
            PageSize <- 2, U32Max <- 9, MaxLost <- 2

ASSUME BootConstants == Pages!PagesAssumption /\ Malloc!MallocAssumption

NoPages ==
    /\ ap = Off /\ mmlo = Off /\ mmhi = Off /\ pte = Off
    /\ mm = Off /\ op = Off /\ lost = Off /\ debris = Off /\ wide = Off

Init ==
    /\ part \in Parts
    /\ \/ part = "h15" /\ H15!Init /\ NoPages
       \/ part = "h16" /\ H16!Init /\ k = Off /\ NoPages
       \/ part = "h18" /\ H18!Init /\ pm = Off /\ NoPages
       \/ /\ part = "malloc" /\ Malloc!Init /\ NoPages
          /\ pc = Off /\ cfg = Off /\ ane = Off /\ held = Off /\ pm = Off /\ wire = Off /\ note = Off
       \/ part = "h13" /\ H13!Init /\ ane = Off /\ wire = Off /\ NoPages
       \/ /\ part = "ascdbg" /\ Ascdbg!Init /\ NoPages
          /\ ane = Off /\ held = Off /\ pm = Off /\ k = Off /\ wire = Off /\ note = Off
       \/ part = "probe" /\ Probe!Init /\ k = Off /\ wire = Off /\ hw = Off /\ NoPages
       \/ part = "m2" /\ M2!Init /\ wire = Off /\ NoPages
       \/ /\ part = "prep" /\ Prep!Init /\ NoPages
          /\ held = Off /\ pm = Off /\ wire = Off /\ note = Off
       \/ /\ part = "patch" /\ Patch!Init /\ NoPages
          /\ ane = Off /\ held = Off /\ pm = Off /\ wire = Off /\ note = Off
       \/ /\ part = "raise" /\ Raise!Init /\ NoPages
          /\ ane = Off /\ held = Off /\ pm = Off /\ wire = Off /\ note = Off
       \/ part = "dart" /\ Dart!Init /\ ane = Off /\ held = Off /\ pm = Off /\ wire = Off /\ NoPages
       \/ /\ part = "pages" /\ Pages!PagesInit
          /\ pc = Off /\ cfg = Off /\ ane = Off /\ held = Off /\ pm = Off
          /\ k = Off /\ wire = Off /\ hw = Off /\ note = Off

Next ==
    \/ part = "h15" /\ H15!Next /\ UNCHANGED <<part, pageVars>>
    \/ part = "h16" /\ H16!Next /\ UNCHANGED <<part, k, pageVars>>
    \/ part = "h18" /\ H18!Next /\ UNCHANGED <<part, pm, pageVars>>
    \/ part = "malloc" /\ Malloc!Next /\ UNCHANGED <<part, pc, cfg, ane, held, pm, wire, note, pageVars>>
    \/ part = "h13" /\ H13!Next /\ UNCHANGED <<part, ane, wire, pageVars>>
    \/ part = "ascdbg" /\ Ascdbg!Next /\ UNCHANGED <<part, ane, held, pm, k, wire, note, pageVars>>
    \/ part = "probe" /\ Probe!Next /\ UNCHANGED <<part, k, wire, hw, pageVars>>
    \/ part = "m2" /\ M2!Next /\ UNCHANGED <<part, wire, pageVars>>
    \/ part = "prep" /\ Prep!Next /\ UNCHANGED <<part, held, pm, wire, note, pageVars>>
    \/ part = "patch" /\ Patch!Next /\ UNCHANGED <<part, ane, held, pm, wire, note, pageVars>>
    \/ part = "raise" /\ Raise!Next /\ UNCHANGED <<part, ane, held, pm, wire, note, pageVars>>
    \/ part = "dart" /\ Dart!Next /\ UNCHANGED <<part, ane, held, pm, wire, pageVars>>
    \/ part = "pages" /\ Pages!PagesNext /\ UNCHANGED <<part, pool>>

Spec == Init /\ [][Next]_bootVars

-----------------------------------------------------------------------------
(* Whichever step of probe(), of module_init() or of a command failed, and *)
(* whatever ran before: once nobody is bound, every window, domain, link,  *)
(* mapping, buffer, file and runtime-PM count is released - what a core    *)
(* that was started may still use excepted - and a domain raised for an    *)
(* experiment is dropped by those who raised it, in reverse order.         *)
Unwound ==
    /\ part = "h15" => H15!Unwound
    /\ part = "h16" => H16!Unwound
    /\ part = "h18" => H18!Unwound
    /\ part = "m2" => M2!ProbeUnwound
    /\ part = "probe" => Probe!ProbeUnwound
    /\ part = "h13" => H13!H13Unwound /\ H13!LegacyPmKept
    /\ part = "raise" => Raise!RaisedInOrder

(* While a core that was started may run, nothing it can reach is freed or *)
(* unmapped: not after a time-out, not by a failed probe, not by remove(). *)
(* On h15 and M2 its power stays on as well; h16 and h18 let the power go, *)
(* and both forget the core when the module is loaded again.  On M2 a core *)
(* whose latched vector is 0 is started without its image mapped.          *)
CoreKeepsMemory ==
    /\ part = "h15" => H15!CoreKeepsMemory
    /\ part = "h16" => H16!CoreKeepsMemory
    /\ part = "h18" => H18!CoreKeepsMemory
    /\ part = "m2" => M2!CoreKeepsMemory /\ M2!InstalledHeld /\ M2!PollFenced

(* No register is accessed without its window, its power and the gate that *)
(* the driver checks first, on a tier that is not qualified, or outside    *)
(* the aperture - with the exceptions H13Powered and CommandInside name    *)
(* for the laboratory modules of the M1, and h18's read of the SCRATCH     *)
(* words with the second PSD slot off.                                     *)
NoBlindMmio ==
    /\ part = "h15" => H15!NoBlindMmio
    /\ part = "h16" => H16!NoBlindMmio
    /\ part = "h18" => H18!NoBlindMmio
    /\ part = "m2" => M2!NoBlindMmio
    /\ part = "probe" => Probe!GateHolds
    /\ part = "h13" => H13!H13Powered
    /\ part = "ascdbg" => Ascdbg!CommandInside

(* The handshake with the firmware keeps its order whatever the firmware   *)
(* repeats, delays or leaves out; on M2 and h13 a word left by an earlier  *)
(* start is never taken for an answer, and on M2 nothing is tried twice in *)
(* one boot.  h13 sends its command also when STARTEP was lost.            *)
RtkOrder ==
    /\ part = "h15" => H15!RtkOrder
    /\ part = "h18" => H18!RtkOrder
    /\ part = "m2" => M2!OneAttempt /\ M2!HandshakeFresh
    /\ part = "h13" => H13!H13Ordered

(* A core is released, and told to go on, only after the checks: stopped,  *)
(* the measured vector, the whole image mapped, the table it published     *)
(* validated as a whole.                                                   *)
RunAfterPreflight ==
    [][ /\ part = "h15" => H15!RunAfterPreflight /\ H15!TableChecked
        /\ part = "h16" => H16!RunAfterPreflight
        /\ part = "h18" => H18!RunAfterPreflight /\ H18!TableChecked ]_bootVars

(* What the firmware reads is whole and stays the firmware's: a command    *)
(* never overwrites a slot the firmware owns, every address it was served  *)
(* is backed by one live buffer, no slot is left unmarked, the sizes and   *)
(* words published at boot are those of the memory allocated for them, and *)
(* the image is patched as a whole or not at all.                          *)
SharedSound ==
    /\ part = "h18" => H18!CommandKept
    /\ part = "malloc" => Malloc!PoolKept
    /\ part = "m2" => M2!SlotsMarked
    /\ part = "prep" => Prep!PrepSound
    /\ part = "patch" => Patch!PatchWhole

(* The page tables say what was mapped and nothing else: every buffer      *)
(* whose map call succeeded is translated completely and in the aperture,  *)
(* no failed call leaves an entry of its own behind, a stray entry does    *)
(* not fail later calls, and the walk of a multi-level table finds each    *)
(* page at its own leaf.                                                   *)
TranslationExact ==
    /\ part = "pages" => Pages!LiveExact /\ Pages!OnlyDebris /\ Pages!StrayHealed
    /\ part = "dart" => Dart!WalkAgrees

(* A page once mapped keeps its translation; a page someone else mapped is *)
(* never replaced, and lost only in the unwinding of a mapping it was in   *)
(* the way of (ane_h16).                                                   *)
MappingsKept ==
    [][ /\ part = "dart" => Dart!MappingKept
        /\ part = "h13" => H13!OthersKept
        /\ part = "h16" => H16!OthersKept ]_bootVars

SeenTr == IF part = "pages" THEN Pages!Translation ELSE [x \in {} |-> <<>>]
Ranges == INSTANCE AneRange WITH
            BOs <- PageBOs, NPages <- PageCount, Places <- Pages!Places, tr <- SeenTr

(* The page-wise mapping code of ane_drv.c implements the one-step mapping *)
(* of AneRange: a buffer appears and disappears as a whole, until a buffer *)
(* of 4 GiB or more is mapped.                                             *)
MapsWhole ==
    /\ Ranges!RangeInit
    /\ [][(part = "pages" /\ wide') \/ Ranges!RangeNext]_SeenTr

=============================================================================
