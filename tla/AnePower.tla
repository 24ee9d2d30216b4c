------------------------------ MODULE AnePower ------------------------------
(***************************************************************************)
(* Runtime PM of ane.ko around the clock level and the CPU boost: submits  *)
(* hold a runtime PM reference, resume ends with ane_dvfs_up, suspend      *)
(* starts with ane_dvfs_down, removal and probe take both down and up.     *)
(* Sources: ane/src/ane_drv.c, composing AneDvfs and AneBoost.  The stages *)
(* of a recovery are in AneDrv; here a wedge ends in some recovery, or in  *)
(* the forced removal of the wedged device, which leaves all as it is.     *)
(***************************************************************************)
EXTENDS AneBoost, AneDvfs

VARIABLES
    pm,     \* "active", "suspended", on the way, driver "unbound", or
            \* "abandoned": removed while wedged, until a reboot
    wedged

powerVars == <<boostVars, dvfsVars, pm, wedged>>

Init == BoostInit /\ DvfsInit /\ pm = "suspended" /\ wedged = FALSE

(* ane_runtime_resume: its last call is ane_dvfs_up. *)
ane_runtime_resume ==
    /\ pm = "suspended"
    /\ pm' = "resuming"
    /\ ane_dvfs_up
    /\ UNCHANGED <<boostVars, wedged>>

resumed ==
    /\ pm = "resuming" /\ dpc = "idle"
    /\ pm' = "active"
    /\ UNCHANGED <<boostVars, dvfsVars, wedged>>

(* PoweredDownAtZero: the level stays up across the suspend. *)
Bug_ane_runtime_suspend ==
    /\ pm = "active" /\ (wedged \/ ~running)
    /\ pm' = "suspended"
    /\ UNCHANGED <<boostVars, dvfsVars, wedged>>

(* A wedged engine is suspended by its recovery, also inside a submit, and *)
(* once the recovery has gated it; which of these may come is AneDrv's.    *)
ane_runtime_suspend ==
    /\ pm = "active" /\ (wedged \/ ~running)
    /\ pm' = "suspending"
    /\ ane_dvfs_down
    /\ UNCHANGED <<boostVars, wedged>>

suspended ==
    /\ pm = "suspending" /\ dpc = "idle"
    /\ pm' = "suspended"
    /\ UNCHANGED <<boostVars, dvfsVars, wedged>>

(* A submit: pm_runtime_resume_and_get before, put after; refused while    *)
(* wedged.                                                                 *)
ane_submit ==
    /\ pm = "active"
    /\ (~wedged /\ ane_boost_begin) \/ ane_boost_end
    /\ UNCHANGED <<dvfsVars, pm, wedged>>

ane_wedge ==
    /\ pm = "active" /\ running
    /\ wedged' = TRUE
    /\ UNCHANGED <<boostVars, dvfsVars, pm>>

ane_tm_recover ==
    /\ pm = "active" /\ wedged
    /\ wedged' = FALSE
    /\ UNCHANGED <<boostVars, dvfsVars, pm>>

(* ane_platform_remove: ane_dvfs_exit, then ane_boost_exit; of a wedged    *)
(* device neither.                                                         *)
ane_platform_remove ==
    /\ pm = "active" /\ ~running
    /\ IF wedged
       THEN pm' = "abandoned" /\ UNCHANGED dvfsVars
       ELSE pm' = "removing" /\ ane_dvfs_down
    /\ UNCHANGED <<boostVars, wedged>>

removed ==
    /\ pm = "removing" /\ dpc = "idle"
    /\ pm' = "unbound"
    /\ ane_boost_exit
    /\ UNCHANGED <<dvfsVars, wedged>>

(* ane_platform_probe: a new ane_device. *)
ane_platform_probe ==
    /\ pm = "unbound"
    /\ pm' = "suspended"
    /\ ane_boost_init
    /\ ack_timeouts' = 0
    /\ UNCHANGED <<envVars, hwWords, active, level, dpc, word, boot, wedged>>

Power ==
    \/ ane_runtime_resume \/ resumed \/ ane_runtime_suspend \/ suspended
    \/ ane_submit \/ ane_wedge \/ ane_tm_recover
    \/ ane_platform_remove \/ removed \/ ane_platform_probe

Next ==
    \/ Power
    \/ /\ boost_tick \/ ane_boost_off_work
          \/ \E n \in 0 .. MaxIdle : boost_idle_ms_write(n)
       /\ UNCHANGED <<dvfsVars, pm, wedged>>
    \/ (DvfsStep \/ DvfsEnv) /\ UNCHANGED <<boostVars, pm, wedged>>

(* Time passes and the workqueue runs what is due.  A submit in progress   *)
(* returns: the suspend and resume inside it run on to their end.          *)
Fairness ==
    /\ WF_powerVars(boost_tick /\ UNCHANGED <<dvfsVars, pm, wedged>>)
    /\ WF_powerVars(ane_boost_off_work /\ UNCHANGED <<dvfsVars, pm, wedged>>)
    /\ WF_powerVars(pm = "active" /\ ane_boost_end /\ UNCHANGED <<dvfsVars, pm, wedged>>)

Spec == Init /\ [][Next]_powerVars /\ Fairness

-----------------------------------------------------------------------------
TypeOK ==
    /\ BoostTypeOK /\ DvfsTypeOK
    /\ pm \in {"active", "suspended", "resuming", "suspending", "removing",
               "unbound", "abandoned"}
    /\ wedged \in BOOLEAN

(* The partition is never gated, and the driver never gone, with the level *)
(* raised or the DVFS block on, whichever step of an up sequence failed:   *)
(* both are as this driver found them, or at 0.  A driver that is gone     *)
(* leaves no frequency request and no armed work behind.  The exception is *)
(* the forced removal of a wedged device ("reboot required"): it takes     *)
(* nothing down, and nothing is claimed of "abandoned".                    *)
PoweredDownAtZero ==
    /\ pm \in {"suspended", "unbound"} =>
          LEVEL = boot.level /\ DVFS_ON = boot.on /\ ~active
    /\ pm = "unbound" => ~held /\ ~on /\ timer = Unarmed

(* Boost, level and request word, composed: a busy engine keeps its boost, *)
(* a level is up only under an acknowledged request, the other clients of  *)
(* the word keep their bits, and nothing stays raised under a gated        *)
(* partition.                                                              *)
PowerSound ==
    TypeOK /\ BusyHolds /\ LevelNeedsRequest /\ OthersKept /\ PoweredDownAtZero

(* Once submits stop, the boost is dropped, provided boost_idle_ms is not  *)
(* raised after the last of them and the device is not removed wedged,     *)
(* which frees the memory of the work with the work still armed.           *)
BoostDropsAsArmed ==
    <>[](~running /\ ~raised /\ pm # "abandoned") => []<>(~on)

=============================================================================
