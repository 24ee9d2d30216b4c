------------------------------- MODULE AneDvfs ------------------------------
(***************************************************************************)
(* The engine's clock level (T6001): ane_dvfs_up at the end of a runtime   *)
(* resume, ane_dvfs_down at the start of a suspend and at exit, and the    *)
(* request word PS-REQ shared with the PMP's other clients.                *)
(* Sources: ane/src/ane_dvfs.c, ane/src/ane_dvfs_req.h.                    *)
(*                                                                         *)
(* Runtime PM never runs two of these calls at once; the steps of one are  *)
(* cut where another client of PS-REQ can act.  PS-REQ is the set of its   *)
(* bits that are set.  The perf_state string is left out.                  *)
(***************************************************************************)
EXTENDS Integers

CONSTANTS LevelMax,     \* ANE_DVFS_LEVEL_MAX
          MaxTimeouts   \* ANE_DVFS_MAX_TIMEOUTS

ASSUME AneDvfsAssumption == LevelMax \in Nat /\ MaxTimeouts \in Nat

VARIABLES
    dvfs_level,         \* the module parameter
    Locked,             \* pmp-report exports the locked update, and a report is
                        \* bound: it does not say -ENODEV
    pmp,                \* PMP-STATUS reads running
    DVFS_ON, DVFS_CMD,  \* pmgr DVFS block; a command is <<previous, new>>
    PS_REQ, LEVEL,      \* PMP window: the request word, the level word
    active, ack_timeouts,
    level,              \* of the call in progress, then dvfs.level while active
    dpc,                \* where the call in progress is
    word,               \* PS-REQ as the unlocked update read it
    other, oword,       \* another client: its wish for its bit, its RMW
    boot                \* history: the block as found; the level word as found,
                        \* 0 once this driver has written it

dvfsVars == <<dvfs_level, Locked, pmp, DVFS_ON, DVFS_CMD, PS_REQ,
              LEVEL, active, level, ack_timeouts, dpc, word, other, oword, boot>>
hwWords == <<DVFS_ON, DVFS_CMD, PS_REQ, LEVEL>>
envVars == <<dvfs_level, Locked, pmp, other, oword>>

ANE == "ane"            \* PS_ANE_SYS
CLIENT == "other"
NoWord == {"none"}
Dpcs == {"idle", "reread", "request", "rmw", "readback",
         "rel_level", "rel_req", "rel_rmw", "rel_off"}
Min2(a, b) == IF a < b THEN a ELSE b
Unknown == LevelMax + 1 \* a level word this driver does not know

DvfsInit ==
    /\ dvfs_level \in 0 .. LevelMax + 1
    /\ Locked \in BOOLEAN /\ pmp = TRUE
    /\ DVFS_ON \in {0, 1} /\ LEVEL \in 0 .. Unknown
    /\ boot = [on |-> DVFS_ON, level |-> LEVEL]
    /\ DVFS_CMD = <<0, 0>> /\ PS_REQ \in {{}, {ANE}}
    /\ active = FALSE /\ level = 0 /\ ack_timeouts = 0
    /\ dpc = "idle" /\ word = NoWord
    /\ other = FALSE /\ oword = NoWord

Set(s, x, on) == IF on THEN s \cup {x} ELSE s \ {x}

-----------------------------------------------------------------------------
(* ane_dvfs_up.  A call that finds a guard false returns at once. *)

MayUp ==
    /\ ~active /\ Min2(dvfs_level, LevelMax) # 0
    /\ ack_timeouts < MaxTimeouts /\ pmp
    /\ DVFS_ON = 0 /\ ANE \notin PS_REQ /\ LEVEL \in 0 .. LevelMax

(* TypeOK: a level above the largest is not clamped. *)
Bug_ane_dvfs_up ==
    /\ dpc = "idle"
    /\ IF MayUp
       THEN /\ dpc' = "reread"
            /\ level' = dvfs_level
            /\ DVFS_ON' = 1 /\ DVFS_CMD' = <<0, 0>>
       ELSE UNCHANGED <<dpc, level, DVFS_ON, DVFS_CMD>>
    /\ UNCHANGED <<PS_REQ, LEVEL, active, ack_timeouts, word, boot, envVars>>

ane_dvfs_up ==
    /\ dpc = "idle"
    /\ IF MayUp
       THEN /\ dpc' = "reread"
            /\ level' = Min2(dvfs_level, LevelMax)
            /\ DVFS_ON' = 1 /\ DVFS_CMD' = <<0, 0>>
       ELSE UNCHANGED <<dpc, level, DVFS_ON, DVFS_CMD>>
    /\ UNCHANGED <<PS_REQ, LEVEL, active, ack_timeouts, word, boot, envVars>>

up_reread ==
    /\ dpc = "reread"
    /\ dpc' = IF ANE \in PS_REQ THEN "rel_off" ELSE "request"
    /\ UNCHANGED <<hwWords, active, level, ack_timeouts, word, boot, envVars>>

(* ps_req_request: the locked update, or -ENODEV and the update here.      *)
req_locked(from, enable, ok, err) ==
    /\ dpc = from /\ Locked /\ oword = NoWord
    /\ \/ PS_REQ' = Set(PS_REQ, ANE, enable) /\ dpc' \in {ok, err}
       \/ PS_REQ' = PS_REQ /\ dpc' = err
    /\ word' = NoWord

req_read(from, to) ==
    /\ dpc = from /\ ~Locked
    /\ word' = PS_REQ
    /\ dpc' = to
    /\ PS_REQ' = PS_REQ

req_write(from, enable, ok, err) ==
    /\ dpc = from
    /\ PS_REQ' = Set(word, ANE, enable)
    /\ word' = NoWord
    /\ dpc' \in {ok, err}

(* OthersKept: any failure of the locked update falls back to the other.   *)
Bug_up_request ==
    /\ \/ req_locked("request", TRUE, "readback", "rel_req")
       \/ dpc = "request" /\ word' = PS_REQ /\ dpc' = "rmw" /\ PS_REQ' = PS_REQ
       \/ req_write("rmw", TRUE, "readback", "rel_req")
    /\ ack_timeouts' = IF dpc' = "rel_req" THEN ack_timeouts + 1 ELSE ack_timeouts
    /\ UNCHANGED <<DVFS_ON, DVFS_CMD, LEVEL, active, level, boot, envVars>>

up_request ==
    /\ \/ req_locked("request", TRUE, "readback", "rel_req")
       \/ req_read("request", "rmw")
       \/ req_write("rmw", TRUE, "readback", "rel_req")
    /\ ack_timeouts' = IF dpc' = "rel_req" THEN ack_timeouts + 1 ELSE ack_timeouts
    /\ UNCHANGED <<DVFS_ON, DVFS_CMD, LEVEL, active, level, boot, envVars>>

write_level(n) == LEVEL' = n /\ boot' = [boot EXCEPT !.level = 0]

up_readback ==
    /\ dpc = "readback"
    /\ IF ANE \in PS_REQ
       THEN /\ DVFS_CMD' = <<0, level>> /\ write_level(level)
            /\ active' = TRUE /\ dpc' = "idle"
       ELSE /\ dpc' = "rel_req"
            /\ UNCHANGED <<DVFS_CMD, LEVEL, active, boot>>
    /\ UNCHANGED <<DVFS_ON, PS_REQ, level, ack_timeouts, word, envVars>>

-----------------------------------------------------------------------------
(* ane_dvfs_down and ane_dvfs_release *)

(* LevelNeedsRequest: the request is withdrawn with the level still up. *)
Bug_ane_dvfs_down ==
    /\ dpc = "idle"
    /\ dpc' = IF active THEN "rel_req" ELSE "idle"
    /\ UNCHANGED <<hwWords, active, level, ack_timeouts, word, boot, envVars>>

ane_dvfs_down ==
    /\ dpc = "idle"
    /\ dpc' = IF active THEN "rel_level" ELSE "idle"
    /\ UNCHANGED <<hwWords, active, level, ack_timeouts, word, boot, envVars>>

(* CommandFollowsLevel: the level asked for now, not the one set. *)
Bug_release_level ==
    /\ dpc = "rel_level"
    /\ DVFS_CMD' = <<Min2(dvfs_level, LevelMax), 0>> /\ write_level(0)
    /\ dpc' = "rel_req"
    /\ UNCHANGED <<DVFS_ON, PS_REQ, active, level, ack_timeouts, word, envVars>>

release_level ==
    /\ dpc = "rel_level"
    /\ DVFS_CMD' = <<level, 0>> /\ write_level(0)
    /\ dpc' = "rel_req"
    /\ UNCHANGED <<DVFS_ON, PS_REQ, active, level, ack_timeouts, word, envVars>>

release_request ==
    /\ \/ req_locked("rel_req", FALSE, "rel_off", "rel_off")
       \/ req_read("rel_req", "rel_rmw")
       \/ req_write("rel_rmw", FALSE, "rel_off", "rel_off")
    /\ UNCHANGED <<DVFS_ON, DVFS_CMD, LEVEL, active, level, ack_timeouts, boot, envVars>>

release_off ==
    /\ dpc = "rel_off"
    /\ DVFS_CMD' = <<0, 0>> /\ DVFS_ON' = 0
    /\ active' = FALSE /\ level' = 0 /\ dpc' = "idle"
    /\ UNCHANGED <<PS_REQ, LEVEL, ack_timeouts, word, boot, envVars>>

DvfsStep == up_reread \/ up_request \/ up_readback
            \/ release_level \/ release_request \/ release_off

-----------------------------------------------------------------------------
(* The parameter, the PMP, and its other client: the client updates its    *)
(* own bit under the report's lock, which the unlocked update ignores.     *)

driverVars == <<hwWords, active, level, ack_timeouts, dpc, word, boot>>

dvfs_level_write(n) ==
    /\ dvfs_level # n /\ dvfs_level' = n
    /\ UNCHANGED <<driverVars, Locked, pmp, other, oword>>

pmp_restart ==
    /\ pmp' = ~pmp
    /\ UNCHANGED <<driverVars, dvfs_level, Locked, other, oword>>

other_read ==
    /\ oword = NoWord
    /\ oword' = PS_REQ /\ other' = ~other
    /\ UNCHANGED <<driverVars, dvfs_level, Locked, pmp>>

other_write ==
    /\ oword # NoWord
    /\ PS_REQ' = Set(oword, CLIENT, other) /\ oword' = NoWord
    /\ UNCHANGED <<DVFS_ON, DVFS_CMD, LEVEL, active, level, ack_timeouts, dpc, word,
                   boot, dvfs_level, Locked, pmp, other>>

DvfsEnv == \/ \E n \in 0 .. LevelMax + 1 : dvfs_level_write(n)
           \/ pmp_restart \/ other_read \/ other_write

-----------------------------------------------------------------------------
DvfsTypeOK ==
    /\ DVFS_ON \in {0, 1} /\ DVFS_CMD \in (0 .. LevelMax) \X (0 .. LevelMax)
    /\ PS_REQ \subseteq {ANE, CLIENT} /\ LEVEL \in 0 .. Unknown
    /\ boot \in [on : {0, 1}, level : 0 .. Unknown]
    /\ level \in 0 .. LevelMax /\ ack_timeouts \in 0 .. MaxTimeouts
    /\ dpc \in Dpcs

(* With the locked update, this driver has the level raised only while its *)
(* request is set and the DVFS block is on: up and release keep the order. *)
LevelNeedsRequest == Locked /\ LEVEL # boot.level => ANE \in PS_REQ /\ DVFS_ON = 1

(* With the locked update no other client's request is lost or undone.     *)
OthersKept == Locked /\ oword = NoWord => (CLIENT \in PS_REQ <=> other)

(* Every DVFS command names as its previous level the one that is set,     *)
(* even if dvfs_level was written meanwhile.  Only a level word found at   *)
(* power-up is not named: until the driver writes the word, its commands   *)
(* say 0.                                                                  *)
CommandFollowsLevel ==
    [][DVFS_CMD' # DVFS_CMD =>
          DVFS_CMD'[1] = IF boot.level = 0 THEN LEVEL ELSE 0]_dvfsVars

=============================================================================
