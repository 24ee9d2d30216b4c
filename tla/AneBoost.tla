------------------------------ MODULE AneBoost ------------------------------
(***************************************************************************)
(* The CPU cluster boost of ane.ko: a minimum-frequency request held while *)
(* a submit runs and dropped by delayed work boost_idle_ms after the last  *)
(* one completes.  Source: ane/src/ane_boost.c.                            *)
(*                                                                         *)
(* Each function body is one step: it holds boost.lock, and begin and end  *)
(* are called under engine_lock, so submits do not overlap.  Time is kept  *)
(* relative, which needs no bound on jiffies: age is jiffies - last_end,   *)
(* timer the jiffies until the work is due.                                *)
(***************************************************************************)
EXTENDS Integers

CONSTANTS MaxIdle     \* bound: largest value written to boost_idle_ms

ASSUME AneBoostAssumption == MaxIdle \in Nat

VARIABLES
    boost_idle_ms,    \* the module parameter, in jiffies, writable at any time
    on, busy,         \* boost.on, boost.busy
    held,             \* boost.held # 0: some frequency request is registered
    age,              \* jiffies since last_end, up to MaxIdle
    timer,            \* of boost.off: jiffies left, 0 when due, Unarmed
    raised,           \* history: boost_idle_ms was raised since the last end
    running,          \* a submit is between begin and end
    legs              \* boost.legs is allocated: between init and exit

boostVars == <<boost_idle_ms, on, busy, held, age, timer, raised, running, legs>>

Unarmed == -1

BoostInit ==
    /\ boost_idle_ms \in 0 .. MaxIdle
    /\ on = FALSE /\ busy = FALSE /\ held = FALSE
    /\ age = 0 /\ timer = Unarmed /\ raised = FALSE
    /\ running = FALSE /\ legs = TRUE

(* The boost is on even if no policy exists or every request fails. *)
ane_boost_set(b) == on' = b /\ held' \in {FALSE, b}

boost_tick ==
    /\ age < MaxIdle \/ timer > 0
    /\ age' = IF age < MaxIdle THEN age + 1 ELSE age
    /\ timer' = IF timer > 0 THEN timer - 1 ELSE timer
    /\ UNCHANGED <<boost_idle_ms, on, busy, held, raised, running, legs>>

boost_idle_ms_write(n) ==
    /\ boost_idle_ms # n
    /\ boost_idle_ms' = n
    /\ raised' = (raised \/ n > boost_idle_ms)
    /\ UNCHANGED <<on, busy, held, age, timer, running, legs>>

ane_boost_begin ==
    /\ legs /\ ~running
    /\ running' = TRUE
    /\ IF boost_idle_ms = 0
       THEN UNCHANGED <<busy, on, held>>
       ELSE /\ busy' = TRUE
            /\ IF on THEN UNCHANGED <<on, held>> ELSE ane_boost_set(TRUE)
    /\ UNCHANGED <<boost_idle_ms, age, timer, raised, legs>>

ane_boost_end ==
    /\ legs /\ running
    /\ running' = FALSE /\ busy' = FALSE /\ age' = 0
    /\ timer' = IF on THEN boost_idle_ms ELSE timer
    /\ raised' = FALSE
    /\ UNCHANGED <<boost_idle_ms, on, held, legs>>

(* BusyHolds: the expiry looks at the time only. *)
Bug_ane_boost_off_work ==
    /\ timer = 0
    /\ timer' = Unarmed
    /\ IF on /\ age >= boost_idle_ms THEN ane_boost_set(FALSE) ELSE UNCHANGED <<on, held>>
    /\ UNCHANGED <<boost_idle_ms, busy, age, raised, running, legs>>

(* BoostDropsAsArmed: the expiry has to be later than the idle time. *)
Bug_ane_boost_off_work_late ==
    /\ timer = 0
    /\ timer' = Unarmed
    /\ IF on /\ ~busy /\ age > boost_idle_ms
       THEN ane_boost_set(FALSE) ELSE UNCHANGED <<on, held>>
    /\ UNCHANGED <<boost_idle_ms, busy, age, raised, running, legs>>

ane_boost_off_work ==
    /\ timer = 0
    /\ timer' = Unarmed
    /\ IF on /\ ~busy /\ age >= boost_idle_ms
       THEN ane_boost_set(FALSE) ELSE UNCHANGED <<on, held>>
    /\ UNCHANGED <<boost_idle_ms, busy, age, raised, running, legs>>

ane_boost_init ==
    /\ ~legs
    /\ legs' = TRUE
    /\ UNCHANGED <<boost_idle_ms, on, busy, held, age, timer, raised, running>>

ane_boost_exit ==
    /\ legs /\ ~running
    /\ legs' = FALSE
    /\ timer' = Unarmed
    /\ ane_boost_set(FALSE)
    /\ UNCHANGED <<boost_idle_ms, busy, age, raised, running>>

BoostNext ==
    \/ boost_tick
    \/ \E n \in 0 .. MaxIdle : boost_idle_ms_write(n)
    \/ ane_boost_begin \/ ane_boost_end \/ ane_boost_off_work
    \/ ane_boost_init \/ ane_boost_exit

(* Time passes, the workqueue runs what is due, and a submit returns.      *)
BoostSpec ==
    /\ BoostInit /\ [][BoostNext]_boostVars
    /\ WF_boostVars(boost_tick) /\ WF_boostVars(ane_boost_off_work)
    /\ WF_boostVars(ane_boost_end)

-----------------------------------------------------------------------------
BoostTypeOK ==
    /\ boost_idle_ms \in 0 .. MaxIdle
    /\ on \in BOOLEAN /\ busy \in BOOLEAN /\ held \in BOOLEAN
    /\ raised \in BOOLEAN /\ running \in BOOLEAN /\ legs \in BOOLEAN
    /\ age \in 0 .. MaxIdle
    /\ timer \in -1 .. MaxIdle

(* A submit that began with the boost enabled keeps it to its end, even if *)
(* the work armed by an earlier submit fires in between; and no frequency  *)
(* request outlives the boost it was registered for, however many of the   *)
(* registrations failed.                                                   *)
BusyHolds == (busy => running /\ on) /\ (held => on)

(* ane_boost.c: "drop it boost_idle_ms after the last one completes".      *)
BoostDrops == <>[](~running) => []<>(~on)

=============================================================================
