------------------------------ MODULE AneStats ------------------------------
(***************************************************************************)
(* The producer counters and the submission ring shared by ane.ko and      *)
(* ane_t6021.ko: ane_stats_begin and ane_stats_complete on the hot path,   *)
(* ane_stats_snapshot behind the sysfs file, ane_timeline_show behind the  *)
(* debugfs file.  Sources: ane/include/ane_stats.h, ane/ane_stats_show.c.  *)
(*                                                                         *)
(* Every access to a shared word is a step of its own, except reads of     *)
(* words no other process can be writing (those guarded by the transition  *)
(* sentinel).  A cmpxchg loop is the step that succeeds.  Of a slot's      *)
(* fields start_ns and end_ns are kept; submit_ns, tasks, rc and tmst are  *)
(* written and read next to them in the same way.                          *)
(***************************************************************************)
EXTENDS Integers, FiniteSets

CONSTANTS Producers,  \* threads that submit work
          NSlots,     \* ring->n
          Submits,    \* bound: submissions of the run
          MaxTime,    \* bound: the clock's last value
          Reads       \* bound: snapshots plus timeline lines read

ASSUME AneStatsAssumption ==
    /\ IsFiniteSet(Producers)
    /\ NSlots \in Nat \ {0} /\ Submits \in Nat /\ MaxTime \in Nat /\ Reads \in Nat

TRANS == -1           \* ANE_STATS_INFLIGHT_TRANS
Time == 0 .. MaxTime
Tickets == 1 .. Submits
Blank == [start |-> 0, end |-> 0]

VARIABLES
    clock,                                           \* ktime_get_ns()
    busy_ns, jobs, last_busy_end, max_end, inflight, \* ane_stats_counters
    head, seq, slot,                                 \* ane_stats_ring
    pc, sample, fold_end, ticket,   \* producers' locals; sample is submit_ns, then end_ns
    rd,         \* the reader's locals and where it is
    reads,      \* reads begun so far
    rec,        \* history: the fields each submission wrote
    line,       \* history: the last timeline line printed
    value,      \* history: the last busy_ns reported
    busy_max    \* history: the largest busy_ns reported before it

ctrVars == <<busy_ns, jobs, last_busy_end, max_end, inflight>>
ringVars == <<head, seq, slot, rec>>
prodVars == <<pc, sample, fold_end, ticket>>
readVars == <<rd, reads, line, value, busy_max>>
vars == <<clock, ctrVars, ringVars, prodVars, readVars>>

NoRead == [at |-> "idle", inflight |-> 0, raw |-> 0, s |-> 0, now |-> 0,
           ticket |-> 0, seq |-> 0, got |-> Blank]
NoLine == [ticket |-> 0, got |-> Blank, head |-> 0]

(* ane_stats_counters_init: counters, ring and slots from zero. *)
Init ==
    /\ clock = 0
    /\ busy_ns = 0 /\ jobs = 0 /\ last_busy_end = 0 /\ max_end = 0 /\ inflight = 0
    /\ head = 0
    /\ seq = [i \in 0 .. NSlots - 1 |-> 0]
    /\ slot = [i \in 0 .. NSlots - 1 |-> Blank]
    /\ rec = [n \in Tickets |-> Blank]
    /\ pc = [p \in Producers |-> "idle"]
    /\ sample = [p \in Producers |-> 0]
    /\ fold_end = [p \in Producers |-> 0]
    /\ ticket = [p \in Producers |-> 0]
    /\ rd = NoRead /\ reads = 0 /\ line = NoLine
    /\ value = 0 /\ busy_max = 0

Goto(p, from, to) == pc[p] = from /\ pc' = [pc EXCEPT ![p] = to]
Slot(n) == (n - 1) % NSlots
latest(a, b) == IF b > a THEN b ELSE a

tick ==
    /\ clock < MaxTime
    /\ clock' = clock + 1
    /\ UNCHANGED <<ctrVars, ringVars, prodVars, readVars>>

-----------------------------------------------------------------------------
(* ane_stats_begin(submit_ns).  Assumed of the callers: submissions in     *)
(* flight span fewer tickets than the ring has slots.  The ring has 256,   *)
(* and each driver calls under a lock.                                     *)

Begun == {r \in Producers : pc[r] = "begin"}

submit(p) ==
    /\ Goto(p, "idle", "begin")
    /\ head + Cardinality(Begun) < Submits /\ Cardinality(Begun) < NSlots
    /\ \A q \in Producers : pc[q] \notin {"idle", "begin"} =>
          head + Cardinality(Begun) + 1 < ticket[q] + NSlots
    /\ sample' = [sample EXCEPT ![p] = clock]
    /\ UNCHANGED <<clock, ctrVars, ringVars, readVars, fold_end, ticket>>

begin_ticket(p) ==
    /\ Goto(p, "begin", "join")
    /\ head' = head + 1
    /\ ticket' = [ticket EXCEPT ![p] = head + 1]
    /\ UNCHANGED <<clock, ctrVars, seq, slot, rec, readVars, sample, fold_end>>

begin_join(p) ==
    /\ inflight > 0
    /\ Goto(p, "join", "odd")
    /\ inflight' = inflight + 1
    /\ UNCHANGED <<clock, busy_ns, jobs, last_busy_end, max_end, ringVars,
                   readVars, sample, fold_end, ticket>>

begin_claim(p) ==
    /\ inflight = 0
    /\ Goto(p, "join", "latch")
    /\ inflight' = TRANS
    /\ UNCHANGED <<clock, busy_ns, jobs, last_busy_end, max_end, ringVars,
                   readVars, sample, fold_end, ticket>>

(* PeriodsAreUnion: the period opens at the caller's sample. *)
Bug_begin_latch(p) ==
    /\ Goto(p, "latch", "open")
    /\ last_busy_end' = sample[p]
    /\ UNCHANGED <<clock, busy_ns, jobs, max_end, inflight, ringVars, readVars,
                   sample, fold_end, ticket>>

begin_latch(p) ==
    /\ Goto(p, "latch", "open")
    /\ last_busy_end' = latest(max_end, sample[p])
    /\ UNCHANGED <<clock, busy_ns, jobs, max_end, inflight, ringVars, readVars,
                   sample, fold_end, ticket>>

begin_open(p) ==
    /\ Goto(p, "open", "odd")
    /\ inflight' = 1
    /\ UNCHANGED <<clock, busy_ns, jobs, last_busy_end, max_end, ringVars,
                   readVars, sample, fold_end, ticket>>

(* The slot: an odd seq, then the fields. *)
set_seq(p, from, to, n) ==
    /\ Goto(p, from, to)
    /\ seq' = [seq EXCEPT ![Slot(ticket[p])] = n]
    /\ UNCHANGED <<clock, ctrVars, head, slot, rec, readVars>>

return(p) ==
    /\ sample' = [sample EXCEPT ![p] = 0]
    /\ fold_end' = [fold_end EXCEPT ![p] = 0]
    /\ ticket' = [ticket EXCEPT ![p] = 0]

set_field(p, from, to, f, v) ==
    /\ Goto(p, from, to)
    /\ slot' = [slot EXCEPT ![Slot(ticket[p])][f] = v]
    /\ rec' = [rec EXCEPT ![ticket[p]][f] = v]
    /\ UNCHANGED <<clock, ctrVars, head, seq, readVars, sample, fold_end, ticket>>

begin_slot(p) ==
    \/ /\ set_seq(p, "odd", "set_start", 2 * ticket[p] - 1)
       /\ UNCHANGED <<sample, fold_end, ticket>>
    \/ set_field(p, "set_start", "set_end", "start", last_busy_end)
    \/ set_field(p, "set_end", "run", "end", sample[p])

-----------------------------------------------------------------------------
(* ane_stats_complete(ticket, end_ns).  Its branch for an idle engine      *)
(* (inflight = 0, count the job and fold nothing) is not a step: by        *)
(* InflightExact no producer gets there.                                   *)

finish(p) ==
    /\ Goto(p, "run", "feed")
    /\ sample' = [sample EXCEPT ![p] = clock]
    /\ UNCHANGED <<clock, ctrVars, ringVars, readVars, fold_end, ticket>>

complete_feed(p) ==
    /\ Goto(p, "feed", "leave")
    /\ max_end' = latest(max_end, sample[p])
    /\ UNCHANGED <<clock, busy_ns, jobs, last_busy_end, inflight, ringVars,
                   readVars, sample, fold_end, ticket>>

complete_leave(p) ==
    /\ inflight > 1
    /\ Goto(p, "leave", "last_end")
    /\ inflight' = inflight - 1
    /\ fold_end' = [fold_end EXCEPT ![p] = 0]
    /\ jobs' = jobs + 1
    /\ UNCHANGED <<clock, busy_ns, last_busy_end, max_end, ringVars,
                   readVars, sample, ticket>>

(* InflightExact: any completion may fold, not only the last one. *)
Bug_complete_drain(p) ==
    /\ inflight >= 1
    /\ Goto(p, "leave", "fold")
    /\ inflight' = TRANS
    /\ fold_end' = [fold_end EXCEPT ![p] = latest(max_end, sample[p])]
    /\ UNCHANGED <<clock, busy_ns, jobs, last_busy_end, max_end, ringVars,
                   readVars, sample, ticket>>

complete_drain(p) ==
    /\ inflight = 1
    /\ Goto(p, "leave", "fold")
    /\ inflight' = TRANS
    /\ fold_end' = [fold_end EXCEPT ![p] = latest(max_end, sample[p])]
    /\ UNCHANGED <<clock, busy_ns, jobs, last_busy_end, max_end, ringVars,
                   readVars, sample, ticket>>

(* TypeOK: the end is folded, not the span. *)
Bug_complete_fold(p) ==
    /\ Goto(p, "fold", "reopen")
    /\ busy_ns' = busy_ns + fold_end[p]
    /\ UNCHANGED <<clock, jobs, last_busy_end, max_end, inflight, ringVars,
                   readVars, sample, fold_end, ticket>>

complete_fold(p) ==
    /\ Goto(p, "fold", "reopen")
    /\ busy_ns' = busy_ns + latest(0, fold_end[p] - last_busy_end)
    /\ UNCHANGED <<clock, jobs, last_busy_end, max_end, inflight, ringVars,
                   readVars, sample, fold_end, ticket>>

complete_reopen(p) ==
    /\ Goto(p, "reopen", "last_end")
    /\ inflight' = 0
    /\ jobs' = jobs + 1
    /\ UNCHANGED <<clock, busy_ns, last_busy_end, max_end, ringVars,
                   readVars, sample, fold_end, ticket>>

(* TimelineExact: the slot is committed before its end_ns is stored. *)
Bug_complete_slot(p) ==
    \/ /\ set_seq(p, "last_end", "even", 2 * ticket[p])
       /\ UNCHANGED <<sample, fold_end, ticket>>
    \/ set_field(p, "even", "idle", "end",
                 IF fold_end[p] # 0 THEN fold_end[p] ELSE sample[p])

complete_slot(p) ==
    \/ set_field(p, "last_end", "even", "end",
                 IF fold_end[p] # 0 THEN fold_end[p] ELSE sample[p])
    \/ set_seq(p, "even", "idle", 2 * ticket[p]) /\ return(p)

-----------------------------------------------------------------------------
(* ane_stats_snapshot: read, take the time, read again. *)

Read(from, new) ==
    /\ rd.at = from
    /\ rd' = new
    /\ UNCHANGED <<clock, ctrVars, ringVars, prodVars, reads, line, value, busy_max>>

snapshot_begin ==
    /\ rd.at = "idle" /\ reads < Reads
    /\ rd' = [NoRead EXCEPT !.at = "inflight"]
    /\ reads' = reads + 1
    /\ UNCHANGED <<clock, ctrVars, ringVars, prodVars, line, value, busy_max>>

snapshot_read ==
    \/ /\ inflight # TRANS
       /\ Read("inflight", [rd EXCEPT !.at = "raw", !.inflight = inflight])
    \/ Read("raw", [rd EXCEPT !.at = IF rd.inflight > 0 THEN "s" ELSE "now",
                              !.raw = busy_ns])
    \/ Read("s", [rd EXCEPT !.at = "now", !.s = last_busy_end])
    \/ Read("now", [rd EXCEPT !.at = "recheck_busy", !.now = clock])

(* SnapshotElapsed: only the number in flight is read again. *)
Bug_snapshot_recheck ==
    \/ Read("recheck_busy", [rd EXCEPT !.at = "recheck"])
    \/ Read("recheck",
            [rd EXCEPT !.at = IF inflight # rd.inflight THEN "inflight" ELSE "report"])

snapshot_recheck ==
    \/ Read("recheck_busy",
            [rd EXCEPT !.at = IF busy_ns = rd.raw THEN "recheck" ELSE "inflight"])
    \/ Read("recheck",
            [rd EXCEPT !.at = IF inflight # rd.inflight THEN "inflight"
                              ELSE IF rd.inflight > 0 THEN "recheck_s" ELSE "report"])
    \/ Read("recheck_s",
            [rd EXCEPT !.at = IF last_busy_end = rd.s THEN "report" ELSE "inflight"])

snapshot_report ==
    /\ rd.at = "report"
    /\ rd' = NoRead
    /\ value' = rd.raw + IF rd.inflight > 0 THEN latest(0, rd.now - rd.s) ELSE 0
    /\ busy_max' = latest(busy_max, value)
    /\ UNCHANGED <<clock, ctrVars, ringVars, prodVars, reads, line>>

-----------------------------------------------------------------------------
(* ane_timeline_show, one line of it.  The file is opened at some earlier  *)
(* head, so n is any ticket handed out by now.                             *)

timeline_begin(n) ==
    /\ rd.at = "idle" /\ reads < Reads
    /\ n <= head
    /\ rd' = [NoRead EXCEPT !.at = "seq", !.ticket = n]
    /\ reads' = reads + 1
    /\ UNCHANGED <<clock, ctrVars, ringVars, prodVars, line, value, busy_max>>

timeline_read ==
    LET e == slot[Slot(rd.ticket)] IN
    \/ Read("seq", [rd EXCEPT !.at = "start", !.seq = seq[Slot(rd.ticket)]])
    \/ Read("start", [rd EXCEPT !.at = "end", !.got.start = e.start])
    \/ Read("end", [rd EXCEPT !.at = "print", !.got.end = e.end])

timeline_print ==
    /\ rd.at = "print"
    /\ rd' = NoRead
    /\ line' = IF rd.seq = 2 * rd.ticket
               THEN [ticket |-> rd.ticket, got |-> rd.got, head |-> head] ELSE line
    /\ UNCHANGED <<clock, ctrVars, ringVars, prodVars, reads, value, busy_max>>

-----------------------------------------------------------------------------
ProducerStep(p) ==
    \/ begin_ticket(p) \/ begin_join(p) \/ begin_claim(p) \/ begin_latch(p)
    \/ begin_open(p) \/ begin_slot(p)
    \/ finish(p) \/ complete_feed(p) \/ complete_leave(p) \/ complete_drain(p)
    \/ complete_fold(p) \/ complete_reopen(p) \/ complete_slot(p)

ReaderStep ==
    \/ snapshot_read \/ snapshot_recheck \/ snapshot_report
    \/ timeline_read \/ timeline_print

Next ==
    \/ tick
    \/ \E p \in Producers : submit(p) \/ ProducerStep(p)
    \/ snapshot_begin
    \/ \E n \in Tickets : timeline_begin(n)
    \/ ReaderStep

Spec == Init /\ [][Next]_vars

-----------------------------------------------------------------------------
Joined == {p \in Producers : pc[p] \in {"odd", "set_start", "set_end",
                                        "run", "feed", "leave"}}
Trans == {p \in Producers : pc[p] \in {"latch", "open", "fold", "reopen"}}

TypeOK ==
    /\ clock \in Time /\ busy_ns \in Time /\ last_busy_end \in Time /\ max_end \in Time
    /\ jobs \in 0 .. Submits /\ head \in 0 .. Submits
    /\ inflight \in {TRANS} \cup 0 .. Cardinality(Producers)
    /\ DOMAIN seq = DOMAIN slot
    /\ \A i \in DOMAIN seq : seq[i] \in 0 .. 2 * Submits

(* inflight counts the submissions in the open period exactly, and reads   *)
(* as the sentinel exactly while one producer opens or folds a period.  So *)
(* the branch of ane_stats_complete for an unbalanced completion is dead.  *)
InflightExact ==
    inflight = IF Trans = {} THEN Cardinality(Joined) ELSE TRANS

(* "so the slot union equals busy_ns exactly": once all submissions are    *)
(* committed, busy_ns is the size of the union of their [start_ns, end_ns) *)
(* intervals.  No time is folded twice, whatever stale samples the last    *)
(* submitter or the last completer brought.                                *)
Covered == UNION {rec[n].start .. rec[n].end - 1 : n \in 1 .. head}
PeriodsAreUnion ==
    (\A p \in Producers : pc[p] \in {"idle", "begin"}) => busy_ns = Cardinality(Covered)

(* A reported value is never more than the time since the counters were    *)
(* set up: no period is seen both live and folded.                         *)
SnapshotElapsed == rd.at = "report" =>
    rd.raw + (IF rd.inflight > 0 THEN latest(0, rd.now - rd.s) ELSE 0) <= rd.now

(* A timeline line is what its submission recorded, unless the ring came   *)
(* round to the slot while the line was read.                              *)
TimelineExact ==
    line.ticket # 0 /\ line.head < line.ticket + NSlots => line.got = rec[line.ticket]

(* ane_stats_show.c: "torn reads are impossible by construction".          *)
TimelineNeverTorn == line.ticket # 0 => line.got = rec[line.ticket]

(* ane_stats.h: "Over the timeline the reported value is non-decreasing".  *)
BusyMonotone == value >= busy_max
=============================================================================
