--------------------------- MODULE AneStatsProofs ---------------------------
(***************************************************************************)
(* Proofs about AneStats, for every number of producers, slots,            *)
(* submissions, clock ticks and reads.  IInv is the inductive invariant    *)
(* behind them.                                                            *)
(***************************************************************************)
EXTENDS AneStats, FiniteSetTheorems, TLAPS

ProducerPcs == {"idle", "begin", "join", "latch", "open", "odd", "set_start", "set_end",
                "run", "feed", "leave", "fold", "reopen", "last_end", "even"}
ReaderPcs == {"idle", "inflight", "raw", "s", "now", "recheck_busy", "recheck",
              "recheck_s", "report", "seq", "start", "end", "print"}
Fields == [start : Nat, end : Nat]

CtrType ==
    /\ clock \in Time
    /\ busy_ns \in Nat /\ jobs \in Nat /\ last_busy_end \in Nat /\ max_end \in Nat
    /\ inflight \in Int
RingType ==
    /\ head \in Nat
    /\ seq \in [0 .. NSlots - 1 -> 0 .. 2 * Submits]
    /\ slot \in [0 .. NSlots - 1 -> Fields]
    /\ rec \in [Tickets -> Fields]
ProdType ==
    /\ pc \in [Producers -> ProducerPcs]
    /\ sample \in [Producers -> Nat]
    /\ fold_end \in [Producers -> Nat]
    /\ ticket \in [Producers -> Nat]
ReadLocals == [at : ReaderPcs, inflight : Nat, raw : Nat, s : Nat, now : Nat,
               ticket : 0 .. Submits, seq : Nat, got : Fields]
ReadType ==
    /\ rd \in ReadLocals
    /\ reads \in Nat
    /\ line \in [ticket : 0 .. Submits, got : Fields, head : Nat]
    /\ value \in Nat /\ busy_max \in Nat

(* Which producers hold a ticket, and which have not counted their job.    *)
Holds(p) == pc[p] \notin {"idle", "begin"}
Uncounted == {p \in Producers : pc[p] \notin {"idle", "begin", "last_end", "even"}}

(* inflight: one producer at a time opens or folds, with none joined. *)
CountInv ==
    /\ InflightExact
    /\ \A p, q \in Trans : p = q
    /\ Trans # {} => Joined = {}

(* Tickets: distinct, handed out up to head, and in flight within one      *)
(* round of the ring.                                                      *)
TicketInv ==
    /\ head + Cardinality(Begun) <= Submits /\ Cardinality(Begun) <= NSlots
    /\ jobs + Cardinality(Uncounted) = head
    /\ \A p \in Producers : Holds(p) =>
          ticket[p] \in 1 .. head /\ head + Cardinality(Begun) < ticket[p] + NSlots
    /\ \A p, q \in Producers : Holds(p) /\ Holds(q) /\ ticket[p] = ticket[q] => p = q

(* A period is open from the latch of its start to the fold of its end.    *)
Open == Joined # {} \/ \E p \in Producers : pc[p] \in {"open", "fold"}

(* The clock is ahead of every sample; a completion brings a later time    *)
(* than the period's start and feeds it to max_end before it leaves; what  *)
(* was folded fits before the start of the open period, or before max_end. *)
TimeInv ==
    /\ last_busy_end <= clock /\ max_end <= clock
    /\ \A p \in Producers : sample[p] <= clock
    /\ \A p \in Producers : pc[p] \in {"feed", "leave"} => last_busy_end <= sample[p]
    /\ \A p \in Producers : pc[p] \in {"leave", "fold", "reopen", "last_end"} =>
          sample[p] <= max_end
    /\ \A p \in Producers : pc[p] \in {"fold", "reopen"} =>
          fold_end[p] = max_end /\ last_busy_end <= max_end
    /\ \A p \in Producers : fold_end[p] <= max_end
    /\ busy_ns <= IF Open THEN last_busy_end ELSE max_end
    /\ ~Open => last_busy_end <= max_end

(* The snapshot: busy_ns only grows, and while it found the engine busy    *)
(* what it read was folded before the open period's start.                 *)
SnapInv ==
    /\ rd.raw <= busy_ns
    /\ rd.at \in {"recheck_busy", "recheck", "recheck_s", "report"} =>
          rd.raw <= rd.now /\ rd.now <= clock
    /\ rd.at = "recheck_s" => rd.raw <= last_busy_end
    /\ rd.at = "report" /\ rd.inflight > 0 => rd.raw <= rd.s

(* The times counted as busy: the intervals of the submissions whose last  *)
(* end_ns is stored, and of those that are about to store it.              *)
DonePcs == {"reopen", "last_end"}
End(p) == IF fold_end[p] # 0 THEN fold_end[p] ELSE sample[p]
Pending(p) == Holds(p) /\ pc[p] # "even"
Final(n) == n \in 1 .. head /\ \A p \in Producers : Pending(p) => ticket[p] # n
Busy ==
    {t \in Nat :
       \/ \E n \in Tickets : Final(n) /\ rec[n].start <= t /\ t < rec[n].end
       \/ \E p \in Producers : /\ pc[p] \in DonePcs
                               /\ rec[ticket[p]].start <= t /\ t < End(p)}

(* A submission of the open period starts where the period does. *)
StartPcs == {"set_end", "run", "feed", "leave", "fold"}
Starts == \A q \in Producers : pc[q] \in StartPcs => rec[ticket[q]].start = last_busy_end

(* What is folded: the times before the open period, or all of them. *)
BusyInv ==
    /\ \A t \in Busy : t < max_end
    /\ busy_ns = IF Open THEN Cardinality(Busy \cap 0 .. last_busy_end - 1)
                 ELSE Cardinality(Busy)
    /\ Starts

(* The slots: a submission's slot holds its fields from the time they are  *)
(* written until the ring comes round.                                     *)
Committed(n) == n \in 1 .. head /\ \A p \in Producers : Holds(p) => ticket[p] # n
StoredPcs == {"run", "feed", "leave", "fold", "reopen", "last_end", "even"}
SlotInv ==
    /\ \A p \in Producers : pc[p] = "set_end" =>
          slot[Slot(ticket[p])].start = rec[ticket[p]].start
    /\ \A p \in Producers : pc[p] \in StoredPcs => slot[Slot(ticket[p])] = rec[ticket[p]]
    /\ \A n \in Tickets : Committed(n) /\ head < n + NSlots => slot[Slot(n)] = rec[n]
    /\ \A i \in 0 .. NSlots - 1, n \in Tickets : seq[i] = 2 * n => Committed(n)

(* The timeline: an even seq was of a committed submission. *)
LineInv ==
    /\ rd.at \in {"seq", "start", "end", "print"} => rd.ticket \in Tickets
    /\ rd.at \in {"start", "end", "print"} /\ rd.seq = 2 * rd.ticket => Committed(rd.ticket)
    /\ rd.at \in {"end", "print"} /\ rd.seq = 2 * rd.ticket
          /\ head < rd.ticket + NSlots => rd.got.start = rec[rd.ticket].start
    /\ rd.at = "print" /\ rd.seq = 2 * rd.ticket
          /\ head < rd.ticket + NSlots => rd.got = rec[rd.ticket]
    /\ line.ticket # 0 => Committed(line.ticket)
    /\ TimelineExact

IInv ==
    /\ CtrType /\ RingType /\ ProdType /\ ReadType
    /\ CountInv /\ TicketInv /\ TimeInv /\ SnapInv /\ BusyInv /\ SlotInv /\ LineInv

USE AneStatsAssumption, ZenonT(30)

-----------------------------------------------------------------------------
(* The ring's arithmetic. *)

LEMMA SlotType == \A n \in Int : Slot(n) \in 0 .. NSlots - 1
BY SMTT(30) DEF Slot

(* Two tickets of the same round of the ring do not share a slot. *)
LEMMA SlotsDiffer ==
  ASSUME NEW a \in Int, NEW b \in Int, NEW h \in Int, a <= h, b <= h,
         h < a + NSlots, h < b + NSlots, Slot(a) = Slot(b)
  PROVE  a = b
<1> DEFINE N == NSlots
           qa == (a - 1) \div N
           qb == (b - 1) \div N
<1>1. /\ qa \in Int /\ qb \in Int
      /\ a - 1 = N * qa + Slot(a)
      /\ b - 1 = N * qb + Slot(b)
  BY SMTT(30) DEF Slot
<1> HIDE DEF N, qa, qb
<1>2. N \in Nat /\ N > 0 /\ a - b < N /\ b - a < N
  BY SMTT(30) DEF N
<1>3. Slot(a) \in Int /\ Slot(b) \in Int
  BY SlotType, SMTT(30)
<1>4. a - b = N * qa - N * qb
  BY <1>1, <1>2, <1>3, SMTT(30)
<1>5. N * qa - N * qb = N * (qa - qb)
  BY <1>1, <1>2, SMTT(30)
<1> DEFINE d == qa - qb
<1>6. d \in Int /\ a - b = N * d
  BY <1>1, <1>4, <1>5, SMTT(30)
<1> HIDE DEF d
<1>7. ~(d >= 1)
  <2> SUFFICES ASSUME d >= 1 PROVE FALSE
    OBVIOUS
  <2>1. N * d >= N
    BY <1>2, <1>6, SMTT(30)
  <2> QED
    BY <2>1, <1>2, <1>6, SMTT(30)
<1>8. ~(d <= -1)
  <2> SUFFICES ASSUME d <= -1 PROVE FALSE
    OBVIOUS
  <2>1. N * d <= -N
    BY <1>2, <1>6, SMTT(30)
  <2> QED
    BY <2>1, <1>2, <1>6, SMTT(30)
<1> QED
  BY <1>2, <1>6, <1>7, <1>8, SMTT(30)

LEMMA FieldType ==
  ASSUME NEW r \in Fields, NEW v \in Nat
  PROVE  /\ [r EXCEPT !["start"] = v] \in Fields /\ [r EXCEPT !["end"] = v] \in Fields
         /\ [r EXCEPT !["start"] = v].start = v /\ [r EXCEPT !["start"] = v].end = r.end
         /\ [r EXCEPT !["end"] = v].end = v /\ [r EXCEPT !["end"] = v].start = r.start
BY DEF Fields

LEMMA FieldEqual ==
  ASSUME NEW r \in Fields, NEW q \in Fields, r.start = q.start, r.end = q.end
  PROVE  r = q
BY SMTT(30) DEF Fields

-----------------------------------------------------------------------------
LEMMA InitIInv == Init => IInv
<1> SUFFICES ASSUME Init PROVE IInv
  OBVIOUS
<1> USE DEF Init
<1>0. Blank \in Fields
  BY DEF Blank, Fields
<1>1. CtrType
  BY SMTT(30) DEF CtrType, Time
<1>2. RingType
  BY <1>0, SMTT(30) DEF RingType, Tickets
<1>3. ProdType
  BY DEF ProdType, ProducerPcs
<1>4. ReadType
  BY <1>0, SMTT(30) DEF ReadType, ReadLocals, NoRead, NoLine, ReaderPcs
<1>5. Joined = {} /\ Trans = {} /\ Begun = {} /\ Uncounted = {} /\ ~Open
  BY DEF Joined, Trans, Begun, Uncounted, Open
<1>6. CountInv
  BY <1>5, FS_EmptySet DEF CountInv, InflightExact
<1>7. TicketInv
  BY <1>5, FS_EmptySet, SMTT(30) DEF TicketInv, Holds
<1>8. TimeInv /\ SnapInv
  BY <1>5, SMTT(30) DEF TimeInv, SnapInv, NoRead
<1>9. BusyInv
  <2>0. head = 0 /\ busy_ns = 0 /\ \A q \in Producers : pc[q] = "idle"
    OBVIOUS
  <2>1. Busy = {}
    BY ONLY <2>0 DEF Busy, Final, DonePcs
  <2>2. Cardinality(Busy) = 0
    BY ONLY <2>1, FS_EmptySet, ZenonT(30)
  <2>3. Starts
    BY ONLY <2>0, ZenonT(30) DEF Starts, StartPcs
  <2> QED
    BY ONLY <1>5, <2>0, <2>1, <2>2, <2>3, ZenonT(30) DEF BusyInv
<1>10. SlotInv
  <2>0. /\ head = 0 /\ \A q \in Producers : pc[q] = "idle"
        /\ \A i \in 0 .. NSlots - 1 : seq[i] = 0
    OBVIOUS
  <2>1. \A n \in Tickets : ~Committed(n) /\ 2 * n # 0
    BY ONLY <2>0, AneStatsAssumption DEF Committed, Tickets
  <2> QED
    BY ONLY <2>0, <2>1, ZenonT(30) DEF SlotInv, StoredPcs
<1>11. LineInv
  BY DEF LineInv, TimelineExact, NoRead, NoLine
<1> QED
  BY <1>1, <1>2, <1>3, <1>4, <1>6, <1>7, <1>8, <1>9, <1>10, <1>11 DEF IInv

-----------------------------------------------------------------------------
(* A producer's step: types. *)

Step(p) == submit(p) \/ ProducerStep(p)

(* What every step of a producer does to pc, and what it leaves alone.     *)
LEMMA StepFrame ==
  ASSUME NEW p \in Producers, ProdType, Step(p)
  PROVE  /\ \A q \in Producers \ {p} : /\ pc'[q] = pc[q] /\ sample'[q] = sample[q]
                                       /\ fold_end'[q] = fold_end[q]
                                       /\ ticket'[q] = ticket[q]
         /\ UNCHANGED <<clock, readVars>>
<1> USE DEF Step, ProducerStep, ProdType, Goto
<1>1. UNCHANGED <<clock, readVars>>
  BY DEF submit, begin_ticket, begin_join, begin_claim, begin_latch, begin_open,
         begin_slot, finish, complete_feed, complete_leave, complete_drain, complete_fold,
         complete_reopen, complete_slot, set_seq, set_field
<1>2. \A q \in Producers \ {p} : pc'[q] = pc[q]
  BY DEF submit, begin_ticket, begin_join, begin_claim, begin_latch, begin_open,
         begin_slot, finish, complete_feed, complete_leave, complete_drain, complete_fold,
         complete_reopen, complete_slot, set_seq, set_field
<1>3. \A q \in Producers \ {p} : sample'[q] = sample[q] /\ fold_end'[q] = fold_end[q]
                                 /\ ticket'[q] = ticket[q]
  BY DEF submit, begin_ticket, begin_join, begin_claim, begin_latch, begin_open,
         begin_slot, finish, complete_feed, complete_leave, complete_drain, complete_fold,
         complete_reopen, complete_slot, set_seq, set_field, return, prodVars
<1> QED
  BY <1>1, <1>2, <1>3

LEMMA ProdTypeStep ==
  ASSUME NEW p \in Producers, CtrType, RingType, ProdType, Step(p)
  PROVE  ProdType'
<1> USE DEF Step, ProducerStep, ProdType, Goto
<1>1. pc' \in [Producers -> ProducerPcs]
  BY DEF ProducerPcs, submit, begin_ticket, begin_join, begin_claim, begin_latch, begin_open,
         begin_slot, finish, complete_feed, complete_leave, complete_drain, complete_fold,
         complete_reopen, complete_slot, set_seq, set_field
<1>2. sample' \in [Producers -> Nat]
  BY SMTT(30) DEF CtrType, Time, submit, begin_ticket, begin_join, begin_claim, begin_latch, begin_open,
         begin_slot, finish, complete_feed, complete_leave, complete_drain, complete_fold,
         complete_reopen, complete_slot, set_seq, set_field, return
<1>3. ticket' \in [Producers -> Nat]
  <2>1. CASE ticket' = [ticket EXCEPT ![p] = head + 1]
    BY <2>1, SMTT(30) DEF RingType
  <2>2. CASE UNCHANGED ticket \/ ticket' = [ticket EXCEPT ![p] = 0]
    BY <2>2, SMTT(30)
  <2> QED
    BY <2>1, <2>2 DEF submit, begin_ticket, begin_join, begin_claim, begin_latch, begin_open,
         begin_slot, finish, complete_feed, complete_leave, complete_drain, complete_fold,
         complete_reopen, complete_slot, set_seq, set_field, return
<1>4. fold_end' \in [Producers -> Nat]
  <2>1. CASE complete_drain(p)
    <3>1. latest(max_end, sample[p]) \in Nat
      BY DEF CtrType, latest
    <3> QED
      BY <2>1, <3>1 DEF complete_drain
  <2>2. CASE UNCHANGED fold_end \/ fold_end' = [fold_end EXCEPT ![p] = 0]
    BY <2>2, SMTT(30)
  <2> QED
    BY <2>1, <2>2 DEF submit, begin_ticket, begin_join, begin_claim, begin_latch, begin_open,
         begin_slot, finish, complete_feed, complete_leave, complete_drain, complete_fold,
         complete_reopen, complete_slot, set_seq, set_field, return
<1> QED
  BY <1>1, <1>2, <1>3, <1>4

LEMMA CtrTypeStep ==
  ASSUME NEW p \in Producers, CtrType, ProdType, Step(p)
  PROVE  CtrType'
BY SMTT(30) DEF CtrType, ProdType, Time, latest, TRANS, ctrVars, Step, ProducerStep,
       submit, begin_ticket, begin_join, begin_claim, begin_latch, begin_open,
       begin_slot, finish, complete_feed, complete_leave, complete_drain, complete_fold,
       complete_reopen, complete_slot, set_seq, set_field

(* The two fields of a slot, and their record. *)
LEMMA SetFieldType ==
  ASSUME NEW t \in Tickets, NEW v \in Nat, RingType, NEW f \in {"start", "end"},
         slot' = [slot EXCEPT ![Slot(t)][f] = v], rec' = [rec EXCEPT ![t][f] = v]
  PROVE  /\ slot' \in [0 .. NSlots - 1 -> Fields] /\ rec' \in [Tickets -> Fields]
         /\ slot'[Slot(t)] = [slot[Slot(t)] EXCEPT ![f] = v]
         /\ rec'[t] = [rec[t] EXCEPT ![f] = v]
         /\ \A i \in 0 .. NSlots - 1 : i # Slot(t) => slot'[i] = slot[i]
         /\ \A n \in Tickets : n # t => rec'[n] = rec[n]
<1>1. Slot(t) \in 0 .. NSlots - 1
  BY SlotType, SMTT(30) DEF Tickets
<1>2. slot[Slot(t)] \in Fields /\ rec[t] \in Fields
  BY <1>1 DEF RingType
<1>3. [slot[Slot(t)] EXCEPT ![f] = v] \in Fields /\ [rec[t] EXCEPT ![f] = v] \in Fields
  BY <1>2, FieldType
<1> QED
  BY <1>1, <1>3 DEF RingType

LEMMA RingTypeStep ==
  ASSUME NEW p \in Producers, CtrType, RingType, ProdType, TicketInv, Step(p)
  PROVE  RingType'
<1>1. head \in 0 .. Submits
  BY FS_CardinalityType, FS_Subset, SMTT(30) DEF TicketInv, RingType, Begun
<1>2. Holds(p) => ticket[p] \in Tickets /\ ticket[p] \in 1 .. Submits
  BY <1>1, SMTT(30) DEF TicketInv, RingType, Tickets
<1>3. CASE begin_slot(p) \/ complete_slot(p)
  <2>1. Holds(p)
    BY <1>3 DEF Holds, begin_slot, complete_slot, set_seq, set_field, Goto
  <2>2. CASE \E from, to : \E v \in Nat : \E f \in {"start", "end"} :
                set_field(p, from, to, f, v)
    BY <2>1, <2>2, <1>2, SetFieldType DEF set_field, RingType
  <2>3. CASE \E from, to : \E n \in 0 .. 2 * Submits : set_seq(p, from, to, n)
    BY <2>3 DEF set_seq, RingType
  <2>4. last_busy_end \in Nat /\ sample[p] \in Nat /\ fold_end[p] \in Nat
    BY DEF CtrType, ProdType
  <2>5. 2 * ticket[p] \in 0 .. 2 * Submits /\ 2 * ticket[p] - 1 \in 0 .. 2 * Submits
    BY <2>1, <1>2, SMTT(30)
  <2> QED
    BY <1>3, <2>2, <2>3, <2>4, <2>5 DEF begin_slot, complete_slot
<1>4. CASE begin_ticket(p)
  BY <1>4, SMTT(30) DEF begin_ticket, RingType
<1>5. CASE UNCHANGED ringVars
  BY <1>5 DEF ringVars, RingType
<1> QED
  BY <1>3, <1>4, <1>5 DEF Step, ProducerStep, submit, begin_join, begin_claim, begin_latch,
     begin_open, finish, complete_feed, complete_leave, complete_drain, complete_fold,
     complete_reopen

-----------------------------------------------------------------------------
(* inflight. *)

LEMMA ProducerSets ==
  IsFiniteSet(Joined) /\ IsFiniteSet(Begun) /\ IsFiniteSet(Uncounted)
<1>1. Joined \subseteq Producers /\ Begun \subseteq Producers /\ Uncounted \subseteq Producers
  BY DEF Joined, Begun, Uncounted
<1> QED
  BY <1>1, FS_Subset

LEMMA CountStep ==
  ASSUME NEW p \in Producers, CtrType, ProdType, CountInv, Step(p)
  PROVE  CountInv'
<1> USE DEF ProdType
<1>1. IsFiniteSet(Joined) /\ Cardinality(Joined) \in Nat /\ TRANS = -1
  BY ProducerSets, FS_CardinalityType DEF TRANS
<1>2. ASSUME Joined' = Joined, Trans' = Trans, inflight' = inflight PROVE CountInv'
  BY <1>2 DEF CountInv, InflightExact
<1>3. CASE \/ submit(p) \/ begin_ticket(p) \/ complete_slot(p)
           \/ begin_slot(p) \/ finish(p) \/ complete_feed(p)
           \/ begin_latch(p) \/ complete_fold(p)
  <2>1. inflight' = inflight
    BY <1>3 DEF ctrVars, submit, begin_ticket, complete_slot, begin_slot, finish,
       complete_feed, begin_latch, complete_fold, set_seq, set_field
  <2>2. Joined' = Joined /\ Trans' = Trans
    BY <1>3 DEF Joined, Trans, Goto, submit, begin_ticket, complete_slot, begin_slot,
       finish, complete_feed, begin_latch, complete_fold, set_seq, set_field
  <2> QED
    BY <1>2, <2>1, <2>2
<1>4. CASE begin_join(p)
  <2>1. Trans' = Trans /\ Joined' = Joined \cup {p} /\ p \notin Joined
    BY <1>4 DEF Joined, Trans, Goto, begin_join
  <2>2. Trans = {} /\ inflight = Cardinality(Joined) /\ inflight' = inflight + 1
    BY <1>1, <1>4, SMTT(30) DEF begin_join, CountInv, InflightExact
  <2>3. Cardinality(Joined') = Cardinality(Joined) + 1
    BY <1>1, <2>1, FS_AddElement
  <2> QED
    BY <2>1, <2>2, <2>3 DEF CountInv, InflightExact
<1>5. CASE begin_claim(p)
  <2>1. Trans = {} /\ Joined = {} /\ inflight' = TRANS
    BY <1>1, <1>5, FS_EmptySet, SMTT(30) DEF begin_claim, CountInv, InflightExact
  <2>2. Trans' = {p} /\ Joined' = {}
    BY <1>5, <2>1 DEF Joined, Trans, Goto, begin_claim
  <2> QED
    BY <2>1, <2>2 DEF CountInv, InflightExact
<1>6. CASE begin_open(p)
  <2>1. Trans = {p} /\ Joined = {} /\ inflight' = 1
    BY <1>6 DEF Trans, Goto, begin_open, CountInv
  <2>2. Trans' = {} /\ Joined' = {p}
    BY <1>6, <2>1 DEF Joined, Trans, Goto, begin_open
  <2> QED
    BY <2>1, <2>2, FS_Singleton DEF CountInv, InflightExact
<1>7. CASE complete_leave(p)
  <2>1. p \in Joined /\ Trans = {} /\ inflight = Cardinality(Joined) /\ inflight' = inflight - 1
    BY <1>7 DEF Joined, Goto, complete_leave, CountInv, InflightExact
  <2>2. Trans' = {} /\ Joined' = Joined \ {p}
    BY <1>7, <2>1 DEF Joined, Trans, Goto, complete_leave
  <2>3. Cardinality(Joined') = Cardinality(Joined) - 1
    BY <1>1, <2>1, <2>2, FS_RemoveElement
  <2> QED
    BY <2>1, <2>2, <2>3 DEF CountInv, InflightExact
<1>8. CASE complete_drain(p)
  <2>1. p \in Joined /\ Trans = {} /\ Cardinality(Joined) = 1 /\ inflight' = TRANS
    BY <1>8 DEF Joined, Goto, complete_drain, CountInv, InflightExact
  <2>2. Joined = {p}
    BY <1>1, <2>1, FS_Singleton, SMTT(30)
  <2>3. Trans' = {p} /\ Joined' = {}
    BY <1>8, <2>1, <2>2, SMTT(30) DEF Joined, Trans, Goto, complete_drain
  <2> QED
    BY <2>1, <2>3 DEF CountInv, InflightExact
<1>9. CASE complete_reopen(p)
  <2>1. Trans = {p} /\ Joined = {} /\ inflight' = 0
    BY <1>9 DEF Trans, Goto, complete_reopen, CountInv
  <2>2. Trans' = {} /\ Joined' = {}
    BY <1>9, <2>1 DEF Joined, Trans, Goto, complete_reopen
  <2> QED
    BY <2>1, <2>2, FS_EmptySet DEF CountInv, InflightExact
<1> QED
  BY <1>3, <1>4, <1>5, <1>6, <1>7, <1>8, <1>9 DEF Step, ProducerStep

-----------------------------------------------------------------------------
(* Tickets. *)

LEMMA TicketStep ==
  ASSUME NEW p \in Producers, CtrType, RingType, ProdType, TicketInv, Step(p)
  PROVE  TicketInv'
<1> USE DEF ProdType, CtrType, RingType
<1>1. /\ IsFiniteSet(Begun) /\ Cardinality(Begun) \in Nat
      /\ IsFiniteSet(Uncounted) /\ Cardinality(Uncounted) \in Nat
  BY ProducerSets, FS_CardinalityType
<1>0. head \in Nat /\ jobs \in Nat /\ NSlots \in Nat /\ Submits \in Nat
  OBVIOUS
<1>2. ASSUME UNCHANGED <<head, jobs>>, Begun' = Begun, Uncounted' = Uncounted,
             \A q \in Producers : Holds(q)' => Holds(q) /\ ticket'[q] = ticket[q]
      PROVE  TicketInv'
  BY <1>2 DEF TicketInv
<1>3. CASE submit(p)
  <2>1. /\ Begun' = Begun \cup {p} /\ p \notin Begun /\ Uncounted' = Uncounted
        /\ UNCHANGED <<head, jobs, ticket>>
        /\ \A q \in Producers : Holds(q)' <=> Holds(q)
    BY <1>3 DEF submit, Goto, Begun, Uncounted, Holds, ctrVars, ringVars
  <2>2. Cardinality(Begun') = Cardinality(Begun) + 1
    BY <1>1, <2>1, FS_AddElement
  <2>3. /\ head + Cardinality(Begun) < Submits /\ Cardinality(Begun) < NSlots
        /\ \A q \in Producers : Holds(q) => head + Cardinality(Begun) + 1 < ticket[q] + NSlots
    BY <1>3 DEF submit, Holds
  <2>4. \A q \in Producers : Holds(q)' =>
           ticket'[q] \in 1 .. head' /\ head' + Cardinality(Begun') < ticket'[q] + NSlots
    <3> TAKE q \in Producers
    <3> HAVE Holds(q)'
    <3>1. Holds(q) /\ ticket'[q] = ticket[q] /\ ticket[q] \in Nat
      BY <2>1
    <3> QED
      BY <1>1, <2>1, <2>2, <2>3, <3>1, SMTT(30) DEF TicketInv
  <2>5. \A q, r \in Producers : Holds(q)' /\ Holds(r)' /\ ticket'[q] = ticket'[r] => q = r
    BY <2>1 DEF TicketInv
  <2>6. head' + Cardinality(Begun') <= Submits /\ Cardinality(Begun') <= NSlots
        /\ jobs' + Cardinality(Uncounted') = head'
    <3>1. UNCHANGED <<head, jobs>> /\ Uncounted' = Uncounted
      BY <2>1
    <3> QED
      BY ONLY <1>0, <1>1, <2>2, <2>3, <3>1, TicketInv DEF TicketInv
  <2> QED
    BY <2>4, <2>5, <2>6 DEF TicketInv
<1>4. CASE begin_ticket(p)
  <2>1. /\ Begun' = Begun \ {p} /\ p \in Begun
        /\ Uncounted' = Uncounted \cup {p} /\ p \notin Uncounted
        /\ head' = head + 1 /\ jobs' = jobs /\ ticket'[p] = head + 1
    BY <1>4 DEF begin_ticket, Goto, Begun, Uncounted, ctrVars
  <2>2. \A q \in Producers \ {p} : (Holds(q)' <=> Holds(q)) /\ ticket'[q] = ticket[q]
    BY <1>4 DEF begin_ticket, Goto, Holds
  <2>3. /\ Cardinality(Begun') = Cardinality(Begun) - 1
        /\ Cardinality(Uncounted') = Cardinality(Uncounted) + 1
    BY <1>1, <2>1, FS_AddElement, FS_RemoveElement
  <2>4. \A q \in Producers : Holds(q)' =>
           ticket'[q] \in 1 .. head' /\ head' + Cardinality(Begun') < ticket'[q] + NSlots
    <3> TAKE q \in Producers
    <3> HAVE Holds(q)'
    <3>0. head' = head + 1
      BY <2>1
    <3>1. CASE q = p
      <4>1. ticket'[q] = head + 1
        BY <2>1, <3>1
      <4> QED
        BY ONLY <1>0, <1>1, <2>3, <3>0, <4>1, TicketInv DEF TicketInv
    <3>2. CASE q # p
      <4>1. Holds(q) /\ ticket'[q] = ticket[q] /\ ticket[q] \in Nat
        BY <2>2, <3>2
      <4>2. ticket[q] \in 1 .. head /\ head + Cardinality(Begun) < ticket[q] + NSlots
        BY <4>1 DEF TicketInv
      <4> QED
        BY ONLY <1>0, <1>1, <2>3, <3>0, <4>1, <4>2
    <3> QED
      BY <3>1, <3>2
  <2>5. \A q, r \in Producers : Holds(q)' /\ Holds(r)' /\ ticket'[q] = ticket'[r] => q = r
    <3> TAKE q, r \in Producers
    <3> HAVE Holds(q)' /\ Holds(r)' /\ ticket'[q] = ticket'[r]
    <3>1. \A u \in Producers : Holds(u) => ticket[u] # head + 1
      BY ONLY <1>0, TicketInv DEF TicketInv
    <3>2. \A u \in Producers \ {p} : Holds(u)' => Holds(u) /\ ticket'[u] # head + 1
      BY ONLY <2>2, <3>1, ZenonT(30)
    <3>3. ticket'[p] = head + 1
      BY <2>1
    <3> QED
      BY ONLY <2>2, <3>2, <3>3, q \in Producers, r \in Producers, TicketInv,
              Holds(q)' /\ Holds(r)' /\ ticket'[q] = ticket'[r], ZenonT(30) DEF TicketInv
  <2>6. head' + Cardinality(Begun') <= Submits /\ Cardinality(Begun') <= NSlots
        /\ jobs' + Cardinality(Uncounted') = head'
    <3>1. head' = head + 1 /\ jobs' = jobs
      BY <2>1
    <3> QED
      BY ONLY <1>0, <1>1, <2>3, <3>1, TicketInv DEF TicketInv
  <2> QED
    BY <2>4, <2>5, <2>6 DEF TicketInv
<1>5. CASE complete_leave(p) \/ complete_reopen(p)
  <2>1. /\ Begun' = Begun
        /\ Uncounted' = Uncounted \ {p} /\ p \in Uncounted
        /\ head' = head /\ jobs' = jobs + 1 /\ ticket' = ticket
        /\ \A q \in Producers : Holds(q)' <=> Holds(q)
    BY <1>5 DEF complete_leave, complete_reopen, Goto, Begun, Uncounted, Holds, ringVars
  <2>2. Cardinality(Uncounted') = Cardinality(Uncounted) - 1
    BY <1>1, <2>1, FS_RemoveElement
  <2>3. jobs' + Cardinality(Uncounted') = head'
    BY ONLY <1>0, <1>1, <2>1, <2>2, TicketInv DEF TicketInv
  <2> QED
    BY <2>1, <2>3 DEF TicketInv
<1>6. CASE complete_slot(p)
  <2>1. Begun' = Begun /\ Uncounted' = Uncounted /\ UNCHANGED <<head, jobs>>
    BY <1>6 DEF complete_slot, set_seq, set_field, Goto, Begun, Uncounted, ctrVars
  <2>2. \A q \in Producers : Holds(q)' => Holds(q) /\ ticket'[q] = ticket[q]
    BY <1>6 DEF complete_slot, set_seq, set_field, return, Goto, Holds
  <2> QED
    BY <1>2, <2>1, <2>2
<1>7. CASE \/ begin_join(p) \/ begin_claim(p) \/ begin_latch(p) \/ begin_open(p)
           \/ begin_slot(p) \/ finish(p) \/ complete_feed(p) \/ complete_drain(p)
           \/ complete_fold(p)
  <2>1. UNCHANGED <<head, jobs, ticket>>
    BY <1>7 DEF begin_join, begin_claim, begin_latch, begin_open, begin_slot, finish,
       complete_feed, complete_drain, complete_fold, set_seq, set_field, ctrVars, ringVars
  <2>2. /\ Begun' = Begun /\ Uncounted' = Uncounted
        /\ \A q \in Producers : Holds(q)' <=> Holds(q)
    BY <1>7 DEF begin_join, begin_claim, begin_latch, begin_open, begin_slot, finish,
       complete_feed, complete_drain, complete_fold, set_seq, set_field,
       Goto, Begun, Uncounted, Holds
  <2> QED
    BY <1>2, <2>1, <2>2
<1> QED
  BY <1>3, <1>4, <1>5, <1>6, <1>7 DEF Step, ProducerStep

-----------------------------------------------------------------------------
(* Time. *)

LEMMA TimeStep ==
  ASSUME NEW p \in Producers, CtrType, ProdType, CountInv, TimeInv, Step(p)
  PROVE  TimeInv'
<1> USE DEF ProdType, CtrType, Time
<1>1. ASSUME UNCHANGED <<clock, busy_ns, last_busy_end, max_end>>, Open' = Open,
             \A q \in Producers : sample'[q] \in {sample[q], 0, clock},
             \A q \in Producers : fold_end'[q] \in {fold_end[q], 0},
             \A q \in Producers : pc'[q] \in {"feed", "leave"} =>
                pc'[q] = pc[q] /\ sample'[q] = sample[q],
             \A q \in Producers : pc'[q] \in {"feed", "leave", "fold", "reopen", "last_end"} =>
                pc'[q] = pc[q] /\ sample'[q] = sample[q] /\ fold_end'[q] = fold_end[q]
      PROVE  TimeInv'
  <2>0. /\ clock \in Nat /\ last_busy_end \in Nat /\ max_end \in Nat /\ busy_ns \in Nat
        /\ \A q \in Producers : sample[q] \in Nat /\ fold_end[q] \in Nat
    BY SMTT(30)
  <2>1. /\ last_busy_end' <= clock' /\ max_end' <= clock'
        /\ busy_ns' <= (IF Open' THEN last_busy_end' ELSE max_end')
        /\ ~Open' => last_busy_end' <= max_end'
    BY ONLY <1>1, TimeInv, Zenon DEF TimeInv
  <2>2. \A q \in Producers : sample'[q] <= clock'
    <3> TAKE q \in Producers
    <3>1. sample[q] <= clock /\ sample[q] \in Nat
      BY <2>0 DEF TimeInv
    <3>2. sample'[q] \in {sample[q], 0, clock} /\ clock' = clock
      BY <1>1
    <3> QED
      BY ONLY <2>0, <3>1, <3>2
  <2>3. \A q \in Producers : pc'[q] \in {"feed", "leave"} => last_busy_end' <= sample'[q]
    BY ONLY <1>1, TimeInv, ZenonT(30) DEF TimeInv
  <2>4. \A q \in Producers : pc'[q] \in {"leave", "fold", "reopen", "last_end"} =>
           sample'[q] <= max_end'
    BY ONLY <1>1, TimeInv, ZenonT(30) DEF TimeInv
  <2>5. \A q \in Producers : pc'[q] \in {"fold", "reopen"} =>
           fold_end'[q] = max_end' /\ last_busy_end' <= max_end'
    BY ONLY <1>1, TimeInv, ZenonT(30) DEF TimeInv
  <2>6. \A q \in Producers : fold_end'[q] <= max_end'
    BY ONLY <1>1, <2>0, TimeInv DEF TimeInv
  <2> QED
    BY ONLY <2>1, <2>2, <2>3, <2>4, <2>5, <2>6, ZenonT(30) DEF TimeInv
<1>2. CASE \/ submit(p) \/ begin_ticket(p) \/ begin_join(p) \/ begin_claim(p) \/ begin_open(p)
           \/ begin_slot(p) \/ complete_slot(p)
  <2>1. UNCHANGED <<clock, busy_ns, last_busy_end, max_end>>
    BY <1>2 DEF submit, begin_ticket, begin_join, begin_claim, begin_open, begin_slot,
       complete_slot, set_seq, set_field, ctrVars
  <2>2. CASE begin_join(p)
    <3>1. \E q \in Joined : TRUE
      BY <2>2, FS_EmptySet, ProducerSets, SMTT(30) DEF begin_join, CountInv, InflightExact, TRANS
    <3>2. Open /\ Open'
      BY <2>2, <3>1 DEF begin_join, Open, Joined, Goto
    <3> QED
      BY <1>1, <2>1, <2>2, <3>2 DEF begin_join, Goto
  <2>3. CASE begin_open(p)
    BY <1>1, <2>1, <2>3 DEF begin_open, Goto, Open, Joined
  <2>4. CASE submit(p) \/ begin_ticket(p) \/ begin_claim(p) \/ begin_slot(p) \/ complete_slot(p)
    <3>1. Open' = Open
      BY <2>4, SMTT(30) DEF submit, begin_ticket, begin_claim, begin_slot, complete_slot,
         set_seq, set_field, Goto, Open, Joined
    <3>2. /\ \A q \in Producers : sample'[q] \in {sample[q], 0, clock}
          /\ \A q \in Producers : fold_end'[q] \in {fold_end[q], 0}
      BY <2>4 DEF submit, begin_ticket, begin_claim, begin_slot, complete_slot,
         set_seq, set_field, return, Goto
    <3>3. \A q \in Producers : pc'[q] \in {"feed", "leave", "fold", "reopen", "last_end"} =>
                pc'[q] = pc[q] /\ sample'[q] = sample[q] /\ fold_end'[q] = fold_end[q]
      BY <2>4, SMTT(30) DEF submit, begin_ticket, begin_claim, begin_slot, complete_slot,
         set_seq, set_field, return, Goto
    <3> QED
      BY <1>1, <2>1, <3>1, <3>2, <3>3
  <2> QED
    BY <1>2, <2>2, <2>3, <2>4
<1>3. CASE begin_latch(p)
  <2>1. Trans = {p} /\ Joined = {}
    BY <1>3 DEF begin_latch, CountInv, Trans, Goto
  <2>2. ~Open /\ Open'
    BY <1>3, <2>1 DEF begin_latch, Open, Trans, Goto
  <2>3. \A q \in Producers : pc'[q] \notin {"feed", "leave", "fold", "reopen"}
    BY <1>3, <2>1 DEF begin_latch, Trans, Joined, Goto
  <2>4. /\ UNCHANGED <<clock, busy_ns, max_end, sample, fold_end>>
        /\ last_busy_end' = latest(max_end, sample[p])
        /\ \A q \in Producers : pc'[q] = "last_end" => pc[q] = "last_end"
    BY <1>3 DEF begin_latch, Goto
  <2> QED
    BY <2>2, <2>3, <2>4, SMTT(30) DEF TimeInv, latest
<1>4. CASE finish(p) \/ complete_feed(p)
  <2>1. Trans = {} /\ UNCHANGED <<clock, busy_ns, last_busy_end, fold_end>>
    BY <1>4 DEF finish, complete_feed, CountInv, Goto, Joined, ctrVars
  <2>2. Open /\ Open'
    BY <1>4 DEF finish, complete_feed, Open, Joined, Goto
  <2>3. \A q \in Producers : pc'[q] \notin {"fold", "reopen"}
    BY <1>4, <2>1 DEF finish, complete_feed, Trans, Goto
  <2>4. CASE finish(p)
    BY <2>1, <2>2, <2>3, <2>4, SMTT(30) DEF TimeInv, finish, Goto, ctrVars
  <2>5. CASE complete_feed(p)
    <3>1. max_end' = latest(max_end, sample[p]) /\ sample' = sample
      BY <2>5 DEF complete_feed
    <3>2. /\ max_end <= max_end' /\ sample[p] <= max_end' /\ max_end' <= clock
          /\ max_end' \in Nat
      BY <3>1, SMTT(30) DEF latest, TimeInv
    <3>3. /\ pc[p] = "feed" /\ pc'[p] = "leave"
          /\ \A q \in Producers \ {p} : pc'[q] = pc[q]
      BY <2>5 DEF complete_feed, Goto
    <3>4. \A q \in Producers : sample[q] \in Nat /\ fold_end[q] \in Nat
      OBVIOUS
    <3>5. \A q \in Producers : pc'[q] \in {"feed", "leave"} => last_busy_end <= sample[q]
      BY ONLY <3>3, TimeInv, ZenonT(30) DEF TimeInv
    <3>6. \A q \in Producers : pc'[q] \in {"leave", "fold", "reopen", "last_end"} =>
             sample[q] <= max_end'
      <4> TAKE q \in Producers
      <4> HAVE pc'[q] \in {"leave", "fold", "reopen", "last_end"}
      <4>1. CASE q = p
        BY <4>1, <3>2
      <4>2. CASE q # p
        <5>1. sample[q] <= max_end
          BY <4>2, <3>3 DEF TimeInv
        <5> QED
          BY <5>1, <3>2, <3>4, SMTT(30)
      <4> QED
        BY <4>1, <4>2
    <3>7. \A q \in Producers : fold_end[q] <= max_end'
      <4> TAKE q \in Producers
      <4>1. fold_end[q] <= max_end
        BY DEF TimeInv
      <4> QED
        BY <4>1, <3>2, <3>4, SMTT(30)
    <3>8. busy_ns <= last_busy_end /\ last_busy_end <= clock
          /\ \A q \in Producers : sample[q] <= clock
      BY <2>2 DEF TimeInv
    <3> QED
      BY ONLY <2>1, <2>2, <2>3, <3>1, <3>2, <3>5, <3>6, <3>7, <3>8, ZenonT(30) DEF TimeInv
  <2> QED
    BY <1>4, <2>4, <2>5
<1>5. CASE complete_leave(p)
  <2>1. p \in Joined /\ inflight = Cardinality(Joined)
    BY <1>5 DEF complete_leave, CountInv, InflightExact, Joined, Goto
  <2>2. PICK q \in Joined : q # p
    <3>1. Joined # {p}
      <4>1. Cardinality({p}) = 1
        BY FS_Singleton
      <4>2. inflight > 1
        BY <1>5 DEF complete_leave
      <4> QED
        BY ONLY <2>1, <4>1, <4>2
    <3> QED
      BY <2>1, <3>1
  <2>3. Open /\ Open'
    BY <1>5, <2>2 DEF complete_leave, Open, Joined, Goto
  <2> QED
    BY <1>5, <2>3, SMTT(30) DEF TimeInv, complete_leave, Goto
<1>6. CASE complete_drain(p)
  <2>1. Open /\ Open'
    BY <1>6 DEF complete_drain, Open, Joined, Goto
  <2>2. fold_end'[p] = max_end /\ \A q \in Producers \ {p} : fold_end'[q] = fold_end[q]
    BY <1>6, SMTT(30) DEF complete_drain, latest, Goto, TimeInv
  <2> QED
    BY <1>6, <2>1, <2>2, SMTT(30) DEF TimeInv, complete_drain, Goto
<1>7. CASE complete_fold(p) \/ complete_reopen(p)
  <2>1. Trans = {p} /\ Joined = {}
    BY <1>7, SMTT(30) DEF complete_fold, complete_reopen, CountInv, Trans, Goto
  <2>2. ~Open' /\ Joined' = {}
    BY <1>7, <2>1 DEF complete_fold, complete_reopen, Open, Trans, Joined, Goto
  <2>3. UNCHANGED <<clock, last_busy_end, max_end, sample, fold_end>>
    BY <1>7 DEF complete_fold, complete_reopen
  <2>4. last_busy_end <= max_end /\ fold_end[p] = max_end /\ busy_ns' <= max_end
    <3>1. CASE complete_fold(p)
      <4>1. Open
        BY <3>1 DEF complete_fold, Open, Goto
      <4> QED
        BY <3>1, <4>1, SMTT(30) DEF complete_fold, TimeInv, Goto, latest
    <3>2. CASE complete_reopen(p)
      <4>1. ~Open
        BY <3>2, <2>1 DEF complete_reopen, Open, Goto, Trans
      <4> QED
        BY <3>2, <4>1 DEF complete_reopen, TimeInv, Goto
    <3> QED
      BY <1>7, <3>1, <3>2
  <2> QED
    BY <1>7, <2>2, <2>3, <2>4 DEF TimeInv, complete_fold, complete_reopen, Goto
<1> QED
  BY <1>2, <1>3, <1>4, <1>5, <1>6, <1>7 DEF Step, ProducerStep

(* A period opens at a latch and closes at a fold, and nowhere else. *)
LEMMA OpenStep ==
  ASSUME NEW p \in Producers, CtrType, ProdType, CountInv, Step(p)
  PROVE  /\ begin_latch(p) => ~Open /\ Open'
         /\ complete_fold(p) => Open /\ ~Open'
         /\ ~begin_latch(p) /\ ~complete_fold(p) => (Open' <=> Open)
<1> USE DEF ProdType
<1>1. CASE begin_latch(p) \/ complete_fold(p)
  <2>1. Trans = {p} /\ Joined = {}
    BY <1>1, SMTT(30) DEF begin_latch, complete_fold, CountInv, Trans, Goto
  <2>2. \/ begin_latch(p) /\ ~complete_fold(p) /\ ~Open /\ Open'
        \/ complete_fold(p) /\ ~begin_latch(p) /\ Open /\ ~Open'
    BY <1>1, <2>1 DEF begin_latch, complete_fold, Open, Trans, Joined, Goto
  <2> QED
    BY <2>2
<1>2. CASE begin_join(p)
  <2>1. \E q \in Joined : TRUE
    BY <1>2, FS_EmptySet, ProducerSets, SMTT(30) DEF begin_join, CountInv, InflightExact, TRANS
  <2> QED
    BY <1>2, <2>1 DEF begin_join, begin_latch, complete_fold, Open, Joined, Goto
<1>3. CASE complete_leave(p)
  <2>1. p \in Joined /\ inflight = Cardinality(Joined) /\ inflight > 1
    BY <1>3 DEF complete_leave, CountInv, InflightExact, Joined, Goto
  <2>2. Cardinality({p}) = 1
    BY FS_Singleton
  <2>3. Joined # {p}
    BY ONLY <2>1, <2>2
  <2>4. PICK q \in Joined : q # p
    BY <2>1, <2>3
  <2> QED
    BY <1>3, <2>4 DEF complete_leave, begin_latch, complete_fold, Open, Joined, Goto
<1>4. CASE complete_reopen(p)
  <2>1. Trans = {p} /\ Joined = {}
    BY <1>4 DEF complete_reopen, CountInv, Trans, Goto
  <2> QED
    BY <1>4, <2>1 DEF complete_reopen, begin_latch, complete_fold, Open, Trans, Joined, Goto
<1>5. CASE \/ submit(p) \/ begin_ticket(p) \/ begin_claim(p) \/ begin_open(p)
           \/ begin_slot(p) \/ finish(p) \/ complete_feed(p) \/ complete_drain(p)
           \/ complete_slot(p)
  BY <1>5 DEF submit, begin_ticket, begin_claim, begin_open, begin_slot, finish,
     complete_feed, complete_drain, complete_slot, set_seq, set_field,
     begin_latch, complete_fold, Open, Joined, Goto
<1> QED
  BY <1>1, <1>2, <1>3, <1>4, <1>5 DEF Step, ProducerStep

(* The counters a snapshot reads only grow. *)
LEMMA Monotone ==
  ASSUME NEW p \in Producers, CtrType, ProdType, CountInv, TimeInv, Step(p)
  PROVE  busy_ns <= busy_ns' /\ last_busy_end <= last_busy_end' /\ max_end <= max_end'
<1>1. CASE begin_latch(p)
  <2>1. last_busy_end <= max_end
    BY <1>1, OpenStep DEF TimeInv
  <2> QED
    BY <1>1, <2>1, SMTT(30) DEF begin_latch, latest, CtrType, ProdType
<1>2. CASE complete_feed(p)
  BY <1>2, SMTT(30) DEF complete_feed, latest, CtrType, ProdType
<1>3. CASE complete_fold(p)
  <2>1. fold_end[p] \in Nat
    BY DEF ProdType
  <2> QED
    BY <1>3, <2>1, SMTT(30) DEF complete_fold, latest, CtrType
<1>4. CASE UNCHANGED <<busy_ns, last_busy_end, max_end>>
  BY <1>4, SMTT(30) DEF CtrType
<1> QED
  BY <1>1, <1>2, <1>3, <1>4 DEF Step, ProducerStep, submit, begin_ticket, begin_join,
     begin_claim, begin_open, begin_slot, finish, complete_leave, complete_drain,
     complete_reopen, complete_slot, set_seq, set_field, ctrVars

LEMMA SnapStep ==
  ASSUME NEW p \in Producers, CtrType, CtrType', ProdType, ReadType, CountInv, TimeInv,
         SnapInv, Step(p)
  PROVE  SnapInv'
<1>1. busy_ns <= busy_ns' /\ last_busy_end <= last_busy_end'
  BY Monotone
<1>2. rd' = rd /\ clock' = clock
  BY StepFrame DEF readVars
<1>3. /\ rd.raw \in Nat /\ rd.now \in Nat /\ rd.s \in Nat
      /\ busy_ns \in Nat /\ busy_ns' \in Nat /\ last_busy_end \in Nat /\ last_busy_end' \in Nat
  BY DEF ReadType, ReadLocals, CtrType
<1> QED
  BY ONLY <1>1, <1>2, <1>3, SnapInv DEF SnapInv

-----------------------------------------------------------------------------
(* The busy time. *)

LEMMA HeldTicket ==
  ASSUME RingType, TicketInv
  PROVE  /\ head \in 0 .. Submits
         /\ \A q \in Producers : Holds(q) => ticket[q] \in Tickets
<1>1. Cardinality(Begun) \in Nat
  BY ProducerSets, FS_CardinalityType
<1>2. head \in 0 .. Submits
  BY ONLY <1>1, RingType, TicketInv, AneStatsAssumption DEF RingType, TicketInv
<1> QED
  BY ONLY <1>2, TicketInv, AneStatsAssumption DEF TicketInv, Tickets

(* The submission that writes a field writes its own, and only that field. *)
Moved(p, from, to) ==
    pc[p] = from /\ pc'[p] = to /\ \A q \in Producers \ {p} : pc'[q] = pc[q]
WroteField(p, f, v) ==
    /\ rec'[ticket[p]] \in Fields /\ slot'[Slot(ticket[p])] \in Fields
    /\ rec'[ticket[p]].start = IF f = "start" THEN v ELSE rec[ticket[p]].start
    /\ rec'[ticket[p]].end = IF f = "end" THEN v ELSE rec[ticket[p]].end
    /\ slot'[Slot(ticket[p])].start = IF f = "start" THEN v ELSE slot[Slot(ticket[p])].start
    /\ slot'[Slot(ticket[p])].end = IF f = "end" THEN v ELSE slot[Slot(ticket[p])].end
    /\ \A n \in Tickets : n # ticket[p] => rec'[n] = rec[n]
    /\ \A i \in 0 .. NSlots - 1 : i # Slot(ticket[p]) => slot'[i] = slot[i]
    /\ \A q \in Producers : q # p /\ Holds(q) => rec'[ticket[q]] = rec[ticket[q]]
    /\ UNCHANGED <<head, seq, sample, fold_end, ticket>>

LEMMA FieldStep ==
  ASSUME NEW p \in Producers, RingType, ProdType, TicketInv, Holds(p),
         NEW f \in {"start", "end"}, NEW v \in Nat, NEW from, NEW to,
         set_field(p, from, to, f, v)
  PROVE  Moved(p, from, to) /\ WroteField(p, f, v)
<1>1. ticket[p] \in Tickets /\ Slot(ticket[p]) \in 0 .. NSlots - 1
  BY HeldTicket, SlotType, SMTT(30) DEF Tickets
<1>2. /\ slot' = [slot EXCEPT ![Slot(ticket[p])][f] = v]
      /\ rec' = [rec EXCEPT ![ticket[p]][f] = v]
      /\ UNCHANGED <<head, seq, sample, fold_end, ticket>>
  BY DEF set_field
<1>3. /\ rec'[ticket[p]] = [rec[ticket[p]] EXCEPT ![f] = v]
      /\ slot'[Slot(ticket[p])] = [slot[Slot(ticket[p])] EXCEPT ![f] = v]
      /\ \A n \in Tickets : n # ticket[p] => rec'[n] = rec[n]
      /\ \A i \in 0 .. NSlots - 1 : i # Slot(ticket[p]) => slot'[i] = slot[i]
  BY ONLY <1>1, <1>2, RingType, ZenonT(30) DEF RingType
<1>4. rec[ticket[p]] \in Fields /\ slot[Slot(ticket[p])] \in Fields
  BY ONLY <1>1, RingType, ZenonT(30) DEF RingType
<1>5. \A q \in Producers : q # p /\ Holds(q) => ticket[q] \in Tickets /\ ticket[q] # ticket[p]
  BY HeldTicket DEF TicketInv
<1>6. Moved(p, from, to)
  BY DEF set_field, Goto, ProdType, Moved
<1>7. /\ rec'[ticket[p]] \in Fields
      /\ rec'[ticket[p]].start = IF f = "start" THEN v ELSE rec[ticket[p]].start
      /\ rec'[ticket[p]].end = IF f = "end" THEN v ELSE rec[ticket[p]].end
  BY ONLY <1>3, <1>4, f \in {"start", "end"}, v \in Nat, ZenonT(30) DEF Fields
<1>8. /\ slot'[Slot(ticket[p])] \in Fields
      /\ slot'[Slot(ticket[p])].start = IF f = "start" THEN v ELSE slot[Slot(ticket[p])].start
      /\ slot'[Slot(ticket[p])].end = IF f = "end" THEN v ELSE slot[Slot(ticket[p])].end
  BY ONLY <1>3, <1>4, f \in {"start", "end"}, v \in Nat, ZenonT(30) DEF Fields
<1> QED
  BY ONLY <1>2, <1>3, <1>5, <1>6, <1>7, <1>8, ZenonT(30) DEF WroteField

(* The field writes of a submission, and its two stores to seq. *)
WroteSeq(p, n) ==
    /\ seq' = [seq EXCEPT ![Slot(ticket[p])] = n]
    /\ UNCHANGED <<head, slot, rec>>
    /\ \A q \in Producers \ {p} : ticket'[q] = ticket[q] /\ sample'[q] = sample[q]
                                   /\ fold_end'[q] = fold_end[q]

LEMMA SlotSteps ==
  ASSUME NEW p \in Producers, CtrType, RingType, ProdType, TicketInv,
         begin_slot(p) \/ complete_slot(p)
  PROVE  /\ Holds(p) /\ UNCHANGED <<ctrVars, clock>>
         /\ \/ /\ Moved(p, "odd", "set_start") /\ WroteSeq(p, 2 * ticket[p] - 1)
               /\ UNCHANGED <<sample, fold_end, ticket>>
            \/ Moved(p, "set_start", "set_end") /\ WroteField(p, "start", last_busy_end)
            \/ Moved(p, "set_end", "run") /\ WroteField(p, "end", sample[p])
            \/ Moved(p, "last_end", "even") /\ WroteField(p, "end", End(p))
            \/ Moved(p, "even", "idle") /\ WroteSeq(p, 2 * ticket[p])
<1>1. Holds(p) /\ UNCHANGED <<ctrVars, clock>>
  BY DEF Holds, begin_slot, complete_slot, set_seq, set_field, Goto
<1>2. last_busy_end \in Nat /\ sample[p] \in Nat /\ End(p) \in Nat
  BY DEF CtrType, ProdType, End
<1>3. ASSUME NEW f \in {"start", "end"}, NEW v \in Nat, NEW from, NEW to,
             set_field(p, from, to, f, v)
      PROVE  Moved(p, from, to) /\ WroteField(p, f, v)
  BY <1>1, <1>3, FieldStep
<1>4. ASSUME NEW n, NEW from, NEW to, set_seq(p, from, to, n),
             UNCHANGED <<sample, fold_end, ticket>> \/ return(p)
      PROVE  Moved(p, from, to) /\ WroteSeq(p, n)
  BY <1>4 DEF set_seq, return, Moved, WroteSeq, Goto, ProdType
<1>5. CASE begin_slot(p)
  BY <1>1, <1>2, <1>3, <1>4, <1>5 DEF begin_slot
<1>6. CASE complete_slot(p)
  BY <1>1, <1>2, <1>3, <1>4, <1>6 DEF complete_slot, End
<1> QED
  BY <1>5, <1>6

LEMMA StartsStep ==
  ASSUME NEW p \in Producers, CtrType, RingType, ProdType, CountInv, TicketInv, Starts, Step(p)
  PROVE  Starts'
<1> USE DEF StartPcs
<1>1. ASSUME UNCHANGED last_busy_end,
             \A q \in Producers : pc'[q] \in StartPcs =>
                pc[q] \in StartPcs /\ rec'[ticket'[q]] = rec[ticket[q]]
      PROVE  Starts'
  BY <1>1 DEF Starts
<1>2. CASE begin_latch(p)
  <2>1. Trans = {p} /\ Joined = {}
    BY <1>2 DEF begin_latch, CountInv, Trans, Goto
  <2>2. \A q \in Producers : pc'[q] \notin StartPcs
    BY <1>2, <2>1 DEF begin_latch, Trans, Joined, Goto, ProdType
  <2> QED
    BY <2>2 DEF Starts
<1>3. CASE begin_slot(p) \/ complete_slot(p)
  <2>0. last_busy_end' = last_busy_end /\ Holds(p)
    BY <1>3, SlotSteps DEF ctrVars
  <2>1. \A q \in Producers \ {p} : pc[q] \in StartPcs => Holds(q)
    BY DEF Holds
  <2>2. CASE Moved(p, "set_start", "set_end") /\ WroteField(p, "start", last_busy_end)
    BY ONLY <2>0, <2>1, <2>2, Starts, p \in Producers, ZenonT(30) DEF Starts, StartPcs, Moved, WroteField
  <2>3. CASE Moved(p, "set_end", "run") /\ WroteField(p, "end", sample[p])
    BY ONLY <2>0, <2>1, <2>3, Starts, p \in Producers, ZenonT(30) DEF Starts, StartPcs, Moved, WroteField
  <2>4. CASE Moved(p, "last_end", "even") /\ WroteField(p, "end", End(p))
    BY ONLY <2>0, <2>1, <2>4, Starts, p \in Producers, ZenonT(30) DEF Starts, StartPcs, Moved, WroteField
  <2>5. ASSUME NEW n, Moved(p, "odd", "set_start") \/ Moved(p, "even", "idle"), WroteSeq(p, n)
        PROVE  Starts'
    BY ONLY <2>0, <2>5, Starts, p \in Producers, ZenonT(30) DEF Starts, StartPcs, Moved, WroteSeq
  <2> QED
    BY <1>3, SlotSteps, <2>2, <2>3, <2>4, <2>5
<1>4. CASE begin_ticket(p)
  BY <1>1, <1>4 DEF begin_ticket, Goto, ProdType, ctrVars
<1>5. CASE \/ submit(p) \/ begin_join(p) \/ begin_claim(p) \/ begin_open(p) \/ finish(p)
           \/ complete_feed(p) \/ complete_leave(p) \/ complete_drain(p) \/ complete_fold(p)
           \/ complete_reopen(p)
  <2>1. UNCHANGED <<last_busy_end, rec, ticket>>
    BY <1>5 DEF submit, begin_join, begin_claim, begin_open, finish, complete_feed,
       complete_leave, complete_drain, complete_fold, complete_reopen, ctrVars, ringVars
  <2>2. \A q \in Producers : pc'[q] \in StartPcs => pc[q] \in StartPcs
    BY <1>5 DEF submit, begin_join, begin_claim, begin_open, finish, complete_feed,
       complete_leave, complete_drain, complete_fold, complete_reopen, Goto, ProdType
  <2> QED
    BY <1>1, <2>1, <2>2
<1> QED
  BY <1>2, <1>3, <1>4, <1>5 DEF Step, ProducerStep

(* What Busy depends on. *)
LEMMA BusySame ==
  ASSUME \A n \in Tickets : (Final(n)' <=> Final(n)) /\ (Final(n) => rec'[n] = rec[n]),
         \A q \in Producers : pc'[q] \in DonePcs <=> pc[q] \in DonePcs,
         \A q \in Producers : pc[q] \in DonePcs =>
            /\ ticket'[q] = ticket[q] /\ rec'[ticket[q]] = rec[ticket[q]] /\ End(q)' = End(q)
  PROVE  Busy' = Busy
<1>1. ASSUME NEW t \in Nat PROVE t \in Busy' <=> t \in Busy
  <2>1. (\E n \in Tickets : Final(n) /\ rec[n].start <= t /\ t < rec[n].end)' <=>
        \E n \in Tickets : Final(n) /\ rec[n].start <= t /\ t < rec[n].end
    OBVIOUS
  <2>2. (\E p \in Producers : /\ pc[p] \in DonePcs
                               /\ rec[ticket[p]].start <= t /\ t < End(p))' <=>
        \E p \in Producers : /\ pc[p] \in DonePcs
                              /\ rec[ticket[p]].start <= t /\ t < End(p)
    OBVIOUS
  <2> QED
    BY ONLY <2>1, <2>2, t \in Nat, ZenonT(30) DEF Busy
<1> QED
  BY ONLY <1>1, Zenon DEF Busy

LEMMA BusyFrame ==
  ASSUME UNCHANGED <<head, rec>>,
         \A q \in Producers : Pending(q)' <=> Pending(q),
         \A q \in Producers : Pending(q) => ticket'[q] = ticket[q],
         \A q \in Producers : pc'[q] \in DonePcs <=> pc[q] \in DonePcs,
         \A q \in Producers : pc[q] \in DonePcs => End(q)' = End(q)
  PROVE  Busy' = Busy
<1>1. \A n \in Tickets : Final(n)' <=> Final(n)
  BY DEF Final
<1>2. \A q \in Producers : pc[q] \in DonePcs => ticket'[q] = ticket[q]
  BY DEF Pending, Holds, DonePcs
<1> QED
  BY <1>1, <1>2, BusySame

(* A store to a slot that is still the submission's own leaves the busy    *)
(* time as it is, and so does the store of its final end_ns.               *)
LEMMA BusySlotSteps ==
  ASSUME NEW p \in Producers, CtrType, RingType, ProdType, TicketInv,
         begin_slot(p) \/ complete_slot(p)
  PROVE  Busy' = Busy
<1>0. PICK t \in Tickets : t = ticket[p]
  BY SlotSteps, HeldTicket
<1>1. Holds(p) /\ t \in 1 .. head
  BY <1>0, SlotSteps DEF TicketInv
<1>2. ASSUME NEW f, NEW v, NEW from \in {"set_start", "set_end"},
             NEW to \in {"set_end", "run"}, Moved(p, from, to), WroteField(p, f, v)
      PROVE  Busy' = Busy
  <2>1. Pending(p) /\ \A q \in Producers : Pending(q)' <=> Pending(q)
    BY <1>2 DEF Pending, Holds, Moved
  <2>2. \A n \in Tickets : (Final(n)' <=> Final(n)) /\ (Final(n) => rec'[n] = rec[n])
    BY <1>2, <2>1 DEF Final, WroteField
  <2>3. \A q \in Producers : pc'[q] \in DonePcs <=> pc[q] \in DonePcs
    BY <1>2 DEF Moved, DonePcs
  <2>4. \A q \in Producers : pc[q] \in DonePcs =>
           /\ ticket'[q] = ticket[q] /\ rec'[ticket[q]] = rec[ticket[q]] /\ End(q)' = End(q)
    BY <1>2 DEF Moved, WroteField, DonePcs, Holds, End
  <2> QED
    BY ONLY <2>2, <2>3, <2>4, BusySame, Zenon
<1>3. ASSUME Moved(p, "last_end", "even"), WroteField(p, "end", End(p))
      PROVE  Busy' = Busy
  <2>1. \A q \in Producers \ {p} :
           /\ Pending(q)' <=> Pending(q)
           /\ pc'[q] \in DonePcs <=> pc[q] \in DonePcs
           /\ ticket'[q] = ticket[q] /\ End(q)' = End(q)
           /\ Holds(q) => rec'[ticket[q]] = rec[ticket[q]]
    BY <1>3 DEF Pending, Holds, Moved, WroteField, End
  <2>2. /\ Pending(p) /\ ~Pending(p)'
        /\ pc[p] \in DonePcs /\ pc'[p] \notin DonePcs
        /\ rec'[t].start = rec[t].start /\ rec'[t].end = End(p)
        /\ head' = head /\ ticket' = ticket
    BY <1>0, <1>3 DEF Pending, Holds, Moved, WroteField, DonePcs
  <2>3. \A q \in Producers \ {p} : Pending(q) => ticket[q] # t
    BY <1>0, <1>1 DEF Pending, TicketInv
  <2>4. Final(t)' /\ ~Final(t)
    BY <1>0, <1>1, <2>1, <2>2, <2>3 DEF Final
  <2>5. \A n \in Tickets : n # t => (Final(n)' <=> Final(n)) /\ rec'[n] = rec[n]
    BY <1>0, <1>3, <2>1, <2>2 DEF Final, WroteField
  <2>6. \A q \in Producers \ {p} : pc[q] \in DonePcs => Holds(q)
    BY DEF DonePcs, Holds
  <2>7. ASSUME NEW x \in Nat PROVE x \in Busy' <=> x \in Busy
    <3>1. x \in Busy <=>
            \/ \E n \in Tickets : n # t /\ Final(n) /\ rec[n].start <= x /\ x < rec[n].end
            \/ rec[t].start <= x /\ x < End(p)
            \/ \E q \in Producers \ {p} : /\ pc[q] \in DonePcs
                                          /\ rec[ticket[q]].start <= x /\ x < End(q)
      BY ONLY <1>0, <2>2, <2>4, p \in Producers, x \in Nat, Zenon DEF Busy, DonePcs
    <3>2. x \in Busy' <=>
            \/ \E n \in Tickets : n # t /\ Final(n)' /\ rec'[n].start <= x /\ x < rec'[n].end
            \/ rec'[t].start <= x /\ x < rec'[t].end
            \/ \E q \in Producers \ {p} : /\ pc'[q] \in DonePcs
                                          /\ rec'[ticket'[q]].start <= x /\ x < End(q)'
      BY ONLY <1>0, <2>2, <2>4, p \in Producers, x \in Nat, Zenon DEF Busy, DonePcs
    <3> QED
      BY ONLY <2>1, <2>2, <2>5, <2>6, <3>1, <3>2, Zenon
  <2> QED
    BY <2>7 DEF Busy
<1>4. ASSUME NEW n, Moved(p, "odd", "set_start") \/ Moved(p, "even", "idle"), WroteSeq(p, n),
             pc[p] = "odd" => UNCHANGED <<sample, fold_end, ticket>>
      PROVE  Busy' = Busy
  <2>1. \A q \in Producers : Pending(q)' <=> Pending(q)
    BY <1>4 DEF Pending, Holds, Moved
  <2>2. \A q \in Producers : Pending(q) => ticket'[q] = ticket[q]
    BY <1>4 DEF Pending, Holds, Moved, WroteSeq
  <2>3. \A q \in Producers : pc'[q] \in DonePcs <=> pc[q] \in DonePcs
    BY <1>4 DEF Moved, DonePcs
  <2>4. \A q \in Producers : pc[q] \in DonePcs => End(q)' = End(q)
    BY <1>4 DEF Moved, DonePcs, WroteSeq, End
  <2>5. UNCHANGED <<head, rec>>
    BY <1>4 DEF WroteSeq
  <2> QED
    BY <2>1, <2>2, <2>3, <2>4, <2>5, BusyFrame
<1>5. CASE Moved(p, "odd", "set_start") /\ WroteSeq(p, 2 * ticket[p] - 1)
           /\ UNCHANGED <<sample, fold_end, ticket>>
  BY <1>4, <1>5
<1>6. CASE Moved(p, "even", "idle") /\ WroteSeq(p, 2 * ticket[p])
  <2>1. pc[p] # "odd"
    BY <1>6 DEF Moved
  <2> QED
    BY <1>4, <1>6, <2>1
<1>7. CASE Moved(p, "set_start", "set_end") /\ WroteField(p, "start", last_busy_end)
  BY <1>2, <1>7
<1>8. CASE Moved(p, "set_end", "run") /\ WroteField(p, "end", sample[p])
  BY <1>2, <1>8
<1> QED
  BY SlotSteps, <1>3, <1>5, <1>6, <1>7, <1>8

(* The steps outside the slot that leave the busy time as it is. *)
LEMMA BusyOtherSteps ==
  ASSUME NEW p \in Producers, CtrType, RingType, ProdType, TicketInv,
         \/ submit(p) \/ begin_join(p) \/ begin_claim(p) \/ begin_latch(p)
         \/ begin_open(p) \/ finish(p) \/ complete_feed(p) \/ complete_drain(p)
         \/ complete_reopen(p) \/ begin_ticket(p)
  PROVE  Busy' = Busy
<1>1. CASE begin_ticket(p)
  <2>1. /\ head' = head + 1 /\ ticket'[p] = head + 1 /\ rec' = rec
        /\ pc[p] = "begin" /\ pc'[p] = "join"
        /\ UNCHANGED <<sample, fold_end>>
        /\ \A q \in Producers \ {p} : pc'[q] = pc[q] /\ ticket'[q] = ticket[q]
    BY <1>1 DEF begin_ticket, Goto, ProdType
  <2>2. /\ ~Pending(p) /\ Pending(p)'
        /\ \A q \in Producers \ {p} : Pending(q)' <=> Pending(q)
    BY <2>1 DEF Pending, Holds
  <2>3. head \in Nat /\ Tickets \subseteq Nat
    BY SMTT(30) DEF RingType, Tickets
  <2>4. \A n \in Tickets : Final(n)' <=> Final(n)
    <3> TAKE n \in Tickets
    <3>1. n \in 1 .. head' /\ ticket'[p] # n <=> n \in 1 .. head
      BY ONLY <2>1, <2>3, n \in Tickets
    <3> QED
      BY ONLY <2>1, <2>2, <3>1, p \in Producers, n \in Tickets, ZenonT(30) DEF Final
  <2>5. \A q \in Producers : /\ pc'[q] \in DonePcs <=> pc[q] \in DonePcs
                             /\ pc[q] \in DonePcs => ticket'[q] = ticket[q] /\ End(q)' = End(q)
    BY <2>1 DEF DonePcs, End
  <2> QED
    BY <2>1, <2>4, <2>5, BusySame
<1>2. CASE \/ submit(p) \/ begin_join(p) \/ begin_claim(p) \/ begin_latch(p)
           \/ begin_open(p) \/ finish(p) \/ complete_feed(p) \/ complete_drain(p)
           \/ complete_reopen(p)
  <2>1. UNCHANGED <<head, rec, ticket>>
    BY <1>2 DEF submit, begin_join, begin_claim, begin_latch, begin_open, finish,
       complete_feed, complete_drain, complete_reopen, ringVars
  <2>2. \A q \in Producers : /\ Pending(q)' <=> Pending(q)
                             /\ pc'[q] \in DonePcs <=> pc[q] \in DonePcs
    BY <1>2 DEF submit, begin_join, begin_claim, begin_latch, begin_open, finish,
       complete_feed, complete_drain, complete_reopen, Goto, Pending, Holds, DonePcs, ProdType
  <2>3. \A q \in Producers : pc[q] \in DonePcs => End(q)' = End(q)
    BY <1>2 DEF submit, begin_join, begin_claim, begin_latch, begin_open, finish,
       complete_feed, complete_drain, complete_reopen, Goto, DonePcs, End, ProdType
  <2> QED
    BY <2>1, <2>2, <2>3, BusyFrame
<1> QED
  BY <1>1, <1>2

(* A completion adds its interval. *)
LEMMA BusyGrows ==
  ASSUME NEW p \in Producers, CtrType, RingType, ProdType, TimeInv, Starts,
         complete_leave(p) \/ complete_fold(p)
  PROVE  \A x \in Nat : x \in Busy' <=>
            x \in Busy \/ (last_busy_end <= x
                           /\ x < IF complete_fold(p) THEN max_end ELSE sample[p])
<1>1. /\ UNCHANGED <<head, rec, ticket, sample, last_busy_end>>
      /\ pc[p] \in StartPcs /\ pc[p] \notin DonePcs /\ pc'[p] \in DonePcs
      /\ \A q \in Producers \ {p} : pc'[q] = pc[q] /\ fold_end'[q] = fold_end[q]
  BY DEF complete_leave, complete_fold, Goto, ProdType, ringVars, StartPcs, DonePcs
<1>2. rec[ticket[p]].start = last_busy_end
  BY <1>1 DEF Starts
<1>3. End(p)' = IF complete_fold(p) THEN max_end ELSE sample[p]
  <2>1. CASE complete_fold(p)
    <3>1. fold_end'[p] = fold_end[p] /\ fold_end[p] = max_end /\ sample'[p] = sample[p]
      BY <2>1 DEF complete_fold, TimeInv, Goto
    <3>2. sample[p] <= max_end /\ sample[p] \in Nat /\ max_end \in Nat
      BY <2>1 DEF complete_fold, TimeInv, Goto, ProdType, CtrType
    <3> QED
      BY <2>1, <3>1, <3>2, SMTT(30) DEF End
  <2>2. CASE complete_leave(p) /\ ~complete_fold(p)
    BY <2>2 DEF complete_leave, End, ProdType
  <2> QED
    BY <2>1, <2>2
<1>4. \A q \in Producers : Pending(q)' <=> Pending(q)
  <2>1. Pending(p) /\ Pending(p)'
    BY <1>1 DEF Pending, Holds, StartPcs, DonePcs
  <2> QED
    BY <1>1, <2>1 DEF Pending, Holds
<1>5. \A n \in Tickets : Final(n)' <=> Final(n)
  BY <1>1, <1>4 DEF Final
<1>6. \A q \in Producers \ {p} : (pc'[q] \in DonePcs <=> pc[q] \in DonePcs) /\ End(q)' = End(q)
  BY <1>1 DEF End
<1> DEFINE E == IF complete_fold(p) THEN max_end ELSE sample[p]
<1> SUFFICES ASSUME NEW x \in Nat
             PROVE  x \in Busy' <=> x \in Busy \/ (last_busy_end <= x /\ x < E)
  OBVIOUS
<1>7. x \in Busy <=>
        \/ \E n \in Tickets : Final(n) /\ rec[n].start <= x /\ x < rec[n].end
        \/ \E q \in Producers \ {p} : /\ pc[q] \in DonePcs
                                      /\ rec[ticket[q]].start <= x /\ x < End(q)
  BY ONLY <1>1, x \in Nat, Zenon DEF Busy
<1>8. x \in Busy' <=>
        \/ \E n \in Tickets : Final(n)' /\ rec'[n].start <= x /\ x < rec'[n].end
        \/ rec'[ticket'[p]].start <= x /\ x < End(p)'
        \/ \E q \in Producers \ {p} : /\ pc'[q] \in DonePcs
                                      /\ rec'[ticket'[q]].start <= x /\ x < End(q)'
  BY ONLY <1>1, x \in Nat, p \in Producers, ZenonT(30) DEF Busy
<1> HIDE DEF E
<1>9. End(p)' = E
  BY <1>3 DEF E
<1> QED
  BY ONLY <1>1, <1>2, <1>5, <1>6, <1>7, <1>8, <1>9, Zenon

LEMMA BusyFinite ==
  ASSUME CtrType, BusyInv
  PROVE  /\ Busy \subseteq 0 .. max_end - 1 /\ IsFiniteSet(Busy)
         /\ \A S : IsFiniteSet(Busy \cap S) /\ Cardinality(Busy \cap S) \in Nat
<1>1. Busy \subseteq 0 .. max_end - 1
  BY SMTT(30) DEF BusyInv, CtrType, Busy
<1>2. IsFiniteSet(0 .. max_end - 1)
  BY FS_Interval, SMTT(30) DEF CtrType
<1>3. ASSUME NEW S PROVE IsFiniteSet(Busy \cap S) /\ Cardinality(Busy \cap S) \in Nat
  <2>1. (Busy \cap S) \in SUBSET (0 .. max_end - 1)
    BY <1>1
  <2>2. IsFiniteSet(Busy \cap S)
    BY ONLY <1>2, <2>1, FS_Subset, ZenonT(30)
  <2> QED
    BY <2>2, FS_CardinalityType
<1> QED
  BY <1>1, <1>2, <1>3, FS_Subset

LEMMA Below == \A x, m, l \in Nat : x < m /\ m <= l => x \in 0 .. l - 1
BY SMTT(30)

LEMMA BusyStep ==
  ASSUME NEW p \in Producers, CtrType, CtrType', RingType, ProdType, CountInv, TicketInv,
         TimeInv, BusyInv, Step(p)
  PROVE  BusyInv'
<1>1. Starts'
  BY StartsStep DEF BusyInv
<1>2. /\ max_end \in Nat /\ max_end' \in Nat /\ last_busy_end \in Nat /\ busy_ns \in Nat
      /\ max_end <= max_end'
  BY Monotone DEF CtrType
<1>3. Busy \subseteq Nat
  BY DEF Busy
<1>4. CASE begin_latch(p)
  <2>1. Busy' = Busy /\ ~Open /\ Open'
    BY <1>4, BusyOtherSteps, OpenStep
  <2>2. busy_ns' = busy_ns /\ max_end' = max_end /\ last_busy_end' = latest(max_end, sample[p])
    BY <1>4 DEF begin_latch
  <2>3. max_end <= last_busy_end' /\ last_busy_end' \in Nat
    BY <2>2, <1>2, SMTT(30) DEF latest, ProdType
  <2>4. Busy \cap 0 .. last_busy_end' - 1 = Busy
    <3>1. \A x \in Busy : x < max_end
      BY DEF BusyInv
    <3>2. \A x \in Busy : x \in 0 .. last_busy_end' - 1
      <4> TAKE x \in Busy
      <4>1. x \in Nat /\ x < max_end /\ max_end \in Nat
        BY ONLY <1>2, <1>3, <3>1, x \in Busy, ZenonT(30)
      <4> QED
        BY ONLY <2>3, <4>1, Below, Zenon
    <3> QED
      BY ONLY <3>2, ZenonT(30)
  <2> QED
    BY <1>1, <2>1, <2>2, <2>4 DEF BusyInv
<1>5. CASE complete_fold(p)
  <2> DEFINE L == last_busy_end
             M == max_end
             Old == Busy \cap 0 .. L - 1
             New == L .. M - 1
  <2>1. Open /\ ~Open' /\ L <= M /\ fold_end[p] = M
    BY <1>5, OpenStep DEF complete_fold, TimeInv, Goto
  <2>2. \A x \in Nat : x \in Busy' <=> x \in Busy \/ (L <= x /\ x < M)
    BY <1>5, BusyGrows DEF BusyInv
  <2>3. Busy' \subseteq Nat /\ \A x \in Busy : x < M
    BY DEF Busy, BusyInv
  <2>4. Busy' = Old \cup New /\ Old \cap New = {}
    <3>1. L \in Nat /\ M \in Nat /\ Busy \in SUBSET Nat /\ Busy' \in SUBSET Nat
      BY <1>2, <1>3, <2>3
    <3> HIDE DEF L, M
    <3>2. \A x \in Busy : x < M
      BY <2>3
    <3>3. PICK B \in SUBSET Nat, C \in SUBSET Nat, l \in Nat, m \in Nat :
                 B = Busy /\ C = Busy' /\ l = L /\ m = M
      BY ONLY <3>1, Zenon
    <3>4. /\ \A x \in B : x < m
          /\ \A x \in Nat : x \in C <=> x \in B \/ (l <= x /\ x < m)
      BY ONLY <2>2, <3>2, <3>3, Zenon
    <3>5. /\ C = (B \cap 0 .. l - 1) \cup (l .. m - 1)
          /\ (B \cap 0 .. l - 1) \cap (l .. m - 1) = {}
      <4>1. \A x \in Nat : x \in C <=> x \in (B \cap 0 .. l - 1) \cup (l .. m - 1)
        BY <3>4, SMTT(30)
      <4>2. (B \cap 0 .. l - 1) \cup (l .. m - 1) \subseteq Nat
        BY ONLY <3>3
      <4>3. (B \cap 0 .. l - 1) \cap (l .. m - 1) = {}
        BY ONLY <3>3
      <4> QED
        BY ONLY <3>3, <4>1, <4>2, <4>3, ZenonT(30)
    <3> QED
      BY ONLY <3>3, <3>5, Zenon
  <2>5. /\ IsFiniteSet(Old) /\ IsFiniteSet(New)
        /\ Cardinality(Old) \in Nat /\ Cardinality(New) = M - L
    <3>1. IsFiniteSet(Old) /\ Cardinality(Old) \in Nat
      BY BusyFinite
    <3>2. L \in Int /\ M - 1 \in Int
      BY <1>2, SMTT(30)
    <3>3. IsFiniteSet(New) /\ Cardinality(New) = IF L > M - 1 THEN 0 ELSE (M - 1) - L + 1
      BY ONLY <3>2, FS_Interval, ZenonT(30)
    <3> QED
      BY <1>2, <2>1, <3>1, <3>3, SMTT(30)
  <2> HIDE DEF Old, New
  <2>6. Cardinality(Busy') = Cardinality(Old) + Cardinality(New)
    <3>1. Cardinality(Old \cup New) = Cardinality(Old) + Cardinality(New) - Cardinality({})
      BY <2>4, <2>5, FS_Union, SMTT(30)
    <3>2. Cardinality(New) \in Int
      BY <1>2, <2>5, SMTT(30)
    <3> QED
      BY <2>4, <2>5, <3>1, <3>2, FS_EmptySet, SMTT(30)
  <2>7. busy_ns = Cardinality(Old)
    BY <2>1 DEF BusyInv, Old
  <2>8. busy_ns' = busy_ns + latest(0, M - L) /\ max_end' = M
    BY <1>5, <2>1 DEF complete_fold
  <2>9. busy_ns' = Cardinality(Busy')
    BY <1>2, <2>1, <2>5, <2>6, <2>7, <2>8, SMTT(30) DEF latest
  <2>10. \A x \in Busy' : x < max_end'
    BY <2>2, <2>3, <2>8
  <2> QED
    BY <1>1, <2>1, <2>9, <2>10 DEF BusyInv
<1>6. CASE complete_leave(p)
  <2>1. Open /\ Open'
    <3>1. pc[p] = "leave" /\ ~begin_latch(p) /\ ~complete_fold(p)
      BY <1>6 DEF complete_leave, begin_latch, complete_fold, Goto
    <3> QED
      BY <3>1, OpenStep DEF Open, Joined
  <2>2. sample[p] <= max_end /\ sample[p] \in Nat
    BY <1>6 DEF complete_leave, Goto, TimeInv, ProdType
  <2>3. \A x \in Nat : x \in Busy' <=> x \in Busy \/ (last_busy_end <= x /\ x < sample[p])
    <3>1. ~complete_fold(p)
      BY <1>6 DEF complete_leave, complete_fold, Goto
    <3> QED
      BY <1>6, <3>1, BusyGrows DEF BusyInv
  <2>4. Busy' \subseteq Nat
    BY DEF Busy
  <2>5. UNCHANGED <<busy_ns, max_end, last_busy_end>>
    BY <1>6 DEF complete_leave
  <2>6. Busy' \cap 0 .. last_busy_end - 1 = Busy \cap 0 .. last_busy_end - 1
    BY <1>2, <1>3, <2>3, <2>4, SMTT(30)
  <2>7. \A x \in Busy' : x < max_end
    BY <1>2, <2>2, <2>3, <2>4, SMTT(30) DEF BusyInv
  <2> QED
    BY <1>1, <2>1, <2>5, <2>6, <2>7 DEF BusyInv
<1>7. CASE ~begin_latch(p) /\ ~complete_fold(p) /\ ~complete_leave(p)
  <2>1. Busy' = Busy
    BY <1>7, BusySlotSteps, BusyOtherSteps DEF Step, ProducerStep
  <2>2. Open' <=> Open
    BY <1>7, OpenStep
  <2>3. UNCHANGED <<busy_ns, last_busy_end>>
    BY <1>7 DEF Step, ProducerStep, submit, begin_ticket, begin_join, begin_claim, begin_open,
       begin_slot, finish, complete_feed, complete_drain, complete_reopen, complete_slot,
       set_seq, set_field, ctrVars
  <2>4. \A x \in Busy' : x < max_end'
    BY <1>2, <1>3, <2>1, SMTT(30) DEF BusyInv
  <2> QED
    BY <1>1, <2>1, <2>2, <2>3, <2>4 DEF BusyInv
<1> QED
  BY <1>4, <1>5, <1>6, <1>7

-----------------------------------------------------------------------------
(* The slots. *)

(* A submission is committed by its last store to seq, and for good; after *)
(* that its record does not change.                                        *)
LEMMA CommittedStep ==
  ASSUME NEW p \in Producers, CtrType, RingType, ProdType, TicketInv, Step(p),
         NEW n \in Tickets
  PROVE  /\ Committed(n) => Committed(n)' /\ rec'[n] = rec[n]
         /\ Committed(n)' => Committed(n) \/ (Moved(p, "even", "idle") /\ n = ticket[p])
         /\ head <= head' /\ head' \in Nat
<1>1. CASE begin_ticket(p)
  <2>1. /\ head' = head + 1 /\ ticket'[p] = head + 1 /\ rec' = rec
        /\ pc[p] = "begin" /\ pc'[p] = "join"
        /\ \A q \in Producers \ {p} : pc'[q] = pc[q] /\ ticket'[q] = ticket[q]
    BY <1>1 DEF begin_ticket, Goto, ProdType
  <2>2. head \in Nat /\ n \in Nat
    BY SMTT(30) DEF RingType, Tickets
  <2>3. ~Holds(p) /\ Holds(p)' /\ \A q \in Producers \ {p} : Holds(q)' <=> Holds(q)
    BY <2>1 DEF Holds
  <2>4. Committed(n)' <=> Committed(n)
    <3>1. n \in 1 .. head' /\ ticket'[p] # n <=> n \in 1 .. head
      BY ONLY <2>1, <2>2
    <3> QED
      BY ONLY <2>1, <2>3, <3>1, p \in Producers, Zenon DEF Committed
  <2>5. ~Moved(p, "even", "idle") /\ head <= head' /\ head' \in Nat
    BY ONLY <2>1, <2>2 DEF Moved
  <2> QED
    BY ONLY <2>1, <2>4, <2>5, Zenon
<1>2. CASE begin_slot(p) \/ complete_slot(p)
  <2>1. head' = head /\ head \in Nat
    BY <1>2, SlotSteps DEF WroteField, WroteSeq, RingType
  <2>2. Holds(p) /\ \A q \in Producers \ {p} : (Holds(q)' <=> Holds(q)) /\ ticket'[q] = ticket[q]
    BY <1>2, SlotSteps, StepFrame DEF Holds
  <2>3. (Holds(p)' /\ ticket'[p] = ticket[p]) \/ Moved(p, "even", "idle")
    BY <1>2, SlotSteps DEF Holds, Moved, WroteField
  <2>4. Committed(n) => Committed(n)'
    BY <2>1, <2>2, <2>3 DEF Committed, Moved, Holds
  <2>5. Committed(n)' => Committed(n) \/ (Moved(p, "even", "idle") /\ n = ticket[p])
    BY ONLY <2>1, <2>2, <2>3, p \in Producers, Zenon DEF Committed
  <2>6. Committed(n) => rec'[n] = rec[n]
    BY <1>2, <2>2, SlotSteps DEF Committed, WroteField, WroteSeq
  <2>7. head <= head' /\ head' \in Nat
    BY ONLY <2>1
  <2> QED
    BY ONLY <2>4, <2>5, <2>6, <2>7, ZenonT(30)
<1>3. CASE \/ submit(p) \/ begin_join(p) \/ begin_claim(p) \/ begin_latch(p)
           \/ begin_open(p) \/ finish(p) \/ complete_feed(p) \/ complete_leave(p)
           \/ complete_drain(p) \/ complete_fold(p) \/ complete_reopen(p)
  <2>1. UNCHANGED <<head, rec, ticket>> /\ head \in Nat
    BY <1>3 DEF submit, begin_join, begin_claim, begin_latch, begin_open, finish,
       complete_feed, complete_leave, complete_drain, complete_fold, complete_reopen,
       ringVars, RingType
  <2>2. \A q \in Producers : Holds(q)' <=> Holds(q)
    BY <1>3 DEF submit, begin_join, begin_claim, begin_latch, begin_open, finish,
       complete_feed, complete_leave, complete_drain, complete_fold, complete_reopen,
       Goto, Holds, ProdType
  <2>3. Committed(n)' <=> Committed(n)
    BY <2>1, <2>2 DEF Committed
  <2> QED
    BY ONLY <2>1, <2>3
<1> QED
  BY <1>1, <1>2, <1>3 DEF Step, ProducerStep

(* No two submissions of one round of the ring share a slot. *)
LEMMA OwnSlot ==
  ASSUME NEW p \in Producers, RingType, ProdType, TicketInv, Holds(p)
  PROVE  /\ \A q \in Producers : q # p /\ Holds(q) =>
               Slot(ticket[q]) # Slot(ticket[p]) /\ Slot(ticket[q]) \in 0 .. NSlots - 1
         /\ \A n \in Tickets : Committed(n) /\ head < n + NSlots =>
               n # ticket[p] /\ Slot(n) # Slot(ticket[p]) /\ Slot(n) \in 0 .. NSlots - 1
<1>1. Cardinality(Begun) \in Nat /\ head \in Nat
  BY ProducerSets, FS_CardinalityType DEF RingType
<1>2. \A q \in Producers : Holds(q) =>
         ticket[q] \in Int /\ ticket[q] <= head /\ head < ticket[q] + NSlots
  <2> TAKE q \in Producers
  <2> HAVE Holds(q)
  <2>1. ticket[q] \in 1 .. head /\ head + Cardinality(Begun) < ticket[q] + NSlots
    BY DEF TicketInv
  <2> QED
    BY ONLY <1>1, <2>1, AneStatsAssumption
<1>3. \A q \in Producers : q # p /\ Holds(q) =>
         Slot(ticket[q]) # Slot(ticket[p]) /\ Slot(ticket[q]) \in 0 .. NSlots - 1
  <2> TAKE q \in Producers
  <2> HAVE q # p /\ Holds(q)
  <2>1. ticket[q] # ticket[p]
    BY DEF TicketInv
  <2>2. /\ ticket[q] \in Int /\ ticket[q] <= head /\ head < ticket[q] + NSlots
        /\ ticket[p] \in Int /\ ticket[p] <= head /\ head < ticket[p] + NSlots
        /\ head \in Int
    BY <1>1, <1>2, SMTT(30)
  <2>3. Slot(ticket[q]) # Slot(ticket[p])
    BY ONLY <2>1, <2>2, SlotsDiffer, Zenon
  <2> QED
    BY ONLY <2>2, <2>3, SlotType, ZenonT(30)
<1>4. \A n \in Tickets : Committed(n) /\ head < n + NSlots =>
         n # ticket[p] /\ Slot(n) # Slot(ticket[p]) /\ Slot(n) \in 0 .. NSlots - 1
  <2> TAKE n \in Tickets
  <2> HAVE Committed(n) /\ head < n + NSlots
  <2>1. n # ticket[p] /\ n \in Int /\ n <= head
    BY <1>1, SMTT(30) DEF Committed, Tickets
  <2>2. /\ head < n + NSlots /\ ticket[p] \in Int /\ ticket[p] <= head
        /\ head < ticket[p] + NSlots /\ head \in Int
    BY <1>1, <1>2, SMTT(30)
  <2>3. Slot(n) # Slot(ticket[p])
    BY ONLY <2>1, <2>2, SlotsDiffer, Zenon
  <2> QED
    BY ONLY <2>1, <2>3, SlotType, ZenonT(30)
<1> QED
  BY <1>3, <1>4


LEMMA SlotStep ==
  ASSUME NEW p \in Producers, CtrType, RingType, RingType', ProdType, TicketInv, SlotInv, Step(p)
  PROVE  SlotInv'
<1>0. \A n \in Tickets : /\ Committed(n) => Committed(n)' /\ rec'[n] = rec[n]
                         /\ Committed(n)' => Committed(n)
                                             \/ (Moved(p, "even", "idle") /\ n = ticket[p])
                         /\ n \in Nat
  <2> TAKE n \in Tickets
  <2>1. n \in Nat
    BY SMTT(30) DEF Tickets
  <2> QED
    BY <2>1, CommittedStep
<1>1. head \in Nat /\ NSlots \in Nat
  BY DEF RingType
<1>2. \A q \in Producers : pc[q] \in StoredPcs \cup {"set_end"} => Holds(q)
  BY DEF StoredPcs, Holds
<1>3. CASE begin_slot(p) \/ complete_slot(p)
  <2>1. Holds(p) /\ head' = head
    BY <1>3, SlotSteps DEF WroteField, WroteSeq
  <2>2. \A q \in Producers \ {p} : pc'[q] = pc[q] /\ ticket'[q] = ticket[q]
    BY <1>3, StepFrame
  <2>3. ASSUME NEW f, NEW v, NEW from, NEW to, WroteField(p, f, v), Moved(p, from, to),
               from # "even"
        PROVE  /\ \A q \in Producers \ {p} : pc'[q] = "set_end" =>
                     slot'[Slot(ticket'[q])].start = rec'[ticket'[q]].start
               /\ \A q \in Producers \ {p} : pc'[q] \in StoredPcs =>
                     slot'[Slot(ticket'[q])] = rec'[ticket'[q]]
               /\ \A n \in Tickets : Committed(n)' /\ head' < n + NSlots => slot'[Slot(n)] = rec'[n]
               /\ \A i \in 0 .. NSlots - 1, n \in Tickets : seq'[i] = 2 * n => Committed(n)'
    <3>1. \A q \in Producers \ {p} : Holds(q) =>
             slot'[Slot(ticket[q])] = slot[Slot(ticket[q])] /\ rec'[ticket[q]] = rec[ticket[q]]
      BY <2>1, <2>3, OwnSlot DEF WroteField
    <3>2. \A n \in Tickets : Committed(n) /\ head < n + NSlots =>
             slot'[Slot(n)] = slot[Slot(n)] /\ rec'[n] = rec[n]
      BY <2>1, <2>3, OwnSlot DEF WroteField
    <3>3. \A n \in Tickets : Committed(n)' => Committed(n)
      BY <1>0, <2>3 DEF Moved
    <3>4. seq' = seq
      BY <2>3 DEF WroteField
    <3>5. \A q \in Producers \ {p} : pc'[q] = "set_end" =>
             slot'[Slot(ticket'[q])].start = rec'[ticket'[q]].start
      <4> TAKE q \in Producers \ {p}
      <4> HAVE pc'[q] = "set_end"
      <4>1. pc[q] = "set_end" /\ ticket'[q] = ticket[q] /\ Holds(q)
        BY ONLY <1>2, <2>2, q \in Producers \ {p}, pc'[q] = "set_end", ZenonT(30)
      <4>2. slot[Slot(ticket[q])].start = rec[ticket[q]].start
        BY ONLY <4>1, SlotInv, q \in Producers \ {p}, ZenonT(30) DEF SlotInv
      <4>3. slot'[Slot(ticket[q])] = slot[Slot(ticket[q])] /\ rec'[ticket[q]] = rec[ticket[q]]
        BY ONLY <3>1, <4>1, q \in Producers \ {p}, ZenonT(30)
      <4> QED
        BY ONLY <4>1, <4>2, <4>3, Zenon
    <3>6. \A q \in Producers \ {p} : pc'[q] \in StoredPcs =>
             slot'[Slot(ticket'[q])] = rec'[ticket'[q]]
      <4> TAKE q \in Producers \ {p}
      <4> HAVE pc'[q] \in StoredPcs
      <4>1. pc[q] \in StoredPcs /\ ticket'[q] = ticket[q] /\ Holds(q)
        BY ONLY <1>2, <2>2, q \in Producers \ {p}, pc'[q] \in StoredPcs, ZenonT(30)
      <4>2. slot[Slot(ticket[q])] = rec[ticket[q]]
        BY ONLY <4>1, SlotInv, q \in Producers \ {p}, ZenonT(30) DEF SlotInv
      <4>3. slot'[Slot(ticket[q])] = slot[Slot(ticket[q])] /\ rec'[ticket[q]] = rec[ticket[q]]
        BY ONLY <3>1, <4>1, q \in Producers \ {p}, ZenonT(30)
      <4> QED
        BY ONLY <4>1, <4>2, <4>3, Zenon
    <3>7. \A n \in Tickets : Committed(n)' /\ head' < n + NSlots => slot'[Slot(n)] = rec'[n]
      BY ONLY <2>1, <3>2, <3>3, SlotInv, Zenon DEF SlotInv
    <3>8. \A i \in 0 .. NSlots - 1, n \in Tickets : seq'[i] = 2 * n => Committed(n)'
      BY ONLY <1>0, <3>4, SlotInv, ZenonT(30) DEF SlotInv
    <3> QED
      BY ONLY <3>5, <3>6, <3>7, <3>8, Zenon
  <2>4. CASE Moved(p, "set_start", "set_end") /\ WroteField(p, "start", last_busy_end)
    <3>1. /\ slot'[Slot(ticket'[p])].start = rec'[ticket'[p]].start
          /\ pc'[p] = "set_end" /\ pc'[p] \notin StoredPcs
      BY <2>4 DEF WroteField, Moved, StoredPcs
    <3> QED
      BY <2>3, <2>4, <3>1 DEF SlotInv
  <2>5. CASE Moved(p, "set_end", "run") /\ WroteField(p, "end", sample[p])
    <3>1. /\ slot'[Slot(ticket'[p])].start = rec'[ticket'[p]].start
          /\ slot'[Slot(ticket'[p])].end = rec'[ticket'[p]].end
          /\ slot'[Slot(ticket'[p])] \in Fields /\ rec'[ticket'[p]] \in Fields
          /\ pc'[p] # "set_end"
      BY <2>5 DEF WroteField, Moved, SlotInv
    <3>2. slot'[Slot(ticket'[p])] = rec'[ticket'[p]]
      BY <3>1, FieldEqual
    <3> QED
      BY <2>3, <2>5, <3>1, <3>2 DEF SlotInv
  <2>6. CASE Moved(p, "last_end", "even") /\ WroteField(p, "end", End(p))
    <3>1. /\ slot'[Slot(ticket'[p])].start = rec'[ticket'[p]].start
          /\ slot'[Slot(ticket'[p])].end = rec'[ticket'[p]].end
          /\ slot'[Slot(ticket'[p])] \in Fields /\ rec'[ticket'[p]] \in Fields
          /\ pc'[p] # "set_end"
      BY <2>6 DEF WroteField, Moved, SlotInv, StoredPcs
    <3>2. slot'[Slot(ticket'[p])] = rec'[ticket'[p]]
      BY <3>1, FieldEqual
    <3> QED
      BY <2>3, <2>6, <3>1, <3>2 DEF SlotInv
  <2>7. ASSUME NEW k, WroteSeq(p, k), Moved(p, "odd", "set_start") \/ Moved(p, "even", "idle"),
               \A n \in Tickets : k = 2 * n => Committed(n)'
        PROVE  SlotInv'
    <3>1. UNCHANGED <<slot, rec>> /\ pc'[p] \notin StoredPcs \cup {"set_end"}
      BY <2>7 DEF WroteSeq, Moved, StoredPcs
    <3>2. /\ \A q \in Producers : pc'[q] = "set_end" =>
                slot'[Slot(ticket'[q])].start = rec'[ticket'[q]].start
          /\ \A q \in Producers : pc'[q] \in StoredPcs =>
                slot'[Slot(ticket'[q])] = rec'[ticket'[q]]
      BY ONLY <2>2, <3>1, SlotInv, ZenonT(30) DEF SlotInv
    <3>3. Moved(p, "even", "idle") => slot[Slot(ticket[p])] = rec[ticket[p]]
      BY DEF Moved, SlotInv, StoredPcs
    <3>4. \A n \in Tickets : Committed(n)' /\ head' < n + NSlots => slot'[Slot(n)] = rec'[n]
      BY ONLY <1>0, <2>1, <3>1, <3>3, SlotInv, Zenon DEF SlotInv
    <3>5. \A i \in 0 .. NSlots - 1 : seq'[i] = seq[i] \/ seq'[i] = k
      BY <2>7 DEF WroteSeq, RingType
    <3>6. \A i \in 0 .. NSlots - 1, n \in Tickets : seq'[i] = 2 * n => Committed(n)'
      <4> TAKE i \in 0 .. NSlots - 1, n \in Tickets
      <4> HAVE seq'[i] = 2 * n
      <4>1. seq[i] = 2 * n => Committed(n)
        BY ONLY SlotInv, i \in 0 .. NSlots - 1, n \in Tickets, ZenonT(30) DEF SlotInv
      <4>2. Committed(n) => Committed(n)'
        BY ONLY <1>0, n \in Tickets, ZenonT(30)
      <4> QED
        BY ONLY <2>7, <3>5, <4>1, <4>2, seq'[i] = 2 * n, i \in 0 .. NSlots - 1, n \in Tickets, ZenonT(30)
    <3> QED
      BY ONLY <3>2, <3>4, <3>6, Zenon DEF SlotInv
  <2>8. CASE Moved(p, "odd", "set_start") /\ WroteSeq(p, 2 * ticket[p] - 1)
    <3>1. \A n \in Tickets : 2 * ticket[p] - 1 # 2 * n
      BY <2>1, HeldTicket, SMTT(30) DEF Tickets
    <3> QED
      BY <2>7, <2>8, <3>1
  <2>9. CASE Moved(p, "even", "idle") /\ WroteSeq(p, 2 * ticket[p])
    <3>1. ticket[p] \in Tickets /\ ticket[p] \in 1 .. head
      BY <2>1, HeldTicket DEF TicketInv
    <3>2. \A n \in Tickets : 2 * ticket[p] = 2 * n => n = ticket[p]
      BY <3>1, SMTT(30) DEF Tickets
    <3>3. ASSUME NEW n \in Tickets, n = ticket[p] PROVE Committed(n)'
      <4>1. \A q \in Producers \ {p} : Holds(q)' => ticket'[q] # n
        BY <2>1, <2>2, <3>3 DEF TicketInv, Holds
      <4>2. ~Holds(p)'
        BY <2>9 DEF Moved, Holds
      <4> QED
        BY <2>1, <3>1, <3>3, <4>1, <4>2 DEF Committed
    <3> QED
      BY <2>7, <2>9, <3>2, <3>3
  <2> QED
    BY <1>3, SlotSteps, <2>4, <2>5, <2>6, <2>8, <2>9
<1>4. CASE begin_ticket(p)
  <2>1. /\ head' = head + 1 /\ UNCHANGED <<slot, seq, rec>>
        /\ pc'[p] = "join" /\ pc[p] = "begin"
        /\ \A q \in Producers \ {p} : pc'[q] = pc[q] /\ ticket'[q] = ticket[q]
    BY <1>4 DEF begin_ticket, Goto, ProdType
  <2>2. ~Moved(p, "even", "idle")
    BY <2>1 DEF Moved
  <2>3. \A n \in Tickets : Committed(n)' /\ head' < n + NSlots => slot'[Slot(n)] = rec'[n]
    <3>1. \A n \in Tickets : head + 1 < n + NSlots => head < n + NSlots
      <4>1. \A n \in Nat : head + 1 < n + NSlots => head < n + NSlots
        BY ONLY <1>1
      <4> QED
        BY ONLY <4>1, AneStatsAssumption DEF Tickets
    <3> QED
      BY ONLY <1>0, <2>1, <2>2, <3>1, SlotInv, Zenon DEF SlotInv
  <2>4. \A i \in 0 .. NSlots - 1, n \in Tickets : seq'[i] = 2 * n => Committed(n)'
    BY ONLY <1>0, <2>1, SlotInv, Zenon DEF SlotInv
  <2>5. /\ \A q \in Producers : pc'[q] = "set_end" =>
              slot'[Slot(ticket'[q])].start = rec'[ticket'[q]].start
        /\ \A q \in Producers : pc'[q] \in StoredPcs =>
              slot'[Slot(ticket'[q])] = rec'[ticket'[q]]
    BY ONLY <2>1, SlotInv, Zenon DEF SlotInv, StoredPcs
  <2> QED
    BY ONLY <2>3, <2>4, <2>5, Zenon DEF SlotInv
<1>5. CASE \/ submit(p) \/ begin_join(p) \/ begin_claim(p) \/ begin_latch(p)
           \/ begin_open(p) \/ finish(p) \/ complete_feed(p) \/ complete_leave(p)
           \/ complete_drain(p) \/ complete_fold(p) \/ complete_reopen(p)
  <2>1. UNCHANGED <<head, rec, slot, seq, ticket>>
    BY <1>5 DEF submit, begin_join, begin_claim, begin_latch, begin_open, finish,
       complete_feed, complete_leave, complete_drain, complete_fold, complete_reopen, ringVars
  <2>2. /\ \A q \in Producers : pc'[q] = "set_end" => pc[q] = "set_end"
        /\ \A q \in Producers : pc'[q] \in StoredPcs => pc[q] \in StoredPcs
        /\ pc[p] # "even"
    BY <1>5 DEF submit, begin_join, begin_claim, begin_latch, begin_open, finish,
       complete_feed, complete_leave, complete_drain, complete_fold, complete_reopen,
       Goto, StoredPcs, ProdType
  <2>3. ~Moved(p, "even", "idle")
    BY <2>2 DEF Moved
  <2> QED
    BY ONLY <1>0, <2>1, <2>2, <2>3, SlotInv, ZenonT(30) DEF SlotInv
<1> QED
  BY <1>3, <1>4, <1>5 DEF Step, ProducerStep


(* What the reader has read, and the last line it printed, stay true. *)
LEMMA LineStep ==
  ASSUME NEW p \in Producers, CtrType, RingType, ProdType, ReadType, TicketInv, LineInv, Step(p)
  PROVE  LineInv'
<1>1. rd' = rd /\ line' = line
  BY StepFrame DEF readVars
<1>2. \A n \in Tickets : Committed(n) => Committed(n)' /\ rec'[n] = rec[n]
  BY CommittedStep
<1>3. /\ line.ticket # 0 => line.ticket \in Tickets
      /\ rd.ticket \in Int /\ NSlots \in Int /\ head \in Int
  BY SMTT(30) DEF ReadType, ReadLocals, Tickets, RingType
<1>4. head <= head' /\ head' \in Int
  <2>1. CASE begin_ticket(p)
    BY <2>1, <1>3, SMTT(30) DEF begin_ticket
  <2>2. CASE UNCHANGED head
    BY <2>2, <1>3, SMTT(30)
  <2> QED
    BY <2>1, <2>2, SlotSteps DEF Step, ProducerStep, submit, begin_join, begin_claim,
       begin_latch, begin_open, finish, complete_feed, complete_leave, complete_drain,
       complete_fold, complete_reopen, ringVars, WroteField, WroteSeq
<1>5. head' < rd.ticket + NSlots => head < rd.ticket + NSlots
  BY ONLY <1>3, <1>4
<1> QED
  BY ONLY <1>1, <1>2, <1>3, <1>5, LineInv, Zenon DEF LineInv, TimelineExact

LEMMA ProducerIInv ==
  ASSUME NEW p \in Producers, IInv, Step(p)
  PROVE  IInv'
<1> USE DEF IInv
<1>1. CtrType' /\ RingType' /\ ProdType'
  BY CtrTypeStep, RingTypeStep, ProdTypeStep
<1>2. ReadType'
  BY StepFrame DEF ReadType, readVars
<1>3. CountInv' /\ TicketInv' /\ TimeInv'
  BY CountStep, TicketStep, TimeStep
<1>4. SnapInv' /\ BusyInv'
  BY <1>1, SnapStep, BusyStep
<1>5. SlotInv' /\ LineInv'
  BY <1>1, SlotStep, LineStep
<1> QED
  BY <1>1, <1>2, <1>3, <1>4, <1>5

-----------------------------------------------------------------------------
(* The reader and the clock. *)

LEMMA OpenFrame ==
  ASSUME UNCHANGED prodVars
  PROVE  /\ Joined' = Joined /\ Trans' = Trans /\ Begun' = Begun /\ Uncounted' = Uncounted
         /\ Open' <=> Open
BY DEF prodVars, Joined, Trans, Begun, Uncounted, Open

(* What depends on neither. *)
LEMMA ReaderFrame ==
  ASSUME RingType, ProdType, CountInv, TicketInv, BusyInv, SlotInv,
         UNCHANGED <<ctrVars, ringVars, prodVars>>
  PROVE  RingType' /\ ProdType' /\ CountInv' /\ TicketInv' /\ BusyInv' /\ SlotInv'
<1> USE DEF ctrVars, ringVars, prodVars
<1>1. RingType' /\ ProdType'
  BY DEF RingType, ProdType
<1>2. CountInv' /\ TicketInv'
  BY OpenFrame DEF CountInv, InflightExact, TicketInv, Holds
<1>3. Busy' = Busy
  BY DEF Busy, Final, Pending, Holds, End
<1>4. BusyInv'
  BY <1>3, OpenFrame DEF BusyInv, Starts
<1>5. SlotInv'
  BY DEF SlotInv, Committed, Holds
<1> QED
  BY <1>1, <1>2, <1>4, <1>5

LEMMA TickStep ==
  ASSUME IInv, tick
  PROVE  IInv'
<1> USE DEF IInv
<1>1. clock' = clock + 1 /\ clock' \in Time /\ UNCHANGED <<ctrVars, ringVars, prodVars, readVars>>
  BY SMTT(30) DEF tick, CtrType, Time
<1>2. RingType' /\ ProdType' /\ CountInv' /\ TicketInv' /\ BusyInv' /\ SlotInv'
  BY <1>1, ReaderFrame
<1>3. CtrType' /\ ReadType'
  BY <1>1 DEF CtrType, ReadType, ctrVars, readVars
<1>4. TimeInv'
  <2>1. clock \in Int /\ last_busy_end \in Int /\ max_end \in Int
        /\ \A q \in Producers : sample[q] \in Int
    BY SMTT(30) DEF CtrType, ProdType, Time
  <2>2. UNCHANGED <<busy_ns, last_busy_end, max_end, pc, sample, fold_end>> /\ (Open' <=> Open)
    BY <1>1, OpenFrame DEF ctrVars, prodVars
  <2>3. last_busy_end <= clock' /\ max_end <= clock' /\ \A q \in Producers : sample[q] <= clock'
    BY <1>1, <2>1, SMTT(30) DEF TimeInv
  <2> QED
    BY ONLY <2>2, <2>3, TimeInv, ZenonT(30) DEF TimeInv
<1>5. SnapInv'
  BY <1>1, SMTT(30) DEF SnapInv, CtrType, ReadType, ReadLocals, Time, ctrVars, readVars
<1>6. LineInv'
  BY <1>1 DEF LineInv, TimelineExact, Committed, Holds, ringVars, prodVars, readVars
<1> QED
  BY <1>2, <1>3, <1>4, <1>5, <1>6


LEMMA InflightType ==
  ASSUME CtrType, CountInv
  PROVE  /\ inflight # TRANS => inflight \in Nat
         /\ inflight > 0 => Open
<1>1. IsFiniteSet(Joined) /\ Cardinality(Joined) \in Nat
  BY ProducerSets, FS_CardinalityType
<1>2. inflight # TRANS => inflight = Cardinality(Joined)
  BY DEF CountInv, InflightExact
<1>3. inflight > 0 => Joined # {}
  BY <1>1, <1>2, FS_EmptySet, SMTT(30) DEF TRANS
<1> QED
  BY <1>1, <1>2, <1>3 DEF Open

(* A step that only moves the reader keeps everything but its own parts.   *)
LEMMA ReaderParts ==
  ASSUME IInv, UNCHANGED <<clock, ctrVars, ringVars, prodVars>>,
         ReadType', SnapInv', LineInv'
  PROVE  IInv'
<1>1. RingType' /\ ProdType' /\ CountInv' /\ TicketInv' /\ BusyInv' /\ SlotInv'
  BY ReaderFrame DEF IInv
<1>2. CtrType'
  BY DEF CtrType, ctrVars, IInv
<1>3. TimeInv'
  <2>1. UNCHANGED <<clock, busy_ns, last_busy_end, max_end, pc, sample, fold_end>>
        /\ (Open' <=> Open)
    BY OpenFrame DEF ctrVars, prodVars
  <2> QED
    BY ONLY <2>1, IInv, ZenonT(30) DEF TimeInv, IInv
<1> QED
  BY <1>1, <1>2, <1>3 DEF IInv

(* The reader's locals after each load of a snapshot. *)
LEMMA SnapshotLoads ==
  ASSUME ReadType, clock \in Nat, busy_ns \in Nat, last_busy_end \in Nat,
         inflight # TRANS => inflight \in Nat, snapshot_read \/ snapshot_recheck
  PROVE  /\ rd' \in ReadLocals
         /\ \/ rd'.at = "raw" /\ rd'.raw = rd.raw
            \/ rd'.at \in {"s", "now"} /\ rd'.raw = busy_ns
            \/ rd'.at = "now" /\ rd'.raw = rd.raw
            \/ rd'.at = "recheck_busy" /\ rd'.raw = rd.raw /\ rd'.now = clock
            \/ rd'.at = "inflight" /\ rd'.raw = rd.raw
            \/ /\ rd.at \in {"recheck_busy", "recheck", "recheck_s"}
               /\ rd'.raw = rd.raw /\ rd'.now = rd.now /\ rd'.s = rd.s
               /\ rd'.inflight = rd.inflight
               /\ \/ rd'.at = "recheck"
                  \/ rd'.at = "recheck_s" /\ inflight > 0
                  \/ rd'.at = "report" /\ ~(rd.inflight > 0)
                  \/ rd'.at = "report" /\ rd.at = "recheck_s" /\ last_busy_end = rd.s
<1> USE DEF ReadType, ReadLocals, ReaderPcs
<1>1. CASE inflight # TRANS /\ rd' = [rd EXCEPT !.at = "raw", !.inflight = inflight]
  BY <1>1
<1>2. CASE rd' = [rd EXCEPT !.at = IF rd.inflight > 0 THEN "s" ELSE "now", !.raw = busy_ns]
  BY <1>2
<1>3. CASE rd' = [rd EXCEPT !.at = "now", !.s = last_busy_end]
  BY <1>3
<1>4. CASE rd' = [rd EXCEPT !.at = "recheck_busy", !.now = clock]
  BY <1>4
<1>5. CASE snapshot_recheck
  BY <1>5, SMTT(30) DEF snapshot_recheck, Read
<1> QED
  BY <1>1, <1>2, <1>3, <1>4, <1>5 DEF snapshot_read, Read

(* The reader's locals after each load of a timeline line. *)
LEMMA TimelineLoads ==
  ASSUME ReadType, timeline_read, slot[Slot(rd.ticket)] \in Fields, seq[Slot(rd.ticket)] \in Nat
  PROVE  /\ rd' \in ReadLocals /\ rd'.ticket = rd.ticket /\ rd'.raw = rd.raw
         /\ \/ /\ rd.at = "seq" /\ rd'.at = "start" /\ rd'.seq = seq[Slot(rd.ticket)]
            \/ /\ rd.at = "start" /\ rd'.at = "end" /\ rd'.seq = rd.seq
               /\ rd'.got.start = slot[Slot(rd.ticket)].start
            \/ /\ rd.at = "end" /\ rd'.at = "print" /\ rd'.seq = rd.seq
               /\ rd'.got \in Fields /\ rd'.got.start = rd.got.start
               /\ rd'.got.end = slot[Slot(rd.ticket)].end
<1> DEFINE e == slot[Slot(rd.ticket)]
<1>1. rd \in ReadLocals /\ rd.got \in Fields /\ e.start \in Nat /\ e.end \in Nat
  BY DEF ReadType, ReadLocals, Fields
<1>2. CASE rd.at = "seq" /\ rd' = [rd EXCEPT !.at = "start", !.seq = seq[Slot(rd.ticket)]]
  BY <1>1, <1>2 DEF ReadLocals, ReaderPcs
<1>3. CASE rd.at = "start" /\ rd' = [rd EXCEPT !.at = "end", !.got.start = e.start]
  <2> DEFINE g == [rd.got EXCEPT !.start = e.start]
  <2>1. g \in Fields /\ g.start = e.start
    BY <1>1 DEF Fields
  <2>2. rd' = [rd EXCEPT !.at = "end", !.got = g]
    BY <1>1, <1>3 DEF ReadLocals
  <2> HIDE DEF g
  <2>3. /\ rd' \in ReadLocals /\ rd'.at = "end" /\ rd'.seq = rd.seq /\ rd'.ticket = rd.ticket
        /\ rd'.raw = rd.raw /\ rd'.got = g
    BY <1>1, <2>1, <2>2 DEF ReadLocals, ReaderPcs
  <2> QED
    BY <1>3, <2>1, <2>3
<1>4. CASE rd.at = "end" /\ rd' = [rd EXCEPT !.at = "print", !.got.end = e.end]
  <2> DEFINE g == [rd.got EXCEPT !.end = e.end]
  <2>1. g \in Fields /\ g.end = e.end /\ g.start = rd.got.start
    BY <1>1 DEF Fields
  <2>2. rd' = [rd EXCEPT !.at = "print", !.got = g]
    BY <1>1, <1>4 DEF ReadLocals
  <2> HIDE DEF g
  <2>3. /\ rd' \in ReadLocals /\ rd'.at = "print" /\ rd'.seq = rd.seq /\ rd'.ticket = rd.ticket
        /\ rd'.raw = rd.raw /\ rd'.got = g
    BY <1>1, <2>1, <2>2 DEF ReadLocals, ReaderPcs
  <2> QED
    BY <1>4, <2>1, <2>3
<1> QED
  BY <1>2, <1>3, <1>4 DEF timeline_read, Read

LEMMA NoReadType ==
  ASSUME NEW at \in ReaderPcs, NEW n \in 0 .. Submits
  PROVE  LET r == [NoRead EXCEPT !.at = at, !.ticket = n] IN
         /\ NoRead \in ReadLocals /\ NoRead.at = "idle" /\ NoRead.raw = 0
         /\ r \in ReadLocals /\ r.at = at /\ r.ticket = n
         /\ [NoRead EXCEPT !.at = at] \in ReadLocals
         /\ [NoRead EXCEPT !.at = at].at = at /\ [NoRead EXCEPT !.at = at].raw = 0
<1>1. NoRead \in ReadLocals /\ NoRead.at = "idle" /\ NoRead.raw = 0
  BY SMTT(30) DEF NoRead, ReadLocals, ReaderPcs, Blank, Fields
<1> QED
  BY ONLY <1>1, at \in ReaderPcs, n \in 0 .. Submits, ZenonT(30) DEF ReadLocals

LEMMA SnapshotIInv ==
  ASSUME IInv, snapshot_begin \/ snapshot_read \/ snapshot_recheck \/ snapshot_report
  PROVE  IInv'
<1> USE DEF IInv
<1>1. UNCHANGED <<clock, ctrVars, ringVars, prodVars, line>>
  BY DEF snapshot_begin, snapshot_read, snapshot_recheck, snapshot_report, Read
<1>2. /\ clock \in Nat /\ busy_ns \in Nat /\ last_busy_end \in Nat
      /\ inflight # TRANS => inflight \in Nat
      /\ inflight > 0 => Open
  BY InflightType, SMTT(30) DEF CtrType, Time
<1>3. /\ snapshot_begin => rd' \in ReadLocals /\ rd'.at = "inflight" /\ rd'.raw = 0
      /\ snapshot_report => rd' \in ReadLocals /\ rd'.at = "idle" /\ rd'.raw = 0
  <2>1. "inflight" \in ReaderPcs /\ 0 \in 0 .. Submits
    BY ONLY AneStatsAssumption DEF ReaderPcs
  <2> QED
    BY ONLY <2>1, NoReadType, Zenon DEF snapshot_begin, snapshot_report
<1>4. ReadType' /\ rd'.at \notin {"seq", "start", "end", "print"}
  <2>1. CASE snapshot_begin
    <3>1. /\ reads' = reads + 1 /\ line' = line /\ value' = value /\ busy_max' = busy_max
      BY <2>1 DEF snapshot_begin
    <3> QED
      BY ONLY <1>3, <2>1, <3>1, ReadType DEF ReadType
  <2>2. CASE snapshot_read \/ snapshot_recheck
    BY <1>2, <2>2, SnapshotLoads DEF snapshot_read, snapshot_recheck, Read, ReadType
  <2>3. CASE snapshot_report
    <3>1. value' \in Nat /\ busy_max' \in Nat /\ reads' = reads /\ line' = line
      BY <2>3, SMTT(30) DEF snapshot_report, ReadType, ReadLocals, latest
    <3> QED
      BY ONLY <1>3, <2>3, <3>1, ReadType, ZenonT(30) DEF ReadType
  <2> QED
    BY <2>1, <2>2, <2>3
<1>5. SnapInv'
  <2>0. /\ busy_ns <= clock /\ (Open => busy_ns <= last_busy_end)
        /\ UNCHANGED <<clock, busy_ns, last_busy_end, inflight>>
    <3>1. TimeInv /\ last_busy_end \in Nat /\ max_end \in Nat
      BY DEF CtrType
    <3>2. busy_ns <= clock /\ (Open => busy_ns <= last_busy_end)
      BY ONLY <1>2, <3>1 DEF TimeInv
    <3>3. UNCHANGED <<clock, busy_ns, last_busy_end, inflight>>
      BY <1>1 DEF ctrVars
    <3> QED
      BY ONLY <3>2, <3>3, ZenonT(30)
  <2>1. CASE snapshot_begin
    BY ONLY <1>2, <1>3, <2>0, <2>1 DEF SnapInv
  <2>2. CASE snapshot_read \/ snapshot_recheck
    <3>1. rd \in ReadLocals /\ rd.raw \in Nat /\ rd.now \in Nat
      BY DEF ReadType, ReadLocals
    <3> QED
      BY <1>2, <2>0, <2>2, <3>1, SnapshotLoads, SMTT(30) DEF SnapInv
  <2>3. CASE snapshot_report
    BY ONLY <1>2, <1>3, <2>0, <2>3 DEF SnapInv
  <2> QED
    BY <2>1, <2>2, <2>3
<1>6. LineInv'
  BY <1>1, <1>4 DEF LineInv, TimelineExact, Committed, Holds, ringVars, prodVars
<1> QED
  BY <1>1, <1>4, <1>5, <1>6, ReaderParts

LEMMA TimelineIInv ==
  ASSUME IInv, timeline_read \/ timeline_print \/ \E n \in Tickets : timeline_begin(n)
  PROVE  IInv'
<1> USE DEF IInv
<1>1. UNCHANGED <<clock, ctrVars, ringVars, prodVars>>
  BY DEF timeline_begin, timeline_read, timeline_print, Read
<1>2. Blank \in Fields /\ Tickets \subseteq 0 .. Submits
  BY SMTT(30) DEF Blank, Fields, Tickets
<1>3. Slot(rd.ticket) \in 0 .. NSlots - 1
  BY SlotType, SMTT(30) DEF ReadType, ReadLocals
<1>4. /\ slot[Slot(rd.ticket)] \in Fields /\ seq[Slot(rd.ticket)] \in Nat
      /\ slot[Slot(rd.ticket)].start \in Nat /\ slot[Slot(rd.ticket)].end \in Nat
  BY <1>3, SMTT(30) DEF RingType, Fields
<1>5. head \in Nat
  BY DEF RingType
<1>6. ReadType'
  <2>1. CASE \E n \in Tickets : timeline_begin(n)
    <3>1. PICK n \in Tickets : timeline_begin(n)
      BY <2>1
    <3>2. rd' \in ReadLocals
      <4>1. "seq" \in ReaderPcs /\ n \in 0 .. Submits
        BY <1>2 DEF ReaderPcs
      <4>2. rd' = [NoRead EXCEPT !.at = "seq", !.ticket = n]
        BY <3>1 DEF timeline_begin
      <4> QED
        BY ONLY <4>1, <4>2, NoReadType, Zenon
    <3>3. reads' = reads + 1 /\ line' = line /\ value' = value /\ busy_max' = busy_max
      BY <3>1 DEF timeline_begin
    <3> QED
      BY ONLY ReadType, <3>2, <3>3 DEF ReadType
  <2>2. CASE timeline_read
    BY <1>4, <2>2, TimelineLoads DEF timeline_read, Read, ReadType
  <2>3. CASE timeline_print
    <3>1. rd' \in ReadLocals /\ reads' = reads /\ value' = value /\ busy_max' = busy_max
      BY <1>2, <2>3, SMTT(30) DEF timeline_print, NoRead, ReadLocals, ReaderPcs
    <3>2. line' \in [ticket : 0 .. Submits, got : Fields, head : Nat]
      BY <1>5, <2>3 DEF timeline_print, ReadType, ReadLocals
    <3> QED
      BY <3>1, <3>2 DEF ReadType
  <2> QED
    BY <2>1, <2>2, <2>3
<1>7. SnapInv'
  <2>2. /\ rd'.raw = 0 \/ rd'.raw = rd.raw
        /\ rd'.at \in {"idle", "seq", "start", "end", "print"}
    <3>1. CASE timeline_read
      BY <1>4, <3>1, TimelineLoads
    <3>2. CASE timeline_print
      BY <3>2 DEF timeline_print, NoRead
    <3>3. CASE \E n \in Tickets : timeline_begin(n)
      BY <3>3 DEF timeline_begin, NoRead
    <3> QED
      BY <3>1, <3>2, <3>3
  <2>3. busy_ns' = busy_ns /\ busy_ns \in Nat
    BY <1>1 DEF ctrVars, CtrType
  <2> QED
    BY <2>2, <2>3, SMTT(30) DEF SnapInv
<1>8. LineInv'
  <2>0. /\ UNCHANGED <<head, rec, slot, seq, ticket, pc>>
        /\ \A n \in Tickets : Committed(n)' <=> Committed(n)
    BY <1>1 DEF ringVars, prodVars, Committed, Holds
  <2>1. CASE \E n \in Tickets : timeline_begin(n)
    <3>1. line' = line /\ rd'.at = "seq" /\ rd'.ticket \in Tickets
      BY <2>1 DEF timeline_begin, NoRead
    <3>2. line.ticket # 0 => line.ticket \in Tickets
      BY SMTT(30) DEF ReadType, Tickets
    <3> QED
      BY ONLY <2>0, <3>1, <3>2, LineInv, Zenon DEF LineInv, TimelineExact
  <2>2. CASE timeline_read
    <3>1. line' = line /\ rd.ticket \in Tickets
      BY <2>2 DEF timeline_read, Read, LineInv
    <3>2. line.ticket # 0 => line.ticket \in Tickets
      BY SMTT(30) DEF ReadType, Tickets
    <3>3. CASE rd.at = "seq"
      <4>1. rd'.at = "start" /\ rd'.seq = seq[Slot(rd.ticket)] /\ rd'.ticket = rd.ticket
        BY <1>4, <2>2, <3>3, TimelineLoads
      <4>2. rd'.seq = 2 * rd'.ticket => Committed(rd.ticket)
        BY <1>3, <3>1, <4>1 DEF SlotInv
      <4> QED
        BY <2>0, <3>1, <3>2, <4>1, <4>2 DEF LineInv, TimelineExact
    <3>4. CASE rd.at = "start"
      <4>1. /\ rd'.at = "end" /\ rd'.seq = rd.seq /\ rd'.ticket = rd.ticket
            /\ rd'.got.start = slot[Slot(rd.ticket)].start
        BY <1>4, <2>2, <3>4, TimelineLoads
      <4>2. rd.seq = 2 * rd.ticket /\ head < rd.ticket + NSlots =>
               slot[Slot(rd.ticket)] = rec[rd.ticket]
        BY <3>1, <3>4 DEF LineInv, SlotInv
      <4> QED
        BY <2>0, <3>1, <3>2, <3>4, <4>1, <4>2 DEF LineInv, TimelineExact
    <3>5. CASE rd.at = "end"
      <4>1. /\ rd'.at = "print" /\ rd'.seq = rd.seq /\ rd'.got \in Fields
            /\ rd'.ticket = rd.ticket
            /\ rd'.got.start = rd.got.start /\ rd'.got.end = slot[Slot(rd.ticket)].end
        BY <1>4, <2>2, <3>5, TimelineLoads
      <4>2. rd.seq = 2 * rd.ticket /\ head < rd.ticket + NSlots =>
               slot[Slot(rd.ticket)] = rec[rd.ticket]
        BY <3>1, <3>5 DEF LineInv, SlotInv
      <4>3. rd.seq = 2 * rd.ticket /\ head < rd.ticket + NSlots =>
               rd'.got.start = rec[rd.ticket].start
        BY <3>5, <4>1 DEF LineInv
      <4>4. rec[rd.ticket] \in Fields
        BY <3>1 DEF RingType
      <4>5. rd.seq = 2 * rd.ticket /\ head < rd.ticket + NSlots => rd'.got = rec[rd.ticket]
        BY <4>1, <4>2, <4>3, <4>4, FieldEqual
      <4> QED
        BY <2>0, <3>1, <3>2, <3>5, <4>1, <4>3, <4>5 DEF LineInv, TimelineExact
    <3> QED
      BY <2>2, <3>3, <3>4, <3>5 DEF timeline_read, Read
  <2>3. CASE timeline_print
    <3>1. rd'.at = "idle" /\ rd.ticket \in Tickets
      BY <2>3 DEF timeline_print, NoRead, LineInv
    <3>2. CASE line' = line
      <4>1. line.ticket # 0 => line.ticket \in Tickets
        BY SMTT(30) DEF ReadType, Tickets
      <4> QED
        BY <2>0, <3>1, <3>2, <4>1 DEF LineInv, TimelineExact
    <3>3. CASE /\ rd.seq = 2 * rd.ticket
               /\ line' = [ticket |-> rd.ticket, got |-> rd.got, head |-> head]
      <4>1. line'.ticket = rd.ticket /\ line'.got = rd.got /\ line'.head = head
        BY <3>3
      <4>2. Committed(rd.ticket) /\ (head < rd.ticket + NSlots => rd.got = rec[rd.ticket])
        BY <2>3, <3>3 DEF timeline_print, LineInv
      <4> QED
        BY <2>0, <3>1, <4>1, <4>2 DEF LineInv, TimelineExact
    <3> QED
      BY <2>3, <3>2, <3>3 DEF timeline_print
  <2> QED
    BY <2>1, <2>2, <2>3
<1> QED
  BY <1>1, <1>6, <1>7, <1>8, ReaderParts


-----------------------------------------------------------------------------
LEMMA StepIInv == IInv /\ [Next]_vars => IInv'
<1> SUFFICES ASSUME IInv, [Next]_vars PROVE IInv'
  OBVIOUS
<1>1. CASE UNCHANGED vars
  <2>1. UNCHANGED <<clock, ctrVars, ringVars, prodVars, readVars>>
    BY <1>1 DEF vars
  <2>2. ReadType' /\ SnapInv'
    BY <2>1 DEF IInv, ReadType, SnapInv, readVars, ctrVars
  <2>3. LineInv'
    BY <2>1 DEF IInv, LineInv, TimelineExact, Committed, Holds, ringVars, prodVars, readVars
  <2> QED
    BY <2>1, <2>2, <2>3, ReaderParts
<1>2. CASE tick
  BY <1>2, TickStep
<1>3. CASE \E p \in Producers : submit(p) \/ ProducerStep(p)
  BY <1>3, ProducerIInv DEF Step
<1>4. CASE snapshot_begin \/ snapshot_read \/ snapshot_recheck \/ snapshot_report
  BY <1>4, SnapshotIInv
<1>5. CASE timeline_read \/ timeline_print \/ \E n \in Tickets : timeline_begin(n)
  BY <1>5, TimelineIInv
<1> QED
  BY <1>1, <1>2, <1>3, <1>4, <1>5 DEF Next, ReaderStep

(* IInv holds in every reachable state. *)
THEOREM Invariance == Spec => []IInv
BY InitIInv, StepIInv, PTL DEF Spec

(* The counters and the ring keep their ranges: busy_ns and the period's   *)
(* bounds never pass the clock, jobs never passes the submissions, and     *)
(* inflight never passes the number of producers.                          *)
THEOREM TypeCorrect == Spec => []TypeOK
<1>1. IInv => TypeOK
  <2> SUFFICES ASSUME IInv PROVE TypeOK
    OBVIOUS
  <2> USE DEF IInv
  <2>0. TimeInv
    OBVIOUS
  <2>1. /\ clock \in Nat /\ clock <= MaxTime /\ busy_ns \in Nat /\ last_busy_end \in Nat
        /\ max_end \in Nat /\ last_busy_end <= clock /\ max_end <= clock
        /\ busy_ns <= last_busy_end \/ busy_ns <= max_end
    <3>1. /\ clock \in Nat /\ clock <= MaxTime /\ busy_ns \in Nat /\ last_busy_end \in Nat
          /\ max_end \in Nat
      BY SMTT(30) DEF CtrType, Time
    <3> QED
      BY ONLY <2>0, <3>1, ZenonT(30) DEF TimeInv
  <2>2. /\ clock \in Time /\ busy_ns \in Time /\ last_busy_end \in Time /\ max_end \in Time
    BY ONLY <2>1, AneStatsAssumption DEF Time
  <2>3. IsFiniteSet(Begun) /\ IsFiniteSet(Uncounted)
    BY FS_Subset DEF Begun, Uncounted
  <2>4. Cardinality(Begun) \in Nat /\ Cardinality(Uncounted) \in Nat
    BY ONLY <2>3, FS_CardinalityType, ZenonT(30)
  <2>5. /\ head \in Nat /\ jobs \in Nat /\ head + Cardinality(Begun) <= Submits
        /\ jobs + Cardinality(Uncounted) = head
    BY DEF RingType, CtrType, TicketInv
  <2>6. jobs \in 0 .. Submits /\ head \in 0 .. Submits
    BY ONLY <2>4, <2>5, AneStatsAssumption
  <2>7. Cardinality(Joined) \in Nat /\ Cardinality(Joined) <= Cardinality(Producers)
    <3>1. Joined \subseteq Producers
      BY DEF Joined
    <3>2. IsFiniteSet(Joined) /\ Cardinality(Joined) <= Cardinality(Producers)
      BY ONLY <3>1, FS_Subset, AneStatsAssumption, ZenonT(30)
    <3> QED
      BY ONLY <3>2, FS_CardinalityType, ZenonT(30)
  <2>8. Cardinality(Producers) \in Nat
    BY ONLY FS_CardinalityType, AneStatsAssumption, ZenonT(30)
  <2>9. inflight \in {TRANS} \cup 0 .. Cardinality(Producers)
    BY ONLY <2>7, <2>8, CountInv DEF CountInv, InflightExact
  <2>10. DOMAIN seq = DOMAIN slot /\ \A i \in DOMAIN seq : seq[i] \in 0 .. 2 * Submits
    BY DEF RingType
  <2> QED
    BY ONLY <2>2, <2>6, <2>9, <2>10, ZenonT(30) DEF TypeOK
<1> QED
  BY <1>1, Invariance, PTL

(* inflight is exactly the number of submissions between their join and    *)
(* their leave, and the sentinel exactly while one producer opens or folds *)
(* a period: every completion finds the count it needs.                    *)
THEOREM CountExact == Spec => []InflightExact
<1>1. IInv => InflightExact
  BY DEF IInv, CountInv
<1> QED
  BY <1>1, Invariance, PTL

(* Whenever nothing is in flight, busy_ns is the size of the union of the  *)
(* recorded intervals: late samples neither fold a time twice nor lose it. *)
THEOREM BusyIsUnion == Spec => []PeriodsAreUnion
<1>1. IInv => PeriodsAreUnion
  <2> SUFFICES ASSUME IInv, \A p \in Producers : pc[p] \in {"idle", "begin"}
               PROVE  busy_ns = Cardinality(Covered)
    BY DEF PeriodsAreUnion
  <2>1. ~Open
    BY DEF Open, Joined
  <2>2. /\ \A p \in Producers : ~Holds(p) /\ ~Pending(p) /\ pc[p] \notin DonePcs
        /\ \A n : Final(n) <=> n \in 1 .. head
    BY DEF Holds, Pending, DonePcs, Final
  <2>3. head \in 0 .. Submits
    <3>1. Cardinality(Begun) \in Nat
      BY FS_Subset, FS_CardinalityType DEF Begun
    <3> QED
      BY <3>1, SMTT(30) DEF IInv, RingType, TicketInv
  <2>4. \A n \in 1 .. head : n \in Tickets /\ rec[n].start \in Nat /\ rec[n].end \in Nat
    BY <2>3, SMTT(30) DEF IInv, RingType, Tickets, Fields
  <2>5. Busy = Covered
    <3>1. Busy = {t \in Nat : \E n \in Tickets : /\ n \in 1 .. head
                                                 /\ rec[n].start <= t /\ t < rec[n].end}
      BY <2>2 DEF Busy
    <3>2. \A t : t \in Covered <=> \E n \in 1 .. head : t \in rec[n].start .. rec[n].end - 1
      BY DEF Covered
    <3>3. \A n \in 1 .. head : \A t : t \in rec[n].start .. rec[n].end - 1 <=>
                                      t \in Nat /\ rec[n].start <= t /\ t < rec[n].end
      BY <2>4, SMTT(30)
    <3>4. \A t : t \in Covered <=> t \in Busy
      BY ONLY <2>4, <3>1, <3>2, <3>3, ZenonT(30)
    <3> QED
      BY <3>4
  <2> QED
    BY ONLY <2>1, <2>5, IInv, ZenonT(30) DEF IInv, BusyInv
<1> QED
  BY <1>1, Invariance, PTL

(* A snapshot never reports more busy time than has passed. *)
THEOREM SnapshotBound == Spec => []SnapshotElapsed
<1>1. IInv => SnapshotElapsed
  <2> SUFFICES ASSUME IInv, rd.at = "report"
               PROVE  rd.raw + (IF rd.inflight > 0 THEN latest(0, rd.now - rd.s) ELSE 0)
                         <= rd.now
    BY DEF SnapshotElapsed
  <2>1. rd.raw \in Nat /\ rd.now \in Nat /\ rd.s \in Nat /\ rd.inflight \in Nat
    BY DEF IInv, ReadType, ReadLocals
  <2>2. rd.raw <= rd.now /\ (rd.inflight > 0 => rd.raw <= rd.s)
    BY DEF IInv, SnapInv
  <2> QED
    BY ONLY <2>1, <2>2 DEF latest
<1> QED
  BY <1>1, Invariance, PTL

(* A timeline line read within one round of the ring is the submission's   *)
(* own record.                                                             *)
THEOREM TimelineSoundness == Spec => []TimelineExact
<1>1. IInv => TimelineExact
  BY DEF IInv, LineInv
<1> QED
  BY <1>1, Invariance, PTL
=============================================================================
