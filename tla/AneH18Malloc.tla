---------------------------- MODULE AneH18Malloc ----------------------------
(***************************************************************************)
(* The SHAREDMALLOC ring of ane_h18.ko: ane_h18_mal_service(), called in a *)
(* loop by ane_h18_chan_poll() (ane/h18/ane_h18_main.c, ane_h18.h).  The   *)
(* firmware posts MALLOC and FREE requests in ring order and waits for     *)
(* each answer without a time-out.                                         *)
(*                                                                         *)
(* Abstractions.  Sizes are small numbers of pages; addresses are model    *)
(* values the DMA API hands out; the firmware writes a request's header    *)
(* last, so a request is one step.  The firmware is modelled from the ring *)
(* protocol ane_h18.h describes.                                           *)
(***************************************************************************)
EXTENDS Integers, FiniteSets, FiniteSetsExt

CONSTANTS
    Addrs,      \* addresses dma_alloc_coherent() may return
    Sizes,      \* request sizes
    MaxSize,    \* ANE_H18_MAL_MAX_SIZE
    MaxBufs,    \* ANE_H18_MAL_MAX_BUFS
    MaxBytes,   \* ANE_H18_MAL_MAX_BYTES
    NSlots      \* mal_slots

MallocAssumption ==
    /\ "none" \notin Addrs
    /\ Sizes \subseteq Nat /\ NSlots \in Nat \ {0}
    /\ MaxSize \in Nat /\ MaxBufs \in Nat /\ MaxBytes \in Nat

VARIABLES
    k,      \* the driver: [cursor, err, mal, n, bytes]
    hw      \* the ring and the firmware: [ring, post, take, busy, owns]

vars == <<k, hw>>

None == [a |-> "none", size |-> 0]
Live == {i \in 1..MaxBufs : k.mal[i] # None}
Ordinals == 1..MaxBufs

Init ==
    /\ k = [cursor |-> 0, err |-> "none", mal |-> [i \in Ordinals |-> None], n |-> 0, bytes |-> 0]
    /\ hw = [ring |-> [s \in 0..NSlots-1 |-> [t |-> "idle", size |-> 0, a |-> "none"]],
             post |-> 0, take |-> 0, busy |-> 0, owns |-> {}]

\* ane_h18_mal_classify(): by header, size and mode words.
ane_h18_mal_classify(e) ==
    CASE e.t \in {"answered", "freed"} -> "ANSWERED"
      [] e.t = "malloc" /\ e.size = 0 -> "IDLE"
      [] e.t = "idle" -> "IDLE"
      [] e.t = "malloc" -> "MALLOC"
      [] e.t = "free" -> IF e.size # 0 THEN "BAD" ELSE "FREE"
      [] OTHER -> "BAD"

\* The first slot without a buffer, else a new one.
FirstFree ==
    LET holes == {i \in 1..k.n : k.mal[i] = None}
    IN IF holes = {} THEN k.n + 1 ELSE Min(holes)

Bug_TooMuch(size, i) == size > MaxSize \/ i > MaxBufs
TooMuch(size, i) == size > MaxSize \/ i > MaxBufs \/ k.bytes + size > MaxBytes

Entry == hw.ring[k.cursor]
Forward(c) == (c + 1) % NSlots

Answer(e) == [hw EXCEPT !.ring[k.cursor] = e]
Refuse(r) == k' = [k EXCEPT !.err = r] /\ UNCHANGED hw

\* MALLOC: limits, the allocation (which may fail or overlap a segment, and is
\* then freed), the answer with address and ordinal, the doorbell.
mal_malloc ==
    /\ k.err = "none" /\ ane_h18_mal_classify(Entry) = "MALLOC"
    /\ LET size == Entry.size   i == FirstFree IN
       IF TooMuch(size, i) THEN Refuse("E2BIG")
       ELSE \/ Refuse("ENOMEM")
            \/ \E a \in Addrs \ {k.mal[j].a : j \in Ordinals} :
                /\ k' = [k EXCEPT !.mal[i] = [a |-> a, size |-> size],
                            !.n = IF i = @ + 1 THEN i ELSE @,
                            !.bytes = @ + size, !.cursor = Forward(@)]
                /\ hw' = Answer([t |-> "answered", size |-> 0, a |-> a])

Bug_Freed(a) == k.bytes
Freed(a) == k.bytes - (IF \E i \in Live : k.mal[i].a = a
                       THEN k.mal[CHOOSE i \in Live : k.mal[i].a = a].size ELSE 0)

\* FREE: answered first, then the buffer of that address, if any, is freed.
mal_free ==
    /\ k.err = "none" /\ ane_h18_mal_classify(Entry) = "FREE"
    /\ hw' = Answer([t |-> "freed", size |-> 0, a |-> "none"])
    /\ k' = [k EXCEPT !.bytes = Freed(Entry.a), !.cursor = Forward(@),
                !.mal = [i \in Ordinals |-> IF i \in Live /\ k.mal[i].a = Entry.a THEN None ELSE k.mal[i]]]

\* Not a request: refused for good.
mal_bad ==
    /\ k.err = "none" /\ ane_h18_mal_classify(Entry) = "BAD" /\ Refuse("EOPNOTSUPP")

ane_h18_mal_service == mal_malloc \/ mal_free \/ mal_bad

\* The firmware posts its next request and takes its answers in ring order.
fw_post(e) ==
    /\ hw.busy < NSlots
    /\ hw' = [hw EXCEPT !.ring[hw.post] = e, !.post = Forward(@), !.busy = @ + 1,
                        !.owns = @ \ {e.a}]
fw_malloc == \E s \in Sizes : fw_post([t |-> "malloc", size |-> s, a |-> "none"]) /\ UNCHANGED k
fw_free == \E a \in hw.owns : fw_post([t |-> "free", size |-> 0, a |-> a]) /\ UNCHANGED k
fw_garbage == fw_post([t |-> "free", size |-> 1, a |-> "none"]) /\ UNCHANGED k
fw_take ==
    /\ hw.busy > 0 /\ hw.ring[hw.take].t \in {"answered", "freed"}
    /\ hw' = [hw EXCEPT !.take = Forward(@), !.busy = @ - 1,
                 !.owns = IF hw.ring[hw.take].t = "answered" THEN @ \cup {hw.ring[hw.take].a} ELSE @]
    /\ UNCHANGED k

Next == ane_h18_mal_service \/ fw_malloc \/ fw_free \/ fw_garbage \/ fw_take
Spec == Init /\ [][Next]_vars

(***************************************************************************)
(* Properties.                                                             *)
(***************************************************************************)
\* The slots posted and not yet taken.
Outstanding == {(hw.take + i) % NSlots : i \in 0..hw.busy-1}
InAnswer == {hw.ring[s].a : s \in {s \in Outstanding : hw.ring[s].t = "answered"}}

\* The pages of a set of buffers.
Backed(S) == UNION {{i} \X (1..k.mal[i].size) : i \in S}

\* Every address the firmware holds or is being handed is backed by one live
\* buffer of the driver, no address is handed out twice, and the byte count that
\* limits the service is what the live buffers add up to, within the limits.
PoolKept ==
    /\ hw.owns \cup InAnswer \subseteq {k.mal[i].a : i \in Live}
    /\ hw.owns \cap InAnswer = {}
    /\ \A i, j \in Live : i # j => k.mal[i].a # k.mal[j].a
    /\ k.bytes = Cardinality(Backed(Live))
    /\ k.bytes =< MaxBytes /\ k.n =< MaxBufs
====
