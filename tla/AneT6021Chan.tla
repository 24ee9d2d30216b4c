---------------------------- MODULE AneT6021Chan ----------------------------
(***************************************************************************)
(* The transport of ane_t6021.ko: one command at a time on a ring the      *)
(* firmware acknowledges, the ring on which the firmware asks for and      *)
(* returns memory (SHAREDMALLOC), and the ring of its events (IO_T2H),     *)
(* whose finish event ends an EXEC.                                        *)
(* Sources: ane/t6021/ane_t6021_rtclient_main.c, ane_t6021_mring.h,        *)
(* ane_t6021_legtab.h.  The firmware's side is external.                   *)
(*                                                                         *)
(* Abstractions.  The host is the thread that holds ane_t6021_fw_lock.     *)
(* Every buffer has size 1.  A timeout may come at any time.               *)
(***************************************************************************)
EXTENDS Integers, FiniteSets

CONSTANTS
    CmdSlots, MallocSlots, EventSlots,  \* sizes of the three rings
    Slots,          \* ANE_LEGACY_ALLOCS
    MaxBytes,       \* ANE_LEGACY_BYTES
    Dmas,           \* DMA addresses of the host's buffers
    CmdBuf,         \* the address of the command buffer
    None,
    MaxSettle,      \* answers in one malloc_settle; 64 in the code
    MaxCalls        \* bound: commands sent

ASSUME AneT6021ChanAssumption ==
    /\ {CmdSlots, MallocSlots, EventSlots, Slots, MaxBytes} \subseteq Nat \ {0}
    /\ CmdBuf \in Dmas /\ None \notin Dmas \cup 1..MaxCalls
    /\ {MaxSettle, MaxCalls} \subseteq Nat

VARIABLES
    pc, kind,       \* the host: where it is, and the command it sends
    served,         \* requests answered in this loop
    quarantined,    \* ane_t6021_quarantined
    cmd_cursor, malloc_cursor, event_cursor,    \* the host's places
    table, used,    \* legacy_buffers and legacy_allocated
    bytes,          \* legacy_bytes
    io, mring, t2h, \* the slots of the rings
    n,              \* commands sent so far
    fw,             \* the firmware's places, buffers and work
    ok              \* the calls that returned success

hostVars == <<pc, kind, served, quarantined, n, ok>>
tabVars == <<table, used, bytes>>
vars == <<pc, kind, served, quarantined, cmd_cursor, malloc_cursor,
          event_cursor, table, used, bytes, io, mring, t2h, n, fw, ok>>

Host == [by |-> "host", word |-> None]      \* bit 0 set: the host's slot
Kinds == {"LOAD", "CALL", "UNLOAD"}         \* plain, EXEC, one that frees

Init ==
    /\ pc = "idle" /\ kind = "LOAD" /\ served = 0 /\ quarantined = FALSE
    /\ cmd_cursor = 0 /\ malloc_cursor = 0 /\ event_cursor = 0
    /\ table = [s \in 0..Slots-1 |-> IF s = 0 THEN CmdBuf ELSE None]
    /\ used = 1 /\ bytes = 1
    /\ io = [s \in 0..CmdSlots-1 |-> Host]
    /\ mring = [s \in 0..MallocSlots-1 |-> Host]
    /\ t2h = [s \in 0..EventSlots-1 |-> Host]
    /\ n = 0 /\ ok = {}
    /\ fw = [cmd |-> 0, malloc |-> 0, event |-> 0, waiting |-> FALSE,
             has |-> {}, running |-> {}, finished |-> {}]

Slot(w) == [by |-> "fw", word |-> w]
Succ(c, size) == (c + 1) % size

\* A command that fails leaves the device quarantined (ane_rtclient_command).
Fail == pc' = "idle" /\ served' = 0 /\ quarantined' = TRUE

-----------------------------------------------------------------------------
(***************************************************************************)
(* ane_rtclient_malloc_service: answer the request at the cursor.          *)
(***************************************************************************)
Request == mring[malloc_cursor]
Posted == Request.by = "fw"

\* ane_legtab_pick: the first free slot below the mark, or a new one.
Free == {s \in 0..Slots-1 : table[s] = None /\ s <= used}
\* Mutant: the table only grows.
Bug_Pick == used

Pick == CHOOSE s \in Free : \A r \in Free : s <= r
CanAlloc == bytes < MaxBytes /\ Free # {}

Answer(w) ==
    /\ mring' = [mring EXCEPT ![malloc_cursor] = [by |-> "host", word |-> w]]
    /\ malloc_cursor' = Succ(malloc_cursor, MallocSlots)

\* A MALLOC gets a fresh buffer.
service_malloc ==
    /\ Posted /\ Request.word = None /\ CanAlloc
    /\ \E d \in Dmas \ {table[s] : s \in 0..Slots-1} :
        /\ table' = [table EXCEPT ![Pick] = d]
        /\ used' = IF Pick = used THEN used + 1 ELSE used
        /\ bytes' = bytes + 1
        /\ Answer(d)

\* Mutant: a FREE matches the command buffer too.
Bug_service_free ==
    LET found == {s \in 0..used-1 : table[s] = Request.word} IN
    /\ Posted /\ Request.word # None
    /\ table' = [s \in 0..Slots-1 |-> IF s \in found THEN None ELSE table[s]]
    /\ bytes' = bytes - Cardinality(found)
    /\ UNCHANGED used
    /\ Answer(None)

\* A FREE is answered and its buffer released, unless it is the command buffer
\* or no buffer of the table (ane_legtab_find).
service_free ==
    LET found == {s \in 0..used-1 : table[s] = Request.word
                                    /\ table[s] # CmdBuf} IN
    /\ Posted /\ Request.word # None
    /\ table' = [s \in 0..Slots-1 |-> IF s \in found THEN None ELSE table[s]]
    /\ bytes' = bytes - Cardinality(found)
    /\ UNCHANGED used
    /\ Answer(None)

Service == service_malloc \/ service_free

\* A malformed entry, or an allocation that fails.
ServiceFails == Posted /\ Fail /\ UNCHANGED <<tabVars, mring, malloc_cursor>>

-----------------------------------------------------------------------------
(***************************************************************************)
(* ane_rtclient_legacy_exchange and ane_rtclient_command.                  *)
(***************************************************************************)

\* The host sends commands only while it is not quarantined.  A command is
\* refused when the channel table or the slot is not as expected.
command(k) ==
    /\ pc = "idle" /\ ~quarantined /\ n < MaxCalls
    /\ kind' = k /\ n' = n + 1
    /\ \/ /\ io[cmd_cursor].by = "host"
          /\ pc' = "serve" /\ UNCHANGED <<served, quarantined>>
       \/ Fail
    /\ UNCHANGED <<cmd_cursor, malloc_cursor, event_cursor, tabVars, io, mring,
                   t2h, fw, ok>>

\* Requests that came since the last exchange go first, one round of the ring.
serve_before ==
    /\ pc = "serve" /\ served < MallocSlots
    /\ \/ Service /\ served' = served + 1 /\ UNCHANGED <<pc, quarantined>>
       \/ ServiceFails
    /\ UNCHANGED <<kind, cmd_cursor, event_cursor, io, t2h, n, fw, ok>>

post ==
    /\ pc = "serve" /\ (~Posted \/ served = MallocSlots)
    /\ io' = [io EXCEPT ![cmd_cursor] = Slot(n)]
    /\ pc' = "wait" /\ served' = 0
    /\ UNCHANGED <<kind, quarantined, cmd_cursor, malloc_cursor, event_cursor,
                   tabVars, mring, t2h, n, fw, ok>>

\* While the command is out the host answers the firmware's requests.
wait_serve ==
    /\ pc = "wait" /\ io[cmd_cursor].by = "fw"
    /\ \/ Service /\ UNCHANGED <<pc, served, quarantined>>
       \/ ServiceFails
    /\ UNCHANGED <<kind, cmd_cursor, event_cursor, io, t2h, n, fw, ok>>

\* Mutant: the next command goes to the same slot.
Bug_wait_reply ==
    /\ pc = "wait" /\ io[cmd_cursor].by = "host"
    /\ IF io[cmd_cursor].word = n
       THEN /\ pc' = IF kind = "CALL" THEN "call" ELSE "drain"
            /\ UNCHANGED <<served, quarantined>>
       ELSE Fail
    /\ UNCHANGED <<kind, cmd_cursor, malloc_cursor, event_cursor, tabVars, io,
                   mring, t2h, n, fw, ok>>

\* The slot is back: the reply is checked and the cursor moves on.
wait_reply ==
    /\ pc = "wait" /\ io[cmd_cursor].by = "host"
    /\ cmd_cursor' = Succ(cmd_cursor, CmdSlots)
    /\ IF io[cmd_cursor].word = n
       THEN /\ pc' = IF kind = "CALL" THEN "call" ELSE "drain"
            /\ UNCHANGED <<served, quarantined>>
       ELSE Fail
    /\ UNCHANGED <<kind, malloc_cursor, event_cursor, tabVars, io, mring, t2h,
                   n, fw, ok>>

\* Mutant: a call that timed out does not quarantine.
Bug_timeout ==
    /\ \/ pc = "wait"
       \/ pc = "call" /\ t2h[event_cursor].by = "host"
    /\ pc' = "idle" /\ served' = 0 /\ UNCHANGED quarantined
    /\ UNCHANGED <<kind, cmd_cursor, malloc_cursor, event_cursor, tabVars, io,
                   mring, t2h, n, fw, ok>>

\* No answer in time, from the firmware or in a completion wait whose last
\* look found no finish event.
timeout ==
    /\ \/ pc = "wait"
       \/ pc = "call" /\ t2h[event_cursor].by = "host"
    /\ Fail
    /\ UNCHANGED <<kind, cmd_cursor, malloc_cursor, event_cursor, tabVars, io,
                   mring, t2h, n, fw, ok>>

\* ane_rtclient_drain_t2h takes the event at the cursor.  In a completion wait
\* a finish event with the cookie, which all calls share, ends the call.
drain_t2h ==
    LET e == t2h[event_cursor] IN
    /\ pc \in {"call", "drain"} /\ e.by = "fw"
    /\ t2h' = [t2h EXCEPT ![event_cursor] = Host]
    /\ event_cursor' = Succ(event_cursor, EventSlots)
    /\ IF pc = "call" /\ e.word = "finished"
       THEN pc' = "drain" /\ ok' = ok \cup {n}
       ELSE UNCHANGED <<pc, ok>>
    /\ UNCHANGED <<kind, served, quarantined, cmd_cursor, malloc_cursor, tabVars,
                   io, mring, n, fw>>

drained ==
    /\ pc = "drain" /\ t2h[event_cursor].by = "host"
    /\ pc' = IF kind = "UNLOAD" THEN "settle" ELSE "idle"
    /\ UNCHANGED <<kind, served, quarantined, cmd_cursor, malloc_cursor,
                   event_cursor, tabVars, io, mring, t2h, n, fw, ok>>

\* ane_rtclient_malloc_settle after the commands that free: until the ring is
\* quiet, and not for ever.
malloc_settle ==
    /\ pc = "settle"
    /\ \/ Service /\ IF served < MaxSettle
                     THEN served' = served + 1 /\ UNCHANGED <<pc, quarantined>>
                     ELSE Fail
       \/ ServiceFails
       \/ /\ ~Posted /\ pc' = "idle" /\ served' = 0
          /\ UNCHANGED <<quarantined, tabVars, mring, malloc_cursor>>
    /\ UNCHANGED <<kind, cmd_cursor, event_cursor, io, t2h, n, fw, ok>>

-----------------------------------------------------------------------------
(***************************************************************************)
(* The firmware, as ane_t6021_mring.h and the comments of the waits        *)
(* describe it.  It waits for the answer to a request before it asks or    *)
(* acknowledges anything else.  A call posts a start and a finish event.   *)
(***************************************************************************)
fw_request ==
    /\ ~fw.waiting /\ mring[fw.malloc].by = "host"
    /\ \E w \in {None, CmdBuf} \cup fw.has :
        /\ mring' = [mring EXCEPT ![fw.malloc] = Slot(w)]
        /\ fw' = [fw EXCEPT !.waiting = TRUE, !.has = @ \ {w}]
    /\ UNCHANGED <<hostVars, cmd_cursor, malloc_cursor, event_cursor, tabVars,
                   io, t2h>>

fw_answered ==
    /\ fw.waiting /\ mring[fw.malloc].by = "host"
    /\ fw' = [fw EXCEPT !.waiting = FALSE, !.malloc = Succ(@, MallocSlots),
                        !.has = @ \cup ({mring[fw.malloc].word} \ {None})]
    /\ UNCHANGED <<hostVars, cmd_cursor, malloc_cursor, event_cursor, tabVars,
                   io, mring, t2h>>

\* It takes the command at its own place in the ring, and acknowledges it with
\* a good or a bad reply.
fw_ack ==
    LET c == io[fw.cmd].word IN
    /\ ~fw.waiting /\ io[fw.cmd].by = "fw"
    /\ \E good \in BOOLEAN :
        /\ io' = [io EXCEPT ![fw.cmd] =
                    [by |-> "host", word |-> IF good THEN c ELSE None]]
        /\ fw' = [fw EXCEPT !.cmd = Succ(@, CmdSlots),
                    !.running = IF good /\ kind = "CALL" THEN @ \cup {c} ELSE @]
    /\ UNCHANGED <<hostVars, cmd_cursor, malloc_cursor, event_cursor, tabVars,
                   mring, t2h>>

fw_event ==
    /\ fw.running # {} /\ t2h[fw.event].by = "host"
    /\ \/ /\ t2h' = [t2h EXCEPT ![fw.event] = Slot("started")]
          /\ fw' = [fw EXCEPT !.event = Succ(@, EventSlots)]
       \/ \E c \in fw.running :
            /\ t2h' = [t2h EXCEPT ![fw.event] = Slot("finished")]
            /\ fw' = [fw EXCEPT !.event = Succ(@, EventSlots),
                        !.running = @ \ {c}, !.finished = @ \cup {c}]
    /\ UNCHANGED <<hostVars, cmd_cursor, malloc_cursor, event_cursor, tabVars,
                   io, mring>>

Next ==
    \/ \E k \in Kinds : command(k)
    \/ serve_before \/ post \/ wait_serve \/ wait_reply \/ timeout \/ drain_t2h
    \/ drained \/ malloc_settle
    \/ fw_request \/ fw_answered \/ fw_ack \/ fw_event

Spec == Init /\ [][Next]_vars

-----------------------------------------------------------------------------
(***************************************************************************)
(* Properties.                                                             *)
(***************************************************************************)
Rings(words) == [by : {"host", "fw"}, word : words]

\* The shape of the state.
TypeOK ==
    /\ pc \in {"idle", "serve", "wait", "call", "drain", "settle"}
    /\ kind \in Kinds /\ served \in 0..MallocSlots + MaxSettle
    /\ quarantined \in BOOLEAN
    /\ cmd_cursor \in 0..CmdSlots-1 /\ malloc_cursor \in 0..MallocSlots-1
    /\ event_cursor \in 0..EventSlots-1
    /\ table \in [0..Slots-1 -> Dmas \cup {None}] /\ used \in 0..Slots
    /\ bytes \in 0..MaxBytes
    /\ io \in [0..CmdSlots-1 -> Rings(1..MaxCalls \cup {None})]
    /\ mring \in [0..MallocSlots-1 -> Rings(Dmas \cup {None})]
    /\ t2h \in [0..EventSlots-1 -> Rings({"started", "finished", None})]
    /\ n \in 0..MaxCalls /\ ok \subseteq 1..MaxCalls
    /\ fw \in [cmd : 0..CmdSlots-1, malloc : 0..MallocSlots-1,
               event : 0..EventSlots-1, waiting : BOOLEAN, has : SUBSET Dmas,
               running : SUBSET (1..MaxCalls), finished : SUBSET (1..MaxCalls)]

\* An EXEC that returns success has seen its own finish event, although every
\* call carries the same cookie (ANE_CALL_COOKIE): a call whose wait timed out
\* may still finish, and its late event must not end another call.
OwnFinish == ok \subseteq fw.finished

\* Host and firmware stay on the same slots: the command goes where the
\* firmware looks for it ("resends to the same slot would wedge the ring"), and
\* the request the firmware waits on is the one the host looks at next, or is
\* answered, so that none is passed over or answered twice.
RingsInStep ==
    /\ \/ cmd_cursor = fw.cmd
       \/ /\ pc = "wait" \/ quarantined
          /\ io[cmd_cursor].by = "host" /\ fw.cmd = Succ(cmd_cursor, CmdSlots)
    /\ IF fw.waiting /\ mring[fw.malloc].by = "host"
       THEN malloc_cursor = Succ(fw.malloc, MallocSlots)
       ELSE malloc_cursor = fw.malloc
    /\ \A s \in DOMAIN mring : mring[s].by = "fw" => s = malloc_cursor

Allocated == {s \in 0..Slots-1 : table[s] # None}

\* The memory the firmware has, or is being given, stays allocated, in one
\* table slot and below the mark the searches stop at; so does the command
\* buffer, which a FREE never matches; and legacy_bytes is what is allocated.
LegacyTable ==
    /\ \A d \in fw.has \cup {CmdBuf} : \E s \in Allocated : table[s] = d
    /\ fw.waiting /\ mring[fw.malloc].by = "host" /\ mring[fw.malloc].word # None
        => \E s \in Allocated : table[s] = mring[fw.malloc].word
    /\ \A s, r \in Allocated : table[s] = table[r] => s = r
    /\ \A s \in Allocated : s < used
    /\ bytes = Cardinality(Allocated)
=============================================================================
