----------------------------- MODULE AneSession -----------------------------
(***************************************************************************)
(* tools/ane-session.c: one process that keeps ABI-2 programs open and     *)
(* takes commands and raw surface bytes from one stream.  A name is bound  *)
(* to a cached program; a STATE of a name stays in the session between     *)
(* its CALLs and never on the stream.                                      *)
(*                                                                         *)
(* Abstractions.  A program pair (anec, ports.json) is a member of Pairs   *)
(* with two inputs and two outputs of one tile each, the second of each    *)
(* usable as a state.  A tile is [run, rest]: what the runs of a STATE     *)
(* cover and what they do not, numbers modulo M.  The device computes      *)
(* F(x, s); it leaves junk outside the runs.  The stream is a sequence of  *)
(* command lines and payload cells; a payload cell that is read as a line  *)
(* is an unknown command.                                                  *)
(***************************************************************************)
EXTENDS Integers, Sequences, FiniteSets

CONSTANTS
    Names, Pairs,
    Need,       \* Need[p]: program_demand() of pair p, in pages
    Cap, Used,  \* bo_cap (0: none known) and bo_used at the start
    MaxProgs,   \* --max-progs
    M           \* values of a tile

SessionAssumption ==
    /\ Need \in [Pairs -> Nat]
    /\ Cap \in Nat /\ Used \in Nat /\ MaxProgs \in Nat
    /\ M \in Nat \ {0}

VARIABLES
    pc,     \* "run" or "exit"
    k,      \* struct session
    hw,     \* the device surfaces of every cached program
    wire,   \* the unread stream: [q, eof]
    note    \* history: [ref, same, skew, status]

vars == <<pc, k, hw, wire, note>>

Vals == 0..(M - 1)
Tile == [run : Vals, rest : Vals]
ZeroTile == [run |-> 0, rest |-> 0]
NoProg == [key |-> "none", st |-> FALSE, buf |-> ZeroTile]

\* The program of the model: y depends on all of both inputs.
F(x, s) == <<[run |-> (x.run + s.run + 2 * s.rest) % M, rest |-> 0],
             [run |-> (x.run + s.run) % M, rest |-> 1]>>

Init ==
    /\ pc = "run"
    /\ k = [progs |-> [n \in Names |-> NoProg], keys |-> {}, demand |-> 0,
            failed |-> FALSE, lock |-> "none"]
    /\ hw = [p \in Pairs |-> [in |-> <<ZeroTile, ZeroTile>>, out |-> <<ZeroTile, ZeroTile>>]]
    /\ wire = [q |-> <<>>, eof |-> FALSE]
    /\ note = [ref |-> [n \in Names |-> 0], same |-> TRUE, skew |-> FALSE, status |-> 0]

(***************************************************************************)
(* The client: one command with its payload, then it waits for the reply.  *)
(* It may stop in the middle of a payload.                                 *)
(***************************************************************************)
Line(c, n, p) == [t |-> "line", c |-> c, n |-> n, p |-> p]
Data(v) == [t |-> "data", v |-> [run |-> v, rest |-> 0]]
Wants(n) == IF k.progs[n].st THEN 1 ELSE 2

Loads == {<<Line("LOAD", n, p)>> : n \in Names, p \in Pairs}
Named == {<<Line(c, n, "-")>> : c \in {"FREE", "RESET"}, n \in Names}
Plain == {<<Line(c, "-", "-")>> : c \in {"RESETALL", "LOCK", "UNLOCK", "PING", "QUIT"}}
States == {<<Line("STATE", n, p), Data(0)>> : n \in Names, p \in {"ok", "bad", "count"}}
Calls == UNION {{<<Line("CALL", n, "-")>> \o [i \in 1..Wants(n) |-> Data(v)] : v \in Vals} : n \in Names}
Messages == Loads \cup Named \cup Plain \cup States \cup Calls

client ==
    /\ pc = "run" /\ wire.q = <<>> /\ ~wire.eof
    /\ \E m \in Messages, l \in {0, 1, 2, 3} :
        /\ l <= Len(m)
        /\ wire' = [q |-> SubSeq(m, 1, l), eof |-> l < Len(m)]
    /\ UNCHANGED <<pc, k, hw, note>>

(***************************************************************************)
(* The session.  Fails: an ERR reply that marks the session failed.        *)
(***************************************************************************)
Next1(c) == pc = "run" /\ wire.q # <<>> /\ wire.q[1].t = "line" /\ wire.q[1].c = c
Cmd == wire.q[1]
Consume(n) == wire' = [wire EXCEPT !.q = SubSeq(@, n + 1, Len(@))]
Held(n) == k.progs[n] # NoProg
Skewed(n) == [note EXCEPT !.skew = @ \/ (Len(wire.q) > n /\ wire.q[n + 1].t = "data")]
Fails == k' = [k EXCEPT !.failed = TRUE]

Loaded == Cardinality({n \in Names : Held(n)})
session_key_find(p) == p \in k.keys

Bug_Fits(p) == Cap = 0 \/ Need[p] + Used <= Cap
Fits(p) == Cap = 0 \/ k.demand + Need[p] + Used <= Cap

\* LOAD looks at neither the failure flag nor, for a cached pair, the device.
cmd_load ==
    /\ Next1("LOAD") /\ Consume(1)
    /\ LET bound == [k.progs EXCEPT ![Cmd.n] = [NoProg EXCEPT !.key = Cmd.p]] IN
       \/ Fails
       \/ /\ ~Held(Cmd.n) /\ Loaded < MaxProgs
          /\ IF session_key_find(Cmd.p) THEN k' = [k EXCEPT !.progs = bound]
             ELSE /\ Cardinality(k.keys) < MaxProgs /\ Fits(Cmd.p)
                  /\ k' = [k EXCEPT !.progs = bound, !.keys = @ \cup {Cmd.p},
                                    !.demand = @ + Need[Cmd.p]]
    /\ UNCHANGED <<pc, hw, note>>

\* FREE drops the name and its state; the cached program stays until the end.
session_prog_free ==
    /\ Next1("FREE") /\ Consume(1)
    /\ IF Held(Cmd.n) THEN k' = [k EXCEPT !.progs[Cmd.n] = NoProg] ELSE Fails
    /\ note' = [note EXCEPT !.ref[Cmd.n] = 0]
    /\ UNCHANGED <<pc, hw>>

\* The offsets are read before anything is refused, except a run count that
\* is zero or too large.
cmd_state ==
    /\ Next1("STATE")
    /\ IF Cmd.p = "count" THEN Consume(1) /\ Fails /\ note' = Skewed(1)
       ELSE IF Len(wire.q) < 2 THEN Consume(1) /\ Fails /\ UNCHANGED note
       ELSE /\ Consume(2) /\ UNCHANGED note
            /\ \/ Fails
               \/ /\ Cmd.p = "ok" /\ ~k.failed /\ Held(Cmd.n) /\ ~k.progs[Cmd.n].st
                  /\ k' = [k EXCEPT !.progs[Cmd.n] = [@ EXCEPT !.st = TRUE, !.buf = ZeroTile]]
    /\ UNCHANGED <<pc, hw>>

state_zero(S) ==
    /\ k' = [k EXCEPT !.progs = [n \in Names |-> IF n \in S /\ @[n].st THEN [@[n] EXCEPT !.buf = ZeroTile] ELSE @[n]]]
    /\ note' = [note EXCEPT !.ref = [n \in Names |-> IF n \in S THEN 0 ELSE @[n]]]

cmd_reset ==
    /\ Consume(1) /\ UNCHANGED <<pc, hw>>
    /\ \/ Next1("RESETALL") /\ state_zero({n \in Names : Held(n)})
       \/ /\ Next1("RESET")
          /\ IF Held(Cmd.n) THEN state_zero({Cmd.n}) ELSE Fails /\ UNCHANGED note

\* Only the runs of the state output become the next input.
Bug_Carry(t) == t
Carry(t) == [run |-> t.run, rest |-> 0]

\* What the reply and the state would be in a session of this name alone.
Alone(n, x, s) == F(x, IF k.progs[n].st THEN [run |-> note.ref[n], rest |-> 0] ELSE s)

Bug_Refused(n) == ~Held(n)
Refused(n) == ~Held(n) \/ k.failed

\* A refused CALL, or one with no memory for its input, leaves its payload on
\* the stream; a short payload, a failed run or an unwritten reply marks the
\* session failed with no state touched.
cmd_call ==
    /\ Next1("CALL") /\ UNCHANGED pc
    /\ \E nomem \in BOOLEAN :
       LET n == Cmd.n
           p == k.progs[n]
           want == Wants(n)
       IN IF Refused(n) \/ nomem
          THEN Consume(1) /\ Fails /\ note' = Skewed(1) /\ UNCHANGED hw
          ELSE IF Len(wire.q) <= want
          THEN Consume(Len(wire.q)) /\ Fails /\ UNCHANGED <<hw, note>>
          ELSE LET x == wire.q[2].v
                   s == IF p.st THEN p.buf ELSE wire.q[3].v
                   out == F(x, s)
                   ref == Alone(n, x, s)
               IN /\ Consume(want + 1)
                  /\ \/ /\ hw' = [hw EXCEPT ![p.key].in = <<x, s>>]
                        /\ Fails /\ UNCHANGED note
                     \/ /\ hw' = [hw EXCEPT ![p.key] = [in |-> <<x, s>>, out |-> out]]
                        /\ Fails /\ UNCHANGED note
                     \/ /\ hw' = [hw EXCEPT ![p.key] = [in |-> <<x, s>>, out |-> out]]
                        /\ k' = [k EXCEPT !.progs[n].buf = IF p.st THEN Carry(out[2]) ELSE @]
                        /\ note' = [note EXCEPT !.same = @ /\ out[1] = ref[1],
                                                !.ref[n] = IF p.st THEN ref[2].run ELSE 0]

cmd_lock ==
    /\ Next1("LOCK") /\ Consume(1)
    /\ \/ Fails
       \/ k' = [k EXCEPT !.failed = TRUE, !.lock = IF @ = "none" THEN "open" ELSE @]
       \/ k' = [k EXCEPT !.lock = "held"]
    /\ UNCHANGED <<pc, hw, note>>

cmd_unlock ==
    /\ Next1("UNLOCK") /\ Consume(1)
    /\ \/ k.lock # "none" /\ Fails
       \/ k' = [k EXCEPT !.lock = IF @ = "none" THEN @ ELSE "open"]
    /\ UNCHANGED <<pc, hw, note>>

ping == Next1("PING") /\ Consume(1) /\ UNCHANGED <<pc, k, hw, note>>

\* QUIT or the end of the stream: session_free() and the exit status.
session_free ==
    /\ Next1("QUIT") \/ (pc = "run" /\ wire.q = <<>> /\ wire.eof)
    /\ pc' = "exit" /\ wire' = [wire EXCEPT !.q = <<>>, !.eof = TRUE]
    /\ k' = [k EXCEPT !.progs = [n \in Names |-> NoProg], !.keys = {}, !.demand = 0, !.lock = "none"]
    /\ note' = [note EXCEPT !.status = IF k.failed THEN 1 ELSE 0]
    /\ UNCHANGED hw

\* A line that is no command, which unread payload is, ends the process.
unknown_command ==
    /\ pc = "run" /\ wire.q # <<>> /\ wire.q[1].t = "data"
    /\ pc' = "exit" /\ note' = [note EXCEPT !.status = 2]
    /\ UNCHANGED <<k, hw, wire>>

Next == client \/ cmd_load \/ session_prog_free \/ cmd_state \/ cmd_reset \/ cmd_call
        \/ cmd_lock \/ cmd_unlock \/ ping \/ session_free \/ unknown_command
Spec == Init /\ [][Next]_vars

(***************************************************************************)
(* Properties.                                                             *)
(***************************************************************************)

\* Every reply is what a session with this name alone would have answered,
\* although names share cached programs and their surfaces, and whatever
\* CALLs, RESETs and FREEs of other names came between: the state of a name
\* holds the runs of its own last output and zero elsewhere.
StateIsolated ==
    /\ note.same
    /\ pc = "run" => \A n \in Names : k.progs[n].st => k.progs[n].buf = [run |-> note.ref[n], rest |-> 0]

\* The pages that a set of cached programs needs.
Projected(S) == UNION {{p} \X (1..Need[p]) : p \in S}

\* The projection is the sum over the cached programs and stays below the
\* cap, every name is bound to a cached program, and the stream gets out of
\* step with its commands only in a session that is already marked failed.
SessionBounded ==
    /\ k.demand = Cardinality(Projected(k.keys))
    /\ Cap # 0 => k.demand + Used <= Cap \/ k.keys = {}
    /\ {k.progs[n].key : n \in {m \in Names : Held(m)}} \subseteq k.keys
    /\ Loaded <= MaxProgs
    /\ note.skew => k.failed

\* A failure is final: no program runs after it and the process does not
\* report success.
FailureFinal ==
    k.failed => /\ k'.failed
                /\ \A p \in Pairs : hw'[p] = hw[p]
                /\ pc' = "exit" => note'.status # 0
====
