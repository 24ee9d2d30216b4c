-------------------------- MODULE AneClientProofs --------------------------
(***************************************************************************)
(* Proofs about those who are handed something and share it with others:   *)
(* the names of AneSession (tools/ane-session.c) that share cached         *)
(* programs, and the firmware of AneH18Malloc (ane/h18) that is lent the   *)
(* driver's memory.  They hold for any number of names, programs, calls,   *)
(* buffers and ring slots.                                                 *)
(***************************************************************************)
EXTENDS Integers, Sequences, FiniteSets, FiniteSetTheorems, TLAPS

CONSTANTS Names, Pairs, Need, Cap, Used, MaxProgs, M
CONSTANTS Addrs, Sizes, MaxSize, MaxBufs, MaxBytes, NSlots
VARIABLES pc, k, wire, note, hw

Session == INSTANCE AneSession
Malloc == INSTANCE AneH18Malloc

USE ZenonT(30)

-----------------------------------------------------------------------------
(* A sum is the number of units of its terms, each unit named by its term. *)
Units(f, S) == UNION {{x} \X (1..f[x]) : x \in S}

LEMMA UnitsFinite ==
    ASSUME NEW f, NEW S, IsFiniteSet(S), \A x \in S : f[x] \in Nat
    PROVE  IsFiniteSet(Units(f, S)) /\ Cardinality(Units(f, S)) \in Nat
<1> DEFINE F == {{x} \X (1..f[x]) : x \in S}
<1>1. IsFiniteSet(F)
  <2> DEFINE g == [x \in S |-> {x} \X (1..f[x])]
  <2>1. g \in Surjection(S, F)
    BY DEF Surjection
  <2> HIDE DEF g, F
  <2> QED BY <2>1, FS_Surjection
<1>2. \A T \in F : IsFiniteSet(T)
  <2> SUFFICES ASSUME NEW x \in S PROVE IsFiniteSet({x} \X (1..f[x]))
    OBVIOUS
  <2>1. IsFiniteSet(1..f[x])
    BY FS_Interval, SMTT(30)
  <2>2. IsFiniteSet({x})
    BY FS_Singleton
  <2> QED BY ONLY <2>1, <2>2, FS_Product, Zenon
<1>3. Units(f, S) = UNION F
  BY DEF Units
<1> HIDE DEF F
<1>4. IsFiniteSet(Units(f, S))
  BY <1>1, <1>2, <1>3, FS_UNION
<1> QED BY <1>4, FS_CardinalityType

(* One term more.                                                          *)
LEMMA UnitsAdd ==
    ASSUME NEW f, NEW S, NEW y, IsFiniteSet(S), y \notin S, \A x \in S \cup {y} : f[x] \in Nat
    PROVE  Cardinality(Units(f, S \cup {y})) = Cardinality(Units(f, S)) + f[y]
<1> DEFINE A == Units(f, S)   B == {y} \X (1..f[y])
<1>1. Units(f, S \cup {y}) = A \cup B /\ A \cap B = {}
  BY SMTT(30) DEF Units
<1>2. IsFiniteSet(A) /\ Cardinality(A) \in Nat
  BY UnitsFinite
<1>3. IsFiniteSet(B) /\ Cardinality(B) = f[y]
  <2>1. IsFiniteSet(1..f[y]) /\ Cardinality(1..f[y]) = f[y]
    BY FS_Interval, SMTT(30)
  <2>2. IsFiniteSet({y}) /\ Cardinality({y}) = 1
    BY FS_Singleton
  <2>3. IsFiniteSet(B) /\ Cardinality(B) = Cardinality({y}) * Cardinality(1..f[y])
    BY ONLY <2>1, <2>2, FS_Product, Zenon
  <2>4. f[y] \in Nat
    OBVIOUS
  <2> QED BY ONLY <2>1, <2>2, <2>3, <2>4
<1> HIDE DEF A, B
<1>4. Cardinality(A \cup B) = Cardinality(A) + Cardinality(B) - Cardinality({})
  BY <1>1, <1>2, <1>3, FS_Union, SMTT(30)
<1>5. Cardinality({}) = 0
  BY FS_EmptySet
<1>6. f[y] \in Nat
  OBVIOUS
<1>7. Cardinality(A \cup B) = Cardinality(A) + f[y]
  BY ONLY <1>2, <1>3, <1>4, <1>5, <1>6
<1> QED BY ONLY <1>1, <1>7, ZenonT(30) DEF A

-----------------------------------------------------------------------------
(* AneSession.  What can be on the stream: a command with the names its    *)
(* kind has, then only payload.                                            *)
Payload == [t : {"data"}, v : Session!Tile]
Cells ==
    [t : {"line"}, c : {"LOAD"}, n : Names, p : Pairs]
    \cup [t : {"line"}, c : {"FREE", "RESET", "CALL"}, n : Names, p : {"-"}]
    \cup [t : {"line"}, c : {"RESETALL", "LOCK", "UNLOCK", "PING", "QUIT"}, n : {"-"}, p : {"-"}]
    \cup [t : {"line"}, c : {"STATE"}, n : Names, p : {"ok", "bad", "count"}]
    \cup Payload
Stream(q) == q \in Seq(Cells) /\ \A i \in 2..Len(q) : q[i] \in Payload

Bindings == [key : Pairs \cup {"none"}, st : BOOLEAN, buf : Session!Tile]
Sessions == [progs : [Names -> Bindings], keys : SUBSET Pairs, demand : Nat,
             failed : BOOLEAN, lock : {"none", "open", "held"}]
Wires == [q : Seq(Cells), eof : BOOLEAN]
Notes == [ref : [Names -> Session!Vals], same : BOOLEAN, skew : BOOLEAN, status : 0..2]
SessionType ==
    /\ pc \in {"run", "exit"}
    /\ k \in Sessions
    /\ wire \in Wires /\ Stream(wire.q)
    /\ note \in Notes

\* The state of a name is what its own calls left, and zero before the first.
StateOf(b, r) ==
    /\ b.st => b.buf = [run |-> r, rest |-> 0]
    /\ ~b.st => r = 0
StateInv ==
    /\ note.same
    /\ pc = "run" => \A n \in Names : StateOf(k.progs[n], note.ref[n])

\* The cache and the names.
Bound == {n \in Names : Session!Held(n)}
CacheInv ==
    /\ IsFiniteSet(k.keys) /\ k.demand = Cardinality(Session!Projected(k.keys))
    /\ Cap # 0 => k.demand + Used <= Cap \/ k.keys = {}
    /\ \A n \in Bound : k.progs[n].key \in k.keys
    /\ IsFiniteSet(Bound) /\ Cardinality(Bound) <= MaxProgs
    /\ note.skew => k.failed

SessionInv ==
    /\ Session!SessionAssumption
    /\ SessionType
    /\ StateInv
    /\ CacheInv

-----------------------------------------------------------------------------
(* The stream.                                                             *)
LEMMA Rest ==
    ASSUME NEW q, Stream(q), NEW n \in 0..Len(q)
    PROVE  Stream(SubSeq(q, n + 1, Len(q)))
<1> DEFINE r == SubSeq(q, n + 1, Len(q))
<1>1. q \in Seq(Cells) /\ Len(q) \in Nat /\ \A i \in 2..Len(q) : q[i] \in Payload
  BY SMTT(30) DEF Stream
<1>2. r \in Seq(Cells) /\ Len(r) = Len(q) - n /\ \A i \in 1..Len(r) : r[i] = q[n + i]
  BY <1>1, SMTT(30)
<1>3. \A i \in 2..Len(r) : n + i \in 2..Len(q)
  BY <1>1, <1>2, SMTT(30)
<1> QED BY <1>1, <1>2, <1>3, SMTT(30) DEF Stream

LEMMA Prefix ==
    ASSUME NEW q, Stream(q), NEW n \in 0..Len(q)
    PROVE  Stream(SubSeq(q, 1, n))
<1> DEFINE r == SubSeq(q, 1, n)
<1>1. q \in Seq(Cells) /\ Len(q) \in Nat /\ \A i \in 2..Len(q) : q[i] \in Payload
  BY SMTT(30) DEF Stream
<1>2. r \in Seq(Cells) /\ Len(r) = n /\ \A i \in 1..Len(r) : r[i] = q[i]
  BY <1>1, SMTT(30)
<1> QED BY <1>1, <1>2, SMTT(30) DEF Stream

LEMMA MessageStream ==
    ASSUME SessionInv, NEW m \in Session!Messages
    PROVE  Stream(m)
<1>0. /\ \A v \in Session!Vals : Session!Data(v) \in Payload
      /\ 0 \in Session!Vals
  BY SMTT(30) DEF SessionInv, Session!SessionAssumption, Session!Vals, Session!Data, Payload, Session!Tile
<1>1. ASSUME NEW x \in Cells, m = <<x>> PROVE Stream(m)
  BY <1>1, SMTT(30) DEF Stream
<1>2. ASSUME NEW x \in Cells, NEW y \in Payload, m = <<x, y>> PROVE Stream(m)
  <2>1. y \in Cells
    BY DEF Cells
  <2> QED BY <1>2, <2>1, SMTT(30) DEF Stream
<1>3. ASSUME NEW n \in Names, NEW v \in Session!Vals,
             m = <<Session!Line("CALL", n, "-")>> \o [i \in 1..Session!Wants(n) |-> Session!Data(v)]
      PROVE  Stream(m)
  <2> DEFINE x == Session!Line("CALL", n, "-")
             y == Session!Data(v)
             d == [i \in 1..Session!Wants(n) |-> y]
  <2>1. Session!Wants(n) \in {1, 2}
    BY DEF Session!Wants
  <2>2. x \in Cells /\ y \in Payload /\ y \in Cells
    BY <1>0 DEF Session!Line, Cells
  <2> HIDE DEF x, y
  <2>3. d \in Seq(Cells) /\ Len(d) = Session!Wants(n) /\ \A i \in 1..Len(d) : d[i] = y
    BY <2>1, <2>2, SMTT(30)
  <2> HIDE DEF d
  <2>4. <<x>> \in Seq(Cells) /\ Len(<<x>>) = 1
    BY <2>2, SMTT(30)
  <2>5. m = <<x>> \o d
    BY <1>3 DEF x, y, d
  <2>6. m \in Seq(Cells) /\ Len(m) = 1 + Len(d) /\ \A i \in 2..Len(m) : m[i] = d[i - 1]
    BY <2>1, <2>3, <2>4, <2>5, SMTT(30)
  <2>7. \A i \in 2..Len(m) : i - 1 \in 1..Len(d)
    BY <2>1, <2>3, <2>6, SMTT(30)
  <2> QED BY <2>2, <2>3, <2>6, <2>7 DEF Stream
<1>4. CASE \E n \in Names, p \in Pairs : m = <<Session!Line("LOAD", n, p)>>
  <2> PICK n \in Names, p \in Pairs : m = <<Session!Line("LOAD", n, p)>>
    BY <1>4
  <2>1. Session!Line("LOAD", n, p) \in Cells
    BY DEF Session!Line, Cells
  <2> QED BY <1>1, <2>1
<1>5. CASE \E c \in {"FREE", "RESET"}, n \in Names : m = <<Session!Line(c, n, "-")>>
  <2> PICK c \in {"FREE", "RESET"}, n \in Names : m = <<Session!Line(c, n, "-")>>
    BY <1>5
  <2>1. Session!Line(c, n, "-") \in Cells
    BY DEF Session!Line, Cells
  <2> QED BY <1>1, <2>1
<1>6. CASE \E c \in {"RESETALL", "LOCK", "UNLOCK", "PING", "QUIT"} : m = <<Session!Line(c, "-", "-")>>
  <2> PICK c \in {"RESETALL", "LOCK", "UNLOCK", "PING", "QUIT"} : m = <<Session!Line(c, "-", "-")>>
    BY <1>6
  <2>1. Session!Line(c, "-", "-") \in Cells
    BY DEF Session!Line, Cells
  <2> QED BY <1>1, <2>1
<1>7. CASE \E n \in Names, p \in {"ok", "bad", "count"} : m = <<Session!Line("STATE", n, p), Session!Data(0)>>
  <2> PICK n \in Names, p \in {"ok", "bad", "count"} : m = <<Session!Line("STATE", n, p), Session!Data(0)>>
    BY <1>7
  <2>1. Session!Line("STATE", n, p) \in Cells
    BY DEF Session!Line, Cells
  <2> QED BY <1>0, <1>2, <2>1
<1>8. m \in Session!Calls => Stream(m)
  BY ONLY <1>3, Zenon DEF Session!Calls
<1>9. m \in Session!Loads => Stream(m)
  BY ONLY <1>4 DEF Session!Loads
<1>10. m \in Session!Named => Stream(m)
  BY ONLY <1>5 DEF Session!Named
<1>11. m \in Session!Plain => Stream(m)
  BY ONLY <1>6, ZenonT(30) DEF Session!Plain
<1>12. m \in Session!States => Stream(m)
  BY ONLY <1>7, SMTT(30) DEF Session!States
<1> QED BY <1>8, <1>9, <1>10, <1>11, <1>12 DEF Session!Messages

(* The command that is read, with the names of its kind.                   *)
LEMMA Command ==
    ASSUME SessionInv, NEW c \in {"LOAD", "FREE", "RESET", "CALL", "STATE"}, Session!Next1(c)
    PROVE  /\ pc = "run" /\ Len(wire.q) \in Nat \ {0}
           /\ Session!Cmd.n \in Names
           /\ c = "LOAD" => Session!Cmd.p \in Pairs
<1>1. wire.q \in Seq(Cells) /\ pc = "run" /\ wire.q # <<>>
  BY DEF SessionInv, SessionType, Stream, Session!Next1
<1>2. Len(wire.q) \in Nat \ {0} /\ wire.q[1] \in Cells
  BY <1>1, SMTT(30)
<1>3. wire.q[1].t = "line" /\ wire.q[1].c = c
  BY DEF Session!Next1
<1> QED BY <1>1, <1>2, <1>3 DEF Cells, Payload, Session!Cmd

-----------------------------------------------------------------------------
(* FiniteSets, as AneSession has it, is FiniteSets.                        *)
LEMMA SessionCardinality == ASSUME NEW S PROVE Session!Cardinality(S) = Cardinality(S)
BY DEF Session!Cardinality, Cardinality

(* What the parts of a session are, for use in the steps.                  *)
LEMMA Parts ==
    ASSUME SessionInv
    PROVE  /\ k \in Sessions /\ note \in Notes /\ wire \in Wires /\ Stream(wire.q)
           /\ pc \in {"run", "exit"}
           /\ Len(wire.q) \in Nat
           /\ 0 \in Session!Vals /\ Session!ZeroTile \in Session!Tile
           /\ Session!NoProg \in Bindings
<1>1. /\ k \in Sessions /\ note \in Notes /\ wire \in Wires /\ Stream(wire.q)
      /\ pc \in {"run", "exit"}
  BY DEF SessionInv, SessionType
<1>2. Len(wire.q) \in Nat
  BY <1>1, SMTT(30) DEF Stream
<1>3. 0 \in Session!Vals
  BY SMTT(30) DEF SessionInv, Session!SessionAssumption, Session!Vals
<1>4. Session!ZeroTile \in Session!Tile
  BY <1>3 DEF Session!ZeroTile, Session!Tile
<1>5. Session!NoProg \in Bindings
  BY <1>4 DEF Session!NoProg, Bindings
<1> QED BY <1>1, <1>2, <1>3, <1>4, <1>5

(* Reading n cells of the stream.                                          *)
LEMMA Read ==
    ASSUME SessionInv, NEW n \in 0..Len(wire.q), Session!Consume(n)
    PROVE  wire' \in Wires /\ Stream(wire'.q)
<1>1. wire \in Wires /\ Stream(wire.q)
  BY Parts
<1> DEFINE r == SubSeq(wire.q, n + 1, Len(wire.q))
<1>2. Stream(r)
  BY <1>1, Rest
<1>3. r \in Seq(Cells)
  BY <1>2 DEF Stream
<1> HIDE DEF r
<1>4. wire' = [wire EXCEPT !.q = r]
  BY DEF Session!Consume, r
<1>5. wire' \in Wires /\ wire'.q = r
  BY ONLY <1>1, <1>3, <1>4, ZenonT(30) DEF Wires
<1> QED BY <1>2, <1>5

(* A step that caches nothing: the names keep their programs or lose them, *)
(* and their states agree with the calls.                                  *)
LEMMA Uncached ==
    ASSUME SessionInv, k' \in Sessions, wire' \in Wires, Stream(wire'.q), note' \in Notes,
           pc = "run", pc' = "run", note'.same,
           k'.keys = k.keys, k'.demand = k.demand, k.failed => k'.failed,
           note'.skew => note.skew \/ k'.failed,
           \A n \in Names : \/ k'.progs[n] = Session!NoProg
                            \/ k'.progs[n].key = k.progs[n].key /\ k.progs[n] # Session!NoProg
                            \/ k'.progs[n] = k.progs[n],
           \A n \in Names : StateOf(k'.progs[n], note'.ref[n])
    PROVE  SessionInv'
<1>1. Session!SessionAssumption' /\ SessionType' /\ StateInv'
  <2>1. Session!SessionAssumption'
    BY DEF SessionInv, Session!SessionAssumption
  <2>2. SessionType'
    BY DEF SessionType, Sessions, Wires, Notes, Bindings, Stream, Cells, Payload,
           Session!Tile, Session!Vals
  <2>3. StateInv'
    BY DEF StateInv, StateOf
  <2> QED BY <2>1, <2>2, <2>3
<1>2. CacheInv'
  <2>1. /\ IsFiniteSet(k.keys) /\ k.demand = Cardinality(Session!Projected(k.keys))
        /\ Cap # 0 => k.demand + Used <= Cap \/ k.keys = {}
        /\ \A n \in Bound : k.progs[n].key \in k.keys
        /\ IsFiniteSet(Bound) /\ Cardinality(Bound) <= MaxProgs
        /\ note.skew => k.failed
    BY DEF SessionInv, CacheInv
  <2>2. Bound' \subseteq Bound /\ \A n \in Bound' : k'.progs[n].key = k.progs[n].key
    BY DEF Bound, Session!Held
  <2>3. IsFiniteSet(Bound') /\ Cardinality(Bound') <= MaxProgs
    <3>1. IsFiniteSet(Bound') /\ Cardinality(Bound') <= Cardinality(Bound)
      BY <2>1, <2>2, FS_Subset
    <3>2. Cardinality(Bound) \in Nat /\ Cardinality(Bound') \in Nat /\ MaxProgs \in Nat
      BY <2>1, <3>1, FS_CardinalityType DEF SessionInv, Session!SessionAssumption
    <3> QED BY <2>1, <3>1, <3>2, SMTT(30)
  <2>4. Session!Projected(k.keys)' = Session!Projected(k.keys)
    BY DEF Session!Projected
  <2> QED BY <2>1, <2>2, <2>3, <2>4 DEF CacheInv
<1> QED BY <1>1, <1>2 DEF SessionInv

(* A step that leaves the names and their states alone.                    *)
LEMMA NamesKept ==
    ASSUME SessionInv, k' \in Sessions, wire' \in Wires, Stream(wire'.q), note' \in Notes,
           pc = "run", pc' = pc, k'.progs = k.progs, k'.keys = k.keys, k'.demand = k.demand,
           k.failed => k'.failed, note'.ref = note.ref, note'.same = note.same,
           note'.skew => note.skew \/ k'.failed
    PROVE  SessionInv'
<1>1. note'.same /\ \A n \in Names : StateOf(k'.progs[n], note'.ref[n])
  BY DEF SessionInv, StateInv
<1> QED BY <1>1, Uncached

(* An ERR reply that marks the session failed, after n cells were read;    *)
(* what is left of the stream may be out of step.                          *)
LEMMA FailsInv ==
    ASSUME SessionInv, pc = "run", UNCHANGED pc, Session!Fails,
           NEW n \in 0..Len(wire.q), Session!Consume(n),
           note' = note \/ note' = Session!Skewed(1)
    PROVE  SessionInv'
<1>1. k \in Sessions /\ note \in Notes
  BY Parts
<1>2. /\ k' \in Sessions /\ k'.failed /\ k'.progs = k.progs
      /\ k'.keys = k.keys /\ k'.demand = k.demand
  BY <1>1 DEF Session!Fails, Sessions
<1>3. note' \in Notes /\ note'.ref = note.ref /\ note'.same = note.same
  <2>1. CASE note' = note
    BY <1>1, <2>1
  <2>2. CASE note' = Session!Skewed(1)
    BY <1>1, <2>2 DEF Notes, Session!Skewed
  <2> QED BY <2>1, <2>2
<1>4. wire' \in Wires /\ Stream(wire'.q)
  BY Read
<1> QED BY <1>2, <1>3, <1>4, NamesKept

-----------------------------------------------------------------------------
(* One lemma per command.                                                  *)
LEMMA ClientInv == ASSUME SessionInv, Session!client PROVE SessionInv'
<1>1. PICK m \in Session!Messages, l \in {0, 1, 2, 3} :
        /\ l <= Len(m) /\ wire' = [q |-> SubSeq(m, 1, l), eof |-> l < Len(m)]
  BY DEF Session!client
<1>2. Stream(m)
  BY MessageStream
<1>3. Stream(SubSeq(m, 1, l))
  <2>1. l \in 0..Len(m)
    BY <1>1, <1>2, SMTT(30) DEF Stream
  <2> QED BY <1>2, <2>1, Prefix
<1>4. wire' \in Wires /\ Stream(wire'.q)
  <2>1. SubSeq(m, 1, l) \in Seq(Cells)
    BY <1>3 DEF Stream
  <2> QED BY <1>1, <1>3, <2>1, SMTT(30) DEF Wires
<1>5. pc = "run" /\ pc' = pc /\ k' = k /\ note' = note
  BY DEF Session!client
<1>6. k \in Sessions /\ note \in Notes
  BY Parts
<1> QED BY <1>4, <1>5, <1>6, NamesKept

(* The pages a further program needs come on top.                          *)
LEMMA ProjectedAdd ==
    ASSUME SessionInv, NEW p \in Pairs, p \notin k.keys
    PROVE  /\ IsFiniteSet(k.keys \cup {p})
           /\ Cardinality(Session!Projected(k.keys \cup {p})) = k.demand + Need[p]
<1>1. /\ IsFiniteSet(k.keys) /\ k.demand = Cardinality(Session!Projected(k.keys))
      /\ \A q \in k.keys \cup {p} : Need[q] \in Nat
  BY Parts DEF SessionInv, CacheInv, Session!SessionAssumption, Sessions
<1>2. \A S : Session!Projected(S) = Units(Need, S)
  BY DEF Session!Projected, Units
<1>3. Cardinality(Units(Need, k.keys \cup {p})) = Cardinality(Units(Need, k.keys)) + Need[p]
  BY ONLY <1>1, p \notin k.keys, UnitsAdd, ZenonT(40)
<1>4. IsFiniteSet(k.keys \cup {p})
  BY <1>1, FS_AddElement
<1> QED BY ONLY <1>1, <1>2, <1>3, <1>4, ZenonT(30)

(* A name more, while there are fewer than --max-progs.                    *)
LEMMA BoundAdd ==
    ASSUME SessionInv, NEW n \in Names, NEW b \in Bindings, Session!Loaded < MaxProgs,
           k'.progs = [k.progs EXCEPT ![n] = b]
    PROVE  /\ IsFiniteSet(Bound') /\ Cardinality(Bound') <= MaxProgs
           /\ \A x \in Names : k'.progs[x] = IF x = n THEN b ELSE k.progs[x]
           /\ Bound' \subseteq Bound \cup {n}
<1>1. IsFiniteSet(Bound) /\ Cardinality(Bound) < MaxProgs
  BY SessionCardinality DEF SessionInv, CacheInv, Bound, Session!Loaded
<1>2. \A x \in Names : k'.progs[x] = IF x = n THEN b ELSE k.progs[x]
  BY Parts DEF Sessions
<1>3. Bound' \subseteq Bound \cup {n}
  BY <1>2 DEF Bound, Session!Held
<1>4. /\ IsFiniteSet(Bound \cup {n}) /\ Cardinality(Bound) \in Nat
      /\ Cardinality(Bound \cup {n}) <= Cardinality(Bound) + 1
  <2>1. Cardinality(Bound) \in Nat
    BY <1>1, FS_CardinalityType
  <2>2. /\ IsFiniteSet(Bound \cup {n})
        /\ Cardinality(Bound \cup {n}) = IF n \in Bound THEN Cardinality(Bound) ELSE Cardinality(Bound) + 1
    BY ONLY <1>1, FS_AddElement, ZenonT(30)
  <2> QED BY ONLY <2>1, <2>2, SMTT(30)
<1>5. IsFiniteSet(Bound') /\ Cardinality(Bound') <= Cardinality(Bound \cup {n})
  BY <1>3, <1>4, FS_Subset
<1>6. Cardinality(Bound') \in Nat /\ Cardinality(Bound \cup {n}) \in Nat
  BY <1>4, <1>5, FS_CardinalityType
<1>7. MaxProgs \in Nat
  BY DEF SessionInv, Session!SessionAssumption
<1>8. Cardinality(Bound') <= MaxProgs
  BY ONLY <1>1, <1>4, <1>5, <1>6, <1>7, SMTT(30)
<1> QED BY <1>2, <1>3, <1>5, <1>8

LEMMA CmdLoadInv == ASSUME SessionInv, Session!cmd_load PROVE SessionInv'
<1> DEFINE n == Session!Cmd.n
           p == Session!Cmd.p
           b == [Session!NoProg EXCEPT !.key = p]
<1>0. /\ pc = "run" /\ pc' = pc /\ note' = note
      /\ n \in Names /\ p \in Pairs /\ Len(wire.q) \in Nat \ {0}
  BY Command DEF Session!cmd_load
<1>1. 1 \in 0..Len(wire.q) /\ Session!Consume(1)
  BY <1>0, SMTT(30) DEF Session!cmd_load
<1>2. wire' \in Wires /\ Stream(wire'.q)
  BY <1>1, Read
<1>3. CASE Session!Fails
  BY <1>0, <1>1, <1>3, FailsInv
<1>4. CASE /\ ~Session!Held(n) /\ Session!Loaded < MaxProgs
           /\ \/ /\ p \in k.keys
                 /\ k' = [k EXCEPT !.progs = [k.progs EXCEPT ![n] = b]]
              \/ /\ p \notin k.keys /\ Session!Fits(p)
                 /\ k' = [k EXCEPT !.progs = [k.progs EXCEPT ![n] = b], !.keys = @ \cup {p},
                                   !.demand = @ + Need[p]]
  <2>1. /\ k \in Sessions /\ note \in Notes /\ Session!NoProg \in Bindings
        /\ Need[p] \in Nat /\ Cap \in Nat /\ Used \in Nat
    BY <1>0, Parts DEF SessionInv, Session!SessionAssumption
  <2>2. b \in Bindings /\ b.key = p /\ b.st = FALSE /\ k.progs[n].st = FALSE
    BY <1>0, <1>4, <2>1 DEF Bindings, Session!NoProg, Session!Held
  <2> DEFINE P == [k.progs EXCEPT ![n] = b]
  <2>3. P \in [Names -> Bindings]
    BY <1>0, <2>1, <2>2 DEF Sessions
  <2>k. \/ p \in k.keys /\ k' = [k EXCEPT !.progs = P]
        \/ /\ p \notin k.keys /\ Session!Fits(p)
           /\ k' = [k EXCEPT !.progs = P, !.keys = k.keys \cup {p}, !.demand = k.demand + Need[p]]
    BY <1>4
  <2> HIDE DEF n, p, b, P
  <2>4. /\ k' \in Sessions /\ k'.progs = P /\ k'.failed = k.failed
        /\ \/ p \in k.keys /\ k'.keys = k.keys /\ k'.demand = k.demand
           \/ /\ p \notin k.keys /\ Session!Fits(p)
              /\ k'.keys = k.keys \cup {p} /\ k'.demand = k.demand + Need[p]
    <3>1. CASE p \in k.keys /\ k' = [k EXCEPT !.progs = P]
      BY ONLY <2>1, <2>3, <3>1, ZenonT(30) DEF Sessions
    <3>2. CASE /\ p \notin k.keys /\ Session!Fits(p)
               /\ k' = [k EXCEPT !.progs = P, !.keys = k.keys \cup {p}, !.demand = k.demand + Need[p]]
      <4>1. k.keys \cup {p} \in SUBSET Pairs /\ k.demand + Need[p] \in Nat
        BY ONLY <1>0, <2>1, SMTT(30) DEF Sessions
      <4> QED BY ONLY <2>1, <2>3, <3>2, <4>1, Zenon DEF Sessions
    <3> QED BY ONLY <2>k, <3>1, <3>2, ZenonT(30)
  <2>5. /\ IsFiniteSet(Bound') /\ Cardinality(Bound') <= MaxProgs
        /\ \A x \in Names : k'.progs[x] = IF x = n THEN b ELSE k.progs[x]
        /\ Bound' \subseteq Bound \cup {n}
    BY <1>0, <1>4, <2>2, <2>4, BoundAdd DEF P
  <2>6. /\ IsFiniteSet(k.keys) /\ k.demand = Cardinality(Session!Projected(k.keys))
        /\ Cap # 0 => k.demand + Used <= Cap \/ k.keys = {}
        /\ \A x \in Bound : k.progs[x].key \in k.keys
        /\ note.skew => k.failed
    BY DEF SessionInv, CacheInv
  <2>7. /\ IsFiniteSet(k'.keys) /\ k'.demand = Cardinality(Session!Projected(k.keys)')
        /\ Cap # 0 => k'.demand + Used <= Cap \/ k'.keys = {}
        /\ k.keys \subseteq k'.keys /\ p \in k'.keys
    <3>1. CASE p \in k.keys /\ k'.keys = k.keys /\ k'.demand = k.demand
      BY <2>6, <3>1 DEF Session!Projected
    <3>2. CASE /\ p \notin k.keys /\ Session!Fits(p)
               /\ k'.keys = k.keys \cup {p} /\ k'.demand = k.demand + Need[p]
      <4>1. /\ IsFiniteSet(k.keys \cup {p})
            /\ Cardinality(Session!Projected(k.keys \cup {p})) = k.demand + Need[p]
        BY <1>0, <3>2, ProjectedAdd
      <4>2. Session!Projected(k.keys)' = Session!Projected(k.keys \cup {p})
        BY <3>2 DEF Session!Projected
      <4>3. Cap # 0 => k'.demand + Used <= Cap
        BY <3>2 DEF Session!Fits
      <4> QED BY ONLY <3>2, <4>1, <4>2, <4>3, ZenonT(30)
    <3> QED BY <2>4, <3>1, <3>2
  <2>8. \A x \in Bound' : k'.progs[x].key \in k'.keys
    <3> SUFFICES ASSUME NEW x \in Bound' PROVE k'.progs[x].key \in k'.keys
      OBVIOUS
    <3>1. x \in Names
      BY DEF Bound
    <3> QED BY <2>2, <2>5, <2>6, <2>7, <3>1
  <2>9. CacheInv'
    BY <1>0, <2>4, <2>5, <2>6, <2>7, <2>8 DEF CacheInv
  <2>10. StateInv'
    <3>1. note.same /\ \A x \in Names : StateOf(k.progs[x], note.ref[x])
      BY <1>0 DEF SessionInv, StateInv
    <3>2. \A x \in Names : StateOf(k'.progs[x], note.ref[x])
      BY <1>0, <2>2, <2>5, <3>1 DEF StateOf
    <3> QED BY <1>0, <3>1, <3>2 DEF StateInv, StateOf
  <2>11. Session!SessionAssumption'
    BY DEF SessionInv, Session!SessionAssumption
  <2>12. SessionType'
    BY <1>0, <1>2, <2>1, <2>4 DEF SessionType, Sessions, Wires, Notes, Bindings, Stream, Cells,
                                  Payload, Session!Tile, Session!Vals
  <2> QED BY <2>9, <2>10, <2>11, <2>12 DEF SessionInv
<1> QED BY <1>3, <1>4 DEF Session!cmd_load, Session!session_key_find

LEMMA CmdFreeInv == ASSUME SessionInv, Session!session_prog_free PROVE SessionInv'
<1> DEFINE n == Session!Cmd.n
<1>0. /\ pc = "run" /\ pc' = pc /\ n \in Names /\ Len(wire.q) \in Nat \ {0}
      /\ note' = [note EXCEPT !.ref[n] = 0]
  BY Command DEF Session!session_prog_free
<1>1. 1 \in 0..Len(wire.q) /\ Session!Consume(1)
  BY <1>0, SMTT(30) DEF Session!session_prog_free
<1>2. wire' \in Wires /\ Stream(wire'.q)
  BY <1>1, Read
<1>3. /\ k \in Sessions /\ note \in Notes /\ Session!NoProg \in Bindings /\ 0 \in Session!Vals
  BY Parts
<1>4. /\ note.same /\ (note.skew => k.failed)
      /\ \A x \in Names : StateOf(k.progs[x], note.ref[x])
  BY <1>0 DEF SessionInv, StateInv, CacheInv
<1> HIDE DEF n
<1>5. /\ note' \in Notes /\ note'.same = note.same /\ note'.skew = note.skew
      /\ \A x \in Names : note'.ref[x] = IF x = n THEN 0 ELSE note.ref[x]
  BY ONLY <1>0, <1>3, ZenonT(30) DEF Notes
<1>6. CASE Session!Held(n) /\ k' = [k EXCEPT !.progs[n] = Session!NoProg]
  <2>1. /\ k' \in Sessions /\ k'.keys = k.keys /\ k'.demand = k.demand /\ k'.failed = k.failed
        /\ \A x \in Names : k'.progs[x] = IF x = n THEN Session!NoProg ELSE k.progs[x]
    BY ONLY <1>0, <1>3, <1>6, ZenonT(30) DEF Sessions
  <2>2. \A x \in Names : StateOf(k'.progs[x], note'.ref[x])
    BY ONLY <1>4, <1>5, <2>1, SMTT(30) DEF StateOf, Session!NoProg
  <2>3. \A x \in Names : k'.progs[x] = Session!NoProg \/ k'.progs[x] = k.progs[x]
    BY ONLY <2>1, ZenonT(30)
  <2> QED BY <1>0, <1>2, <1>4, <1>5, <2>1, <2>2, <2>3, Uncached
<1>7. CASE ~Session!Held(n) /\ Session!Fails
  <2>1. /\ k' \in Sessions /\ k'.keys = k.keys /\ k'.demand = k.demand /\ k'.failed
        /\ k'.progs = k.progs
    BY ONLY <1>3, <1>7, ZenonT(40) DEF Sessions, Session!Fails
  <2>2. k.progs[n] = Session!NoProg
    BY <1>7 DEF Session!Held
  <2>3. \A x \in Names : StateOf(k'.progs[x], note'.ref[x])
    BY ONLY <1>4, <1>5, <2>1, <2>2 DEF StateOf, Session!NoProg
  <2>4. \A x \in Names : k'.progs[x] = k.progs[x]
    BY <2>1
  <2> QED BY <1>0, <1>2, <1>4, <1>5, <2>1, <2>3, <2>4, Uncached
<1> QED BY <1>6, <1>7 DEF Session!session_prog_free, n

LEMMA CmdStateInv == ASSUME SessionInv, Session!cmd_state PROVE SessionInv'
<1> DEFINE n == Session!Cmd.n
<1>0. /\ pc = "run" /\ pc' = pc /\ n \in Names /\ Len(wire.q) \in Nat \ {0}
  BY Command DEF Session!cmd_state
<1>1. CASE Session!Consume(1) /\ Session!Fails /\ (note' = note \/ note' = Session!Skewed(1))
  <2>1. 1 \in 0..Len(wire.q)
    BY <1>0, SMTT(30)
  <2> QED BY <1>0, <1>1, <2>1, FailsInv
<1>2. CASE Len(wire.q) >= 2 /\ Session!Consume(2) /\ note' = note /\ Session!Fails
  <2>1. 2 \in 0..Len(wire.q)
    BY <1>0, <1>2, SMTT(30)
  <2> QED BY <1>0, <1>2, <2>1, FailsInv
<1>3. CASE /\ Len(wire.q) >= 2 /\ Session!Consume(2) /\ note' = note
           /\ Session!Held(n) /\ ~k.progs[n].st
           /\ k' = [k EXCEPT !.progs[n] = [@ EXCEPT !.st = TRUE, !.buf = Session!ZeroTile]]
  <2>1. wire' \in Wires /\ Stream(wire'.q)
    <3>1. 2 \in 0..Len(wire.q)
      BY <1>0, <1>3, SMTT(30)
    <3> QED BY <1>3, <3>1, Read
  <2>2. /\ k \in Sessions /\ note \in Notes /\ Session!ZeroTile \in Session!Tile
        /\ note.same /\ (note.skew => k.failed)
        /\ \A x \in Names : StateOf(k.progs[x], note.ref[x])
    BY <1>0, Parts DEF SessionInv, StateInv, CacheInv
  <2> HIDE DEF n
  <2> DEFINE b == [k.progs[n] EXCEPT !.st = TRUE, !.buf = Session!ZeroTile]
  <2>3. b \in Bindings /\ b.key = k.progs[n].key /\ b.st /\ b.buf = Session!ZeroTile
    BY ONLY <1>0, <2>2, ZenonT(40) DEF Sessions, Bindings
  <2>4. k' = [k EXCEPT !.progs[n] = b]
    BY <1>3
  <2> HIDE DEF b
  <2>5. /\ k' \in Sessions /\ k'.keys = k.keys /\ k'.demand = k.demand /\ k'.failed = k.failed
        /\ \A x \in Names : k'.progs[x] = IF x = n THEN b ELSE k.progs[x]
    BY ONLY <1>0, <2>2, <2>3, <2>4, ZenonT(30) DEF Sessions
  <2>6. note.ref[n] = 0
    BY <1>0, <1>3, <2>2 DEF StateOf
  <2>7. \A x \in Names : StateOf(k'.progs[x], note'.ref[x])
    BY ONLY <1>3, <2>2, <2>3, <2>5, <2>6, SMTT(30) DEF StateOf, Session!ZeroTile
  <2>8. \A x \in Names : \/ k'.progs[x].key = k.progs[x].key /\ k.progs[x] # Session!NoProg
                         \/ k'.progs[x] = k.progs[x]
    BY ONLY <1>3, <2>3, <2>5, ZenonT(30) DEF Session!Held
  <2>9. note' \in Notes /\ note'.same /\ note'.skew = note.skew
    BY <1>3, <2>2
  <2> QED BY <1>0, <2>1, <2>5, <2>7, <2>8, <2>9, Uncached
<1> QED BY <1>0, <1>1, <1>2, <1>3, SMTT(30) DEF Session!cmd_state

(* RESET and RESETALL: the states of the names in S are zero, and so is    *)
(* what their calls left.                                                  *)
LEMMA ZeroInv ==
    ASSUME SessionInv, pc = "run", pc' = pc, wire' \in Wires, Stream(wire'.q),
           NEW S \in SUBSET Names, Session!state_zero(S)
    PROVE  SessionInv'
<1>1. /\ k \in Sessions /\ note \in Notes /\ Session!ZeroTile \in Session!Tile /\ 0 \in Session!Vals
      /\ note.same /\ (note.skew => k.failed)
      /\ \A x \in Names : StateOf(k.progs[x], note.ref[x])
  BY Parts DEF SessionInv, StateInv, CacheInv
<1> DEFINE z(x) == [k.progs[x] EXCEPT !.buf = Session!ZeroTile]
           P == [x \in Names |-> IF x \in S /\ k.progs[x].st THEN z(x) ELSE k.progs[x]]
           R == [x \in Names |-> IF x \in S THEN 0 ELSE note.ref[x]]
<1>2. \A x \in Names : /\ z(x) \in Bindings /\ z(x).key = k.progs[x].key
                       /\ z(x).st = k.progs[x].st /\ z(x).buf = Session!ZeroTile
                       /\ k.progs[x] \in Bindings
  BY <1>1 DEF Sessions, Bindings
<1>3. k' = [k EXCEPT !.progs = P] /\ note' = [note EXCEPT !.ref = R]
  BY DEF Session!state_zero
<1> HIDE DEF z
<1>4. /\ P \in [Names -> Bindings]
      /\ \A x \in Names : P[x] = IF x \in S /\ k.progs[x].st THEN z(x) ELSE k.progs[x]
  BY <1>2
<1>5. R \in [Names -> Session!Vals] /\ \A x \in Names : R[x] = IF x \in S THEN 0 ELSE note.ref[x]
  BY <1>1 DEF Notes
<1> HIDE DEF P, R
<1>6. /\ k' \in Sessions /\ k'.keys = k.keys /\ k'.demand = k.demand /\ k'.failed = k.failed
      /\ k'.progs = P
  BY ONLY <1>1, <1>3, <1>4, ZenonT(30) DEF Sessions
<1>7. note' \in Notes /\ note'.ref = R /\ note'.same = note.same /\ note'.skew = note.skew
  BY ONLY <1>1, <1>3, <1>5, ZenonT(40) DEF Notes
<1>8. \A x \in Names : StateOf(P[x], R[x])
  BY ONLY <1>1, <1>2, <1>4, <1>5, SMTT(30) DEF StateOf, Session!ZeroTile
<1>9. \A x \in Names : \/ P[x].key = k.progs[x].key /\ k.progs[x] # Session!NoProg
                       \/ P[x] = k.progs[x]
  BY ONLY <1>2, <1>4, SMTT(30) DEF Session!NoProg
<1> QED BY <1>1, <1>6, <1>7, <1>8, <1>9, Uncached

LEMMA CmdResetInv == ASSUME SessionInv, Session!cmd_reset PROVE SessionInv'
<1> DEFINE n == Session!Cmd.n
<1>0. pc = "run" /\ pc' = pc /\ Len(wire.q) \in Nat \ {0} /\ Session!Consume(1)
  <2>1. wire.q \in Seq(Cells) /\ wire.q # <<>> /\ pc = "run"
    BY Parts DEF Session!cmd_reset, Session!Next1, Stream
  <2>2. Len(wire.q) \in Nat \ {0}
    BY ONLY <2>1
  <2> QED BY <2>1, <2>2 DEF Session!cmd_reset
<1>1. 1 \in 0..Len(wire.q)
  BY <1>0, SMTT(30)
<1>2. wire' \in Wires /\ Stream(wire'.q)
  BY <1>0, <1>1, Read
<1>3. CASE Session!state_zero({x \in Names : Session!Held(x)})
  BY <1>0, <1>2, <1>3, ZeroInv
<1>4. CASE Session!Next1("RESET") /\ Session!state_zero({n})
  <2>1. n \in Names
    BY <1>4, Command
  <2> HIDE DEF n
  <2> QED BY <1>0, <1>2, <1>4, <2>1, ZeroInv
<1>5. CASE Session!Fails /\ UNCHANGED note
  BY <1>0, <1>1, <1>5, FailsInv
<1> QED BY <1>3, <1>4, <1>5 DEF Session!cmd_reset

(* What the program computes is a tile again.                              *)
LEMMA Computed ==
    ASSUME SessionInv, NEW x \in Session!Tile, NEW s \in Session!Tile
    PROVE  Session!F(x, s)[2].run \in Session!Vals
<1>1. M \in Nat \ {0} /\ x.run \in Nat /\ s.run \in Nat
  BY SMTT(30) DEF SessionInv, Session!SessionAssumption, Session!Tile, Session!Vals
<1>2. (x.run + s.run) % M \in 0..(M - 1)
  BY ONLY <1>1, SMTT(30)
<1> QED BY <1>2 DEF Session!F, Session!Vals

LEMMA CmdCallInv == ASSUME SessionInv, Session!cmd_call PROVE SessionInv'
<1> DEFINE n == Session!Cmd.n
           p == k.progs[n]
           want == Session!Wants(n)
           x == wire.q[2].v
           s == IF p.st THEN p.buf ELSE wire.q[3].v
           out == Session!F(x, s)
           ref == Session!Alone(n, x, s)
<1>0. pc = "run" /\ pc' = pc /\ n \in Names /\ Len(wire.q) \in Nat \ {0} /\ want \in {1, 2}
  BY Command DEF Session!cmd_call, Session!Wants
<1>1. CASE Session!Consume(1) /\ Session!Fails /\ note' = Session!Skewed(1)
  <2>1. 1 \in 0..Len(wire.q)
    BY <1>0, SMTT(30)
  <2> QED BY <1>0, <1>1, <2>1, FailsInv
<1>2. CASE Session!Consume(Len(wire.q)) /\ Session!Fails /\ note' = note
  <2>1. Len(wire.q) \in 0..Len(wire.q)
    BY <1>0, SMTT(30)
  <2> QED BY <1>0, <1>2, <2>1, FailsInv
<1>3. CASE ~(Len(wire.q) <= want) /\ Session!Consume(want + 1) /\ Session!Fails /\ note' = note
  <2>1. want + 1 \in 0..Len(wire.q)
    <3> HIDE DEF want
    <3> QED BY <1>0, <1>3, SMTT(30)
  <2> QED BY <1>0, <1>3, <2>1, FailsInv
<1>4. CASE /\ ~(Len(wire.q) <= want) /\ Session!Consume(want + 1)
           /\ k' = [k EXCEPT !.progs[n].buf = IF p.st THEN Session!Carry(out[2]) ELSE @]
           /\ note' = [note EXCEPT !.same = @ /\ out[1] = ref[1],
                                   !.ref[n] = IF p.st THEN ref[2].run ELSE 0]
  <2>1. wire' \in Wires /\ Stream(wire'.q)
    <3>1. want + 1 \in 0..Len(wire.q)
      <4>1. ~(Len(wire.q) <= want)
        BY <1>4
      <4> HIDE DEF want
      <4> QED BY ONLY <1>0, <4>1, SMTT(30)
    <3> QED BY <1>4, <3>1, Read
  <2>2. /\ k \in Sessions /\ note \in Notes /\ Stream(wire.q) /\ 0 \in Session!Vals
        /\ note.same /\ (note.skew => k.failed)
        /\ \A y \in Names : StateOf(k.progs[y], note.ref[y])
    BY <1>0, Parts DEF SessionInv, StateInv, CacheInv
  <2>3. p \in Bindings /\ p.st \in BOOLEAN /\ p.buf \in Session!Tile
    BY <1>0, <2>2 DEF Sessions, Bindings
  <2>4. x \in Session!Tile /\ (~p.st => wire.q[3].v \in Session!Tile)
    <3>1. 2 \in 2..Len(wire.q) /\ (~p.st => 3 \in 2..Len(wire.q))
      <4>1. want = IF p.st THEN 1 ELSE 2
        BY DEF Session!Wants
      <4> HIDE DEF want, p
      <4> QED BY <1>0, <1>4, <4>1, SMTT(30)
    <3> QED BY <2>2, <3>1 DEF Stream, Payload
  <2>5. s \in Session!Tile
    BY <2>3, <2>4
  <2>6. ref = out
    <3>1. p.st => p.buf = [run |-> note.ref[n], rest |-> 0]
      BY <1>0, <2>2 DEF StateOf
    <3>2. s = IF p.st THEN [run |-> note.ref[n], rest |-> 0] ELSE s
      BY <3>1
    <3> QED BY <3>2 DEF Session!Alone
  <2>7. out[2].run \in Session!Vals
    BY <2>4, <2>5, Computed
  <2> HIDE DEF n, want, x, s, out, ref
  <2> DEFINE c == Session!Carry(out[2])
             b == [p EXCEPT !.buf = IF p.st THEN c ELSE p.buf]
             r == IF p.st THEN out[2].run ELSE 0
  <2>8. c = [run |-> out[2].run, rest |-> 0] /\ c \in Session!Tile
    BY <2>2, <2>7 DEF Session!Carry, Session!Tile
  <2>9. /\ b \in Bindings /\ b.key = p.key /\ b.st = p.st
        /\ b.buf = IF p.st THEN [run |-> out[2].run, rest |-> 0] ELSE p.buf
    <3> HIDE DEF c, p
    <3> QED BY ONLY <2>3, <2>8, ZenonT(30) DEF Bindings
  <2>10. r \in Session!Vals
    BY <2>2, <2>7
  <2>11. k' = [k EXCEPT !.progs[n] = b] /\ note' = [note EXCEPT !.same = TRUE, !.ref[n] = r]
    <3>1. (note.same /\ out[1] = ref[1]) = TRUE
      BY <2>2, <2>6
    <3> QED BY <1>4, <2>6, <3>1
  <2> HIDE DEF b, r
  <2>12. /\ k' \in Sessions /\ k'.keys = k.keys /\ k'.demand = k.demand /\ k'.failed = k.failed
         /\ \A y \in Names : k'.progs[y] = IF y = n THEN b ELSE k.progs[y]
    BY ONLY <1>0, <2>2, <2>9, <2>11, ZenonT(30) DEF Sessions
  <2>13. /\ note' \in Notes /\ note'.same /\ note'.skew = note.skew
         /\ \A y \in Names : note'.ref[y] = IF y = n THEN r ELSE note.ref[y]
    BY ONLY <1>0, <2>2, <2>10, <2>11, ZenonT(40) DEF Notes
  <2>14. StateOf(b, r)
    BY <2>9 DEF StateOf, r
  <2>15. \A y \in Names : StateOf(k'.progs[y], note'.ref[y])
    BY ONLY <2>2, <2>12, <2>13, <2>14, ZenonT(30)
  <2>16. \A y \in Names : \/ k'.progs[y].key = k.progs[y].key /\ k.progs[y] # Session!NoProg
                          \/ k'.progs[y] = k.progs[y]
    <3>1. p = Session!NoProg => b = p
      <4> SUFFICES ASSUME p = Session!NoProg PROVE b = Session!NoProg
        OBVIOUS
      <4>1. p.key = "none" /\ p.st = FALSE /\ p.buf = Session!ZeroTile
        BY SMTT(30) DEF Session!NoProg
      <4> HIDE DEF p
      <4>2. b.key = "none" /\ b.st = FALSE /\ b.buf = Session!ZeroTile
        BY ONLY <2>9, <4>1, ZenonT(30)
      <4> QED BY ONLY <2>9, <4>2, ZenonT(30) DEF Session!NoProg, Bindings
    <3> QED BY ONLY <2>9, <2>12, <3>1, ZenonT(30)
  <2> QED BY <1>0, <2>1, <2>12, <2>13, <2>15, <2>16, Uncached
<1>5. \/ Session!Consume(1) /\ Session!Fails /\ note' = Session!Skewed(1)
      \/ Session!Consume(Len(wire.q)) /\ Session!Fails /\ note' = note
      \/ ~(Len(wire.q) <= want) /\ Session!Consume(want + 1) /\ Session!Fails /\ note' = note
      \/ /\ ~(Len(wire.q) <= want) /\ Session!Consume(want + 1)
         /\ k' = [k EXCEPT !.progs[n].buf = IF p.st THEN Session!Carry(out[2]) ELSE @]
         /\ note' = [note EXCEPT !.same = @ /\ out[1] = ref[1],
                                 !.ref[n] = IF p.st THEN ref[2].run ELSE 0]
  BY DEF Session!cmd_call
<1> QED BY ONLY <1>1, <1>2, <1>3, <1>4, <1>5, ZenonT(40)

LEMMA CmdLockInv ==
    ASSUME SessionInv, Session!cmd_lock \/ Session!cmd_unlock \/ Session!ping
    PROVE  SessionInv'
<1>0. /\ pc = "run" /\ pc' = pc /\ note' = note
      /\ Len(wire.q) \in Nat \ {0} /\ Session!Consume(1)
  <2>1. /\ wire.q # <<>> /\ pc = "run" /\ pc' = pc /\ note' = note /\ Session!Consume(1)
    BY DEF Session!cmd_lock, Session!cmd_unlock, Session!ping, Session!Next1
  <2>2. wire.q \in Seq(Cells)
    BY Parts DEF Stream
  <2>3. Len(wire.q) \in Nat \ {0}
    BY ONLY <2>1, <2>2, SMTT(30)
  <2> QED BY <2>1, <2>3
<1>1. wire' \in Wires /\ Stream(wire'.q)
  <2>1. 1 \in 0..Len(wire.q)
    BY <1>0, SMTT(30)
  <2> QED BY <1>0, <2>1, Read
<1>2. k \in Sessions /\ note \in Notes
  BY Parts
<1>3. /\ k' \in Sessions /\ k'.progs = k.progs /\ k'.keys = k.keys /\ k'.demand = k.demand
      /\ k.failed => k'.failed
  BY <1>2 DEF Session!cmd_lock, Session!cmd_unlock, Session!ping, Session!Fails, Sessions
<1> QED BY <1>0, <1>1, <1>2, <1>3, NamesKept

LEMMA SessionEndInv ==
    ASSUME SessionInv, Session!session_free \/ Session!unknown_command
    PROVE  SessionInv'
<1>0. /\ k \in Sessions /\ note \in Notes /\ wire \in Wires /\ Stream(wire.q)
      /\ Session!NoProg \in Bindings /\ MaxProgs \in Nat
      /\ note.same /\ (note.skew => k.failed)
  BY Parts DEF SessionInv, StateInv, CacheInv, Session!SessionAssumption
<1>1. Session!SessionAssumption'
  BY DEF SessionInv, Session!SessionAssumption
<1>2. CASE Session!session_free
  <2> DEFINE P == [n \in Names |-> Session!NoProg]
  <2>1. P \in [Names -> Bindings] /\ \A n \in Names : P[n] = Session!NoProg
    BY <1>0
  <2>2. k' = [k EXCEPT !.progs = P, !.keys = {}, !.demand = 0, !.lock = "none"]
    BY <1>2 DEF Session!session_free
  <2> HIDE DEF P
  <2>3. /\ k' \in Sessions /\ k'.progs = P /\ k'.keys = {} /\ k'.demand = 0
        /\ k'.failed = k.failed
    BY ONLY <1>0, <2>1, <2>2, Zenon DEF Sessions
  <2>4. note' \in Notes /\ note'.same /\ note'.skew = note.skew
    BY <1>0, <1>2, SMTT(30) DEF Session!session_free, Notes
  <2>5. pc' = "exit" /\ wire' \in Wires /\ Stream(wire'.q)
    <3>1. wire' \in Wires /\ wire'.q = <<>>
      <4>1. wire' = [wire EXCEPT !.q = <<>>, !.eof = TRUE] /\ <<>> \in Seq(Cells)
        BY <1>2, SMTT(30) DEF Session!session_free
      <4> QED BY ONLY <1>0, <4>1, Zenon DEF Wires
    <3> QED BY <1>2, <3>1, SMTT(30) DEF Session!session_free, Stream
  <2>6. Bound' = {}
    BY <2>1, <2>3 DEF Bound, Session!Held
  <2>7. Session!Projected(k.keys)' = {}
    BY <2>3 DEF Session!Projected
  <2>8. IsFiniteSet({}) /\ Cardinality({}) = 0
    BY FS_EmptySet
  <2>9. CacheInv'
    BY <1>0, <2>3, <2>4, <2>6, <2>7, <2>8, SMTT(30) DEF CacheInv
  <2>10. SessionType'
    BY <2>3, <2>4, <2>5 DEF SessionType, Sessions, Wires, Notes, Bindings, Stream, Cells,
                            Payload, Session!Tile, Session!Vals
  <2>11. StateInv'
    BY <2>4, <2>5 DEF StateInv
  <2> QED BY <1>1, <2>9, <2>10, <2>11 DEF SessionInv
<1>3. CASE Session!unknown_command
  <2>1. k' = k /\ wire' = wire /\ pc' = "exit" /\ note' = [note EXCEPT !.status = 2]
    BY <1>3 DEF Session!unknown_command
  <2>2. note' \in Notes /\ note'.same = note.same /\ note'.skew = note.skew
    <3>1. note'.same = note.same /\ note'.skew = note.skew
      BY ONLY <1>0, <2>1, Zenon DEF Notes
    <3>2. 2 \in 0..2
      BY SMTT(30)
    <3>3. note' \in Notes
      BY ONLY <1>0, <2>1, <3>2, Zenon DEF Notes
    <3> QED BY <3>1, <3>3
  <2>3. Bound' = Bound /\ Session!Projected(k.keys)' = Session!Projected(k.keys)
    BY <2>1 DEF Bound, Session!Held, Session!Projected
  <2>4. CacheInv'
    BY <2>1, <2>2, <2>3 DEF SessionInv, CacheInv
  <2>5. SessionType'
    BY <1>0, <2>1, <2>2 DEF SessionType, Sessions, Wires, Notes, Bindings, Stream, Cells,
                            Payload, Session!Tile, Session!Vals
  <2>6. StateInv'
    BY <1>0, <2>1, <2>2 DEF StateInv
  <2> QED BY <1>1, <2>4, <2>5, <2>6 DEF SessionInv
<1> QED BY <1>2, <1>3

-----------------------------------------------------------------------------
LEMMA SessionStart == Session!SessionAssumption /\ Session!Init => SessionInv
<1> SUFFICES ASSUME Session!SessionAssumption, Session!Init PROVE SessionInv
  OBVIOUS
<1>0. 0 \in Session!Vals /\ MaxProgs \in Nat
  BY SMTT(30) DEF Session!SessionAssumption, Session!Vals
<1>1. Session!NoProg \in Bindings
  BY <1>0 DEF Session!NoProg, Bindings, Session!ZeroTile, Session!Tile
<1> DEFINE P == [n \in Names |-> Session!NoProg]   R == [n \in Names |-> 0]
<1>2. P \in [Names -> Bindings] /\ \A n \in Names : P[n] = Session!NoProg
  BY <1>1
<1>3. R \in [Names -> Session!Vals] /\ \A n \in Names : R[n] = 0
  BY <1>0
<1>4. /\ pc = "run" /\ wire = [q |-> <<>>, eof |-> FALSE]
      /\ k = [progs |-> P, keys |-> {}, demand |-> 0, failed |-> FALSE, lock |-> "none"]
      /\ note = [ref |-> R, same |-> TRUE, skew |-> FALSE, status |-> 0]
  BY DEF Session!Init
<1> HIDE DEF P, R
<1>5. SessionType
  <2>1. k \in Sessions
    BY ONLY <1>2, <1>4, ZenonT(30) DEF Sessions
  <2>2. note \in Notes
    BY ONLY <1>3, <1>4, SMTT(30) DEF Notes
  <2>3. wire \in Wires /\ Stream(wire.q)
    <3>1. wire.q = <<>> /\ <<>> \in Seq(Cells) /\ Len(<<>>) = 0
      BY <1>4, SMTT(30)
    <3>2. wire \in Wires
      BY ONLY <1>4, <3>1, ZenonT(30) DEF Wires
    <3> QED BY <3>1, <3>2, SMTT(30) DEF Stream
  <2> QED BY <1>4, <2>1, <2>2, <2>3 DEF SessionType
<1>6. StateInv
  BY <1>2, <1>3, <1>4, SMTT(30) DEF StateInv, StateOf, Session!NoProg
<1>7. CacheInv
  <2>1. Bound = {} /\ Session!Projected(k.keys) = {}
    BY <1>2, <1>4 DEF Bound, Session!Held, Session!Projected
  <2>2. IsFiniteSet({}) /\ Cardinality({}) = 0
    BY FS_EmptySet
  <2>3. k.keys = {} /\ k.demand = 0 /\ ~note.skew
    BY ONLY <1>4, ZenonT(30)
  <2> QED BY ONLY <1>0, <2>1, <2>2, <2>3, SMTT(30) DEF CacheInv
<1> QED BY <1>5, <1>6, <1>7 DEF SessionInv

LEMMA SessionStep == SessionInv /\ [Session!Next]_Session!vars => SessionInv'
<1> SUFFICES ASSUME SessionInv, [Session!Next]_Session!vars PROVE SessionInv'
  OBVIOUS
<1>1. CASE UNCHANGED Session!vars
  <2>1. pc' = pc /\ k' = k /\ wire' = wire /\ note' = note
    BY <1>1 DEF Session!vars
  <2>2. SessionType' /\ StateInv' /\ Session!SessionAssumption'
    <3>1. SessionType'
      BY <2>1 DEF SessionInv, SessionType, Sessions, Wires, Notes, Bindings, Stream, Cells,
                  Payload, Session!Tile, Session!Vals
    <3> QED BY <2>1, <3>1 DEF SessionInv, StateInv, StateOf, Session!SessionAssumption
  <2>3. Bound' = Bound /\ Session!Projected(k.keys)' = Session!Projected(k.keys)
    BY <2>1 DEF Bound, Session!Held, Session!Projected
  <2>4. CacheInv'
    BY <2>1, <2>3 DEF SessionInv, CacheInv
  <2> QED BY <2>2, <2>4 DEF SessionInv
<1>2. CASE Session!Next
  BY <1>2, ClientInv, CmdLoadInv, CmdFreeInv, CmdStateInv, CmdResetInv, CmdCallInv, CmdLockInv,
     SessionEndInv DEF Session!Next
<1> QED BY <1>1, <1>2

LEMMA SessionInvariance == Session!SessionAssumption /\ Session!Spec => []SessionInv
<1> QED BY SessionStart, SessionStep, PTL DEF Session!Spec

(* Names that share a cached program and its surfaces do not share state:  *)
(* every reply is what a session with that name alone would have given,    *)
(* and a name's state holds the runs of its own last output and zero       *)
(* elsewhere, for any number of names and programs and any stream.         *)
THEOREM NamesIsolated == Session!SessionAssumption /\ Session!Spec => []Session!StateIsolated
<1>1. SessionInv => Session!StateIsolated
  BY DEF SessionInv, StateInv, StateOf, Session!StateIsolated
<1> QED BY <1>1, SessionInvariance, PTL

(* The projection that admits a program is what the cached programs need   *)
(* and stays below the cap, every name is bound to a cached program, there *)
(* are no more names than --max-progs, and the stream gets out of step     *)
(* with its commands only in a session already marked failed.              *)
THEOREM CacheBounded == Session!SessionAssumption /\ Session!Spec => []Session!SessionBounded
<1>1. SessionInv => Session!SessionBounded
  <2> SUFFICES ASSUME SessionInv PROVE Session!SessionBounded
    OBVIOUS
  <2>1. CacheInv
    BY DEF SessionInv
  <2>2. k.demand = Session!Cardinality(Session!Projected(k.keys))
    BY <2>1, SessionCardinality DEF CacheInv
  <2>3. Session!Loaded <= MaxProgs
    BY <2>1, SessionCardinality DEF CacheInv, Session!Loaded, Bound
  <2>4. {k.progs[n].key : n \in {m \in Names : Session!Held(m)}} \subseteq k.keys
    BY <2>1 DEF CacheInv, Bound
  <2> QED BY <2>1, <2>2, <2>3, <2>4 DEF CacheInv, Session!SessionBounded
<1> QED BY <1>1, SessionInvariance, PTL

(* A failure is final: once a command has failed, no program runs again,   *)
(* the mark stays and the process does not report success, whatever the    *)
(* client sends.                                                           *)
THEOREM FailedForGood ==
    Session!SessionAssumption /\ Session!Spec => [][Session!FailureFinal]_Session!vars
<1>1. SessionInv /\ [Session!Next]_Session!vars => [Session!FailureFinal]_Session!vars
  <2> SUFFICES ASSUME SessionInv, Session!Next, k.failed
               PROVE  /\ k'.failed /\ (\A p \in Pairs : hw'[p] = hw[p])
                      /\ pc' = "exit" => note'.status # 0
    BY DEF Session!FailureFinal
  <2>0. k \in Sessions /\ note \in Notes
    BY Parts
  <2>1. CASE Session!client
    BY <2>1 DEF Session!client
  <2>2. CASE Session!cmd_load
    BY <2>0, <2>2 DEF Session!cmd_load, Session!Fails, Session!Next1, Sessions
  <2>3. CASE Session!session_prog_free
    BY <2>0, <2>3 DEF Session!session_prog_free, Session!Fails, Session!Next1, Sessions
  <2>4. CASE Session!cmd_state
    BY <2>0, <2>4 DEF Session!cmd_state, Session!Fails, Session!Next1, Sessions
  <2>5. CASE Session!cmd_reset
    BY <2>0, <2>5 DEF Session!cmd_reset, Session!state_zero, Session!Fails, Session!Next1, Sessions
  <2>6. CASE Session!cmd_call
    <3>1. Session!Refused(Session!Cmd.n)
      BY DEF Session!Refused
    <3>2. Session!Fails /\ hw' = hw /\ pc' = pc /\ pc = "run"
      BY <2>6, <3>1 DEF Session!cmd_call, Session!Next1
    <3> QED BY <2>0, <3>2 DEF Session!Fails, Sessions
  <2>7. CASE Session!cmd_lock \/ Session!cmd_unlock \/ Session!ping
    BY <2>0, <2>7 DEF Session!cmd_lock, Session!cmd_unlock, Session!ping, Session!Fails,
                      Session!Next1, Sessions
  <2>8. CASE Session!session_free
    BY <2>0, <2>8, SMTT(30) DEF Session!session_free, Sessions, Notes
  <2>9. CASE Session!unknown_command
    BY <2>0, <2>9, SMTT(30) DEF Session!unknown_command, Notes
  <2> QED BY <2>1, <2>2, <2>3, <2>4, <2>5, <2>6, <2>7, <2>8, <2>9 DEF Session!Next
<1> QED BY <1>1, SessionInvariance, PTL DEF Session!Spec

-----------------------------------------------------------------------------
(* AneH18Malloc.                                                           *)
Slots18 == 0..NSlots-1
Requests == [t : {"idle", "malloc", "free", "answered", "freed"}, size : Nat,
             a : Addrs \cup {"none"}]
Buffers == [a : Addrs, size : Nat] \cup {Malloc!None}
Drivers18 == [cursor : Slots18, err : {"none", "E2BIG", "ENOMEM", "EOPNOTSUPP"},
              mal : [1..MaxBufs -> Buffers], n : 0..MaxBufs, bytes : Nat]
Firmwares == [ring : [Slots18 -> Requests], post : Slots18, take : Slots18,
              busy : 0..NSlots, owns : SUBSET Addrs]

\* A slot is a request only while it is outstanding.
RingInv ==
    /\ hw.post = (hw.take + hw.busy) % NSlots
    /\ \A s \in Slots18 : s \in Malloc!Outstanding \/ hw.ring[s].t \in {"idle", "answered", "freed"}

\* The addresses on their way: handed out and not yet taken, or handed back
\* and not yet freed.  Each is of a live buffer, the firmware does not use it
\* and no other slot names it.
Returned(e) == e.t = "free" /\ e.size = 0
OnTheWay == {s \in Malloc!Outstanding : hw.ring[s].t = "answered" \/ Returned(hw.ring[s])}
Lent == {k.mal[i].a : i \in Malloc!Live}
LentInv ==
    /\ hw.owns \subseteq Lent
    /\ \A s \in OnTheWay : hw.ring[s].a \in Lent \ hw.owns
    /\ \A r, s \in OnTheWay : r # s => hw.ring[r].a # hw.ring[s].a
    /\ \A i, j \in Malloc!Live : i # j => k.mal[i].a # k.mal[j].a

BytesInv ==
    /\ \A i \in 1..MaxBufs : i > k.n => k.mal[i] = Malloc!None
    /\ k.bytes = Cardinality(Malloc!Backed(Malloc!Live)) /\ k.bytes <= MaxBytes

MallocInv ==
    /\ Malloc!MallocAssumption
    /\ k \in Drivers18 /\ hw \in Firmwares
    /\ RingInv
    /\ LentInv
    /\ BytesInv

-----------------------------------------------------------------------------
(* The ring: the slots from take on, busy of them, modulo NSlots.          *)
Window(t, b) == {(t + i) % NSlots : i \in 0..b-1}
Wrapped(x) == IF x < NSlots THEN x ELSE x - NSlots

LEMMA Wraps ==
    ASSUME NSlots \in Nat \ {0}, NEW x \in Nat, x < 2 * NSlots
    PROVE  x % NSlots = Wrapped(x)
BY SMTT(30) DEF Wrapped

LEMMA WindowIs ==
    ASSUME NSlots \in Nat \ {0}, NEW t \in Slots18, NEW b \in 0..NSlots
    PROVE  /\ Window(t, b) = {Wrapped(t + i) : i \in 0..b-1}
           /\ Window(t, b) \subseteq Slots18
<1>1. \A i \in 0..b-1 : (t + i) % NSlots = Wrapped(t + i) /\ Wrapped(t + i) \in Slots18
  <2> SUFFICES ASSUME NEW i \in 0..b-1
               PROVE  (t + i) % NSlots = Wrapped(t + i) /\ Wrapped(t + i) \in Slots18
    OBVIOUS
  <2>1. t + i \in Nat /\ t + i < 2 * NSlots
    BY SMTT(30) DEF Slots18
  <2> QED BY <2>1, Wraps, SMTT(30) DEF Wrapped, Slots18
<1> QED BY <1>1 DEF Window

LEMMA WindowGrows ==
    ASSUME NSlots \in Nat \ {0}, NEW t \in Slots18, NEW b \in 0..NSlots, b < NSlots
    PROVE  /\ (t + b) % NSlots \in Slots18 \ Window(t, b)
           /\ Window(t, b + 1) = Window(t, b) \cup {(t + b) % NSlots}
           /\ Malloc!Forward((t + b) % NSlots) = (t + (b + 1)) % NSlots
<1>1. t + b \in Nat /\ t + b < 2 * NSlots /\ t + (b + 1) \in Nat /\ t + (b + 1) < 2 * NSlots
  BY SMTT(30) DEF Slots18
<1>2. (t + b) % NSlots = Wrapped(t + b) /\ (t + (b + 1)) % NSlots = Wrapped(t + (b + 1))
  BY <1>1, Wraps
<1>3. Wrapped(t + b) \in Slots18
  BY <1>1, SMTT(30) DEF Wrapped, Slots18
<1>4. Wrapped(t + b) + 1 \in Nat /\ Wrapped(t + b) + 1 < 2 * NSlots
  BY <1>3, SMTT(30) DEF Slots18
<1>5. (Wrapped(t + b) + 1) % NSlots = Wrapped(Wrapped(t + b) + 1)
  BY <1>4, Wraps
<1>6. Wrapped(Wrapped(t + b) + 1) = Wrapped(t + (b + 1))
  BY <1>1, SMTT(30) DEF Wrapped, Slots18
<1>7. Wrapped(t + b) \notin Window(t, b)
  <2>1. Window(t, b) = {Wrapped(t + i) : i \in 0..b-1}
    BY WindowIs
  <2>2. \A i \in 0..b-1 : Wrapped(t + i) # Wrapped(t + b)
    BY SMTT(30) DEF Wrapped, Slots18
  <2> QED BY <2>1, <2>2
<1>8. Window(t, b + 1) = Window(t, b) \cup {(t + b) % NSlots}
  <2>1. 0..(b + 1)-1 = (0..b-1) \cup {b}
    BY SMTT(30)
  <2> QED BY <2>1 DEF Window
<1> QED BY <1>2, <1>3, <1>5, <1>6, <1>7, <1>8 DEF Malloc!Forward

LEMMA WindowShrinks ==
    ASSUME NSlots \in Nat \ {0}, NEW t \in Slots18, NEW b \in 1..NSlots
    PROVE  /\ t \in Window(t, b) /\ Malloc!Forward(t) \in Slots18
           /\ Window(Malloc!Forward(t), b - 1) = Window(t, b) \ {t}
           /\ (Malloc!Forward(t) + (b - 1)) % NSlots = (t + b) % NSlots
<1>1. Malloc!Forward(t) = Wrapped(t + 1) /\ Wrapped(t + 1) \in Slots18
  <2>1. t + 1 \in Nat /\ t + 1 < 2 * NSlots
    BY SMTT(30) DEF Slots18
  <2> QED BY <2>1, Wraps, SMTT(30) DEF Malloc!Forward, Wrapped, Slots18
<1>2. Window(t, b) = {Wrapped(t + i) : i \in 0..b-1}
  BY WindowIs, SMTT(30)
<1>3. Window(Wrapped(t + 1), b - 1) = {Wrapped(Wrapped(t + 1) + i) : i \in 0..(b - 1)-1}
  BY <1>1, WindowIs, SMTT(30)
<1>4. \A i \in 0..(b - 1)-1 : Wrapped(Wrapped(t + 1) + i) = Wrapped(t + (i + 1))
  BY SMTT(30) DEF Wrapped, Slots18
<1>5. Wrapped(t + 0) = t /\ \A i \in 1..b-1 : Wrapped(t + i) # t
  BY SMTT(30) DEF Wrapped, Slots18
<1>6. {Wrapped(t + i) : i \in 0..b-1} = {t} \cup {Wrapped(t + i) : i \in 1..b-1}
  <2>1. 0..b-1 = {0} \cup 1..b-1
    BY SMTT(30)
  <2> QED BY <1>5, <2>1
<1>7. {Wrapped(t + (i + 1)) : i \in 0..(b - 1)-1} = {Wrapped(t + i) : i \in 1..b-1}
  <2>1. \A i \in 0..(b - 1)-1 : i + 1 \in 1..b-1
    BY SMTT(30)
  <2>2. \A i \in 1..b-1 : i - 1 \in 0..(b - 1)-1 /\ (i - 1) + 1 = i
    BY SMTT(30)
  <2> QED BY <2>1, <2>2
<1>8. Window(Wrapped(t + 1), b - 1) = {Wrapped(t + (i + 1)) : i \in 0..(b - 1)-1}
  BY <1>3, <1>4
<1>9. (Wrapped(t + 1) + (b - 1)) % NSlots = (t + b) % NSlots
  <2>1. /\ Wrapped(t + 1) + (b - 1) \in Nat /\ Wrapped(t + 1) + (b - 1) < 2 * NSlots
        /\ t + b \in Nat /\ t + b < 2 * NSlots
    BY <1>1, SMTT(30) DEF Slots18
  <2>2. Wrapped(Wrapped(t + 1) + (b - 1)) = Wrapped(t + b)
    BY SMTT(30) DEF Wrapped, Slots18
  <2> QED BY <2>1, <2>2, Wraps
<1>10. t \in Window(t, b) /\ Window(Wrapped(t + 1), b - 1) = Window(t, b) \ {t}
  <2> DEFINE R == {Wrapped(t + i) : i \in 1..b-1}
  <2>1. t \notin R
    BY <1>5
  <2>2. Window(t, b) = {t} \cup R /\ Window(Wrapped(t + 1), b - 1) = R
    BY <1>2, <1>6, <1>7, <1>8
  <2> HIDE DEF R
  <2> QED BY ONLY <2>1, <2>2, ZenonT(30)
<1> QED BY <1>1, <1>9, <1>10

-----------------------------------------------------------------------------
LEMMA MallocCardinality == ASSUME NEW S PROVE Malloc!Cardinality(S) = Cardinality(S)
BY DEF Malloc!Cardinality, Cardinality

LEMMA MallocParts ==
    ASSUME MallocInv
    PROVE  /\ k \in Drivers18 /\ hw \in Firmwares
           /\ NSlots \in Nat \ {0} /\ MaxBufs \in Nat /\ MaxBytes \in Nat /\ "none" \notin Addrs
           /\ k.cursor \in Slots18 /\ hw.take \in Slots18 /\ hw.busy \in 0..NSlots
           /\ \A s \in Slots18 : hw.ring[s] \in Requests
           /\ \A i \in 1..MaxBufs : k.mal[i] \in Buffers
           /\ Malloc!Outstanding = Window(hw.take, hw.busy)
           /\ Malloc!Outstanding \subseteq Slots18
           /\ Malloc!Live = {i \in 1..MaxBufs : k.mal[i] # Malloc!None}
<1>1. /\ k \in Drivers18 /\ hw \in Firmwares
      /\ NSlots \in Nat \ {0} /\ MaxBufs \in Nat /\ MaxBytes \in Nat /\ "none" \notin Addrs
  BY DEF MallocInv, Malloc!MallocAssumption
<1>2. /\ k.cursor \in Slots18 /\ hw.take \in Slots18 /\ hw.busy \in 0..NSlots
      /\ \A s \in Slots18 : hw.ring[s] \in Requests
      /\ \A i \in 1..MaxBufs : k.mal[i] \in Buffers
  BY <1>1 DEF Drivers18, Firmwares
<1>3. Malloc!Outstanding = Window(hw.take, hw.busy)
  BY DEF Malloc!Outstanding, Window
<1>4. Window(hw.take, hw.busy) \subseteq Slots18
  BY <1>1, <1>2, WindowIs
<1> QED BY <1>1, <1>2, <1>3, <1>4 DEF Malloc!Live

(* The first slot without a buffer has none.                               *)
LEMMA FirstFreeIn ==
    ASSUME MallocInv
    PROVE  /\ Malloc!FirstFree \in 1..k.n + 1
           /\ Malloc!FirstFree <= MaxBufs => k.mal[Malloc!FirstFree] = Malloc!None
<1> DEFINE holes == {i \in 1..k.n : k.mal[i] = Malloc!None}
<1>1. k.n \in 0..MaxBufs /\ MaxBufs \in Nat
  BY MallocParts DEF Drivers18
<1>2. CASE holes = {}
  <2>1. Malloc!FirstFree = k.n + 1
    BY <1>2 DEF Malloc!FirstFree
  <2> QED BY <1>1, <2>1, SMTT(30) DEF MallocInv, BytesInv
<1>3. CASE holes # {}
  <2>1. holes \subseteq Nat
    BY <1>1, SMTT(30)
  <2>2. PICK m \in holes : \A x \in holes : ~(<<x, m>> \in OpToRel(<, Nat))
    <3> HIDE DEF holes
    <3> QED BY <1>3, <2>1, NatLessThanWellFounded, WFMin
  <2>3. \A x \in holes : m <= x
    <3> SUFFICES ASSUME NEW x \in holes PROVE m <= x
      OBVIOUS
    <3>1. x \in Nat /\ m \in Nat /\ ~(<<x, m>> \in OpToRel(<, Nat))
      BY <2>1, <2>2
    <3> QED BY ONLY <3>1 DEF OpToRel
  <2>4. Malloc!FirstFree = Malloc!Min(holes)
    BY <1>3 DEF Malloc!FirstFree
  <2> HIDE DEF holes
  <2>5. Malloc!FirstFree \in holes
    BY <2>3, <2>4 DEF Malloc!Min
  <2> QED BY <1>1, <2>5, SMTT(30) DEF holes
<1> QED BY <1>2, <1>3

(* A step that leaves the buffers and the slots that matter alone.         *)
LEMMA BuffersKept ==
    ASSUME MallocInv, k' \in Drivers18, k'.mal = k.mal, k'.n = k.n, k'.bytes = k.bytes
    PROVE  /\ Malloc!Live' = Malloc!Live /\ Lent' = Lent /\ BytesInv'
           /\ \A i, j \in Malloc!Live' : i # j => k'.mal[i].a # k'.mal[j].a
<1>1. Malloc!Live' = Malloc!Live /\ Lent' = Lent
  BY DEF Malloc!Live, Lent, Malloc!None
<1>2. Malloc!Backed(Malloc!Live)' = Malloc!Backed(Malloc!Live)
  BY <1>1 DEF Malloc!Backed
<1>3. BytesInv'
  BY <1>2 DEF MallocInv, BytesInv, Malloc!None
<1> QED BY <1>1, <1>3, SMTT(30) DEF MallocInv, LentInv

LEMMA RefuseInv ==
    ASSUME MallocInv, NEW r \in {"E2BIG", "ENOMEM", "EOPNOTSUPP"}, Malloc!Refuse(r)
    PROVE  MallocInv'
<1>1. k' \in Drivers18 /\ k'.mal = k.mal /\ k'.n = k.n /\ k'.bytes = k.bytes /\ hw' = hw
  BY MallocParts DEF Malloc!Refuse, Drivers18
<1>2. /\ Malloc!Live' = Malloc!Live /\ Lent' = Lent /\ BytesInv'
      /\ \A i, j \in Malloc!Live' : i # j => k'.mal[i].a # k'.mal[j].a
  BY <1>1, BuffersKept
<1>3. Malloc!Outstanding' = Malloc!Outstanding
  BY <1>1 DEF Malloc!Outstanding
<1>4. OnTheWay' = OnTheWay
  BY <1>1, <1>3 DEF OnTheWay, Returned
<1>5. RingInv'
  BY <1>1, <1>3 DEF MallocInv, RingInv, Slots18
<1>6. LentInv'
  BY <1>1, <1>2, <1>4, SMTT(30) DEF MallocInv, LentInv
<1>7. Malloc!MallocAssumption' /\ k' \in Drivers18 /\ hw' \in Firmwares
  BY <1>1 DEF MallocInv, Malloc!MallocAssumption
<1> QED BY <1>2, <1>5, <1>6, <1>7 DEF MallocInv, Drivers18, Firmwares, Buffers, Requests, Slots18, Malloc!None

LEMMA ForwardIn ==
    ASSUME NSlots \in Nat \ {0}, NEW c \in Slots18
    PROVE  Malloc!Forward(c) \in Slots18
<1>1. c + 1 \in Nat /\ c + 1 < 2 * NSlots
  BY SMTT(30) DEF Slots18
<1> QED BY <1>1, Wraps, SMTT(30) DEF Malloc!Forward, Wrapped, Slots18

LEMMA MallocKept ==
    ASSUME MallocInv, k' \in Drivers18, hw' \in Firmwares, RingInv', LentInv', BytesInv'
    PROVE  MallocInv'
<1>1. Malloc!MallocAssumption'
  BY DEF MallocInv, Malloc!MallocAssumption
<1> QED BY <1>1 DEF MallocInv, Drivers18, Firmwares, Buffers, Requests, Slots18, Malloc!None

(* An answer in the slot of the cursor, which was a request.               *)
LEMMA Answered ==
    ASSUME MallocInv, NEW e \in Requests, hw' = Malloc!Answer(e),
           Malloc!Entry.t \in {"malloc", "free"}, e.t \in {"answered", "freed"}
    PROVE  /\ hw' \in Firmwares /\ hw'.owns = hw.owns
           /\ k.cursor \in Malloc!Outstanding /\ Malloc!Outstanding' = Malloc!Outstanding
           /\ RingInv'
           /\ hw'.ring[k.cursor] = e
           /\ \A s \in Slots18 \ {k.cursor} : hw'.ring[s] = hw.ring[s]
<1>1. k.cursor \in Slots18 /\ hw \in Firmwares /\ Malloc!Outstanding \subseteq Slots18
  BY MallocParts
<1>2. /\ hw' \in Firmwares /\ hw'.owns = hw.owns /\ hw'.post = hw.post
      /\ hw'.take = hw.take /\ hw'.busy = hw.busy
      /\ \A s \in Slots18 : hw'.ring[s] = IF s = k.cursor THEN e ELSE hw.ring[s]
  BY <1>1 DEF Malloc!Answer, Firmwares
<1>3. Malloc!Outstanding' = Malloc!Outstanding
  BY <1>2, SMTT(30) DEF Malloc!Outstanding
<1>4. k.cursor \in Malloc!Outstanding
  BY <1>1 DEF MallocInv, RingInv, Malloc!Entry
<1>5. RingInv'
  BY <1>2, <1>3 DEF MallocInv, RingInv, Slots18
<1> QED BY <1>1, <1>2, <1>3, <1>4, <1>5

(* The units of the live buffers.                                          *)
Size18(m) == [i \in 1..MaxBufs |-> m[i].size]
LEMMA BackedUnits ==
    ASSUME NEW S \in SUBSET (1..MaxBufs)
    PROVE  Malloc!Backed(S) = Units(Size18(k.mal), S)
BY DEF Malloc!Backed, Units, Size18

LEMMA LiveUnits ==
    ASSUME MallocInv
    PROVE  /\ \A i \in 1..MaxBufs : Size18(k.mal)[i] = k.mal[i].size /\ k.mal[i].size \in Nat
           /\ k.bytes = Cardinality(Units(Size18(k.mal), Malloc!Live))
           /\ \A S \in SUBSET (1..MaxBufs) : IsFiniteSet(S)
<1>1. MaxBufs \in Nat /\ \A i \in 1..MaxBufs : k.mal[i] \in Buffers
  BY MallocParts
<1>2. \A i \in 1..MaxBufs : Size18(k.mal)[i] = k.mal[i].size /\ k.mal[i].size \in Nat
  BY <1>1, SMTT(30) DEF Size18, Buffers, Malloc!None
<1>3. Malloc!Live \in SUBSET (1..MaxBufs)
  BY DEF Malloc!Live
<1>4. k.bytes = Cardinality(Units(Size18(k.mal), Malloc!Live))
  BY <1>3, BackedUnits DEF MallocInv, BytesInv
<1>5. IsFiniteSet(1..MaxBufs)
  BY <1>1, FS_Interval, SMTT(30)
<1>6. \A S \in SUBSET (1..MaxBufs) : IsFiniteSet(S)
  BY <1>5, FS_Subset
<1> QED BY <1>2, <1>4, <1>6

LEMMA MallocRequestInv == ASSUME MallocInv, Malloc!mal_malloc PROVE MallocInv'
<1> DEFINE size == Malloc!Entry.size   i == Malloc!FirstFree   c == k.cursor
<1>0. /\ k \in Drivers18 /\ hw \in Firmwares /\ c \in Slots18 /\ NSlots \in Nat \ {0}
      /\ MaxBufs \in Nat /\ MaxBytes \in Nat /\ "none" \notin Addrs
      /\ \A j \in 1..MaxBufs : k.mal[j] \in Buffers
      /\ Malloc!Live = {j \in 1..MaxBufs : k.mal[j] # Malloc!None}
      /\ Malloc!Outstanding \subseteq Slots18 /\ Malloc!Entry \in Requests
  BY MallocParts DEF Malloc!Entry
<1>1. CASE Malloc!Refuse("E2BIG") \/ Malloc!Refuse("ENOMEM")
  BY <1>1, RefuseInv
<1>2. ASSUME ~Malloc!TooMuch(size, i), NEW a \in Addrs \ {k.mal[j].a : j \in Malloc!Ordinals},
             k' = [k EXCEPT !.mal[i] = [a |-> a, size |-> size],
                            !.n = IF i = @ + 1 THEN i ELSE @,
                            !.bytes = @ + size, !.cursor = Malloc!Forward(@)],
             hw' = Malloc!Answer([t |-> "answered", size |-> 0, a |-> a])
      PROVE  MallocInv'
  <2>1. i \in 1..MaxBufs /\ k.mal[i] = Malloc!None /\ i <= k.n + 1 /\ k.bytes + size <= MaxBytes
    <3>1. ~(i > MaxBufs) /\ ~(k.bytes + size > MaxBytes)
      BY <1>2 DEF Malloc!TooMuch
    <3>2. /\ i \in 1..k.n + 1 /\ k.n \in Nat /\ k.bytes \in Nat /\ size \in Nat
          /\ i <= MaxBufs => k.mal[i] = Malloc!None
      BY <1>0, FirstFreeIn, SMTT(30) DEF Drivers18, Requests
    <3> HIDE DEF i, size
    <3> QED BY <1>0, <3>1, <3>2, SMTT(30)
  <2>2. size \in Nat /\ Malloc!Entry.t = "malloc"
    BY <1>0 DEF Requests, Malloc!mal_malloc, Malloc!ane_h18_mal_classify
  <2>3. a \in Addrs /\ a # "none" /\ a \notin Lent
    BY <1>0, <1>2 DEF Lent, Malloc!Ordinals
  <2> DEFINE b == [a |-> a, size |-> size]   e == [t |-> "answered", size |-> 0, a |-> a]
  <2>4. b \in Buffers /\ b # Malloc!None /\ b.a = a /\ b.size = size /\ e \in Requests
        /\ e.t = "answered" /\ e.a = a
    BY <2>2, <2>3 DEF Buffers, Malloc!None, Requests
  <2>5. Malloc!Forward(c) \in Slots18
    BY <1>0, ForwardIn
  <2>6. /\ k' \in Drivers18 /\ k'.bytes = k.bytes + size
        /\ k'.n = IF i = k.n + 1 THEN i ELSE k.n
        /\ k'.mal[i] = b /\ \A j \in 1..MaxBufs : j # i => k'.mal[j] = k.mal[j]
    <3> HIDE DEF b, i, size, c
    <3>1. [k.mal EXCEPT ![i] = b] \in [1..MaxBufs -> Buffers]
      BY <1>0, <2>1, <2>4 DEF Drivers18
    <3>2. (IF i = k.n + 1 THEN i ELSE k.n) \in 0..MaxBufs /\ k.bytes + size \in Nat
      BY <1>0, <2>1, <2>2, SMTT(30) DEF Drivers18
    <3>3. k' = [k EXCEPT !.mal = [k.mal EXCEPT ![i] = b], !.n = IF i = k.n + 1 THEN i ELSE k.n,
                         !.bytes = k.bytes + size, !.cursor = Malloc!Forward(c)]
      BY <1>0, <1>2 DEF Drivers18, b, c
    <3> QED BY <1>0, <2>1, <2>5, <3>1, <3>2, <3>3 DEF Drivers18
  <2>7. /\ hw' \in Firmwares /\ hw'.owns = hw.owns /\ RingInv'
        /\ c \in Malloc!Outstanding /\ Malloc!Outstanding' = Malloc!Outstanding
        /\ hw'.ring[c] = e /\ \A s \in Slots18 \ {c} : hw'.ring[s] = hw.ring[s]
    BY <1>2, <2>2, <2>4, Answered
  <2> HIDE DEF b, e, i, size, c
  <2>8. i \notin Malloc!Live /\ Malloc!Live' = Malloc!Live \cup {i}
    BY <1>0, <2>1, <2>4, <2>6 DEF Malloc!Live, Malloc!None
  <2>9. \A j \in Malloc!Live : k'.mal[j] = k.mal[j]
    BY <1>0, <2>6, <2>8
  <2>10. Lent' = Lent \cup {a}
    BY <2>4, <2>6, <2>8, <2>9, SMTT(30) DEF Lent
  <2>11. c \notin OnTheWay /\ OnTheWay' = OnTheWay \cup {c}
    BY <1>0, <2>2, <2>4, <2>7, SMTT(30) DEF OnTheWay, Returned, Malloc!Entry, c
  <2>12. \A s \in OnTheWay : hw'.ring[s] = hw.ring[s]
    BY <1>0, <2>7, <2>11 DEF OnTheWay
  <2>13. LentInv'
    <3>1. hw'.owns \subseteq Lent'
      BY <2>7, <2>10 DEF MallocInv, LentInv
    <3>2. \A s \in OnTheWay' : hw'.ring[s].a \in Lent' \ hw'.owns
      BY <2>3, <2>4, <2>7, <2>10, <2>11, <2>12 DEF MallocInv, LentInv
    <3>3. \A r, s \in OnTheWay' : r # s => hw'.ring[r].a # hw'.ring[s].a
      BY <2>3, <2>4, <2>7, <2>11, <2>12, SMTT(30) DEF MallocInv, LentInv
    <3>4. \A j \in Malloc!Live : k'.mal[j].a # a
      BY <2>3, <2>9 DEF Lent
    <3>5. \A j, l \in Malloc!Live' : j # l => k'.mal[j].a # k'.mal[l].a
      BY <2>4, <2>6, <2>8, <2>9, <3>4, SMTT(30) DEF MallocInv, LentInv
    <3> QED BY <3>1, <3>2, <3>3, <3>5 DEF LentInv
  <2>14. BytesInv'
    <3> DEFINE f == Size18(k'.mal)
    <3>1. f[i] = size /\ \A j \in Malloc!Live : f[j] = k.mal[j].size
      BY <1>0, <2>1, <2>4, <2>6, <2>9 DEF Size18
    <3>2. Malloc!Live \subseteq 1..MaxBufs /\ IsFiniteSet(Malloc!Live)
      BY <1>0, LiveUnits
    <3>3. \A j \in Malloc!Live \cup {i} : f[j] \in Nat
      BY <2>2, <3>1, <3>2, LiveUnits
    <3>4. Units(f, Malloc!Live) = Units(Size18(k.mal), Malloc!Live)
      BY <3>1, <3>2, LiveUnits, SMTT(30) DEF Units
    <3>5. Malloc!Backed(Malloc!Live)' = Units(f, Malloc!Live \cup {i})
      BY <2>1, <2>8, <3>2 DEF Malloc!Backed, Units, Size18
    <3> HIDE DEF f
    <3>6. Cardinality(Units(f, Malloc!Live \cup {i})) = Cardinality(Units(f, Malloc!Live)) + size
      BY <2>8, <3>1, <3>2, <3>3, UnitsAdd
    <3>7. k'.bytes = Cardinality(Malloc!Backed(Malloc!Live)')
      BY <2>6, <3>4, <3>5, <3>6, LiveUnits
    <3>8. \A j \in 1..MaxBufs : j > k'.n => k'.mal[j] = Malloc!None
      <4>1. k.n \in Nat /\ i \in Nat /\ k'.n \in Nat
        BY <1>0, <2>1, <2>6, SMTT(30) DEF Drivers18
      <4>2. i <= k'.n /\ k.n <= k'.n
        BY <2>1, <2>6, <4>1, SMTT(30)
      <4>3. \A j \in 1..MaxBufs : j > k.n => k.mal[j] = Malloc!None
        BY DEF MallocInv, BytesInv
      <4>4. \A j \in 1..MaxBufs : j > k'.n => j # i /\ j > k.n
        BY <4>1, <4>2, SMTT(30)
      <4> QED BY <2>6, <4>3, <4>4
    <3> QED BY <2>1, <2>6, <3>7, <3>8 DEF BytesInv, Malloc!None
  <2> QED BY <2>6, <2>7, <2>13, <2>14, MallocKept
<1>3. \/ Malloc!Refuse("E2BIG") \/ Malloc!Refuse("ENOMEM")
      \/ /\ ~Malloc!TooMuch(size, i)
         /\ \E a \in Addrs \ {k.mal[j].a : j \in Malloc!Ordinals} :
              /\ k' = [k EXCEPT !.mal[i] = [a |-> a, size |-> size],
                            !.n = IF i = @ + 1 THEN i ELSE @,
                            !.bytes = @ + size, !.cursor = Malloc!Forward(@)]
              /\ hw' = Malloc!Answer([t |-> "answered", size |-> 0, a |-> a])
  BY DEF Malloc!mal_malloc
<1> HIDE DEF i, size
<1> QED BY <1>1, <1>2, <1>3

LEMMA FreeRequestInv == ASSUME MallocInv, Malloc!mal_free PROVE MallocInv'
<1> DEFINE a == Malloc!Entry.a   c == k.cursor   e == [t |-> "freed", size |-> 0, a |-> "none"]
<1>0. /\ k \in Drivers18 /\ hw \in Firmwares /\ c \in Slots18 /\ NSlots \in Nat \ {0}
      /\ MaxBufs \in Nat /\ MaxBytes \in Nat
      /\ \A j \in 1..MaxBufs : k.mal[j] \in Buffers
      /\ Malloc!Live = {j \in 1..MaxBufs : k.mal[j] # Malloc!None}
      /\ Malloc!Outstanding \subseteq Slots18 /\ Malloc!Entry \in Requests
  BY MallocParts DEF Malloc!Entry
<1>1. Malloc!Entry.t = "free" /\ Malloc!Entry.size = 0
  BY <1>0 DEF Requests, Malloc!mal_free, Malloc!ane_h18_mal_classify
<1>2. e \in Requests /\ e.t = "freed"
  BY DEF Requests
<1>3. /\ hw' \in Firmwares /\ hw'.owns = hw.owns /\ RingInv'
      /\ c \in Malloc!Outstanding /\ Malloc!Outstanding' = Malloc!Outstanding
      /\ hw'.ring[c] = e /\ \A s \in Slots18 \ {c} : hw'.ring[s] = hw.ring[s]
  BY <1>1, <1>2, Answered DEF Malloc!mal_free
<1> HIDE DEF e
<1>4. c \in OnTheWay /\ OnTheWay' = OnTheWay \ {c}
  BY <1>0, <1>1, <1>2, <1>3, SMTT(30) DEF OnTheWay, Returned, Malloc!Entry
<1>5. /\ a \in Lent \ hw.owns
      /\ \A s \in OnTheWay \ {c} : hw.ring[s].a # a
  BY <1>4 DEF MallocInv, LentInv, Malloc!Entry
<1>6. PICK i \in Malloc!Live : k.mal[i].a = a
  BY <1>5 DEF Lent
<1>7. \A j \in Malloc!Live : k.mal[j].a = a <=> j = i
  BY <1>6 DEF MallocInv, LentInv
<1>8. Malloc!Freed(a) = k.bytes - k.mal[i].size
  <2>1. (CHOOSE j \in Malloc!Live : k.mal[j].a = a) = i
    BY <1>6, <1>7
  <2> HIDE DEF a
  <2> QED BY <1>6, <2>1 DEF Malloc!Freed
<1> HIDE DEF a
<1>9. i \in 1..MaxBufs /\ Malloc!Live \subseteq 1..MaxBufs /\ k.mal[i].size \in Nat
  BY <1>0, <1>6, LiveUnits
<1>10. Malloc!Forward(c) \in Slots18
  BY <1>0, ForwardIn
<1> DEFINE m == [j \in 1..MaxBufs |-> IF j = i THEN Malloc!None ELSE k.mal[j]]
<1>11. m \in [1..MaxBufs -> Buffers]
  BY <1>0 DEF Buffers
<1>12. k' = [k EXCEPT !.bytes = k.bytes - k.mal[i].size, !.cursor = Malloc!Forward(c), !.mal = m]
  <2>1. \A j \in 1..MaxBufs : (j \in Malloc!Live /\ k.mal[j].a = a) <=> j = i
    BY <1>6, <1>7
  <2>2. [j \in Malloc!Ordinals |-> IF j \in Malloc!Live /\ k.mal[j].a = a
                                  THEN Malloc!None ELSE k.mal[j]] = m
    BY <2>1 DEF Malloc!Ordinals
  <2> QED BY <1>8, <2>2 DEF Malloc!mal_free, a
<1> DEFINE S == Malloc!Live \ {i}   f == Size18(k.mal)
<1>13. /\ S \cup {i} = Malloc!Live /\ i \notin S /\ IsFiniteSet(S)
       /\ f[i] = k.mal[i].size /\ \A j \in Malloc!Live : f[j] \in Nat
  BY <1>6, <1>9, LiveUnits
<1>14. /\ Cardinality(Units(f, S)) \in Nat
       /\ Cardinality(Units(f, Malloc!Live)) = Cardinality(Units(f, S)) + k.mal[i].size
  <2> HIDE DEF f, S
  <2>1. \A j \in S \cup {i} : f[j] \in Nat
    BY <1>13
  <2>2. Cardinality(Units(f, S \cup {i})) = Cardinality(Units(f, S)) + f[i]
    BY <1>13, <2>1, UnitsAdd
  <2> QED BY <1>13, <2>1, <2>2, UnitsFinite
<1>15. k.bytes - k.mal[i].size = Cardinality(Units(f, S)) /\ k.bytes \in Nat
  BY <1>0, <1>9, <1>14, LiveUnits, SMTT(30) DEF Drivers18
<1>16. /\ k' \in Drivers18 /\ k'.bytes = k.bytes - k.mal[i].size /\ k'.n = k.n /\ k'.mal = m
  <2> HIDE DEF m, f, S
  <2> QED BY <1>0, <1>10, <1>11, <1>12, <1>14, <1>15 DEF Drivers18
<1>17. Malloc!Live' = S /\ \A j \in S : k'.mal[j] = k.mal[j]
  BY <1>0, <1>9, <1>16 DEF Malloc!Live, Malloc!None
<1>18. Lent' = Lent \ {a}
  <2>1. \A j \in S : k.mal[j].a # a
    BY <1>7
  <2> HIDE DEF m, f
  <2> QED BY <1>6, <1>17, <2>1 DEF Lent
<1>19. LentInv'
  <2>1. \A s \in OnTheWay \ {c} : hw'.ring[s] = hw.ring[s]
    BY <1>0, <1>3 DEF OnTheWay
  <2>2. hw'.owns \subseteq Lent'
    BY <1>3, <1>5, <1>18 DEF MallocInv, LentInv
  <2>3. \A s \in OnTheWay' : hw'.ring[s].a \in Lent' \ hw'.owns
    BY <1>3, <1>4, <1>5, <1>18, <2>1 DEF MallocInv, LentInv
  <2>4. \A r, s \in OnTheWay' : r # s => hw'.ring[r].a # hw'.ring[s].a
    BY <1>4, <2>1, SMTT(30) DEF MallocInv, LentInv
  <2>5. \A j, l \in Malloc!Live' : j # l => k'.mal[j].a # k'.mal[l].a
    BY <1>17, SMTT(30) DEF MallocInv, LentInv
  <2> QED BY <2>2, <2>3, <2>4, <2>5 DEF LentInv
<1>20. BytesInv'
  <2>1. Malloc!Backed(Malloc!Live)' = Units(f, S)
    <3>1. \A j \in S : f[j] = k'.mal[j].size
      BY <1>9, <1>17 DEF Size18
    <3> HIDE DEF f, S
    <3> QED BY <1>17, <3>1, SMTT(30) DEF Malloc!Backed, Units
  <2>2. k'.bytes = Cardinality(Malloc!Backed(Malloc!Live)') /\ k'.bytes <= MaxBytes
    <3>1. k'.bytes = Cardinality(Malloc!Backed(Malloc!Live)')
      BY ONLY <1>15, <1>16, <2>1, ZenonT(40)
    <3>2. k.bytes <= MaxBytes
      BY DEF MallocInv, BytesInv
    <3>3. k'.bytes <= MaxBytes
      BY ONLY <1>0, <1>9, <1>15, <1>16, <3>2, SMTT(30)
    <3> QED BY <3>1, <3>3
  <2>3. \A j \in 1..MaxBufs : j > k'.n => k'.mal[j] = Malloc!None
    BY <1>16 DEF MallocInv, BytesInv
  <2> QED BY <2>2, <2>3 DEF BytesInv, Malloc!None
<1> QED BY <1>3, <1>16, <1>19, <1>20, MallocKept

(* A request posted in the slot past the window, whose address, if it has  *)
(* one, the firmware owned.                                                *)
LEMMA PostInv ==
    ASSUME MallocInv, NEW e \in Requests, Malloc!fw_post(e), UNCHANGED k,
           e.t \in {"malloc", "free"}, Returned(e) => e.a \in hw.owns
    PROVE  MallocInv'
<1> DEFINE p == hw.post
<1>0. /\ k \in Drivers18 /\ hw \in Firmwares /\ NSlots \in Nat \ {0}
      /\ hw.take \in Slots18 /\ hw.busy \in 0..NSlots
      /\ Malloc!Outstanding = Window(hw.take, hw.busy) /\ Malloc!Outstanding \subseteq Slots18
  BY MallocParts
<1>1. hw.busy < NSlots /\ p = (hw.take + hw.busy) % NSlots
  BY DEF Malloc!fw_post, MallocInv, RingInv
<1>2. /\ p \in Slots18 \ Malloc!Outstanding
      /\ Window(hw.take, hw.busy + 1) = Malloc!Outstanding \cup {p}
      /\ Malloc!Forward(p) = (hw.take + (hw.busy + 1)) % NSlots
  BY <1>0, <1>1, WindowGrows, SMTT(30)
<1>3. Malloc!Forward(p) \in Slots18
  BY <1>0, <1>2, ForwardIn
<1>4. /\ hw' \in Firmwares /\ hw'.take = hw.take /\ hw'.busy = hw.busy + 1
      /\ hw'.post = Malloc!Forward(p) /\ hw'.owns = hw.owns \ {e.a}
      /\ hw'.ring[p] = e /\ \A s \in Slots18 \ {p} : hw'.ring[s] = hw.ring[s]
  <2>1. [hw.ring EXCEPT ![p] = e] \in [Slots18 -> Requests]
    BY <1>0 DEF Firmwares
  <2>2. hw' = [hw EXCEPT !.ring = [hw.ring EXCEPT ![p] = e], !.post = Malloc!Forward(p),
                         !.busy = hw.busy + 1, !.owns = hw.owns \ {e.a}]
    BY <1>0 DEF Malloc!fw_post, Firmwares
  <2>3. hw.busy + 1 \in 0..NSlots /\ hw.owns \ {e.a} \in SUBSET Addrs
    BY <1>0, <1>1, SMTT(30) DEF Firmwares
  <2> QED BY <1>0, <1>2, <1>3, <2>1, <2>2, <2>3 DEF Firmwares
<1> HIDE DEF p
<1>5. Malloc!Outstanding' = Malloc!Outstanding \cup {p}
  BY <1>2, <1>4 DEF Malloc!Outstanding, Window
<1>6. RingInv'
  <2>1. hw'.post = (hw'.take + hw'.busy) % NSlots
    BY <1>2, <1>4
  <2>2. \A s \in Slots18 : s \in Malloc!Outstanding' \/ hw'.ring[s].t \in {"idle", "answered", "freed"}
    BY <1>4, <1>5 DEF MallocInv, RingInv
  <2> QED BY <2>1, <2>2 DEF RingInv, Slots18
<1>7. p \notin OnTheWay /\ OnTheWay' = IF Returned(e) THEN OnTheWay \cup {p} ELSE OnTheWay
  BY <1>0, <1>2, <1>4, <1>5, SMTT(30) DEF OnTheWay, Returned
<1>8. \A s \in OnTheWay : hw'.ring[s] = hw.ring[s]
  BY <1>0, <1>2, <1>4, <1>7 DEF OnTheWay
<1>9. /\ Malloc!Live' = Malloc!Live /\ Lent' = Lent /\ BytesInv'
      /\ \A i, j \in Malloc!Live' : i # j => k'.mal[i].a # k'.mal[j].a
  BY <1>0, BuffersKept
<1>10. LentInv'
  <2>1. hw'.owns \subseteq Lent'
    BY <1>4, <1>9 DEF MallocInv, LentInv
  <2>2. \A s \in OnTheWay : hw'.ring[s].a \in Lent' \ hw'.owns
    BY <1>4, <1>8, <1>9 DEF MallocInv, LentInv
  <2>3. Returned(e) => hw'.ring[p].a \in Lent' \ hw'.owns
    BY <1>4, <1>9 DEF MallocInv, LentInv
  <2>4. \A s \in OnTheWay' : hw'.ring[s].a \in Lent' \ hw'.owns
    BY <1>7, <2>2, <2>3
  <2>5. Returned(e) => \A s \in OnTheWay : hw'.ring[s].a # hw'.ring[p].a
    BY <1>4, <1>8 DEF MallocInv, LentInv
  <2>6. \A r, s \in OnTheWay : r # s => hw'.ring[r].a # hw'.ring[s].a
    BY <1>8 DEF MallocInv, LentInv
  <2>7. \A r, s \in OnTheWay' : r # s => hw'.ring[r].a # hw'.ring[s].a
    BY <1>7, <2>5, <2>6
  <2> QED BY <1>9, <2>1, <2>4, <2>7 DEF LentInv
<1> QED BY <1>0, <1>4, <1>6, <1>9, <1>10, MallocKept

LEMMA TakeInv == ASSUME MallocInv, Malloc!fw_take PROVE MallocInv'
<1> DEFINE t == hw.take   won == IF hw.ring[t].t = "answered" THEN {hw.ring[t].a} ELSE {}
<1>0. /\ k \in Drivers18 /\ hw \in Firmwares /\ NSlots \in Nat \ {0} /\ "none" \notin Addrs
      /\ t \in Slots18 /\ hw.busy \in 1..NSlots /\ hw.ring[t] \in Requests
      /\ Malloc!Outstanding = Window(t, hw.busy) /\ Malloc!Outstanding \subseteq Slots18
  BY MallocParts, SMTT(30) DEF Malloc!fw_take
<1>1. /\ t \in Malloc!Outstanding /\ Malloc!Forward(t) \in Slots18
      /\ Window(Malloc!Forward(t), hw.busy - 1) = Malloc!Outstanding \ {t}
      /\ (Malloc!Forward(t) + (hw.busy - 1)) % NSlots = (t + hw.busy) % NSlots
  BY <1>0, WindowShrinks
<1>2. /\ hw.ring[t].t = "answered" => t \in OnTheWay
      /\ OnTheWay \ {t} = {s \in Malloc!Outstanding \ {t} :
                             hw.ring[s].t = "answered" \/ Returned(hw.ring[s])}
  BY <1>1 DEF OnTheWay
<1>3. \A i \in Malloc!Live : k.mal[i].a \in Addrs
  BY MallocParts DEF Buffers
<1>4. won \subseteq Lent /\ won \subseteq Addrs
  BY <1>2, <1>3, SMTT(30) DEF MallocInv, LentInv, Lent
<1>5. /\ hw' \in Firmwares /\ hw'.take = Malloc!Forward(t) /\ hw'.busy = hw.busy - 1
      /\ hw'.post = hw.post /\ hw'.ring = hw.ring /\ hw'.owns = hw.owns \cup won
  <2>1. hw' = [hw EXCEPT !.take = Malloc!Forward(t), !.busy = hw.busy - 1, !.owns = hw.owns \cup won]
    BY <1>0 DEF Malloc!fw_take, Firmwares
  <2>2. hw.busy - 1 \in 0..NSlots /\ hw.owns \cup won \in SUBSET Addrs
    BY <1>0, <1>4, SMTT(30) DEF Firmwares
  <2> HIDE DEF won, t
  <2> QED BY <1>0, <1>1, <2>1, <2>2 DEF Firmwares
<1>6. k' = k /\ hw.ring[t].t \in {"answered", "freed"}
  BY DEF Malloc!fw_take
<1> HIDE DEF t
<1>7. Malloc!Outstanding' = Malloc!Outstanding \ {t}
  BY <1>1, <1>5 DEF Malloc!Outstanding, Window
<1>8. OnTheWay' = OnTheWay \ {t}
  BY <1>2, <1>5, <1>7 DEF OnTheWay, Returned
<1>9. RingInv'
  <2>1. hw'.post = (hw'.take + hw'.busy) % NSlots
    BY <1>1, <1>5 DEF MallocInv, RingInv, t
  <2>2. \A s \in Slots18 : s \in Malloc!Outstanding' \/ hw'.ring[s].t \in {"idle", "answered", "freed"}
    BY <1>5, <1>6, <1>7 DEF MallocInv, RingInv
  <2> QED BY <2>1, <2>2 DEF RingInv, Slots18
<1>10. /\ Malloc!Live' = Malloc!Live /\ Lent' = Lent /\ BytesInv'
       /\ \A i, j \in Malloc!Live' : i # j => k'.mal[i].a # k'.mal[j].a
  BY <1>0, <1>6, BuffersKept
<1>11. LentInv'
  <2>1. hw'.owns \subseteq Lent'
    BY <1>4, <1>5, <1>10 DEF MallocInv, LentInv
  <2>2. \A s \in OnTheWay \ {t} : hw.ring[s].a \notin won
    BY <1>2 DEF MallocInv, LentInv
  <2>3. \A s \in OnTheWay' : hw'.ring[s].a \in Lent' \ hw'.owns
    BY <1>5, <1>8, <1>10, <2>2 DEF MallocInv, LentInv
  <2>4. \A r, s \in OnTheWay' : r # s => hw'.ring[r].a # hw'.ring[s].a
    BY <1>5, <1>8, SMTT(30) DEF MallocInv, LentInv
  <2> QED BY <1>10, <2>1, <2>3, <2>4 DEF LentInv
<1> QED BY <1>0, <1>5, <1>6, <1>9, <1>10, <1>11, MallocKept

LEMMA MallocStart == ASSUME Malloc!MallocAssumption, Malloc!Init PROVE MallocInv
<1>1. /\ NSlots \in Nat \ {0} /\ MaxBufs \in Nat /\ MaxBytes \in Nat
  BY DEF Malloc!MallocAssumption
<1>2. /\ k.cursor = 0 /\ k.err = "none" /\ k.n = 0 /\ k.bytes = 0
      /\ k.mal = [i \in 1..MaxBufs |-> Malloc!None]
      /\ hw.post = 0 /\ hw.take = 0 /\ hw.busy = 0 /\ hw.owns = {}
      /\ hw.ring = [s \in Slots18 |-> [t |-> "idle", size |-> 0, a |-> "none"]]
  BY DEF Malloc!Init, Malloc!Ordinals, Slots18
<1>3. k \in Drivers18
  BY <1>1, SMTT(30) DEF Malloc!Init, Malloc!Ordinals, Drivers18, Slots18, Buffers
<1>4. hw \in Firmwares
  BY <1>1, SMTT(30) DEF Malloc!Init, Firmwares, Slots18, Requests
<1>5. Malloc!Live = {} /\ Malloc!Outstanding = {}
  BY <1>1, <1>2, SMTT(30) DEF Malloc!Live, Malloc!Outstanding
<1>6. RingInv
  BY <1>1, <1>2, SMTT(30) DEF RingInv
<1>7. LentInv
  BY <1>2, <1>5 DEF LentInv, Lent, OnTheWay
<1>8. BytesInv
  <2>1. Malloc!Backed(Malloc!Live) = {}
    BY <1>5 DEF Malloc!Backed
  <2> QED BY <1>1, <1>2, <2>1, FS_EmptySet, SMTT(30) DEF BytesInv
<1> QED BY <1>3, <1>4, <1>6, <1>7, <1>8 DEF MallocInv

LEMMA MallocStep == ASSUME MallocInv, [Malloc!Next]_Malloc!vars PROVE MallocInv'
<1>1. CASE Malloc!mal_malloc
  BY <1>1, MallocRequestInv
<1>2. CASE Malloc!mal_free
  BY <1>2, FreeRequestInv
<1>3. CASE Malloc!mal_bad
  BY <1>3, RefuseInv DEF Malloc!mal_bad
<1>4. CASE Malloc!fw_malloc
  <2>1. PICK s \in Sizes : Malloc!fw_post([t |-> "malloc", size |-> s, a |-> "none"]) /\ UNCHANGED k
    BY <1>4 DEF Malloc!fw_malloc
  <2> DEFINE e == [t |-> "malloc", size |-> s, a |-> "none"]
  <2>2. e \in Requests /\ e.t = "malloc" /\ ~Returned(e)
    BY DEF MallocInv, Malloc!MallocAssumption, Requests, Returned
  <2>3. Malloc!fw_post(e)
    BY <2>1
  <2> HIDE DEF e
  <2> QED BY <2>1, <2>2, <2>3, PostInv
<1>5. CASE Malloc!fw_free
  <2>1. PICK a \in hw.owns : Malloc!fw_post([t |-> "free", size |-> 0, a |-> a]) /\ UNCHANGED k
    BY <1>5 DEF Malloc!fw_free
  <2> DEFINE e == [t |-> "free", size |-> 0, a |-> a]
  <2>2. e \in Requests /\ e.t = "free" /\ e.a \in hw.owns
    BY DEF MallocInv, Firmwares, Requests
  <2>3. Malloc!fw_post(e)
    BY <2>1
  <2> HIDE DEF e
  <2> QED BY <2>1, <2>2, <2>3, PostInv
<1>6. CASE Malloc!fw_garbage
  <2> DEFINE e == [t |-> "free", size |-> 1, a |-> "none"]
  <2>1. e \in Requests /\ e.t = "free" /\ ~Returned(e)
    BY SMTT(30) DEF Requests, Returned
  <2>2. Malloc!fw_post(e) /\ UNCHANGED k
    BY <1>6 DEF Malloc!fw_garbage
  <2> HIDE DEF e
  <2> QED BY <2>1, <2>2, PostInv
<1>7. CASE Malloc!fw_take
  BY <1>7, TakeInv
<1>8. CASE UNCHANGED Malloc!vars
  <2>1. k' = k /\ hw' = hw
    BY <1>8 DEF Malloc!vars
  <2>2. Malloc!Live' = Malloc!Live /\ Malloc!Outstanding' = Malloc!Outstanding
    BY <2>1 DEF Malloc!Live, Malloc!Outstanding, Malloc!None
  <2>3. Lent' = Lent /\ OnTheWay' = OnTheWay
    BY <2>1, <2>2 DEF Lent, OnTheWay, Returned
  <2>4. RingInv'
    BY <2>1, <2>2 DEF MallocInv, RingInv, Slots18
  <2>5. LentInv'
    BY <2>1, <2>2, <2>3 DEF MallocInv, LentInv
  <2>6. BytesInv'
    BY <2>1, MallocParts, BuffersKept
  <2> QED BY <2>1, <2>4, <2>5, <2>6, MallocParts, MallocKept
<1> QED BY <1>1, <1>2, <1>3, <1>4, <1>5, <1>6, <1>7, <1>8
        DEF Malloc!Next, Malloc!ane_h18_mal_service

LEMMA MallocInvariance == Malloc!MallocAssumption /\ Malloc!Spec => []MallocInv
<1>1. Malloc!MallocAssumption /\ Malloc!Init => MallocInv
  BY MallocStart
<1>2. MallocInv /\ [Malloc!Next]_Malloc!vars => MallocInv'
  BY MallocStep
<1> QED BY <1>1, <1>2, PTL DEF Malloc!Spec

(* The firmware's memory is kept: whatever MALLOC and FREE requests the     *)
(* firmware posts, in whatever order it takes the answers of                *)
(* ane_h18_mal_service(), every address it owns or is being handed is of    *)
(* exactly one live buffer of the driver, none is handed out twice, and the *)
(* byte count the limits are enforced on is what the live buffers add up    *)
(* to, for a ring of any length and any limits.                             *)
THEOREM FirmwareMemoryKept == Malloc!MallocAssumption /\ Malloc!Spec => []Malloc!PoolKept
<1>1. MallocInv => Malloc!PoolKept
  <2> SUFFICES ASSUME MallocInv PROVE Malloc!PoolKept
    OBVIOUS
  <2>1. \A a \in Malloc!InAnswer : a \in Lent \ hw.owns
    BY DEF MallocInv, LentInv, Malloc!InAnswer, OnTheWay
  <2>2. hw.owns \cup Malloc!InAnswer \subseteq {k.mal[i].a : i \in Malloc!Live}
    BY <2>1 DEF MallocInv, LentInv, Lent
  <2>3. hw.owns \cap Malloc!InAnswer = {}
    BY <2>1
  <2>4. \A i, j \in Malloc!Live : i # j => k.mal[i].a # k.mal[j].a
    BY DEF MallocInv, LentInv
  <2>5. k.bytes = Malloc!Cardinality(Malloc!Backed(Malloc!Live)) /\ k.bytes <= MaxBytes
    BY MallocCardinality DEF MallocInv, BytesInv
  <2>6. k.n <= MaxBufs
    BY MallocParts, SMTT(30) DEF Drivers18
  <2> QED BY <2>2, <2>3, <2>4, <2>5, <2>6 DEF Malloc!PoolKept
<1> QED BY <1>1, MallocInvariance, PTL
=============================================================================
