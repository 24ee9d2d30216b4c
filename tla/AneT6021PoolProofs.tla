------------------------- MODULE AneT6021PoolProofs -------------------------
(***************************************************************************)
(* The inductive invariant of AneT6021, IInv, and the proofs that the      *)
(* steps on buffer objects and on the pool preserve it: allocation,        *)
(* mapping, release, parking, eviction.  They hold for every set of        *)
(* threads, files, buffer objects and program ids, with mappings.          *)
(***************************************************************************)
EXTENDS AneT6021, TLAPS

(* The states of a thread: those of ane_t6021_bo_release, and those of the *)
(* calls that run under fw_lock. *)
ReleasePcs == {"release", "room", "recheck", "add", "free"}

UnloadPcs == {"terminate", "destroy", "give"}

Pcs == ReleasePcs \cup UnloadPcs \cup
       {"idle", "drain", "take", "alloc", "dma", "uncharge", "refuse", "retry", "publish",
        "unlock", "load", "exec", "wait", "close", "drop"}

Locals == [pc : Pcs, ret : {"idle", "unlock", "give", "drop"}, file : Files \cup {None},
           todo : SUBSET Bos, done : SUBSET Bos, cur : Bos \cup {None},
           victim : Bos \cup {None}, prog : Digests \cup Ids \cup {None}]

Objects == [owner : Files \cup {None}, kref : Nat, maps : Nat, prog_refs : Nat,
            fw_ref : BOOLEAN, fw_program : BOOLEAN, fw_io : BOOLEAN, pooled_sec : BOOLEAN]

Programs == [state : {"FREE", "LIVE", "HELD"}, digest : Digests \cup {None},
             proc : BOOLEAN, users : Nat, sec : SUBSET Bos]

ThType == th \in [Threads -> Locals]

BoType ==
    /\ bo \in [Bos -> Objects] /\ listed \subseteq Bos
    /\ mem \in [Bos -> {"none", "live", "parked", "held"}] /\ pool \in Seq(Bos)

ProgType ==
    /\ progs \in [Ids -> Programs] /\ holds \in [Files -> SUBSET Ids] /\ open \subseteq Files
    /\ quarantined \in BOOLEAN
    /\ fw \in [progs : [Ids -> SUBSET Bos], procs : SUBSET Ids,
               io : SUBSET Bos, lost : SUBSET Bos]

(* A thread returns to its caller's state exactly from a release, which is *)
(* on an object; it evicts only where it makes room.                       *)
Releasing(t) == th[t].ret # "idle"

Giving(t) == At(t, "give") \/ th[t].ret = "give"

Unloading(t) == th[t].pc \in UnloadPcs \/ Giving(t)

Control(t) ==
    /\ Releasing(t) <=> th[t].pc \in ReleasePcs \/ (At(t, "drain") /\ th[t].cur # None)
    /\ th[t].cur # None <=> Releasing(t) \/ At(t, "publish")
    /\ th[t].victim # None => th[t].pc \in {"room", "drain", "alloc"}

(* The calls under fw_lock.  A load or an unload is on a device that is    *)
(* not quarantined, as only the holder of the lock quarantines it.         *)
Locked(t) == th[t].pc \in {"load", "exec", "wait", "close"} \/ Unloading(t)

LockInv(t) ==
    /\ Locked(t) => fw_lock = t
    /\ At(t, "load") => /\ ~quarantined /\ Find(th[t].prog) = {} /\ th[t].file \in Files
                        /\ th[t].prog \in Digests /\ th[t].todo \cup th[t].done # {}
    /\ At(t, "close") => th[t].file \in Files
    /\ Unloading(t) =>
          /\ ~quarantined /\ th[t].file \in Files /\ th[t].prog \in Ids
          /\ Live(th[t].prog) /\ progs[th[t].prog].users = 0
    /\ At(t, "destroy") \/ Giving(t) => th[t].prog \notin fw.procs
    /\ Giving(t) => fw.progs[th[t].prog] = {}

(* The places of an object.  A parked one is in the pool once, or a thread *)
(* is about to free it; one without references that is not parked is in    *)
(* the hands of one thread.                                                *)
InPool == {pool[k] : k \in 1 .. Len(pool)}

QuietPcs == {"drain", "room", "recheck", "add", "free"}

Object(b) ==
    /\ bo[b].kref = b01(b \in listed) + bo[b].maps + bo[b].prog_refs
    /\ bo[b].kref > 0 => mem[b] = "live"
    /\ mem[b] = "none" => bo[b] = Fresh
    /\ bo[b].fw_io => bo[b].fw_ref
    /\ bo[b].pooled_sec => b \in InPool /\ ~bo[b].fw_ref
    /\ b \in InPool => mem[b] = "parked"
    /\ mem[b] = "live" /\ bo[b].kref = 0 => \E t \in Threads : th[t].cur = b
    /\ mem[b] = "parked" /\ b \notin InPool => \E t \in Threads : th[t].victim = b

InHand(t) ==
    /\ th[t].cur # None =>
          /\ mem[th[t].cur] = "live" /\ bo[th[t].cur].kref = 0
          /\ th[t].pc \in QuietPcs => ~bo[th[t].cur].fw_ref
    /\ th[t].victim # None =>
          /\ mem[th[t].victim] = "parked" /\ th[t].victim \notin InPool
          /\ ~bo[th[t].victim].fw_ref

Alone ==
    /\ \A t, u \in Threads : th[t].cur # None /\ th[t].cur = th[u].cur => t = u
    /\ \A t, u \in Threads : th[t].victim # None /\ th[t].victim = th[u].victim => t = u
    /\ \A j, k \in 1 .. Len(pool) : pool[j] = pool[k] => j = k

(* The firmware's claims on an object.  Each program it may still have,    *)
(* and the load or unload under way, has a reference of its own.           *)
Working(t, b) == (At(t, "load") /\ b \in th[t].done) \/ (Giving(t) /\ b \in th[t].todo)

Loaded(b) == {i \in Ids : b \in fw.progs[i]}

Claims(b) == Cardinality(Loaded(b)) + b01(fw_lock # None /\ Working(fw_lock, b))
                + b01(b \in fw.lost)

ClaimInv ==
    /\ \A b \in Bos : Claims(b) <= bo[b].prog_refs
    /\ \A t \in Threads : th[t].pc \in {"exec", "wait"} =>
          \A b \in th[t].done : bo[b].fw_io
    /\ \A b \in fw.io : bo[b].fw_io

(* The table: who holds an entry, and what the firmware has of it. *)
Users(i) == {f \in Files : i \in holds[f]}

Table ==
    /\ Shared
    /\ \A i \in Ids : progs[i].state = "FREE" => progs[i] = NoProg
    /\ ~quarantined => \A i \in Ids :
          /\ progs[i].state # "HELD"
          /\ i \in fw.procs => progs[i].proc
          /\ ~Live(i) => fw.progs[i] = {}
          /\ Live(i) => \/ fw.progs[i] = progs[i].sec /\ fw.progs[i] # {}
                        \/ \E t \in Threads : Giving(t) /\ th[t].prog = i

ThInv == ThType /\ \A t \in Threads : Control(t)

ObjInv ==
    /\ BoType /\ Alone
    /\ \A b \in Bos : Object(b)
    /\ \A t \in Threads : InHand(t)

FwInv ==
    /\ fw_lock \in Threads \cup {None} /\ ProgType
    /\ \A t \in Threads : LockInv(t)
    /\ ClaimInv /\ Table

IInv == ThInv /\ ObjInv /\ FwInv

USE AneT6021Assumption, ZenonT(30)

-----------------------------------------------------------------------------
(* A step of thread t leaves the other threads' locals alone. *)
Moved(t, r) == /\ th' \in [Threads -> Locals] /\ th'[t] = r
               /\ \A u \in Threads \ {t} : th'[u] = th[u]

LEMMA Rests == Rest \in Locals
BY DEF Rest, Locals, Pcs

LEMMA Move ==
  ASSUME ThType, NEW t \in Threads, NEW r \in Locals, th' = [th EXCEPT ![t] = r]
  PROVE  Moved(t, r)
BY DEF ThType, Moved

LEMMA MoveGoto ==
  ASSUME ThType, NEW t \in Threads, NEW pc \in Pcs, Goto(t, pc)
  PROVE  /\ Moved(t, [th[t] EXCEPT !.pc = pc])
         /\ th'[t].pc = pc /\ th'[t].ret = th[t].ret /\ th'[t].file = th[t].file
         /\ th'[t].todo = th[t].todo /\ th'[t].done = th[t].done /\ th'[t].cur = th[t].cur
         /\ th'[t].victim = th[t].victim /\ th'[t].prog = th[t].prog
<1>1. th[t] \in Locals
  BY DEF ThType
<1>2. [th[t] EXCEPT !.pc = pc] \in Locals
  BY <1>1 DEF Locals
<1>3. th' = [th EXCEPT ![t] = [th[t] EXCEPT !.pc = pc]]
  BY DEF Goto, ThType
<1>4. Moved(t, [th[t] EXCEPT !.pc = pc])
  BY <1>2, <1>3, Move
<1> QED
  BY <1>1, <1>4 DEF Moved, Locals

LEMMA MoveReturn ==
  ASSUME ThType, NEW t \in Threads, Return(t)
  PROVE  Moved(t, Rest)
BY Rests, Move DEF Return

-----------------------------------------------------------------------------
(* What a step that leaves the firmware and the table alone may do to a    *)
(* thread's locals: nothing, or nothing under fw_lock, or a move within    *)
(* the release of a section it gives back.                                 *)
GivePcs == ReleasePcs \cup {"drain", "give"}

Same(u) ==
    \/ th'[u] = th[u]
    \/ ~Locked(u) /\ ~Locked(u)'
    \/ /\ Giving(u) /\ Giving(u)' /\ th[u].pc \in GivePcs /\ th'[u].pc \in GivePcs
       /\ th'[u].prog = th[u].prog /\ th'[u].file = th[u].file /\ th'[u].todo = th[u].todo

fwVars == <<fw_lock, quarantined, progVars, fw>>

LEMMA SameWork ==
  ASSUME NEW u \in Threads, Same(u)
  PROVE  /\ (Giving(u)' <=> Giving(u)) /\ (Locked(u)' <=> Locked(u))
         /\ (Unloading(u)' <=> Unloading(u))
         /\ At(u, "load")' <=> At(u, "load")
         /\ At(u, "close")' <=> At(u, "close")
         /\ At(u, "destroy")' <=> At(u, "destroy")
         /\ th'[u].pc \in {"exec", "wait"} <=> th[u].pc \in {"exec", "wait"}
         /\ Locked(u) => th'[u].prog = th[u].prog /\ th'[u].file = th[u].file
                         /\ th'[u].todo = th[u].todo
         /\ At(u, "load") \/ th[u].pc \in {"exec", "wait"} => th'[u].done = th[u].done
         /\ \A b : Working(u, b)' <=> Working(u, b)
<1>1. CASE th'[u] = th[u]
  BY <1>1 DEF Giving, Locked, Unloading, At, Working
<1>2. CASE ~Locked(u) /\ ~Locked(u)'
  BY <1>2 DEF Giving, Locked, Unloading, At, Working, UnloadPcs
<1>3. CASE /\ Giving(u) /\ Giving(u)' /\ th[u].pc \in GivePcs /\ th'[u].pc \in GivePcs
           /\ th'[u].prog = th[u].prog /\ th'[u].file = th[u].file /\ th'[u].todo = th[u].todo
  BY <1>3 DEF Giving, Locked, Unloading, At, Working, UnloadPcs, GivePcs, ReleasePcs
<1> QED
  BY <1>1, <1>2, <1>3 DEF Same

LEMMA FwFrame ==
  ASSUME ThType, FwInv, UNCHANGED fwVars, \A u \in Threads : Same(u),
         \A b \in Bos : /\ bo'[b].prog_refs = bo[b].prog_refs
                        /\ bo[b].fw_io => bo'[b].fw_io
  PROVE  FwInv'
<1> USE DEF FwInv
<1>1. fw_lock' = fw_lock /\ quarantined' = quarantined /\ progs' = progs /\ open' = open
      /\ holds' = holds /\ fw' = fw
  BY DEF fwVars, progVars
<1>2. ProgType'
  BY <1>1 DEF ProgType
<1>3. ASSUME NEW u \in Threads PROVE LockInv(u)'
  <2>1. LockInv(u)
    OBVIOUS
  <2>2. Unloading(u) \/ At(u, "load") \/ At(u, "close") \/ At(u, "destroy") \/ Giving(u)
           => Locked(u)
    BY DEF Locked, Unloading, At, UnloadPcs
  <2>3. At(u, "load") => th'[u].done = th[u].done
    BY SameWork
  <2> QED
    BY <1>1, <2>1, <2>2, <2>3, SameWork, SMTT(30) DEF LockInv, Find, Live
<1>4. ClaimInv'
  <2>1. ASSUME NEW b \in Bos PROVE Claims(b)' = Claims(b)
    <3>1. Loaded(b)' = Loaded(b)
      BY <1>1 DEF Loaded
    <3>2. (fw_lock # None /\ Working(fw_lock, b))' <=> fw_lock # None /\ Working(fw_lock, b)
      BY <1>1, SameWork
    <3> QED
      BY <1>1, <3>1, <3>2 DEF Claims, b01
  <2>2. \A b \in Bos : Claims(b)' <= bo'[b].prog_refs
    BY <2>1 DEF ClaimInv
  <2>3. \A t \in Threads : th'[t].pc \in {"exec", "wait"} =>
           \A b \in th'[t].done : bo'[b].fw_io
    <3>1. \A t \in Threads : th[t].done \subseteq Bos
      BY DEF ThType, Locals
    <3> QED
      BY <3>1, SameWork DEF ClaimInv
  <2>4. \A b \in fw'.io : bo'[b].fw_io
    BY <1>1 DEF ClaimInv, ProgType
  <2> QED
    BY <2>2, <2>3, <2>4 DEF ClaimInv
<1>5. Table'
  <2>1. Shared'
    BY <1>1, SMTT(30) DEF Table, Shared, Live
  <2>2. \A i \in Ids : (\E t \in Threads : Giving(t) /\ th[t].prog = i) =>
                       (\E t \in Threads : Giving(t) /\ th[t].prog = i)'
    BY SameWork DEF Locked, Unloading
  <2> QED
    BY <1>1, <2>1, <2>2 DEF Table, Live
<1> QED
  BY <1>1, <1>2, <1>3, <1>4, <1>5

-----------------------------------------------------------------------------
(* A step that leaves the objects alone: a thread that comes to park or to *)
(* free its object has seen that the firmware never had it.                *)
LEMMA ObjFrame ==
  ASSUME ObjInv, UNCHANGED <<bo, listed, mem, pool>>,
         \A u \in Threads :
            /\ th'[u].cur = th[u].cur /\ th'[u].victim = th[u].victim
            /\ th[u].cur # None /\ th'[u].pc \in QuietPcs =>
                  th[u].pc \in QuietPcs \/ ~bo[th[u].cur].fw_ref
  PROVE  ObjInv'
<1> USE DEF ObjInv
<1>1. InPool' = InPool
  BY DEF InPool
<1>2. BoType'
  BY DEF BoType
<1>3. Alone'
  BY SMTT(30) DEF Alone
<1>4. ASSUME NEW b \in Bos PROVE Object(b)'
  BY <1>1, SMTT(30) DEF Object
<1>5. ASSUME NEW u \in Threads PROVE InHand(u)'
  BY <1>1 DEF InHand
<1> QED
  BY <1>2, <1>3, <1>4, <1>5

(* A step of thread t on object c, which no other thread has in hand. *)
OnlyObject(t, c) ==
    /\ \A x \in Bos \ {c} : /\ bo'[x] = bo[x] /\ mem'[x] = mem[x]
                            /\ x \in listed' <=> x \in listed
                            /\ x \in InPool' <=> x \in InPool
    /\ \A u \in Threads \ {t} : th'[u] = th[u] /\ th[u].cur # c /\ th[u].victim # c
    /\ th[t].cur \notin {None, c} => th'[t].cur = th[t].cur
    /\ th[t].victim \notin {None, c} => th'[t].victim = th[t].victim
    /\ th'[t].cur \in {None, c, th[t].cur} /\ th'[t].victim \in {None, c, th[t].victim}

LEMMA ObjStep ==
  ASSUME ThType, ObjInv, NEW t \in Threads, NEW c \in Bos, OnlyObject(t, c),
         BoType', Object(c)', InHand(t)',
         \A j, k \in 1 .. Len(pool') : pool'[j] = pool'[k] => j = k
  PROVE  ObjInv'
<1> USE DEF ObjInv
<1>0. None \notin Bos
  OBVIOUS
<1>1. ASSUME NEW x \in Bos, x # c PROVE Object(x)'
  <2>1. /\ bo'[x] = bo[x] /\ mem'[x] = mem[x]
        /\ x \in listed' <=> x \in listed
        /\ x \in InPool' <=> x \in InPool
    BY <1>1 DEF OnlyObject
  <2>2. Object(x)
    OBVIOUS
  <2>3. (\E u \in Threads : th[u].cur = x) => \E u \in Threads : th'[u].cur = x
    BY <1>0, <1>1, SMTT(30) DEF OnlyObject
  <2>4. (\E u \in Threads : th[u].victim = x) => \E u \in Threads : th'[u].victim = x
    BY <1>0, <1>1, SMTT(30) DEF OnlyObject
  <2> QED
    BY ONLY <2>1, <2>2, <2>3, <2>4, ZenonT(30) DEF Object, b01
<1>2. ASSUME NEW u \in Threads, u # t PROVE InHand(u)'
  <2>1. th'[u] = th[u] /\ th[u].cur # c /\ th[u].victim # c
    BY <1>2 DEF OnlyObject
  <2>2. th[u].cur \in Bos \cup {None} /\ th[u].victim \in Bos \cup {None}
    BY DEF ThType, Locals
  <2>3. InHand(u)
    OBVIOUS
  <2> QED
    BY <2>1, <2>2, <2>3, SMTT(30) DEF InHand, OnlyObject
<1>3. Alone'
  BY <1>0, SMTT(30) DEF Alone, OnlyObject
<1> QED
  BY <1>1, <1>2, <1>3

-----------------------------------------------------------------------------
(* Steps that change nothing but a thread's locals and the counters. *)
LEMMA LocalStep ==
  ASSUME IInv, NEW t \in Threads, UNCHANGED <<bo, listed, mem, pool, fwVars>>,
         ThType', Control(t)', Same(t), \A u \in Threads \ {t} : th'[u] = th[u],
         th'[t].cur = th[t].cur, th'[t].victim = th[t].victim,
         th[t].cur # None /\ th'[t].pc \in QuietPcs =>
            th[t].pc \in QuietPcs \/ ~bo[th[t].cur].fw_ref
  PROVE  IInv'
<1>1. ThInv'
  BY SMTT(30) DEF IInv, ThInv, Control, Releasing, At
<1>2. ObjInv'
  BY ObjFrame DEF IInv
<1>3. FwInv'
  <2>1. \A u \in Threads : Same(u)
    BY DEF Same
  <2> QED
    BY <2>1, FwFrame DEF IInv, ThInv
<1> QED
  BY <1>1, <1>2, <1>3 DEF IInv

-----------------------------------------------------------------------------
(* The pool's steps. *)
LEMMA Wrote ==
  ASSUME bo \in [Bos -> Objects], NEW c \in Bos, NEW r \in Objects, bo' = [bo EXCEPT ![c] = r]
  PROVE  bo' \in [Bos -> Objects] /\ bo'[c] = r /\ \A x \in Bos \ {c} : bo'[x] = bo[x]
OBVIOUS

LEMMA BasicFacts ==
  ASSUME IInv, NEW t \in Threads
  PROVE  /\ ThType /\ Control(t) /\ BoType /\ Alone /\ InHand(t)
         /\ th[t] \in Locals /\ bo \in [Bos -> Objects] /\ None \notin Bos
         /\ \A u \in Threads : th[u].cur \in Bos \cup {None} /\ th[u].victim \in Bos \cup {None}
BY DEF IInv, ThInv, ObjInv, ThType, BoType, Locals

LEMMA UsedFacts ==
  ASSUME IInv, NEW c \in Bos, c \in listed \/ bo[c].maps > 0 \/ bo[c].prog_refs > 0
  PROVE  /\ Object(c) /\ mem[c] = "live" /\ c \notin InPool /\ ~bo[c].pooled_sec
         /\ bo[c].kref > 0
         /\ \A u \in Threads : th[u].cur # c /\ th[u].victim # c
<1>1. Object(c) /\ bo[c] \in Objects /\ \A u \in Threads : InHand(u)
  BY DEF IInv, ObjInv, BoType
<1>2. bo[c].kref > 0
  <2>1. bo[c].kref \in Nat /\ bo[c].maps \in Nat /\ bo[c].prog_refs \in Nat
    BY <1>1 DEF Objects
  <2>2. /\ bo[c].kref = b01(c \in listed) + bo[c].maps + bo[c].prog_refs
        /\ b01(c \in listed) \in {0, 1} /\ (c \in listed => b01(c \in listed) = 1)
    BY <1>1 DEF Object, b01
  <2> QED
    BY ONLY <2>1, <2>2, c \in listed \/ bo[c].maps > 0 \/ bo[c].prog_refs > 0, SMTT(30)
<1>3. mem[c] = "live" /\ c \notin InPool /\ ~bo[c].pooled_sec
  BY <1>1, <1>2 DEF Object
<1>4. \A u \in Threads : th[u].cur # c /\ th[u].victim # c
  <2>1. bo[c].kref # 0
    BY ONLY <1>2, SMTT(30)
  <2>2. c # None
    OBVIOUS
  <2> QED
    BY ONLY <1>1, <1>3, <2>1, <2>2, ZenonT(30) DEF InHand
<1> QED
  BY <1>1, <1>2, <1>3, <1>4

LEMMA RefCount ==
  ASSUME IInv, NEW b \in Bos
  PROVE  /\ bo[b] \in Objects /\ bo[b].kref \in Nat /\ bo[b].maps \in Nat
         /\ bo[b].prog_refs \in Nat /\ bo[b].owner \in Files \cup {None}
         /\ bo[b].kref = b01(b \in listed) + bo[b].maps + bo[b].prog_refs
         /\ b01(TRUE) = 1 /\ b01(FALSE) = 0 /\ b01(b \in listed) \in {0, 1}
<1>1. bo[b] \in Objects /\ Object(b)
  BY DEF IInv, ObjInv, BoType
<1> QED
  BY <1>1 DEF Objects, Object, b01

(* Dropping a reference: the thread goes on at ret, or first releases the object. *)
LEMMA PutStep ==
  ASSUME IInv, NEW t \in Threads, NEW c \in Bos, NEW new \in Objects, NEW rest \in Locals,
         NEW ret \in {"unlock", "give", "drop"}, Put(t, c, new, rest, ret),
         c \in listed \/ bo[c].maps > 0 \/ bo[c].prog_refs > 0,
         new.kref = bo[c].kref, new.kref - 1 = b01(c \in listed') + new.maps + new.prog_refs,
         new.fw_io => new.fw_ref, new.pooled_sec <=> bo[c].pooled_sec,
         rest.ret = "idle", rest.cur = None, rest.victim = None,
         th[t].cur = None, th[t].victim = None,
         listed' \subseteq Bos, \A x \in Bos \ {c} : x \in listed' <=> x \in listed,
         mem' = mem, pool' = pool
  PROVE  /\ ThInv' /\ ObjInv' /\ \A u \in Threads \ {t} : th'[u] = th[u]
         /\ \/ th'[t].pc = "release" /\ th'[t].ret = ret
            \/ th'[t].pc = ret /\ th'[t].ret = "idle"
         /\ th'[t].file = rest.file /\ th'[t].todo = rest.todo /\ th'[t].prog = rest.prog
         /\ bo'[c].prog_refs = new.prog_refs /\ (bo'[c].fw_io <=> new.fw_io)
         /\ \A x \in Bos \ {c} : bo'[x] = bo[x]
<1>0. /\ ThType /\ Control(t) /\ BoType /\ Alone /\ bo \in [Bos -> Objects] /\ None \notin Bos
      /\ \A u \in Threads : th[u].cur \in Bos \cup {None} /\ th[u].victim \in Bos \cup {None}
  BY BasicFacts
<1>1. /\ Object(c) /\ mem[c] = "live" /\ c \notin InPool /\ ~bo[c].pooled_sec
      /\ bo[c].kref > 0 /\ \A u \in Threads : th[u].cur # c /\ th[u].victim # c
  BY ONLY IInv, c \in Bos, c \in listed \/ bo[c].maps > 0 \/ bo[c].prog_refs > 0, UsedFacts, ZenonT(30)
<1>2. PICK r : r = IF new.kref = 1 THEN [rest EXCEPT !.pc = "release", !.cur = c, !.ret = ret]
                                   ELSE [rest EXCEPT !.pc = ret]
  OBVIOUS
<1>3. /\ r \in Locals /\ r.file = rest.file /\ r.todo = rest.todo /\ r.prog = rest.prog
      /\ r.victim = None
      /\ \/ new.kref = 1 /\ r.pc = "release" /\ r.ret = ret /\ r.cur = c
         \/ new.kref # 1 /\ r.pc = ret /\ r.ret = "idle" /\ r.cur = None
  <2>1. "release" \in Pcs /\ ret \in Pcs
    BY DEF Pcs, ReleasePcs, UnloadPcs
  <2>2. CASE new.kref = 1
    <3>1. r = [rest EXCEPT !.pc = "release", !.cur = c, !.ret = ret]
      BY ONLY <1>2, <2>2, ZenonT(30)
    <3> QED
      BY ONLY <2>1, <2>2, <3>1, rest \in Locals, c \in Bos, ret \in {"unlock", "give", "drop"},
              rest.victim = None, ZenonT(40) DEF Locals
  <2>3. CASE new.kref # 1
    <3>1. r = [rest EXCEPT !.pc = ret]
      BY ONLY <1>2, <2>3, ZenonT(30)
    <3> QED
      BY ONLY <2>1, <2>3, <3>1, rest \in Locals, rest.victim = None, rest.ret = "idle",
              rest.cur = None, ZenonT(30) DEF Locals
  <2> QED
    BY ONLY <2>2, <2>3, ZenonT(30)
<1>4. th' = [th EXCEPT ![t] = r]
  BY ONLY <1>2, Put(t, c, new, rest, ret), ZenonT(30) DEF Put
<1>5. Moved(t, r)
  BY ONLY t \in Threads, <1>0, <1>3, <1>4, Move, ZenonT(40)
<1>6. ThType' /\ th'[t] = r /\ \A u \in Threads \ {t} : th'[u] = th[u]
  BY ONLY <1>5, ZenonT(30) DEF Moved, ThType
<1>7. Control(t)'
  BY ONLY <1>0, <1>3, <1>6, c \in Bos, ret \in {"unlock", "give", "drop"}, ZenonT(40)
     DEF Control, Releasing, At, ReleasePcs
<1>8. ThInv'
  <2>1. \A u \in Threads : Control(u)
    BY DEF IInv, ThInv
  <2> QED
    BY ONLY <1>6, <1>7, <2>1, Zenon DEF ThInv, Control, Releasing, At
<1>9. PICK o : o = [new EXCEPT !.kref = @ - 1, !.owner = IF new.kref = 1 THEN None ELSE @]
  OBVIOUS
<1>10. new.kref \in Nat /\ new.kref > 0 /\ new.kref - 1 \in Nat
  BY <1>1, SMTT(30) DEF Objects
<1>11. /\ o \in Objects /\ o.kref = new.kref - 1 /\ o.maps = new.maps /\ o.prog_refs = new.prog_refs
       /\ o.fw_ref = new.fw_ref /\ o.fw_io = new.fw_io /\ o.pooled_sec = new.pooled_sec
  BY ONLY <1>9, <1>10, new \in Objects, Zenon DEF Objects
<1>12. bo' = [bo EXCEPT ![c] = o]
  BY ONLY <1>9, Put(t, c, new, rest, ret), ZenonT(30) DEF Put
<1>13. bo' \in [Bos -> Objects] /\ bo'[c] = o /\ \A x \in Bos \ {c} : bo'[x] = bo[x]
  BY ONLY <1>0, <1>11, <1>12, c \in Bos, Wrote, ZenonT(30)
<1>14. InPool' = InPool
  BY DEF InPool
<1>15. OnlyObject(t, c)
  BY ONLY <1>1, <1>3, <1>6, <1>13, <1>14, mem' = mem, th[t].cur = None, th[t].victim = None,
          \A x \in Bos \ {c} : x \in listed' <=> x \in listed, Zenon DEF OnlyObject
<1>16. BoType'
  BY ONLY <1>0, <1>13, listed' \subseteq Bos, mem' = mem, pool' = pool, ZenonT(40) DEF BoType
<1>17. Object(c)'
  <2>1. bo'[c].kref = b01(c \in listed') + bo'[c].maps + bo'[c].prog_refs
    BY ONLY <1>11, <1>13, new.kref - 1 = b01(c \in listed') + new.maps + new.prog_refs, ZenonT(30)
  <2>2. mem'[c] = "live" /\ c \notin InPool' /\ ~bo'[c].pooled_sec
        /\ (bo'[c].fw_io => bo'[c].fw_ref)
    BY ONLY <1>1, <1>11, <1>13, <1>14, mem' = mem, new.pooled_sec <=> bo[c].pooled_sec,
            new.fw_io => new.fw_ref, ZenonT(30)
  <2>3. bo'[c].kref = 0 => \E u \in Threads : th'[u].cur = c
    <3> HAVE bo'[c].kref = 0
    <3>1. new.kref = 1
      BY ONLY <1>10, <1>11, <1>13, bo'[c].kref = 0, SMTT(30)
    <3>2. th'[t].cur = c
      BY ONLY <1>3, <1>6, <3>1, ZenonT(30)
    <3> QED
      BY <3>2
  <2> QED
    BY ONLY <2>1, <2>2, <2>3, ZenonT(30) DEF Object, b01
<1>18. InHand(t)'
  <2>1. new.kref = 1 => bo'[c].kref = 0
    BY ONLY <1>11, <1>13, SMTT(30)
  <2>2. th'[t].cur # None => new.kref = 1 /\ th'[t].cur = c /\ th'[t].pc = "release"
    BY ONLY <1>3, <1>6, ZenonT(30)
  <2> QED
    BY ONLY <1>1, <1>3, <1>6, <2>1, <2>2, mem' = mem, ZenonT(30) DEF InHand, QuietPcs
<1>19. ObjInv'
  <2>1. \A j, k \in 1 .. Len(pool') : pool'[j] = pool'[k] => j = k
    BY <1>0 DEF Alone
  <2>2. ObjInv
    BY DEF IInv
  <2> QED
    BY ONLY <1>0, <1>15, <1>16, <1>17, <1>18, <2>1, <2>2, t \in Threads, c \in Bos, ObjStep, ZenonT(30)
<1> QED
  BY ONLY <1>3, <1>6, <1>8, <1>11, <1>13, <1>19, Zenon

(* In a call that holds neither fw_lock nor an object. *)
PlainPcs == {"idle", "drain", "take", "alloc", "dma", "uncharge", "refuse", "retry", "unlock"}

(* The steps that change no more than a thread's locals, the counters and  *)
(* the pool's list.                                                        *)
QuietStep(t) ==
    \/ bo_release_park(t) \/ pool_park_room(t) \/ pool_park_recheck(t) \/ pool_drain(t)
    \/ bo_pool_max_mb_set(t) \/ \E f \in Files, s \in {Size[b] : b \in Bos} : bo_init(t, f, s)
    \/ bo_alloc_charge(t) \/ bo_alloc_uncharge(t) \/ pool_alloc_retry(t) \/ unlock(t)

(* The steps that end a release, and the one that frees an evicted object. *)
ReleaseStep(t) ==
    bo_release_fw(t) \/ pool_park_add(t) \/ bo_release_free(t) \/ pool_release_ent(t)

Taken(t, k) == /\ pool' = list_del(k) /\ bo' = [bo EXCEPT ![pool[k]].pooled_sec = FALSE]
               /\ mem' = [mem EXCEPT ![pool[k]] = "live"]
               /\ th' = [th EXCEPT ![t].pc = "publish", ![t].cur = pool[k]]

(* The steps by which BO_INIT takes an object in hand and publishes it, and *)
(* by which a mapping takes a reference.                                    *)
TakeStep(t) ==
    \/ pool_take(t) \/ bo_alloc_dma(t) \/ bo_publish(t)
    \/ \E f \in Files, b \in Bos : mmap(t, f, b)

(* The steps that drop a handle or a mapping. *)
PutRef(t) ==
    \E b \in Bos : vm_close(t, b) \/ close_bo(t, b) \/ \E f \in Files : bo_free(t, f, b)

(* The steps on buffer objects and on the pool preserve the invariant. *)
LEMMA PoolStepsIInv ==
  IInv /\ (\E t \in Threads : QuietStep(t) \/ ReleaseStep(t) \/ TakeStep(t) \/ PutRef(t))
     => IInv'
<1>IdleThread. ASSUME IInv, NEW t \in Threads, th[t].pc \in PlainPcs, At(t, "drain") => th[t].cur = None
    PROVE  th[t].ret = "idle" /\ th[t].cur = None
  BY <1>IdleThread DEF IInv, ThInv, Control, Releasing, At, PlainPcs, ReleasePcs
<1>PlainMove. ASSUME IInv, NEW t \in Threads, UNCHANGED <<bo, listed, mem, pool, fwVars>>,
           ThType', \A u \in Threads \ {t} : th'[u] = th[u],
           th[t].pc \in PlainPcs, th'[t].pc \in PlainPcs,
           th[t].cur = None, th[t].victim = None,
           th'[t].ret = "idle", th'[t].cur = None, th'[t].victim = None
    PROVE  IInv'
  <2> USE <1>PlainMove
  <2>0. Control(t)
    BY DEF IInv, ThInv
  <2>1. th[t].ret = "idle"
    BY <2>0 DEF Control, Releasing, PlainPcs, ReleasePcs
  <2>2. Control(t)'
    BY DEF Control, Releasing, PlainPcs, ReleasePcs, At
  <2>3. Same(t)
    BY <2>1 DEF Same, Locked, Unloading, UnloadPcs, Giving, At, PlainPcs
  <2> QED
    BY <2>2, <2>3, LocalStep
(* The calls that hold nothing move on, or return. *)
<1>PlainGoto. ASSUME IInv, NEW t \in Threads, UNCHANGED <<bo, listed, mem, pool, fwVars>>,
           th[t].pc \in PlainPcs, At(t, "drain") => th[t].cur = None, th[t].victim = None,
           NEW pc \in PlainPcs, Goto(t, pc)
    PROVE  IInv'
  <2> USE <1>PlainGoto
  <2>1. ThType /\ th[t].ret = "idle" /\ th[t].cur = None
    BY <1>IdleThread DEF IInv, ThInv
  <2>2. pc \in Pcs
    BY DEF Pcs, PlainPcs
  <2>3. /\ ThType' /\ th'[t].pc = pc /\ th'[t].ret = "idle" /\ th'[t].cur = None
        /\ th'[t].victim = None /\ \A u \in Threads \ {t} : th'[u] = th[u]
    BY <2>1, <2>2, MoveGoto DEF Moved, ThType
  <2> QED
    BY ONLY IInv, t \in Threads, UNCHANGED <<bo, listed, mem, pool, fwVars>>,
            th[t].pc \in PlainPcs, th[t].victim = None, pc \in PlainPcs, <2>1, <2>3, <1>PlainMove, ZenonT(30)
<1>WrotePooled. ASSUME bo \in [Bos -> Objects], NEW c \in Bos, NEW v \in BOOLEAN,
           bo' = [bo EXCEPT ![c].pooled_sec = v]
    PROVE  /\ bo' \in [Bos -> Objects] /\ \A x \in Bos \ {c} : bo'[x] = bo[x]
           /\ bo'[c].kref = bo[c].kref /\ bo'[c].maps = bo[c].maps
           /\ bo'[c].prog_refs = bo[c].prog_refs
           /\ (bo'[c].fw_ref <=> bo[c].fw_ref) /\ (bo'[c].fw_io <=> bo[c].fw_io)
           /\ bo'[c].pooled_sec <=> v
  <2> USE <1>WrotePooled
  <2> DEFINE r == [bo[c] EXCEPT !.pooled_sec = v]
  <2>1. bo[c] \in Objects
    OBVIOUS
  <2>2. r \in Objects /\ r.kref = bo[c].kref /\ r.maps = bo[c].maps
        /\ r.prog_refs = bo[c].prog_refs /\ r.fw_ref = bo[c].fw_ref /\ r.fw_io = bo[c].fw_io
        /\ r.pooled_sec = v
    BY <2>1 DEF Objects
  <2>3. bo' = [bo EXCEPT ![c] = r]
    OBVIOUS
  <2> HIDE DEF r
  <2> QED
    BY <2>2, <2>3, Wrote
(* A step on one object that leaves its references and the firmware alone. *)
<1>ObjectStep. ASSUME IInv, NEW t \in Threads, NEW c \in Bos, OnlyObject(t, c),
           UNCHANGED fwVars, ThType', Control(t)', Same(t),
           BoType', Object(c)', InHand(t)',
           bo'[c].prog_refs = bo[c].prog_refs, bo[c].fw_io => bo'[c].fw_io,
           \A j, k \in 1 .. Len(pool') : pool'[j] = pool'[k] => j = k
    PROVE  IInv'
  <2> USE <1>ObjectStep
  <2>1. \A u \in Threads \ {t} : th'[u] = th[u]
    BY DEF OnlyObject
  <2>2. ThInv'
    BY <2>1, SMTT(30) DEF IInv, ThInv, Control, Releasing, At
  <2>3. ObjInv'
    BY ObjStep DEF IInv, ThInv
  <2>4. FwInv'
    <3>1. \A u \in Threads : Same(u)
      BY <2>1 DEF Same
    <3>2. \A b \in Bos : /\ bo'[b].prog_refs = bo[b].prog_refs
                         /\ bo[b].fw_io => bo'[b].fw_io
      BY DEF OnlyObject
    <3> QED
      BY <3>1, <3>2, FwFrame DEF IInv, ThInv
  <2> QED
    BY <2>2, <2>3, <2>4 DEF IInv
(* What is in the pool is in no thread's hands. *)
<1>PoolAlone. ASSUME IInv, NEW c \in InPool, NEW u \in Threads
    PROVE  th[u].cur # c /\ th[u].victim # c
  <2> USE <1>PoolAlone
  <2>1. c \in Bos /\ mem[c] = "parked"
    BY SMTT(30) DEF IInv, ObjInv, BoType, InPool, Object
  <2>2. InHand(u)
    BY DEF IInv, ObjInv
  <2> QED
    BY <2>1, <2>2 DEF InHand
(* The pool's list: what a search, an unlink and an add at the tail do. *)
<1>Entry. ASSUME BoType, NEW k \in 1 .. Len(pool)
    PROVE  pool[k] \in Bos /\ pool[k] \in InPool
  BY <1>Entry, SMTT(30) DEF BoType, InPool
<1>Unlinked. ASSUME BoType, Alone, NEW k \in 1 .. Len(pool), pool' = list_del(k)
    PROVE  /\ pool' \in Seq(Bos)
           /\ \A x : x \in InPool' <=> x \in InPool /\ x # pool[k]
           /\ \A i, j \in 1 .. Len(pool') : pool'[i] = pool'[j] => i = j
  <2> USE <1>Unlinked
  <2>Joined. ASSUME NEW S, NEW a \in Seq(S), NEW z \in Seq(S)
    PROVE  a \o z \in Seq(S) /\ Len(a \o z) = Len(a) + Len(z)
    BY <2>Joined, SMTT(30)
  <2> DEFINE n == Len(pool)
  <2>0. pool \in Seq(Bos) /\ n \in Nat /\ k \in 1 .. n
        /\ \A i, j \in 1 .. n : pool[i] = pool[j] => i = j
    BY SMTT(30) DEF BoType, Alone
  <2>1. /\ pool' \in Seq(Bos) /\ Len(pool') = n - 1
        /\ \A j \in 1 .. n - 1 : pool'[j] = IF j < k THEN pool[j] ELSE pool[j + 1]
    <3> DEFINE a == SubSeq(pool, 1, k - 1)
               z == SubSeq(pool, k + 1, n)
    <3>1. /\ a \in Seq(Bos) /\ Len(a) = k - 1
          /\ \A j \in 1 .. k - 1 : a[j] = pool[j]
      BY <2>0, SMTT(30)
    <3>2. /\ z \in Seq(Bos) /\ Len(z) = n - k
          /\ \A j \in 1 .. n - k : z[j] = pool[j + k]
      BY <2>0, SMTT(30)
    <3>3. pool' = a \o z
      BY DEF list_del
    <3> HIDE DEF a, z, n
    <3>4. pool' \in Seq(Bos) /\ Len(pool') = n - 1
      <4>1. a \o z \in Seq(Bos) /\ Len(a \o z) = Len(a) + Len(z)
        BY ONLY <3>1, <3>2, <2>Joined, ZenonT(30)
      <4> QED
        BY ONLY <2>0, <3>1, <3>2, <3>3, <4>1
    <3>5. ASSUME NEW j \in 1 .. n - 1
          PROVE  pool'[j] = IF j < k THEN pool[j] ELSE pool[j + 1]
      <4>1. CASE j < k
        BY <2>0, <3>1, <3>2, <3>3, <4>1, SMTT(30)
      <4>2. CASE ~(j < k)
        <5>1. j - (k - 1) \in 1 .. n - k /\ j - (k - 1) + k = j + 1
          BY <2>0, <4>2, SMTT(30)
        <5>2. pool'[j] = z[j - (k - 1)]
          BY <2>0, <3>1, <3>2, <3>3, <4>2, SMTT(30)
        <5> QED
          BY <3>2, <4>2, <5>1, <5>2
      <4> QED
        BY <4>1, <4>2
    <3> QED
      BY <3>4, <3>5
  <2> HIDE DEF n
  <2>2. ASSUME NEW x, x \in InPool' PROVE x \in InPool /\ x # pool[k]
    <3>1. PICK j \in 1 .. n - 1 : pool'[j] = x
      BY <2>1, <2>2 DEF InPool
    <3>2. \E i \in 1 .. n : i # k /\ pool[i] = x
      <4>1. CASE j < k
        <5>1. j \in 1 .. n /\ j # k /\ pool[j] = x
          BY <2>0, <2>1, <3>1, <4>1, SMTT(30)
        <5> QED
          BY <5>1
      <4>2. CASE ~(j < k)
        <5>1. j + 1 \in 1 .. n /\ j + 1 # k /\ pool[j + 1] = x
          BY <2>0, <2>1, <3>1, <4>2, SMTT(30)
        <5> QED
          BY <5>1
      <4> QED
        BY <4>1, <4>2
    <3> QED
      BY <2>0, <3>2 DEF InPool, n
  <2>3. ASSUME NEW x, x \in InPool, x # pool[k] PROVE x \in InPool'
    <3>1. PICK i \in 1 .. n : pool[i] = x /\ i # k
      BY <2>3 DEF InPool, n
    <3>2. \E j \in 1 .. n - 1 : pool'[j] = x
      <4>1. CASE i < k
        <5>1. i \in 1 .. n - 1 /\ pool'[i] = x
          BY <2>0, <2>1, <3>1, <4>1, SMTT(30)
        <5> QED
          BY <5>1
      <4>2. CASE i > k
        <5>1. i - 1 \in 1 .. n - 1 /\ ~(i - 1 < k) /\ (i - 1) + 1 = i
          BY <2>0, <3>1, <4>2, SMTT(30)
        <5> QED
          BY <2>1, <3>1, <5>1
      <4> QED
        BY <2>0, <3>1, <4>1, <4>2, SMTT(30)
    <3> QED
      BY <2>1, <3>2 DEF InPool
  <2>4. ASSUME NEW i \in 1 .. n - 1, NEW j \in 1 .. n - 1, pool'[i] = pool'[j] PROVE i = j
    <3> DEFINE at(m) == IF m < k THEN m ELSE m + 1
    <3>1. /\ at(i) \in 1 .. n /\ at(j) \in 1 .. n
          /\ pool'[i] = pool[at(i)] /\ pool'[j] = pool[at(j)]
      BY <2>0, <2>1, SMTT(30)
    <3>2. at(i) = at(j)
      <4> HIDE DEF at
      <4> QED
        BY <2>0, <2>4, <3>1
    <3> QED
      BY <2>0, <3>2, SMTT(30)
  <2> QED
    BY <2>1, <2>2, <2>3, <2>4
(* The object a thread has in hand, the one it is about to free, and one   *)
(* that has references.                                                    *)
<1>NoReferences. ASSUME NEW b \in Bos, bo \in [Bos -> Objects], Object(b), ~(bo[b].kref > 0)
    PROVE  bo[b].kref = 0 /\ bo[b].maps = 0 /\ bo[b].prog_refs = 0 /\ b \notin listed
  <2> USE <1>NoReferences
  <2>1. bo[b].kref \in Nat /\ bo[b].maps \in Nat /\ bo[b].prog_refs \in Nat
    BY DEF Objects
  <2>2. /\ bo[b].kref = b01(b \in listed) + bo[b].maps + bo[b].prog_refs
        /\ b01(b \in listed) \in {0, 1} /\ (b \in listed => b01(b \in listed) = 1)
    BY DEF Object, b01
  <2> QED
    BY ONLY <2>1, <2>2, ~(bo[b].kref > 0)
<1>CurFacts. ASSUME IInv, NEW t \in Threads, NEW c, c = th[t].cur, c # None
    PROVE  /\ c \in Bos /\ Object(c) /\ mem[c] = "live" /\ c \notin InPool /\ ~bo[c].pooled_sec
           /\ bo[c].kref = 0 /\ bo[c].maps = 0 /\ bo[c].prog_refs = 0 /\ c \notin listed
           /\ \A u \in Threads \ {t} : th[u].cur # c
           /\ \A u \in Threads : th[u].victim # c
  <2> USE <1>CurFacts
  <2>1. /\ Alone /\ bo \in [Bos -> Objects] /\ None \notin Bos
        /\ \A u \in Threads : th[u].cur \in Bos \cup {None} /\ th[u].victim \in Bos \cup {None}
    BY BasicFacts
  <2>2. c \in Bos
    BY <2>1
  <2>3. Object(c) /\ InHand(t) /\ \A u \in Threads : InHand(u)
    BY <2>2 DEF IInv, ObjInv
  <2>4. mem[c] = "live" /\ bo[c].kref = 0
    BY <2>3 DEF InHand
  <2>5. c \notin InPool /\ ~bo[c].pooled_sec
    BY <2>3, <2>4 DEF Object
  <2>6. bo[c].maps = 0 /\ bo[c].prog_refs = 0 /\ c \notin listed
    BY <2>1, <2>2, <2>3, <2>4, <1>NoReferences, SMTT(30)
  <2>7. \A u \in Threads : th[u].victim # c
    BY <2>1, <2>2, <2>3, <2>4 DEF InHand
  <2>8. \A u \in Threads \ {t} : th[u].cur # c
    BY <2>1 DEF Alone
  <2> QED
    BY <2>2, <2>3, <2>4, <2>5, <2>6, <2>7, <2>8
<1>Fresh0. /\ Fresh \in Objects /\ Fresh.kref = 0 /\ Fresh.maps = 0 /\ Fresh.prog_refs = 0
    /\ ~Fresh.fw_ref /\ ~Fresh.fw_io /\ ~Fresh.pooled_sec
  BY DEF Fresh, Objects
<1>QuietStep. IInv /\ (\E t \in Threads : QuietStep(t)) => IInv'
  (* Within a release. *)
  <2>ReleaseMove. ASSUME IInv, NEW t \in Threads, UNCHANGED <<bo, listed, mem, pool, fwVars>>,
             Releasing(t), th[t].victim = None,
             NEW pc \in ReleasePcs \cup {"drain"}, Goto(t, pc),
             pc \in QuietPcs => th[t].pc \in QuietPcs \/ ~bo[th[t].cur].fw_ref
      PROVE  IInv'
    <3> USE <2>ReleaseMove
    <3>0. ThType /\ Control(t)
      BY DEF IInv, ThInv
    <3>1. pc \in Pcs
      BY DEF Pcs
    <3>2. /\ ThType'
          /\ th'[t].pc = pc /\ th'[t].ret = th[t].ret /\ th'[t].file = th[t].file
          /\ th'[t].todo = th[t].todo /\ th'[t].cur = th[t].cur
          /\ th'[t].victim = th[t].victim /\ th'[t].prog = th[t].prog
          /\ \A u \in Threads \ {t} : th'[u] = th[u]
      BY <3>0, <3>1, MoveGoto DEF Moved, ThType
    <3>3. Control(t)'
      BY <3>0, <3>2 DEF Control, Releasing, At, ReleasePcs
    <3>4. Same(t)
      BY <3>0, <3>2 DEF Same, Giving, GivePcs, Locked, Unloading, UnloadPcs, At, Control,
                        Releasing, ReleasePcs
    <3> QED
      BY <3>2, <3>3, <3>4, LocalStep
  <2>EvictStep. ASSUME IInv, NEW t \in Threads, NEW next \in {"room", "drain", "alloc"},
             evict_oldest(t, next), th[t].victim = None,
             \/ Releasing(t) /\ next # "alloc" /\ At(t, next)
             \/ ~Releasing(t) /\ next # "room" /\ th[t].cur = None /\ th[t].pc \in PlainPcs
      PROVE  IInv'
    <3> USE <2>EvictStep
    <3>0. /\ ThType /\ Control(t) /\ BoType /\ Alone /\ InHand(t)
          /\ th[t] \in Locals /\ bo \in [Bos -> Objects] /\ None \notin Bos
          /\ \A u \in Threads : th[u].cur \in Bos \cup {None} /\ th[u].victim \in Bos \cup {None}
      BY BasicFacts
    <3>c. PICK k \in 1 .. Len(pool) :
             /\ pool[k] \in Budgeted /\ pool' = list_del(k)
             /\ bo' = [bo EXCEPT ![pool[k]].pooled_sec = FALSE]
             /\ th' = [th EXCEPT ![t].victim = pool[k], ![t].pc = next]
      BY DEF evict_oldest, First
    <3>1. PICK c \in Bos : c = pool[k] /\ bo[c].pooled_sec /\ c \in InPool
      BY <3>0, <3>c, <1>Entry DEF Budgeted
    <3>2. Object(c) /\ mem[c] = "parked" /\ ~bo[c].fw_ref
      BY <3>1 DEF IInv, ObjInv, Object
    <3>3. /\ pool' = list_del(k) /\ bo' = [bo EXCEPT ![c].pooled_sec = FALSE]
          /\ th' = [th EXCEPT ![t].victim = c, ![t].pc = next]
          /\ listed' = listed /\ mem' = mem /\ UNCHANGED fwVars
      BY <3>c, <3>1 DEF evict_oldest, fwVars
    <3>p. \A u \in Threads : th[u].cur # c /\ th[u].victim # c
      BY <3>1, <1>PoolAlone
    <3>4. /\ pool' \in Seq(Bos)
          /\ \A x : x \in InPool' <=> x \in InPool /\ x # c
          /\ \A i, j \in 1 .. Len(pool') : pool'[i] = pool'[j] => i = j
      BY <3>0, <3>c, <3>1, <3>3, <1>Unlinked
    <3>5. /\ bo' \in [Bos -> Objects] /\ \A x \in Bos \ {c} : bo'[x] = bo[x]
          /\ bo'[c].kref = bo[c].kref /\ bo'[c].maps = bo[c].maps
          /\ bo'[c].prog_refs = bo[c].prog_refs
          /\ (bo'[c].fw_ref <=> bo[c].fw_ref) /\ (bo'[c].fw_io <=> bo[c].fw_io)
          /\ ~bo'[c].pooled_sec
      BY <3>0, <3>1, <3>3, <1>WrotePooled
    <3>6. /\ ThType' /\ \A u \in Threads \ {t} : th'[u] = th[u]
          /\ th'[t].pc = next /\ th'[t].ret = th[t].ret /\ th'[t].file = th[t].file
          /\ th'[t].todo = th[t].todo /\ th'[t].cur = th[t].cur
          /\ th'[t].victim = c /\ th'[t].prog = th[t].prog
      <4> DEFINE r == [th[t] EXCEPT !.victim = c, !.pc = next]
      <4>0. next \in Pcs
        BY ONLY next \in {"room", "drain", "alloc"}, ZenonT(30) DEF Pcs, ReleasePcs
      <4>1. r \in Locals
        BY ONLY <3>0, <3>1, <4>0, Zenon DEF Locals
      <4>2. th' = [th EXCEPT ![t] = r]
        BY <3>0, <3>3 DEF ThType
      <4>3. Moved(t, r)
        BY <3>0, <4>1, <4>2, Move
      <4> QED
        BY <3>0, <4>3 DEF Moved, Locals, ThType
    <3>7. Control(t)'
      BY <3>0, <3>6 DEF Control, Releasing, At, ReleasePcs, PlainPcs
    <3>8. Same(t)
      BY <3>0, <3>6 DEF Same, Giving, GivePcs, Locked, Unloading, UnloadPcs, At, Control,
                        Releasing, ReleasePcs, PlainPcs
    <3>9. BoType'
      BY <3>0, <3>3, <3>4, <3>5 DEF BoType
    <3>10. Object(c)'
      <4>1. c \notin InPool' /\ mem'[c] = "parked" /\ \E u \in Threads : th'[u].victim = c
        BY <3>2, <3>3, <3>4, <3>6
      <4>2. /\ bo'[c].kref = b01(c \in listed') + bo'[c].maps + bo'[c].prog_refs
            /\ ~(bo'[c].kref > 0) /\ (bo'[c].fw_io => bo'[c].fw_ref)
        BY ONLY <3>2, <3>3, <3>5, ZenonT(30) DEF Object, b01
      <4> QED
        BY ONLY <3>5, <4>1, <4>2, ZenonT(30) DEF Object, b01
    <3>11. InHand(t)'
      <4>1. th'[t].cur # None =>
              /\ mem'[th'[t].cur] = "live" /\ bo'[th'[t].cur].kref = 0
              /\ th'[t].pc \in QuietPcs => ~bo'[th'[t].cur].fw_ref
        BY <3>0, <3>3, <3>5, <3>6, <3>p, SMTT(30) DEF InHand, At, QuietPcs
      <4>2. /\ mem'[th'[t].victim] = "parked" /\ th'[t].victim \notin InPool'
            /\ ~bo'[th'[t].victim].fw_ref
        BY <3>2, <3>3, <3>4, <3>5, <3>6
      <4> QED
        BY <4>1, <4>2 DEF InHand
    <3>12. OnlyObject(t, c)
      BY <3>0, <3>3, <3>4, <3>5, <3>6, <3>p DEF OnlyObject
    <3> QED
      BY ONLY IInv, t \in Threads, <3>1, <3>3, <3>4, <3>5, <3>6, <3>7, <3>8, <3>9, <3>10, <3>11, <3>12,
              <1>ObjectStep, SMTT(30)
  (* The actions that leave the objects and the firmware alone. *)
  <2>ReleasePark. ASSUME IInv, NEW t \in Threads, bo_release_park(t)
      PROVE  IInv'
    <3> USE <2>ReleasePark
    <3>1. Control(t) /\ At(t, "release") /\ ~bo[th[t].cur].fw_ref
      BY DEF IInv, ThInv, bo_release_park
    <3>2. Releasing(t) /\ th[t].victim = None
      BY <3>1 DEF Control, At, ReleasePcs
    <3>3. \E pc \in {"drain", "free", "room", "add"} : Goto(t, pc)
      BY DEF bo_release_park
    <3>4. PICK pc \in {"drain", "free", "room", "add"} : Goto(t, pc)
      BY ONLY <3>3, ZenonT(30)
    <3>5. pc \in ReleasePcs \cup {"drain"}
      BY DEF ReleasePcs
    <3>6. UNCHANGED <<bo, listed, mem, pool, fwVars>>
      BY DEF bo_release_park, boVars, fwVars, progVars
    <3> QED
      BY ONLY IInv, t \in Threads, <3>1, <3>2, <3>4, <3>5, <3>6, <2>ReleaseMove, ZenonT(30)
  <2>ParkRoom. ASSUME IInv, NEW t \in Threads, pool_park_room(t)
      PROVE  IInv'
    <3> USE <2>ParkRoom
    <3>1. Control(t) /\ At(t, "room") /\ th[t].victim = None
      BY DEF IInv, ThInv, pool_park_room, Ready
    <3>2. Releasing(t)
      BY <3>1 DEF Control, At, ReleasePcs
    <3>3. CASE evict_oldest(t, "room")
      BY <3>1, <3>2, <3>3, <2>EvictStep
    <3>4. CASE Goto(t, "recheck") /\ UNCHANGED <<fw_lock, bo_lock, quarantined, max_mb, boVars,
                                                 poolVars, progVars, fw>>
      <4>1. UNCHANGED <<bo, listed, mem, pool, fwVars>>
        BY <3>4 DEF boVars, poolVars, fwVars
      <4>2. "recheck" \in ReleasePcs \cup {"drain"} /\ th[t].pc \in QuietPcs
        BY <3>1 DEF ReleasePcs, QuietPcs, At
      <4> QED
        BY ONLY IInv, t \in Threads, <3>1, <3>2, <3>4, <4>1, <4>2, <2>ReleaseMove, ZenonT(30)
    <3> QED
      BY <3>3, <3>4 DEF pool_park_room
  <2>ParkRecheck. ASSUME IInv, NEW t \in Threads, pool_park_recheck(t)
      PROVE  IInv'
    <3> USE <2>ParkRecheck
    <3>1. Control(t) /\ At(t, "recheck")
      BY DEF IInv, ThInv, pool_park_recheck
    <3>2. Releasing(t) /\ th[t].victim = None
      BY <3>1 DEF Control, At, ReleasePcs
    <3>3. \E pc \in {"free", "add"} : Goto(t, pc)
      BY DEF pool_park_recheck
    <3>4. PICK pc \in {"free", "add"} : Goto(t, pc)
      BY ONLY <3>3, ZenonT(30)
    <3>5. pc \in ReleasePcs \cup {"drain"} /\ th[t].pc \in QuietPcs
      BY <3>1 DEF ReleasePcs, QuietPcs, At
    <3>6. UNCHANGED <<bo, listed, mem, pool, fwVars>>
      BY DEF pool_park_recheck, boVars, fwVars, progVars
    <3> QED
      BY ONLY IInv, t \in Threads, <3>1, <3>2, <3>4, <3>5, <3>6, <2>ReleaseMove, ZenonT(30)
  <2>Drain. ASSUME IInv, NEW t \in Threads, pool_drain(t)
      PROVE  IInv'
    <3> USE <2>Drain
    <3>1. ThType /\ Control(t) /\ At(t, "drain") /\ th[t].victim = None
      BY DEF IInv, ThInv, pool_drain, Ready
    <3>2. /\ th[t].cur # None => Releasing(t)
          /\ th[t].cur = None => ~Releasing(t) /\ th[t].pc \in PlainPcs
      BY <3>1 DEF Control, At, ReleasePcs, PlainPcs
    <3>3. CASE evict_oldest(t, "drain")
      BY ONLY IInv, t \in Threads, <3>1, <3>2, <3>3, <2>EvictStep, ZenonT(30)
    <3>4. CASE /\ Goto(t, IF th[t].cur = None THEN "idle" ELSE "free")
               /\ UNCHANGED <<fw_lock, bo_lock, quarantined, max_mb, boVars, poolVars, progVars, fw>>
      <4>1. UNCHANGED <<bo, listed, mem, pool, fwVars>>
        BY <3>4 DEF boVars, poolVars, fwVars
      <4>2. CASE th[t].cur # None
        <5>1. "free" \in ReleasePcs \cup {"drain"} /\ th[t].pc \in QuietPcs /\ Goto(t, "free")
          BY <3>1, <3>4, <4>2 DEF ReleasePcs, QuietPcs, At
        <5> QED
          BY ONLY IInv, t \in Threads, <3>1, <3>2, <4>1, <4>2, <5>1, <2>ReleaseMove, ZenonT(30)
      <4>3. CASE th[t].cur = None
        <5>1. "idle" \in Pcs /\ "idle" \in PlainPcs /\ Goto(t, "idle") /\ th[t].pc \in PlainPcs
          BY <3>1, <3>4, <4>3 DEF Pcs, PlainPcs, At
        <5>2. /\ ThType' /\ th'[t].pc = "idle" /\ th'[t].ret = "idle" /\ th'[t].cur = None
              /\ th'[t].victim = None /\ \A u \in Threads \ {t} : th'[u] = th[u]
          BY <3>1, <3>2, <4>3, <5>1, MoveGoto DEF Moved, ThType, Releasing
        <5> QED
          BY ONLY IInv, t \in Threads, <3>1, <4>1, <4>3, <5>1, <5>2, <1>PlainMove, ZenonT(30)
      <4> QED
        BY <4>2, <4>3
    <3> QED
      BY <3>3, <3>4 DEF pool_drain
  <2>PlainReturn. ASSUME IInv, NEW t \in Threads, UNCHANGED <<bo, listed, mem, pool, fwVars>>,
             th[t].pc \in PlainPcs, At(t, "drain") => th[t].cur = None, th[t].victim = None, Return(t)
      PROVE  IInv'
    <3> USE <2>PlainReturn
    <3>1. ThType /\ th[t].ret = "idle" /\ th[t].cur = None
      BY <1>IdleThread DEF IInv, ThInv
    <3>m. Moved(t, Rest)
      BY <3>1, MoveReturn
    <3>2. /\ ThType' /\ th'[t].pc \in PlainPcs /\ th'[t].ret = "idle" /\ th'[t].cur = None
          /\ th'[t].victim = None /\ \A u \in Threads \ {t} : th'[u] = th[u]
      BY ONLY <3>m, SMTT(30) DEF Moved, ThType, Rest, PlainPcs
    <3> QED
      BY ONLY IInv, t \in Threads, UNCHANGED <<bo, listed, mem, pool, fwVars>>,
              th[t].pc \in PlainPcs, th[t].victim = None, <3>1, <3>2, <1>PlainMove, ZenonT(30)
  <2>MaxMbSet. ASSUME IInv, NEW t \in Threads, bo_pool_max_mb_set(t)
      PROVE  IInv'
    <3> USE <2>MaxMbSet
    <3>1. Control(t) /\ At(t, "idle")
      BY DEF IInv, ThInv, bo_pool_max_mb_set
    <3>2. /\ th[t].pc \in PlainPcs /\ (At(t, "drain") => th[t].cur = None) /\ th[t].victim = None
      BY <3>1 DEF Control, At, PlainPcs
    <3>3. \E pc \in {"drain", "idle"} : Goto(t, pc)
      BY DEF bo_pool_max_mb_set
    <3>4. PICK pc \in {"drain", "idle"} : Goto(t, pc)
      BY ONLY <3>3, ZenonT(30)
    <3>5. pc \in PlainPcs
      BY DEF PlainPcs
    <3>6. UNCHANGED <<bo, listed, mem, pool, fwVars>>
      BY DEF bo_pool_max_mb_set, boVars, poolVars, fwVars
    <3> QED
      BY ONLY IInv, t \in Threads, <3>2, <3>4, <3>5, <3>6, <1>PlainGoto, ZenonT(30)
  <2>BoInit. ASSUME IInv, NEW t \in Threads, NEW f \in Files, NEW s, bo_init(t, f, s)
      PROVE  IInv'
    <3> USE <2>BoInit
    <3>1. ThType /\ Control(t) /\ At(t, "idle") /\ th[t] \in Locals
      BY DEF IInv, ThInv, bo_init, MayCall, ThType
    <3>2. /\ th[t].pc \in PlainPcs /\ (At(t, "drain") => th[t].cur = None) /\ th[t].victim = None
      BY <3>1 DEF Control, At, PlainPcs
    <3>3. th[t].ret = "idle" /\ th[t].cur = None
      BY <3>2, <1>IdleThread
    <3>4. PICK S \in SUBSET Bos, pc \in {"alloc", "take"} :
             th' = [th EXCEPT ![t] = [th[t] EXCEPT !.pc = pc, !.file = f, !.todo = S]]
      <4> DEFINE S == {b \in Bos : Size[b] = s}
                 pc == IF quarantined THEN "alloc" ELSE "take"
      <4>1. th' = [th EXCEPT ![t] = [th[t] EXCEPT !.pc = pc, !.file = f, !.todo = S]]
        BY <3>1 DEF bo_init, ThType
      <4> QED
        BY <4>1
    <3> DEFINE r == [th[t] EXCEPT !.pc = pc, !.file = f, !.todo = S]
    <3>5. pc \in Pcs /\ pc \in PlainPcs
      BY DEF Pcs, PlainPcs
    <3>6. /\ r \in Locals /\ r.pc = pc /\ r.ret = th[t].ret /\ r.cur = th[t].cur
          /\ r.victim = th[t].victim
      BY ONLY <3>1, <3>5, f \in Files, S \in SUBSET Bos, Zenon DEF Locals
    <3>7. Moved(t, r)
      BY ONLY t \in Threads, <3>1, <3>4, <3>6, Move, Zenon
    <3> HIDE DEF r
    <3>8. /\ ThType' /\ th'[t].pc \in PlainPcs /\ th'[t].ret = "idle" /\ th'[t].cur = None
          /\ th'[t].victim = None /\ \A u \in Threads \ {t} : th'[u] = th[u]
      BY ONLY <3>2, <3>3, <3>5, <3>6, <3>7, ZenonT(30) DEF Moved, ThType
    <3>9. UNCHANGED <<bo, listed, mem, pool, fwVars>>
      BY DEF bo_init, boVars, poolVars, fwVars
    <3> QED
      BY ONLY IInv, t \in Threads, <3>2, <3>3, <3>8, <3>9, <1>PlainMove, ZenonT(30)
  <2>AllocCharge. ASSUME IInv, NEW t \in Threads, bo_alloc_charge(t)
      PROVE  IInv'
    <3> USE <2>AllocCharge
    <3>1. At(t, "alloc") /\ th[t].victim = None
      BY DEF bo_alloc_charge, Ready
    <3>2. th[t].pc \in PlainPcs /\ (At(t, "drain") => th[t].cur = None)
      BY <3>1 DEF At, PlainPcs
    <3>3. \E pc \in {"uncharge", "dma"} : Goto(t, pc)
      BY DEF bo_alloc_charge
    <3>4. PICK pc \in {"uncharge", "dma"} : Goto(t, pc)
      BY ONLY <3>3, ZenonT(30)
    <3>5. pc \in PlainPcs
      BY DEF PlainPcs
    <3>6. UNCHANGED <<bo, listed, mem, pool, fwVars>>
      BY DEF bo_alloc_charge, boVars, fwVars
    <3> QED
      BY ONLY IInv, t \in Threads, <3>1, <3>2, <3>4, <3>5, <3>6, <1>PlainGoto, ZenonT(30)
  <2>AllocUncharge. ASSUME IInv, NEW t \in Threads, bo_alloc_uncharge(t)
      PROVE  IInv'
    <3> USE <2>AllocUncharge
    <3>1. Control(t) /\ th[t].pc \in {"uncharge", "refuse"}
      BY DEF IInv, ThInv, bo_alloc_uncharge
    <3>2. /\ th[t].pc \in PlainPcs /\ (At(t, "drain") => th[t].cur = None) /\ th[t].victim = None
      BY <3>1 DEF Control, At, PlainPcs
    <3>3. UNCHANGED <<bo, listed, mem, pool, fwVars>>
      BY DEF bo_alloc_uncharge, boVars, fwVars
    <3>4. "retry" \in PlainPcs
      BY DEF PlainPcs
    <3>5. Return(t) \/ Goto(t, "retry")
      BY DEF bo_alloc_uncharge
    <3> QED
      BY ONLY IInv, t \in Threads, <3>2, <3>3, <3>4, <3>5, <1>PlainGoto, <2>PlainReturn, ZenonT(30)
  <2>AllocRetry. ASSUME IInv, NEW t \in Threads, pool_alloc_retry(t)
      PROVE  IInv'
    <3> USE <2>AllocRetry
    <3>1. Control(t) /\ At(t, "retry") /\ th[t].victim = None
      BY DEF IInv, ThInv, pool_alloc_retry, Ready
    <3>2. /\ th[t].pc \in PlainPcs /\ (At(t, "drain") => th[t].cur = None)
          /\ ~Releasing(t) /\ th[t].cur = None
      BY <3>1 DEF Control, At, PlainPcs, ReleasePcs
    <3>3. CASE evict_oldest(t, "alloc")
      BY ONLY IInv, t \in Threads, <3>1, <3>2, <3>3, <2>EvictStep, ZenonT(30)
    <3>4. CASE Return(t) /\ UNCHANGED <<fw_lock, bo_lock, quarantined, max_mb, boVars,
                                        poolVars, progVars, fw>>
      <4>1. UNCHANGED <<bo, listed, mem, pool, fwVars>>
        BY <3>4 DEF boVars, poolVars, fwVars
      <4> QED
        BY ONLY IInv, t \in Threads, <3>1, <3>2, <3>4, <4>1, <2>PlainReturn, ZenonT(30)
    <3> QED
      BY <3>3, <3>4 DEF pool_alloc_retry
  <2>Unlock. ASSUME IInv, NEW t \in Threads, unlock(t)
      PROVE  IInv'
    <3> USE <2>Unlock
    <3>1. Control(t) /\ At(t, "unlock") /\ Return(t)
      BY DEF IInv, ThInv, unlock
    <3>2. /\ th[t].pc \in PlainPcs /\ (At(t, "drain") => th[t].cur = None) /\ th[t].victim = None
      BY <3>1 DEF Control, At, PlainPcs
    <3>3. UNCHANGED <<bo, listed, mem, pool, fwVars>>
      BY DEF unlock, boVars, poolVars, fwVars
    <3> QED
      BY ONLY IInv, t \in Threads, <3>1, <3>2, <3>3, <2>PlainReturn, ZenonT(30)
  <2> QED
    BY <2>ReleasePark, <2>ParkRoom, <2>ParkRecheck, <2>Drain, <2>MaxMbSet, <2>BoInit, <2>AllocCharge,
       <2>AllocUncharge, <2>AllocRetry, <2>Unlock DEF QuietStep
<1>ReleaseStep. IInv /\ (\E t \in Threads : ReleaseStep(t)) => IInv'
  <2>Linked. ASSUME BoType, Alone, NEW b \in Bos, b \notin InPool, pool' = Append(pool, b)
      PROVE  /\ pool' \in Seq(Bos)
             /\ \A x : x \in InPool' <=> x \in InPool \/ x = b
             /\ \A i, j \in 1 .. Len(pool') : pool'[i] = pool'[j] => i = j
    <3> USE <2>Linked
    <3>1. /\ pool' \in Seq(Bos) /\ Len(pool') = Len(pool) + 1 /\ Len(pool) \in Nat
          /\ \A j \in 1 .. Len(pool) : pool'[j] = pool[j]
          /\ pool'[Len(pool) + 1] = b
      BY SMTT(30) DEF BoType
    <3>2. \A x : x \in InPool' <=> x \in InPool \/ x = b
      BY <3>1, SMTT(30) DEF InPool
    <3>3. \A j \in 1 .. Len(pool) : pool[j] # b
      BY DEF InPool
    <3>4. \A i, j \in 1 .. Len(pool') : pool'[i] = pool'[j] => i = j
      BY <3>1, <3>3, SMTT(30) DEF Alone
    <3> QED
      BY <3>1, <3>2, <3>4
  <2>VictimFacts. ASSUME IInv, NEW t \in Threads, NEW c, c = th[t].victim, c # None
      PROVE  /\ c \in Bos /\ Object(c) /\ mem[c] = "parked" /\ c \notin InPool
             /\ ~bo[c].fw_ref /\ ~bo[c].fw_io
             /\ bo[c].kref = 0 /\ bo[c].maps = 0 /\ bo[c].prog_refs = 0 /\ c \notin listed
             /\ \A u \in Threads \ {t} : th[u].victim # c
             /\ \A u \in Threads : th[u].cur # c
    <3> USE <2>VictimFacts
    <3>1. /\ Alone /\ bo \in [Bos -> Objects] /\ None \notin Bos
          /\ \A u \in Threads : th[u].cur \in Bos \cup {None} /\ th[u].victim \in Bos \cup {None}
      BY BasicFacts
    <3>2. c \in Bos
      BY <3>1
    <3>3. Object(c) /\ InHand(t) /\ \A u \in Threads : InHand(u)
      BY <3>2 DEF IInv, ObjInv
    <3>4. mem[c] = "parked" /\ c \notin InPool /\ ~bo[c].fw_ref
      BY <3>3 DEF InHand
    <3>5. ~(bo[c].kref > 0) /\ ~bo[c].fw_io
      BY <3>3, <3>4 DEF Object
    <3>6. bo[c].kref = 0 /\ bo[c].maps = 0 /\ bo[c].prog_refs = 0 /\ c \notin listed
      BY <3>1, <3>2, <3>3, <3>5, <1>NoReferences
    <3>7. \A u \in Threads : th[u].cur # c
      BY <3>1, <3>2, <3>3, <3>4 DEF InHand
    <3>8. \A u \in Threads \ {t} : th[u].victim # c
      BY <3>1 DEF Alone
    <3> QED
      BY <3>2, <3>3, <3>4, <3>5, <3>6, <3>7, <3>8
  <2>MoveReleased. ASSUME ThType, NEW t \in Threads, Released(t)
      PROVE  /\ th' \in [Threads -> Locals]
             /\ th'[t].pc = th[t].ret /\ th'[t].ret = "idle" /\ th'[t].file = th[t].file
             /\ th'[t].todo = th[t].todo /\ th'[t].done = th[t].done /\ th'[t].cur = None
             /\ th'[t].victim = th[t].victim /\ th'[t].prog = th[t].prog
             /\ \A u \in Threads \ {t} : th'[u] = th[u]
    <3> USE <2>MoveReleased
    <3> DEFINE r == [th[t] EXCEPT !.pc = th[t].ret, !.ret = "idle", !.cur = None]
    <3>1. th[t] \in Locals
      BY DEF ThType
    <3>2. r \in Locals
      BY <3>1 DEF Locals, Pcs, UnloadPcs
    <3>3. th' = [th EXCEPT ![t] = r]
      BY DEF Released, ThType
    <3>4. Moved(t, r)
      BY <3>2, <3>3, Move
    <3> QED
      BY <3>1, <3>4 DEF Moved, Locals
  (* Moves within a release, and out of it. *)
  <2>SamePark. ASSUME NEW t \in Threads, th[t].pc \in ReleasePcs \cup {"drain", "alloc"},
             th'[t].pc \in ReleasePcs \cup {"drain", "alloc"}, Control(t),
             th'[t].ret = th[t].ret, th'[t].prog = th[t].prog, th'[t].file = th[t].file,
             th'[t].todo = th[t].todo, th'[t].pc = th[t].pc
      PROVE  Same(t)
    BY <2>SamePark DEF Same, Giving, GivePcs, Locked, Unloading, UnloadPcs, At, Control, Releasing, ReleasePcs
  <2>SameReleased. ASSUME ThType, NEW t \in Threads, th[t].pc \in {"release", "add", "free"}, Control(t),
             Released(t)
      PROVE  /\ Same(t) /\ Control(t)' /\ ThType' /\ \A u \in Threads \ {t} : th'[u] = th[u]
             /\ th[t].cur # None /\ th[t].victim = None /\ th'[t].cur = None /\ th'[t].victim = None
    <3> USE <2>SameReleased
    <3>1. /\ th[t].ret \in {"unlock", "give", "drop"} /\ th[t].cur # None /\ th[t].victim = None
      BY DEF ThType, Locals, Control, Releasing, ReleasePcs
    <3>2. /\ ThType' /\ \A u \in Threads \ {t} : th'[u] = th[u]
          /\ th'[t].pc = th[t].ret /\ th'[t].ret = "idle" /\ th'[t].file = th[t].file
          /\ th'[t].todo = th[t].todo /\ th'[t].cur = None
          /\ th'[t].victim = th[t].victim /\ th'[t].prog = th[t].prog
      BY <2>MoveReleased DEF ThType
    <3>3. Same(t)
      BY ONLY <3>1, <3>2, th[t].pc \in {"release", "add", "free"}, ZenonT(30)
         DEF Same, Giving, GivePcs, Locked, Unloading, UnloadPcs, At, ReleasePcs
    <3>4. Control(t)'
      BY ONLY <3>1, <3>2, ZenonT(30) DEF Control, Releasing, At, ReleasePcs
    <3> QED
      BY <3>1, <3>2, <3>3, <3>4
  (* An object leaves a thread's hands at the end of its release. *)
  <2>ReleasedStep. ASSUME IInv, NEW t \in Threads, th[t].pc \in {"release", "add", "free"}, Released(t),
             NEW c, c = th[t].cur, UNCHANGED fwVars, listed' = listed,
             bo' \in [Bos -> Objects], \A x \in Bos \ {c} : bo'[x] = bo[x],
             mem' \in [Bos -> {"none", "live", "parked", "held"}],
             \A x \in Bos \ {c} : mem'[x] = mem[x],
             pool' \in Seq(Bos), \A x \in Bos \ {c} : x \in InPool' <=> x \in InPool,
             \A i, j \in 1 .. Len(pool') : pool'[i] = pool'[j] => i = j,
             bo'[c].kref = 0, bo'[c].maps = 0, bo'[c].prog_refs = 0,
             mem'[c] = "none" => bo'[c] = Fresh,
             bo'[c].fw_io => bo'[c].fw_ref, bo[c].fw_io => bo'[c].fw_io,
             bo'[c].pooled_sec => c \in InPool' /\ ~bo'[c].fw_ref,
             mem'[c] = "parked" <=> c \in InPool', mem'[c] # "live"
      PROVE  IInv'
    <3> USE <2>ReleasedStep
    <3>0. /\ ThType /\ Control(t) /\ BoType
          /\ \A u \in Threads : th[u].cur \in Bos \cup {None} /\ th[u].victim \in Bos \cup {None}
      BY BasicFacts
    <3>1. /\ Same(t) /\ Control(t)' /\ ThType' /\ \A u \in Threads \ {t} : th'[u] = th[u]
          /\ th[t].cur # None /\ th[t].victim = None /\ th'[t].cur = None /\ th'[t].victim = None
      BY <3>0, <2>SameReleased
    <3>2. /\ c \in Bos /\ c \notin listed /\ bo[c].prog_refs = 0
          /\ \A u \in Threads \ {t} : th[u].cur # c
          /\ \A u \in Threads : th[u].victim # c
      BY ONLY IInv, t \in Threads, c = th[t].cur, <3>1, <1>CurFacts, Zenon
    <3>3. OnlyObject(t, c)
      BY <3>1, <3>2 DEF OnlyObject
    <3>4. BoType'
      BY <3>0 DEF BoType
    <3>5. Object(c)'
      BY ONLY <3>2, listed' = listed, bo'[c].kref = 0, bo'[c].maps = 0, bo'[c].prog_refs = 0,
              mem'[c] = "none" => bo'[c] = Fresh, bo'[c].fw_io => bo'[c].fw_ref,
              bo'[c].pooled_sec => c \in InPool' /\ ~bo'[c].fw_ref,
              mem'[c] = "parked" <=> c \in InPool', mem'[c] # "live", SMTT(30)
         DEF Object, b01
    <3>6. InHand(t)'
      BY <3>1 DEF InHand
    <3> QED
      BY ONLY IInv, t \in Threads, UNCHANGED fwVars, bo[c].fw_io => bo'[c].fw_io,
              bo'[c].prog_refs = 0, \A i, j \in 1 .. Len(pool') : pool'[i] = pool'[j] => i = j, ZenonT(30),
              <3>1, <3>2, <3>3, <3>4, <3>5, <3>6, <1>ObjectStep
  <2>ReleaseFw. ASSUME IInv, NEW t \in Threads, bo_release_fw(t)
      PROVE  IInv'
    <3> USE <2>ReleaseFw
    <3>0. /\ ThType /\ Control(t) /\ BoType /\ Alone /\ bo \in [Bos -> Objects]
      BY BasicFacts
    <3>1. PICK c : c = th[t].cur
      OBVIOUS
    <3>2. /\ th[t].pc \in {"release", "add", "free"} /\ Released(t) /\ bo[c].fw_ref
          /\ UNCHANGED fwVars /\ listed' = listed /\ bo' = bo
      BY <3>1 DEF bo_release_fw, boVars, fwVars, progVars, At
    <3>3. c # None
      BY <3>0, <3>1, <3>2 DEF Control, ReleasePcs
    <3>4. /\ c \in Bos /\ Object(c) /\ mem[c] = "live" /\ c \notin InPool /\ ~bo[c].pooled_sec
          /\ bo[c].kref = 0 /\ bo[c].maps = 0 /\ bo[c].prog_refs = 0
      BY <3>1, <3>3, <1>CurFacts
    <3>5. CASE mem' = [mem EXCEPT ![c] = "held"] /\ pool' = pool
      <4>1. /\ mem' \in [Bos -> {"none", "live", "parked", "held"}] /\ mem'[c] = "held"
            /\ \A x \in Bos \ {c} : mem'[x] = mem[x]
        BY <3>0, <3>4, <3>5 DEF BoType
      <4>2. /\ pool' \in Seq(Bos) /\ InPool' = InPool
            /\ \A i, j \in 1 .. Len(pool') : pool'[i] = pool'[j] => i = j
        BY <3>0, <3>5, SMTT(30) DEF BoType, Alone, InPool
      <4>3. bo[c].fw_io => bo[c].fw_ref
        BY <3>4 DEF Object
      <4> QED
        BY ONLY IInv, t \in Threads, <3>0, <3>1, <3>2, <3>4, <4>1, <4>2, <4>3, <2>ReleasedStep, ZenonT(40)
    <3>6. CASE mem' = [mem EXCEPT ![c] = "parked"] /\ pool' = Append(pool, c)
      <4>1. /\ mem' \in [Bos -> {"none", "live", "parked", "held"}] /\ mem'[c] = "parked"
            /\ \A x \in Bos \ {c} : mem'[x] = mem[x]
        BY <3>0, <3>4, <3>6 DEF BoType
      <4>2. /\ pool' \in Seq(Bos) /\ \A x : x \in InPool' <=> x \in InPool \/ x = c
            /\ \A i, j \in 1 .. Len(pool') : pool'[i] = pool'[j] => i = j
        BY <3>0, <3>4, <3>6, <2>Linked
      <4>3. bo[c].fw_io => bo[c].fw_ref
        BY <3>4 DEF Object
      <4>4. c \in InPool' /\ \A x \in Bos \ {c} : x \in InPool' <=> x \in InPool
        BY ONLY <4>2, ZenonT(30)
      <4> QED
        BY ONLY IInv, t \in Threads, <3>0, <3>1, <3>2, <3>4, <4>1, <4>2, <4>3, <4>4, <2>ReleasedStep, Zenon
    <3> QED
      BY <3>1, <3>5, <3>6 DEF bo_release_fw
  <2>ParkAdd. ASSUME IInv, NEW t \in Threads, pool_park_add(t)
      PROVE  IInv'
    <3> USE <2>ParkAdd
    <3>0. /\ ThType /\ Control(t) /\ BoType /\ Alone /\ bo \in [Bos -> Objects] /\ InHand(t)
      BY BasicFacts
    <3>1. PICK c : c = th[t].cur
      OBVIOUS
    <3>2. /\ th[t].pc \in {"release", "add", "free"} /\ th[t].pc \in QuietPcs /\ Released(t)
          /\ UNCHANGED fwVars /\ listed' = listed /\ bo' = [bo EXCEPT ![c].pooled_sec = TRUE]
          /\ mem' = [mem EXCEPT ![c] = "parked"] /\ pool' = Append(pool, c)
      BY <3>1 DEF pool_park_add, fwVars, At, QuietPcs
    <3>3. c # None
      BY <3>0, <3>1, <3>2 DEF Control, ReleasePcs
    <3>4. /\ c \in Bos /\ Object(c) /\ mem[c] = "live" /\ c \notin InPool
          /\ bo[c].kref = 0 /\ bo[c].maps = 0 /\ bo[c].prog_refs = 0
      BY <3>1, <3>3, <1>CurFacts
    <3>5. ~bo[c].fw_ref /\ ~bo[c].fw_io
      BY <3>0, <3>1, <3>2, <3>3, <3>4 DEF InHand, Object
    <3>6. /\ mem' \in [Bos -> {"none", "live", "parked", "held"}] /\ mem'[c] = "parked"
          /\ \A x \in Bos \ {c} : mem'[x] = mem[x]
      BY <3>0, <3>2, <3>4 DEF BoType
    <3>7. /\ pool' \in Seq(Bos) /\ \A x : x \in InPool' <=> x \in InPool \/ x = c
          /\ \A i, j \in 1 .. Len(pool') : pool'[i] = pool'[j] => i = j
      BY <3>0, <3>2, <3>4, <2>Linked
    <3>8. c \in InPool' /\ \A x \in Bos \ {c} : x \in InPool' <=> x \in InPool
      BY ONLY <3>7, ZenonT(30)
    <3>9. /\ bo' \in [Bos -> Objects] /\ \A x \in Bos \ {c} : bo'[x] = bo[x]
          /\ bo'[c].kref = bo[c].kref /\ bo'[c].maps = bo[c].maps
          /\ bo'[c].prog_refs = bo[c].prog_refs
          /\ (bo'[c].fw_ref <=> bo[c].fw_ref) /\ (bo'[c].fw_io <=> bo[c].fw_io)
      BY <3>0, <3>2, <3>4, <1>WrotePooled
    <3>b. bo' \in [Bos -> Objects]
      BY ONLY <3>9, ZenonT(30)
    <3>10. /\ th[t].pc \in {"release", "add", "free"} /\ Released(t)
           /\ UNCHANGED fwVars /\ listed' = listed
      BY ONLY <3>2, ZenonT(30)
    <3>11. /\ bo'[c].kref = 0 /\ bo'[c].maps = 0 /\ bo'[c].prog_refs = 0
           /\ ~bo'[c].fw_ref /\ ~bo'[c].fw_io
      BY ONLY <3>4, <3>5, <3>9, ZenonT(30)
    <3>12. \A x \in Bos \ {c} : bo'[x] = bo[x]
      BY ONLY <3>9, ZenonT(30)
    <3> QED
      BY ONLY IInv, t \in Threads, <3>1, <3>5, <3>6, <3>7, <3>8, <3>b, <3>10, ZenonT(30),
              <3>11, <3>12, <2>ReleasedStep
  <2>ReleaseFree. ASSUME IInv, NEW t \in Threads, bo_release_free(t)
      PROVE  IInv'
    <3> USE <2>ReleaseFree
    <3>0. /\ ThType /\ Control(t) /\ BoType /\ Alone /\ bo \in [Bos -> Objects] /\ InHand(t)
      BY BasicFacts
    <3>1. PICK c : c = th[t].cur
      OBVIOUS
    <3>2. /\ th[t].pc \in {"release", "add", "free"} /\ th[t].pc \in QuietPcs /\ Released(t)
          /\ UNCHANGED fwVars /\ listed' = listed /\ bo' = [bo EXCEPT ![c] = Fresh]
          /\ mem' = [mem EXCEPT ![c] = "none"] /\ pool' = pool
      BY <3>1 DEF bo_release_free, Free, fwVars, At, QuietPcs
    <3>3. c # None
      BY <3>0, <3>1, <3>2 DEF Control, ReleasePcs
    <3>4. /\ c \in Bos /\ Object(c) /\ mem[c] = "live" /\ c \notin InPool
      BY <3>1, <3>3, <1>CurFacts
    <3>5. ~bo[c].fw_io
      BY <3>0, <3>1, <3>2, <3>3, <3>4 DEF InHand, Object
    <3>6. /\ mem' \in [Bos -> {"none", "live", "parked", "held"}] /\ mem'[c] = "none"
          /\ \A x \in Bos \ {c} : mem'[x] = mem[x]
      BY <3>0, <3>2, <3>4 DEF BoType
    <3>7. /\ pool' \in Seq(Bos) /\ InPool' = InPool
          /\ \A i, j \in 1 .. Len(pool') : pool'[i] = pool'[j] => i = j
      BY <3>0, <3>2, SMTT(30) DEF BoType, Alone, InPool
    <3>8. /\ bo' \in [Bos -> Objects] /\ bo'[c] = Fresh /\ \A x \in Bos \ {c} : bo'[x] = bo[x]
      BY <3>0, <3>2, <3>4, <1>Fresh0, Wrote
    <3>9. /\ bo'[c].kref = 0 /\ bo'[c].maps = 0 /\ bo'[c].prog_refs = 0
          /\ ~bo'[c].fw_ref /\ ~bo'[c].fw_io /\ ~bo'[c].pooled_sec
      BY ONLY <3>8, <1>Fresh0, ZenonT(30)
    <3> QED
      BY ONLY IInv, t \in Threads, <3>1, <3>2, <3>4, <3>5, <3>6, <3>7, <3>8, <3>9, <2>ReleasedStep, ZenonT(40)
  <2>ReleaseEnt. ASSUME IInv, NEW t \in Threads, pool_release_ent(t)
      PROVE  IInv'
    <3> USE <2>ReleaseEnt
    <3>0. /\ ThType /\ Control(t) /\ BoType /\ Alone /\ bo \in [Bos -> Objects] /\ InHand(t)
          /\ th[t] \in Locals
          /\ \A u \in Threads : th[u].cur \in Bos \cup {None} /\ th[u].victim \in Bos \cup {None}
      BY BasicFacts
    <3>1. PICK c : c = th[t].victim
      OBVIOUS
    <3>2. /\ UNCHANGED fwVars /\ listed' = listed /\ bo' = [bo EXCEPT ![c] = Fresh] /\ c # None
          /\ mem' = [mem EXCEPT ![c] = "none"] /\ pool' = pool
          /\ th' = [th EXCEPT ![t].victim = None]
      BY <3>1 DEF pool_release_ent, Free, fwVars
    <3>3. /\ c \in Bos /\ mem[c] = "parked" /\ c \notin InPool /\ ~bo[c].fw_io /\ bo[c].prog_refs = 0
          /\ c \notin listed /\ \A u \in Threads \ {t} : th[u].victim # c
          /\ \A u \in Threads : th[u].cur # c
      BY <3>1, <3>2, <2>VictimFacts, SMTT(30)
    <3>4. /\ th' \in [Threads -> Locals] /\ \A u \in Threads \ {t} : th'[u] = th[u]
          /\ th'[t].pc = th[t].pc /\ th'[t].ret = th[t].ret /\ th'[t].file = th[t].file
          /\ th'[t].todo = th[t].todo /\ th'[t].cur = th[t].cur
          /\ th'[t].victim = None /\ th'[t].prog = th[t].prog
      <4> DEFINE r == [th[t] EXCEPT !.victim = None]
      <4>1. r \in Locals
        BY ONLY <3>0, ZenonT(30) DEF Locals
      <4>2. th' = [th EXCEPT ![t] = r]
        BY <3>0, <3>2 DEF ThType
      <4>3. Moved(t, r)
        BY <3>0, <4>1, <4>2, Move
      <4> QED
        BY ONLY <3>0, <4>3, ZenonT(30) DEF Moved, Locals
    <3>5. Control(t)' /\ Same(t) /\ ThType'
      <4>1. th[t].pc \in ReleasePcs \cup {"drain", "alloc"}
        BY <3>0, <3>1, <3>2 DEF Control, ReleasePcs
      <4>2. Same(t)
        BY ONLY t \in Threads, <3>0, <3>4, <4>1, <2>SamePark, ZenonT(30)
      <4>3. Control(t)'
        BY ONLY <3>0, <3>4, Zenon DEF Control, Releasing, At
      <4> QED
        BY <3>4, <4>2, <4>3 DEF ThType
    <3>6. /\ mem' \in [Bos -> {"none", "live", "parked", "held"}] /\ mem'[c] = "none"
          /\ \A x \in Bos \ {c} : mem'[x] = mem[x]
      BY <3>0, <3>2, <3>3 DEF BoType
    <3>7. /\ pool' \in Seq(Bos) /\ InPool' = InPool
          /\ \A i, j \in 1 .. Len(pool') : pool'[i] = pool'[j] => i = j
      BY <3>0, <3>2, SMTT(30) DEF BoType, Alone, InPool
    <3>8. /\ bo' \in [Bos -> Objects] /\ bo'[c] = Fresh /\ \A x \in Bos \ {c} : bo'[x] = bo[x]
      BY <3>0, <3>2, <3>3, <1>Fresh0, Wrote
    <3>9. /\ bo'[c].kref = 0 /\ bo'[c].maps = 0 /\ bo'[c].prog_refs = 0
          /\ ~bo'[c].fw_ref /\ ~bo'[c].fw_io /\ ~bo'[c].pooled_sec
      BY ONLY <3>8, <1>Fresh0, ZenonT(30)
    <3>10. OnlyObject(t, c)
      BY ONLY <3>0, <3>1, <3>2, <3>3, <3>4, <3>6, <3>7, <3>8, SMTT(30) DEF OnlyObject
    <3>11. BoType'
      BY ONLY <3>0, <3>2, <3>6, <3>7, <3>8, ZenonT(30) DEF BoType
    <3>12. Object(c)'
      BY ONLY <3>2, <3>3, <3>6, <3>7, <3>8, <3>9, SMTT(30) DEF Object, b01
    <3>13. InHand(t)'
      BY ONLY <3>0, <3>3, <3>4, <3>6, <3>8, t \in Threads, SMTT(30) DEF InHand
    <3> QED
      BY ONLY IInv, t \in Threads, <3>2, <3>3, <3>5, <3>7, <3>9, <3>10, <3>11, <3>12, <3>13, <1>ObjectStep, ZenonT(30)
  <2> QED
    BY <2>ReleaseFw, <2>ParkAdd, <2>ReleaseFree, <2>ReleaseEnt DEF ReleaseStep
<1>TakeStep. IInv /\ (\E t \in Threads : TakeStep(t)) => IInv'
  (* BO_INIT takes an object in hand. *)
  <2>TakeHand. ASSUME IInv, NEW t \in Threads, NEW c \in Bos, th[t].pc \in PlainPcs,
             th[t].cur = None, th[t].victim = None, th[t].ret = "idle",
             th' = [th EXCEPT ![t].pc = "publish", ![t].cur = c]
      PROVE  /\ ThType' /\ Control(t)' /\ Same(t) /\ \A u \in Threads \ {t} : th'[u] = th[u]
             /\ th'[t].pc = "publish" /\ th'[t].cur = c /\ th'[t].victim = None
    <3> USE <2>TakeHand
    <3>0. ThType /\ th[t] \in Locals
      BY BasicFacts
    <3> DEFINE r == [th[t] EXCEPT !.pc = "publish", !.cur = c]
    <3>1. "publish" \in Pcs /\ None # c
      BY DEF Pcs
    <3>2. /\ r \in Locals /\ r.pc = "publish" /\ r.cur = c /\ r.victim = th[t].victim
          /\ r.ret = th[t].ret
      BY ONLY <3>0, <3>1, c \in Bos, Zenon DEF Locals
    <3>3. th' = [th EXCEPT ![t] = r]
      BY <3>0 DEF ThType
    <3>4. Moved(t, r)
      BY ONLY t \in Threads, <3>0, <3>2, <3>3, Move, ZenonT(40)
    <3> HIDE DEF r
    <3>5. /\ ThType' /\ \A u \in Threads \ {t} : th'[u] = th[u]
          /\ th'[t].pc = "publish" /\ th'[t].cur = c /\ th'[t].victim = None /\ th'[t].ret = "idle"
      BY ONLY <3>2, <3>4, th[t].victim = None, th[t].ret = "idle", ZenonT(30) DEF Moved, ThType
    <3>6. Control(t)'
      BY ONLY <3>1, <3>5, ZenonT(30) DEF Control, Releasing, At, ReleasePcs
    <3>7. Same(t)
      BY ONLY <3>5, th[t].pc \in PlainPcs, th[t].ret = "idle", ZenonT(30)
         DEF Same, Locked, Unloading, UnloadPcs, Giving, At, PlainPcs
    <3> QED
      BY ONLY <3>5, <3>6, <3>7, Zenon
  <2>PoolTake. ASSUME IInv, NEW t \in Threads, pool_take(t)
      PROVE  IInv'
    <3> USE <2>PoolTake
    <3>0. /\ ThType /\ Control(t) /\ BoType /\ Alone /\ bo \in [Bos -> Objects] /\ None \notin Bos
          /\ \A u \in Threads : th[u].cur \in Bos \cup {None} /\ th[u].victim \in Bos \cup {None}
      BY BasicFacts
    <3>1. /\ At(t, "take") /\ UNCHANGED fwVars /\ listed' = listed
      BY DEF pool_take, fwVars
    <3>2. /\ th[t].pc \in PlainPcs /\ (At(t, "drain") => th[t].cur = None) /\ th[t].victim = None
      BY <3>0, <3>1 DEF Control, At, PlainPcs
    <3>3. th[t].ret = "idle" /\ th[t].cur = None
      BY <3>2, <1>IdleThread
    <3>4. CASE Goto(t, "alloc") /\ UNCHANGED <<mem, pool, bo>>
      <4>1. Goto(t, "alloc") /\ UNCHANGED <<bo, listed, mem, pool, fwVars>>
        BY <3>1, <3>4
      <4>2. "alloc" \in PlainPcs
        BY DEF PlainPcs
      <4> QED
        BY ONLY IInv, t \in Threads, <3>2, <4>1, <4>2, <1>PlainGoto, ZenonT(30)
    <3>5. ASSUME NEW k \in 1 .. Len(pool), Taken(t, k) PROVE IInv'
      <4>1. pool[k] \in Bos /\ pool[k] \in InPool
        BY <3>0, <1>Entry
      <4>2. PICK c \in Bos : c = pool[k]
        BY <4>1
      <4>3. /\ pool' = list_del(k) /\ bo' = [bo EXCEPT ![c].pooled_sec = FALSE]
            /\ mem' = [mem EXCEPT ![c] = "live"]
            /\ th' = [th EXCEPT ![t].pc = "publish", ![t].cur = c]
        BY <3>5, <4>2 DEF Taken
      <4>4. /\ Object(c) /\ mem[c] = "parked" /\ \A u \in Threads : th[u].cur # c /\ th[u].victim # c
        BY <4>1, <4>2, <1>PoolAlone DEF IInv, ObjInv, Object
      <4>5. ~(bo[c].kref > 0) /\ (bo[c].fw_io => bo[c].fw_ref)
        BY <4>4 DEF Object
      <4>6. bo[c].kref = 0 /\ bo[c].maps = 0 /\ bo[c].prog_refs = 0 /\ c \notin listed
        BY <3>0, <4>4, <4>5, <1>NoReferences
      <4>7. /\ ThType' /\ Control(t)' /\ Same(t) /\ \A u \in Threads \ {t} : th'[u] = th[u]
            /\ th'[t].pc = "publish" /\ th'[t].cur = c /\ th'[t].victim = None
        BY ONLY IInv, t \in Threads, <3>2, <3>3, <4>3, <2>TakeHand, ZenonT(40)
      <4>8. /\ pool' \in Seq(Bos) /\ \A x : x \in InPool' <=> x \in InPool /\ x # c
            /\ \A i, j \in 1 .. Len(pool') : pool'[i] = pool'[j] => i = j
        BY <3>0, <4>1, <4>2, <4>3, <1>Unlinked
      <4>9. /\ bo' \in [Bos -> Objects] /\ \A x \in Bos \ {c} : bo'[x] = bo[x]
            /\ bo'[c].kref = 0 /\ bo'[c].maps = 0 /\ bo'[c].prog_refs = 0
            /\ (bo'[c].fw_ref <=> bo[c].fw_ref) /\ (bo'[c].fw_io <=> bo[c].fw_io)
            /\ ~bo'[c].pooled_sec
        BY <3>0, <4>3, <4>6, <1>WrotePooled
      <4>10. /\ mem' \in [Bos -> {"none", "live", "parked", "held"}] /\ mem'[c] = "live"
             /\ \A x \in Bos \ {c} : mem'[x] = mem[x]
        BY <3>0, <4>3 DEF BoType
      <4>11. BoType'
        BY ONLY <3>0, <3>1, <4>8, <4>9, <4>10, ZenonT(30) DEF BoType
      <4>12. OnlyObject(t, c)
        BY ONLY <3>1, <3>2, <3>3, <4>4, <4>7, <4>8, <4>9, <4>10, ZenonT(40) DEF OnlyObject
      <4>13. Object(c)'
        <5>1. /\ c \notin InPool' /\ c \notin listed' /\ \E u \in Threads : th'[u].cur = c
              /\ (bo'[c].fw_io => bo'[c].fw_ref)
          BY ONLY t \in Threads, <3>1, <4>5, <4>6, <4>7, <4>8, <4>9, ZenonT(30)
        <5> QED
          BY ONLY <4>9, <4>10, <5>1, SMTT(30) DEF Object, b01
      <4>14. InHand(t)'
        BY ONLY <4>7, <4>9, <4>10, ZenonT(40) DEF InHand, QuietPcs
      <4>15. bo'[c].prog_refs = bo[c].prog_refs /\ (bo[c].fw_io => bo'[c].fw_io)
        BY ONLY <4>6, <4>9, ZenonT(30)
      <4> QED
        BY ONLY IInv, t \in Threads, c \in Bos, <3>1, <4>7, <4>8, <4>11, <4>12, <4>13, <4>14, <4>15,
                <1>ObjectStep, ZenonT(30)
    <3>6. (Goto(t, "alloc") /\ UNCHANGED <<mem, pool, bo>>) \/ \E k \in 1 .. Len(pool) : Taken(t, k)
      BY DEF pool_take, Taken
    <3> QED
      BY <3>4, <3>5, <3>6
  <2>AllocDma. ASSUME IInv, NEW t \in Threads, bo_alloc_dma(t)
      PROVE  IInv'
    <3> USE <2>AllocDma
    <3>0. /\ ThType /\ Control(t) /\ BoType /\ Alone /\ bo \in [Bos -> Objects] /\ None \notin Bos
          /\ th[t] \in Locals
      BY BasicFacts
    <3>1. /\ At(t, "dma") /\ UNCHANGED fwVars /\ listed' = listed /\ pool' = pool /\ bo' = bo
      BY DEF bo_alloc_dma, boVars, fwVars
    <3>2. /\ th[t].pc \in PlainPcs /\ (At(t, "drain") => th[t].cur = None) /\ th[t].victim = None
      BY <3>0, <3>1 DEF Control, At, PlainPcs
    <3>3. th[t].ret = "idle" /\ th[t].cur = None
      BY <3>2, <1>IdleThread
    <3>4. ASSUME NEW ret \in {"uncharge", "refuse"}, Goto(t, ret), mem' = mem
          PROVE  IInv'
      <4>1. UNCHANGED <<bo, listed, mem, pool, fwVars>> /\ ret \in PlainPcs
        BY <3>1, <3>4 DEF PlainPcs
      <4> QED
        BY ONLY IInv, t \in Threads, <3>2, <3>4, <4>1, <1>PlainGoto, ZenonT(30)
    <3>5. ASSUME NEW c \in th[t].todo, mem[c] = "none", mem' = [mem EXCEPT ![c] = "live"],
                 th' = [th EXCEPT ![t].pc = "publish", ![t].cur = c]
          PROVE  IInv'
      <4>1. c \in Bos
        BY <3>0 DEF Locals
      <4>2. Object(c) /\ \A u \in Threads : InHand(u)
        BY <4>1 DEF IInv, ObjInv
      <4>3. bo[c] = Fresh /\ c \notin InPool
        BY <3>5, <4>2 DEF Object
      <4>4. \A u \in Threads : th[u].cur # c /\ th[u].victim # c
        BY ONLY <3>0, <3>5, <4>1, <4>2, ZenonT(30) DEF InHand
      <4>5. /\ bo[c].kref = 0 /\ bo[c].maps = 0 /\ bo[c].prog_refs = 0
            /\ ~bo[c].fw_ref /\ ~bo[c].fw_io /\ ~bo[c].pooled_sec
        BY ONLY <4>3, <1>Fresh0, ZenonT(30)
      <4>6. c \notin listed
        BY <3>0, <4>1, <4>2, <4>5, <1>NoReferences, SMTT(30)
      <4>7. /\ ThType' /\ Control(t)' /\ Same(t) /\ \A u \in Threads \ {t} : th'[u] = th[u]
            /\ th'[t].pc = "publish" /\ th'[t].cur = c /\ th'[t].victim = None
        BY ONLY IInv, t \in Threads, <3>2, <3>3, <3>5, <4>1, <2>TakeHand, ZenonT(40)
      <4>8. /\ pool' \in Seq(Bos) /\ InPool' = InPool
            /\ \A i, j \in 1 .. Len(pool') : pool'[i] = pool'[j] => i = j
        BY <3>0, <3>1, SMTT(30) DEF BoType, Alone, InPool
      <4>9. /\ mem' \in [Bos -> {"none", "live", "parked", "held"}] /\ mem'[c] = "live"
            /\ \A x \in Bos \ {c} : mem'[x] = mem[x]
        BY <3>0, <3>5, <4>1 DEF BoType
      <4>10. BoType'
        BY ONLY <3>0, <3>1, <4>8, <4>9, ZenonT(30) DEF BoType
      <4>11. OnlyObject(t, c)
        BY ONLY <3>1, <3>2, <3>3, <4>4, <4>7, <4>8, <4>9, ZenonT(30) DEF OnlyObject
      <4>12. Object(c)'
        <5>1. \E u \in Threads : th'[u].cur = c
          BY ONLY t \in Threads, <4>7, ZenonT(30)
        <5> QED
          BY ONLY <3>1, <4>3, <4>5, <4>6, <4>8, <4>9, <5>1, SMTT(30) DEF Object, b01
      <4>13. InHand(t)'
        BY ONLY <3>1, <4>5, <4>7, <4>9, ZenonT(30) DEF InHand, QuietPcs
      <4>14. bo'[c].prog_refs = bo[c].prog_refs /\ (bo[c].fw_io => bo'[c].fw_io)
        BY ONLY <3>1, ZenonT(30)
      <4> QED
        BY ONLY IInv, t \in Threads, <3>1, <4>1, <4>7, <4>8, <4>10, <4>11, <4>12, <4>13, <4>14,
                <1>ObjectStep, ZenonT(30)
    <3> QED
      BY <3>4, <3>5 DEF bo_alloc_dma
  <2>Publish. ASSUME IInv, NEW t \in Threads, bo_publish(t)
      PROVE  IInv'
    <3> USE <2>Publish
    <3>0. /\ ThType /\ Control(t) /\ BoType /\ Alone /\ bo \in [Bos -> Objects] /\ None \notin Bos
          /\ th[t] \in Locals
          /\ \A u \in Threads : th[u].cur \in Bos \cup {None} /\ th[u].victim \in Bos \cup {None}
      BY BasicFacts
    <3>1. PICK c : c = th[t].cur
      OBVIOUS
    <3>2. /\ At(t, "publish") /\ Return(t) /\ listed' = listed \cup {c}
          /\ bo' = [bo EXCEPT ![c].owner = th[t].file, ![c].kref = 1]
          /\ mem' = mem /\ pool' = pool /\ UNCHANGED fwVars
      BY <3>1 DEF bo_publish, poolVars, fwVars
    <3>3. c # None /\ th[t].ret = "idle" /\ th[t].victim = None
      BY <3>0, <3>1, <3>2 DEF Control, At, Releasing, ReleasePcs
    <3>4. /\ c \in Bos /\ Object(c) /\ mem[c] = "live" /\ c \notin InPool /\ ~bo[c].pooled_sec
          /\ bo[c].maps = 0 /\ bo[c].prog_refs = 0
          /\ \A u \in Threads \ {t} : th[u].cur # c
          /\ \A u \in Threads : th[u].victim # c
      BY <3>1, <3>3, <1>CurFacts, SMTT(30)
    <3>5. ThType' /\ th'[t] = Rest /\ \A u \in Threads \ {t} : th'[u] = th[u]
      BY <3>0, <3>2, MoveReturn DEF Moved, ThType
    <3>6. /\ th'[t].pc = "idle" /\ th'[t].ret = "idle" /\ th'[t].cur = None /\ th'[t].victim = None
      BY ONLY <3>5 DEF Rest
    <3>7. Control(t)' /\ Same(t) /\ InHand(t)'
      BY ONLY <3>2, <3>3, <3>6, ZenonT(30)
         DEF Control, Releasing, At, ReleasePcs, Same, Locked, Unloading, UnloadPcs, Giving, InHand
    <3>8. /\ bo' \in [Bos -> Objects] /\ \A x \in Bos \ {c} : bo'[x] = bo[x]
          /\ bo'[c].kref = 1 /\ bo'[c].maps = 0 /\ bo'[c].prog_refs = 0
          /\ bo'[c].fw_ref = bo[c].fw_ref /\ bo'[c].fw_io = bo[c].fw_io
          /\ bo'[c].pooled_sec = bo[c].pooled_sec
      <4> DEFINE r == [bo[c] EXCEPT !.owner = th[t].file, !.kref = 1]
      <4>1. bo[c] \in Objects /\ th[t].file \in Files \cup {None}
        BY <3>0, <3>4 DEF Locals
      <4>2. /\ r \in Objects /\ r.kref = 1 /\ r.maps = bo[c].maps /\ r.prog_refs = bo[c].prog_refs
            /\ r.fw_ref = bo[c].fw_ref /\ r.fw_io = bo[c].fw_io /\ r.pooled_sec = bo[c].pooled_sec
        BY ONLY <4>1, Zenon DEF Objects
      <4>3. bo' = [bo EXCEPT ![c] = r]
        BY <3>0, <3>2, <3>4
      <4> HIDE DEF r
      <4>4. bo' \in [Bos -> Objects] /\ bo'[c] = r /\ \A x \in Bos \ {c} : bo'[x] = bo[x]
        BY ONLY <3>0, <3>4, <4>2, <4>3, Wrote, Zenon
      <4> QED
        BY ONLY <3>4, <4>2, <4>4, ZenonT(40)
    <3>9. /\ InPool' = InPool /\ \A i, j \in 1 .. Len(pool') : pool'[i] = pool'[j] => i = j
      BY <3>0, <3>2, SMTT(30) DEF Alone, InPool
    <3>10. BoType'
      BY ONLY <3>0, <3>2, <3>4, <3>8, ZenonT(30) DEF BoType
    <3>11. OnlyObject(t, c)
      BY ONLY <3>1, <3>2, <3>3, <3>4, <3>5, <3>6, <3>8, <3>9, ZenonT(40) DEF OnlyObject
    <3>12. Object(c)'
      <4>1. bo[c].fw_io => bo[c].fw_ref
        BY <3>4 DEF Object
      <4>2. bo'[c].kref > 0 /\ bo'[c].kref # 0 /\ mem'[c] = "live" /\ c \in listed'
            /\ c \notin InPool' /\ ~bo'[c].pooled_sec
        BY ONLY <3>2, <3>4, <3>8, <3>9, SMTT(30)
      <4> QED
        BY ONLY <3>8, <4>1, <4>2 DEF Object, b01
    <3>13. bo'[c].prog_refs = bo[c].prog_refs /\ (bo[c].fw_io => bo'[c].fw_io)
      BY ONLY <3>4, <3>8, Zenon
    <3> QED
      BY ONLY IInv, t \in Threads, <3>2, <3>4, <3>5, <3>7, <3>9, <3>10, <3>11, <3>12, <3>13, <1>ObjectStep, ZenonT(40)
  <2>Mmap. ASSUME IInv, NEW t \in Threads, NEW f \in Files, NEW b \in Bos, mmap(t, f, b)
      PROVE  IInv'
    <3> USE <2>Mmap
    <3>0. /\ ThType /\ Control(t) /\ BoType /\ Alone /\ bo \in [Bos -> Objects] /\ InHand(t)
      BY BasicFacts
    <3>1. /\ bo' = [bo EXCEPT ![b].maps = @ + 1, ![b].kref = @ + 1]
          /\ th' = th /\ listed' = listed /\ mem' = mem /\ pool' = pool /\ UNCHANGED fwVars
          /\ b \in listed \/ bo[b].maps > 0
      BY DEF mmap, Owns, poolVars, fwVars
    <3>2. /\ Object(b) /\ mem[b] = "live" /\ b \notin InPool /\ ~bo[b].pooled_sec
          /\ \A u \in Threads : th[u].cur # b /\ th[u].victim # b
      BY <3>1, UsedFacts
    <3>3. /\ bo[b] \in Objects /\ bo[b].kref \in Nat /\ bo[b].maps \in Nat /\ bo[b].prog_refs \in Nat
          /\ bo[b].kref = b01(b \in listed) + bo[b].maps + bo[b].prog_refs
          /\ b01(b \in listed) \in {0, 1}
      BY RefCount
    <3>4. /\ bo' \in [Bos -> Objects] /\ \A x \in Bos \ {b} : bo'[x] = bo[x]
          /\ bo'[b].kref = bo[b].kref + 1 /\ bo'[b].maps = bo[b].maps + 1
          /\ bo'[b].prog_refs = bo[b].prog_refs
          /\ bo'[b].fw_ref = bo[b].fw_ref /\ bo'[b].fw_io = bo[b].fw_io
          /\ bo'[b].pooled_sec = bo[b].pooled_sec
      <4> DEFINE r == [bo[b] EXCEPT !.maps = bo[b].maps + 1, !.kref = bo[b].kref + 1]
      <4>0. bo[b] \in Objects /\ bo[b].kref + 1 \in Nat /\ bo[b].maps + 1 \in Nat
        BY ONLY <3>3
      <4>1. /\ r \in Objects /\ r.kref = bo[b].kref + 1 /\ r.maps = bo[b].maps + 1
            /\ r.prog_refs = bo[b].prog_refs /\ r.fw_ref = bo[b].fw_ref
            /\ r.fw_io = bo[b].fw_io /\ r.pooled_sec = bo[b].pooled_sec
        BY ONLY <4>0, Zenon DEF Objects
      <4>2. bo' = [bo EXCEPT ![b] = r]
        BY <3>0, <3>1
      <4> HIDE DEF r
      <4>3. bo' \in [Bos -> Objects] /\ bo'[b] = r /\ \A x \in Bos \ {b} : bo'[x] = bo[x]
        BY ONLY <3>0, b \in Bos, <4>1, <4>2, Wrote, ZenonT(30)
      <4> QED
        BY ONLY <4>1, <4>3, ZenonT(30)
    <3>5. /\ InPool' = InPool /\ \A i, j \in 1 .. Len(pool') : pool'[i] = pool'[j] => i = j
      BY <3>0, <3>1, SMTT(30) DEF Alone, InPool
    <3>6. BoType'
      BY ONLY <3>0, <3>1, <3>4, ZenonT(30) DEF BoType
    <3>7. OnlyObject(t, b)
      BY ONLY <3>1, <3>2, <3>4, <3>5, ZenonT(30) DEF OnlyObject
    <3>8. Object(b)'
      <4>1. bo'[b].kref = b01(b \in listed') + bo'[b].maps + bo'[b].prog_refs
        <5>1. b01(b \in listed') = b01(b \in listed)
          BY ONLY <3>1, ZenonT(30)
        <5> QED
          BY ONLY <3>3, <3>4, <5>1
      <4>2. bo'[b].kref # 0
        BY ONLY <3>3, <3>4
      <4>3. /\ mem'[b] = "live" /\ b \notin InPool' /\ ~bo'[b].pooled_sec
            /\ (bo'[b].fw_io => bo'[b].fw_ref)
        BY ONLY <3>1, <3>2, <3>4, <3>5, ZenonT(30) DEF Object
      <4> QED
        BY ONLY <4>1, <4>2, <4>3, ZenonT(30) DEF Object, b01
    <3>9. ThType' /\ Control(t)' /\ Same(t)
      BY ONLY <3>0, <3>1, ZenonT(30) DEF ThType, Control, Releasing, At, Same
    <3>10. InHand(t)'
      BY ONLY <3>0, <3>1, <3>2, <3>4, <3>5, t \in Threads, BasicFacts, IInv, ZenonT(30) DEF InHand
    <3>11. bo'[b].prog_refs = bo[b].prog_refs /\ (bo[b].fw_io => bo'[b].fw_io)
      BY ONLY <3>4, ZenonT(30)
    <3> QED
      BY ONLY IInv, t \in Threads, b \in Bos, <3>1, <3>5, <3>6, <3>7, <3>8, <3>9, <3>10, <3>11,
              <1>ObjectStep, ZenonT(40)
  <2> QED
    BY <2>PoolTake, <2>AllocDma, <2>Publish, <2>Mmap DEF TakeStep
<1>PutRef. IInv /\ (\E t \in Threads : PutRef(t)) => IInv'
  (* A handle or a mapping is dropped. *)
  <2>PutPlain. ASSUME IInv, NEW t \in Threads, NEW c \in Bos, NEW new \in Objects, NEW rest \in Locals,
             NEW ret \in {"unlock", "drop"}, Put(t, c, new, rest, ret),
             c \in listed \/ bo[c].maps > 0,
             new.kref = bo[c].kref, new.kref - 1 = b01(c \in listed') + new.maps + new.prog_refs,
             new.prog_refs = bo[c].prog_refs, new.fw_ref = bo[c].fw_ref, new.fw_io = bo[c].fw_io,
             new.pooled_sec = bo[c].pooled_sec,
             rest.ret = "idle", rest.cur = None, rest.victim = None, th[t].pc \in {"idle", "drop"},
             listed' \subseteq Bos, \A x \in Bos \ {c} : x \in listed' <=> x \in listed,
             mem' = mem, pool' = pool, UNCHANGED fwVars
      PROVE  IInv'
    <3> USE <2>PutPlain
    <3>1. Control(t) /\ Object(c)
      BY DEF IInv, ThInv, ObjInv
    <3>2. th[t].cur = None /\ th[t].victim = None /\ th[t].ret = "idle"
      BY ONLY <3>1, th[t].pc \in {"idle", "drop"}, ZenonT(30) DEF Control, Releasing, At, ReleasePcs
    <3>3. new.fw_io => new.fw_ref
      BY ONLY <3>1, new.fw_ref = bo[c].fw_ref, new.fw_io = bo[c].fw_io, ZenonT(30) DEF Object
    <3>c. c \in listed \/ bo[c].maps > 0 \/ bo[c].prog_refs > 0
      OBVIOUS
    <3>4. ret \in {"unlock", "give", "drop"} /\ (new.pooled_sec <=> bo[c].pooled_sec)
      OBVIOUS
    <3>5. /\ ThInv' /\ ObjInv' /\ \A u \in Threads \ {t} : th'[u] = th[u]
          /\ \/ th'[t].pc = "release" /\ th'[t].ret = ret
             \/ th'[t].pc = ret /\ th'[t].ret = "idle"
          /\ bo'[c].prog_refs = new.prog_refs /\ (bo'[c].fw_io <=> new.fw_io)
          /\ \A x \in Bos \ {c} : bo'[x] = bo[x]
      BY ONLY IInv, t \in Threads, c \in Bos, new \in Objects, rest \in Locals, Put(t, c, new, rest, ret),
              new.kref = bo[c].kref, new.kref - 1 = b01(c \in listed') + new.maps + new.prog_refs,
              rest.ret = "idle", rest.cur = None, rest.victim = None,
              listed' \subseteq Bos, \A x \in Bos \ {c} : x \in listed' <=> x \in listed,
              mem' = mem, pool' = pool, <3>2, <3>3, <3>c, <3>4, PutStep, SMTT(60)
    <3>6. Same(t)
      BY ONLY <3>2, <3>5, th[t].pc \in {"idle", "drop"}, ret \in {"unlock", "drop"}, Zenon
         DEF Same, Locked, Unloading, UnloadPcs, Giving, At
    <3>7. \A u \in Threads : Same(u)
      BY ONLY <3>5, <3>6, ZenonT(40) DEF Same
    <3>8. \A b \in Bos : /\ bo'[b].prog_refs = bo[b].prog_refs
                         /\ bo[b].fw_io => bo'[b].fw_io
      BY ONLY <3>5, new.prog_refs = bo[c].prog_refs, new.fw_io = bo[c].fw_io, ZenonT(30)
    <3>9. ThType /\ FwInv
      BY DEF IInv, ThInv
    <3>10. FwInv'
      BY ONLY <3>7, <3>8, <3>9, UNCHANGED fwVars, FwFrame, ZenonT(30)
    <3> QED
      BY <3>5, <3>10 DEF IInv
  <2>BoFree. ASSUME IInv, NEW t \in Threads, NEW f \in Files, NEW b \in Bos, bo_free(t, f, b)
      PROVE  IInv'
    <3> USE <2>BoFree
    <3>1. /\ th[t].pc \in {"idle", "drop"} /\ b \in listed /\ listed' = listed \ {b}
          /\ Put(t, b, bo[b], [Rest EXCEPT !.file = f], "unlock")
          /\ mem' = mem /\ pool' = pool /\ UNCHANGED fwVars
      BY DEF bo_free, MayCall, At, Owns, poolVars, fwVars
    <3>2. /\ [Rest EXCEPT !.file = f] \in Locals /\ [Rest EXCEPT !.file = f].ret = "idle"
          /\ [Rest EXCEPT !.file = f].cur = None /\ [Rest EXCEPT !.file = f].victim = None
      BY Rests DEF Rest, Locals
    <3>3. /\ bo[b] \in Objects
          /\ bo[b].kref - 1 = b01(b \in listed') + bo[b].maps + bo[b].prog_refs
      <4>1. b \notin listed'
        BY <3>1
      <4>2. b01(b \in listed) = 1 /\ b01(b \in listed') = 0
        BY ONLY <3>1, <4>1, ZenonT(30) DEF b01
      <4>3. /\ bo[b] \in Objects /\ bo[b].kref \in Nat /\ bo[b].maps \in Nat /\ bo[b].prog_refs \in Nat
            /\ bo[b].kref = b01(b \in listed) + bo[b].maps + bo[b].prog_refs
        BY RefCount
      <4> QED
        BY ONLY <4>2, <4>3
    <3>4. listed' \subseteq Bos /\ \A x \in Bos \ {b} : x \in listed' <=> x \in listed
      BY <3>1 DEF IInv, ObjInv, BoType
    <3> QED
      BY ONLY IInv, t \in Threads, b \in Bos, <3>1, <3>2, <3>3, <3>4, <2>PutPlain, ZenonT(40)
  <2>VmClose. ASSUME IInv, NEW t \in Threads, NEW b \in Bos, vm_close(t, b)
      PROVE  IInv'
    <3> USE <2>VmClose
    <3> DEFINE new == [bo[b] EXCEPT !.maps = @ - 1]
               rest == [Rest EXCEPT !.file = bo[b].owner]
    <3>1. /\ th[t].pc \in {"idle", "drop"} /\ bo[b].maps > 0 /\ listed' = listed
          /\ Put(t, b, new, rest, "unlock")
          /\ mem' = mem /\ pool' = pool /\ UNCHANGED fwVars
      BY DEF vm_close, At, poolVars, fwVars
    <3>2. /\ bo[b] \in Objects /\ bo[b].kref \in Nat /\ bo[b].maps \in Nat /\ bo[b].prog_refs \in Nat
          /\ bo[b].owner \in Files \cup {None}
          /\ bo[b].kref = b01(b \in listed) + bo[b].maps + bo[b].prog_refs
          /\ b01(b \in listed) \in {0, 1}
      BY RefCount
    <3>3. rest \in Locals /\ rest.ret = "idle" /\ rest.cur = None /\ rest.victim = None
      BY <3>2, Rests DEF Rest, Locals
    <3>4. /\ new \in Objects /\ new.kref = bo[b].kref /\ new.maps = bo[b].maps - 1
          /\ new.prog_refs = bo[b].prog_refs /\ new.fw_ref = bo[b].fw_ref
          /\ new.fw_io = bo[b].fw_io /\ new.pooled_sec = bo[b].pooled_sec
      <4>1. bo[b].maps - 1 \in Nat
        BY ONLY <3>1, <3>2, SMTT(30)
      <4> QED
        BY ONLY <3>2, <4>1, ZenonT(30) DEF Objects
    <3> HIDE DEF new, rest
    <3>5. new.kref - 1 = b01(b \in listed') + new.maps + new.prog_refs
      <4>1. b01(b \in listed') = b01(b \in listed)
        BY ONLY <3>1, Zenon
      <4> QED
        BY ONLY <3>2, <3>4, <4>1
    <3>6. listed' \subseteq Bos /\ \A x \in Bos \ {b} : x \in listed' <=> x \in listed
      BY <3>1 DEF IInv, ObjInv, BoType
    <3> QED
      BY ONLY IInv, t \in Threads, b \in Bos, <3>1, <3>3, <3>4, <3>5, <3>6, <2>PutPlain, ZenonT(40)
  <2>CloseBo. ASSUME IInv, NEW t \in Threads, NEW b \in Bos, close_bo(t, b)
      PROVE  IInv'
    <3> USE <2>CloseBo
    <3>1. /\ th[t].pc \in {"idle", "drop"} /\ b \in listed /\ listed' = listed \ {b}
          /\ Put(t, b, bo[b], th[t], "drop")
          /\ mem' = mem /\ pool' = pool /\ UNCHANGED fwVars
      BY DEF close_bo, At, Owns, poolVars, fwVars
    <3>2. th[t] \in Locals /\ Control(t)
      BY BasicFacts
    <3>3. th[t].ret = "idle" /\ th[t].cur = None /\ th[t].victim = None
      BY ONLY <3>1, <3>2, ZenonT(40) DEF Control, Releasing, At, ReleasePcs
    <3>4. /\ bo[b] \in Objects
          /\ bo[b].kref - 1 = b01(b \in listed') + bo[b].maps + bo[b].prog_refs
      <4>1. b \notin listed'
        BY <3>1
      <4>2. b01(b \in listed) = 1 /\ b01(b \in listed') = 0
        BY ONLY <3>1, <4>1, ZenonT(30) DEF b01
      <4>3. /\ bo[b] \in Objects /\ bo[b].kref \in Nat /\ bo[b].maps \in Nat /\ bo[b].prog_refs \in Nat
            /\ bo[b].kref = b01(b \in listed) + bo[b].maps + bo[b].prog_refs
        BY RefCount
      <4> QED
        BY ONLY <4>2, <4>3
    <3>5. listed' \subseteq Bos /\ \A x \in Bos \ {b} : x \in listed' <=> x \in listed
      BY <3>1 DEF IInv, ObjInv, BoType
    <3> QED
      BY ONLY IInv, t \in Threads, b \in Bos, <3>1, <3>2, <3>3, <3>4, <3>5, <2>PutPlain, ZenonT(40)
  <2> QED
    BY <2>BoFree, <2>VmClose, <2>CloseBo DEF PutRef
<1> QED
  BY <1>QuietStep, <1>ReleaseStep, <1>TakeStep, <1>PutRef
=============================================================================
