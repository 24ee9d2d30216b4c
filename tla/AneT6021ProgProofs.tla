------------------------- MODULE AneT6021ProgProofs -------------------------
(***************************************************************************)
(* The steps of AneT6021 on programs preserve the inductive invariant IInv *)
(* of AneT6021PoolProofs: PROG_LOAD with its lookup and its answer, EXEC,  *)
(* and a close up to the unload of a file's program.  The frames that the  *)
(* steps under fw_lock share come first.                                   *)
(***************************************************************************)
EXTENDS AneT6021PoolProofs, AneFinite

(* What is used of finite sets; AneT6021Proofs proves it. *)
FiniteFacts == FsCardinality /\ FsEmpty /\ FsSingleton /\ FsSubset /\ FsAdd /\ FsRemove

USE AneT6021Assumption, ZenonT(30)

-----------------------------------------------------------------------------
(* Programs: steps under fw_lock. *)
LEMMA NotLocked ==
  ASSUME IInv, NEW t \in Threads, fw_lock \in {None, t}, NEW u \in Threads \ {t}
  PROVE  ~Locked(u)
<1>1. LockInv(u)
  BY DEF IInv, FwInv
<1>2. u # None
  OBVIOUS
<1> QED
  BY <1>1, <1>2 DEF LockInv

LEMMA Unlocked ==
  ASSUME NEW u \in Threads, ~Locked(u)
  PROVE  /\ ~Unloading(u) /\ ~Giving(u) /\ ~At(u, "load") /\ ~At(u, "close")
         /\ ~At(u, "destroy") /\ th[u].pc \notin {"exec", "wait"}
         /\ \A b : ~Working(u, b)
BY DEF Locked, Unloading, Giving, At, UnloadPcs, Working

LEMMA UnlockedNext ==
  ASSUME NEW u \in Threads, ~Locked(u)'
  PROVE  LockInv(u)' /\ ~Giving(u)' /\ (\A b : ~Working(u, b)') /\ th'[u].pc \notin {"exec", "wait"}
BY DEF LockInv, Locked, Unloading, Giving, At, UnloadPcs, Working

LEMMA FwStep ==
  ASSUME IInv, NEW t \in Threads, fw_lock \in {None, t}, fw_lock' \in {None, t},
         \A u \in Threads \ {t} : th'[u] = th[u], ProgType', LockInv(t)', Table',
         \A b \in Bos : Cardinality(Loaded(b)') + b01(Working(t, b)') + b01(b \in fw'.lost)
                          <= bo'[b].prog_refs,
         th'[t].pc \in {"exec", "wait"} => \A b \in th'[t].done : bo'[b].fw_io,
         \A b \in fw'.io : bo'[b].fw_io
  PROVE  FwInv'
<1>1. \A u \in Threads \ {t} : ~Locked(u)'
  <2>1. \A u \in Threads \ {t} : ~Locked(u)
    BY NotLocked
  <2> QED
    BY <2>1 DEF Locked, Unloading, Giving, At
<1>2. \A u \in Threads : LockInv(u)'
  BY <1>1, UnlockedNext
<1>3. ASSUME NEW b \in Bos PROVE Claims(b)' <= bo'[b].prog_refs
  <2>1. Working(t, b)' => Locked(t)'
    BY UnlockedNext
  <2>2. t # None
    OBVIOUS
  <2>3. (fw_lock # None /\ Working(fw_lock, b))' <=> Working(t, b)'
    BY <1>2, <2>1, <2>2 DEF LockInv
  <2>4. Claims(b)' = Cardinality(Loaded(b)') + b01(Working(t, b)') + b01(b \in fw'.lost)
    BY ONLY <2>3, Zenon DEF Claims, b01
  <2> QED
    BY <2>4
<1>4. \A u \in Threads : th'[u].pc \in {"exec", "wait"} => \A b \in th'[u].done : bo'[b].fw_io
  BY <1>1, UnlockedNext
<1>5. ClaimInv'
  BY <1>3, <1>4 DEF ClaimInv
<1> QED
  BY <1>2, <1>5 DEF FwInv

(* The step's frame for the objects. *)
LEMMA CallFrame ==
  ASSUME IInv, NEW t \in Threads, UNCHANGED <<bo, listed, mem, pool>>, ThType',
         \A u \in Threads \ {t} : th'[u] = th[u],
         th[t].cur = None, th[t].victim = None,
         th'[t].cur = None, th'[t].victim = None, th'[t].ret = "idle",
         th'[t].pc \notin ReleasePcs \cup {"publish"}
  PROVE  ThInv' /\ ObjInv'
<1>1. Control(t)'
  BY DEF Control, Releasing, At
<1>2. ThInv'
  BY <1>1, SMTT(30) DEF IInv, ThInv, Control, Releasing, At
<1>3. ObjInv'
  BY ObjFrame DEF IInv
<1> QED
  BY <1>2, <1>3

LEMMA CallStart ==
  ASSUME IInv, NEW t \in Threads,
         th[t].pc \in {"idle", "load", "exec", "wait", "close", "drop"} \cup UnloadPcs
  PROVE  /\ th[t].ret = "idle" /\ th[t].cur = None /\ th[t].victim = None
         /\ th[t] \in Locals /\ ThType /\ LockInv(t) /\ ProgType /\ Table
<1>1. Control(t) /\ ThType /\ th[t] \in Locals
  BY BasicFacts
<1>2. LockInv(t) /\ ProgType /\ Table
  BY DEF IInv, FwInv
<1>3. th[t].ret = "idle" /\ th[t].cur = None /\ th[t].victim = None
  BY ONLY <1>1, th[t].pc \in {"idle", "load", "exec", "wait", "close", "drop"} \cup UnloadPcs, ZenonT(30)
     DEF Control, Releasing, At, ReleasePcs, UnloadPcs
<1> QED
  BY <1>1, <1>2, <1>3

(* With nobody unloading, and the lock with t or free, only t may be giving *)
(* sections back.                                                            *)
LEMMA OnlyGiver ==
  ASSUME IInv, NEW t \in Threads, fw_lock \in {None, t}, ~quarantined, NEW i \in Ids
  PROVE  /\ progs[i].state # "HELD" /\ (i \in fw.procs => progs[i].proc)
         /\ (~Live(i) => fw.progs[i] = {} /\ progs[i] = NoProg)
         /\ Live(i) => \/ fw.progs[i] = progs[i].sec /\ fw.progs[i] # {}
                       \/ Giving(t) /\ th[t].prog = i
<1>1. Table /\ progs[i] \in Programs
  BY DEF IInv, FwInv, ProgType
<1>2. \A u \in Threads \ {t} : ~Giving(u)
  BY NotLocked, Unlocked
<1>3. ~Live(i) => progs[i] = NoProg
  BY <1>1 DEF Table, Live, Programs
<1> QED
  BY <1>1, <1>2, <1>3 DEF Table

LEMMA TableFrame ==
  ASSUME IInv, NEW t \in Threads, fw_lock \in {None, t}, ~Giving(t),
         progs' = progs, holds' = holds, fw'.progs = fw.progs, fw'.procs = fw.procs,
         ~quarantined' => ~quarantined
  PROVE  Table'
<1>1. Shared'
  BY SMTT(30) DEF IInv, FwInv, Table, Shared, Live
<1>2. \A i \in Ids : progs'[i].state = "FREE" => progs'[i] = NoProg
  BY DEF IInv, FwInv, Table
<1>3. ASSUME ~quarantined', NEW i \in Ids
      PROVE  /\ progs'[i].state # "HELD" /\ (i \in fw'.procs => progs'[i].proc)
             /\ (~Live(i)' => fw'.progs[i] = {})
             /\ Live(i)' => fw'.progs[i] = progs'[i].sec /\ fw'.progs[i] # {}
  <2>1. Live(i)' <=> Live(i)
    BY DEF Live
  <2> QED
    BY <1>3, <2>1, OnlyGiver
<1> QED
  BY <1>1, <1>2, <1>3 DEF Table

LEMMA HoldsLock ==
  ASSUME IInv, NEW t \in Threads, Locked(t)
  PROVE  fw_lock = t /\ fw_lock \in {None, t}
BY DEF IInv, FwInv, LockInv

LEMMA ClosedIInv ==
  ASSUME IInv, NEW t \in Threads, closed(t)
  PROVE  IInv'
<1>1. At(t, "drop") /\ Return(t) /\ UNCHANGED <<bo, listed, mem, pool, fwVars>>
  BY DEF closed, boVars, poolVars, fwVars
<1>2. /\ th[t].ret = "idle" /\ th[t].cur = None /\ th[t].victim = None /\ ThType
  BY <1>1, CallStart DEF At
<1>3. /\ ThType' /\ \A u \in Threads \ {t} : th'[u] = th[u]
      /\ th'[t].pc = "idle" /\ th'[t].ret = "idle" /\ th'[t].cur = None /\ th'[t].victim = None
  BY <1>1, <1>2, MoveReturn, SMTT(30) DEF Moved, ThType, Rest
<1>4. Same(t) /\ Control(t)'
  BY ONLY <1>1, <1>2, <1>3, ZenonT(40) DEF Same, Locked, Unloading, UnloadPcs, Giving, At, Control, Releasing,
                               ReleasePcs
<1> QED
  BY ONLY IInv, t \in Threads, <1>1, <1>2, <1>3, <1>4, LocalStep, Zenon

LEMMA OpenIInv ==
  ASSUME IInv, NEW f \in Files, drm_open(f)
  PROVE  IInv'
<1>1. /\ open' = open \cup {f}
      /\ UNCHANGED <<fw_lock, th, quarantined, bo, listed, mem, pool, progs, holds, fw>>
  BY DEF drm_open, boVars, poolVars
<1>2. ThInv'
  BY <1>1 DEF IInv, ThInv, ThType, Control, Releasing, At
<1>3. ObjInv'
  <2>1. ObjInv
    BY DEF IInv
  <2> QED
    BY ONLY <1>1, <2>1, ObjFrame, ZenonT(40)
<1>4. FwInv'
  <2>1. FwInv
    BY DEF IInv
  <2>2. ProgType'
    BY <1>1, <2>1 DEF FwInv, ProgType
  <2>3. ClaimInv'
    BY ONLY <1>1, <2>1, Zenon DEF FwInv, ClaimInv, Claims, Loaded, Working, Giving, At
  <2>4. Table'
    BY ONLY <1>1, <2>1 DEF FwInv, Table, Shared, Live, Giving, At
  <2>5. \A u \in Threads : LockInv(u)'
    BY ONLY <1>1, <2>1, ZenonT(40) DEF FwInv, LockInv, Locked, Unloading, Giving, At, Find, Live
  <2> QED
    BY ONLY <1>1, <2>1, <2>2, <2>3, <2>4, <2>5, ZenonT(30) DEF FwInv
<1> QED
  BY <1>2, <1>3, <1>4 DEF IInv

LEMMA SharedFacts ==
  ASSUME IInv, NEW i \in Ids
  PROVE  /\ progs[i].users = Cardinality(Users(i)) /\ progs[i] \in Programs
         /\ progs[i].users \in Nat /\ holds \in [Files -> SUBSET Ids]
         /\ \A k, j \in Ids : Live(k) /\ Live(j) /\ progs[k].digest = progs[j].digest => k = j
         /\ progs[i].state = "FREE" => progs[i] = NoProg
<1>1. Table /\ ProgType
  BY DEF IInv, FwInv
<1> QED
  BY <1>1 DEF Table, Shared, ProgType, Programs, Users

(* One entry of the table changes. *)
LEMMA SharedStep ==
  ASSUME IInv, NEW i \in Ids, NEW e \in Programs, progs' = [progs EXCEPT ![i] = e],
         e.users = Cardinality(Users(i)'), \A j \in Ids \ {i} : Users(j)' = Users(j),
         e.state = "LIVE" => \A j \in Ids \ {i} : Live(j) => progs[j].digest # e.digest,
         e.state = "FREE" => e = NoProg
  PROVE  /\ Shared' /\ progs' \in [Ids -> Programs]
         /\ \A j \in Ids : progs'[j].state = "FREE" => progs'[j] = NoProg
         /\ progs'[i] = e /\ \A j \in Ids \ {i} : progs'[j] = progs[j]
<1>1. progs \in [Ids -> Programs]
  BY DEF IInv, FwInv, ProgType
<1>2. /\ progs' \in [Ids -> Programs] /\ progs'[i] = e
      /\ \A j \in Ids \ {i} : progs'[j] = progs[j]
  BY ONLY <1>1, i \in Ids, e \in Programs, progs' = [progs EXCEPT ![i] = e], ZenonT(30)
<1>3. \A j \in Ids : progs'[j].state = "FREE" => progs'[j] = NoProg
  BY <1>2, SharedFacts
<1>4. \A j \in Ids : progs'[j].users = Cardinality({f \in Files : j \in holds'[f]})
  <2>1. \A j \in Ids : progs'[j].users = Cardinality(Users(j)')
    BY <1>2, SharedFacts
  <2> QED
    BY <2>1 DEF Users
<1>5. ASSUME NEW k \in Ids, NEW j \in Ids, Live(k)', Live(j)',
             progs'[k].digest = progs'[j].digest
      PROVE  k = j
  BY <1>2, <1>5, SharedFacts DEF Live
<1> QED
  BY <1>2, <1>3, <1>4, <1>5 DEF Shared

(* Nothing of the threads or of the objects changes. *)
LEMMA SameThreads ==
  ASSUME IInv, UNCHANGED <<th, bo, listed, mem, pool>>
  PROVE  ThInv' /\ ObjInv'
<1>1. ThInv'
  BY DEF IInv, ThInv, ThType, Control, Releasing, At
<1>2. ObjInv
  BY DEF IInv
<1>3. ObjInv'
  BY <1>2, ObjFrame
<1> QED
  BY <1>1, <1>3

(* The program of an unload under way. *)
LEMMA UnloadFacts ==
  ASSUME IInv, NEW t \in Threads, th[t].pc \in UnloadPcs
  PROVE  /\ th[t].ret = "idle" /\ th[t].cur = None /\ th[t].victim = None /\ th[t] \in Locals
         /\ ThType /\ ProgType /\ Table /\ fw_lock = t /\ fw_lock \in {None, t}
         /\ ~quarantined /\ th[t].file \in Files /\ th[t].prog \in Ids /\ Live(th[t].prog)
         /\ progs[th[t].prog].users = 0
         /\ (At(t, "destroy") \/ At(t, "give") => th[t].prog \notin fw.procs)
         /\ (At(t, "give") => fw.progs[th[t].prog] = {})
<1>1. /\ th[t].ret = "idle" /\ th[t].cur = None /\ th[t].victim = None /\ th[t] \in Locals
      /\ ThType /\ ProgType /\ Table /\ LockInv(t)
  <2>1. th[t].pc \in {"idle", "load", "exec", "wait", "close", "drop"} \cup UnloadPcs
    OBVIOUS
  <2> QED
    BY <2>1, CallStart
<1>2. Unloading(t) /\ Locked(t)
  BY DEF Unloading, Locked
<1>3. fw_lock = t /\ fw_lock \in {None, t}
  BY <1>2, HoldsLock
<1> QED
  BY ONLY <1>1, <1>2, <1>3, ZenonT(30) DEF LockInv, Giving

(* The thread goes back to the file's next program. *)
LEMMA BackToClose ==
  ASSUME IInv, NEW t \in Threads, th[t].pc \in UnloadPcs, fw_lock' = fw_lock,
         th' = [th EXCEPT ![t].pc = "close", ![t].prog = None]
  PROVE  /\ ThType' /\ \A u \in Threads \ {t} : th'[u] = th[u]
         /\ th'[t].pc = "close" /\ th'[t].ret = "idle" /\ th'[t].cur = None
         /\ th'[t].victim = None /\ LockInv(t)' /\ \A b \in Bos : ~Working(t, b)'
<1>1. /\ th[t].ret = "idle" /\ th[t].cur = None /\ th[t].victim = None /\ th[t] \in Locals
      /\ ThType /\ fw_lock = t /\ th[t].file \in Files
  BY UnloadFacts
<1> DEFINE r == [th[t] EXCEPT !.pc = "close", !.prog = None]
<1>2. /\ r \in Locals /\ r.pc = "close" /\ r.ret = th[t].ret /\ r.cur = th[t].cur
      /\ r.victim = th[t].victim /\ r.file = th[t].file
  <2>1. "close" \in Pcs
    BY DEF Pcs
  <2> QED
    BY ONLY <1>1, <2>1, Zenon DEF Locals
<1>3. th' = [th EXCEPT ![t] = r]
  BY <1>1 DEF ThType
<1>4. Moved(t, r)
  BY ONLY <1>1, <1>2, <1>3, t \in Threads, Move, Zenon
<1> HIDE DEF r
<1>5. ThType' /\ th'[t] = r /\ \A u \in Threads \ {t} : th'[u] = th[u]
  BY ONLY <1>4, ZenonT(30) DEF Moved, ThType
<1>6. /\ th'[t].pc = "close" /\ th'[t].ret = "idle" /\ th'[t].cur = None
      /\ th'[t].victim = None /\ th'[t].file \in Files
  BY ONLY <1>1, <1>2, <1>5, ZenonT(30)
<1>7. LockInv(t)' /\ \A b \in Bos : ~Working(t, b)'
  BY ONLY <1>1, <1>6, fw_lock' = fw_lock, ZenonT(30)
     DEF LockInv, Locked, Unloading, UnloadPcs, Giving, At, Working
<1> QED
  BY <1>5, <1>6, <1>7

LEMMA Loads ==
  ASSUME FiniteFacts, NEW b
  PROVE  /\ IsFiniteSet(Loaded(b)) /\ Cardinality(Loaded(b)) \in Nat
         /\ IsFiniteSet(Loaded(b)') /\ Cardinality(Loaded(b)') \in Nat
<1>1. Loaded(b) \subseteq Ids /\ Loaded(b)' \subseteq Ids
  BY DEF Loaded
<1>2. IsFiniteSet(Ids)
  OBVIOUS
<1>3. IsFiniteSet(Loaded(b)) /\ IsFiniteSet(Loaded(b)')
  BY ONLY <1>1, <1>2, FiniteFacts, ZenonT(30) DEF FiniteFacts, FsSubset
<1> QED
  BY ONLY <1>3, FiniteFacts, ZenonT(30) DEF FiniteFacts, FsCardinality

LEMMA ClaimFacts ==
  ASSUME FiniteFacts, IInv, NEW t \in Threads, fw_lock \in {None, t}, NEW b \in Bos
  PROVE  /\ Cardinality(Loaded(b)) \in Nat /\ b01(Working(t, b)) \in {0, 1}
         /\ b01(b \in fw.lost) \in {0, 1} /\ bo[b].prog_refs \in Nat
         /\ Cardinality(Loaded(b)) + b01(Working(t, b)) + b01(b \in fw.lost) <= bo[b].prog_refs
<1>1. Claims(b) <= bo[b].prog_refs /\ LockInv(t)
  BY DEF IInv, FwInv, ClaimInv
<1>2. (fw_lock # None /\ Working(fw_lock, b)) <=> Working(t, b)
  <2>1. Working(t, b) => Locked(t)
    BY Unlocked
  <2>2. t # None
    OBVIOUS
  <2> QED
    BY <1>1, <2>1, <2>2 DEF LockInv
<1>3. Claims(b) = Cardinality(Loaded(b)) + b01(Working(t, b)) + b01(b \in fw.lost)
  BY ONLY <1>2, ZenonT(30) DEF Claims, b01
<1>4. b01(Working(t, b)) \in {0, 1} /\ b01(b \in fw.lost) \in {0, 1}
  BY ONLY TRUE, ZenonT(30) DEF b01
<1>5. bo[b].prog_refs \in Nat
  BY RefCount
<1> QED
  BY ONLY FiniteFacts, <1>1, <1>3, <1>4, <1>5, Loads, ZenonT(40)

(* A close drops and unloads programs: steps on the table under fw_lock. *)
LEMMA CloseStep ==
  ASSUME FiniteFacts, IInv, NEW t \in Threads, th[t].pc \in {"close"} \cup UnloadPcs, ThType',
         \A u \in Threads \ {t} : th'[u] = th[u], th'[t].pc \in {"close"} \cup UnloadPcs,
         th'[t].ret = "idle", th'[t].cur = None, th'[t].victim = None,
         UNCHANGED <<fw_lock, bo, listed, mem, pool>>, ProgType', Table', LockInv(t)',
         fw'.io = fw.io, fw'.lost = fw.lost,
         \A b \in Bos : Cardinality(Loaded(b)') + b01(Working(t, b)')
                          <= Cardinality(Loaded(b)) + b01(Working(t, b))
  PROVE  IInv'
<1>1. /\ th[t].ret = "idle" /\ th[t].cur = None /\ th[t].victim = None
  <2>1. th[t].pc \in {"idle", "load", "exec", "wait", "close", "drop"} \cup UnloadPcs
    OBVIOUS
  <2> QED
    BY <2>1, CallStart
<1>2. fw_lock \in {None, t} /\ fw_lock' \in {None, t}
  BY HoldsLock DEF Locked, Unloading
<1>3. ThInv' /\ ObjInv'
  <2>1. th'[t].pc \notin ReleasePcs \cup {"publish"}
    BY DEF ReleasePcs, UnloadPcs
  <2> QED
    BY <1>1, <2>1, CallFrame
<1>4. ASSUME NEW b \in Bos
      PROVE  Cardinality(Loaded(b)') + b01(Working(t, b)') + b01(b \in fw'.lost)
               <= bo'[b].prog_refs
  <2>1. /\ Cardinality(Loaded(b)) \in Nat /\ b01(Working(t, b)) \in {0, 1}
        /\ b01(b \in fw.lost) \in {0, 1} /\ bo[b].prog_refs \in Nat
        /\ Cardinality(Loaded(b)) + b01(Working(t, b)) + b01(b \in fw.lost) <= bo[b].prog_refs
    BY <1>2, ClaimFacts
  <2>2. b01(Working(t, b)') \in {0, 1} /\ b01(b \in fw'.lost) = b01(b \in fw.lost)
    BY DEF b01
  <2>3. bo'[b] = bo[b] /\ Cardinality(Loaded(b)') \in Nat
    BY Loads
  <2>4. Cardinality(Loaded(b)') + b01(Working(t, b)')
          <= Cardinality(Loaded(b)) + b01(Working(t, b))
    OBVIOUS
  <2> QED
    BY ONLY <2>1, <2>2, <2>3, <2>4, SMTT(30)
<1>5. \A b \in fw'.io : bo'[b].fw_io
  BY DEF IInv, FwInv, ClaimInv
<1>6. th'[t].pc \notin {"exec", "wait"}
  BY DEF UnloadPcs
<1>7. FwInv'
  <2>1. ProgType' /\ Table' /\ LockInv(t)' /\ \A u \in Threads \ {t} : th'[u] = th[u]
    OBVIOUS
  <2> QED
    BY ONLY IInv, t \in Threads, <2>1, <1>2, <1>4, <1>5, <1>6, FwStep, ZenonT(30)
<1> QED
  BY <1>3, <1>7 DEF IInv

(* The files that hold a program: one more, one less. *)
LEMMA UsersFinite ==
  ASSUME FiniteFacts, NEW i
  PROVE  /\ IsFiniteSet(Users(i)) /\ Cardinality(Users(i)) \in Nat
         /\ (Cardinality(Users(i)) = 0 <=> Users(i) = {})
<1>1. Users(i) \subseteq Files /\ IsFiniteSet(Files)
  BY DEF Users
<1>2. IsFiniteSet(Users(i))
  BY ONLY <1>1, FiniteFacts, ZenonT(30) DEF FiniteFacts, FsSubset
<1> QED
  BY ONLY <1>2, FiniteFacts, ZenonT(30) DEF FiniteFacts, FsCardinality, FsEmpty

-----------------------------------------------------------------------------
(* The steps that leave the table alone: the calls start, send an EXEC and *)
(* get its answer, a file is closed.                                       *)
CallOf(t) ==
    \/ \E f \in Files, S \in SUBSET Bos :
          \/ \E d \in Digests : prog_load(t, f, S, d)
          \/ \E i \in Ids : exec(t, f, i, S)
    \/ \E b \in Bos : load_section(t, b) \/ exec_io(t, b)
    \/ exec_send(t) \/ exec_answer(t) \/ fd_closed(t) \/ \E f \in Files : postclose(t, f)

LEMMA CallOfIInv ==
  ASSUME FiniteFacts
  PROVE  IInv /\ (\E t \in Threads : CallOf(t)) => IInv'
(* A step that changes no more of the firmware than its io objects. *)
<1>CallStep. ASSUME IInv, NEW t \in Threads, fw_lock \in {None, t}, fw_lock' \in {None, t},
           th[t].pc \in {"idle", "load", "exec", "wait", "close"},
           ThType', \A u \in Threads \ {t} : th'[u] = th[u],
           th'[t].cur = None, th'[t].victim = None, th'[t].ret = "idle",
           th'[t].pc \in {"idle", "load", "exec", "wait", "close", "drop"},
           UNCHANGED <<bo, listed, mem, pool, progs, holds>>, open' \subseteq Files,
           fw' \in [progs : [Ids -> SUBSET Bos], procs : SUBSET Ids, io : SUBSET Bos,
                    lost : SUBSET Bos],
           fw'.progs = fw.progs, fw'.procs = fw.procs, fw'.lost = fw.lost,
           quarantined' \in BOOLEAN, ~quarantined' => ~quarantined,
           LockInv(t)', \A b \in Bos : Working(t, b)' => Working(t, b),
           th'[t].pc \in {"exec", "wait"} => \A b \in th'[t].done : bo[b].fw_io,
           \A b \in fw'.io : bo[b].fw_io
    PROVE  IInv'
  <2> USE <1>CallStep
  <2>1. th[t].pc \in {"idle", "load", "exec", "wait", "close", "drop"} \cup UnloadPcs
    OBVIOUS
  <2>2. /\ th[t].ret = "idle" /\ th[t].cur = None /\ th[t].victim = None
        /\ ThType /\ ProgType /\ Table
    BY <2>1, CallStart
  <2>3. ~Giving(t)
    BY <2>2 DEF Giving, At
  <2>4. Table'
    BY <2>3, TableFrame
  <2>5. ProgType'
    BY <2>2 DEF ProgType
  <2>6. ThInv' /\ ObjInv'
    <3>1. th'[t].pc \notin ReleasePcs \cup {"publish"}
      BY DEF ReleasePcs
    <3> QED
      BY <2>2, <3>1, CallFrame
  <2>7. ASSUME NEW b \in Bos
        PROVE  Cardinality(Loaded(b)') + b01(Working(t, b)') + b01(b \in fw'.lost)
                 <= bo'[b].prog_refs
    <3>1. Loaded(b)' = Loaded(b)
      BY DEF Loaded
    <3>2. b01(Working(t, b)') \in {0, 1} /\ b01(Working(t, b)') <= b01(Working(t, b))
      BY SMTT(30) DEF b01
    <3>3. /\ Cardinality(Loaded(b)) \in Nat /\ b01(Working(t, b)) \in {0, 1}
          /\ b01(b \in fw.lost) \in {0, 1} /\ bo[b].prog_refs \in Nat
          /\ Cardinality(Loaded(b)) + b01(Working(t, b)) + b01(b \in fw.lost) <= bo[b].prog_refs
      BY ClaimFacts
    <3>4. bo'[b] = bo[b] /\ fw'.lost = fw.lost
      OBVIOUS
    <3> QED
      BY ONLY <3>1, <3>2, <3>3, <3>4, SMTT(30)
  <2>8. bo' = bo
    OBVIOUS
  <2>9. FwInv'
    BY <2>4, <2>5, <2>7, <2>8, FwStep
  <2> QED
    BY <2>6, <2>9 DEF IInv
<1>ProgLoad. ASSUME IInv, NEW t \in Threads, NEW f \in Files, NEW S \in SUBSET Bos, NEW d \in Digests,
           prog_load(t, f, S, d)
    PROVE  IInv'
  <2> USE <1>ProgLoad
  <2> DEFINE r == [Rest EXCEPT !.pc = "load", !.file = f, !.todo = S, !.prog = d]
  <2>1. /\ At(t, "idle") /\ fw_lock = None /\ fw_lock' = t /\ ~quarantined /\ Find(d) = {}
        /\ S # {} /\ th' = [th EXCEPT ![t] = r]
        /\ UNCHANGED <<bo, listed, mem, pool, progs, holds, open, quarantined, fw>>
    BY DEF prog_load, MayCommand, MayCall, boVars, poolVars, progVars
  <2>2. /\ th[t].ret = "idle" /\ ThType /\ ProgType
    BY <2>1, CallStart DEF At
  <2>3. /\ r \in Locals /\ r.pc = "load" /\ r.ret = "idle" /\ r.cur = None /\ r.victim = None
        /\ r.file = f /\ r.todo = S /\ r.done = {} /\ r.prog = d
    <3>1. "load" \in Pcs
      BY DEF Pcs
    <3> QED
      BY ONLY <3>1, Rests, f \in Files, S \in SUBSET Bos, d \in Digests, Zenon DEF Locals, Rest
  <2>4. Moved(t, r)
    BY ONLY <2>1, <2>2, <2>3, t \in Threads, Move, ZenonT(40)
  <2> HIDE DEF r
  <2>5. ThType' /\ th'[t] = r /\ \A u \in Threads \ {t} : th'[u] = th[u]
    BY ONLY <2>4, ZenonT(30) DEF Moved, ThType
  <2>6. LockInv(t)'
    <3>1. {i \in Ids : progs'[i].state = "LIVE" /\ progs'[i].digest = d} = {}
      BY <2>1 DEF Find, Live
    <3>2. {i \in Ids : progs'[i].state = "LIVE" /\ progs'[i].digest = th'[t].prog} = {}
          /\ th'[t].todo \cup th'[t].done # {}
      BY ONLY <2>1, <2>3, <2>5, <3>1, SMTT(30)
    <3> QED
      BY <2>1, <2>3, <2>5, <3>2 DEF LockInv, Locked, Unloading, UnloadPcs, Giving, At, Find, Live
  <2>7. \A b \in Bos : ~Working(t, b)'
    BY ONLY <2>3, <2>5, ZenonT(30) DEF Working, Giving, At
  <2>8. \A b \in fw'.io : bo[b].fw_io
    BY <2>1 DEF IInv, FwInv, ClaimInv
  <2>9. /\ th[t].pc \in {"idle", "load", "exec", "wait", "close"}
        /\ th'[t].pc \in {"idle", "load", "exec", "wait", "close", "drop"}
        /\ th'[t].pc \notin {"exec", "wait"}
        /\ th'[t].cur = None /\ th'[t].victim = None /\ th'[t].ret = "idle"
    BY ONLY <2>1, <2>3, <2>5, ZenonT(30) DEF At
  <2>10. /\ open' \subseteq Files /\ quarantined' \in BOOLEAN
         /\ fw' \in [progs : [Ids -> SUBSET Bos], procs : SUBSET Ids, io : SUBSET Bos,
                     lost : SUBSET Bos]
    BY ONLY <2>1, <2>2, ZenonT(30) DEF ProgType
  <2> QED
    BY ONLY IInv, t \in Threads, <2>1, <2>5, <2>6, <2>7, <2>8, <2>9, <2>10, <1>CallStep, Zenon
<1>Exec. ASSUME IInv, NEW t \in Threads, NEW f \in Files, NEW i \in Ids, NEW S \in SUBSET Bos,
           exec(t, f, i, S)
    PROVE  IInv'
  <2> USE <1>Exec
  <2> DEFINE r == [Rest EXCEPT !.pc = "exec", !.file = f, !.todo = S]
  <2>1. /\ At(t, "idle") /\ fw_lock = None /\ fw_lock' = t /\ ~quarantined
        /\ th' = [th EXCEPT ![t] = r]
        /\ UNCHANGED <<bo, listed, mem, pool, progs, holds, open, quarantined, fw>>
    BY DEF exec, MayCommand, MayCall, boVars, poolVars, progVars
  <2>2. /\ th[t].ret = "idle" /\ ThType /\ ProgType
    BY <2>1, CallStart DEF At
  <2>3. /\ r \in Locals /\ r.pc = "exec" /\ r.ret = "idle" /\ r.cur = None /\ r.victim = None
        /\ r.done = {}
    <3>1. "exec" \in Pcs
      BY DEF Pcs
    <3> QED
      BY ONLY <3>1, Rests, f \in Files, S \in SUBSET Bos, Zenon DEF Locals, Rest
  <2>4. Moved(t, r)
    BY ONLY <2>1, <2>2, <2>3, t \in Threads, Move, ZenonT(40)
  <2> HIDE DEF r
  <2>5. ThType' /\ th'[t] = r /\ \A u \in Threads \ {t} : th'[u] = th[u]
    BY ONLY <2>4, ZenonT(30) DEF Moved, ThType
  <2>6. LockInv(t)'
    BY <2>1, <2>3, <2>5 DEF LockInv, Locked, Unloading, UnloadPcs, Giving, At
  <2>7. \A b \in Bos : ~Working(t, b)'
    BY ONLY <2>3, <2>5, ZenonT(30) DEF Working, Giving, At
  <2>8. \A b \in fw'.io : bo[b].fw_io
    BY <2>1 DEF IInv, FwInv, ClaimInv
  <2>9. /\ th[t].pc \in {"idle", "load", "exec", "wait", "close"}
        /\ th'[t].pc \in {"idle", "load", "exec", "wait", "close", "drop"}
        /\ \A b \in th'[t].done : bo[b].fw_io
        /\ th'[t].cur = None /\ th'[t].victim = None /\ th'[t].ret = "idle"
    BY ONLY <2>1, <2>3, <2>5, ZenonT(30) DEF At
  <2>10. /\ open' \subseteq Files /\ quarantined' \in BOOLEAN
         /\ fw' \in [progs : [Ids -> SUBSET Bos], procs : SUBSET Ids, io : SUBSET Bos,
                     lost : SUBSET Bos]
    BY ONLY <2>1, <2>2, ZenonT(30) DEF ProgType
  <2> QED
    BY ONLY IInv, t \in Threads, <2>1, <2>5, <2>6, <2>7, <2>8, <2>9, <2>10, <1>CallStep, Zenon
<1>ExecSend. ASSUME IInv, NEW t \in Threads, exec_send(t)
    PROVE  IInv'
  <2> USE <1>ExecSend
  <2>1. /\ At(t, "exec") /\ Goto(t, "wait") /\ fw' = [fw EXCEPT !.io = @ \cup th[t].done]
        /\ UNCHANGED <<fw_lock, bo, listed, mem, pool, progs, holds, open, quarantined>>
    BY DEF exec_send, boVars, poolVars, progVars
  <2>2. /\ th[t].ret = "idle" /\ th[t].cur = None /\ th[t].victim = None /\ th[t] \in Locals
        /\ ThType /\ ProgType
    BY <2>1, CallStart DEF At
  <2>3. fw_lock = t /\ fw_lock \in {None, t}
    BY <2>1, HoldsLock DEF Locked, At
  <2>4. "wait" \in Pcs
    BY DEF Pcs
  <2>5. /\ ThType' /\ \A u \in Threads \ {t} : th'[u] = th[u]
        /\ th'[t].pc = "wait" /\ th'[t].ret = "idle" /\ th'[t].cur = None /\ th'[t].victim = None
        /\ th'[t].done = th[t].done
    BY <2>1, <2>2, <2>4, MoveGoto DEF Moved, ThType
  <2>6. LockInv(t)'
    BY <2>1, <2>3, <2>5 DEF LockInv, Locked, Unloading, UnloadPcs, Giving, At
  <2>7. \A b \in Bos : ~Working(t, b)'
    BY ONLY <2>5, ZenonT(30) DEF Working, Giving, At
  <2>8. /\ \A b \in fw.io : bo[b].fw_io
        /\ \A b \in th[t].done : bo[b].fw_io
    BY <2>1 DEF IInv, FwInv, ClaimInv, At
  <2>9. /\ open' \subseteq Files /\ quarantined' \in BOOLEAN
        /\ fw' \in [progs : [Ids -> SUBSET Bos], procs : SUBSET Ids, io : SUBSET Bos,
                    lost : SUBSET Bos]
        /\ fw'.progs = fw.progs /\ fw'.procs = fw.procs /\ fw'.lost = fw.lost
        /\ fw'.io = fw.io \cup th[t].done
    <3>1. th[t].done \in SUBSET Bos
      BY <2>2 DEF Locals
    <3> QED
      BY ONLY <2>1, <2>2, <3>1, ZenonT(30) DEF ProgType
  <2>10. \A b \in fw'.io : bo[b].fw_io
    BY ONLY <2>8, <2>9, ZenonT(30)
  <2>11. /\ th[t].pc \in {"idle", "load", "exec", "wait", "close"}
         /\ th'[t].pc \in {"idle", "load", "exec", "wait", "close", "drop"}
         /\ \A b \in th'[t].done : bo[b].fw_io
         /\ fw_lock' \in {None, t} /\ (~quarantined' => ~quarantined)
    BY ONLY <2>1, <2>3, <2>5, <2>8, ZenonT(30) DEF At
  <2>12. UNCHANGED <<bo, listed, mem, pool, progs, holds>>
    BY ONLY <2>1, ZenonT(30)
  <2> QED
    BY ONLY IInv, t \in Threads, <2>3, <2>5, <2>6, <2>7, <2>9, <2>10, <2>11, <2>12, <1>CallStep, Zenon
<1>ExecAnswer. ASSUME IInv, NEW t \in Threads, exec_answer(t)
    PROVE  IInv'
  <2> USE <1>ExecAnswer
  <2>1. /\ At(t, "wait") /\ Return(t) /\ fw_lock' = None
        /\ \/ fw' = [fw EXCEPT !.io = @ \ th[t].done] /\ quarantined' = quarantined
           \/ quarantined' = TRUE /\ fw' = fw
        /\ UNCHANGED <<bo, listed, mem, pool, progs, holds, open>>
    BY DEF exec_answer, boVars, poolVars, progVars
  <2>2. ThType /\ ProgType
    BY <2>1, CallStart DEF At
  <2>3. fw_lock = t /\ fw_lock \in {None, t}
    BY <2>1, HoldsLock DEF Locked, At
  <2>4. /\ ThType' /\ \A u \in Threads \ {t} : th'[u] = th[u]
        /\ th'[t].pc = "idle" /\ th'[t].ret = "idle" /\ th'[t].cur = None /\ th'[t].victim = None
    BY <2>1, <2>2, MoveReturn, SMTT(30) DEF Moved, ThType, Rest
  <2>5. ~Locked(t)'
    BY ONLY <2>4, ZenonT(30) DEF Locked, Unloading, UnloadPcs, Giving, At
  <2>6. LockInv(t)' /\ \A b \in Bos : ~Working(t, b)'
    BY <2>5, UnlockedNext
  <2>7. /\ open' \subseteq Files /\ quarantined' \in BOOLEAN /\ (~quarantined' => ~quarantined)
        /\ fw' \in [progs : [Ids -> SUBSET Bos], procs : SUBSET Ids, io : SUBSET Bos,
                    lost : SUBSET Bos]
        /\ fw'.progs = fw.progs /\ fw'.procs = fw.procs /\ fw'.lost = fw.lost
        /\ fw'.io \subseteq fw.io
    <3>1. CASE fw' = [fw EXCEPT !.io = @ \ th[t].done] /\ quarantined' = quarantined
      BY ONLY <2>1, <2>2, <3>1, ZenonT(30) DEF ProgType
    <3>2. CASE quarantined' = TRUE /\ fw' = fw
      BY ONLY <2>1, <2>2, <3>2, ZenonT(30) DEF ProgType
    <3> QED
      BY ONLY <2>1, <3>1, <3>2, Zenon
  <2>8. \A b \in fw'.io : bo[b].fw_io
    BY <2>7 DEF IInv, FwInv, ClaimInv
  <2>9. /\ th[t].pc \in {"idle", "load", "exec", "wait", "close"}
        /\ th'[t].pc \in {"idle", "load", "exec", "wait", "close", "drop"}
        /\ th'[t].pc \notin {"exec", "wait"} /\ fw_lock' \in {None, t}
    BY ONLY <2>1, <2>4, ZenonT(30) DEF At
  <2>10. UNCHANGED <<bo, listed, mem, pool, progs, holds>>
    BY ONLY <2>1, ZenonT(30)
  <2> QED
    BY ONLY IInv, t \in Threads, <2>3, <2>4, <2>6, <2>7, <2>8, <2>9, <2>10, <1>CallStep, Zenon
<1>Postclose. ASSUME IInv, NEW t \in Threads, NEW f \in Files, postclose(t, f)
    PROVE  IInv'
  <2> USE <1>Postclose
  <2>1. /\ At(t, "idle") /\ fw_lock = None /\ fw_lock' = t /\ open' = open \ {f}
        /\ th' = [th EXCEPT ![t].pc = "close", ![t].file = f]
        /\ UNCHANGED <<bo, listed, mem, pool, progs, holds, quarantined, fw>>
    BY DEF postclose, MayCall, boVars, poolVars
  <2>2. /\ th[t].ret = "idle" /\ th[t].cur = None /\ th[t].victim = None /\ th[t] \in Locals
        /\ ThType /\ ProgType
    BY <2>1, CallStart DEF At
  <2> DEFINE r == [th[t] EXCEPT !.pc = "close", !.file = f]
  <2>3. /\ r \in Locals /\ r.pc = "close" /\ r.ret = th[t].ret /\ r.cur = th[t].cur
        /\ r.victim = th[t].victim /\ r.file = f
    <3>1. "close" \in Pcs
      BY DEF Pcs
    <3> QED
      BY ONLY <2>2, <3>1, f \in Files, ZenonT(40) DEF Locals
  <2>4. th' = [th EXCEPT ![t] = r]
    BY <2>1, <2>2 DEF ThType
  <2>5. Moved(t, r)
    BY ONLY <2>2, <2>3, <2>4, t \in Threads, Move, ZenonT(40)
  <2> HIDE DEF r
  <2>6. ThType' /\ th'[t] = r /\ \A u \in Threads \ {t} : th'[u] = th[u]
    BY ONLY <2>5, ZenonT(30) DEF Moved, ThType
  <2>7. LockInv(t)'
    BY ONLY <2>1, <2>2, <2>3, <2>6, f \in Files, Zenon
       DEF LockInv, Locked, Unloading, UnloadPcs, Giving, At
  <2>8. \A b \in Bos : ~Working(t, b)'
    BY ONLY <2>2, <2>3, <2>6, ZenonT(30) DEF Working, Giving, At
  <2>9. \A b \in fw'.io : bo[b].fw_io
    BY <2>1 DEF IInv, FwInv, ClaimInv
  <2>10. /\ th[t].pc \in {"idle", "load", "exec", "wait", "close"}
         /\ th'[t].pc \in {"idle", "load", "exec", "wait", "close", "drop"}
         /\ th'[t].pc \notin {"exec", "wait"}
         /\ th'[t].cur = None /\ th'[t].victim = None /\ th'[t].ret = "idle"
    BY ONLY <2>1, <2>2, <2>3, <2>6, ZenonT(30) DEF At
  <2>11. /\ open' \subseteq Files /\ quarantined' \in BOOLEAN
         /\ fw' \in [progs : [Ids -> SUBSET Bos], procs : SUBSET Ids, io : SUBSET Bos,
                     lost : SUBSET Bos]
    BY ONLY <2>1, <2>2, ZenonT(30) DEF ProgType
  <2>12. /\ UNCHANGED <<bo, listed, mem, pool, progs, holds>> /\ fw_lock \in {None, t}
         /\ fw_lock' \in {None, t} /\ fw'.progs = fw.progs /\ fw'.procs = fw.procs
         /\ fw'.lost = fw.lost /\ (~quarantined' => ~quarantined)
    BY ONLY <2>1, ZenonT(30)
  <2> QED
    BY ONLY IInv, t \in Threads, <2>6, <2>7, <2>8, <2>9, <2>10, <2>11, <2>12, <1>CallStep, ZenonT(40)
<1>FdClosed. ASSUME IInv, NEW t \in Threads, fd_closed(t)
    PROVE  IInv'
  <2> USE <1>FdClosed
  <2>1. /\ At(t, "close") /\ Goto(t, "drop") /\ fw_lock' = None
        /\ UNCHANGED <<bo, listed, mem, pool, progs, holds, open, quarantined, fw>>
    BY DEF fd_closed, boVars, poolVars, progVars
  <2>2. /\ th[t].ret = "idle" /\ th[t].cur = None /\ th[t].victim = None
        /\ ThType /\ ProgType
    BY <2>1, CallStart DEF At
  <2>3. fw_lock = t /\ fw_lock \in {None, t}
    BY <2>1, HoldsLock DEF Locked, At
  <2>4. "drop" \in Pcs
    BY DEF Pcs
  <2>5. /\ ThType' /\ \A u \in Threads \ {t} : th'[u] = th[u]
        /\ th'[t].pc = "drop" /\ th'[t].ret = "idle" /\ th'[t].cur = None /\ th'[t].victim = None
    BY <2>1, <2>2, <2>4, MoveGoto DEF Moved, ThType
  <2>6. ~Locked(t)'
    BY ONLY <2>5, ZenonT(30) DEF Locked, Unloading, UnloadPcs, Giving, At
  <2>7. LockInv(t)' /\ \A b \in Bos : ~Working(t, b)'
    BY <2>6, UnlockedNext
  <2>8. \A b \in fw'.io : bo[b].fw_io
    BY <2>1 DEF IInv, FwInv, ClaimInv
  <2>9. /\ th[t].pc \in {"idle", "load", "exec", "wait", "close"}
        /\ th'[t].pc \in {"idle", "load", "exec", "wait", "close", "drop"}
        /\ th'[t].pc \notin {"exec", "wait"}
    BY ONLY <2>1, <2>5, ZenonT(30) DEF At
  <2>10. /\ open' \subseteq Files /\ quarantined' \in BOOLEAN
         /\ fw' \in [progs : [Ids -> SUBSET Bos], procs : SUBSET Ids, io : SUBSET Bos,
                     lost : SUBSET Bos]
    BY ONLY <2>1, <2>2, ZenonT(30) DEF ProgType
  <2>11. /\ UNCHANGED <<bo, listed, mem, pool, progs, holds>>
         /\ fw_lock' \in {None, t} /\ fw'.progs = fw.progs /\ fw'.procs = fw.procs
         /\ fw'.lost = fw.lost /\ (~quarantined' => ~quarantined)
    BY ONLY <2>1, ZenonT(30)
  <2> QED
    BY ONLY IInv, t \in Threads, <2>3, <2>5, <2>7, <2>8, <2>9, <2>10, <2>11, <1>CallStep, ZenonT(40)
(* A load or an EXEC marks the next object on the file's list; a load takes *)
(* a reference on it too (n = 1).                                           *)
<1>MarkStep. ASSUME IInv, NEW t \in Threads, NEW b \in Bos, th[t].pc \in {"load", "exec"},
           b \in listed, NEW n \in {0, 1}, At(t, "load") => n = 1,
           NEW o \in Objects, bo' = [bo EXCEPT ![b] = o],
           o.kref = bo[b].kref + n, o.prog_refs = bo[b].prog_refs + n, o.maps = bo[b].maps,
           o.pooled_sec <=> bo[b].pooled_sec, o.fw_ref, bo[b].fw_io => o.fw_io,
           At(t, "exec") => o.fw_io,
           th' = [th EXCEPT ![t].todo = @ \ {b}, ![t].done = @ \cup {b}],
           UNCHANGED <<listed, mem, pool, fwVars>>
    PROVE  IInv'
  <2> USE <1>MarkStep
  <2>1. /\ th[t].ret = "idle" /\ th[t].cur = None /\ th[t].victim = None /\ th[t] \in Locals
        /\ ThType /\ LockInv(t) /\ ProgType /\ Table /\ ~Giving(t)
    <3>1. th[t].pc \in {"idle", "load", "exec", "wait", "close", "drop"} \cup UnloadPcs
      OBVIOUS
    <3> QED
      BY <3>1, CallStart DEF Giving, At
  <2>2. /\ fw_lock = t /\ fw_lock \in {None, t} /\ fw_lock' = fw_lock /\ quarantined' = quarantined
        /\ progs' = progs /\ open' = open /\ holds' = holds /\ fw' = fw
    BY HoldsLock DEF Locked, fwVars, progVars
  <2> DEFINE r == [th[t] EXCEPT !.todo = @ \ {b}, !.done = @ \cup {b}]
  <2>3. /\ r \in Locals /\ r.pc = th[t].pc /\ r.ret = th[t].ret /\ r.cur = th[t].cur
        /\ r.victim = th[t].victim /\ r.file = th[t].file /\ r.prog = th[t].prog
        /\ r.done = th[t].done \cup {b}
    BY ONLY <2>1, b \in Bos, Zenon DEF Locals
  <2>4. th' = [th EXCEPT ![t] = r]
    BY <2>1 DEF ThType
  <2>5. Moved(t, r)
    BY ONLY <2>1, <2>3, <2>4, t \in Threads, Move, ZenonT(40)
  <2> HIDE DEF r
  <2>6. ThType' /\ th'[t] = r /\ \A u \in Threads \ {t} : th'[u] = th[u]
    BY ONLY <2>5, ZenonT(30) DEF Moved, ThType
  <2>7. /\ Object(b) /\ mem[b] = "live" /\ b \notin InPool /\ ~bo[b].pooled_sec /\ bo[b].kref > 0
        /\ \A u \in Threads : th[u].cur # b /\ th[u].victim # b
    BY UsedFacts
  <2>8. /\ bo' \in [Bos -> Objects] /\ bo'[b] = o /\ \A x \in Bos \ {b} : bo'[x] = bo[x]
        /\ BoType /\ Alone /\ InPool' = InPool
    BY SMTT(30) DEF IInv, ObjInv, BoType, InPool
  <2>9. ThInv'
    <3>1. Control(t)'
      BY ONLY <2>1, <2>3, <2>6, th[t].pc \in {"load", "exec"}, ZenonT(30) DEF Control, Releasing, At, ReleasePcs
    <3>2. \A u \in Threads : Control(u)
      BY DEF IInv, ThInv
    <3> QED
      BY ONLY <2>6, <3>1, <3>2, ZenonT(30) DEF ThInv, Control, Releasing, At
  <2>10. ObjInv'
    <3>1. OnlyObject(t, b)
      BY <2>1, <2>3, <2>6, <2>7, <2>8 DEF OnlyObject
    <3>2. BoType'
      BY <2>8 DEF BoType
    <3>3. InHand(t)'
      BY ONLY <2>1, <2>3, <2>6, ZenonT(30) DEF InHand
    <3>4. Object(b)'
      <4>1. bo[b].kref \in Nat /\ bo[b].maps \in Nat /\ bo[b].prog_refs \in Nat
        BY RefCount
      <4>2. bo[b].kref = b01(b \in listed) + bo[b].maps + bo[b].prog_refs
            /\ b01(b \in listed) \in {0, 1} /\ b01(b \in listed') = b01(b \in listed)
        BY <2>7 DEF Object, b01
      <4>3. o.kref = b01(b \in listed') + o.maps + o.prog_refs /\ o.kref # 0
        BY ONLY <2>7, <4>1, <4>2, n \in {0, 1}, o.kref = bo[b].kref + n,
                o.prog_refs = bo[b].prog_refs + n, o.maps = bo[b].maps, SMTT(30)
      <4>4. mem'[b] = "live" /\ ~o.pooled_sec /\ b \notin InPool' /\ o.fw_ref
        BY <2>7, <2>8
      <4> QED
        BY ONLY <2>8, <4>3, <4>4, ZenonT(30) DEF Object, b01
    <3>5. \A j, k \in 1 .. Len(pool') : pool'[j] = pool'[k] => j = k
      BY <2>8 DEF Alone
    <3>6. ObjInv
      BY DEF IInv
    <3> QED
      BY ONLY <2>1, <3>1, <3>2, <3>3, <3>4, <3>5, <3>6, t \in Threads, b \in Bos, ObjStep, ZenonT(30)
  <2>11. LockInv(t)'
    <3>1. th'[t].pc = th[t].pc /\ th'[t].ret = "idle" /\ th'[t].file = th[t].file
          /\ th'[t].prog = th[t].prog /\ b \in th'[t].done
      BY ONLY <2>1, <2>3, <2>6, ZenonT(30)
    <3>2. At(t, "load") => /\ ~quarantined /\ th[t].file \in Files /\ th[t].prog \in Digests
                           /\ {i \in Ids : progs[i].state = "LIVE" /\ progs[i].digest = th[t].prog}
                                = {}
      BY <2>1 DEF LockInv, Find, Live
    <3>3. th'[t].todo \cup th'[t].done # {} /\ (At(t, "load")' <=> At(t, "load"))
      BY ONLY <3>1, ZenonT(30) DEF At
    <3>4. {i \in Ids : progs'[i].state = "LIVE" /\ progs'[i].digest = th'[t].prog}
             = {i \in Ids : progs[i].state = "LIVE" /\ progs[i].digest = th[t].prog}
      BY ONLY <2>2, <3>1, ZenonT(30)
    <3> QED
      BY ONLY <2>2, <3>1, <3>2, <3>3, <3>4, th[t].pc \in {"load", "exec"}, ZenonT(30)
         DEF LockInv, Locked, Unloading, UnloadPcs, Giving, At, Find, Live
  <2>12. Table' /\ ProgType'
    BY <2>1, <2>2, TableFrame DEF ProgType
  <2>13. ASSUME NEW x \in Bos
         PROVE  Cardinality(Loaded(x)') + b01(Working(t, x)') + b01(x \in fw'.lost)
                  <= bo'[x].prog_refs
    <3>1. Loaded(x)' = Loaded(x) /\ b01(x \in fw'.lost) = b01(x \in fw.lost)
      BY <2>2 DEF Loaded
    <3>2. /\ Cardinality(Loaded(x)) \in Nat /\ b01(Working(t, x)) \in {0, 1}
          /\ b01(x \in fw.lost) \in {0, 1} /\ bo[x].prog_refs \in Nat
          /\ Cardinality(Loaded(x)) + b01(Working(t, x)) + b01(x \in fw.lost) <= bo[x].prog_refs
      BY <2>2, ClaimFacts
    <3>3. Working(t, x)' => At(t, "load") /\ (x = b \/ Working(t, x))
      BY ONLY <2>1, <2>3, <2>6, th[t].pc \in {"load", "exec"}, ZenonT(30) DEF Working, Giving, At
    <3>4. CASE x = b
      <4>1. b01(Working(t, x)') \in {0, 1} /\ b01(Working(t, x)') <= n
        BY <3>3, SMTT(30) DEF b01
      <4>2. bo'[x].prog_refs = bo[x].prog_refs + n
        BY <2>8, <3>4
      <4> QED
        BY ONLY <3>1, <3>2, <4>1, <4>2, n \in {0, 1}, SMTT(30)
    <3>5. CASE x # b
      <4>1. b01(Working(t, x)') \in {0, 1} /\ b01(Working(t, x)') <= b01(Working(t, x))
        BY <3>3, <3>5, SMTT(30) DEF b01
      <4>2. bo'[x].prog_refs = bo[x].prog_refs
        BY <2>8, <3>5
      <4> QED
        BY ONLY <3>1, <3>2, <4>1, <4>2, SMTT(30)
    <3> QED
      BY <3>4, <3>5
  <2>14. \A x \in Bos : bo[x].fw_io => bo'[x].fw_io
    BY <2>8
  <2>15. \A x \in fw'.io : bo'[x].fw_io
    BY <2>1, <2>2, <2>14 DEF IInv, FwInv, ClaimInv, ProgType
  <2>16. th'[t].pc \in {"exec", "wait"} => \A x \in th'[t].done : bo'[x].fw_io
    <3>1. th[t].pc \in {"exec", "wait"} => \A x \in th[t].done : bo[x].fw_io
      BY DEF IInv, FwInv, ClaimInv
    <3>2. th[t].done \subseteq Bos
      BY <2>1 DEF Locals
    <3> QED
      BY <2>3, <2>6, <2>8, <2>14, <3>1, <3>2, SMTT(30) DEF At
  <2>17. FwInv'
    <3>1. fw_lock' \in {None, t} /\ \A u \in Threads \ {t} : th'[u] = th[u]
      BY ONLY <2>2, <2>6, ZenonT(30)
    <3> QED
      BY ONLY IInv, t \in Threads, <2>2, <3>1, <2>11, <2>12, <2>13, <2>15, <2>16, FwStep, ZenonT(30)
  <2> QED
    BY <2>9, <2>10, <2>17 DEF IInv
(* An object that is gone from the list ends the call. *)
<1>MarkFails. ASSUME IInv, NEW t \in Threads, th[t].pc \in {"load", "exec"}, Return(t), fw_lock' = None,
           UNCHANGED <<bo, listed, mem, pool, quarantined, progVars, fw>>
    PROVE  IInv'
  <2> USE <1>MarkFails
  <2>1. ThType /\ ProgType
    <3>1. th[t].pc \in {"idle", "load", "exec", "wait", "close", "drop"} \cup UnloadPcs
      OBVIOUS
    <3> QED
      BY <3>1, CallStart
  <2>2. fw_lock \in {None, t}
    BY HoldsLock DEF Locked
  <2>3. /\ ThType' /\ \A u \in Threads \ {t} : th'[u] = th[u]
        /\ th'[t].pc = "idle" /\ th'[t].ret = "idle" /\ th'[t].cur = None /\ th'[t].victim = None
    BY <2>1, MoveReturn, SMTT(30) DEF Moved, ThType, Rest
  <2>4. ~Locked(t)'
    BY ONLY <2>3, ZenonT(30) DEF Locked, Unloading, UnloadPcs, Giving, At
  <2>5. LockInv(t)' /\ \A b \in Bos : ~Working(t, b)'
    BY <2>4, UnlockedNext
  <2>6. /\ open' \subseteq Files /\ quarantined' \in BOOLEAN
        /\ fw' \in [progs : [Ids -> SUBSET Bos], procs : SUBSET Ids, io : SUBSET Bos,
                    lost : SUBSET Bos]
        /\ fw'.progs = fw.progs /\ fw'.procs = fw.procs /\ fw'.lost = fw.lost
        /\ (~quarantined' => ~quarantined)
    BY <2>1 DEF ProgType, progVars
  <2>7. \A b \in fw'.io : bo[b].fw_io
    BY DEF IInv, FwInv, ClaimInv
  <2>8. /\ th[t].pc \in {"idle", "load", "exec", "wait", "close"}
        /\ th'[t].pc \in {"idle", "load", "exec", "wait", "close", "drop"}
        /\ th'[t].pc \notin {"exec", "wait"} /\ fw_lock' \in {None, t}
    BY <2>3
  <2>9. UNCHANGED <<bo, listed, mem, pool, progs, holds>>
    BY DEF progVars
  <2> QED
    BY ONLY IInv, t \in Threads, <2>2, <2>3, <2>5, <2>6, <2>7, <2>8, <2>9, <1>CallStep, ZenonT(30)
<1>LoadSection. ASSUME IInv, NEW t \in Threads, NEW b \in Bos, load_section(t, b)
    PROVE  IInv'
  <2> USE <1>LoadSection
  <2>1. CASE Owns(th[t].file, b)
    <3>1. /\ At(t, "load") /\ b \in listed
          /\ bo' = [bo EXCEPT ![b].fw_ref = TRUE, ![b].fw_program = TRUE,
                              ![b].kref = @ + 1, ![b].prog_refs = @ + 1]
          /\ th' = [th EXCEPT ![t].todo = @ \ {b}, ![t].done = @ \cup {b}]
          /\ UNCHANGED <<listed, mem, pool, fwVars>>
      BY <2>1 DEF load_section, Owns, poolVars, fwVars
    <3> DEFINE o == [bo[b] EXCEPT !.fw_ref = TRUE, !.fw_program = TRUE,
                                  !.kref = @ + 1, !.prog_refs = @ + 1]
    <3>0. bo[b] \in Objects /\ bo[b].kref \in Nat /\ bo[b].prog_refs \in Nat
      BY RefCount
    <3>2. bo[b] \in Objects /\ bo[b].kref + 1 \in Nat /\ bo[b].prog_refs + 1 \in Nat
      BY ONLY <3>0
    <3>3. /\ o \in Objects /\ o.kref = bo[b].kref + 1 /\ o.prog_refs = bo[b].prog_refs + 1
          /\ o.maps = bo[b].maps /\ o.pooled_sec = bo[b].pooled_sec /\ o.fw_ref = TRUE
          /\ o.fw_io = bo[b].fw_io
      BY ONLY <3>2, Zenon DEF Objects
    <3>4. bo' = [bo EXCEPT ![b] = o]
      BY <3>1 DEF IInv, ObjInv, BoType
    <3> HIDE DEF o
    <3>5. /\ th[t].pc \in {"load", "exec"} /\ ~At(t, "exec")
          /\ (o.pooled_sec <=> bo[b].pooled_sec) /\ o.fw_ref /\ (bo[b].fw_io => o.fw_io)
      BY ONLY <3>1, <3>3, ZenonT(30) DEF At
    <3>6. 1 \in {0, 1}
      OBVIOUS
    <3> QED
      BY ONLY IInv, t \in Threads, b \in Bos, <3>1, <3>3, <3>4, <3>5, <3>6, <1>MarkStep, ZenonT(40)
  <2>2. CASE ~Owns(th[t].file, b)
    BY <2>2, <1>MarkFails DEF load_section, poolVars, At
  <2> QED
    BY <2>1, <2>2
<1>ExecIo. ASSUME IInv, NEW t \in Threads, NEW b \in Bos, exec_io(t, b)
    PROVE  IInv'
  <2> USE <1>ExecIo
  <2>1. CASE Owns(th[t].file, b)
    <3>1. /\ At(t, "exec") /\ b \in listed
          /\ bo' = [bo EXCEPT ![b].fw_ref = TRUE, ![b].fw_io = TRUE]
          /\ th' = [th EXCEPT ![t].todo = @ \ {b}, ![t].done = @ \cup {b}]
          /\ UNCHANGED <<listed, mem, pool, fwVars>>
      BY <2>1 DEF exec_io, Owns, poolVars, fwVars
    <3> DEFINE o == [bo[b] EXCEPT !.fw_ref = TRUE, !.fw_io = TRUE]
    <3>0. bo[b] \in Objects /\ bo[b].kref \in Nat /\ bo[b].prog_refs \in Nat
      BY RefCount
    <3>2. bo[b] \in Objects /\ bo[b].kref = bo[b].kref + 0 /\ bo[b].prog_refs = bo[b].prog_refs + 0
      BY ONLY <3>0
    <3>3. /\ o \in Objects /\ o.kref = bo[b].kref + 0 /\ o.prog_refs = bo[b].prog_refs + 0
          /\ o.maps = bo[b].maps /\ o.pooled_sec = bo[b].pooled_sec /\ o.fw_ref = TRUE
          /\ o.fw_io = TRUE
      BY ONLY <3>2, Zenon DEF Objects
    <3>4. bo' = [bo EXCEPT ![b] = o]
      BY <3>1 DEF IInv, ObjInv, BoType
    <3> HIDE DEF o
    <3>5. /\ th[t].pc \in {"load", "exec"} /\ ~At(t, "load") /\ o.fw_io
          /\ (o.pooled_sec <=> bo[b].pooled_sec) /\ o.fw_ref /\ (bo[b].fw_io => o.fw_io)
      BY ONLY <3>1, <3>3, ZenonT(30) DEF At
    <3>6. 0 \in {0, 1}
      OBVIOUS
    <3> QED
      BY ONLY IInv, t \in Threads, b \in Bos, <3>1, <3>3, <3>4, <3>5, <3>6, <1>MarkStep, ZenonT(40)
  <2>2. CASE ~Owns(th[t].file, b)
    BY <2>2, <1>MarkFails DEF exec_io, poolVars, At
  <2> QED
    BY <2>1, <2>2
<1> QED
  BY <1>ProgLoad, <1>Exec, <1>LoadSection, <1>ExecIo, <1>ExecSend, <1>ExecAnswer, <1>FdClosed,
     <1>Postclose DEF CallOf

-----------------------------------------------------------------------------
(* The steps that give a file a program: a lookup that finds it, the answer *)
(* to a load, and the process that makes it ready.                          *)
GainStep(t) ==
    \/ \E f \in Files :
          \/ \E d \in Digests : prog_lookup(t, f, d)
          \/ \E i \in Ids : proc_create(t, f, i)
    \/ load_answer(t)

LEMMA GainStepIInv ==
  ASSUME FiniteFacts
  PROVE  IInv /\ (\E t \in Threads : GainStep(t)) => IInv'
<1>AddUser. ASSUME holds \in [Files -> SUBSET Ids], NEW f \in Files, NEW i \in Ids, i \notin holds[f],
           holds' = [holds EXCEPT ![f] = @ \cup {i}]
    PROVE  /\ Cardinality(Users(i)') = Cardinality(Users(i)) + 1
           /\ \A j \in Ids \ {i} : Users(j)' = Users(j)
           /\ holds' \in [Files -> SUBSET Ids]
  <2> USE <1>AddUser
  <2>1. Users(i)' = Users(i) \cup {f} /\ f \notin Users(i)
    BY DEF Users
  <2>2. Cardinality(Users(i) \cup {f}) = Cardinality(Users(i)) + 1
    BY ONLY <2>1, UsersFinite, FiniteFacts, ZenonT(30) DEF FiniteFacts, FsAdd
  <2>3. \A j \in Ids \ {i} : Users(j)' = Users(j)
    BY DEF Users
  <2> QED
    BY <2>1, <2>2, <2>3
<1>SameClaims. ASSUME IInv, NEW t \in Threads, fw_lock \in {None, t}, bo' = bo, fw'.progs = fw.progs,
           fw'.lost = fw.lost, NEW b \in Bos, Working(t, b)' => Working(t, b)
    PROVE  Cardinality(Loaded(b)') + b01(Working(t, b)') + b01(b \in fw'.lost) <= bo'[b].prog_refs
  <2> USE <1>SameClaims
  <2>1. Loaded(b)' = Loaded(b)
    BY DEF Loaded
  <2>2. b01(Working(t, b)') \in {0, 1} /\ b01(Working(t, b)') <= b01(Working(t, b))
    BY SMTT(30) DEF b01
  <2>3. /\ Cardinality(Loaded(b)) \in Nat /\ b01(Working(t, b)) \in {0, 1}
        /\ b01(b \in fw.lost) \in {0, 1} /\ bo[b].prog_refs \in Nat
        /\ Cardinality(Loaded(b)) + b01(Working(t, b)) + b01(b \in fw.lost) <= bo[b].prog_refs
    BY ClaimFacts
  <2>4. bo'[b] = bo[b] /\ fw'.lost = fw.lost
    OBVIOUS
  <2> QED
    BY ONLY <2>1, <2>2, <2>3, <2>4, SMTT(30)
<1>ProgLookup. ASSUME IInv, NEW t \in Threads, NEW f \in Files, NEW d \in Digests, prog_lookup(t, f, d)
    PROVE  IInv'
  <2> USE <1>ProgLookup
  <2>1. /\ At(t, "idle") /\ fw_lock = None /\ ~quarantined
        /\ UNCHANGED <<fw_lock, th, quarantined, bo, listed, mem, pool, open, fw>>
    BY DEF prog_lookup, MayCommand, MayCall, boVars, poolVars
  <2>2. PICK i \in Ids : Live(i) /\ Ref(f, i, progs)
    BY DEF prog_lookup, Find
  <2>3. /\ th[t].ret = "idle" /\ ThType /\ ProgType /\ Table
    BY <2>1, CallStart DEF At
  <2>4. ~Locked(t)' /\ ~Giving(t)
    BY ONLY <2>1, <2>3, ZenonT(30) DEF Locked, Unloading, UnloadPcs, Giving, At
  <2>5. CASE i \in holds[f]
    <3>1. holds' = holds /\ progs' = progs
      BY <2>2, <2>3, <2>5, SMTT(30) DEF Ref, ProgType
    <3>2. UNCHANGED <<bo, listed, mem, pool, fwVars>>
      BY <2>1, <3>1 DEF fwVars, progVars
    <3>3. Control(t) /\ th' = th
      BY <2>1 DEF IInv, ThInv
    <3>4. ThType' /\ Control(t)' /\ Same(t)
      BY ONLY <2>3, <3>3, ZenonT(40) DEF ThType, Control, Releasing, At, Same
    <3> QED
      BY ONLY IInv, t \in Threads, <3>2, <3>3, <3>4, LocalStep, ZenonT(30)
  <2>6. CASE i \notin holds[f]
    <3> DEFINE e == [progs[i] EXCEPT !.users = progs[i].users + 1]
    <3>1. /\ progs[i].users = Cardinality(Users(i)) /\ progs[i] \in Programs
          /\ progs[i].users \in Nat /\ holds \in [Files -> SUBSET Ids]
          /\ \A k, j \in Ids : Live(k) /\ Live(j) /\ progs[k].digest = progs[j].digest => k = j
      BY SharedFacts
    <3>2. /\ holds' = [holds EXCEPT ![f] = @ \cup {i}] /\ progs' = [progs EXCEPT ![i] = e]
      BY <2>2, <2>3, <2>6 DEF Ref, ProgType
    <3>3. /\ Cardinality(Users(i)') = Cardinality(Users(i)) + 1
          /\ \A j \in Ids \ {i} : Users(j)' = Users(j)
          /\ holds' \in [Files -> SUBSET Ids]
      BY <2>6, <3>1, <3>2, <1>AddUser
    <3>4. /\ e \in Programs /\ e.users = progs[i].users + 1 /\ e.state = progs[i].state
          /\ e.digest = progs[i].digest /\ e.proc = progs[i].proc /\ e.sec = progs[i].sec
      <4>1. progs[i].users + 1 \in Nat
        BY ONLY <3>1
      <4> QED
        BY ONLY <3>1, <4>1, ZenonT(30) DEF Programs
    <3> HIDE DEF e
    <3>5. /\ e.users = Cardinality(Users(i)') /\ e.state = "LIVE"
          /\ \A j \in Ids \ {i} : Live(j) => progs[j].digest # e.digest
      BY ONLY <2>2, <3>1, <3>3, <3>4, ZenonT(40) DEF Live
    <3>6. /\ Shared' /\ progs' \in [Ids -> Programs]
          /\ \A j \in Ids : progs'[j].state = "FREE" => progs'[j] = NoProg
          /\ progs'[i] = e /\ \A j \in Ids \ {i} : progs'[j] = progs[j]
      BY <3>2, <3>3, <3>4, <3>5, SharedStep
    <3>7. \A j \in Ids : /\ progs'[j].state = progs[j].state /\ progs'[j].proc = progs[j].proc
                         /\ progs'[j].sec = progs[j].sec
      BY ONLY <3>4, <3>6, ZenonT(30)
    <3>8. Table'
      <4>1. ASSUME NEW j \in Ids
            PROVE  /\ progs'[j].state # "HELD" /\ (j \in fw'.procs => progs'[j].proc)
                   /\ (~Live(j)' => fw'.progs[j] = {})
                   /\ (Live(j)' => fw'.progs[j] = progs'[j].sec /\ fw'.progs[j] # {})
        BY <2>1, <2>4, <3>7, OnlyGiver, SMTT(30) DEF Live
      <4> QED
        BY ONLY <3>6, <4>1, ZenonT(30) DEF Table
    <3>9. ProgType'
      BY ONLY <2>1, <2>3, <3>3, <3>6, ZenonT(30) DEF ProgType
    <3>10. LockInv(t)'
      BY <2>4, UnlockedNext
    <3>11. ThInv' /\ ObjInv'
      BY ONLY IInv, <2>1, SameThreads, ZenonT(30)
    <3>12. \A b \in Bos : Cardinality(Loaded(b)') + b01(Working(t, b)') + b01(b \in fw'.lost)
                            <= bo'[b].prog_refs
      <4>1. \A b \in Bos : ~Working(t, b)'
        BY <2>4, UnlockedNext
      <4> QED
        BY <2>1, <4>1, <1>SameClaims
    <3>13. \A b \in fw'.io : bo'[b].fw_io
      BY <2>1 DEF IInv, FwInv, ClaimInv
    <3>14. /\ fw_lock \in {None, t} /\ fw_lock' \in {None, t}
           /\ \A u \in Threads \ {t} : th'[u] = th[u] /\ th'[t].pc \notin {"exec", "wait"}
      BY ONLY <2>1, ZenonT(30) DEF At
    <3>15. th'[t].pc \notin {"exec", "wait"}
      BY ONLY <2>1, ZenonT(30) DEF At
    <3>16. FwInv'
      BY ONLY IInv, t \in Threads, <3>8, <3>9, <3>10, <3>12, <3>13, <3>14, <3>15, FwStep, ZenonT(30)
    <3> QED
      BY <3>11, <3>16 DEF IInv
  <2> QED
    BY <2>5, <2>6
<1>ProcCreate. ASSUME IInv, NEW t \in Threads, NEW f \in Files, NEW i \in Ids, proc_create(t, f, i)
    PROVE  IInv'
  <2> USE <1>ProcCreate
  <2>1. /\ At(t, "idle") /\ fw_lock = None /\ ~quarantined /\ Live(i)
        /\ UNCHANGED <<fw_lock, th, bo, listed, mem, pool, open, holds>>
        /\ \/ /\ progs' = [progs EXCEPT ![i].proc = TRUE]
              /\ fw' = [fw EXCEPT !.procs = @ \cup {i}] /\ quarantined' = quarantined
           \/ /\ quarantined' = TRUE /\ progs' = progs
              /\ fw' \in {fw, [fw EXCEPT !.procs = @ \cup {i}]}
    BY DEF proc_create, MayCommand, MayCall, boVars, poolVars
  <2>2. /\ th[t].ret = "idle" /\ ThType /\ ProgType /\ Table
    BY <2>1, CallStart DEF At
  <2>3. ~Locked(t)' /\ ~Giving(t)
    BY ONLY <2>1, <2>2, ZenonT(30) DEF Locked, Unloading, UnloadPcs, Giving, At
  <2>4. /\ fw' \in [progs : [Ids -> SUBSET Bos], procs : SUBSET Ids, io : SUBSET Bos,
                    lost : SUBSET Bos]
        /\ fw'.progs = fw.progs /\ fw'.lost = fw.lost /\ fw'.io = fw.io
        /\ fw'.procs \subseteq fw.procs \cup {i}
    <3>1. fw' = fw \/ fw' = [fw EXCEPT !.procs = @ \cup {i}]
      BY ONLY <2>1, ZenonT(30)
    <3> QED
      BY ONLY <2>2, <3>1, i \in Ids, SMTT(30) DEF ProgType
  <2>5. Users(i)' = Users(i) /\ \A j \in Ids : Users(j)' = Users(j)
    BY ONLY <2>1, ZenonT(30) DEF Users
  <2>6. Table' /\ progs' \in [Ids -> Programs] /\ quarantined' \in BOOLEAN
    <3>1. CASE quarantined' = TRUE /\ progs' = progs
      <4>1. Shared' /\ \A j \in Ids : progs'[j].state = "FREE" => progs'[j] = NoProg
        BY ONLY <2>1, <2>2, <3>1, SMTT(30) DEF Table, Shared, Live
      <4> QED
        BY ONLY <2>2, <3>1, <4>1, ZenonT(30) DEF Table, ProgType
    <3>2. CASE progs' = [progs EXCEPT ![i].proc = TRUE] /\ quarantined' = quarantined
      <4> DEFINE e == [progs[i] EXCEPT !.proc = TRUE]
      <4>1. /\ progs[i].users = Cardinality(Users(i)) /\ progs[i] \in Programs
            /\ \A k, j \in Ids : Live(k) /\ Live(j) /\ progs[k].digest = progs[j].digest => k = j
        BY SharedFacts
      <4>2. progs' = [progs EXCEPT ![i] = e]
        BY <2>2, <3>2 DEF ProgType
      <4>3. /\ e \in Programs /\ e.users = progs[i].users /\ e.state = progs[i].state
            /\ e.digest = progs[i].digest /\ e.proc = TRUE /\ e.sec = progs[i].sec
        BY ONLY <4>1, Zenon DEF Programs
      <4> HIDE DEF e
      <4>4. /\ e.users = Cardinality(Users(i)') /\ e.state = "LIVE"
            /\ \A j \in Ids \ {i} : Live(j) => progs[j].digest # e.digest
        BY ONLY <2>1, <2>5, <4>1, <4>3, ZenonT(30) DEF Live
      <4>5. /\ Shared' /\ progs' \in [Ids -> Programs]
            /\ \A j \in Ids : progs'[j].state = "FREE" => progs'[j] = NoProg
            /\ progs'[i] = e /\ \A j \in Ids \ {i} : progs'[j] = progs[j]
        BY <2>5, <4>2, <4>3, <4>4, SharedStep
      <4>6. ASSUME NEW j \in Ids
            PROVE  /\ progs'[j].state # "HELD" /\ (j \in fw'.procs => progs'[j].proc)
                   /\ (~Live(j)' => fw'.progs[j] = {})
                   /\ (Live(j)' => fw'.progs[j] = progs'[j].sec /\ fw'.progs[j] # {})
        <5>1. /\ progs[j].state # "HELD" /\ (j \in fw.procs => progs[j].proc)
              /\ (~Live(j) => fw.progs[j] = {})
              /\ (Live(j) => fw.progs[j] = progs[j].sec /\ fw.progs[j] # {})
          BY <2>1, <2>3, OnlyGiver
        <5> QED
          BY ONLY <2>4, <4>3, <4>5, <5>1, SMTT(30) DEF Live
      <4> QED
        BY ONLY <2>2, <3>2, <4>5, <4>6, ZenonT(30) DEF Table, ProgType
    <3> QED
      BY ONLY <2>1, <3>1, <3>2, Zenon
  <2>7. ProgType'
    BY ONLY <2>1, <2>2, <2>4, <2>6, ZenonT(30) DEF ProgType
  <2>8. LockInv(t)' /\ \A b \in Bos : ~Working(t, b)'
    BY <2>3, UnlockedNext
  <2>9. ThInv' /\ ObjInv'
    BY ONLY IInv, <2>1, SameThreads, ZenonT(30)
  <2>10. \A b \in Bos : Cardinality(Loaded(b)') + b01(Working(t, b)') + b01(b \in fw'.lost)
                          <= bo'[b].prog_refs
    BY <2>1, <2>4, <2>8, <1>SameClaims
  <2>11. \A b \in fw'.io : bo'[b].fw_io
    BY <2>1, <2>4 DEF IInv, FwInv, ClaimInv
  <2>12. /\ fw_lock \in {None, t} /\ fw_lock' \in {None, t} /\ th'[t].pc \notin {"exec", "wait"}
         /\ \A u \in Threads \ {t} : th'[u] = th[u]
    BY ONLY <2>1, ZenonT(30) DEF At
  <2>13. FwInv'
    BY ONLY IInv, t \in Threads, <2>6, <2>7, <2>8, <2>10, <2>11, <2>12, FwStep, ZenonT(30)
  <2> QED
    BY <2>9, <2>13 DEF IInv
(* The end of a load: what the table gains or the firmware keeps takes over *)
(* the references of the load.                                              *)
<1>AnswerStep. ASSUME IInv, NEW t \in Threads, At(t, "load"), th[t].todo = {}, fw_lock' = None, Return(t),
           UNCHANGED <<bo, listed, mem, pool>>, ProgType', Table', fw'.io = fw.io,
           \A b \in Bos : Cardinality(Loaded(b)') + b01(b \in fw'.lost)
              <= Cardinality(Loaded(b)) + b01(Working(t, b)) + b01(b \in fw.lost)
    PROVE  IInv'
  <2> USE <1>AnswerStep
  <2>1. /\ th[t].ret = "idle" /\ th[t].cur = None /\ th[t].victim = None /\ ThType
    BY CallStart DEF At
  <2>2. fw_lock \in {None, t} /\ fw_lock' \in {None, t}
    BY HoldsLock DEF Locked, At
  <2>3. /\ ThType' /\ \A u \in Threads \ {t} : th'[u] = th[u]
        /\ th'[t].pc = "idle" /\ th'[t].ret = "idle" /\ th'[t].cur = None /\ th'[t].victim = None
    BY <2>1, MoveReturn, SMTT(30) DEF Moved, ThType, Rest
  <2>4. ~Locked(t)'
    BY ONLY <2>3, ZenonT(30) DEF Locked, Unloading, UnloadPcs, Giving, At
  <2>5. LockInv(t)' /\ \A b \in Bos : ~Working(t, b)'
    BY <2>4, UnlockedNext
  <2>6. ThInv' /\ ObjInv'
    BY <2>1, <2>3, CallFrame DEF ReleasePcs
  <2>7. ASSUME NEW b \in Bos
        PROVE  Cardinality(Loaded(b)') + b01(Working(t, b)') + b01(b \in fw'.lost)
                 <= bo'[b].prog_refs
    <3>1. /\ Cardinality(Loaded(b)) \in Nat /\ b01(Working(t, b)) \in {0, 1}
          /\ b01(b \in fw.lost) \in {0, 1} /\ bo[b].prog_refs \in Nat
          /\ Cardinality(Loaded(b)) + b01(Working(t, b)) + b01(b \in fw.lost) <= bo[b].prog_refs
      BY <2>2, ClaimFacts
    <3>2. b01(Working(t, b)') = 0 /\ b01(b \in fw'.lost) \in {0, 1}
      BY <2>5 DEF b01
    <3>3. bo'[b] = bo[b] /\ Cardinality(Loaded(b)') \in Nat
      BY Loads
    <3>4. Cardinality(Loaded(b)') + b01(b \in fw'.lost)
              <= Cardinality(Loaded(b)) + b01(Working(t, b)) + b01(b \in fw.lost)
      OBVIOUS
    <3> QED
      BY ONLY <3>1, <3>2, <3>3, <3>4, SMTT(30)
  <2>8. \A b \in fw'.io : bo'[b].fw_io
    BY DEF IInv, FwInv, ClaimInv
  <2>9. th'[t].pc \notin {"exec", "wait"}
    BY ONLY <2>3, ZenonT(30)
  <2>10. FwInv'
    <3>1. ProgType' /\ Table' /\ \A u \in Threads \ {t} : th'[u] = th[u]
      BY <2>3
    <3> QED
      BY ONLY IInv, t \in Threads, <3>1, <2>2, <2>5, <2>7, <2>8, <2>9, FwStep, ZenonT(30)
  <2> QED
    BY <2>6, <2>10 DEF IInv
<1>LoadAnswer. ASSUME IInv, NEW t \in Threads, load_answer(t)
    PROVE  IInv'
  <2> USE <1>LoadAnswer
  <2>1. /\ At(t, "load") /\ th[t].todo = {} /\ fw_lock' = None /\ Return(t)
        /\ UNCHANGED <<bo, listed, mem, pool>> /\ open' = open
    BY DEF load_answer, boVars, poolVars
  <2>2. /\ th[t].ret = "idle" /\ th[t] \in Locals /\ LockInv(t) /\ ProgType /\ Table
    BY <2>1, CallStart DEF At
  <2>3. fw_lock \in {None, t} /\ ~Giving(t)
    BY <2>1, <2>2, HoldsLock DEF Locked, At, Giving
  <2>4. /\ ~quarantined /\ Find(th[t].prog) = {} /\ th[t].file \in Files
        /\ th[t].prog \in Digests /\ th[t].done # {} /\ th[t].done \subseteq Bos
    BY ONLY <2>1, <2>2, ZenonT(30) DEF LockInv, Locals
  <2>5. \A b \in Bos : b01(Working(t, b)) = b01(b \in th[t].done)
    BY ONLY <2>1, <2>3, ZenonT(30) DEF Working, b01
  <2>6. ASSUME NEW i \in Ids, fw.progs[i] = {}, fw' = [fw EXCEPT !.progs[i] = th[t].done],
               Ref(th[t].file, i, [progs EXCEPT ![i] = [NoProg EXCEPT !.state = "LIVE",
                          !.digest = th[t].prog, !.sec = th[t].done]]),
               quarantined' = quarantined
        PROVE  IInv'
    <3>1. ~Live(i) /\ progs[i] = NoProg /\ (i \in fw.procs => progs[i].proc)
      BY <2>3, <2>4, <2>6, OnlyGiver
    <3>2. i \notin fw.procs /\ progs[i].users = 0
      BY ONLY <3>1, SMTT(30) DEF NoProg
    <3>3. /\ progs[i].users = Cardinality(Users(i)) /\ holds \in [Files -> SUBSET Ids]
      BY SharedFacts
    <3>4. i \notin holds[th[t].file]
      <4>1. Users(i) = {}
        BY ONLY FiniteFacts, <3>2, <3>3, UsersFinite, ZenonT(30)
      <4> QED
        BY ONLY <2>4, <4>1, ZenonT(30) DEF Users
    <3> DEFINE e == [NoProg EXCEPT !.state = "LIVE", !.digest = th[t].prog, !.sec = th[t].done,
                                   !.users = 1]
    <3>5. /\ holds' = [holds EXCEPT ![th[t].file] = @ \cup {i}]
          /\ progs' = [progs EXCEPT ![i] = e]
      <4> DEFINE e0 == [NoProg EXCEPT !.state = "LIVE", !.digest = th[t].prog,
                                      !.sec = th[t].done]
      <4>1. e0.users = 0 /\ e = [e0 EXCEPT !.users = 1]
        BY DEF NoProg
      <4>2. Ref(th[t].file, i, [progs EXCEPT ![i] = e0]) /\ progs \in [Ids -> Programs]
        BY <2>2, <2>6 DEF ProgType
      <4> HIDE DEF e, e0
      <4>3. /\ holds' = [holds EXCEPT ![th[t].file] = @ \cup {i}]
            /\ progs' = [[progs EXCEPT ![i] = e0] EXCEPT ![i].users = @ + 1]
        BY ONLY <3>4, <4>2, ZenonT(30) DEF Ref
      <4>4. progs' = [progs EXCEPT ![i] = [e0 EXCEPT !.users = e0.users + 1]]
        BY ONLY <4>2, <4>3, i \in Ids, Zenon
      <4>5. e0.users + 1 = 1
        BY ONLY <4>1
      <4>6. progs' = [progs EXCEPT ![i] = e]
        BY ONLY <4>1, <4>4, <4>5, ZenonT(30)
      <4> QED
        BY ONLY <4>3, <4>6, ZenonT(40)
    <3>6. /\ e \in Programs /\ e.state = "LIVE" /\ e.digest = th[t].prog /\ e.sec = th[t].done
          /\ e.users = 1
      BY ONLY <2>4, Zenon DEF Programs, NoProg
    <3> HIDE DEF e
    <3>7. /\ Cardinality(Users(i)') = Cardinality(Users(i)) + 1
          /\ \A j \in Ids \ {i} : Users(j)' = Users(j)
          /\ holds' \in [Files -> SUBSET Ids]
      BY <2>4, <3>3, <3>4, <3>5, <1>AddUser
    <3>8. e.users = Cardinality(Users(i)')
      BY ONLY <3>2, <3>3, <3>6, <3>7, SMTT(30)
    <3>9. \A j \in Ids \ {i} : Live(j) => progs[j].digest # e.digest
      BY ONLY <2>4, <3>6, ZenonT(30) DEF Find
    <3>10. /\ Shared' /\ progs' \in [Ids -> Programs]
           /\ \A j \in Ids : progs'[j].state = "FREE" => progs'[j] = NoProg
           /\ progs'[i] = e /\ \A j \in Ids \ {i} : progs'[j] = progs[j]
      BY <3>5, <3>6, <3>7, <3>8, <3>9, SharedStep
    <3>11. /\ fw' \in [progs : [Ids -> SUBSET Bos], procs : SUBSET Ids, io : SUBSET Bos,
                       lost : SUBSET Bos]
           /\ fw'.progs[i] = th[t].done /\ fw'.procs = fw.procs /\ fw'.io = fw.io
           /\ fw'.lost = fw.lost /\ \A j \in Ids \ {i} : fw'.progs[j] = fw.progs[j]
      BY ONLY <2>2, <2>4, <2>6, i \in Ids, ZenonT(30) DEF ProgType
    <3>12. ProgType'
      BY <2>1, <2>2, <2>6, <3>7, <3>10, <3>11 DEF ProgType
    <3>13. Table'
      <4>1. ASSUME NEW j \in Ids
            PROVE  /\ progs'[j].state # "HELD" /\ (j \in fw'.procs => progs'[j].proc)
                   /\ (~Live(j)' => fw'.progs[j] = {})
                   /\ (Live(j)' => fw'.progs[j] = progs'[j].sec /\ fw'.progs[j] # {})
        <5>1. CASE j = i
          BY <2>4, <3>2, <3>6, <3>10, <3>11, <5>1 DEF Live
        <5>2. CASE j # i
          BY <2>3, <2>4, <3>10, <3>11, <5>2, OnlyGiver, SMTT(30) DEF Live
        <5> QED
          BY <5>1, <5>2
      <4> QED
        BY ONLY <3>10, <4>1, ZenonT(30) DEF Table
    <3>14. ASSUME NEW b \in Bos
           PROVE  Cardinality(Loaded(b)') + b01(b \in fw'.lost)
                    <= Cardinality(Loaded(b)) + b01(Working(t, b)) + b01(b \in fw.lost)
      <4>1. Cardinality(Loaded(b)) \in Nat /\ IsFiniteSet(Loaded(b))
        BY Loads
      <4>2. b01(b \in fw.lost) \in {0, 1} /\ b01(b \in fw'.lost) = b01(b \in fw.lost)
        BY ONLY <3>11, ZenonT(30) DEF b01
      <4>3. i \notin Loaded(b)
        BY <2>6 DEF Loaded
      <4>4. CASE b \in th[t].done
        <5>1. Loaded(b)' = Loaded(b) \cup {i}
          BY <3>11, <4>4 DEF Loaded
        <5>2. Cardinality(Loaded(b)') = Cardinality(Loaded(b)) + 1
          BY ONLY <4>1, <4>3, <5>1, FiniteFacts, Zenon DEF FiniteFacts, FsAdd
        <5>3. b01(Working(t, b)) = 1
          BY <2>5, <4>4 DEF b01
        <5> QED
          BY ONLY <4>1, <4>2, <5>2, <5>3, SMTT(30)
      <4>5. CASE b \notin th[t].done
        <5>1. Loaded(b)' = Loaded(b)
          BY <2>6, <3>11, <4>5 DEF Loaded
        <5>2. b01(Working(t, b)) = 0
          BY <2>5, <4>5 DEF b01
        <5> QED
          BY ONLY <4>1, <4>2, <5>1, <5>2, SMTT(30)
      <4> QED
        BY <4>4, <4>5
    <3> QED
      BY ONLY IInv, t \in Threads, <2>1, <3>11, <3>12, <3>13, <3>14, <1>AnswerStep, ZenonT(30)
  <2>7. ASSUME fw' = [fw EXCEPT !.lost = @ \cup th[t].done], quarantined' \in BOOLEAN,
               progs' = progs, holds' = holds
        PROVE  IInv'
    <3>1. /\ fw' \in [progs : [Ids -> SUBSET Bos], procs : SUBSET Ids, io : SUBSET Bos,
                      lost : SUBSET Bos]
          /\ fw'.progs = fw.progs /\ fw'.procs = fw.procs /\ fw'.io = fw.io
          /\ fw'.lost = fw.lost \cup th[t].done
      BY ONLY <2>2, <2>4, <2>7, ZenonT(30) DEF ProgType
    <3>2. ProgType'
      BY <2>1, <2>2, <2>7, <3>1 DEF ProgType
    <3>3. Table'
      BY <2>3, <2>4, <2>7, <3>1, TableFrame
    <3>4. ASSUME NEW b \in Bos
          PROVE  Cardinality(Loaded(b)') + b01(b \in fw'.lost)
                   <= Cardinality(Loaded(b)) + b01(Working(t, b)) + b01(b \in fw.lost)
      <4>1. Cardinality(Loaded(b)) \in Nat /\ Loaded(b)' = Loaded(b)
        BY <3>1, Loads DEF Loaded
      <4>2. /\ b01(b \in fw'.lost) <= b01(b \in th[t].done) + b01(b \in fw.lost)
            /\ b01(b \in fw'.lost) \in {0, 1} /\ b01(b \in th[t].done) \in {0, 1}
            /\ b01(b \in fw.lost) \in {0, 1} /\ b01(Working(t, b)) = b01(b \in th[t].done)
        BY ONLY <2>5, <3>1, b \in Bos, SMTT(30) DEF b01
      <4> QED
        BY ONLY <4>1, <4>2, SMTT(30)
    <3> QED
      BY ONLY IInv, t \in Threads, <2>1, <3>1, <3>2, <3>3, <3>4, <1>AnswerStep, ZenonT(30)
  <2> QED
    BY <2>6, <2>7 DEF load_answer
<1> QED
  BY <1>ProgLookup, <1>ProcCreate, <1>LoadAnswer DEF GainStep

-----------------------------------------------------------------------------
(* A closing file drops a program. *)
LEMMA FdCloseIInv ==
  ASSUME FiniteFacts
  PROVE  IInv /\ (\E t \in Threads, i \in Ids : fd_close(t, i)) => IInv'
<1>DropUser. ASSUME holds \in [Files -> SUBSET Ids], NEW f \in Files, NEW i \in Ids, i \in holds[f],
           holds' = [holds EXCEPT ![f] = @ \ {i}]
    PROVE  /\ Cardinality(Users(i)') = Cardinality(Users(i)) - 1
           /\ Cardinality(Users(i)) > 0
           /\ \A j \in Ids \ {i} : Users(j)' = Users(j)
           /\ holds' \in [Files -> SUBSET Ids]
  <2> USE <1>DropUser
  <2>1. Users(i)' = Users(i) \ {f} /\ f \in Users(i)
    BY DEF Users
  <2>2. Cardinality(Users(i) \ {f}) = Cardinality(Users(i)) - 1
    BY ONLY <2>1, UsersFinite, FiniteFacts, ZenonT(40) DEF FiniteFacts, FsRemove
  <2>3. \A j \in Ids \ {i} : Users(j)' = Users(j)
    BY DEF Users
  <2>4. Cardinality(Users(i)) > 0
    <3>1. Cardinality(Users(i)) # 0 /\ Cardinality(Users(i)) \in Nat
      BY ONLY FiniteFacts, <2>1, UsersFinite, ZenonT(30)
    <3> QED
      BY ONLY <3>1
  <2> QED
    BY <2>1, <2>2, <2>3, <2>4
(* Only the users of entry i change, or its state on a quarantined device. *)
<1>DropStep. ASSUME IInv, NEW t \in Threads, At(t, "close"), NEW i \in Ids, i \in holds[th[t].file],
           holds' = [holds EXCEPT ![th[t].file] = @ \ {i}],
           NEW e \in Programs, progs' = [progs EXCEPT ![i] = e],
           e.users = progs[i].users - 1, e.digest = progs[i].digest,
           e.proc <=> progs[i].proc, e.sec = progs[i].sec,
           e.state = progs[i].state \/ (quarantined /\ e.state = "HELD"),
           UNCHANGED <<quarantined, fw, open>>
    PROVE  ProgType' /\ Table' /\ progs[i].state # "FREE" /\ progs'[i] = e
  <2> USE <1>DropStep
  <2>1. th[t].file \in Files /\ ProgType /\ th[t].ret = "idle"
    BY CallStart DEF LockInv, At
  <2>2. fw_lock \in {None, t} /\ ~Giving(t)
    BY <2>1, HoldsLock DEF Locked, Giving, At
  <2>3. /\ progs[i].users = Cardinality(Users(i)) /\ holds \in [Files -> SUBSET Ids]
        /\ \A k, j \in Ids : Live(k) /\ Live(j) /\ progs[k].digest = progs[j].digest => k = j
        /\ progs[i].state = "FREE" => progs[i] = NoProg
    BY SharedFacts
  <2>4. /\ Cardinality(Users(i)') = Cardinality(Users(i)) - 1 /\ Cardinality(Users(i)) > 0
        /\ \A j \in Ids \ {i} : Users(j)' = Users(j)
        /\ holds' \in [Files -> SUBSET Ids]
    BY <2>1, <2>3, <1>DropUser
  <2>5. progs[i].state # "FREE" /\ e.state # "FREE"
    <3>1. NoProg.users = 0 /\ progs[i].users # 0
      BY ONLY <2>3, <2>4, SMTT(30) DEF NoProg
    <3> QED
      BY <2>3, <3>1
  <2>6. e.state = "LIVE" => \A j \in Ids \ {i} : Live(j) => progs[j].digest # e.digest
    BY <2>3 DEF Live
  <2>7. e.users = Cardinality(Users(i)')
    BY <2>3, <2>4
  <2>8. /\ Shared' /\ progs' \in [Ids -> Programs]
        /\ \A j \in Ids : progs'[j].state = "FREE" => progs'[j] = NoProg
        /\ progs'[i] = e /\ \A j \in Ids \ {i} : progs'[j] = progs[j]
    BY <2>4, <2>5, <2>6, <2>7, SharedStep
  <2>9. ASSUME ~quarantined', NEW j \in Ids
        PROVE  /\ progs'[j].state # "HELD" /\ (j \in fw'.procs => progs'[j].proc)
               /\ (~Live(j)' => fw'.progs[j] = {})
               /\ (Live(j)' => fw'.progs[j] = progs'[j].sec /\ fw'.progs[j] # {})
    <3>1. /\ progs[j].state # "HELD" /\ (j \in fw.procs => progs[j].proc)
          /\ (~Live(j) => fw.progs[j] = {})
          /\ (Live(j) => fw.progs[j] = progs[j].sec /\ fw.progs[j] # {})
      BY <2>2, <2>9, OnlyGiver
    <3>2. /\ progs'[j].state = progs[j].state /\ (progs'[j].proc <=> progs[j].proc)
          /\ progs'[j].sec = progs[j].sec
      BY <2>8, <2>9
    <3> QED
      BY <3>1, <3>2 DEF Live
  <2>10. Table'
    BY <2>8, <2>9 DEF Table
  <2>11. ProgType'
    BY <2>1, <2>4, <2>8 DEF ProgType
  <2> QED
    BY <2>5, <2>8, <2>10, <2>11
<1>FdClose. ASSUME IInv, NEW t \in Threads, NEW i \in Ids, fd_close(t, i)
    PROVE  IInv'
  <2> USE <1>FdClose
  <2>1. /\ At(t, "close") /\ i \in holds[th[t].file]
        /\ holds' = [holds EXCEPT ![th[t].file] = @ \ {i}]
        /\ UNCHANGED <<fw_lock, quarantined, bo, listed, mem, pool, open, fw>>
        /\ th[t].pc = "close"
    BY DEF fd_close, boVars, poolVars, At
  <2>2. /\ th[t].ret = "idle" /\ th[t].cur = None /\ th[t].victim = None /\ th[t] \in Locals
        /\ ThType /\ LockInv(t) /\ ProgType /\ th[t].file \in Files
    BY <2>1, CallStart DEF At, LockInv
  <2>3. /\ progs[i].users = Cardinality(Users(i)) /\ progs[i] \in Programs
        /\ holds \in [Files -> SUBSET Ids] /\ progs[i].users \in Nat
    BY SharedFacts
  <2>4. progs[i].users - 1 \in Nat
    <3>1. Cardinality(Users(i)) > 0
      BY <2>1, <2>2, <2>3, <1>DropUser
    <3> QED
      BY ONLY <2>3, <3>1, SMTT(30)
  <2>5. \A b \in Bos : Loaded(b)' = Loaded(b) /\ ~Working(t, b)
    BY ONLY <2>1, <2>2, ZenonT(30) DEF Loaded, Working, Giving, At
  <2>6. fw_lock = t /\ fw_lock' = t /\ fw_lock \in {None, t} /\ ~Giving(t)
    BY <2>1, <2>2, HoldsLock DEF Locked, Giving, At
  <2>7. ASSUME th' = th, ProgType', Table'
        PROVE  IInv'
    <3>1. ThType' /\ \A b \in Bos : ~Working(t, b)'
      BY ONLY <2>2, <2>5, <2>7, ZenonT(30) DEF ThType, Working, Giving, At
    <3>2. LockInv(t)'
      BY ONLY <2>1, <2>2, <2>6, <2>7, ZenonT(40) DEF LockInv, Locked, Unloading, UnloadPcs, Giving, At
    <3>3. \A b \in Bos : Cardinality(Loaded(b)') + b01(Working(t, b)')
                            <= Cardinality(Loaded(b)) + b01(Working(t, b))
      <4> TAKE b \in Bos
      <4>1. Cardinality(Loaded(b)) \in Nat
        BY Loads
      <4>2. b01(Working(t, b)') = 0 /\ b01(Working(t, b)) = 0
        BY <2>5, <3>1 DEF b01
      <4> QED
        BY ONLY <2>5, <4>1, <4>2, b \in Bos, SMTT(30)
    <3>4. /\ th[t].pc \in {"close"} \cup UnloadPcs /\ th'[t].pc \in {"close"} \cup UnloadPcs
          /\ th'[t].ret = "idle" /\ th'[t].cur = None /\ th'[t].victim = None
          /\ \A u \in Threads \ {t} : th'[u] = th[u]
          /\ fw'.io = fw.io /\ fw'.lost = fw.lost
      BY ONLY <2>1, <2>2, <2>7, ZenonT(30)
    <3> QED
      BY ONLY FiniteFacts, IInv, t \in Threads, <2>1, <2>7, <3>1, <3>2, <3>3, <3>4, CloseStep, ZenonT(40)
  <2>8. CASE progs' = [progs EXCEPT ![i].users = @ - 1] /\ th' = th
    <3> DEFINE e == [progs[i] EXCEPT !.users = progs[i].users - 1]
    <3>1. /\ e \in Programs /\ e.users = progs[i].users - 1 /\ e.digest = progs[i].digest
          /\ e.proc = progs[i].proc /\ e.sec = progs[i].sec /\ e.state = progs[i].state
      BY ONLY <2>3, <2>4, ZenonT(30) DEF Programs
    <3>2. progs' = [progs EXCEPT ![i] = e]
      BY <2>2, <2>8 DEF ProgType
    <3> HIDE DEF e
    <3>3. (e.proc <=> progs[i].proc) /\ UNCHANGED <<quarantined, fw, open>>
      BY ONLY <2>1, <3>1, ZenonT(30)
    <3>4. ProgType' /\ Table'
      BY ONLY IInv, t \in Threads, i \in Ids, <2>1, <3>1, <3>2, <3>3, <1>DropStep, Zenon
    <3> QED
      BY <2>7, <2>8, <3>4
  <2>9. CASE /\ progs[i].users = 1 /\ quarantined
             /\ progs' = [progs EXCEPT ![i].users = 0, ![i].state = "HELD"] /\ th' = th
    <3> DEFINE e == [progs[i] EXCEPT !.users = 0, !.state = "HELD"]
    <3>1. /\ e \in Programs /\ e.users = 0 /\ e.digest = progs[i].digest
          /\ e.proc = progs[i].proc /\ e.sec = progs[i].sec /\ e.state = "HELD"
      BY ONLY <2>3, Zenon DEF Programs
    <3>2. progs' = [progs EXCEPT ![i] = e]
      BY <2>2, <2>9 DEF ProgType
    <3> HIDE DEF e
    <3>3. (e.proc <=> progs[i].proc) /\ UNCHANGED <<quarantined, fw, open>>
          /\ e.users = progs[i].users - 1
      BY ONLY <2>1, <2>9, <3>1, SMTT(30)
    <3>4. ProgType' /\ Table'
      BY ONLY IInv, t \in Threads, i \in Ids, <2>1, <2>9, <3>1, <3>2, <3>3, <1>DropStep, ZenonT(40)
    <3> QED
      BY <2>7, <2>9, <3>4
  <2>10. CASE /\ progs[i].users = 1 /\ ~quarantined
              /\ progs' = [progs EXCEPT ![i].users = 0]
              /\ th' = [th EXCEPT ![t].prog = i,
                          ![t].pc = IF progs[i].proc THEN "terminate" ELSE "destroy"]
    <3> DEFINE e == [progs[i] EXCEPT !.users = 0]
               r == [th[t] EXCEPT !.prog = i,
                                  !.pc = IF progs[i].proc THEN "terminate" ELSE "destroy"]
    <3>1. /\ e \in Programs /\ e.users = 0 /\ e.digest = progs[i].digest
          /\ e.proc = progs[i].proc /\ e.sec = progs[i].sec /\ e.state = progs[i].state
      BY ONLY <2>3, ZenonT(30) DEF Programs
    <3>2. progs' = [progs EXCEPT ![i] = e]
      BY <2>2, <2>10 DEF ProgType
    <3>3. /\ r \in Locals /\ r.prog = i /\ r.ret = th[t].ret /\ r.cur = th[t].cur
          /\ r.victim = th[t].victim /\ r.file = th[t].file
          /\ r.pc = IF progs[i].proc THEN "terminate" ELSE "destroy"
      <4>1. "terminate" \in Pcs /\ "destroy" \in Pcs
        BY DEF Pcs, UnloadPcs
      <4> QED
        BY ONLY <2>2, <4>1, i \in Ids, ZenonT(40) DEF Locals
    <3>4. th' = [th EXCEPT ![t] = r]
      BY <2>2, <2>10 DEF ThType
    <3>5. Moved(t, r)
      BY ONLY <2>2, <3>3, <3>4, t \in Threads, Move, ZenonT(40)
    <3> HIDE DEF e, r
    <3>6. ThType' /\ th'[t] = r /\ \A u \in Threads \ {t} : th'[u] = th[u]
      BY ONLY <3>5, ZenonT(30) DEF Moved, ThType
    <3>7. (e.proc <=> progs[i].proc) /\ UNCHANGED <<quarantined, fw, open>>
          /\ e.users = progs[i].users - 1
      BY ONLY <2>1, <2>10, <3>1, SMTT(30)
    <3>8. ProgType' /\ Table' /\ progs[i].state # "FREE" /\ progs'[i] = e
      BY ONLY IInv, t \in Threads, i \in Ids, <2>1, <3>1, <3>2, <3>7, <1>DropStep, ZenonT(40)
    <3>9. progs[i].state # "HELD" /\ (i \in fw.procs => progs[i].proc)
      BY <2>6, <2>10, OnlyGiver
    <3>10. Live(i)' /\ progs'[i].users = 0
      BY ONLY <2>3, <3>1, <3>8, <3>9, ZenonT(30) DEF Live, Programs
    <3>11. LockInv(t)'
      <4>1. /\ th'[t].prog = i /\ th'[t].ret = "idle" /\ th'[t].file \in Files
            /\ th'[t].pc \in {"terminate", "destroy"}
            /\ (th'[t].pc = "destroy" => i \notin fw'.procs) /\ ~quarantined'
        BY ONLY <2>1, <2>2, <2>10, <3>3, <3>6, <3>9, ZenonT(30)
      <4>2. progs'[i].state = "LIVE"
        BY <3>10 DEF Live
      <4> QED
        BY ONLY <2>6, <3>10, <4>1, <4>2, i \in Ids, ZenonT(30)
           DEF LockInv, Locked, Unloading, UnloadPcs, Giving, At, Live
    <3>12. /\ th'[t].ret = "idle" /\ th'[t].pc \in {"terminate", "destroy"}
           /\ th'[t].cur = None /\ th'[t].victim = None
      BY ONLY <2>2, <3>3, <3>6, ZenonT(30)
    <3>13. \A b \in Bos : Cardinality(Loaded(b)') + b01(Working(t, b)')
                             <= Cardinality(Loaded(b)) + b01(Working(t, b))
      <4> TAKE b \in Bos
      <4>1. Cardinality(Loaded(b)) \in Nat
        BY Loads
      <4>2. b01(Working(t, b)') = 0 /\ b01(Working(t, b)) = 0
        BY <2>5, <3>12 DEF b01, Working, Giving, At
      <4> QED
        BY ONLY <2>5, <4>1, <4>2, b \in Bos, SMTT(30)
    <3>14. /\ th[t].pc \in {"close"} \cup UnloadPcs /\ th'[t].pc \in {"close"} \cup UnloadPcs
           /\ fw'.io = fw.io /\ fw'.lost = fw.lost
      BY ONLY <2>1, <3>12, ZenonT(30) DEF UnloadPcs
    <3> QED
      BY ONLY FiniteFacts, IInv, t \in Threads, <2>1, <3>6, <3>8, <3>11, <3>12, <3>13, <3>14, CloseStep, ZenonT(40)
  <2> QED
    BY <2>8, <2>9, <2>10 DEF fd_close
<1> QED
  BY <1>FdClose
=============================================================================
