------------------------------ MODULE AneT6021 ------------------------------
(***************************************************************************)
(* The M2 driver ane_t6021.ko between its ioctls and the firmware: buffer  *)
(* objects and the pool that parks them, the table of loaded programs and  *)
(* the files that share them, quarantine.                                  *)
(* Sources: ane/t6021/ane_t6021_rtclient_main.c, ane_t6021_pool.h,         *)
(* ane_t6021_progtab.h.                                                    *)
(*                                                                         *)
(* Abstractions.  A firmware command is answered or fails; its transport   *)
(* is AneT6021Chan.  What a section under a mutex does without waiting for *)
(* the firmware or running the pool is one step.  The pool takes only its  *)
(* own spinlock, so its steps interleave with everything.  Calls that fail *)
(* before they change anything are left out.  A mapping that fails drops   *)
(* its reference the way vm_close does.                                    *)
(***************************************************************************)
EXTENDS Integers, Sequences, FiniteSets, Folds

CONSTANTS Threads, Files, Digests, None,
          Bos,          \* buffer objects
          Size,         \* their page-aligned sizes
          Ids,          \* program ids the firmware hands out
          MaxPrograms,  \* ANE_T6021_MAX_PROGRAMS
          Budget,       \* bo_pool_max_mb when it is not 0
          MinSize,      \* bo_pool_min_kb
          TotalMax,     \* bo_total_max_mb
          MaxMaps,      \* bound: mappings of one object at a time
          MaxRefs       \* bound: programs that hold one object, leaks included

ASSUME AneT6021Assumption ==
    /\ IsFiniteSet(Threads) /\ IsFiniteSet(Files) /\ IsFiniteSet(Ids)
    /\ None \notin Threads \cup Files \cup Digests \cup Bos \cup Ids
    /\ Size \in [Bos -> Nat \ {0}]
    /\ MaxPrograms \in Nat /\ Budget \in Nat \ {0} /\ MinSize \in Nat
    /\ TotalMax \in Nat /\ MaxMaps \in Nat /\ MaxRefs \in Nat

VARIABLES
    fw_lock, bo_lock,   \* holders of ane_t6021_fw_lock and ane_t6021_bo_lock
    th,                 \* the locals of each thread
    quarantined,        \* ane_t6021_quarantined
    max_mb,             \* the pool's budget now
    bo,                 \* the struct of each buffer object
    listed,             \* objects on the list of the file that owns them
    mem,                \* where their memory is
    pool,               \* parked objects, oldest first
    sec_bytes, total,   \* the counters of parked and of all bytes
    progs,              \* the program table: id -> LIVE or HELD entry
    open, holds,        \* open files, and the ids each holds a reference on
    fw                  \* what the firmware has and may access

boVars == <<bo, listed>>
poolVars == <<mem, pool, sec_bytes, total>>
progVars == <<progs, open, holds>>
vars == <<fw_lock, bo_lock, th, quarantined, max_mb, bo, listed, mem, pool,
          sec_bytes, total, progs, open, holds, fw>>

\* A thread outside any call; its locals are the file of the call, buffer
\* objects still to visit and visited, the object being released and where to
\* go after that, the entry being evicted, and the program.
Rest == [pc |-> "idle", ret |-> "idle", file |-> None, todo |-> {}, done |-> {},
         cur |-> None, victim |-> None, prog |-> None]

\* A struct fresh from kzalloc.
Fresh == [owner |-> None, kref |-> 0, maps |-> 0, prog_refs |-> 0,
          fw_ref |-> FALSE, fw_program |-> FALSE, fw_io |-> FALSE,
          pooled_sec |-> FALSE]

NoProg == [state |-> "FREE", digest |-> None, proc |-> FALSE, users |-> 0,
           sec |-> {}]

Init ==
    /\ fw_lock = None /\ bo_lock = None
    /\ th = [t \in Threads |-> Rest]
    /\ quarantined = FALSE
    /\ max_mb = Budget
    /\ bo = [b \in Bos |-> Fresh]
    /\ listed = {}
    /\ mem = [b \in Bos |-> "none"]
    /\ pool = << >> /\ sec_bytes = 0 /\ total = 0
    /\ progs = [i \in Ids |-> NoProg]
    /\ open = {} /\ holds = [f \in Files |-> {}]
    /\ fw = [progs |-> [i \in Ids |-> {}], procs |-> {}, io |-> {}, lost |-> {}]

At(t, pc) == th[t].pc = pc
Goto(t, pc) == th' = [th EXCEPT ![t].pc = pc]
Return(t) == th' = [th EXCEPT ![t] = Rest]
Owns(f, b) == b \in listed /\ bo[b].owner = f

\* Thread t may make a call on open file f.
MayCall(t, f) == At(t, "idle") /\ f \in open

-----------------------------------------------------------------------------
(***************************************************************************)
(* The pool: evicting, parking and really freeing an object.               *)
(***************************************************************************)

\* Walking the list from its head: entry k is the first one in S.
First(k, S) == pool[k] \in S /\ \A j \in 1 .. k - 1 : pool[j] \notin S
list_del(k) == SubSeq(pool, 1, k - 1) \o SubSeq(pool, k + 1, Len(pool))

\* ane_t6021_pool_evict_oldest: the oldest budgeted entry leaves the list and
\* its charge goes; the caller, which goes on at next, frees its memory first.
Budgeted == {b \in Bos : bo[b].pooled_sec}
Evictable == \E k \in 1 .. Len(pool) : pool[k] \in Budgeted

evict_oldest(t, next) ==
    /\ \E k \in 1 .. Len(pool) :
          LET b == pool[k] IN
          /\ First(k, Budgeted)
          /\ pool' = list_del(k)
          /\ sec_bytes' = sec_bytes - Size[b]
          /\ bo' = [bo EXCEPT ![b].pooled_sec = FALSE]
          /\ th' = [th EXCEPT ![t].victim = b, ![t].pc = next]
    /\ UNCHANGED <<fw_lock, bo_lock, quarantined, max_mb, listed, mem, total,
                   progVars, fw>>

\* dma_free_coherent and kfree, and the bytes leave the total.
Free(b) ==
    /\ mem' = [mem EXCEPT ![b] = "none"]
    /\ total' = total - Size[b]
    /\ bo' = [bo EXCEPT ![b] = Fresh]

pool_release_ent(t) ==
    /\ th[t].victim # None
    /\ Free(th[t].victim)
    /\ th' = [th EXCEPT ![t].victim = None]
    /\ UNCHANGED <<fw_lock, bo_lock, quarantined, max_mb, listed, pool,
                   sec_bytes, progVars, fw>>

Ready(t, pc) == At(t, pc) /\ th[t].victim = None

\* Dropping a reference: the last one starts ane_t6021_bo_release, which comes
\* back to ret.  (Nothing reads the owner of an object without references.)
Put(t, b, new, rest, ret) ==
    /\ bo' = [bo EXCEPT ![b] =
                [new EXCEPT !.kref = @ - 1,
                            !.owner = IF new.kref = 1 THEN None ELSE @]]
    /\ th' = [th EXCEPT ![t] =
                IF new.kref = 1
                THEN [rest EXCEPT !.pc = "release", !.cur = b, !.ret = ret]
                ELSE [rest EXCEPT !.pc = ret]]

\* Leaving ane_t6021_bo_release.
Released(t) ==
    th' = [th EXCEPT ![t].pc = th[t].ret, ![t].ret = "idle", ![t].cur = None]

\* ane_t6021_bo_release of an object the firmware never saw, up to the charge
\* in ane_t6021_pool_park.
bo_release_park(t) ==
    LET b == th[t].cur
        parks == max_mb # 0 /\ Size[b] >= MinSize /\ Size[b] <= max_mb IN
    /\ At(t, "release") /\ ~bo[b].fw_ref
    /\ sec_bytes' = IF parks THEN sec_bytes + Size[b] ELSE sec_bytes
    /\ Goto(t, CASE max_mb = 0 -> "drain"
                 [] max_mb # 0 /\ ~parks -> "free"
                 [] parks /\ sec_bytes' > max_mb -> "room"
                 [] OTHER -> "add")
    /\ UNCHANGED <<fw_lock, bo_lock, quarantined, max_mb, boVars, mem, pool,
                   total, progVars, fw>>

\* One the firmware knows: held for good, or an io object that is parked.
bo_release_fw(t) ==
    LET b == th[t].cur IN
    /\ At(t, "release") /\ bo[b].fw_ref
    /\ IF bo[b].fw_program \/ quarantined
       THEN mem' = [mem EXCEPT ![b] = "held"] /\ UNCHANGED pool
       ELSE mem' = [mem EXCEPT ![b] = "parked"] /\ pool' = Append(pool, b)
    /\ Released(t)
    /\ UNCHANGED <<fw_lock, bo_lock, quarantined, max_mb, boVars, sec_bytes,
                   total, progVars, fw>>

\* Making room: evict while over the budget, give up when nothing is left.
pool_park_room(t) ==
    /\ Ready(t, "room")
    /\ \/ sec_bytes > Budget /\ evict_oldest(t, "room")
       \/ /\ sec_bytes <= Budget \/ ~Evictable
          /\ Goto(t, "recheck")
          /\ UNCHANGED <<fw_lock, bo_lock, quarantined, max_mb, boVars,
                         poolVars, progVars, fw>>

\* Mutant: a park that finds no room keeps its charge.
Bug_pool_park_recheck(t) ==
    /\ At(t, "recheck")
    /\ Goto(t, IF sec_bytes > Budget THEN "free" ELSE "add")
    /\ UNCHANGED <<fw_lock, bo_lock, quarantined, max_mb, boVars, poolVars,
                   progVars, fw>>

pool_park_recheck(t) ==
    /\ At(t, "recheck")
    /\ IF sec_bytes > Budget
       THEN sec_bytes' = sec_bytes - Size[th[t].cur] /\ Goto(t, "free")
       ELSE UNCHANGED sec_bytes /\ Goto(t, "add")
    /\ UNCHANGED <<fw_lock, bo_lock, quarantined, max_mb, boVars, mem, pool,
                   total, progVars, fw>>

pool_park_add(t) ==
    LET b == th[t].cur IN
    /\ At(t, "add")
    /\ bo' = [bo EXCEPT ![b].pooled_sec = TRUE]
    /\ pool' = Append(pool, b)
    /\ mem' = [mem EXCEPT ![b] = "parked"]
    /\ Released(t)
    /\ UNCHANGED <<fw_lock, bo_lock, quarantined, max_mb, listed, sec_bytes,
                   total, progVars, fw>>

\* The park was refused: the object is freed.
bo_release_free(t) ==
    /\ At(t, "free")
    /\ Free(th[t].cur)
    /\ Released(t)
    /\ UNCHANGED <<fw_lock, bo_lock, quarantined, max_mb, listed, pool,
                   sec_bytes, progVars, fw>>

\* With the budget off a park drains the pool, as bo_pool_max_mb_set does.
pool_drain(t) ==
    /\ Ready(t, "drain")
    /\ \/ evict_oldest(t, "drain")
       \/ /\ ~Evictable
          /\ Goto(t, IF th[t].cur = None THEN "idle" ELSE "free")
          /\ UNCHANGED <<fw_lock, bo_lock, quarantined, max_mb, boVars,
                         poolVars, progVars, fw>>

bo_pool_max_mb_set(t) ==
    /\ At(t, "idle")
    /\ \A u \in Threads : At(u, "drain") => th[u].cur # None   \* one writer
    /\ \E m \in {0, Budget} :
        max_mb' = m /\ Goto(t, IF m = 0 THEN "drain" ELSE "idle")
    /\ UNCHANGED <<fw_lock, bo_lock, quarantined, boVars, poolVars, progVars,
                   fw>>

-----------------------------------------------------------------------------
(***************************************************************************)
(* Buffer objects: BO_INIT, BO_FREE, mmap and munmap.                      *)
(***************************************************************************)

\* BO_INIT of size s looks at quarantined, then tries the pool, then allocates.
bo_init(t, f, s) ==
    /\ MayCall(t, f)
    /\ th' = [th EXCEPT ![t].pc = IF quarantined THEN "alloc" ELSE "take",
                        ![t].file = f, ![t].todo = {b \in Bos : Size[b] = s}]
    /\ UNCHANGED <<fw_lock, bo_lock, quarantined, max_mb, boVars, poolVars,
                   progVars, fw>>

\* ane_t6021_pool_take: the first parked object of the size, uncharged.
Fitting(t) == \E k \in 1 .. Len(pool) : pool[k] \in th[t].todo

\* Mutant: an uncharged io entry is uncharged too.
Bug_pool_take(t) ==
    /\ At(t, "take")
    /\ \/ ~Fitting(t) /\ Goto(t, "alloc") /\ UNCHANGED <<mem, pool, sec_bytes, bo>>
       \/ \E k \in 1 .. Len(pool) :
             LET b == pool[k] IN
             /\ First(k, th[t].todo)
             /\ pool' = list_del(k)
             /\ sec_bytes' = sec_bytes - Size[b]
             /\ bo' = [bo EXCEPT ![b].pooled_sec = FALSE]
             /\ mem' = [mem EXCEPT ![b] = "live"]
             /\ th' = [th EXCEPT ![t].pc = "publish", ![t].cur = b]
    /\ UNCHANGED <<fw_lock, bo_lock, quarantined, max_mb, listed, total,
                   progVars, fw>>

pool_take(t) ==
    /\ At(t, "take")
    /\ \/ ~Fitting(t) /\ Goto(t, "alloc") /\ UNCHANGED <<mem, pool, sec_bytes, bo>>
       \/ \E k \in 1 .. Len(pool) :
             LET b == pool[k] IN
             /\ First(k, th[t].todo)
             /\ pool' = list_del(k)
             /\ sec_bytes' = IF bo[b].pooled_sec THEN sec_bytes - Size[b]
                                                      ELSE sec_bytes
             /\ bo' = [bo EXCEPT ![b].pooled_sec = FALSE]
             /\ mem' = [mem EXCEPT ![b] = "live"]
             /\ th' = [th EXCEPT ![t].pc = "publish", ![t].cur = b]
    /\ UNCHANGED <<fw_lock, bo_lock, quarantined, max_mb, listed, total,
                   progVars, fw>>

\* ane_t6021_bo_alloc_attempt: charge the total, then allocate; a failure
\* takes the charge back.
AllocSize(t) == Size[CHOOSE b \in th[t].todo : TRUE]

bo_alloc_charge(t) ==
    /\ Ready(t, "alloc")
    /\ total' = total + AllocSize(t)
    /\ Goto(t, IF total' > TotalMax THEN "uncharge" ELSE "dma")
    /\ UNCHANGED <<fw_lock, bo_lock, quarantined, max_mb, boVars, mem, pool,
                   sec_bytes, progVars, fw>>

bo_alloc_dma(t) ==
    /\ At(t, "dma")
    /\ \/ \E b \in th[t].todo :
            /\ mem[b] = "none"
            /\ mem' = [mem EXCEPT ![b] = "live"]
            /\ th' = [th EXCEPT ![t].pc = "publish", ![t].cur = b]
       \/ \E ret \in {"uncharge", "refuse"} :   \* -ENOMEM, -ERANGE
            Goto(t, ret) /\ UNCHANGED mem
    /\ UNCHANGED <<fw_lock, bo_lock, quarantined, max_mb, boVars, pool,
                   sec_bytes, total, progVars, fw>>

\* Mutant: the -ERANGE path forgets the charge.
Bug_bo_alloc_uncharge(t) ==
    /\ th[t].pc \in {"uncharge", "refuse"}
    /\ total' = IF At(t, "refuse") THEN total ELSE total - AllocSize(t)
    /\ IF At(t, "refuse") THEN Return(t) ELSE Goto(t, "retry")
    /\ UNCHANGED <<fw_lock, bo_lock, quarantined, max_mb, boVars, mem, pool,
                   sec_bytes, progVars, fw>>

bo_alloc_uncharge(t) ==
    /\ th[t].pc \in {"uncharge", "refuse"}
    /\ total' = total - AllocSize(t)
    /\ IF At(t, "refuse") THEN Return(t) ELSE Goto(t, "retry")
    /\ UNCHANGED <<fw_lock, bo_lock, quarantined, max_mb, boVars, mem, pool,
                   sec_bytes, progVars, fw>>

\* ane_t6021_pool_alloc_retry: evict one entry and try again, or give up.
pool_alloc_retry(t) ==
    /\ Ready(t, "retry")
    /\ \/ evict_oldest(t, "alloc")
       \/ /\ ~Evictable
          /\ Return(t)
          /\ UNCHANGED <<fw_lock, bo_lock, quarantined, max_mb, boVars,
                         poolVars, progVars, fw>>

\* The handle is published with the one reference it holds.  The firmware
\* flags of an object from the pool stay as they are.
bo_publish(t) ==
    LET b == th[t].cur IN
    /\ At(t, "publish") /\ bo_lock = None
    /\ bo' = [bo EXCEPT ![b].owner = th[t].file, ![b].kref = 1]
    /\ listed' = listed \cup {b}
    /\ Return(t)
    /\ UNCHANGED <<fw_lock, bo_lock, quarantined, max_mb, poolVars, progVars,
                   fw>>

\* BO_FREE: ane_t6021_bo_drop under bo_lock.
bo_free(t, f, b) ==
    /\ MayCall(t, f) /\ bo_lock = None /\ Owns(f, b)
    /\ bo_lock' = t
    /\ listed' = listed \ {b}
    /\ Put(t, b, bo[b], [Rest EXCEPT !.file = f], "unlock")
    /\ UNCHANGED <<fw_lock, quarantined, max_mb, poolVars, progVars, fw>>

\* The end of BO_FREE and of munmap, which never had the lock.
unlock(t) ==
    /\ At(t, "unlock")
    /\ bo_lock' = IF bo_lock = t THEN None ELSE bo_lock
    /\ Return(t)
    /\ UNCHANGED <<fw_lock, quarantined, max_mb, boVars, poolVars, progVars,
                   fw>>

\* mmap finds the object on the file's list; a fork copies the mapping.  Both
\* take a reference.
Bug_mmap(t, f, b) ==
    /\ MayCall(t, f) /\ bo_lock = None /\ Owns(f, b) /\ bo[b].maps < MaxMaps
    /\ bo' = [bo EXCEPT ![b].maps = @ + 1]
    /\ UNCHANGED <<fw_lock, bo_lock, th, quarantined, max_mb, listed, poolVars,
                   progVars, fw>>
mmap(t, f, b) ==
    /\ MayCall(t, f)
    /\ bo[b].maps < MaxMaps
    /\ \/ bo_lock = None /\ Owns(f, b)
       \/ bo[b].owner = f /\ bo[b].maps > 0
    /\ bo' = [bo EXCEPT ![b].maps = @ + 1, ![b].kref = @ + 1]
    /\ UNCHANGED <<fw_lock, bo_lock, th, quarantined, max_mb, listed, poolVars,
                   progVars, fw>>

vm_close(t, b) ==
    /\ At(t, "idle") /\ bo[b].maps > 0
    /\ Put(t, b, [bo[b] EXCEPT !.maps = @ - 1],
           [Rest EXCEPT !.file = bo[b].owner], "unlock")
    /\ UNCHANGED <<fw_lock, bo_lock, quarantined, max_mb, listed, poolVars,
                   progVars, fw>>

-----------------------------------------------------------------------------
(***************************************************************************)
(* Programs.  PROG_LOAD, PROC_CREATE, EXEC and a close run under fw_lock.   *)
(***************************************************************************)

\* A firmware command is sent only when the device is not quarantined.
MayCommand(t, f) == MayCall(t, f) /\ fw_lock = None /\ ~quarantined

Live(i) == progs[i].state = "LIVE"
Find(d) == {i \in Ids : Live(i) /\ progs[i].digest = d}
Entries == {i \in Ids : progs[i].state # "FREE"}
HasRoom == Cardinality(Entries) < MaxPrograms

\* ane_t6021_fdprogs_ref: once per file.
Ref(f, i, table) ==
    /\ holds' = [holds EXCEPT ![f] = @ \cup {i}]
    /\ progs' = IF i \in holds[f] THEN table
                                  ELSE [table EXCEPT ![i].users = @ + 1]

\* PROG_LOAD of sections S whose digest is d, when such a program is loaded,
\* and PROG_LOOKUP.
prog_lookup(t, f, d) ==
    /\ MayCommand(t, f)
    /\ \E i \in Find(d) : Ref(f, i, progs)
    /\ UNCHANGED <<fw_lock, bo_lock, th, quarantined, max_mb, boVars, poolVars,
                   open, fw>>

\* Mutant: the table is not searched for the digest.
Bug_prog_load(t, f, S, d) ==
    /\ MayCommand(t, f) /\ bo_lock = None
    /\ S # {} /\ \A b \in S : Owns(f, b) /\ bo[b].prog_refs < MaxRefs
    /\ HasRoom
    /\ fw_lock' = t
    /\ th' = [th EXCEPT ![t] = [Rest EXCEPT !.pc = "load", !.file = f,
                                            !.todo = S, !.prog = d]]
    /\ UNCHANGED <<bo_lock, quarantined, max_mb, boVars, poolVars, progVars,
                   fw>>

\* Otherwise the load takes fw_lock and visits the sections a second time.
prog_load(t, f, S, d) ==
    /\ MayCommand(t, f) /\ bo_lock = None
    /\ S # {} /\ \A b \in S : Owns(f, b) /\ bo[b].prog_refs < MaxRefs
    /\ Find(d) = {} /\ HasRoom
    /\ fw_lock' = t
    /\ th' = [th EXCEPT ![t] = [Rest EXCEPT !.pc = "load", !.file = f,
                                            !.todo = S, !.prog = d]]
    /\ UNCHANGED <<bo_lock, quarantined, max_mb, boVars, poolVars, progVars,
                   fw>>

\* Mutant: the program takes no reference of its own.
Bug_load_section(t, b) ==
    /\ At(t, "load") /\ b \in th[t].todo /\ bo_lock = None
    /\ Owns(th[t].file, b)
    /\ bo' = [bo EXCEPT ![b].fw_ref = TRUE, ![b].fw_program = TRUE,
                        ![b].prog_refs = @ + 1]
    /\ th' = [th EXCEPT ![t].todo = @ \ {b}, ![t].done = @ \cup {b}]
    /\ UNCHANGED <<fw_lock, bo_lock, quarantined, max_mb, listed, poolVars,
                   progVars, fw>>

\* Each section still on the list is marked and referenced.  One that is gone
\* ends the load, and the references taken so far are never given back.
load_section(t, b) ==
    /\ At(t, "load") /\ b \in th[t].todo /\ bo_lock = None
    /\ IF Owns(th[t].file, b)
       THEN /\ bo' = [bo EXCEPT ![b].fw_ref = TRUE, ![b].fw_program = TRUE,
                                ![b].kref = @ + 1, ![b].prog_refs = @ + 1]
            /\ th' = [th EXCEPT ![t].todo = @ \ {b}, ![t].done = @ \cup {b}]
            /\ UNCHANGED fw_lock
       ELSE fw_lock' = None /\ Return(t) /\ UNCHANGED bo
    /\ UNCHANGED <<bo_lock, quarantined, max_mb, listed, poolVars, progVars, fw>>

\* The firmware answers with a program id, or with none (-EPROTO), or the
\* command fails and quarantines.  Without an id the program's fate is unknown.
load_answer(t) ==
    /\ At(t, "load") /\ th[t].todo = {}
    /\ \/ \E i \in Ids :
            /\ fw.progs[i] = {}
            /\ fw' = [fw EXCEPT !.progs[i] = th[t].done]
            /\ Ref(th[t].file, i,
                   [progs EXCEPT ![i] = [NoProg EXCEPT !.state = "LIVE",
                        !.digest = th[t].prog, !.sec = th[t].done]])
            /\ UNCHANGED quarantined
       \/ /\ fw' = [fw EXCEPT !.lost = @ \cup th[t].done]
          /\ quarantined' \in BOOLEAN
          /\ UNCHANGED <<progs, holds>>
    /\ fw_lock' = None /\ Return(t)
    /\ UNCHANGED <<bo_lock, max_mb, boVars, poolVars, open>>

\* PROC_CREATE: the process is made once and then shared.  An acknowledgement
\* without a process id (-EPROTO) changes nothing.
proc_create(t, f, i) ==
    /\ MayCommand(t, f) /\ i \in holds[f] /\ Live(i) /\ ~progs[i].proc
    /\ \/ /\ progs' = [progs EXCEPT ![i].proc = TRUE]
          /\ fw' = [fw EXCEPT !.procs = @ \cup {i}]
          /\ UNCHANGED quarantined
       \/ /\ quarantined' = TRUE
          /\ fw' \in {fw, [fw EXCEPT !.procs = @ \cup {i}]}
          /\ UNCHANGED progs
    /\ UNCHANGED <<fw_lock, bo_lock, th, max_mb, boVars, poolVars, open, holds>>

\* EXEC marks its io objects one by one, without a reference, sends the call
\* and waits.
exec(t, f, i, S) ==
    /\ MayCommand(t, f) /\ i \in holds[f]
    /\ S # {} /\ S \subseteq Bos
    /\ fw_lock' = t
    /\ th' = [th EXCEPT ![t] = [Rest EXCEPT !.pc = "exec", !.file = f,
                                            !.todo = S]]
    /\ UNCHANGED <<bo_lock, quarantined, max_mb, boVars, poolVars, progVars,
                   fw>>

exec_io(t, b) ==
    /\ At(t, "exec") /\ b \in th[t].todo /\ bo_lock = None
    /\ IF Owns(th[t].file, b)
       THEN /\ bo' = [bo EXCEPT ![b].fw_ref = TRUE, ![b].fw_io = TRUE]
            /\ th' = [th EXCEPT ![t].todo = @ \ {b}, ![t].done = @ \cup {b}]
            /\ UNCHANGED fw_lock
       ELSE fw_lock' = None /\ Return(t) /\ UNCHANGED bo
    /\ UNCHANGED <<bo_lock, quarantined, max_mb, listed, poolVars, progVars, fw>>

exec_send(t) ==
    /\ At(t, "exec") /\ th[t].todo = {}
    /\ fw' = [fw EXCEPT !.io = @ \cup th[t].done]
    /\ Goto(t, "wait")
    /\ UNCHANGED <<fw_lock, bo_lock, quarantined, max_mb, boVars, poolVars,
                   progVars>>

\* After the answer the firmware is done with the io objects; after a failure
\* it may still write them.
exec_answer(t) ==
    /\ At(t, "wait")
    /\ \/ fw' = [fw EXCEPT !.io = @ \ th[t].done] /\ UNCHANGED quarantined
       \/ quarantined' = TRUE /\ UNCHANGED fw
    /\ fw_lock' = None /\ Return(t)
    /\ UNCHANGED <<bo_lock, max_mb, boVars, poolVars, progVars>>

-----------------------------------------------------------------------------
(***************************************************************************)
(* Opening and closing a file.                                             *)
(***************************************************************************)

drm_open(f) ==
    /\ f \notin open /\ \A t \in Threads : th[t].file # f
    /\ open' = open \cup {f}
    /\ UNCHANGED <<fw_lock, bo_lock, th, quarantined, max_mb, boVars, poolVars,
                   progs, holds, fw>>

\* The last descriptor is gone and no call or mapping uses the file.
postclose(t, f) ==
    /\ MayCall(t, f) /\ fw_lock = None
    /\ \A u \in Threads : th[u].file # f
    /\ \A b \in Bos : bo[b].maps > 0 => bo[b].owner # f
    /\ open' = open \ {f}
    /\ fw_lock' = t
    /\ th' = [th EXCEPT ![t].pc = "close", ![t].file = f]
    /\ UNCHANGED <<bo_lock, quarantined, max_mb, boVars, poolVars, progs, holds,
                   fw>>

\* Mutant: the program is destroyed with its process attached.
Bug_fd_close(t, i) ==
    LET f == th[t].file IN
    /\ At(t, "close") /\ i \in holds[f]
    /\ holds' = [holds EXCEPT ![f] = @ \ {i}]
    /\ progs[i].users = 1 /\ ~quarantined
    /\ progs' = [progs EXCEPT ![i].users = 0]
    /\ th' = [th EXCEPT ![t].prog = i, ![t].pc = "destroy"]
    /\ UNCHANGED <<fw_lock, bo_lock, quarantined, max_mb, boVars, poolVars,
                   open, fw>>

\* ane_t6021_progtab_fd_close drops the next reference; the last user unloads
\* the program unless unload_on_close is off.  A quarantined device is sent
\* nothing and the program stays HELD.
fd_close(t, i) ==
    LET f == th[t].file IN
    /\ At(t, "close") /\ i \in holds[f]
    /\ holds' = [holds EXCEPT ![f] = @ \ {i}]
    /\ \/ /\ progs' = [progs EXCEPT ![i].users = @ - 1]   \* others, or kept
          /\ UNCHANGED th
       \/ /\ progs[i].users = 1 /\ quarantined
          /\ progs' = [progs EXCEPT ![i].users = 0, ![i].state = "HELD"]
          /\ UNCHANGED th
       \/ /\ progs[i].users = 1 /\ ~quarantined
          /\ progs' = [progs EXCEPT ![i].users = 0]
          /\ th' = [th EXCEPT ![t].prog = i,
                      ![t].pc = IF progs[i].proc THEN "terminate" ELSE "destroy"]
    /\ UNCHANGED <<fw_lock, bo_lock, quarantined, max_mb, boVars, poolVars,
                   open, fw>>

\* Mutant: a failed unload does not quarantine.
Bug_UnloadFails(t) ==
    /\ progs' = [progs EXCEPT ![th[t].prog].state = "HELD"]
    /\ th' = [th EXCEPT ![t].pc = "close", ![t].prog = None]
    /\ UNCHANGED quarantined

\* Either command of the unload may fail after the firmware carried it out.
UnloadFails(t) ==
    /\ quarantined' = TRUE
    /\ progs' = [progs EXCEPT ![th[t].prog].state = "HELD"]
    /\ th' = [th EXCEPT ![t].pc = "close", ![t].prog = None]

prog_terminate(t) ==
    LET gone == [fw EXCEPT !.procs = @ \ {th[t].prog}] IN
    /\ At(t, "terminate")
    /\ \/ fw' = gone /\ Goto(t, "destroy") /\ UNCHANGED <<quarantined, progs>>
       \/ UnloadFails(t) /\ fw' \in {fw, gone}
    /\ UNCHANGED <<fw_lock, bo_lock, max_mb, boVars, poolVars, open, holds>>

\* Mutant: the sections are given back whatever the firmware answered.
Bug_prog_destroy(t) ==
    LET gone == [fw EXCEPT !.progs[th[t].prog] = {}] IN
    /\ At(t, "destroy")
    /\ th' = [th EXCEPT ![t].pc = "give", ![t].todo = progs[th[t].prog].sec]
    /\ fw' \in {fw, gone}
    /\ quarantined' = (fw' = fw)
    /\ UNCHANGED <<fw_lock, bo_lock, max_mb, boVars, poolVars, progVars>>

prog_destroy(t) ==
    LET gone == [fw EXCEPT !.progs[th[t].prog] = {}] IN
    /\ At(t, "destroy")
    /\ \/ /\ fw' = gone
          /\ th' = [th EXCEPT ![t].pc = "give",
                              ![t].todo = progs[th[t].prog].sec]
          /\ UNCHANGED <<quarantined, progs>>
       \/ UnloadFails(t) /\ fw' \in {fw, gone}
    /\ UNCHANGED <<fw_lock, bo_lock, max_mb, boVars, poolVars, open, holds>>

\* ane_t6021_prog_release_op gives the section buffers back.
prog_release(t, b) ==
    LET n == bo[b].prog_refs - 1 IN
    /\ At(t, "give") /\ b \in th[t].todo /\ bo_lock \in {None, t}
    /\ bo_lock' = t
    /\ Put(t, b, [bo[b] EXCEPT !.prog_refs = n,
                               !.fw_program = @ /\ n > 0,
                               !.fw_ref = IF n = 0 THEN bo[b].fw_io ELSE @],
           [th[t] EXCEPT !.todo = @ \ {b}], "give")
    /\ UNCHANGED <<fw_lock, quarantined, max_mb, listed, poolVars, progVars, fw>>

\* The table entry is free again.
prog_released(t) ==
    /\ At(t, "give") /\ th[t].todo = {}
    /\ bo_lock' = None
    /\ progs' = [progs EXCEPT ![th[t].prog] = NoProg]
    /\ th' = [th EXCEPT ![t].pc = "close", ![t].prog = None]
    /\ UNCHANGED <<fw_lock, quarantined, max_mb, boVars, poolVars, open, holds,
                   fw>>

\* All programs dropped: fw_lock goes, and the file's objects are next.
fd_closed(t) ==
    /\ At(t, "close") /\ holds[th[t].file] = {}
    /\ fw_lock' = None
    /\ Goto(t, "drop")
    /\ UNCHANGED <<bo_lock, quarantined, max_mb, boVars, poolVars, progVars, fw>>

close_bo(t, b) ==
    /\ At(t, "drop") /\ Owns(th[t].file, b) /\ bo_lock \in {None, t}
    /\ bo_lock' = t
    /\ listed' = listed \ {b}
    /\ Put(t, b, bo[b], th[t], "drop")
    /\ UNCHANGED <<fw_lock, quarantined, max_mb, poolVars, progVars, fw>>

closed(t) ==
    /\ At(t, "drop") /\ \A b \in Bos : ~Owns(th[t].file, b)
    /\ bo_lock \in {None, t} /\ bo_lock' = None
    /\ Return(t)
    /\ UNCHANGED <<fw_lock, quarantined, max_mb, boVars, poolVars, progVars, fw>>

-----------------------------------------------------------------------------
PoolStep(t) ==
    \/ pool_release_ent(t) \/ bo_release_park(t) \/ bo_release_fw(t)
    \/ pool_park_room(t) \/ pool_park_recheck(t) \/ pool_park_add(t)
    \/ bo_release_free(t) \/ pool_drain(t)

BoStep(t) ==
    \/ pool_take(t) \/ bo_alloc_charge(t) \/ bo_alloc_dma(t)
    \/ bo_alloc_uncharge(t) \/ pool_alloc_retry(t) \/ bo_publish(t) \/ unlock(t)

ProgStep(t) ==
    \/ \E b \in Bos : load_section(t, b) \/ exec_io(t, b) \/ prog_release(t, b)
                      \/ close_bo(t, b)
    \/ \E i \in Ids : fd_close(t, i)
    \/ load_answer(t) \/ exec_send(t) \/ exec_answer(t) \/ prog_terminate(t)
    \/ prog_destroy(t) \/ prog_released(t) \/ fd_closed(t) \/ closed(t)

ThreadStep(t) == PoolStep(t) \/ BoStep(t) \/ ProgStep(t)

\* A user or the administrator starts something new.
Start(t) ==
    \/ bo_pool_max_mb_set(t)
    \/ \E f \in Files :
        \/ postclose(t, f)
        \/ \E s \in {Size[b] : b \in Bos} : bo_init(t, f, s)
        \/ \E b \in Bos : bo_free(t, f, b)
        \/ \E d \in Digests : prog_lookup(t, f, d)
        \/ \E S \in SUBSET Bos, d \in Digests : prog_load(t, f, S, d)
        \/ \E i \in Ids : proc_create(t, f, i) \/ \E S \in SUBSET Bos : exec(t, f, i, S)

Mapping(t) == \E b \in Bos : vm_close(t, b) \/ \E f \in Files : mmap(t, f, b)

\* Everything but mappings, for instances in which nobody maps a buffer.
Unmapped ==
    \/ \E t \in Threads : ThreadStep(t) \/ Start(t)
    \/ \E f \in Files : drm_open(f)

Next == Unmapped \/ \E t \in Threads : Mapping(t)

Spec == Init /\ [][Next]_vars
UnmappedSpec == Init /\ [][Unmapped]_vars

-----------------------------------------------------------------------------
(***************************************************************************)
(* Properties.                                                             *)
(***************************************************************************)

\* The shape of the state.
TypeOK ==
    /\ fw_lock \in Threads \cup {None} /\ bo_lock \in Threads \cup {None}
    /\ quarantined \in BOOLEAN /\ max_mb \in {0, Budget}
    /\ bo \in [Bos -> [owner : Files \cup {None}, kref : Nat,
                       maps : 0..MaxMaps, prog_refs : Nat, fw_ref : BOOLEAN,
                       fw_program : BOOLEAN, fw_io : BOOLEAN,
                       pooled_sec : BOOLEAN]]
    /\ listed \subseteq Bos
    /\ mem \in [Bos -> {"none", "live", "parked", "held"}]
    /\ pool \in Seq(Bos) /\ sec_bytes \in Nat /\ total \in Nat
    /\ progs \in [Ids -> [state : {"FREE", "LIVE", "HELD"},
                          digest : Digests \cup {None}, proc : BOOLEAN,
                          users : Nat, sec : SUBSET Bos]]
    /\ open \subseteq Files /\ holds \in [Files -> SUBSET Ids]
    /\ fw \in [progs : [Ids -> SUBSET Bos], procs : SUBSET Ids,
               io : SUBSET Bos, lost : SUBSET Bos]

\* The objects the firmware reads as program sections: those of the programs
\* it has, of loads it never answered, and of the load it is working on.
Sections ==
    (UNION {fw.progs[i] : i \in Ids}) \cup fw.lost
        \cup (UNION {th[t].done : t \in {u \in Threads : At(u, "load")}})

\* "The firmware never sees a freed IOVA" (ane_t6021_bo_release): memory the
\* firmware may access is not freed, and a section is not even parked, where
\* BO_INIT would take and zero it, whoever closes, unmaps or frees in between.
FwNeverSeesFreed ==
    /\ \A b \in Sections \cup fw.io : mem[b] # "none"
    /\ \A b \in Sections : mem[b] # "parked"

b01(p) == IF p THEN 1 ELSE 0

\* The threads that are releasing, publishing or evicting b.
Holders(b) == {t \in Threads : th[t].cur = b \/ th[t].victim = b}

\* Each object's count is its handle, its mappings and its programs, and an
\* object without a reference is in one place only: nowhere, held, in the
\* pool, or in the hands of one thread.  So nothing is released twice, leaked
\* by the pool, or on the file's list and the pool's at once: both lists use
\* the node bo->pool.node.
References ==
    \A b \in Bos :
        /\ bo[b].kref = b01(b \in listed) + bo[b].maps + bo[b].prog_refs
        /\ Cardinality({k \in 1..Len(pool) : pool[k] = b}) + b01(bo[b].kref > 0)
           + b01(mem[b] \in {"none", "held"}) + Cardinality(Holders(b)) = 1

\* Identical loads share one firmware program, and its users are the files
\* that hold it: a program is not unloaded under a client.
Shared ==
    /\ \A i, j \in Ids : Live(i) /\ Live(j) /\ progs[i].digest = progs[j].digest
                         => i = j
    /\ \A i \in Ids : progs[i].users = Cardinality({f \in Files : i \in holds[f]})

\* The table and the firmware agree until the device is quarantined, except
\* for the program a close is giving back, and a program is HELD only on a
\* quarantined device.
TableMatchesFirmware ==
    ~quarantined => \A i \in Ids :
        /\ progs[i].state # "HELD"
        /\ i \in fw.procs => progs[i].proc
        /\ \/ Live(i) /\ fw.progs[i] = progs[i].sec /\ fw.progs[i] # {}
           \/ ~Live(i) /\ fw.progs[i] = {}
           \/ \E t \in Threads : th[t].prog = i /\ (At(t, "give") \/ th[t].ret = "give")

\* "A program with a process still attached would make it halt, which is why
\* the process goes first" (ane_t6021_prog_unload_op).
ProcessFirst ==
    [][\A i \in Ids : fw.progs[i] # {} /\ fw'.progs[i] = {}
                      => i \notin fw.procs]_vars

Sum(size(_), S) == MapThenFoldSet(+, 0, size, LAMBDA T : CHOOSE x \in T : TRUE, S)
Bytes(S) == Sum(LAMBDA b : Size[b], S)
Parked == {b \in Bos : mem[b] = "parked" /\ bo[b].pooled_sec}
Charging == {t \in Threads : th[t].pc \in {"room", "recheck", "add"}}

\* The budget counter is what is parked under it and what threads are about to
\* park, and the parked bytes never exceed the budget, although concurrent
\* releases charge before they make room.
PoolAccounted ==
    /\ sec_bytes = Bytes(Parked) + Bytes({th[t].cur : t \in Charging})
    /\ Bytes(Parked) <= Budget

\* bo_total_bytes is the memory that exists and the charges of allocations in
\* progress, and the memory never exceeds bo_total_max_mb.
TotalAccounted ==
    LET exists == {b \in Bos : mem[b] # "none"}
        charged == {t \in Threads : th[t].pc \in {"dma", "uncharge", "refuse"}} IN
    /\ total = Bytes(exists) + Sum(AllocSize, charged)
    /\ Bytes(exists) <= TotalMax

\* BO_INIT hands an object from the pool out "zeroed like a new one"
\* (ane_t6021_bo_init_ioctl), and EXEC needs no reference on its io objects
\* because "the handle reference cannot go away" (ane_rtclient_procedure_call):
\* so the firmware is done with an object that is handed out.
HandedOutQuiet ==
    \A t \in Threads : At(t, "publish") => th[t].cur \notin fw.io
=============================================================================
