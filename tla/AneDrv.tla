------------------------------- MODULE AneDrv -------------------------------
(***************************************************************************)
(* The H13 driver ane.ko: life of a buffer object, synchronous execution   *)
(* of a submit, the wedge and its two-stage recovery, runtime PM, removal. *)
(* Sources: ane/src/ane_drv.c, ane/src/ane_tm.c, ane/src/ane_dart.c.       *)
(*                                                                         *)
(* Abstractions.  A buffer object is one page; an IOVA is a page number,   *)
(* and 0 is below the allocator's range, as in ane_iommu_domain_init.  The *)
(* lookups of one submit are one step: each only adds a reference, and the *)
(* reference is what later steps rely on.  A section under engine_lock is  *)
(* cut where the hardware or a failure can act in between.  Calls that are *)
(* rejected before they change anything are left out.                      *)
(* The SET window is mapped, so that ane_ps_verify_on reads the islands.   *)
(*                                                                         *)
(* A definition whose name starts with Bug_ is not part of the model: it   *)
(* is a plausible slip in the definition after it, and shows that the      *)
(* property named in its comment would notice.                             *)
(***************************************************************************)
EXTENDS Integers, FiniteSets

CONSTANTS Threads,     \* threads inside an ioctl, a close or a reset write
          Bos,         \* buffer objects (identities reused once reclaimed)
          Handles,     \* GEM handle numbers
          NIova,       \* pages of the engine's address space
          ScratchMax,  \* ANE_DART_SCRATCH_MAX
          None         \* no thread, no buffer object

ASSUME AneDrvAssumption ==
    /\ NIova \in Nat
    /\ ScratchMax \in Nat
    /\ None \notin Threads
    /\ None \notin Bos

Iovas == 1 .. NIova
Scratch == "scratch"
Free == "free"
ASSUME OwnerAssumption == Scratch \notin Bos /\ Free \notin Bos

VARIABLES
    lock,       \* holder of engine_lock
    pc,         \* where each thread is
    op,         \* the operation a thread performs
    arg,        \* its handle argument (BO_FREE)
    ref,        \* the lookup references it holds
    bar,        \* the IOVAs it read from the objects it looked up
    handle,     \* handle -> buffer object
    vma,        \* buffer objects some process has mapped
    mm,         \* bo->mm, bo->iova: its allocator node, 0 when NULL
    page,       \* what holds the object's pages
    node,       \* the drm_mm allocator: IOVA -> owner
    pte,        \* the DART page table: IOVA -> page
    wedged, quiesced, por_pending, scratch_retained, removed,
    pin,        \* module references taken by the wedge
    rpm,        \* runtime PM: active, suspended, or fully powered off
    islands,    \* the engine's power islands read ON
    task,       \* IOVAs the pushed task touches; {} when there is none
    dma,        \* IOVAs the engine may be accessing now
    tm,         \* TM_STATUS: idle, busy, or an error latched
    evt,        \* pending completion events: of this request or older ones
    fault       \* IOVA latched in a DART error register, or -1

drvVars == <<handle, vma, mm, page, node, pte>>
recVars == <<wedged, quiesced, por_pending, scratch_retained, pin>>
hwVars == <<islands, task, dma, tm, evt, fault>>
thVars == <<lock, pc, op, arg, ref, bar>>
vars == <<thVars, drvVars, recVars, removed, rpm, hwVars>>

Ops == {"none", "init", "free", "submit", "failed", "reset", "close"}
Pcs == {"idle", "lock", "recover", "check", "granted", "poll", "put", "ok"}
Owners == Bos \cup {Scratch, Free}
NoBar == [b \in Bos |-> 0]

Init ==
    /\ lock = None
    /\ pc = [t \in Threads |-> "idle"]
    /\ op = [t \in Threads |-> "none"]
    /\ arg = [t \in Threads |-> None]
    /\ ref = [t \in Threads |-> {}]
    /\ bar = [t \in Threads |-> NoBar]
    /\ handle = [h \in Handles |-> None]
    /\ vma = {}
    /\ mm = [b \in Bos |-> 0]
    /\ page = [b \in Bos |-> "none"]
    /\ node = [i \in Iovas |-> Free]
    /\ pte = [i \in Iovas |-> Free]
    /\ wedged = FALSE /\ quiesced = FALSE /\ por_pending = FALSE
    /\ scratch_retained = FALSE /\ removed = FALSE
    /\ pin = 0
    /\ rpm = "active" /\ islands = TRUE
    /\ task = {} /\ dma = {} /\ tm = "idle" /\ evt = {} /\ fault = -1

-----------------------------------------------------------------------------
(* Entry: every ioctl, close and reset write takes a runtime PM reference  *)
(* first.  A resume re-arms the task manager; its islands are known to be  *)
(* up unless the engine was wedged when it went down.                      *)

pm_runtime_resume_and_get ==
    /\ rpm' = "active"
    /\ \/ islands' = (rpm = "active" => islands)
       \/ rpm # "active" /\ wedged /\ islands' = FALSE

Enter(t, o, h, bs, br) ==
    /\ pc[t] = "idle"
    /\ pc' = [pc EXCEPT ![t] = "lock"]
    /\ op' = [op EXCEPT ![t] = o]
    /\ arg' = [arg EXCEPT ![t] = h]
    /\ ref' = [ref EXCEPT ![t] = bs]
    /\ bar' = [bar EXCEPT ![t] = br]
    /\ pm_runtime_resume_and_get
    /\ UNCHANGED <<lock, node, pte, mm, recVars, removed,
                   task, dma, tm, evt, fault>>

Referenced(b) == \/ \E h \in Handles : handle[h] = b
                 \/ b \in vma
                 \/ \E t \in Threads : b \in ref[t]
Doomed(b) == page[b] = "held" /\ ~Referenced(b)

(* BO_INIT up to mutex_lock: the object and its pages. *)
ane_bo_init(t, b) ==
    /\ ~removed
    /\ page[b] = "none"
    /\ page' = [page EXCEPT ![b] = "held"]
    /\ Enter(t, "init", None, {b}, NoBar)
    /\ UNCHANGED <<handle, vma>>

ane_bo_free(t, h) ==
    /\ ~removed
    /\ Enter(t, "free", h, {}, NoBar)
    /\ UNCHANGED <<handle, vma, page>>

(* SUBMIT up to mutex_lock: references and addresses are taken before it.  *)
Lookup(t, hs, bs) ==
    /\ ~removed
    /\ hs # {}
    /\ \A h \in hs : handle[h] # None /\ mm[handle[h]] # 0
    /\ Enter(t, "submit", None, bs,
             [b \in Bos |-> IF \E h \in hs : handle[h] = b THEN mm[b] ELSE 0])
    /\ UNCHANGED <<handle, vma, page>>

(* BarsNotStale: the references are dropped once the address is read. *)
Bug_ane_submit(t, hs) == Lookup(t, hs, {})

ane_submit(t, hs) == Lookup(t, hs, {handle[h] : h \in hs})

reset_store(t) ==
    /\ ~removed
    /\ Enter(t, "reset", None, {}, NoBar)
    /\ UNCHANGED <<handle, vma, page>>

(* Close: drm_release drops the file's handles, then postclose recovers. *)
ane_drm_postclose(t, hs) ==
    /\ \A h \in hs : handle[h] # None
    /\ handle' = [h \in Handles |-> IF h \in hs THEN None ELSE handle[h]]
    /\ Enter(t, "close", None, {}, NoBar)
    /\ UNCHANGED <<vma, page>>

ane_drm_mmap(h) ==
    /\ handle[h] # None /\ handle[h] \notin vma /\ ~removed
    /\ vma' = vma \cup {handle[h]}
    /\ UNCHANGED <<thVars, handle, mm, page, node, pte, recVars, removed,
                   rpm, hwVars>>

drm_gem_vm_close(b) ==
    /\ b \in vma
    /\ vma' = vma \ {b}
    /\ UNCHANGED <<thVars, handle, mm, page, node, pte, recVars, removed,
                   rpm, hwVars>>

-----------------------------------------------------------------------------
(* engine_lock, the removed and wedged gates, and ane_tm_recover.          *)

Goto(t, l) == pc' = [pc EXCEPT ![t] = l]
Unlock(t, l) == lock' = None /\ Goto(t, l)

(* What follows a recovery attempt: the three ioctls go on when it worked. *)
Recovered(t) == IF op[t] \in {"init", "free", "submit"}
                THEN Goto(t, "granted") /\ UNCHANGED lock
                ELSE Unlock(t, "put")
Refused(t) == Unlock(t, "put")

mutex_lock(t) ==
    /\ pc[t] = "lock" /\ lock = None
    /\ op[t] = "close" => \A b \in Bos : ~Doomed(b)
    /\ \/ removed /\ Refused(t)
       \/ ~removed /\ wedged /\ lock' = t /\ Goto(t, "recover")
       \/ ~removed /\ ~wedged /\ op[t] \in {"reset", "close"} /\ Refused(t)
       \/ /\ ~removed /\ ~wedged /\ op[t] \in {"init", "free", "submit"}
          /\ lock' = t /\ Goto(t, "granted")
    /\ UNCHANGED <<op, arg, ref, bar, drvVars, recVars, removed, rpm, hwVars>>

(* -EBUSY with scratch pages retained, -EAGAIN while the power-off is due. *)
RecoverRefuse(t) ==
    /\ pc[t] = "recover"
    /\ scratch_retained \/ (quiesced /\ ~por_pending)
    /\ UNCHANGED <<op, arg, ref, bar, drvVars, recVars, removed, rpm, hwVars>>

(* CallsReturn: the refusal returns with engine_lock held. *)
Bug_recover_refuse(t) == RecoverRefuse(t) /\ Goto(t, "put") /\ UNCHANGED lock

recover_refuse(t) == RecoverRefuse(t) /\ Refused(t)

(* Stage 2: the device was suspended since the cycle; only check it. *)
recover_por(t) ==
    /\ pc[t] = "recover" /\ ~scratch_retained /\ por_pending
    /\ por_pending' = FALSE
    /\ \/ islands /\ Goto(t, "check") /\ UNCHANGED lock
       \/ ~islands /\ Refused(t)
    /\ UNCHANGED <<op, arg, ref, bar, drvVars, wedged, quiesced,
                   scratch_retained, pin, removed, rpm, hwVars>>

(* Stage 1: ane_pd_cycle gates the engine, which ends the task; its file   *)
(* may survive, with an error latched and events still queued.  The drain  *)
(* of a retained file and ane_tm_enable only follow when the islands read  *)
(* on, and leave an error latched or not.                                  *)
Cycle(t, verified) ==
    /\ pc[t] = "recover" /\ ~scratch_retained /\ ~por_pending /\ ~quiesced
    /\ quiesced' = TRUE
    /\ task' = {} /\ dma' = {}
    /\ tm' \in IF tm = "idle" THEN {"idle"} ELSE {"idle", "latched"}
    /\ evt' \in {evt, {}}
    /\ islands' \in BOOLEAN
    /\ \/ islands' \in verified /\ Goto(t, "check") /\ UNCHANGED lock
       \/ islands' \notin verified /\ Refused(t)
    /\ UNCHANGED <<op, arg, ref, bar, drvVars, wedged, por_pending,
                   scratch_retained, pin, removed, rpm, fault>>

(* EnginePowered: ane_ps_verify_on is skipped. *)
Bug_recover_cycle(t) == Cycle(t, BOOLEAN)

recover_cycle(t) == Cycle(t, {TRUE})

(* A power domain that fails to cycle: the ones before it stay gated and   *)
(* the task may or may not have been stopped.                              *)
recover_cycle_fails(t) ==
    /\ pc[t] = "recover" /\ ~scratch_retained /\ ~por_pending /\ ~quiesced
    /\ islands' \in {islands, FALSE}
    /\ \/ UNCHANGED <<task, dma>>
       \/ islands' = FALSE /\ task' = {} /\ dma' = {}
    /\ Refused(t)
    /\ UNCHANGED <<op, arg, ref, bar, drvVars, recVars, removed, rpm,
                   tm, evt, fault>>

(* ane_reclaim_preserved: unmap, free the range, put the pages. *)
Preserved == {b \in Bos : page[b] = "preserved"}
ane_reclaim_preserved ==
    /\ node' = [i \in Iovas |-> IF node[i] \in Preserved THEN Free ELSE node[i]]
    /\ pte' = [i \in Iovas |-> IF node[i] \in Preserved THEN Free ELSE pte[i]]
    /\ page' = [b \in Bos |-> IF b \in Preserved THEN "none" ELSE page[b]]

ClearWedge(t, q, p) ==
    /\ pc[t] = "check" /\ tm = "idle"
    /\ quiesced' = q /\ wedged' = FALSE /\ pin' = p
    /\ ane_reclaim_preserved
    /\ Recovered(t)
    /\ UNCHANGED <<op, arg, ref, bar, handle, vma, mm, por_pending,
                   scratch_retained, removed, rpm, hwVars>>

(* QuiescedIsQuiet: quiesced survives the wedge it belongs to.  PinIsWedge: *)
(* the module reference of the wedge is not dropped.                       *)
Bug_recover_idle_quiesced(t) == ClearWedge(t, TRUE, pin - 1)
Bug_recover_idle_pin(t) == ClearWedge(t, FALSE, pin)

recover_idle(t) == ClearWedge(t, FALSE, pin - 1)

recover_not_idle(t) ==
    /\ pc[t] = "check" /\ tm # "idle"
    /\ Refused(t)
    /\ UNCHANGED <<op, arg, ref, bar, drvVars, recVars, removed, rpm, hwVars>>

-----------------------------------------------------------------------------
(* The bodies of BO_INIT and BO_FREE, the end of an operation, destruction.*)

bo_init_map(t, b, i) ==
    /\ pc[t] = "granted" /\ op[t] = "init" /\ b \in ref[t]
    /\ mm[b] = 0 /\ node[i] = Free
    /\ mm' = [mm EXCEPT ![b] = i]
    /\ node' = [node EXCEPT ![i] = b]
    /\ pte' = [pte EXCEPT ![i] = b]
    /\ \/ \E h \in Handles :
             handle[h] = None /\ handle' = [handle EXCEPT ![h] = b]
       \/ UNCHANGED handle
    /\ Unlock(t, "put")
    /\ UNCHANGED <<op, arg, ref, bar, vma, page, recVars, removed, rpm, hwVars>>

(* No range left, no memory, or a mapping failure that was rolled back. *)
bo_init_map_fails(t) ==
    /\ pc[t] = "granted" /\ op[t] = "init"
    /\ Unlock(t, "put")
    /\ UNCHANGED <<op, arg, ref, bar, drvVars, recVars, removed, rpm, hwVars>>

FreeLookup(t, found) ==
    /\ pc[t] = "granted" /\ op[t] = "free"
    /\ ref' = [ref EXCEPT ![t] = found]
    /\ Unlock(t, "put")
    /\ UNCHANGED <<op, arg, bar, drvVars, recVars, removed, rpm, hwVars>>

(* TypeOK: the result of the lookup is used unchecked. *)
Bug_bo_free_lookup(t) == FreeLookup(t, {handle[arg[t]]})

bo_free_lookup(t) == FreeLookup(t, {handle[arg[t]]} \ {None})

(* The end of an operation, outside the lock.  BO_FREE deletes the handle  *)
(* it was given when its lookup found an object; references are dropped;   *)
(* the PM reference goes with them.                                        *)
put(t) ==
    /\ pc[t] \in {"put", "ok"}
    /\ handle' = IF op[t] = "free" /\ ref[t] # {}
                 THEN [handle EXCEPT ![arg[t]] = None] ELSE handle
    /\ Goto(t, "idle")
    /\ op' = [op EXCEPT ![t] = "none"]
    /\ arg' = [arg EXCEPT ![t] = None]
    /\ ref' = [ref EXCEPT ![t] = {}]
    /\ bar' = [bar EXCEPT ![t] = NoBar]
    /\ UNCHANGED <<lock, vma, mm, page, node, pte, recVars, removed, rpm, hwVars>>

(* Destruction after the last reference.  Wedged: mapping and pages move   *)
(* to the preserved list, or leak in place when that allocation fails.     *)
ane_preserve_bo(b) ==
    /\ \E s \in {"preserved", "leaked"} : page' = [page EXCEPT ![b] = s]
    /\ UNCHANGED <<node, pte>>

ane_iommu_unmap_pages(b) ==
    /\ node' = [node EXCEPT ![mm[b]] = Free]
    /\ pte' = [pte EXCEPT ![mm[b]] = Free]
    /\ page' = [page EXCEPT ![b] = "none"]

Destroy(b, keep) ==
    /\ Doomed(b) /\ lock = None
    /\ mm' = [mm EXCEPT ![b] = 0]
    /\ \/ mm[b] # 0 /\ keep /\ ane_preserve_bo(b)
       \/ mm[b] # 0 /\ ~keep /\ ane_iommu_unmap_pages(b)
       \/ mm[b] = 0 /\ page' = [page EXCEPT ![b] = "none"] /\ UNCHANGED <<node, pte>>
    /\ UNCHANGED <<thVars, handle, vma, recVars, removed, rpm, hwVars>>

(* DmaSafe: a wedge does not keep the mapping.  RangesOwned: the preserved *)
(* range goes back to the allocator at once.                               *)
Bug_ane_gem_free_object_unmap(b) == Destroy(b, FALSE)
Bug_ane_gem_free_object_range(b) ==
    /\ Doomed(b) /\ lock = None /\ mm[b] # 0 /\ wedged
    /\ mm' = [mm EXCEPT ![b] = 0]
    /\ page' = [page EXCEPT ![b] = "preserved"]
    /\ node' = [node EXCEPT ![mm[b]] = Free]
    /\ UNCHANGED <<thVars, pte, handle, vma, recVars, removed, rpm, hwVars>>

ane_gem_free_object(b) == Destroy(b, wedged)

-----------------------------------------------------------------------------
(* ane_tm_execute, under engine_lock with the DART interrupts masked.      *)

ScratchPages == {i \in Iovas : node[i] = Scratch}

(* Pending events are dropped, then the task is pushed.  A task touches    *)
(* its buffers and, when its descriptors are wrong, any other address.     *)
Push(t, wild, drained) ==
    /\ pc[t] = "granted" /\ op[t] = "submit"
    /\ evt' = evt \ drained
    /\ task' = ({bar[t][b] : b \in Bos} \ {0}) \cup wild
    /\ Goto(t, "poll")
    /\ UNCHANGED <<lock, op, arg, ref, bar, drvVars, recVars, removed, rpm,
                   islands, dma, tm, fault>>

(* SuccessIsOwn: events of an earlier request are still there at the push. *)
Bug_tm_push(t, wild) == Push(t, wild, {})

tm_push(t, wild) == Push(t, wild, evt)

(* The wedge: pin the module, unmask (the provider then clears a latched   *)
(* fault), keep everything if scratch pages are mapped, else recover once. *)
Wedge(t) ==
    /\ wedged' = TRUE
    /\ pin' = IF wedged THEN pin ELSE pin + 1
    /\ fault' = -1
    /\ op' = [op EXCEPT ![t] = "failed"]
    /\ evt' = IF evt = {} THEN {} ELSE {"stale"}
    /\ IF ScratchPages # {}
       THEN scratch_retained' = TRUE /\ Unlock(t, "put")
       ELSE UNCHANGED <<scratch_retained, lock>> /\ Goto(t, "recover")
    /\ UNCHANGED <<arg, ref, bar, drvVars, quiesced, por_pending, removed,
                   rpm, islands, task, dma, tm>>

(* More than 64 events pending before the push. *)
tm_overflow_before_push(t) ==
    /\ pc[t] = "granted" /\ op[t] = "submit"
    /\ Wedge(t)

(* Both lines reported and the task manager idles.  The events only carry  *)
(* the queue's nid and the task count, not the request they belong to.     *)
Finished == evt # {} /\ tm = "idle" /\ fault = -1

tm_complete(t) ==
    /\ pc[t] = "poll" /\ Finished /\ ScratchPages = {}
    /\ evt' = {}
    /\ Unlock(t, "ok")
    /\ UNCHANGED <<op, arg, ref, bar, drvVars, recVars, removed, rpm,
                   islands, task, dma, tm, fault>>

(* The same after faults were drained: scratch pages go, the request fails.*)
Contained(t, released) ==
    /\ pc[t] = "poll" /\ Finished /\ ScratchPages # {}
    /\ evt' = {}
    /\ node' = [i \in Iovas |-> IF i \in released THEN Free ELSE node[i]]
    /\ pte' = [i \in Iovas |-> IF i \in released THEN Free ELSE pte[i]]
    /\ Unlock(t, "put")
    /\ UNCHANGED <<op, arg, ref, bar, handle, vma, mm, page, recVars, removed,
                   rpm, islands, task, dma, tm, fault>>

(* NothingForgotten: the contained fault keeps its scratch pages. *)
Bug_tm_contained(t) == Contained(t, {})

tm_contained(t) == Contained(t, ScratchPages)

(* Poll timeout, event overflow, or a queue nid that does not match. *)
tm_poll_fails(t) ==
    /\ pc[t] = "poll" /\ fault = -1
    /\ Wedge(t)

(* ane_dart_drain_fault: reserve the range, then map a throwaway page. *)
Drainable == /\ fault \in Iovas /\ node[fault] = Free
             /\ Cardinality(ScratchPages) < ScratchMax

ane_dart_drain_fault(t) ==
    /\ pc[t] = "poll" /\ Drainable
    /\ node' = [node EXCEPT ![fault] = Scratch]
    /\ pte' = [pte EXCEPT ![fault] = Scratch]
    /\ dma' = IF fault \in task THEN dma \cup {fault} ELSE dma
    /\ fault' = -1
    /\ UNCHANGED <<thVars, handle, vma, mm, page, recVars, removed, rpm,
                   islands, task, tm, evt>>

(* The range has an owner, the scratch array is full, or no memory. *)
tm_fault_not_drained(t) ==
    /\ pc[t] = "poll" /\ fault # -1
    /\ Wedge(t)

-----------------------------------------------------------------------------
(* The engine (external).  It starts a pushed task some time after the     *)
(* push, accesses the pages the DART translates, stalls on a page it does  *)
(* not, and may finish, latch an error or hang.                            *)

Mapped == {i \in Iovas : pte[i] # Free}

hw_start ==
    /\ task # {} /\ tm = "idle" /\ islands /\ dma = {}
    /\ tm' = "busy" /\ dma' = task \cap Mapped
    /\ UNCHANGED <<thVars, drvVars, recVars, removed, rpm, islands, task, evt,
                   fault>>

hw_finish ==
    /\ tm = "busy" /\ fault = -1 /\ islands
    /\ tm' = "idle" /\ task' = {} /\ dma' = {}
    /\ evt' = evt \cup {IF \E t \in Threads : pc[t] = "poll"
                        THEN "own" ELSE "stale"}
    /\ UNCHANGED <<thVars, drvVars, recVars, removed, rpm, islands, fault>>

hw_fault(i) ==
    /\ tm = "busy" /\ fault = -1 /\ islands
    /\ \E t \in Threads : pc[t] = "poll"
    /\ i \in task \ dma
    /\ fault' = i
    /\ UNCHANGED <<thVars, drvVars, recVars, removed, rpm, islands, task, dma,
                   tm, evt>>

hw_error ==
    /\ tm = "busy" /\ islands
    /\ tm' = "latched"
    /\ UNCHANGED <<thVars, drvVars, recVars, removed, rpm, islands, task, dma,
                   evt, fault>>

-----------------------------------------------------------------------------
(* Runtime PM and removal.  The PM core suspends when nobody holds a       *)
(* reference; system sleep runs the same callback with user space frozen.  *)

Idle == \A t \in Threads : pc[t] = "idle"

Suspend(veto, por) ==
    /\ rpm = "active" /\ Idle /\ ~removed
    /\ ~veto
    /\ por_pending' = por
    /\ rpm' = "suspended"
    /\ UNCHANGED <<thVars, drvVars, wedged, quiesced, scratch_retained, pin,
                   removed, hwVars>>

(* SuspendIsQuiet: no veto for a wedged engine.  WedgeRetires: the         *)
(* power-off is not recorded.                                              *)
Bug_ane_runtime_suspend_veto == Suspend(FALSE, wedged \/ por_pending)
Bug_ane_runtime_suspend_por == Suspend(wedged /\ ~quiesced, por_pending)

ane_runtime_suspend == Suspend(wedged /\ ~quiesced, wedged \/ por_pending)

(* Queued genpd work takes the whole hierarchy down unless a resume comes  *)
(* first; only this resets the task manager's file.                        *)
power_off ==
    /\ rpm = "suspended"
    /\ rpm' = "off" /\ islands' = FALSE
    /\ task' = {} /\ dma' = {} /\ tm' = "idle" /\ evt' = {} /\ fault' = -1
    /\ UNCHANGED <<thVars, drvVars, recVars, removed>>

Remove(keep) ==
    /\ ~removed /\ lock = None
    /\ removed' = TRUE
    /\ pm_runtime_resume_and_get
    /\ \/ keep /\ UNCHANGED drvVars
       \/ /\ ~keep
          /\ LET gone == {i \in Iovas : node[i] \in Preserved}
                           \cup {mm[b] : b \in Bos} IN
             /\ node' = [i \in Iovas |-> IF i \in gone THEN Free ELSE node[i]]
             /\ pte' = [i \in Iovas |-> IF i \in gone THEN Free ELSE pte[i]]
          /\ mm' = [b \in Bos |-> 0]
          /\ page' = [b \in Bos |-> IF b \in Preserved THEN "none" ELSE page[b]]
          /\ UNCHANGED <<handle, vma>>
    /\ UNCHANGED <<thVars, recVars, task, dma, tm, evt, fault>>

(* WedgedKeepsMappings: removal tears everything down, wedged or not. *)
Bug_ane_platform_remove == Remove(FALSE)

ane_platform_remove == Remove(wedged)

-----------------------------------------------------------------------------
ThreadStep(t) ==
    \/ mutex_lock(t)
    \/ recover_refuse(t) \/ recover_por(t)
    \/ recover_cycle(t) \/ recover_cycle_fails(t)
    \/ recover_idle(t) \/ recover_not_idle(t)
    \/ \E b \in ref[t], i \in Iovas : bo_init_map(t, b, i)
    \/ bo_init_map_fails(t) \/ bo_free_lookup(t)
    \/ \E wild \in SUBSET (0 .. NIova) : tm_push(t, wild)
    \/ tm_overflow_before_push(t)
    \/ tm_complete(t) \/ tm_contained(t) \/ tm_poll_fails(t)
    \/ ane_dart_drain_fault(t) \/ tm_fault_not_drained(t)
    \/ put(t)

Call(t) ==
    \/ \E b \in Bos : ane_bo_init(t, b)
    \/ \E h \in Handles : ane_bo_free(t, h)
    \/ \E hs \in SUBSET Handles : ane_submit(t, hs)
    \/ reset_store(t)
    \/ \E hs \in SUBSET Handles : ane_drm_postclose(t, hs)

Hardware == hw_start \/ hw_finish \/ (\E i \in 0 .. NIova : hw_fault(i)) \/ hw_error

Next ==
    \/ \E t \in Threads : Call(t) \/ ThreadStep(t)
    \/ \E h \in Handles : ane_drm_mmap(h)
    \/ \E b \in Bos : drm_gem_vm_close(b) \/ ane_gem_free_object(b)
    \/ Hardware
    \/ ane_runtime_suspend \/ power_off
    \/ ane_platform_remove

Spec == Init /\ [][Next]_vars

(* A thread inside the driver keeps running: every wait in it is bounded   *)
(* by a poll timeout, and the mutex is handed to its waiters.              *)
ThreadFairness ==
    /\ \A t \in Threads : WF_vars(ThreadStep(t)) /\ SF_vars(mutex_lock(t))
    /\ \A b \in Bos : SF_vars(ane_gem_free_object(b))

(* What stage 2 of a recovery waits for: autosuspend runs when the device  *)
(* idles, not every suspend is undone before the power goes, and some      *)
(* later call finds the device off and resumes it with its islands up.     *)
PowerFairness ==
    /\ SF_vars(ane_runtime_suspend)
    /\ SF_vars(power_off)
    /\ \A t \in Threads : SF_vars(rpm = "off" /\ reset_store(t) /\ islands')

LiveSpec == Spec /\ ThreadFairness
RecoverySpec == LiveSpec /\ PowerFairness

-----------------------------------------------------------------------------
(* Properties. *)

ThreadType ==
    /\ lock \in Threads \cup {None}
    /\ pc \in [Threads -> Pcs]
    /\ op \in [Threads -> Ops]
    /\ arg \in [Threads -> Handles \cup {None}]
    /\ ref \in [Threads -> SUBSET Bos]
    /\ bar \in [Threads -> [Bos -> 0 .. NIova]]
MemoryType ==
    /\ handle \in [Handles -> Bos \cup {None}]
    /\ vma \subseteq Bos
    /\ mm \in [Bos -> 0 .. NIova]
    /\ page \in [Bos -> {"none", "held", "preserved", "leaked"}]
    /\ node \in [Iovas -> Owners]
    /\ pte \in [Iovas -> Owners]
FlagType ==
    /\ wedged \in BOOLEAN /\ quiesced \in BOOLEAN /\ por_pending \in BOOLEAN
    /\ scratch_retained \in BOOLEAN /\ removed \in BOOLEAN
    /\ pin \in Int
    /\ rpm \in {"active", "suspended", "off"}
EngineType ==
    /\ islands \in BOOLEAN
    /\ task \subseteq 0 .. NIova /\ dma \subseteq Iovas
    /\ tm \in {"idle", "busy", "latched"} /\ evt \subseteq {"own", "stale"}
    /\ fault \in -1 .. NIova

(* Every variable has its type. *)
TypeOK == ThreadType /\ MemoryType /\ FlagType /\ EngineType

(* No IOVA the engine may still be accessing is unmapped, and no page      *)
(* behind it is given back, whoever closes, frees, recovers or removes.    *)
DmaSafe ==
    \A i \in dma : pte[i] # Free /\ (pte[i] \in Bos => page[pte[i]] # "none")

(* The allocator and the page table agree: a mapped IOVA is reserved for   *)
(* the object or scratch page mapped there, a reserved range has an owner  *)
(* that still knows of it (the object, the preserved list, or a leak that  *)
(* was reported), and an object's iova is a range reserved for it.         *)
RangesOwned ==
    /\ pte = node
    /\ \A i \in Iovas : node[i] \in Bos =>
          mm[node[i]] = i \/ page[node[i]] \in {"preserved", "leaked"}
    /\ \A b \in Bos : mm[b] # 0 => node[mm[b]] = b /\ page[b] = "held"

(* While the engine stays wedged no translation changes: nothing is mapped *)
(* over, and nothing torn down under, what its dead task may touch.        *)
WedgedKeepsMappings == [][wedged /\ wedged' => pte' = pte]_vars

(* The wedge holds exactly one module reference, and only while it lasts.  *)
PinIsWedge == pin = IF wedged THEN 1 ELSE 0

(* quiesced and por_pending mean what runtime suspend takes them to mean:  *)
(* the engine is wedged and its task is gone.                              *)
QuiescedIsQuiet ==
    /\ quiesced => wedged /\ task = {} /\ dma = {}
    /\ por_pending => quiesced

(* The device is never suspended with a task pushed or DMA in flight.      *)
SuspendIsQuiet == rpm # "active" => task = {} /\ dma = {}

(* What a wedge promises its callers, together: it holds one module        *)
(* reference while it lasts, the verdict "quiesced" that recovery leaves   *)
(* for runtime suspend is true, and power is never taken from a task.      *)
WedgeSound == PinIsWedge /\ QuiescedIsQuiet /\ SuspendIsQuiet

(* The addresses a submit read before taking engine_lock are still those   *)
(* of the objects it named while its task runs.                            *)
BarsNotStale ==
    \A t \in Threads :
        pc[t] \in {"granted", "poll"} /\ op[t] = "submit" =>
            \A b \in Bos : bar[t][b] # 0 =>
                bar[t][b] = mm[b] /\ pte[bar[t][b]] = b

(* SUBMIT returns success only when its own task has finished, although    *)
(* completion events do not say which request they belong to.              *)
SuccessIsOwn ==
    [][\A t \in Threads :
          pc[t] = "poll" /\ pc'[t] = "ok" => "own" \in evt /\ task = {}]_vars

(* Engine registers are polled only with the device resumed and its power  *)
(* islands up, also after a cycle that failed half way.                    *)
EnginePowered ==
    \A t \in Threads :
        \/ pc[t] \in {"check", "poll"}
        \/ pc[t] = "granted" /\ op[t] = "submit"
        => rpm = "active" /\ islands

(* Preserved mappings and scratch pages do not outlive their reason: the   *)
(* first are held only by a wedge, the second by a running request or by   *)
(* a wedge that is kept until reboot.                                      *)
NothingForgotten ==
    /\ \A b \in Bos : page[b] = "preserved" => wedged
    /\ ScratchPages # {} =>
         (wedged /\ scratch_retained) \/ (\E t \in Threads : pc[t] = "poll")

(* Every ioctl, close and reset write that entered the driver returns:     *)
(* faults are drained at most ScratchMax times, every poll is bounded.     *)
CallsReturn == \A t \in Threads : pc[t] = "lock" ~> pc[t] = "idle"

(* A wedge whose engine was gated is not kept for ever: if the device does *)
(* idle again and again, then after a full power-off a call clears it (or  *)
(* the driver was removed first).                                          *)
WedgeRetires ==
    []<>Idle => ((wedged /\ quiesced) ~> (~wedged \/ removed))

=============================================================================
