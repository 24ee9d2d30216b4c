---------------------------- MODULE AneDrvProofs ----------------------------
(***************************************************************************)
(* Proofs about AneDrv for every number of threads, objects, handles and   *)
(* IOVAs.  IInv is the inductive invariant behind them.                    *)
(***************************************************************************)
EXTENDS AneDrv, TLAPS

Locked == {"recover", "check", "granted", "poll"}

(* engine_lock is held by exactly the thread inside a locked section.      *)
LockInv == \A t \in Threads : pc[t] \in Locked <=> lock = t

(* What a thread inside the lock knows. *)
PcInv ==
    \A t \in Threads :
        /\ pc[t] \in Locked => ~removed
        /\ pc[t] \in {"recover", "check"} => wedged
        /\ pc[t] \in {"granted", "poll"} => ~wedged
        /\ pc[t] = "check" => quiesced /\ ~por_pending /\ ~scratch_retained
        /\ pc[t] = "check" => islands
        /\ pc[t] = "poll" => op[t] = "submit"
        /\ op[t] = "free" => arg[t] \in Handles
        /\ pc[t] = "poll" /\ evt # {} => task = {} /\ "own" \in evt

(* The engine has work only behind a polling thread or a wedge. *)
TaskInv ==
    /\ dma \subseteq task
    /\ task # {} => wedged \/ \E t \in Threads : pc[t] = "poll"

(* A referenced object has its pages. *)
RefInv ==
    /\ \A t \in Threads : \A b \in ref[t] : page[b] = "held"
    /\ \A h \in Handles : handle[h] # None => page[handle[h]] = "held"
    /\ \A b \in vma : page[b] = "held"

(* The addresses of a submit follow its objects while it holds them. *)
BarInv ==
    \A t \in Threads :
        op[t] = "submit" /\ pc[t] \in Locked \cup {"lock"} /\ ~removed =>
            \A b \in Bos : bar[t][b] # 0 => bar[t][b] = mm[b] /\ b \in ref[t]

(* A device that is not active has no user, and its power is up for an     *)
(* engine that is not wedged.                                              *)
RpmInv ==
    /\ rpm # "active" => Idle /\ task = {}
    /\ rpm = "active" /\ ~wedged => islands

RetainInv == scratch_retained => wedged

IInv ==
    /\ TypeOK /\ LockInv /\ PcInv /\ TaskInv /\ RefInv /\ BarInv /\ RpmInv
    /\ RetainInv /\ RangesOwned /\ DmaSafe /\ PinIsWedge /\ QuiescedIsQuiet
    /\ NothingForgotten

USE AneDrvAssumption, OwnerAssumption, ZenonT(30) DEF Iovas, Scratch, Free

LEMMA InitIInv == Init => IInv
<1> SUFFICES ASSUME Init PROVE IInv
  OBVIOUS
<1> USE DEF Init
<1>1. TypeOK
  <2>1. /\ lock \in Threads \cup {None} /\ pc \in [Threads -> Pcs]
        /\ op \in [Threads -> Ops] /\ arg \in [Threads -> Handles \cup {None}]
    BY DEF Pcs, Ops
  <2>2. ref \in [Threads -> SUBSET Bos] /\ bar \in [Threads -> [Bos -> 0 .. NIova]]
    BY SMTT(30) DEF NoBar
  <2>3. /\ handle \in [Handles -> Bos \cup {None}] /\ vma \subseteq Bos
        /\ mm \in [Bos -> 0 .. NIova]
        /\ page \in [Bos -> {"none", "held", "preserved", "leaked"}]
        /\ node \in [Iovas -> Owners] /\ pte \in [Iovas -> Owners]
    BY SMTT(30) DEF Owners
  <2>4. /\ wedged \in BOOLEAN /\ quiesced \in BOOLEAN /\ por_pending \in BOOLEAN
        /\ scratch_retained \in BOOLEAN /\ removed \in BOOLEAN
        /\ islands \in BOOLEAN
    OBVIOUS
  <2>5. /\ pin \in Int /\ rpm \in {"active", "suspended", "off"}
        /\ task \subseteq 0 .. NIova /\ dma \subseteq Iovas
        /\ tm \in {"idle", "busy", "latched"} /\ evt \subseteq {"own", "stale"}
    BY SMTT(30)
  <2>6. fault \in -1 .. NIova
    BY SMTT(30)
  <2> QED
    BY <2>1, <2>2, <2>3, <2>4, <2>5, <2>6
       DEF TypeOK, ThreadType, MemoryType, FlagType, EngineType
<1>2. LockInv /\ PcInv
  BY DEF LockInv, PcInv, Locked
<1>3. TaskInv /\ RefInv /\ BarInv
  BY DEF TaskInv, RefInv, BarInv, NoBar
<1>4. RpmInv /\ RetainInv
  BY DEF RpmInv, RetainInv
<1>5. RangesOwned
  BY DEF RangesOwned
<1>6. DmaSafe /\ PinIsWedge /\ QuiescedIsQuiet /\ NothingForgotten
  BY DEF DmaSafe, PinIsWedge, QuiescedIsQuiet, NothingForgotten, ScratchPages
<1> QED
  BY <1>1, <1>2, <1>3, <1>4, <1>5, <1>6 DEF IInv
-----------------------------------------------------------------------------
(* Facts the steps share. *)

(* A conjunct of the invariant whose variables do not change. *)
LEMMA Frame ==
  /\ ThreadType /\ UNCHANGED <<lock, pc, op, arg, ref, bar>> => ThreadType'
  /\ MemoryType /\ UNCHANGED <<handle, vma, mm, page, node, pte>> => MemoryType'
  /\ FlagType /\ UNCHANGED <<wedged, quiesced, por_pending, scratch_retained,
                             removed, pin, rpm>> => FlagType'
  /\ EngineType /\ UNCHANGED <<islands, task, dma, tm, evt, fault>> => EngineType'
  /\ LockInv /\ UNCHANGED <<lock, pc>> => LockInv'
  /\ PcInv /\ UNCHANGED <<pc, op, arg, removed, wedged, quiesced, por_pending,
                          scratch_retained, islands, evt, task>> => PcInv'
  /\ TaskInv /\ UNCHANGED <<dma, task, wedged, pc>> => TaskInv'
  /\ RefInv /\ UNCHANGED <<ref, handle, vma, page>> => RefInv'
  /\ BarInv /\ UNCHANGED <<op, pc, removed, bar, mm, ref>> => BarInv'
  /\ RpmInv /\ UNCHANGED <<rpm, pc, task, wedged, islands>> => RpmInv'
  /\ RetainInv /\ UNCHANGED <<scratch_retained, wedged>> => RetainInv'
  /\ RangesOwned /\ UNCHANGED <<pte, node, mm, page>> => RangesOwned'
  /\ DmaSafe /\ UNCHANGED <<dma, pte, page>> => DmaSafe'
  /\ PinIsWedge /\ UNCHANGED <<pin, wedged>> => PinIsWedge'
  /\ QuiescedIsQuiet /\ UNCHANGED <<quiesced, wedged, task, dma, por_pending>>
       => QuiescedIsQuiet'
  /\ NothingForgotten /\ UNCHANGED <<page, wedged, node, scratch_retained, pc>>
       => NothingForgotten'
<1>1. LockInv /\ UNCHANGED <<lock, pc>> => LockInv'
  BY DEF LockInv
<1>2. PcInv /\ UNCHANGED <<pc, op, arg, removed, wedged, quiesced, por_pending,
                           scratch_retained, islands, evt, task>> => PcInv'
  BY SMTT(30) DEF PcInv
<1>3. TaskInv /\ UNCHANGED <<dma, task, wedged, pc>> => TaskInv'
  BY SMTT(30) DEF TaskInv
<1>4. RefInv /\ UNCHANGED <<ref, handle, vma, page>> => RefInv'
  BY DEF RefInv
<1>5. BarInv /\ UNCHANGED <<op, pc, removed, bar, mm, ref>> => BarInv'
  BY SMTT(30) DEF BarInv
<1>6. RpmInv /\ UNCHANGED <<rpm, pc, task, wedged, islands>> => RpmInv'
  BY SMTT(30) DEF RpmInv, Idle
<1>7. RetainInv /\ UNCHANGED <<scratch_retained, wedged>> => RetainInv'
  BY SMTT(30) DEF RetainInv
<1>8. RangesOwned /\ UNCHANGED <<pte, node, mm, page>> => RangesOwned'
  BY DEF RangesOwned
<1>9. DmaSafe /\ UNCHANGED <<dma, pte, page>> => DmaSafe'
  BY DEF DmaSafe
<1>10. PinIsWedge /\ UNCHANGED <<pin, wedged>> => PinIsWedge'
  BY SMTT(30) DEF PinIsWedge
<1>11. QuiescedIsQuiet /\ UNCHANGED <<quiesced, wedged, task, dma, por_pending>>
         => QuiescedIsQuiet'
  BY SMTT(30) DEF QuiescedIsQuiet
<1>12. NothingForgotten /\ UNCHANGED <<page, wedged, node, scratch_retained, pc>>
         => NothingForgotten'
  BY SMTT(30) DEF NothingForgotten, ScratchPages
<1>13. ThreadType /\ UNCHANGED <<lock, pc, op, arg, ref, bar>> => ThreadType'
  BY DEF ThreadType
<1>14. MemoryType /\ UNCHANGED <<handle, vma, mm, page, node, pte>> => MemoryType'
  BY DEF MemoryType
<1>15. FlagType /\ UNCHANGED <<wedged, quiesced, por_pending, scratch_retained,
                               removed, pin, rpm>> => FlagType'
  BY DEF FlagType
<1>16. EngineType /\ UNCHANGED <<islands, task, dma, tm, evt, fault>> => EngineType'
  BY DEF EngineType
<1> QED
  BY <1>1, <1>2, <1>3, <1>4, <1>5, <1>6, <1>7, <1>8, <1>9, <1>10, <1>11, <1>12,
     <1>13, <1>14, <1>15, <1>16

(* Facts about ranges: an object's IOVA lies in the address space, a page  *)
(* behind a translation is never given back, and a live object that owns a *)
(* range knows it.                                                         *)
LEMMA RangeFacts ==
  ASSUME TypeOK, RangesOwned
  PROVE  /\ \A b \in Bos : mm[b] # 0 => mm[b] \in Iovas
         /\ \A i \in Iovas : pte[i] \in Bos => page[pte[i]] # "none"
         /\ \A i \in Iovas, b \in Bos : page[b] = "held" /\ node[i] = b => mm[b] = i
         /\ \A b, c \in Bos : mm[b] # 0 /\ mm[c] = mm[b] => b = c
<1>1. \A b \in Bos : mm[b] # 0 => mm[b] \in Iovas
  BY SMTT(30) DEF TypeOK, MemoryType
<1>2. \A i \in Iovas : pte[i] \in Bos => page[pte[i]] # "none"
  <2> SUFFICES ASSUME NEW i \in Iovas, node[i] \in Bos
               PROVE  page[node[i]] # "none"
    BY DEF RangesOwned
  <2>1. CASE mm[node[i]] = i
    <3>1. mm[node[i]] # 0
      BY <2>1, SMTT(30)
    <3> QED
      BY <3>1 DEF RangesOwned
  <2>2. CASE mm[node[i]] # i
    BY <2>2 DEF RangesOwned
  <2> QED
    BY <2>1, <2>2
<1>3. \A i \in Iovas, b \in Bos : page[b] = "held" /\ node[i] = b => mm[b] = i
  BY SMTT(30) DEF RangesOwned
<1>4. \A b, c \in Bos : mm[b] # 0 /\ mm[c] = mm[b] => b = c
  BY SMTT(30) DEF RangesOwned
<1> QED
  BY <1>1, <1>2, <1>3, <1>4

(* A step of the thread inside engine_lock: it moves to l, and keeps the   *)
(* lock when l is inside it.  Nobody else is inside.                       *)
LEMMA MoveStep ==
  ASSUME IInv, NEW t \in Threads, pc[t] \in Locked, NEW l \in Pcs,
         pc' = [pc EXCEPT ![t] = l], lock' = IF l \in Locked THEN t ELSE None,
         UNCHANGED <<op, arg, bar, removed, rpm>>,
         \A b \in Bos : mm[b] # 0 => mm'[b] = mm[b],
         \A u \in Threads : op[u] = "submit" => ref'[u] = ref[u],
         l \in {"recover", "check"} => wedged',
         l \in {"granted", "poll"} => ~wedged',
         l = "check" => quiesced' /\ ~por_pending' /\ ~scratch_retained' /\ islands',
         l = "poll" => op[t] = "submit" /\ (evt' # {} => task' = {} /\ "own" \in evt'),
         ~wedged' => islands'
  PROVE  /\ lock' \in Threads \cup {None} /\ pc' \in [Threads -> Pcs]
         /\ LockInv' /\ PcInv' /\ BarInv' /\ RpmInv'
         /\ rpm = "active" /\ ~removed
         /\ (\E u \in Threads : pc[u] = "poll") <=> pc[t] = "poll"
         /\ (\E u \in Threads : pc'[u] = "poll") <=> l = "poll"
<1> USE DEF IInv, TypeOK
<1>1. /\ lock = t /\ ~removed
      /\ \A u \in Threads \ {t} : pc'[u] = pc[u] /\ pc[u] \notin Locked
      /\ pc'[t] = l /\ pc' \in [Threads -> Pcs]
  BY DEF LockInv, PcInv, ThreadType
<1>2. rpm = "active"
  BY DEF RpmInv, Idle, Locked
<1>3. LockInv'
  BY <1>1 DEF LockInv
<1>4. PcInv'
  BY <1>1 DEF PcInv, Locked
<1>5. BarInv'
  <2> SUFFICES ASSUME NEW u \in Threads, op[u] = "submit", ~removed,
                      pc'[u] \in Locked \cup {"lock"},
                      NEW b \in Bos, bar[u][b] # 0
               PROVE  bar[u][b] = mm'[b] /\ b \in ref'[u]
    BY DEF BarInv
  <2>1. pc[u] \in Locked \cup {"lock"}
    BY <1>1
  <2>2. bar[u][b] = mm[b] /\ b \in ref[u]
    BY <2>1 DEF BarInv
  <2> QED
    BY <2>2
<1>6. RpmInv'
  BY <1>2 DEF RpmInv
<1>7. /\ (\E u \in Threads : pc[u] = "poll") <=> pc[t] = "poll"
      /\ (\E u \in Threads : pc'[u] = "poll") <=> l = "poll"
  BY <1>1 DEF Locked
<1> QED
  BY <1>1, <1>2, <1>3, <1>4, <1>5, <1>6, <1>7

-----------------------------------------------------------------------------
(* IInv is preserved by every action. *)

(* What the entry of an ioctl, a close or a reset write has in common. *)
LEMMA EnterStep ==
  ASSUME IInv, NEW t \in Threads, NEW o \in Ops, NEW h \in Handles \cup {None},
         NEW bs \in SUBSET Bos, NEW br \in [Bos -> 0 .. NIova],
         o = "free" => h \in Handles,
         o = "submit" => \A b \in Bos : br[b] # 0 => br[b] = mm[b] /\ b \in bs,
         handle' \in [Handles -> Bos \cup {None}], vma' \subseteq Bos,
         page' \in [Bos -> {"none", "held", "preserved", "leaked"}],
         Enter(t, o, h, bs, br)
  PROVE  /\ TypeOK' /\ LockInv' /\ PcInv' /\ TaskInv' /\ BarInv' /\ RpmInv'
         /\ RetainInv' /\ PinIsWedge' /\ QuiescedIsQuiet'
<1> USE DEF IInv, TypeOK, Enter, recVars
<1>1. /\ \A u \in Threads \ {t} : pc'[u] = pc[u] /\ op'[u] = op[u] /\ arg'[u] = arg[u]
      /\ \A u \in Threads \ {t} : ref'[u] = ref[u] /\ bar'[u] = bar[u]
      /\ pc'[t] = "lock" /\ op'[t] = o /\ arg'[t] = h /\ ref'[t] = bs /\ bar'[t] = br
  BY DEF ThreadType
<1>2. /\ rpm' = "active"
      /\ islands' \in BOOLEAN
      /\ rpm = "active" /\ islands => islands'
      /\ ~wedged => islands'
  BY DEF pm_runtime_resume_and_get, FlagType, EngineType, RpmInv
<1>3. TypeOK'
  <2>1. pc' \in [Threads -> Pcs] /\ op' \in [Threads -> Ops]
    BY DEF ThreadType, Pcs
  <2>2. /\ arg' \in [Threads -> Handles \cup {None}] /\ ref' \in [Threads -> SUBSET Bos]
        /\ bar' \in [Threads -> [Bos -> 0 .. NIova]]
    BY DEF ThreadType
  <2> QED
    BY <1>2, <2>1, <2>2, Frame DEF ThreadType, MemoryType, FlagType, EngineType
<1>4. LockInv'
  BY <1>1 DEF LockInv, Locked, ThreadType
<1>5. PcInv'
  <2> SUFFICES ASSUME NEW u \in Threads
               PROVE  /\ pc'[u] \in Locked => ~removed'
                      /\ pc'[u] \in {"recover", "check"} => wedged'
                      /\ pc'[u] \in {"granted", "poll"} => ~wedged'
                      /\ pc'[u] = "check" =>
                           quiesced' /\ ~por_pending' /\ ~scratch_retained'
                      /\ pc'[u] = "check" => islands'
                      /\ pc'[u] = "poll" => op'[u] = "submit"
                      /\ op'[u] = "free" => arg'[u] \in Handles
                      /\ pc'[u] = "poll" /\ evt' # {} => task' = {} /\ "own" \in evt'
    BY DEF PcInv
  <2>1. CASE u = t
    BY <1>1, <2>1, SMTT(30) DEF Locked
  <2>2. CASE u # t
    <3>1. pc[u] = "check" => rpm = "active"
      BY DEF RpmInv, Idle
    <3> QED
      BY <1>1, <1>2, <2>2, <3>1, SMTT(30) DEF PcInv
  <2> QED
    BY <2>1, <2>2
<1>6. TaskInv' /\ RetainInv' /\ PinIsWedge' /\ QuiescedIsQuiet'
  BY <1>1 DEF TaskInv, RetainInv, PinIsWedge, QuiescedIsQuiet, ThreadType
<1>7. BarInv'
  BY <1>1, SMTT(30) DEF BarInv, Locked, ThreadType
<1>8. RpmInv'
  BY <1>2 DEF RpmInv
<1> QED
  BY <1>3, <1>4, <1>5, <1>6, <1>7, <1>8

LEMMA Step_ane_bo_init ==
  ASSUME IInv, NEW t \in Threads, NEW b \in Bos, ane_bo_init(t, b)
  PROVE  IInv'
<1> USE DEF IInv, TypeOK, ane_bo_init
<1>1. /\ TypeOK' /\ LockInv' /\ PcInv' /\ TaskInv' /\ BarInv' /\ RpmInv'
      /\ RetainInv' /\ PinIsWedge' /\ QuiescedIsQuiet'
  <2>1. page' \in [Bos -> {"none", "held", "preserved", "leaked"}]
    BY DEF MemoryType
  <2>2. "init" \in Ops /\ NoBar \in [Bos -> 0 .. NIova]
    BY SMTT(30) DEF Ops, NoBar
  <2> QED
    BY <2>1, <2>2, EnterStep DEF MemoryType
<1>2. RefInv'
  BY SMTT(30) DEF RefInv, Enter, ThreadType, MemoryType
<1>3. RangesOwned' /\ DmaSafe' /\ NothingForgotten'
  <2>1. RangesOwned'
    BY SMTT(30) DEF RangesOwned, Enter, MemoryType
  <2>2. DmaSafe'
    BY DEF DmaSafe, Enter, MemoryType
  <2>3. NothingForgotten'
    BY SMTT(30) DEF NothingForgotten, ScratchPages, Enter, recVars, ThreadType
  <2> QED
    BY <2>1, <2>2, <2>3
<1> QED
  BY <1>1, <1>2, <1>3

LEMMA Step_ane_bo_free ==
  ASSUME IInv, NEW t \in Threads, NEW h \in Handles, ane_bo_free(t, h)
  PROVE  IInv'
<1> USE DEF IInv, TypeOK, ane_bo_free
<1>1. /\ TypeOK' /\ LockInv' /\ PcInv' /\ TaskInv' /\ BarInv' /\ RpmInv'
      /\ RetainInv' /\ PinIsWedge' /\ QuiescedIsQuiet'
  <2>1. "free" \in Ops /\ NoBar \in [Bos -> 0 .. NIova]
    BY SMTT(30) DEF Ops, NoBar
  <2> QED
    BY <2>1, EnterStep DEF MemoryType
<1>2. RefInv'
  BY DEF RefInv, Enter, ThreadType
<1>3. RangesOwned' /\ DmaSafe'
  BY Frame DEF Enter
<1>4. NothingForgotten'
  BY DEF NothingForgotten, ScratchPages, Enter, recVars, ThreadType
<1> QED
  BY <1>1, <1>2, <1>3, <1>4

LEMMA Step_ane_submit ==
  ASSUME IInv, NEW t \in Threads, NEW hs \in SUBSET Handles, ane_submit(t, hs)
  PROVE  IInv'
<1> USE DEF IInv, TypeOK, ane_submit, Lookup
<1> DEFINE bs == {handle[h] : h \in hs}
           br == [b \in Bos |-> IF \E h \in hs : handle[h] = b THEN mm[b] ELSE 0]
<1>1. /\ TypeOK' /\ LockInv' /\ PcInv' /\ TaskInv' /\ BarInv' /\ RpmInv'
      /\ RetainInv' /\ PinIsWedge' /\ QuiescedIsQuiet'
  <2>1. "submit" \in Ops
    BY DEF Ops
  <2>2. bs \in SUBSET Bos /\ br \in [Bos -> 0 .. NIova]
    BY SMTT(30) DEF MemoryType
  <2>3. \A b \in Bos : br[b] # 0 => br[b] = mm[b] /\ b \in bs
    OBVIOUS
  <2> HIDE DEF bs, br
  <2>4. Enter(t, "submit", None, bs, br)
    BY DEF bs, br
  <2> QED
    BY <2>1, <2>2, <2>3, <2>4, EnterStep DEF MemoryType
<1>2. RefInv'
  <2>1. ref' = [ref EXCEPT ![t] = bs]
    BY DEF Enter
  <2>2. \A b \in bs : page[b] = "held"
    BY SMTT(30) DEF RefInv, MemoryType
  <2> HIDE DEF bs
  <2> QED
    BY <2>1, <2>2 DEF RefInv, ThreadType
<1>3. RangesOwned' /\ DmaSafe' /\ NothingForgotten'
  <2>1. RangesOwned' /\ DmaSafe'
    BY DEF RangesOwned, DmaSafe, Enter
  <2>2. NothingForgotten'
    BY DEF NothingForgotten, ScratchPages, Enter, recVars, ThreadType
  <2> QED
    BY <2>1, <2>2
<1> QED
  BY <1>1, <1>2, <1>3

LEMMA Step_reset_store ==
  ASSUME IInv, NEW t \in Threads, reset_store(t)
  PROVE  IInv'
<1> USE DEF IInv, TypeOK, reset_store
<1>1. /\ TypeOK' /\ LockInv' /\ PcInv' /\ TaskInv' /\ BarInv' /\ RpmInv'
      /\ RetainInv' /\ PinIsWedge' /\ QuiescedIsQuiet'
  <2>1. "reset" \in Ops /\ NoBar \in [Bos -> 0 .. NIova]
    BY SMTT(30) DEF Ops, NoBar
  <2> QED
    BY <2>1, EnterStep DEF MemoryType
<1>2. RefInv'
  BY DEF RefInv, Enter, ThreadType
<1>3. RangesOwned' /\ DmaSafe'
  BY Frame DEF Enter
<1>4. NothingForgotten'
  BY DEF NothingForgotten, ScratchPages, Enter, recVars, ThreadType
<1> QED
  BY <1>1, <1>2, <1>3, <1>4

LEMMA Step_ane_drm_postclose ==
  ASSUME IInv, NEW t \in Threads, NEW hs \in SUBSET Handles, ane_drm_postclose(t, hs)
  PROVE  IInv'
<1> USE DEF IInv, TypeOK, ane_drm_postclose
<1>1. /\ TypeOK' /\ LockInv' /\ PcInv' /\ TaskInv' /\ BarInv' /\ RpmInv'
      /\ RetainInv' /\ PinIsWedge' /\ QuiescedIsQuiet'
  <2>1. "close" \in Ops /\ NoBar \in [Bos -> 0 .. NIova]
    BY SMTT(30) DEF Ops, NoBar
  <2>2. handle' \in [Handles -> Bos \cup {None}]
    BY DEF MemoryType
  <2> QED
    BY <2>1, <2>2, EnterStep DEF MemoryType
<1>2. RefInv'
  BY DEF RefInv, Enter, ThreadType
<1>3. RangesOwned' /\ DmaSafe' /\ NothingForgotten'
  <2>1. RangesOwned' /\ DmaSafe'
    BY DEF RangesOwned, DmaSafe, Enter
  <2>2. NothingForgotten'
    BY DEF NothingForgotten, ScratchPages, Enter, recVars, ThreadType
  <2> QED
    BY <2>1, <2>2
<1> QED
  BY <1>1, <1>2, <1>3

LEMMA Step_ane_drm_mmap ==
  ASSUME IInv, NEW h \in Handles, ane_drm_mmap(h)
  PROVE  IInv'
<1> USE DEF IInv, TypeOK
<1>1. /\ vma' = vma \cup {handle[h]} /\ handle[h] # None
      /\ UNCHANGED <<lock, pc, op, arg, ref, bar, handle, mm, page, node, pte,
                     wedged, quiesced, por_pending, scratch_retained, pin,
                     removed, rpm, islands, task, dma, tm, evt, fault>>
  BY DEF ane_drm_mmap, thVars, recVars, hwVars
<1>2. MemoryType'
  BY <1>1 DEF MemoryType
<1>3. RefInv'
  BY <1>1 DEF RefInv
<1> QED
  BY <1>1, <1>2, <1>3, Frame

LEMMA Step_drm_gem_vm_close ==
  ASSUME IInv, NEW b \in Bos, drm_gem_vm_close(b)
  PROVE  IInv'
<1> USE DEF IInv, TypeOK
<1>1. /\ vma' = vma \ {b}
      /\ UNCHANGED <<lock, pc, op, arg, ref, bar, handle, mm, page, node, pte,
                     wedged, quiesced, por_pending, scratch_retained, pin,
                     removed, rpm, islands, task, dma, tm, evt, fault>>
  BY DEF drm_gem_vm_close, thVars, recVars, hwVars
<1>2. MemoryType'
  BY <1>1 DEF MemoryType
<1>3. RefInv'
  BY <1>1 DEF RefInv
<1> QED
  BY <1>1, <1>2, <1>3, Frame

LEMMA Step_mutex_lock ==
  ASSUME IInv, NEW t \in Threads, mutex_lock(t)
  PROVE  IInv'
<1> USE DEF IInv, TypeOK
<1>1. /\ pc[t] = "lock" /\ lock = None
      /\ \/ lock' = None /\ pc' = [pc EXCEPT ![t] = "put"]
         \/ ~removed /\ wedged /\ lock' = t /\ pc' = [pc EXCEPT ![t] = "recover"]
         \/ /\ ~removed /\ ~wedged /\ lock' = t
            /\ pc' = [pc EXCEPT ![t] = "granted"]
      /\ UNCHANGED <<op, arg, ref, bar, handle, vma, mm, page, node, pte,
                     wedged, quiesced, por_pending, scratch_retained, pin,
                     removed, rpm, islands, task, dma, tm, evt, fault>>
  BY DEF mutex_lock, Refused, Unlock, Goto, drvVars, recVars, hwVars
<1>2. /\ \A u \in Threads \ {t} : pc'[u] = pc[u] /\ pc[u] \notin Locked
      /\ pc'[t] \in {"put", "recover", "granted"} /\ pc' \in [Threads -> Pcs]
      /\ lock' \in {t, None} /\ (lock' = t <=> pc'[t] \in Locked)
      /\ pc'[t] \in Locked => ~removed
      /\ pc'[t] = "recover" => wedged
      /\ pc'[t] = "granted" => ~wedged
  BY <1>1 DEF LockInv, Locked, Pcs, ThreadType
<1>3. ThreadType'
  BY <1>1, <1>2 DEF ThreadType
<1>4. LockInv'
  BY <1>2 DEF LockInv
<1>5. PcInv'
  BY <1>1, <1>2 DEF PcInv, Locked
<1>6. rpm = "active"
  BY <1>1 DEF RpmInv, Idle
<1>7. TaskInv' /\ RpmInv' /\ NothingForgotten'
  BY <1>1, <1>2, <1>6 DEF TaskInv, RpmInv, NothingForgotten, ScratchPages
<1>8. BarInv'
  BY <1>1, <1>2 DEF BarInv
<1> QED
  BY <1>1, <1>3, <1>4, <1>5, <1>7, <1>8, Frame

LEMMA Step_recover_refuse ==
  ASSUME IInv, NEW t \in Threads, recover_refuse(t)
  PROVE  IInv'
<1> USE DEF IInv, TypeOK
<1>1. /\ pc[t] \in Locked /\ "put" \in Pcs /\ pc' = [pc EXCEPT ![t] = "put"]
      /\ lock' = None
      /\ pc[t] = "recover" /\ wedged
      /\ UNCHANGED <<op, arg, ref, bar, handle, vma, mm, page, node, pte,
                     wedged, quiesced, por_pending, scratch_retained, pin,
                     removed, rpm, islands, task, dma, tm, evt, fault>>
  BY DEF recover_refuse, RecoverRefuse, Refused, Unlock, Goto, Locked, Pcs,
            PcInv, drvVars, recVars, hwVars
<1>2. /\ lock' \in Threads \cup {None} /\ pc' \in [Threads -> Pcs]
      /\ LockInv' /\ PcInv' /\ BarInv' /\ RpmInv'
      /\ rpm = "active" /\ ~removed
      /\ (\E u \in Threads : pc[u] = "poll") <=> pc[t] = "poll"
      /\ (\E u \in Threads : pc'[u] = "poll") <=> "put" = "poll"
  BY <1>1, MoveStep DEF Locked
<1>3. ThreadType'
  BY <1>1, <1>2 DEF ThreadType
<1>4. TaskInv' /\ NothingForgotten'
  BY <1>1, <1>2 DEF TaskInv, NothingForgotten, ScratchPages
<1> QED
  BY <1>1, <1>2, <1>3, <1>4, Frame

LEMMA Step_recover_por ==
  ASSUME IInv, NEW t \in Threads, recover_por(t)
  PROVE  IInv'
<1> USE DEF IInv, TypeOK
<1>1. /\ pc[t] = "recover" /\ wedged /\ quiesced /\ ~scratch_retained
      /\ pc[t] \in Locked /\ "check" \in Locked /\ "put" \notin Locked
      /\ "check" \in Pcs /\ "put" \in Pcs
      /\ por_pending' = FALSE
      /\ UNCHANGED <<op, arg, ref, bar, handle, vma, mm, page, node, pte,
                     wedged, quiesced, scratch_retained, pin, removed, rpm,
                     islands, task, dma, tm, evt, fault>>
  BY DEF recover_por, PcInv, QuiescedIsQuiet, Refused, Unlock, Goto, Locked, Pcs,
         drvVars, hwVars
<1>2. PICK l \in {"check", "put"} :
         /\ pc' = [pc EXCEPT ![t] = l] /\ lock' = IF l = "check" THEN t ELSE None
         /\ l = "check" => islands
  BY <1>1 DEF recover_por, Refused, Unlock, Goto, LockInv
<1>3. /\ lock' \in Threads \cup {None} /\ pc' \in [Threads -> Pcs]
      /\ LockInv' /\ PcInv' /\ BarInv' /\ RpmInv'
      /\ rpm = "active" /\ ~removed
      /\ (\E u \in Threads : pc[u] = "poll") <=> pc[t] = "poll"
      /\ (\E u \in Threads : pc'[u] = "poll") <=> l = "poll"
  BY <1>1, <1>2, MoveStep
<1>4. ThreadType' /\ FlagType'
  BY <1>1, <1>3 DEF ThreadType, FlagType
<1>5. TaskInv' /\ NothingForgotten' /\ QuiescedIsQuiet'
  BY <1>1, <1>3 DEF TaskInv, NothingForgotten, ScratchPages, QuiescedIsQuiet
<1> QED
  BY <1>1, <1>3, <1>4, <1>5, Frame

LEMMA Step_recover_cycle ==
  ASSUME IInv, NEW t \in Threads, recover_cycle(t)
  PROVE  IInv'
<1> USE DEF IInv, TypeOK
<1>1. /\ pc[t] = "recover" /\ wedged /\ ~scratch_retained /\ ~por_pending
      /\ pc[t] \in Locked /\ "check" \in Locked /\ "put" \notin Locked
      /\ "check" \in Pcs /\ "put" \in Pcs
      /\ quiesced' = TRUE /\ task' = {} /\ dma' = {}
      /\ tm' \in {"idle", "latched"} /\ evt' \in {evt, {}} /\ islands' \in BOOLEAN
      /\ UNCHANGED <<op, arg, ref, bar, handle, vma, mm, page, node, pte,
                     wedged, por_pending, scratch_retained, pin, removed, rpm,
                     fault>>
  BY DEF recover_cycle, Cycle, PcInv, Locked, Pcs, drvVars
<1>2. PICK l \in {"check", "put"} :
         /\ pc' = [pc EXCEPT ![t] = l] /\ lock' = IF l = "check" THEN t ELSE None
         /\ l = "check" => islands'
  BY <1>1 DEF recover_cycle, Cycle, Refused, Unlock, Goto, LockInv
<1>3. /\ lock' \in Threads \cup {None} /\ pc' \in [Threads -> Pcs]
      /\ LockInv' /\ PcInv' /\ BarInv' /\ RpmInv'
      /\ rpm = "active" /\ ~removed
      /\ (\E u \in Threads : pc[u] = "poll") <=> pc[t] = "poll"
      /\ (\E u \in Threads : pc'[u] = "poll") <=> l = "poll"
  BY <1>1, <1>2, MoveStep
<1>4. ThreadType' /\ FlagType' /\ EngineType'
  BY <1>1, <1>3 DEF ThreadType, FlagType, EngineType
<1>5. TaskInv' /\ NothingForgotten' /\ QuiescedIsQuiet' /\ DmaSafe'
  BY <1>1, <1>3 DEF TaskInv, NothingForgotten, ScratchPages, QuiescedIsQuiet, DmaSafe
<1> QED
  BY <1>1, <1>3, <1>4, <1>5, Frame

LEMMA Step_recover_cycle_fails ==
  ASSUME IInv, NEW t \in Threads, recover_cycle_fails(t)
  PROVE  IInv'
<1> USE DEF IInv, TypeOK
<1>1. /\ pc[t] = "recover" /\ wedged /\ ~quiesced /\ ~por_pending
      /\ pc[t] \in Locked /\ "put" \notin Locked /\ "put" \in Pcs
      /\ pc' = [pc EXCEPT ![t] = "put"] /\ lock' = None
      /\ islands' \in BOOLEAN
      /\ task' \in {task, {}} /\ dma' \in {dma, {}} /\ (task' = {} => dma' = {})
      /\ UNCHANGED <<op, arg, ref, bar, handle, vma, mm, page, node, pte,
                     wedged, quiesced, por_pending, scratch_retained, pin,
                     removed, rpm, tm, evt, fault>>
  BY DEF recover_cycle_fails, Refused, Unlock, Goto, Locked, Pcs, PcInv, TaskInv,
         drvVars, recVars, EngineType
<1>2. /\ lock' \in Threads \cup {None} /\ pc' \in [Threads -> Pcs]
      /\ LockInv' /\ PcInv' /\ BarInv' /\ RpmInv'
      /\ rpm = "active" /\ ~removed
      /\ (\E u \in Threads : pc[u] = "poll") <=> pc[t] = "poll"
      /\ (\E u \in Threads : pc'[u] = "poll") <=> "put" = "poll"
  BY <1>1, MoveStep
<1>3. ThreadType' /\ EngineType'
  BY <1>1, <1>2 DEF ThreadType, EngineType
<1>4. TaskInv' /\ NothingForgotten' /\ QuiescedIsQuiet' /\ DmaSafe'
  BY <1>1, <1>2 DEF TaskInv, NothingForgotten, ScratchPages, QuiescedIsQuiet, DmaSafe
<1> QED
  BY <1>1, <1>2, <1>3, <1>4, Frame

LEMMA Step_recover_idle ==
  ASSUME IInv, NEW t \in Threads, recover_idle(t)
  PROVE  IInv'
<1> USE DEF IInv, TypeOK
<1>1. /\ pc[t] = "check" /\ wedged /\ quiesced /\ ~por_pending /\ ~scratch_retained
      /\ islands /\ task = {} /\ dma = {} /\ pin = 1
      /\ pc[t] \in Locked /\ "granted" \in Locked /\ "put" \notin Locked
      /\ "granted" \in Pcs /\ "put" \in Pcs
      /\ quiesced' = FALSE /\ wedged' = FALSE /\ pin' = 0
      /\ UNCHANGED <<op, arg, ref, bar, handle, vma, mm, por_pending,
                     scratch_retained, removed, rpm, islands, task, dma, tm,
                     evt, fault>>
  BY SMTT(30) DEF recover_idle, ClearWedge, PcInv, QuiescedIsQuiet, PinIsWedge, Locked, Pcs,
         hwVars
<1>2. /\ node' = [i \in Iovas |-> IF node[i] \in Preserved THEN Free ELSE node[i]]
      /\ pte' = [i \in Iovas |-> IF node[i] \in Preserved THEN Free ELSE pte[i]]
      /\ page' = [b \in Bos |-> IF b \in Preserved THEN "none" ELSE page[b]]
  BY DEF recover_idle, ClearWedge, ane_reclaim_preserved
<1>3. PICK l \in {"granted", "put"} :
         pc' = [pc EXCEPT ![t] = l] /\ lock' = IF l = "granted" THEN t ELSE None
  BY <1>1 DEF recover_idle, ClearWedge, Recovered, Unlock, Goto, LockInv
<1>4. /\ lock' \in Threads \cup {None} /\ pc' \in [Threads -> Pcs]
      /\ LockInv' /\ PcInv' /\ BarInv' /\ RpmInv'
      /\ rpm = "active" /\ ~removed
      /\ (\E u \in Threads : pc[u] = "poll") <=> pc[t] = "poll"
      /\ (\E u \in Threads : pc'[u] = "poll") <=> l = "poll"
  BY <1>1, <1>3, MoveStep
<1>5. /\ node' \in [Iovas -> Owners] /\ pte' \in [Iovas -> Owners]
      /\ page' \in [Bos -> {"none", "held", "preserved", "leaked"}]
  BY <1>2 DEF MemoryType, Owners
<1>6. ThreadType' /\ MemoryType' /\ FlagType'
  <2>1. ThreadType'
    BY <1>1, <1>4 DEF ThreadType
  <2>2. MemoryType'
    BY <1>1, <1>5 DEF MemoryType
  <2>3. pin' \in Int /\ wedged' \in BOOLEAN /\ quiesced' \in BOOLEAN
    <3>1. pin' \in Int
      BY <1>1, SMTT(30)
    <3>2. wedged' \in BOOLEAN /\ quiesced' \in BOOLEAN
      BY <1>1, Zenon
    <3> QED
      BY <3>1, <3>2
  <2>4. FlagType'
    BY <1>1, <2>3 DEF FlagType
  <2> QED
    BY <2>1, <2>2, <2>4
<1>7. /\ \A b \in Bos : page[b] = "held" => page'[b] = "held"
      /\ \A b \in Bos : page[b] = "leaked" => page'[b] = "leaked"
      /\ \A b \in Bos : page'[b] # "preserved"
  BY <1>2 DEF Preserved
<1>8. RefInv'
  <2>1. /\ \A u \in Threads : ref[u] \subseteq Bos
        /\ \A h \in Handles : handle[h] # None => handle[h] \in Bos
        /\ vma \subseteq Bos
    BY DEF ThreadType, MemoryType
  <2> QED
    BY <1>1, <1>7, <2>1 DEF RefInv
<1>9. RangesOwned'
  <2>1. pte' = node'
    BY <1>2 DEF RangesOwned
  <2>2. \A i \in Iovas : node'[i] \in Bos => node'[i] = node[i] /\ node[i] \notin Preserved
    BY <1>2
  <2>3. \A b \in Bos : mm[b] # 0 => node'[mm[b]] = b
    BY <1>2, RangeFacts DEF RangesOwned, Preserved
  <2> QED
    BY <1>1, <1>7, <2>1, <2>2, <2>3, SMTT(30) DEF RangesOwned, Preserved
<1>10. \A i \in Iovas : node'[i] = Scratch => node[i] = Scratch
  BY <1>2
<1>11. NothingForgotten'
  BY <1>1, <1>4, <1>7, <1>10 DEF NothingForgotten, ScratchPages
<1>12. TaskInv' /\ RetainInv' /\ DmaSafe' /\ PinIsWedge' /\ QuiescedIsQuiet'
  BY <1>1 DEF TaskInv, RetainInv, DmaSafe, PinIsWedge, QuiescedIsQuiet
<1> QED
  BY <1>1, <1>4, <1>6, <1>8, <1>9, <1>11, <1>12, Frame

LEMMA Step_recover_not_idle ==
  ASSUME IInv, NEW t \in Threads, recover_not_idle(t)
  PROVE  IInv'
<1> USE DEF IInv, TypeOK
<1>1. /\ pc[t] \in Locked /\ "put" \in Pcs /\ pc' = [pc EXCEPT ![t] = "put"]
      /\ lock' = None
      /\ pc[t] = "check" /\ wedged
      /\ UNCHANGED <<op, arg, ref, bar, handle, vma, mm, page, node, pte,
                     wedged, quiesced, por_pending, scratch_retained, pin,
                     removed, rpm, islands, task, dma, tm, evt, fault>>
  BY DEF recover_not_idle, Refused, Unlock, Goto, Locked, Pcs, PcInv,
            drvVars, recVars, hwVars
<1>2. /\ lock' \in Threads \cup {None} /\ pc' \in [Threads -> Pcs]
      /\ LockInv' /\ PcInv' /\ BarInv' /\ RpmInv'
      /\ rpm = "active" /\ ~removed
      /\ (\E u \in Threads : pc[u] = "poll") <=> pc[t] = "poll"
      /\ (\E u \in Threads : pc'[u] = "poll") <=> "put" = "poll"
  BY <1>1, MoveStep DEF Locked
<1>3. ThreadType'
  BY <1>1, <1>2 DEF ThreadType
<1>4. TaskInv' /\ NothingForgotten'
  BY <1>1, <1>2 DEF TaskInv, NothingForgotten, ScratchPages
<1> QED
  BY <1>1, <1>2, <1>3, <1>4, Frame

LEMMA Step_bo_init_map ==
  ASSUME IInv, NEW t \in Threads, NEW b \in ref[t], NEW i \in Iovas, bo_init_map(t, b, i)
  PROVE  IInv'
<1> USE DEF IInv, TypeOK
<1>1. /\ pc[t] = "granted" /\ ~wedged /\ b \in Bos /\ mm[b] = 0 /\ node[i] = Free
      /\ page[b] = "held"
      /\ pc[t] \in Locked /\ "put" \notin Locked /\ "put" \in Pcs
      /\ pc' = [pc EXCEPT ![t] = "put"] /\ lock' = None
      /\ mm' = [mm EXCEPT ![b] = i]
      /\ node' = [node EXCEPT ![i] = b] /\ pte' = [pte EXCEPT ![i] = b]
      /\ UNCHANGED <<op, arg, ref, bar, vma, page, wedged, quiesced,
                     por_pending, scratch_retained, pin, removed, rpm, islands,
                     task, dma, tm, evt, fault>>
  BY DEF bo_init_map, Unlock, Goto, Locked, Pcs, PcInv, RefInv, ThreadType, recVars,
         hwVars
<1>2. handle' = handle \/ \E h \in Handles : handle' = [handle EXCEPT ![h] = b]
  BY DEF bo_init_map
<1>3. /\ mm' \in [Bos -> 0 .. NIova] /\ mm'[b] = i
      /\ \A c \in Bos \ {b} : mm'[c] = mm[c]
      /\ node' \in [Iovas -> Owners] /\ pte' \in [Iovas -> Owners] /\ node'[i] = b
      /\ \A j \in Iovas \ {i} : node'[j] = node[j]
  <2>1. /\ mm' \in [Bos -> 0 .. NIova] /\ mm'[b] = i
        /\ \A c \in Bos \ {b} : mm'[c] = mm[c]
    <3>1. mm \in [Bos -> 0 .. NIova] /\ i \in 0 .. NIova
      BY SMTT(30) DEF MemoryType
    <3>2. b \in Bos /\ mm' = [mm EXCEPT ![b] = i]
      BY <1>1
    <3> HIDE DEF IInv, TypeOK
    <3> QED
      BY <3>1, <3>2
  <2>2. /\ node' \in [Iovas -> Owners] /\ pte' \in [Iovas -> Owners] /\ node'[i] = b
        /\ \A j \in Iovas \ {i} : node'[j] = node[j]
    BY <1>1 DEF MemoryType, Owners
  <2> QED
    BY <2>1, <2>2
<1>4. /\ lock' \in Threads \cup {None} /\ pc' \in [Threads -> Pcs]
      /\ LockInv' /\ PcInv' /\ BarInv' /\ RpmInv'
      /\ rpm = "active" /\ ~removed
      /\ (\E u \in Threads : pc[u] = "poll") <=> pc[t] = "poll"
      /\ (\E u \in Threads : pc'[u] = "poll") <=> "put" = "poll"
  <2>1. islands
    BY <1>1 DEF RpmInv, Idle
  <2> QED
    BY <1>1, <1>3, <2>1, MoveStep
<1>5. /\ handle' \in [Handles -> Bos \cup {None}]
      /\ \A h \in Handles : handle'[h] \in {b, handle[h]}
  BY <1>1, <1>2 DEF MemoryType
<1>6. ThreadType' /\ MemoryType'
  BY <1>1, <1>3, <1>4, <1>5 DEF ThreadType, MemoryType
<1>7. RefInv'
  BY <1>1, <1>5 DEF RefInv, MemoryType
<1>8. RangesOwned'
  <2>1. pte' = node'
    BY <1>1 DEF RangesOwned
  <2>2. \A c \in Bos : mm'[c] # 0 => node'[mm'[c]] = c /\ page[c] = "held"
    <3> SUFFICES ASSUME NEW c \in Bos, mm'[c] # 0
                 PROVE  node'[mm'[c]] = c /\ page[c] = "held"
      OBVIOUS
    <3>1. CASE c = b
      BY <1>1, <1>3, <3>1
    <3>2. CASE c # b
      <4>1. mm'[c] = mm[c] /\ node[mm[c]] = c /\ page[c] = "held" /\ mm[c] \in Iovas
        BY <1>3, <3>2, RangeFacts DEF RangesOwned
      <4>2. mm[c] # i
        BY <1>1, <4>1
      <4> QED
        BY <1>3, <4>1, <4>2
    <3> QED
      BY <3>1, <3>2
  <2>3. \A j \in Iovas : node'[j] \in Bos =>
          mm'[node'[j]] = j \/ page[node'[j]] \in {"preserved", "leaked"}
    <3> SUFFICES ASSUME NEW j \in Iovas, node'[j] \in Bos
                 PROVE  mm'[node'[j]] = j \/ page[node'[j]] \in {"preserved", "leaked"}
      OBVIOUS
    <3>1. CASE j = i
      BY <1>3, <3>1
    <3>2. CASE j # i
      <4>1. node'[j] = node[j]
        BY <1>3, <3>2
      <4>2. node[j] # b \/ mm[b] = j
        BY <1>1, RangeFacts
      <4>3. node[j] # b
        BY <1>1, <4>2, SMTT(30)
      <4>4. mm[node[j]] = j \/ page[node[j]] \in {"preserved", "leaked"}
        BY <4>1 DEF RangesOwned
      <4>5. mm'[node[j]] = mm[node[j]]
        BY <1>3, <4>1, <4>3
      <4> QED
        BY <4>1, <4>4, <4>5
    <3> QED
      BY <3>1, <3>2
  <2> QED
    BY <1>1, <2>1, <2>2, <2>3 DEF RangesOwned
<1>9. dma = {}
  BY <1>1, <1>4 DEF TaskInv
<1>10. TaskInv' /\ DmaSafe'
  BY <1>1, <1>4, <1>9 DEF TaskInv, DmaSafe
<1>11. NothingForgotten'
  <2>1. \A j \in Iovas : node'[j] = Scratch => node[j] = Scratch
    BY <1>1, <1>3
  <2> QED
    BY <1>1, <1>4, <2>1 DEF NothingForgotten, ScratchPages
<1> QED
  BY <1>1, <1>4, <1>6, <1>7, <1>8, <1>10, <1>11, Frame

LEMMA Step_bo_init_map_fails ==
  ASSUME IInv, NEW t \in Threads, bo_init_map_fails(t)
  PROVE  IInv'
<1> USE DEF IInv, TypeOK
<1>1. /\ pc[t] \in Locked /\ "put" \in Pcs /\ pc' = [pc EXCEPT ![t] = "put"]
      /\ lock' = None
      /\ pc[t] = "granted" /\ ~wedged
      /\ UNCHANGED <<op, arg, ref, bar, handle, vma, mm, page, node, pte,
                     wedged, quiesced, por_pending, scratch_retained, pin,
                     removed, rpm, islands, task, dma, tm, evt, fault>>
  BY DEF bo_init_map_fails, Unlock, Goto, Locked, Pcs, PcInv, drvVars, recVars, hwVars
<1>2. /\ lock' \in Threads \cup {None} /\ pc' \in [Threads -> Pcs]
      /\ LockInv' /\ PcInv' /\ BarInv' /\ RpmInv'
      /\ rpm = "active" /\ ~removed
      /\ (\E u \in Threads : pc[u] = "poll") <=> pc[t] = "poll"
      /\ (\E u \in Threads : pc'[u] = "poll") <=> "put" = "poll"
  BY <1>1, MoveStep DEF Locked, IInv, RpmInv, Idle
<1>3. ThreadType'
  BY <1>1, <1>2 DEF ThreadType
<1>4. TaskInv' /\ NothingForgotten'
  BY <1>1, <1>2 DEF TaskInv, NothingForgotten, ScratchPages
<1> QED
  BY <1>1, <1>2, <1>3, <1>4, Frame

LEMMA Step_bo_free_lookup ==
  ASSUME IInv, NEW t \in Threads, bo_free_lookup(t)
  PROVE  IInv'
<1> USE DEF IInv, TypeOK
<1>1. /\ pc[t] = "granted" /\ op[t] = "free" /\ ~wedged /\ arg[t] \in Handles
      /\ pc[t] \in Locked /\ "put" \notin Locked /\ "put" \in Pcs
      /\ pc' = [pc EXCEPT ![t] = "put"] /\ lock' = None
      /\ ref' = [ref EXCEPT ![t] = {handle[arg[t]]} \ {None}]
      /\ UNCHANGED <<op, arg, bar, handle, vma, mm, page, node, pte, wedged,
                     quiesced, por_pending, scratch_retained, pin, removed,
                     rpm, islands, task, dma, tm, evt, fault>>
  BY DEF bo_free_lookup, FreeLookup, Unlock, Goto, Locked, Pcs, PcInv, drvVars,
         recVars, hwVars
<1>2. /\ ref' \in [Threads -> SUBSET Bos]
      /\ \A u \in Threads \ {t} : ref'[u] = ref[u]
      /\ \A b \in ref'[t] : page[b] = "held"
  BY <1>1 DEF RefInv, ThreadType, MemoryType
<1>3. /\ lock' \in Threads \cup {None} /\ pc' \in [Threads -> Pcs]
      /\ LockInv' /\ PcInv' /\ BarInv' /\ RpmInv'
      /\ rpm = "active" /\ ~removed
      /\ (\E u \in Threads : pc[u] = "poll") <=> pc[t] = "poll"
      /\ (\E u \in Threads : pc'[u] = "poll") <=> "put" = "poll"
  <2>1. islands
    BY <1>1 DEF RpmInv, Idle
  <2> QED
    BY <1>1, <1>2, <2>1, MoveStep
<1>4. ThreadType'
  BY <1>1, <1>2, <1>3 DEF ThreadType
<1>5. RefInv'
  BY <1>1, <1>2 DEF RefInv
<1>6. TaskInv' /\ NothingForgotten'
  BY <1>1, <1>3 DEF TaskInv, NothingForgotten, ScratchPages
<1> QED
  BY <1>1, <1>3, <1>4, <1>5, <1>6, Frame

LEMMA Step_put ==
  ASSUME IInv, NEW t \in Threads, put(t)
  PROVE  IInv'
<1> USE DEF IInv, TypeOK
<1>1. /\ pc[t] \in {"put", "ok"} /\ "idle" \in Pcs /\ "none" \in Ops
      /\ pc' = [pc EXCEPT ![t] = "idle"] /\ op' = [op EXCEPT ![t] = "none"]
      /\ arg' = [arg EXCEPT ![t] = None] /\ ref' = [ref EXCEPT ![t] = {}]
      /\ bar' = [bar EXCEPT ![t] = NoBar] /\ NoBar \in [Bos -> 0 .. NIova]
      /\ UNCHANGED <<lock, vma, mm, page, node, pte, wedged, quiesced,
                     por_pending, scratch_retained, pin, removed, rpm, islands,
                     task, dma, tm, evt, fault>>
  BY SMTT(30) DEF put, Goto, Pcs, Ops, NoBar, recVars, hwVars
<1>2. /\ handle' \in [Handles -> Bos \cup {None}]
      /\ \A h \in Handles : handle'[h] \in {handle[h], None}
  BY DEF put, MemoryType
<1>3. /\ \A u \in Threads \ {t} : /\ pc'[u] = pc[u] /\ op'[u] = op[u] /\ arg'[u] = arg[u]
                                  /\ ref'[u] = ref[u] /\ bar'[u] = bar[u]
      /\ pc'[t] = "idle" /\ op'[t] = "none" /\ ref'[t] = {}
      /\ pc' \in [Threads -> Pcs] /\ op' \in [Threads -> Ops]
      /\ arg' \in [Threads -> Handles \cup {None}]
      /\ ref' \in [Threads -> SUBSET Bos] /\ bar' \in [Threads -> [Bos -> 0 .. NIova]]
  BY <1>1 DEF ThreadType
<1>4. ThreadType' /\ MemoryType'
  BY <1>1, <1>2, <1>3 DEF ThreadType, MemoryType
<1>5. LockInv' /\ PcInv'
  BY <1>1, <1>3, SMTT(30) DEF LockInv, PcInv, Locked
<1>6. TaskInv' /\ NothingForgotten'
  BY <1>1, <1>3, SMTT(30) DEF TaskInv, NothingForgotten, ScratchPages
<1>7. RefInv'
  BY <1>1, <1>2, <1>3, SMTT(30) DEF RefInv
<1>8. BarInv'
  BY <1>1, <1>3, SMTT(30) DEF BarInv
<1>9. RpmInv'
  BY <1>1 DEF RpmInv, Idle
<1> QED
  BY <1>1, <1>4, <1>5, <1>6, <1>7, <1>8, <1>9, Frame

LEMMA Step_ane_gem_free_object ==
  ASSUME IInv, NEW b \in Bos, ane_gem_free_object(b)
  PROVE  IInv'
<1> USE DEF IInv, TypeOK
<1> USE DEF ane_gem_free_object, Destroy, ane_preserve_bo, ane_iommu_unmap_pages
<1>1. /\ Doomed(b) /\ lock = None
      /\ UNCHANGED <<thVars, handle, vma, recVars, removed, rpm, hwVars>>
  OBVIOUS
<1>2. /\ mm' = [mm EXCEPT ![b] = 0]
      /\ mm' \in [Bos -> 0 .. NIova] /\ mm'[b] = 0
      /\ \A c \in Bos \ {b} : mm'[c] = mm[c]
  BY SMTT(30) DEF MemoryType
<1>3. /\ page' \in [Bos -> {"none", "held", "preserved", "leaked"}]
      /\ \A c \in Bos \ {b} : page'[c] = page[c]
      /\ page'[b] # "preserved" \/ wedged
  <2>1. PICK s \in {"none", "preserved", "leaked"} :
           page' = [page EXCEPT ![b] = s] /\ (s = "preserved" => wedged)
    OBVIOUS
  <2> HIDE DEF ane_gem_free_object
  <2> QED
    BY <2>1 DEF MemoryType
<1>4. /\ node' \in [Iovas -> Owners] /\ pte' \in [Iovas -> Owners]
      /\ RangesOwned' /\ DmaSafe'
      /\ \A i \in Iovas : node'[i] = Scratch => node[i] = Scratch
  <2>1. CASE mm[b] # 0 /\ wedged
    <3>1. page'[b] \in {"preserved", "leaked"} /\ node' = node /\ pte' = pte
      BY <2>1 DEF MemoryType
    <3> HIDE DEF ane_gem_free_object
    <3>2. RangesOwned'
      BY <1>2, <1>3, <3>1, RangeFacts, SMTT(30) DEF RangesOwned
    <3>3. DmaSafe'
      BY <1>1, <1>3, <3>1 DEF DmaSafe, hwVars, MemoryType, EngineType
    <3> QED
      BY <3>1, <3>2, <3>3 DEF MemoryType
  <2>2. CASE mm[b] # 0 /\ ~wedged
    <3>1. /\ node' = [node EXCEPT ![mm[b]] = Free]
          /\ pte' = [pte EXCEPT ![mm[b]] = Free]
      BY <2>2
    <3> HIDE DEF ane_gem_free_object
    <3>2. mm[b] \in Iovas /\ page[b] = "held"
      BY <1>1, <2>2, RangeFacts DEF Doomed
    <3>3. /\ node' \in [Iovas -> Owners] /\ pte' \in [Iovas -> Owners]
          /\ node'[mm[b]] = Free /\ \A i \in Iovas \ {mm[b]} : node'[i] = node[i]
      BY <3>1, <3>2 DEF MemoryType, Owners
    <3>4. pte' = node'
      BY <3>1 DEF RangesOwned
    <3>5. \A i \in Iovas : node'[i] \in Bos => node[i] = node'[i] /\ node[i] # b
      BY <3>2, <3>3, RangeFacts, SMTT(30)
    <3>6. \A c \in Bos : mm'[c] # 0 => c # b /\ mm'[c] \in Iovas \ {mm[b]}
      BY <1>2, <2>2, RangeFacts
    <3>7. RangesOwned'
      <4>1. \A i \in Iovas : node'[i] \in Bos =>
              mm'[node'[i]] = i \/ page'[node'[i]] \in {"preserved", "leaked"}
        BY <1>2, <1>3, <3>5, SMTT(30) DEF RangesOwned
      <4>2. \A c \in Bos : mm'[c] # 0 => node'[mm'[c]] = c /\ page'[c] = "held"
        BY <1>2, <1>3, <3>3, <3>6, SMTT(30) DEF RangesOwned
      <4> QED
        BY <3>4, <4>1, <4>2 DEF RangesOwned
    <3>8. dma' = {}
      BY <1>1, <2>2 DEF TaskInv, LockInv, Locked, hwVars, ThreadType
    <3> QED
      BY <3>3, <3>7, <3>8 DEF DmaSafe
  <2>3. CASE mm[b] = 0
    <3>1. node' = node /\ pte' = pte
      BY <2>3
    <3> HIDE DEF ane_gem_free_object
    <3>2. \A i \in Iovas : node[i] # b
      BY <1>1, <2>3, RangeFacts, SMTT(30) DEF Doomed
    <3>3. RangesOwned'
      BY <1>2, <1>3, <3>1, <3>2, SMTT(30) DEF RangesOwned, MemoryType
    <3>4. DmaSafe'
      BY <1>1, <1>3, <3>1, <3>2, SMTT(30) DEF DmaSafe, RangesOwned, hwVars, MemoryType, EngineType
    <3> QED
      BY <3>1, <3>3, <3>4 DEF MemoryType
  <2> QED
    BY <2>1, <2>2, <2>3
<1> HIDE DEF ane_gem_free_object
<1>5. ThreadType' /\ MemoryType' /\ FlagType' /\ EngineType'
  BY <1>1, <1>2, <1>3, <1>4, Frame DEF MemoryType, thVars, recVars, hwVars
<1>6. RefInv'
  BY <1>1, <1>3, SMTT(30) DEF RefInv, Doomed, Referenced, thVars, ThreadType, MemoryType
<1>7. BarInv'
  BY <1>1, <1>2, SMTT(30) DEF BarInv, Doomed, Referenced, thVars, ThreadType
<1>8. LockInv' /\ PcInv' /\ TaskInv'
  BY <1>1 DEF LockInv, PcInv, TaskInv, thVars, recVars, hwVars
<1>9. RpmInv' /\ RetainInv' /\ PinIsWedge' /\ QuiescedIsQuiet'
  BY <1>1 DEF RpmInv, Idle, RetainInv, PinIsWedge, QuiescedIsQuiet, thVars,
              recVars, hwVars
<1>10. NothingForgotten'
  BY <1>1, <1>3, <1>4 DEF NothingForgotten, ScratchPages, thVars, recVars
<1> QED
  BY <1>4, <1>5, <1>6, <1>7, <1>8, <1>9, <1>10

LEMMA Step_tm_push ==
  ASSUME IInv, NEW t \in Threads, NEW wild \in SUBSET (0 .. NIova), tm_push(t, wild)
  PROVE  IInv'
<1> USE DEF IInv, TypeOK
<1>1. /\ pc[t] = "granted" /\ op[t] = "submit" /\ ~wedged
      /\ pc[t] \in Locked /\ "poll" \in Locked /\ "poll" \in Pcs
      /\ pc' = [pc EXCEPT ![t] = "poll"] /\ lock' = t
      /\ evt' = {} /\ task' = ({bar[t][b] : b \in Bos} \ {0}) \cup wild
      /\ UNCHANGED <<op, arg, ref, bar, handle, vma, mm, page, node, pte,
                     wedged, quiesced, por_pending, scratch_retained, pin,
                     removed, rpm, islands, dma, tm, fault>>
  BY DEF tm_push, Push, Goto, Locked, Pcs, PcInv, LockInv, drvVars, recVars
<1>2. /\ lock' \in Threads \cup {None} /\ pc' \in [Threads -> Pcs]
      /\ LockInv' /\ PcInv' /\ BarInv' /\ RpmInv'
      /\ rpm = "active" /\ ~removed
      /\ (\E u \in Threads : pc[u] = "poll") <=> pc[t] = "poll"
      /\ (\E u \in Threads : pc'[u] = "poll") <=> "poll" = "poll"
  <2>1. islands
    BY <1>1 DEF RpmInv, Idle
  <2> QED
    BY <1>1, <2>1, MoveStep
<1>3. task' \subseteq 0 .. NIova
  <2>1. \A b \in Bos : bar[t][b] \in 0 .. NIova
    BY SMTT(30) DEF ThreadType
  <2> QED
    BY <1>1, <2>1
<1>4. ThreadType' /\ EngineType'
  BY <1>1, <1>2, <1>3 DEF ThreadType, EngineType
<1>5. dma = {}
  BY <1>1, <1>2 DEF TaskInv
<1>6. TaskInv' /\ NothingForgotten' /\ QuiescedIsQuiet'
  BY <1>1, <1>2, <1>5 DEF TaskInv, NothingForgotten, ScratchPages, QuiescedIsQuiet
<1> QED
  BY <1>1, <1>2, <1>4, <1>6, Frame

(* The three ways into a wedge share this step. *)
LEMMA WedgeStep ==
  ASSUME IInv, NEW t \in Threads, pc[t] \in {"granted", "poll"},
         op[t] = "submit", Wedge(t)
  PROVE  IInv'
<1> USE DEF IInv, TypeOK
<1>0. ~wedged /\ ~removed /\ pin = 0
  BY DEF PcInv, PinIsWedge, Locked
<1>1. /\ wedged' = TRUE /\ pin' = 1
      /\ op' = [op EXCEPT ![t] = "failed"]
      /\ fault' = -1 /\ fault' \in -1 .. NIova /\ evt' \subseteq {"own", "stale"}
      /\ UNCHANGED <<arg, ref, bar, handle, vma, mm, page, node, pte, quiesced,
                     por_pending, removed, rpm, islands, task, dma, tm>>
  BY <1>0, SMTT(30) DEF Wedge, drvVars
<1>2. /\ lock = t
      /\ \A u \in Threads \ {t} : pc[u] \notin Locked
  BY DEF LockInv, Locked
<1>3. /\ \A u \in Threads \ {t} : pc'[u] = pc[u] /\ op'[u] = op[u]
      /\ op'[t] = "failed"
      /\ pc' \in [Threads -> Pcs] /\ op' \in [Threads -> Ops]
      /\ lock' \in {t, None} /\ (lock' = t <=> pc'[t] = "recover")
      /\ pc'[t] \in {"recover", "put"}
  <2>1. CASE ScratchPages = {}
    BY <1>2, <2>1 DEF Wedge, Goto, Pcs, Ops, ThreadType
  <2>2. CASE ScratchPages # {}
    BY <1>2, <2>2 DEF Wedge, Goto, Unlock, Pcs, Ops, ThreadType
  <2> QED
    BY <2>1, <2>2
<1>4. /\ scratch_retained' \in BOOLEAN
      /\ ScratchPages # {} => scratch_retained'
  BY DEF Wedge, FlagType
<1>5. ThreadType' /\ MemoryType' /\ FlagType' /\ EngineType'
  <2>1. ThreadType'
    BY <1>1, <1>3 DEF ThreadType
  <2>2. MemoryType'
    BY <1>1, Frame
  <2>3. FlagType'
    BY <1>1, <1>4, SMTT(30) DEF FlagType
  <2>4. EngineType'
    BY <1>1 DEF EngineType
  <2> QED
    BY <2>1, <2>2, <2>3, <2>4
<1>6. LockInv'
  BY <1>2, <1>3 DEF LockInv, Locked
<1>7. PcInv'
  BY <1>0, <1>1, <1>2, <1>3, SMTT(30) DEF PcInv, Locked
<1>8. TaskInv' /\ RetainInv' /\ PinIsWedge' /\ QuiescedIsQuiet'
  BY <1>1 DEF TaskInv, RetainInv, PinIsWedge, QuiescedIsQuiet
<1>9. RefInv' /\ RangesOwned'
  BY <1>1, Frame
<1>10. DmaSafe'
  BY <1>1, Frame
<1>11. BarInv'
  BY <1>1, <1>3 DEF BarInv
<1>12. RpmInv'
  BY <1>1 DEF RpmInv, Idle
<1>13. NothingForgotten'
  BY <1>0, <1>1, <1>4 DEF NothingForgotten, ScratchPages
<1> QED
  BY <1>5, <1>6, <1>7, <1>8, <1>9, <1>10, <1>11, <1>12, <1>13

LEMMA Step_tm_overflow_before_push ==
  ASSUME IInv, NEW t \in Threads, tm_overflow_before_push(t)
  PROVE  IInv'
  BY WedgeStep DEF tm_overflow_before_push

LEMMA Step_tm_complete ==
  ASSUME IInv, NEW t \in Threads, tm_complete(t)
  PROVE  IInv'
<1> USE DEF IInv, TypeOK
<1>1. /\ pc[t] = "poll" /\ ~wedged /\ task = {} /\ ScratchPages = {}
      /\ pc[t] \in Locked /\ "ok" \notin Locked /\ "ok" \in Pcs
      /\ pc' = [pc EXCEPT ![t] = "ok"] /\ lock' = None /\ evt' = {}
      /\ UNCHANGED <<op, arg, ref, bar, handle, vma, mm, page, node, pte,
                     wedged, quiesced, por_pending, scratch_retained, pin,
                     removed, rpm, islands, task, dma, tm, fault>>
  BY DEF tm_complete, Finished, Unlock, Goto, Locked, Pcs, PcInv, drvVars, recVars
<1>2. /\ lock' \in Threads \cup {None} /\ pc' \in [Threads -> Pcs]
      /\ LockInv' /\ PcInv' /\ BarInv' /\ RpmInv'
      /\ rpm = "active" /\ ~removed
      /\ (\E u \in Threads : pc[u] = "poll") <=> pc[t] = "poll"
      /\ (\E u \in Threads : pc'[u] = "poll") <=> "ok" = "poll"
  <2>1. islands
    BY <1>1 DEF RpmInv, Idle
  <2> QED
    BY <1>1, <2>1, MoveStep
<1>3. ThreadType' /\ EngineType'
  BY <1>1, <1>2 DEF ThreadType, EngineType
<1>4. TaskInv' /\ NothingForgotten'
  BY <1>1, <1>2 DEF TaskInv, NothingForgotten, ScratchPages
<1> QED
  BY <1>1, <1>2, <1>3, <1>4, Frame

LEMMA Step_tm_contained ==
  ASSUME IInv, NEW t \in Threads, tm_contained(t)
  PROVE  IInv'
<1> USE DEF IInv, TypeOK
<1>1. /\ pc[t] = "poll" /\ ~wedged /\ task = {} /\ dma = {}
      /\ pc[t] \in Locked /\ "put" \notin Locked /\ "put" \in Pcs
      /\ pc' = [pc EXCEPT ![t] = "put"] /\ lock' = None /\ evt' = {}
      /\ node' = [i \in Iovas |-> IF i \in ScratchPages THEN Free ELSE node[i]]
      /\ pte' = [i \in Iovas |-> IF i \in ScratchPages THEN Free ELSE pte[i]]
      /\ UNCHANGED <<op, arg, ref, bar, handle, vma, mm, page, wedged,
                     quiesced, por_pending, scratch_retained, pin, removed,
                     rpm, islands, task, dma, tm, fault>>
  BY DEF tm_contained, Contained, Finished, Unlock, Goto, Locked, Pcs, PcInv, TaskInv,
         recVars
<1>2. /\ lock' \in Threads \cup {None} /\ pc' \in [Threads -> Pcs]
      /\ LockInv' /\ PcInv' /\ BarInv' /\ RpmInv'
      /\ rpm = "active" /\ ~removed
      /\ (\E u \in Threads : pc[u] = "poll") <=> pc[t] = "poll"
      /\ (\E u \in Threads : pc'[u] = "poll") <=> "put" = "poll"
  <2>1. islands
    BY <1>1 DEF RpmInv, Idle
  <2> QED
    BY <1>1, <2>1, MoveStep
<1>3. node' \in [Iovas -> Owners] /\ pte' \in [Iovas -> Owners]
  BY <1>1 DEF MemoryType, Owners
<1>4. ThreadType' /\ MemoryType' /\ EngineType'
  BY <1>1, <1>2, <1>3 DEF ThreadType, MemoryType, EngineType
<1>5. RangesOwned'
  <2>1. pte' = node'
    BY <1>1 DEF RangesOwned
  <2>2. \A i \in Iovas : node[i] \in Bos \/ node'[i] \in Bos => node'[i] = node[i]
    BY <1>1 DEF ScratchPages
  <2>3. \A i \in Iovas : node'[i] \in Bos =>
          mm[node'[i]] = i \/ page[node'[i]] \in {"preserved", "leaked"}
    BY <2>2 DEF RangesOwned
  <2>4. \A b \in Bos : mm[b] # 0 => node'[mm[b]] = b /\ page[b] = "held"
    <3> SUFFICES ASSUME NEW b \in Bos, mm[b] # 0
                 PROVE  node'[mm[b]] = b /\ page[b] = "held"
      OBVIOUS
    <3>1. mm[b] \in Iovas /\ node[mm[b]] = b /\ page[b] = "held"
      BY RangeFacts DEF RangesOwned
    <3> QED
      BY <2>2, <3>1
  <2>5. mm' = mm /\ page' = page
    BY <1>1
  <2> HIDE DEF IInv, TypeOK
  <2> QED
    BY <2>1, <2>3, <2>4, <2>5 DEF RangesOwned
<1>6. \A i \in Iovas : node'[i] # Scratch
  BY <1>1 DEF ScratchPages
<1>7. TaskInv' /\ DmaSafe' /\ NothingForgotten'
  BY <1>1, <1>6 DEF TaskInv, DmaSafe, NothingForgotten, ScratchPages
<1> QED
  BY <1>1, <1>2, <1>4, <1>5, <1>7, Frame

LEMMA Step_tm_poll_fails ==
  ASSUME IInv, NEW t \in Threads, tm_poll_fails(t)
  PROVE  IInv'
  BY WedgeStep DEF tm_poll_fails, IInv, PcInv

LEMMA Step_ane_dart_drain_fault ==
  ASSUME IInv, NEW t \in Threads, ane_dart_drain_fault(t)
  PROVE  IInv'
<1> USE DEF IInv, TypeOK
<1>1. /\ pc[t] = "poll" /\ fault \in Iovas /\ node[fault] = Free
      /\ node' = [node EXCEPT ![fault] = Scratch]
      /\ pte' = [pte EXCEPT ![fault] = Scratch]
      /\ dma' \subseteq dma \cup {fault} /\ (fault \notin task => dma' = dma)
      /\ fault' = -1 /\ fault' \in -1 .. NIova
      /\ UNCHANGED <<lock, pc, op, arg, ref, bar, handle, vma, mm, page,
                     wedged, quiesced, por_pending, scratch_retained, pin,
                     removed, rpm, islands, task, tm, evt>>
  BY SMTT(30) DEF ane_dart_drain_fault, Drainable, thVars, recVars
<1>2. /\ node' \in [Iovas -> Owners] /\ pte' \in [Iovas -> Owners]
      /\ node'[fault] = Scratch /\ \A i \in Iovas \ {fault} : node'[i] = node[i]
      /\ pte'[fault] = Scratch /\ \A i \in Iovas \ {fault} : pte'[i] = pte[i]
  BY <1>1 DEF MemoryType, Owners
<1>3. MemoryType' /\ EngineType'
  BY <1>1, <1>2 DEF MemoryType, EngineType
<1>4. RangesOwned'
  <2>1. pte' = node'
    BY <1>1 DEF RangesOwned
  <2>2. \A i \in Iovas : node[i] \in Bos \/ node'[i] \in Bos => node'[i] = node[i]
    BY <1>1, <1>2
  <2>3. \A i \in Iovas : node'[i] \in Bos =>
          mm[node'[i]] = i \/ page[node'[i]] \in {"preserved", "leaked"}
    BY <2>2 DEF RangesOwned
  <2>4. \A b \in Bos : mm[b] # 0 => node'[mm[b]] = b /\ page[b] = "held"
    <3> SUFFICES ASSUME NEW b \in Bos, mm[b] # 0
                 PROVE  node'[mm[b]] = b /\ page[b] = "held"
      OBVIOUS
    <3>1. mm[b] \in Iovas /\ node[mm[b]] = b /\ page[b] = "held"
      BY RangeFacts DEF RangesOwned
    <3> QED
      BY <2>2, <3>1
  <2>5. mm' = mm /\ page' = page
    BY <1>1
  <2> HIDE DEF IInv, TypeOK
  <2> QED
    BY <2>1, <2>3, <2>4, <2>5 DEF RangesOwned
<1>5. DmaSafe'
  BY <1>1, <1>2 DEF DmaSafe, MemoryType, EngineType
<1>6. TaskInv' /\ QuiescedIsQuiet' /\ NothingForgotten'
  BY <1>1 DEF TaskInv, QuiescedIsQuiet, NothingForgotten, PcInv, Locked
<1> QED
  BY <1>1, <1>3, <1>4, <1>5, <1>6, Frame

LEMMA Step_tm_fault_not_drained ==
  ASSUME IInv, NEW t \in Threads, tm_fault_not_drained(t)
  PROVE  IInv'
  BY WedgeStep DEF tm_fault_not_drained, IInv, PcInv

LEMMA Step_hw_start ==
  ASSUME IInv, hw_start
  PROVE  IInv'
<1> USE DEF IInv, TypeOK
<1>1. /\ task # {} /\ tm' = "busy" /\ dma' \subseteq task
      /\ dma' \subseteq {i \in Iovas : pte[i] # Free}
      /\ UNCHANGED <<lock, pc, op, arg, ref, bar, handle, vma, mm, page, node,
                     pte, wedged, quiesced, por_pending, scratch_retained, pin,
                     removed, rpm, islands, task, evt, fault>>
  BY DEF hw_start, Mapped, thVars, drvVars, recVars
<1>2. EngineType'
  BY <1>1 DEF EngineType
<1>3. DmaSafe'
  BY <1>1, RangeFacts DEF DmaSafe
<1>4. TaskInv' /\ QuiescedIsQuiet'
  BY <1>1 DEF TaskInv, QuiescedIsQuiet
<1> QED
  BY <1>1, <1>2, <1>3, <1>4, Frame

LEMMA Step_hw_finish ==
  ASSUME IInv, hw_finish
  PROVE  IInv'
<1> USE DEF IInv, TypeOK
<1>1. /\ tm' = "idle" /\ task' = {} /\ dma' = {}
      /\ evt' \subseteq {"own", "stale"}
      /\ (\E t \in Threads : pc[t] = "poll") => "own" \in evt'
      /\ UNCHANGED <<lock, pc, op, arg, ref, bar, handle, vma, mm, page, node,
                     pte, wedged, quiesced, por_pending, scratch_retained, pin,
                     removed, rpm, islands, fault>>
  BY DEF hw_finish, thVars, drvVars, recVars, EngineType
<1>2. EngineType'
  BY <1>1 DEF EngineType
<1>3. PcInv'
  BY <1>1 DEF PcInv
<1>4. TaskInv' /\ QuiescedIsQuiet' /\ DmaSafe' /\ RpmInv'
  BY <1>1 DEF TaskInv, QuiescedIsQuiet, DmaSafe, RpmInv, Idle
<1> QED
  BY <1>1, <1>2, <1>3, <1>4, Frame

LEMMA Step_hw_fault ==
  ASSUME IInv, NEW i \in 0 .. NIova, hw_fault(i)
  PROVE  IInv'
<1> USE DEF IInv, TypeOK
<1>1. /\ fault' = i /\ fault' \in -1 .. NIova
      /\ UNCHANGED <<lock, pc, op, arg, ref, bar, handle, vma, mm, page, node,
                     pte, wedged, quiesced, por_pending, scratch_retained, pin,
                     removed, rpm, islands, task, dma, tm, evt>>
  BY SMTT(30) DEF hw_fault, thVars, drvVars, recVars
<1>2. EngineType'
  BY <1>1 DEF EngineType
<1> QED
  BY <1>1, <1>2, Frame

LEMMA Step_hw_error ==
  ASSUME IInv, hw_error
  PROVE  IInv'
<1> USE DEF IInv, TypeOK
<1>1. /\ tm' = "latched"
      /\ UNCHANGED <<lock, pc, op, arg, ref, bar, handle, vma, mm, page, node,
                     pte, wedged, quiesced, por_pending, scratch_retained, pin,
                     removed, rpm, islands, task, dma, evt, fault>>
  BY DEF hw_error, thVars, drvVars, recVars
<1>2. EngineType'
  BY <1>1 DEF EngineType
<1> QED
  BY <1>1, <1>2, Frame

LEMMA Step_ane_runtime_suspend ==
  ASSUME IInv, ane_runtime_suspend
  PROVE  IInv'
<1> USE DEF IInv, TypeOK
<1>1. /\ Idle /\ (wedged => quiesced) /\ rpm' = "suspended"
      /\ por_pending' \in BOOLEAN /\ (por_pending' => wedged \/ por_pending)
      /\ UNCHANGED <<lock, pc, op, arg, ref, bar, handle, vma, mm, page, node,
                     pte, wedged, quiesced, scratch_retained, pin, removed,
                     islands, task, dma, tm, evt, fault>>
  BY DEF ane_runtime_suspend, Suspend, thVars, drvVars, hwVars, FlagType
<1>2. FlagType'
  BY <1>1 DEF FlagType
<1>3. PcInv'
  BY <1>1 DEF PcInv, Idle
<1>4. task = {}
  BY <1>1 DEF TaskInv, QuiescedIsQuiet, Idle
<1>5. RpmInv' /\ QuiescedIsQuiet'
  BY <1>1, <1>4 DEF RpmInv, Idle, QuiescedIsQuiet
<1> QED
  BY <1>1, <1>2, <1>3, <1>5, Frame

LEMMA Step_power_off ==
  ASSUME IInv, power_off
  PROVE  IInv'
<1> USE DEF IInv, TypeOK
<1>1. /\ rpm # "active" /\ rpm' = "off" /\ islands' = FALSE
      /\ task' = {} /\ dma' = {} /\ tm' = "idle" /\ evt' = {}
      /\ fault' = -1 /\ fault' \in -1 .. NIova
      /\ UNCHANGED <<lock, pc, op, arg, ref, bar, handle, vma, mm, page, node,
                     pte, wedged, quiesced, por_pending, scratch_retained, pin,
                     removed>>
  BY SMTT(30) DEF power_off, thVars, drvVars, recVars
<1>2. Idle
  BY <1>1 DEF RpmInv
<1>3. FlagType' /\ EngineType'
  BY <1>1 DEF FlagType, EngineType
<1>4. PcInv'
  BY <1>1, <1>2 DEF PcInv, Idle, Locked
<1>5. RpmInv' /\ TaskInv' /\ QuiescedIsQuiet' /\ DmaSafe'
  BY <1>1, <1>2 DEF RpmInv, Idle, TaskInv, QuiescedIsQuiet, DmaSafe
<1> QED
  BY <1>1, <1>3, <1>4, <1>5, Frame

LEMMA Step_ane_platform_remove ==
  ASSUME IInv, ane_platform_remove
  PROVE  IInv'
<1> USE DEF IInv, TypeOK, ane_platform_remove, Remove
<1>1. /\ ~removed /\ removed' /\ removed' \in BOOLEAN /\ lock = None
      /\ UNCHANGED <<thVars, recVars, task, dma, tm, evt, fault, handle, vma>>
  BY DEF drvVars
<1>2. /\ rpm' = "active" /\ islands' \in BOOLEAN
      /\ ~wedged => islands'
  BY DEF pm_runtime_resume_and_get, RpmInv, FlagType, EngineType
<1>3. \A t \in Threads : pc[t] \notin Locked
  BY <1>1 DEF LockInv
<1>4. /\ node' \in [Iovas -> Owners] /\ pte' \in [Iovas -> Owners]
      /\ mm' \in [Bos -> 0 .. NIova]
      /\ page' \in [Bos -> {"none", "held", "preserved", "leaked"}]
      /\ RangesOwned' /\ DmaSafe' /\ RefInv' /\ NothingForgotten'
  <2>1. CASE wedged
    <3>1. UNCHANGED drvVars
      BY <2>1
    <3> HIDE DEF ane_platform_remove
    <3>2. RangesOwned' /\ DmaSafe' /\ RefInv'
      BY <1>1, <3>1 DEF RangesOwned, DmaSafe, RefInv, drvVars, thVars
    <3>3. NothingForgotten'
      BY <1>1, <3>1 DEF NothingForgotten, ScratchPages, drvVars, thVars, recVars
    <3> QED
      BY <3>1, <3>2, <3>3 DEF MemoryType, drvVars
  <2>2. CASE ~wedged
    <3> DEFINE gone == {i \in Iovas : node[i] \in Preserved} \cup {mm[b] : b \in Bos}
    <3>1. /\ node' = [i \in Iovas |-> IF i \in gone THEN Free ELSE node[i]]
          /\ pte' = [i \in Iovas |-> IF i \in gone THEN Free ELSE pte[i]]
          /\ mm' = [b \in Bos |-> 0]
          /\ page' = [b \in Bos |-> IF b \in Preserved THEN "none" ELSE page[b]]
      BY <2>2
    <3> HIDE DEF ane_platform_remove
    <3>2. \A i \in Iovas \ gone : node[i] \in Bos => page[node[i]] = "leaked"
      BY SMTT(30) DEF RangesOwned, Preserved
    <3> HIDE DEF gone
    <3>3. /\ node' \in [Iovas -> Owners] /\ pte' \in [Iovas -> Owners]
          /\ mm' \in [Bos -> 0 .. NIova]
          /\ page' \in [Bos -> {"none", "held", "preserved", "leaked"}]
      BY <3>1, SMTT(30) DEF MemoryType, Owners
    <3>4. /\ \A b \in Bos : page[b] = "leaked" => page'[b] = "leaked"
          /\ \A b \in Bos : page[b] = "held" => page'[b] = "held"
          /\ \A b \in Bos : page'[b] # "preserved"
      BY <3>1 DEF Preserved
    <3>5. RangesOwned'
      <4>1. pte' = node'
        BY <3>1 DEF RangesOwned
      <4> QED
        BY <3>1, <3>2, <3>4, <4>1 DEF RangesOwned
    <3>6. dma' = {}
      BY <1>1, <1>3, <2>2 DEF TaskInv, Locked, ThreadType
    <3>7. RefInv'
      BY <1>1, <3>4, SMTT(30) DEF RefInv, thVars, ThreadType, MemoryType
    <3>8. NothingForgotten'
      <4>1. \A i \in Iovas : node'[i] = Scratch => node[i] = Scratch
        BY <3>1
      <4> QED
        BY <1>1, <3>4, <4>1 DEF NothingForgotten, ScratchPages, thVars, recVars
    <3> HIDE DEF Remove
    <3> QED
      BY <3>3, <3>5, <3>6, <3>7, <3>8 DEF DmaSafe
  <2> QED
    BY <2>1, <2>2
<1> HIDE DEF ane_platform_remove
<1>5. ThreadType' /\ MemoryType' /\ FlagType' /\ EngineType'
  BY <1>1, <1>2, <1>4, Frame DEF MemoryType, FlagType, EngineType, thVars, recVars
<1>6. LockInv' /\ TaskInv' /\ RetainInv' /\ PinIsWedge' /\ QuiescedIsQuiet'
  BY <1>1 DEF LockInv, TaskInv, RetainInv, PinIsWedge, QuiescedIsQuiet, thVars, recVars
<1>7. PcInv'
  BY <1>1, <1>3 DEF PcInv, Locked, thVars, recVars
<1>8. BarInv' /\ RpmInv'
  BY <1>1, <1>2 DEF BarInv, RpmInv, thVars, recVars
<1> QED
  BY <1>4, <1>5, <1>6, <1>7, <1>8

LEMMA NextIInv == IInv /\ [Next]_vars => IInv'
<1> SUFFICES ASSUME IInv, [Next]_vars PROVE IInv'
  OBVIOUS
<1>1. CASE UNCHANGED vars
  BY <1>1, Frame DEF IInv, TypeOK, vars, thVars, drvVars, recVars, hwVars
<1>2. ASSUME NEW t \in Threads, Call(t) PROVE IInv'
  BY <1>2, Step_ane_bo_init, Step_ane_bo_free, Step_ane_submit, Step_reset_store,
     Step_ane_drm_postclose DEF Call
<1>3. ASSUME NEW t \in Threads, ThreadStep(t) PROVE IInv'
  <2>1. CASE \/ mutex_lock(t) \/ recover_refuse(t) \/ recover_por(t)
             \/ recover_cycle(t) \/ recover_cycle_fails(t)
             \/ recover_idle(t) \/ recover_not_idle(t)
    BY <2>1, Step_mutex_lock, Step_recover_refuse, Step_recover_por,
       Step_recover_cycle, Step_recover_cycle_fails, Step_recover_idle,
       Step_recover_not_idle
  <2>2. CASE \/ \E b \in ref[t], i \in Iovas : bo_init_map(t, b, i)
             \/ bo_init_map_fails(t) \/ bo_free_lookup(t) \/ put(t)
    BY <2>2, Step_bo_init_map, Step_bo_init_map_fails, Step_bo_free_lookup, Step_put
  <2>3. CASE \/ \E wild \in SUBSET (0 .. NIova) : tm_push(t, wild)
             \/ tm_overflow_before_push(t) \/ tm_complete(t) \/ tm_contained(t)
             \/ tm_poll_fails(t) \/ ane_dart_drain_fault(t) \/ tm_fault_not_drained(t)
    BY <2>3, Step_tm_push, Step_tm_overflow_before_push, Step_tm_complete,
       Step_tm_contained, Step_tm_poll_fails, Step_ane_dart_drain_fault,
       Step_tm_fault_not_drained
  <2> QED
    BY <1>3, <2>1, <2>2, <2>3 DEF ThreadStep
<1>4. CASE \E h \in Handles : ane_drm_mmap(h)
  BY <1>4, Step_ane_drm_mmap
<1>5. CASE \E b \in Bos : drm_gem_vm_close(b) \/ ane_gem_free_object(b)
  BY <1>5, Step_drm_gem_vm_close, Step_ane_gem_free_object
<1>6. CASE Hardware
  BY <1>6, Step_hw_start, Step_hw_finish, Step_hw_fault, Step_hw_error DEF Hardware
<1>7. CASE ane_runtime_suspend \/ power_off \/ ane_platform_remove
  BY <1>7, Step_ane_runtime_suspend, Step_power_off, Step_ane_platform_remove
<1> QED
  BY <1>1, <1>2, <1>3, <1>4, <1>5, <1>6, <1>7 DEF Next

(* The inductive invariant holds in every reachable state. *)
THEOREM Invariance == Spec => []IInv
  BY InitIInv, NextIInv, PTL DEF Spec

-----------------------------------------------------------------------------
(* The safety properties. *)

(* Type correctness of the whole driver state. *)
THEOREM TypeCorrect == Spec => []TypeOK
<1>1. IInv => TypeOK
  BY DEF IInv
<1> QED
  BY <1>1, Invariance, PTL

(* Whoever closes, frees, recovers or removes in whatever order, nothing   *)
(* the engine may be accessing is unmapped or given back (ane_gem_free_    *)
(* object, ane_reclaim_preserved, ane_platform_remove, scratch release).   *)
THEOREM DmaSafety == Spec => []DmaSafe
<1>1. IInv => DmaSafe
  BY DEF IInv
<1> QED
  BY <1>1, Invariance, PTL

(* Allocator, page table and objects agree about every IOVA. *)
THEOREM RangeOwnership == Spec => []RangesOwned
<1>1. IInv => RangesOwned
  BY DEF IInv
<1> QED
  BY <1>1, Invariance, PTL

(* The wedge's module reference is taken once and dropped once. *)
THEOREM PinBalance == Spec => []PinIsWedge
<1>1. IInv => PinIsWedge
  BY DEF IInv
<1> QED
  BY <1>1, Invariance, PTL

(* The flags that let a wedged device suspend imply that its task is gone. *)
THEOREM Quiescence == Spec => []QuiescedIsQuiet
<1>1. IInv => QuiescedIsQuiet
  BY DEF IInv
<1> QED
  BY <1>1, Invariance, PTL

(* Runtime suspend never takes the power from a running task. *)
THEOREM SuspendSafety == Spec => []SuspendIsQuiet
<1>1. IInv => SuspendIsQuiet
  BY DEF IInv, RpmInv, TaskInv, SuspendIsQuiet
<1> QED
  BY <1>1, Invariance, PTL

(* The three promises of a wedge hold together, as the run states them:    *)
(* the pin of ane_tm_wedge, the verdict of ane_tm_recover and the veto of   *)
(* ane_runtime_suspend.                                                     *)
THEOREM WedgeSoundness == Spec => []WedgeSound
<1>1. PinIsWedge /\ QuiescedIsQuiet /\ SuspendIsQuiet => WedgeSound
  BY DEF WedgeSound
<1> QED
  BY <1>1, PinBalance, Quiescence, SuspendSafety, PTL

(* The addresses read before engine_lock are valid while the task runs: the *)
(* lookup references keep the objects, and a removal stops the call first.  *)
THEOREM BarsValid == Spec => []BarsNotStale
<1>1. IInv => BarsNotStale
  <2> SUFFICES ASSUME IInv, NEW t \in Threads, pc[t] \in {"granted", "poll"},
                      op[t] = "submit", NEW b \in Bos, bar[t][b] # 0
               PROVE  bar[t][b] = mm[b] /\ pte[bar[t][b]] = b
    BY DEF BarsNotStale
  <2>1. pc[t] \in Locked /\ ~removed
    BY DEF IInv, PcInv, Locked
  <2>2. bar[t][b] = mm[b]
    BY <2>1 DEF IInv, BarInv
  <2> QED
    BY <2>2 DEF IInv, RangesOwned
<1> QED
  BY <1>1, Invariance, PTL

(* Registers are polled only with the power up. *)
THEOREM PoweredPolling == Spec => []EnginePowered
<1>1. IInv => EnginePowered
  BY DEF IInv, RpmInv, PcInv, Idle, EnginePowered
<1> QED
  BY <1>1, Invariance, PTL

(* Preserved mappings and scratch pages go with what they were kept for. *)
THEOREM NoForgottenPages == Spec => []NothingForgotten
<1>1. IInv => NothingForgotten
  BY DEF IInv
<1> QED
  BY <1>1, Invariance, PTL

(* A submit that returns success returns it for its own task: the drain at *)
(* the push leaves no older event, and the lock keeps newer ones out.      *)
THEOREM OwnSuccess == Spec => SuccessIsOwn
<1> DEFINE Own == \A t \in Threads :
                    pc[t] = "poll" /\ pc'[t] = "ok" => "own" \in evt /\ task = {}
<1>1. IInv /\ [Next]_vars => [Own]_vars
  <2> SUFFICES ASSUME IInv, Next, NEW t \in Threads, pc[t] = "poll", pc'[t] = "ok"
               PROVE  evt # {}
    BY DEF IInv, PcInv
  <2>1. \A u \in Threads : Call(u) => pc'[t] # "ok"
    BY DEF Call, ane_bo_init, ane_bo_free, ane_submit, Lookup, reset_store,
           ane_drm_postclose, Enter, IInv, TypeOK, ThreadType
  <2>2. \A u \in Threads : ThreadStep(u) => tm_complete(u) \/ pc'[t] # "ok"
    <3> SUFFICES ASSUME NEW u \in Threads, ThreadStep(u), ~tm_complete(u)
                 PROVE  pc'[t] # "ok"
      OBVIOUS
    <3>1. CASE \/ mutex_lock(u) \/ recover_refuse(u) \/ recover_por(u)
               \/ recover_cycle(u) \/ recover_cycle_fails(u)
               \/ recover_idle(u) \/ recover_not_idle(u)
      BY <3>1 DEF mutex_lock, recover_refuse, RecoverRefuse, recover_por,
         recover_cycle, Cycle, recover_cycle_fails, recover_idle, ClearWedge,
         recover_not_idle, Recovered, Refused, Unlock, Goto, IInv, TypeOK, ThreadType
    <3>2. CASE \/ \E b \in ref[u], i \in Iovas : bo_init_map(u, b, i)
               \/ bo_init_map_fails(u) \/ bo_free_lookup(u) \/ put(u)
      BY <3>2 DEF bo_init_map, bo_init_map_fails, bo_free_lookup, FreeLookup, put,
         Unlock, Goto, IInv, TypeOK, ThreadType
    <3>3. CASE \/ \E wild \in SUBSET (0 .. NIova) : tm_push(u, wild)
               \/ tm_overflow_before_push(u) \/ tm_contained(u)
               \/ tm_poll_fails(u) \/ ane_dart_drain_fault(u) \/ tm_fault_not_drained(u)
      BY <3>3 DEF tm_push, Push, tm_overflow_before_push, tm_contained, Contained,
         tm_poll_fails, ane_dart_drain_fault, tm_fault_not_drained, Wedge, Unlock,
         Goto, thVars, IInv, TypeOK, ThreadType
    <3> QED
      BY <3>1, <3>2, <3>3 DEF ThreadStep
  <2>3. \A u \in Threads : tm_complete(u) => evt # {}
    BY DEF tm_complete, Finished
  <2>4. \/ \E h \in Handles : ane_drm_mmap(h)
        \/ \E b \in Bos : drm_gem_vm_close(b) \/ ane_gem_free_object(b)
        \/ Hardware \/ ane_runtime_suspend \/ power_off \/ ane_platform_remove
        => pc' = pc
    BY DEF ane_drm_mmap, drm_gem_vm_close, ane_gem_free_object, Destroy, Hardware,
       hw_start, hw_finish, hw_fault, hw_error, ane_runtime_suspend, Suspend,
       power_off, ane_platform_remove, Remove, thVars
  <2> QED
    BY <2>1, <2>2, <2>3, <2>4 DEF Next
<1> QED
  BY <1>1, Invariance, PTL DEF Spec, SuccessIsOwn

(* A wedge keeps every translation: the only steps that change the page    *)
(* table start from an engine that is not wedged or end the wedge.         *)
THEOREM WedgeKeeps == Spec => WedgedKeepsMappings
<1>1. IInv /\ [Next]_vars => [wedged /\ wedged' => pte' = pte]_vars
  <2> SUFFICES ASSUME IInv, Next, wedged, wedged' PROVE pte' = pte
    OBVIOUS
  <2>1. \A u \in Threads : Call(u) => pte' = pte
    BY DEF Call, ane_bo_init, ane_bo_free, ane_submit, Lookup, reset_store,
           ane_drm_postclose, Enter
  <2>2. \A u \in Threads : ThreadStep(u) => pte' = pte
    <3> SUFFICES ASSUME NEW u \in Threads, ThreadStep(u) PROVE pte' = pte
      OBVIOUS
    <3>1. pc[u] \notin {"granted", "poll"}
      BY DEF IInv, PcInv
    <3>2. CASE \/ mutex_lock(u) \/ recover_refuse(u) \/ recover_por(u)
               \/ recover_cycle(u) \/ recover_cycle_fails(u)
               \/ recover_idle(u) \/ recover_not_idle(u) \/ put(u)
      BY <3>2 DEF mutex_lock, recover_refuse, RecoverRefuse, recover_por,
         recover_cycle, Cycle, recover_cycle_fails, recover_idle, ClearWedge,
         recover_not_idle, put, drvVars
    <3>3. CASE \/ \E b \in ref[u], i \in Iovas : bo_init_map(u, b, i)
               \/ bo_init_map_fails(u) \/ bo_free_lookup(u)
      BY <3>1, <3>3 DEF bo_init_map, bo_init_map_fails, bo_free_lookup, FreeLookup
    <3>4. CASE \/ \E wild \in SUBSET (0 .. NIova) : tm_push(u, wild)
               \/ tm_overflow_before_push(u) \/ tm_complete(u) \/ tm_contained(u)
               \/ tm_poll_fails(u) \/ ane_dart_drain_fault(u) \/ tm_fault_not_drained(u)
      BY <3>1, <3>4 DEF tm_push, Push, tm_overflow_before_push, tm_complete,
         tm_contained, Contained, tm_poll_fails, ane_dart_drain_fault,
         tm_fault_not_drained
    <3> QED
      BY <3>2, <3>3, <3>4 DEF ThreadStep
  <2>3. \A b \in Bos : ane_gem_free_object(b) => pte' = pte
    BY DEF ane_gem_free_object, Destroy, ane_preserve_bo
  <2>4. \/ \E h \in Handles : ane_drm_mmap(h)
        \/ \E b \in Bos : drm_gem_vm_close(b)
        \/ Hardware \/ ane_runtime_suspend \/ power_off \/ ane_platform_remove
        => pte' = pte
    BY DEF ane_drm_mmap, drm_gem_vm_close, Hardware, hw_start, hw_finish, hw_fault,
       hw_error, ane_runtime_suspend, Suspend, power_off, ane_platform_remove, Remove,
       drvVars
  <2> QED
    BY <2>1, <2>2, <2>3, <2>4 DEF Next
<1> QED
  BY <1>1, Invariance, PTL DEF Spec, WedgedKeepsMappings

=============================================================================
