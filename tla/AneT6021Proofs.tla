--------------------------- MODULE AneT6021Proofs ---------------------------
(***************************************************************************)
(* Proofs about AneT6021: unloading a program preserves the inductive      *)
(* invariant IInv of AneT6021PoolProofs too, so that IInv holds throughout *)
(* (the other steps are in AneT6021PoolProofs and AneT6021ProgProofs), and *)
(* the properties follow from it.                                          *)
(***************************************************************************)
EXTENDS AneT6021ProgProofs

USE AneT6021Assumption, ZenonT(30)

(* The steps of the unload of a file's program, once nobody holds it. *)
UnloadStep(t) ==
    \/ prog_terminate(t) \/ prog_destroy(t) \/ prog_released(t)
    \/ \E b \in Bos : prog_release(t, b)

LEMMA UnloadStepIInv ==
  ASSUME FiniteFacts
  PROVE  IInv /\ (\E t \in Threads : UnloadStep(t)) => IInv'
(* A command of the unload fails: the firmware has no more than before. *)
<1>UnloadFails. ASSUME IInv, NEW t \in Threads, th[t].pc \in {"terminate", "destroy"}, UnloadFails(t),
           UNCHANGED <<fw_lock, bo, listed, mem, pool, open, holds>>,
           fw' \in [progs : [Ids -> SUBSET Bos], procs : SUBSET Ids, io : SUBSET Bos,
                    lost : SUBSET Bos],
           \A i \in Ids : fw'.progs[i] \subseteq fw.progs[i],
           fw'.io = fw.io, fw'.lost = fw.lost
    PROVE  IInv'
  <2> USE <1>UnloadFails
  <2>1. th[t].pc \in UnloadPcs
    BY DEF UnloadPcs
  <2>2. th[t].prog \in Ids /\ ProgType /\ progs \in [Ids -> Programs]
    BY <2>1, UnloadFacts DEF ProgType
  <2>3. PICK p \in Ids : p = th[t].prog
    BY <2>2
  <2>4. quarantined' = TRUE /\ progs' = [progs EXCEPT ![p].state = "HELD"]
        /\ th' = [th EXCEPT ![t].pc = "close", ![t].prog = None]
    BY <2>3 DEF UnloadFails
  <2> DEFINE e == [progs[p] EXCEPT !.state = "HELD"]
  <2>5. /\ progs[p].users = Cardinality(Users(p)) /\ progs[p] \in Programs
    BY SharedFacts
  <2>6. e \in Programs /\ e.users = progs[p].users /\ e.state = "HELD"
    BY ONLY <2>5, ZenonT(30) DEF Programs
  <2>7. progs' = [progs EXCEPT ![p] = e]
    BY ONLY <2>2, <2>4, p \in Ids, ZenonT(30)
  <2> HIDE DEF e
  <2>8. \A j \in Ids : Users(j)' = Users(j)
    BY DEF Users
  <2>9. e.users = Cardinality(Users(p)') /\ e.state # "LIVE" /\ e.state # "FREE"
    BY <2>5, <2>6, <2>8
  <2>10. /\ Shared' /\ progs' \in [Ids -> Programs]
         /\ \A j \in Ids : progs'[j].state = "FREE" => progs'[j] = NoProg
    BY <2>6, <2>7, <2>8, <2>9, SharedStep
  <2>11. Table'
    BY ONLY <2>4, <2>10, ZenonT(30) DEF Table
  <2>12. ProgType'
    BY <2>2, <2>4, <2>10 DEF ProgType
  <2>13. /\ ThType' /\ \A u \in Threads \ {t} : th'[u] = th[u]
         /\ th'[t].pc = "close" /\ th'[t].ret = "idle" /\ th'[t].cur = None
         /\ th'[t].victim = None /\ LockInv(t)' /\ \A b \in Bos : ~Working(t, b)'
    BY <2>1, <2>4, BackToClose
  <2>14. \A b \in Bos : Cardinality(Loaded(b)') + b01(Working(t, b)')
                           <= Cardinality(Loaded(b)) + b01(Working(t, b))
    <3> TAKE b \in Bos
    <3>1. Loaded(b)' \subseteq Loaded(b)
      BY DEF Loaded
    <3>2. IsFiniteSet(Loaded(b)) /\ Cardinality(Loaded(b)) \in Nat /\ Cardinality(Loaded(b)') \in Nat
      BY Loads
    <3>3. Cardinality(Loaded(b)') <= Cardinality(Loaded(b))
      BY ONLY <3>1, <3>2, FiniteFacts, ZenonT(30) DEF FiniteFacts, FsSubset
    <3>4. b01(Working(t, b)') = 0 /\ b01(Working(t, b)) \in {0, 1}
      BY <2>13 DEF b01
    <3> QED
      BY ONLY <3>2, <3>3, <3>4, SMTT(30)
  <2>15. th'[t].pc \in {"close"} \cup UnloadPcs /\ th[t].pc \in {"close"} \cup UnloadPcs
    BY ONLY <2>1, <2>13, ZenonT(30)
  <2>16. UNCHANGED <<fw_lock, bo, listed, mem, pool>> /\ fw'.io = fw.io /\ fw'.lost = fw.lost
    OBVIOUS
  <2> QED
    BY ONLY FiniteFacts, IInv, t \in Threads, <2>11, <2>12, <2>13, <2>14, <2>15, <2>16, CloseStep, ZenonT(30)
<1>Terminate. ASSUME IInv, NEW t \in Threads, prog_terminate(t)
    PROVE  IInv'
  <2> USE <1>Terminate
  <2>1. /\ At(t, "terminate") /\ th[t].pc \in UnloadPcs /\ th[t].pc \in {"terminate", "destroy"}
        /\ UNCHANGED <<fw_lock, bo, listed, mem, pool, open, holds>>
    BY DEF prog_terminate, boVars, poolVars, At, UnloadPcs
  <2>2. /\ th[t].ret = "idle" /\ th[t].cur = None /\ th[t].victim = None /\ th[t] \in Locals
        /\ ThType /\ ProgType /\ fw_lock = t /\ fw_lock \in {None, t}
        /\ ~quarantined /\ th[t].file \in Files /\ th[t].prog \in Ids /\ Live(th[t].prog)
        /\ progs[th[t].prog].users = 0
    BY <2>1, UnloadFacts
  <2> DEFINE gone == [fw EXCEPT !.procs = @ \ {th[t].prog}]
  <2>3. ASSUME fw' \in {fw, gone}
        PROVE  /\ fw' \in [progs : [Ids -> SUBSET Bos], procs : SUBSET Ids, io : SUBSET Bos,
                           lost : SUBSET Bos]
               /\ fw'.progs = fw.progs /\ fw'.io = fw.io /\ fw'.lost = fw.lost
               /\ fw'.procs \subseteq fw.procs
               /\ (fw' = gone => th[t].prog \notin fw'.procs)
    <3>1. fw' = fw \/ fw' = gone
      BY ONLY <2>3, ZenonT(30)
    <3> QED
      BY ONLY <2>2, <3>1, SMTT(30) DEF ProgType
  <2>4. CASE UnloadFails(t) /\ fw' \in {fw, gone}
    <3>1. \A i \in Ids : fw'.progs[i] \subseteq fw.progs[i]
      BY <2>3, <2>4
    <3> QED
      BY <2>1, <2>3, <2>4, <3>1, <1>UnloadFails
  <2>5. CASE fw' = gone /\ Goto(t, "destroy") /\ UNCHANGED <<quarantined, progs>>
    <3>1. "destroy" \in Pcs
      BY DEF Pcs, UnloadPcs
    <3>2. /\ ThType' /\ \A u \in Threads \ {t} : th'[u] = th[u]
          /\ th'[t].pc = "destroy" /\ th'[t].ret = "idle" /\ th'[t].cur = None
          /\ th'[t].victim = None /\ th'[t].file = th[t].file /\ th'[t].prog = th[t].prog
      BY <2>2, <2>5, <3>1, MoveGoto DEF Moved, ThType
    <3>3. /\ fw' \in [progs : [Ids -> SUBSET Bos], procs : SUBSET Ids, io : SUBSET Bos,
                      lost : SUBSET Bos]
          /\ fw'.progs = fw.progs /\ fw'.io = fw.io /\ fw'.lost = fw.lost
          /\ fw'.procs \subseteq fw.procs /\ th[t].prog \notin fw'.procs
      BY <2>3, <2>5
    <3>4. LockInv(t)'
      <4>1. /\ th'[t].prog \in Ids /\ progs'[th'[t].prog].state = "LIVE"
            /\ progs'[th'[t].prog].users = 0 /\ ~quarantined' /\ th'[t].file \in Files
            /\ th'[t].prog \notin fw'.procs /\ fw_lock' = t
        BY <2>1, <2>2, <2>5, <3>2, <3>3 DEF Live
      <4> QED
        BY ONLY <3>2, <4>1, ZenonT(40) DEF LockInv, Locked, Unloading, UnloadPcs, Giving, At, Live
    <3>5. Table'
      <4>1. Shared' /\ \A j \in Ids : progs'[j].state = "FREE" => progs'[j] = NoProg
        BY <2>1, <2>5, SMTT(30) DEF IInv, FwInv, Table, Shared, Live
      <4>2. ~Giving(t)
        BY ONLY <2>1, <2>2, ZenonT(30) DEF Giving, At
      <4>3. ASSUME NEW j \in Ids
            PROVE  /\ progs'[j].state # "HELD" /\ (j \in fw'.procs => progs'[j].proc)
                   /\ (~Live(j)' => fw'.progs[j] = {})
                   /\ (Live(j)' => fw'.progs[j] = progs'[j].sec /\ fw'.progs[j] # {})
        <5>1. /\ progs[j].state # "HELD" /\ (j \in fw.procs => progs[j].proc)
              /\ (~Live(j) => fw.progs[j] = {})
              /\ (Live(j) => fw.progs[j] = progs[j].sec /\ fw.progs[j] # {})
          BY <2>2, <4>2, OnlyGiver
        <5> QED
          BY ONLY <2>5, <3>3, <5>1, ZenonT(30) DEF Live
      <4> QED
        BY ONLY <4>1, <4>3, ZenonT(30) DEF Table
    <3>6. ProgType'
      BY <2>1, <2>2, <2>5, <3>3 DEF ProgType
    <3>7. \A b \in Bos : Cardinality(Loaded(b)') + b01(Working(t, b)')
                            <= Cardinality(Loaded(b)) + b01(Working(t, b))
      <4> TAKE b \in Bos
      <4>1. Cardinality(Loaded(b)) \in Nat /\ Loaded(b)' = Loaded(b)
        BY <3>3, Loads DEF Loaded
      <4>2. b01(Working(t, b)') = 0 /\ b01(Working(t, b)) \in {0, 1}
        BY ONLY <3>2, ZenonT(30) DEF b01, Working, Giving, At
      <4> QED
        BY ONLY <4>1, <4>2, SMTT(30)
    <3>8. th'[t].pc \in {"close"} \cup UnloadPcs /\ th[t].pc \in {"close"} \cup UnloadPcs
      BY ONLY <2>1, <3>2, ZenonT(30) DEF UnloadPcs
    <3> QED
      BY ONLY FiniteFacts, IInv, t \in Threads, <2>1, <3>2, <3>3, <3>4, <3>5, <3>6, <3>7, <3>8, CloseStep, ZenonT(40)
  <2> QED
    BY <2>4, <2>5 DEF prog_terminate
<1>Destroy. ASSUME IInv, NEW t \in Threads, prog_destroy(t)
    PROVE  IInv'
  <2> USE <1>Destroy
  <2>1. /\ At(t, "destroy") /\ th[t].pc \in UnloadPcs /\ th[t].pc \in {"terminate", "destroy"}
        /\ UNCHANGED <<fw_lock, bo, listed, mem, pool, open, holds>>
    BY DEF prog_destroy, boVars, poolVars, At, UnloadPcs
  <2>2. /\ th[t].ret = "idle" /\ th[t].cur = None /\ th[t].victim = None /\ th[t] \in Locals
        /\ ThType /\ ProgType /\ fw_lock = t /\ fw_lock \in {None, t}
        /\ ~quarantined /\ th[t].file \in Files /\ th[t].prog \in Ids /\ Live(th[t].prog)
        /\ progs[th[t].prog].users = 0 /\ th[t].prog \notin fw.procs
    BY <2>1, UnloadFacts
  <2>3. PICK p \in Ids : p = th[t].prog
    BY <2>2
  <2> DEFINE gone == [fw EXCEPT !.progs[p] = {}]
  <2>4. ASSUME fw' \in {fw, gone}
        PROVE  /\ fw' \in [progs : [Ids -> SUBSET Bos], procs : SUBSET Ids, io : SUBSET Bos,
                           lost : SUBSET Bos]
               /\ fw'.procs = fw.procs /\ fw'.io = fw.io /\ fw'.lost = fw.lost
               /\ \A j \in Ids \ {p} : fw'.progs[j] = fw.progs[j]
               /\ fw'.progs[p] \subseteq fw.progs[p]
               /\ (fw' = gone => fw'.progs[p] = {})
    <3>1. fw' = fw \/ fw' = gone
      BY ONLY <2>4, ZenonT(30)
    <3> QED
      BY ONLY <2>2, <3>1, p \in Ids, SMTT(30) DEF ProgType
  <2>5. CASE UnloadFails(t) /\ fw' \in {fw, gone}
    <3>1. \A i \in Ids : fw'.progs[i] \subseteq fw.progs[i]
      BY <2>4, <2>5
    <3> QED
      BY <2>1, <2>4, <2>5, <3>1, <1>UnloadFails
  <2>6. CASE /\ fw' = gone /\ UNCHANGED <<quarantined, progs>>
             /\ th' = [th EXCEPT ![t].pc = "give", ![t].todo = progs[p].sec]
    <3>1. /\ fw' \in [progs : [Ids -> SUBSET Bos], procs : SUBSET Ids, io : SUBSET Bos,
                      lost : SUBSET Bos]
          /\ fw'.procs = fw.procs /\ fw'.io = fw.io /\ fw'.lost = fw.lost
          /\ \A j \in Ids \ {p} : fw'.progs[j] = fw.progs[j]
          /\ fw'.progs[p] = {}
      BY <2>4, <2>6
    <3>2. ~Giving(t)
      BY ONLY <2>1, <2>2, ZenonT(30) DEF Giving, At
    <3>3. /\ fw.progs[p] = progs[p].sec /\ progs[p].sec \subseteq Bos
      BY <2>2, <2>3, <3>2, OnlyGiver DEF ProgType, Programs
    <3> DEFINE r == [th[t] EXCEPT !.pc = "give", !.todo = progs[p].sec]
    <3>4. /\ r \in Locals /\ r.pc = "give" /\ r.ret = th[t].ret /\ r.cur = th[t].cur
          /\ r.victim = th[t].victim /\ r.file = th[t].file /\ r.prog = th[t].prog
          /\ r.todo = progs[p].sec
      <4>1. "give" \in Pcs
        BY DEF Pcs, UnloadPcs
      <4> QED
        BY ONLY <2>2, <3>3, <4>1, Zenon DEF Locals
    <3>5. th' = [th EXCEPT ![t] = r]
      BY <2>2, <2>6 DEF ThType
    <3>6. Moved(t, r)
      BY ONLY <2>2, <3>4, <3>5, t \in Threads, Move, ZenonT(40)
    <3> HIDE DEF r
    <3>7. ThType' /\ th'[t] = r /\ \A u \in Threads \ {t} : th'[u] = th[u]
      BY ONLY <3>6, ZenonT(30) DEF Moved, ThType
    <3>8. /\ th'[t].pc = "give" /\ th'[t].ret = "idle" /\ th'[t].cur = None
          /\ th'[t].victim = None /\ th'[t].file \in Files /\ th'[t].prog = p
          /\ th'[t].todo = progs[p].sec
      BY ONLY <2>2, <2>3, <3>4, <3>7, ZenonT(30)
    <3>9. LockInv(t)'
      <4>1. /\ progs'[p].state = "LIVE" /\ progs'[p].users = 0 /\ ~quarantined'
            /\ p \notin fw'.procs /\ fw_lock' = t
        BY <2>1, <2>2, <2>3, <2>6, <3>1 DEF Live
      <4> QED
        BY ONLY <3>1, <3>8, <4>1, p \in Ids, ZenonT(30)
           DEF LockInv, Locked, Unloading, UnloadPcs, Giving, At, Live
    <3>10. Table'
      <4>1. Shared' /\ \A j \in Ids : progs'[j].state = "FREE" => progs'[j] = NoProg
        <5>1. progs' = progs /\ holds' = holds
          BY ONLY <2>1, <2>6, ZenonT(30)
        <5>2. Shared /\ \A j \in Ids : progs[j].state = "FREE" => progs[j] = NoProg
          BY DEF IInv, FwInv, Table
        <5> QED
          BY ONLY <5>1, <5>2, ZenonT(30) DEF Shared, Live
      <4>2. Giving(t)' /\ th'[t].prog = p
        BY ONLY <3>8, ZenonT(30) DEF Giving, At
      <4>3. ASSUME NEW j \in Ids
            PROVE  /\ progs'[j].state # "HELD" /\ (j \in fw'.procs => progs'[j].proc)
                   /\ (~Live(j)' => fw'.progs[j] = {})
                   /\ (Live(j)' => \/ fw'.progs[j] = progs'[j].sec /\ fw'.progs[j] # {}
                                   \/ j = p)
        <5>1. /\ progs[j].state # "HELD" /\ (j \in fw.procs => progs[j].proc)
              /\ (~Live(j) => fw.progs[j] = {})
              /\ (Live(j) => fw.progs[j] = progs[j].sec /\ fw.progs[j] # {})
          BY <2>2, <3>2, OnlyGiver
        <5> QED
          BY ONLY <2>6, <3>1, <5>1, j \in Ids, ZenonT(30) DEF Live
      <4> QED
        BY ONLY <4>1, <4>2, <4>3, t \in Threads, ZenonT(40) DEF Table
    <3>11. ProgType'
      BY <2>1, <2>2, <2>6, <3>1 DEF ProgType
    <3>12. \A b \in Bos : Cardinality(Loaded(b)') + b01(Working(t, b)')
                             <= Cardinality(Loaded(b)) + b01(Working(t, b))
      <4> TAKE b \in Bos
      <4>1. Cardinality(Loaded(b)) \in Nat /\ IsFiniteSet(Loaded(b))
        BY Loads
      <4>2. (Working(t, b)' <=> b \in progs[p].sec) /\ b01(Working(t, b)) \in {0, 1}
        BY ONLY <3>8, ZenonT(30) DEF Working, Giving, At, b01
      <4>3. CASE b \in progs[p].sec
        <5>1. Loaded(b)' = Loaded(b) \ {p} /\ p \in Loaded(b)
          BY <3>1, <3>3, <4>3, SMTT(30) DEF Loaded
        <5>2. Cardinality(Loaded(b)') = Cardinality(Loaded(b)) - 1
          BY ONLY <4>1, <5>1, FiniteFacts, Zenon DEF FiniteFacts, FsRemove
        <5>3. b01(Working(t, b)') = 1
          BY ONLY <4>2, <4>3, ZenonT(30) DEF b01
        <5> QED
          BY ONLY <4>1, <4>2, <5>2, <5>3, SMTT(30)
      <4>4. CASE b \notin progs[p].sec
        <5>1. Loaded(b)' = Loaded(b)
          BY <3>1, <3>3, <4>4 DEF Loaded
        <5>2. b01(Working(t, b)') = 0
          BY ONLY <4>2, <4>4, ZenonT(30) DEF b01
        <5> QED
          BY ONLY <4>1, <4>2, <5>1, <5>2, SMTT(30)
      <4> QED
        BY <4>3, <4>4
    <3>13. th'[t].pc \in {"close"} \cup UnloadPcs /\ th[t].pc \in {"close"} \cup UnloadPcs
      BY ONLY <2>1, <3>8, ZenonT(30) DEF UnloadPcs
    <3> QED
      BY ONLY FiniteFacts, IInv, t \in Threads, <2>1, <3>1, <3>7, <3>8, <3>9, <3>10, <3>11, <3>12, <3>13,
              CloseStep, ZenonT(40)
  <2> QED
    BY <2>3, <2>5, <2>6 DEF prog_destroy
<1>ProgReleased. ASSUME IInv, NEW t \in Threads, prog_released(t)
    PROVE  IInv'
  <2> USE <1>ProgReleased
  <2>1. /\ At(t, "give") /\ th[t].pc \in UnloadPcs
        /\ th' = [th EXCEPT ![t].pc = "close", ![t].prog = None]
        /\ progs' = [progs EXCEPT ![th[t].prog] = NoProg]
        /\ UNCHANGED <<fw_lock, quarantined, bo, listed, mem, pool, open, holds, fw>>
    BY DEF prog_released, boVars, poolVars, At, UnloadPcs
  <2>2. /\ ProgType /\ fw_lock \in {None, t} /\ ~quarantined /\ th[t].prog \in Ids
        /\ progs[th[t].prog].users = 0 /\ th[t].prog \notin fw.procs /\ fw.progs[th[t].prog] = {}
    BY <2>1, UnloadFacts
  <2>3. PICK p \in Ids : p = th[t].prog
    BY <2>2
  <2>4. /\ ThType' /\ \A u \in Threads \ {t} : th'[u] = th[u]
        /\ th'[t].pc = "close" /\ th'[t].ret = "idle" /\ th'[t].cur = None
        /\ th'[t].victim = None /\ LockInv(t)' /\ \A b \in Bos : ~Working(t, b)'
    BY <2>1, BackToClose
  <2>5. \A j \in Ids : Users(j)' = Users(j)
    BY <2>1 DEF Users
  <2>6. NoProg \in Programs /\ NoProg.users = 0 /\ NoProg.state = "FREE"
    BY DEF NoProg, Programs
  <2>7. NoProg.users = Cardinality(Users(p)')
    BY <2>2, <2>3, <2>5, <2>6, SharedFacts
  <2>8. /\ Shared' /\ progs' \in [Ids -> Programs]
        /\ \A j \in Ids : progs'[j].state = "FREE" => progs'[j] = NoProg
        /\ progs'[p] = NoProg /\ \A j \in Ids \ {p} : progs'[j] = progs[j]
    BY <2>1, <2>3, <2>5, <2>6, <2>7, SharedStep
  <2>9. ASSUME NEW j \in Ids
        PROVE  /\ progs'[j].state # "HELD" /\ (j \in fw'.procs => progs'[j].proc)
               /\ (~Live(j)' => fw'.progs[j] = {})
               /\ (Live(j)' => fw'.progs[j] = progs'[j].sec /\ fw'.progs[j] # {})
    <3>1. CASE j = p
      BY <2>1, <2>2, <2>3, <2>6, <2>8, <3>1 DEF Live
    <3>2. CASE j # p
      BY <2>1, <2>2, <2>3, <2>8, <3>2, OnlyGiver, SMTT(30) DEF Live
    <3> QED
      BY <3>1, <3>2
  <2>10. Table'
    BY ONLY <2>8, <2>9, ZenonT(30) DEF Table
  <2>11. ProgType'
    BY <2>1, <2>2, <2>8 DEF ProgType
  <2>12. \A b \in Bos : Cardinality(Loaded(b)') + b01(Working(t, b)')
                           <= Cardinality(Loaded(b)) + b01(Working(t, b))
    <3> TAKE b \in Bos
    <3>1. Cardinality(Loaded(b)) \in Nat /\ Loaded(b)' = Loaded(b)
      BY <2>1, Loads DEF Loaded
    <3>2. b01(Working(t, b)') = 0 /\ b01(Working(t, b)) \in {0, 1}
      BY <2>4 DEF b01
    <3> QED
      BY ONLY <3>1, <3>2, SMTT(30)
  <2>13. /\ th'[t].pc \in {"close"} \cup UnloadPcs /\ th[t].pc \in {"close"} \cup UnloadPcs
         /\ UNCHANGED <<fw_lock, bo, listed, mem, pool>> /\ fw'.io = fw.io /\ fw'.lost = fw.lost
    BY ONLY <2>1, <2>4, ZenonT(30)
  <2> QED
    BY ONLY FiniteFacts, IInv, t \in Threads, <2>4, <2>10, <2>11, <2>12, <2>13, CloseStep, ZenonT(30)
<1>ProgRelease. ASSUME IInv, NEW t \in Threads, NEW b \in Bos, prog_release(t, b)
    PROVE  IInv'
  <2> USE <1>ProgRelease
  <2> DEFINE n == bo[b].prog_refs - 1
             new == [bo[b] EXCEPT !.prog_refs = n, !.fw_program = @ /\ n > 0,
                                  !.fw_ref = IF n = 0 THEN bo[b].fw_io ELSE @]
             rest == [th[t] EXCEPT !.todo = @ \ {b}]
  <2>1. /\ At(t, "give") /\ th[t].pc \in UnloadPcs /\ b \in th[t].todo
        /\ Put(t, b, new, rest, "give")
        /\ UNCHANGED <<fw_lock, quarantined, listed, mem, pool, progs, open, holds, fw>>
    BY DEF prog_release, boVars, poolVars, progVars, At, UnloadPcs
  <2>2. /\ th[t].ret = "idle" /\ th[t].cur = None /\ th[t].victim = None /\ th[t] \in Locals
        /\ ThType /\ ProgType /\ Table /\ fw_lock = t /\ fw_lock \in {None, t}
        /\ ~quarantined /\ th[t].file \in Files /\ th[t].prog \in Ids /\ Live(th[t].prog)
        /\ progs[th[t].prog].users = 0 /\ th[t].prog \notin fw.procs
        /\ fw.progs[th[t].prog] = {}
    BY <2>1, UnloadFacts
  <2>3. /\ Cardinality(Loaded(b)) \in Nat /\ b01(b \in fw.lost) \in {0, 1}
        /\ bo[b].prog_refs \in Nat
        /\ Cardinality(Loaded(b)) + 1 + b01(b \in fw.lost) <= bo[b].prog_refs
    <3>1. b01(Working(t, b)) = 1
      BY ONLY <2>1, ZenonT(30) DEF b01, Working, Giving
    <3> QED
      BY <2>2, <3>1, ClaimFacts
  <2>4. n \in Nat /\ bo[b].prog_refs > 0 /\ Cardinality(Loaded(b)) + b01(b \in fw.lost) <= n
    BY ONLY <2>3
  <2>5. /\ bo[b] \in Objects /\ bo[b].kref \in Nat /\ bo[b].maps \in Nat
        /\ bo[b].kref = b01(b \in listed) + bo[b].maps + bo[b].prog_refs
        /\ b01(b \in listed) \in {0, 1} /\ (bo[b].fw_io => bo[b].fw_ref)
    BY RefCount DEF IInv, ObjInv, Object
  <2>6. /\ new \in Objects /\ new.kref = bo[b].kref /\ new.maps = bo[b].maps /\ new.prog_refs = n
        /\ new.fw_io = bo[b].fw_io /\ new.pooled_sec = bo[b].pooled_sec
        /\ new.fw_ref = (IF n = 0 THEN bo[b].fw_io ELSE bo[b].fw_ref)
    <3>1. /\ (bo[b].fw_program /\ n > 0) \in BOOLEAN
          /\ (IF n = 0 THEN bo[b].fw_io ELSE bo[b].fw_ref) \in BOOLEAN
      BY ONLY <2>5, ZenonT(30) DEF Objects
    <3> QED
      BY ONLY <2>4, <2>5, <3>1, ZenonT(40) DEF Objects
  <2>7. /\ rest \in Locals /\ rest.pc = th[t].pc /\ rest.ret = th[t].ret /\ rest.cur = th[t].cur
        /\ rest.victim = th[t].victim /\ rest.file = th[t].file /\ rest.prog = th[t].prog
        /\ rest.todo = th[t].todo \ {b}
    BY ONLY <2>2, ZenonT(30) DEF Locals
  <2>8. n = bo[b].prog_refs - 1
    OBVIOUS
  <2> HIDE DEF n, new, rest
  <2>9. new.kref - 1 = b01(b \in listed') + new.maps + new.prog_refs
    <3>1. b01(b \in listed') = b01(b \in listed)
      BY ONLY <2>1, ZenonT(30)
    <3> QED
      BY ONLY <2>3, <2>4, <2>5, <2>6, <2>8, <3>1, SMTT(30)
  <2>10. (new.fw_io => new.fw_ref) /\ (new.pooled_sec <=> bo[b].pooled_sec)
         /\ (new.fw_io <=> bo[b].fw_io)
    BY ONLY <2>5, <2>6, ZenonT(30)
  <2>11. /\ "give" \in {"unlock", "give", "drop"} /\ listed' \subseteq Bos
         /\ \A x \in Bos \ {b} : x \in listed' <=> x \in listed
         /\ mem' = mem /\ pool' = pool
         /\ rest.ret = "idle" /\ rest.cur = None /\ rest.victim = None
         /\ (b \in listed \/ bo[b].maps > 0 \/ bo[b].prog_refs > 0)
         /\ th[t].cur = None /\ th[t].victim = None
    <3>1. listed \subseteq Bos
      BY DEF IInv, ObjInv, BoType
    <3> QED
      BY ONLY <2>1, <2>2, <2>4, <2>7, <3>1, ZenonT(30)
  <2>12. /\ ThInv' /\ ObjInv' /\ \A u \in Threads \ {t} : th'[u] = th[u]
         /\ \/ th'[t].pc = "release" /\ th'[t].ret = "give"
            \/ th'[t].pc = "give" /\ th'[t].ret = "idle"
         /\ th'[t].file = rest.file /\ th'[t].todo = rest.todo /\ th'[t].prog = rest.prog
         /\ bo'[b].prog_refs = new.prog_refs /\ (bo'[b].fw_io <=> new.fw_io)
         /\ \A x \in Bos \ {b} : bo'[x] = bo[x]
    BY ONLY IInv, t \in Threads, b \in Bos, <2>1, <2>6, <2>7, <2>9, <2>10, <2>11, PutStep, ZenonT(40)
  <2>13. Giving(t)' /\ ~At(t, "load")' /\ ~At(t, "close")' /\ th'[t].pc \notin {"exec", "wait"}
    BY ONLY <2>12, ZenonT(30) DEF Giving, At
  <2>14. LockInv(t)'
    <3>1. /\ th'[t].prog \in Ids /\ progs'[th'[t].prog].state = "LIVE"
          /\ progs'[th'[t].prog].users = 0 /\ ~quarantined' /\ th'[t].file \in Files
          /\ th'[t].prog \notin fw'.procs /\ fw_lock' = t /\ fw'.progs[th'[t].prog] = {}
      BY ONLY <2>1, <2>2, <2>7, <2>12 DEF Live
    <3> QED
      BY ONLY <2>13, <3>1, ZenonT(30) DEF LockInv, Live
  <2>15. Table'
    <3>1. Shared' /\ \A j \in Ids : progs'[j].state = "FREE" => progs'[j] = NoProg
      BY <2>1, <2>2, SMTT(30) DEF Table, Shared, Live
    <3>2. ASSUME NEW j \in Ids
          PROVE  /\ progs'[j].state # "HELD" /\ (j \in fw'.procs => progs'[j].proc)
                 /\ (~Live(j)' => fw'.progs[j] = {})
                 /\ (Live(j)' => \/ fw'.progs[j] = progs'[j].sec /\ fw'.progs[j] # {}
                                 \/ j = th[t].prog)
      <4>1. /\ progs[j].state # "HELD" /\ (j \in fw.procs => progs[j].proc)
            /\ (~Live(j) => fw.progs[j] = {})
            /\ (Live(j) => \/ fw.progs[j] = progs[j].sec /\ fw.progs[j] # {}
                           \/ j = th[t].prog)
        BY <2>2, OnlyGiver
      <4> QED
        BY ONLY <2>1, <4>1, ZenonT(30) DEF Live
    <3>3. Giving(t)' /\ th'[t].prog = th[t].prog
      BY ONLY <2>7, <2>12, <2>13, ZenonT(30)
    <3> QED
      BY ONLY <3>1, <3>2, <3>3, t \in Threads, ZenonT(30) DEF Table
  <2>16. ProgType'
    BY ONLY <2>1, <2>2, ZenonT(30) DEF ProgType
  <2>17. ASSUME NEW x \in Bos
         PROVE  Cardinality(Loaded(x)') + b01(Working(t, x)') + b01(x \in fw'.lost)
                  <= bo'[x].prog_refs
    <3>1. Loaded(x)' = Loaded(x) /\ b01(x \in fw'.lost) = b01(x \in fw.lost)
      BY ONLY <2>1, ZenonT(30) DEF Loaded
    <3>2. Working(t, x)' <=> x \in th[t].todo /\ x # b
      BY ONLY <2>7, <2>12, <2>13, ZenonT(30) DEF Working
    <3>3. CASE x = b
      <4>1. b01(Working(t, x)') = 0
        BY ONLY <3>2, <3>3, ZenonT(30) DEF b01
      <4> QED
        BY ONLY <2>3, <2>4, <2>6, <2>12, <3>1, <3>3, <4>1, SMTT(30)
    <3>4. CASE x # b
      <4>1. Working(t, x)' => Working(t, x)
        BY ONLY <2>1, <3>2, ZenonT(30) DEF Working, Giving
      <4>2. /\ b01(Working(t, x)') \in {0, 1} /\ b01(Working(t, x)') <= b01(Working(t, x))
        BY ONLY <4>1, SMTT(30) DEF b01
      <4>3. /\ Cardinality(Loaded(x)) \in Nat /\ b01(Working(t, x)) \in {0, 1}
            /\ b01(x \in fw.lost) \in {0, 1} /\ bo[x].prog_refs \in Nat
            /\ Cardinality(Loaded(x)) + b01(Working(t, x)) + b01(x \in fw.lost) <= bo[x].prog_refs
        BY <2>2, ClaimFacts
      <4>4. bo'[x] = bo[x]
        BY ONLY <2>12, <3>4, x \in Bos, ZenonT(30)
      <4> QED
        BY ONLY <3>1, <4>2, <4>3, <4>4, SMTT(30)
    <3> QED
      BY <3>3, <3>4
  <2>18. \A x \in fw'.io : bo'[x].fw_io
    <3>1. \A x \in fw.io : bo[x].fw_io /\ x \in Bos
      BY <2>2 DEF IInv, FwInv, ClaimInv, ProgType
    <3> QED
      BY ONLY <2>1, <2>10, <2>12, <3>1, ZenonT(30)
  <2>19. FwInv'
    <3>1. fw_lock' \in {None, t}
      BY ONLY <2>1, <2>2, ZenonT(30)
    <3> QED
      BY ONLY IInv, t \in Threads, <2>2, <2>12, <2>13, <2>14, <2>15, <2>16, <2>17, <2>18, <3>1, FwStep, ZenonT(30)
  <2> QED
    BY <2>12, <2>19 DEF IInv
<1> QED
  BY <1>Terminate, <1>Destroy, <1>ProgReleased, <1>ProgRelease DEF UnloadStep

-----------------------------------------------------------------------------
(* The invariant holds initially and every step preserves it. *)
LEMMA InitIInv ==
  ASSUME FiniteFacts
  PROVE  Init => IInv
<1> SUFFICES ASSUME Init PROVE IInv
  OBVIOUS
<1>1. /\ fw_lock = None /\ th = [t \in Threads |-> Rest] /\ quarantined = FALSE
      /\ bo = [b \in Bos |-> Fresh] /\ listed = {} /\ mem = [b \in Bos |-> "none"]
      /\ pool = << >> /\ progs = [i \in Ids |-> NoProg]
      /\ open = {} /\ holds = [f \in Files |-> {}]
      /\ fw = [progs |-> [i \in Ids |-> {}], procs |-> {}, io |-> {}, lost |-> {}]
  BY DEF Init
<1>2. /\ Rest \in Locals /\ Rest.pc = "idle" /\ Rest.ret = "idle" /\ Rest.cur = None
      /\ Rest.victim = None /\ \A t \in Threads : th[t] = Rest
  BY ONLY <1>1, Rests, ZenonT(30) DEF Rest
<1>3. ThInv
  <2>1. ThType
    BY ONLY <1>1, <1>2, ZenonT(30) DEF ThType
  <2>2. \A t \in Threads : Control(t)
    BY ONLY <1>2, ZenonT(30) DEF Control, Releasing, At, ReleasePcs
  <2> QED
    BY <2>1, <2>2 DEF ThInv
<1>4. /\ Fresh \in Objects /\ Fresh.kref = 0 /\ Fresh.maps = 0 /\ Fresh.prog_refs = 0
      /\ ~Fresh.fw_io /\ ~Fresh.pooled_sec
  BY DEF Fresh, Objects
<1>5. InPool = {} /\ Len(pool) = 0 /\ pool \in Seq(Bos)
  BY ONLY <1>1, SMTT(30) DEF InPool
<1>6. ObjInv
  <2>1. BoType
    BY ONLY <1>1, <1>4, <1>5, ZenonT(30) DEF BoType
  <2>2. Alone
    BY ONLY <1>2, <1>5, SMTT(30) DEF Alone
  <2>3. ASSUME NEW b \in Bos PROVE Object(b)
    <3>1. bo[b] = Fresh /\ mem[b] = "none" /\ b \notin listed
      BY ONLY <1>1, b \in Bos, ZenonT(30)
    <3> QED
      BY ONLY <1>4, <1>5, <3>1, SMTT(30) DEF Object, b01
  <2>4. \A t \in Threads : InHand(t)
    BY ONLY <1>2, ZenonT(30) DEF InHand
  <2> QED
    BY <2>1, <2>2, <2>3, <2>4 DEF ObjInv
<1>7. NoProg \in Programs /\ NoProg.state = "FREE" /\ NoProg.users = 0
  BY DEF NoProg, Programs
<1>8. FwInv
  <2>1. ProgType
    BY ONLY <1>1, <1>7, ZenonT(40) DEF ProgType
  <2>2. \A t \in Threads : ~Locked(t)
    BY ONLY <1>2, ZenonT(30) DEF Locked, Unloading, UnloadPcs, Giving, At
  <2>3. \A t \in Threads : LockInv(t)
    BY <2>2, Unlocked DEF LockInv
  <2>4. ASSUME NEW b \in Bos PROVE Claims(b) <= bo[b].prog_refs
    <3>1. Loaded(b) = {}
      BY <1>1 DEF Loaded
    <3>2. Cardinality(Loaded(b)) = 0
      BY ONLY <3>1, FiniteFacts, ZenonT(30) DEF FiniteFacts, FsEmpty
    <3>3. bo[b].prog_refs = 0 /\ fw.lost = {}
      BY ONLY <1>1, <1>4, b \in Bos, ZenonT(30)
    <3>4. Claims(b) = 0
      BY ONLY <1>1, <3>2, <3>3, SMTT(30) DEF Claims, b01
    <3> QED
      BY ONLY <3>3, <3>4, SMTT(30)
  <2>5. ClaimInv
    <3>1. fw.io = {} /\ \A t \in Threads : th[t].pc \notin {"exec", "wait"}
      BY ONLY <1>1, <1>2, ZenonT(30)
    <3> QED
      BY <2>4, <3>1 DEF ClaimInv
  <2>6. Table
    <3>1. ASSUME NEW i \in Ids
          PROVE  /\ progs[i] = NoProg /\ ~Live(i) /\ i \notin fw.procs /\ fw.progs[i] = {}
                 /\ progs[i].users = Cardinality({f \in Files : i \in holds[f]})
      <4>1. progs[i] = NoProg /\ i \notin fw.procs /\ fw.progs[i] = {}
        BY ONLY <1>1, i \in Ids, ZenonT(30)
      <4>2. ~Live(i)
        BY ONLY <1>7, <4>1, ZenonT(30) DEF Live
      <4>3. {f \in Files : i \in holds[f]} = {}
        BY ONLY <1>1, ZenonT(30)
      <4> QED
        BY ONLY <1>7, <4>1, <4>2, <4>3, FiniteFacts, ZenonT(30) DEF FiniteFacts, FsEmpty
    <3>2. Shared
      BY ONLY <3>1, ZenonT(40) DEF Shared
    <3> QED
      BY ONLY <1>7, <3>1, <3>2, Zenon DEF Table
  <2> QED
    BY <1>1, <2>1, <2>3, <2>5, <2>6 DEF FwInv
<1> QED
  BY <1>3, <1>6, <1>8 DEF IInv

LEMMA ThreadStepIInv ==
  ASSUME FiniteFacts, IInv, NEW t \in Threads, ThreadStep(t)
  PROVE  IInv'
<1>1. CASE QuietStep(t) \/ ReleaseStep(t) \/ TakeStep(t) \/ PutRef(t)
  BY <1>1, PoolStepsIInv
<1>5. CASE CallOf(t)
  BY <1>5, CallOfIInv
<1>6. CASE GainStep(t)
  BY <1>6, GainStepIInv
<1>7. CASE UnloadStep(t)
  BY <1>7, UnloadStepIInv
<1>8. CASE (\E i \in Ids : fd_close(t, i)) \/ closed(t)
  BY <1>8, FdCloseIInv, ClosedIInv
<1>9. CASE PoolStep(t)
  BY <1>1, <1>9 DEF PoolStep, QuietStep, ReleaseStep
<1>10. CASE BoStep(t)
  BY <1>1, <1>10 DEF BoStep, QuietStep, TakeStep
<1>11. CASE ProgStep(t)
  BY <1>1, <1>5, <1>6, <1>7, <1>8, <1>11
     DEF ProgStep, PutRef, CallOf, GainStep, UnloadStep
<1> QED
  BY <1>9, <1>10, <1>11 DEF ThreadStep

LEMMA StartIInv ==
  ASSUME FiniteFacts, IInv, NEW t \in Threads, Start(t)
  PROVE  IInv'
<1>1. QuietStep(t) \/ PutRef(t) \/ CallOf(t) \/ GainStep(t)
  BY DEF Start, QuietStep, PutRef, CallOf, GainStep
<1> QED
  BY <1>1, PoolStepsIInv, CallOfIInv, GainStepIInv

LEMMA StutterIInv ==
  ASSUME IInv, UNCHANGED vars
  PROVE  IInv'
<1>1. UNCHANGED <<th, bo, listed, mem, pool, fwVars>>
  BY DEF vars, fwVars, progVars
<1>2. ThInv' /\ ObjInv'
  BY <1>1, SameThreads
<1>3. \A u \in Threads : Same(u)
  BY <1>1 DEF Same
<1>4. FwInv'
  BY <1>1, <1>3, FwFrame DEF IInv, ThInv
<1> QED
  BY <1>2, <1>4 DEF IInv

LEMMA StepIInv ==
  ASSUME FiniteFacts
  PROVE  IInv /\ [Next]_vars => IInv'
<1> SUFFICES ASSUME IInv, [Next]_vars PROVE IInv'
  OBVIOUS
<1>1. CASE UNCHANGED vars
  BY <1>1, StutterIInv
<1>2. ASSUME NEW t \in Threads, ThreadStep(t) \/ Start(t) PROVE IInv'
  BY <1>2, ThreadStepIInv, StartIInv
<1>3. ASSUME NEW f \in Files, drm_open(f) PROVE IInv'
  BY <1>3, OpenIInv
<1>4. ASSUME NEW t \in Threads, Mapping(t) PROVE IInv'
  <2>1. PutRef(t) \/ TakeStep(t)
    BY <1>4 DEF Mapping, PutRef, TakeStep
  <2> QED
    BY <2>1, PoolStepsIInv
<1> QED
  BY <1>1, <1>2, <1>3, <1>4 DEF Next, Unmapped

-----------------------------------------------------------------------------
(* What the firmware may access as a section has a reference of its own.   *)
LEMMA ClaimedLive ==
  ASSUME FiniteFacts, IInv, NEW b \in Sections
  PROVE  b \in Bos /\ mem[b] = "live"
<1>1. /\ fw_lock \in Threads \cup {None} /\ ProgType /\ ThType
      /\ \A t \in Threads : LockInv(t)
  BY DEF IInv, FwInv, ThInv
<1>0. \/ \E i \in Ids : b \in fw.progs[i]
      \/ b \in fw.lost
      \/ \E t \in Threads : At(t, "load") /\ b \in th[t].done
  <2>1. \/ b \in UNION {fw.progs[i] : i \in Ids}
        \/ b \in fw.lost
        \/ b \in UNION {th[t].done : t \in {u \in Threads : At(u, "load")}}
    BY ONLY b \in Sections, ZenonT(30) DEF Sections
  <2>2. b \in UNION {fw.progs[i] : i \in Ids} => \E i \in Ids : b \in fw.progs[i]
    BY ONLY TRUE, ZenonT(30)
  <2>3. b \in UNION {th[t].done : t \in {u \in Threads : At(u, "load")}}
           => \E t \in Threads : At(t, "load") /\ b \in th[t].done
    BY ONLY TRUE, ZenonT(30)
  <2> QED
    BY ONLY <2>1, <2>2, <2>3, ZenonT(30)
<1>2. b \in Bos
  BY ONLY <1>0, <1>1, ZenonT(30) DEF ProgType, ThType, Locals
<1>3. Claims(b) <= bo[b].prog_refs /\ bo[b].prog_refs \in Nat
  BY <1>2, RefCount DEF IInv, FwInv, ClaimInv
<1>4. /\ Cardinality(Loaded(b)) \in Nat /\ IsFiniteSet(Loaded(b))
      /\ b01(fw_lock # None /\ Working(fw_lock, b)) \in {0, 1}
      /\ b01(b \in fw.lost) \in {0, 1}
      /\ Claims(b) = Cardinality(Loaded(b)) + b01(fw_lock # None /\ Working(fw_lock, b))
                        + b01(b \in fw.lost)
  BY ONLY FiniteFacts, Loads, ZenonT(30) DEF b01, Claims
<1>5. CASE \E i \in Ids : b \in fw.progs[i]
  <2>1. Loaded(b) # {}
    BY <1>5 DEF Loaded
  <2>2. Cardinality(Loaded(b)) # 0
    BY ONLY <1>4, <2>1, FiniteFacts, ZenonT(30) DEF FiniteFacts, FsEmpty
  <2>3. bo[b].prog_refs > 0
    BY ONLY <1>3, <1>4, <2>2, SMTT(30)
  <2> QED
    BY <1>2, <2>3, UsedFacts
<1>6. CASE b \in fw.lost
  <2>1. b01(b \in fw.lost) = 1
    BY <1>6 DEF b01
  <2>2. bo[b].prog_refs > 0
    BY ONLY <1>3, <1>4, <2>1, SMTT(30)
  <2> QED
    BY <1>2, <2>2, UsedFacts
<1>7. ASSUME NEW t \in Threads, At(t, "load"), b \in th[t].done
      PROVE  mem[b] = "live"
  <2>1. Locked(t) /\ Working(t, b)
    BY ONLY <1>7, ZenonT(30) DEF Locked, Working, At
  <2>2. fw_lock = t /\ fw_lock # None
    BY <1>1, <2>1 DEF LockInv
  <2>3. b01(fw_lock # None /\ Working(fw_lock, b)) = 1
    BY ONLY <2>1, <2>2, ZenonT(30) DEF b01
  <2>4. bo[b].prog_refs > 0
    BY ONLY <1>3, <1>4, <2>3, SMTT(30)
  <2> QED
    BY <1>2, <2>4, UsedFacts
<1> QED
  BY <1>0, <1>2, <1>5, <1>6, <1>7

LEMMA NeverFreed ==
  ASSUME FiniteFacts, IInv
  PROVE  FwNeverSeesFreed
<1>1. \A b \in Sections : mem[b] = "live"
  BY ClaimedLive
<1>2. ASSUME NEW b \in fw.io PROVE mem[b] # "none"
  <2>1. b \in Bos /\ bo[b].fw_io
    BY DEF IInv, FwInv, ClaimInv, ProgType
  <2>2. Object(b)
    BY <2>1 DEF IInv, ObjInv
  <2> QED
    BY ONLY <2>1, <2>2, SMTT(30) DEF Object, Fresh
<1> QED
  BY ONLY <1>1, <1>2, ZenonT(30) DEF FwNeverSeesFreed

LEMMA OnePlace ==
  ASSUME FiniteFacts, IInv, NEW b \in Bos
  PROVE  Cardinality({k \in 1 .. Len(pool) : pool[k] = b}) + b01(bo[b].kref > 0)
            + b01(mem[b] \in {"none", "held"}) + Cardinality(Holders(b)) = 1
<1> DEFINE P == {k \in 1 .. Len(pool) : pool[k] = b}
<1>1. /\ Object(b) /\ mem[b] \in {"none", "live", "parked", "held"} /\ bo[b].kref \in Nat
      /\ \A t \in Threads : InHand(t)
      /\ Alone /\ b # None
  BY RefCount DEF IInv, ObjInv, BoType
<1>2. Cardinality({}) = 0 /\ \A x : Cardinality({x}) = 1
  BY ONLY FiniteFacts, ZenonT(30) DEF FiniteFacts, FsEmpty, FsSingleton
<1>3. b \notin InPool => P = {}
  BY DEF InPool
<1>4. CASE mem[b] \in {"none", "held"}
  <2>1. b \notin InPool /\ ~(bo[b].kref > 0)
    BY ONLY <1>1, <1>4, ZenonT(30) DEF Object
  <2>2. Holders(b) = {}
    BY ONLY <1>1, <1>4, ZenonT(30) DEF Holders, InHand
  <2>3. b01(bo[b].kref > 0) = 0 /\ b01(mem[b] \in {"none", "held"}) = 1
    BY ONLY <1>4, <2>1, ZenonT(30) DEF b01
  <2>4. Cardinality(P) = 0 /\ Cardinality(Holders(b)) = 0
    BY <1>2, <1>3, <2>1, <2>2
  <2> HIDE DEF P
  <2> QED
    BY ONLY <2>3, <2>4 DEF P
<1>5. CASE mem[b] = "live" /\ bo[b].kref > 0
  <2>1. b \notin InPool /\ bo[b].kref # 0
    BY ONLY <1>1, <1>5, SMTT(30) DEF Object
  <2>2. Holders(b) = {}
    BY ONLY <1>1, <1>5, <2>1, ZenonT(30) DEF Holders, InHand
  <2>3. b01(bo[b].kref > 0) = 1 /\ b01(mem[b] \in {"none", "held"}) = 0
    BY ONLY <1>5, ZenonT(30) DEF b01
  <2>4. Cardinality(P) = 0 /\ Cardinality(Holders(b)) = 0
    BY <1>2, <1>3, <2>1, <2>2
  <2> QED
    BY ONLY <2>3, <2>4
<1>6. CASE mem[b] = "live" /\ bo[b].kref = 0
  <2>1. b \notin InPool
    BY ONLY <1>1, <1>6, ZenonT(30) DEF Object
  <2>2. PICK t \in Threads : th[t].cur = b
    BY ONLY <1>1, <1>6, ZenonT(30) DEF Object
  <2>3. Holders(b) = {t}
    BY ONLY <1>1, <1>6, <2>2, ZenonT(30) DEF Holders, InHand, Alone
  <2>4. b01(bo[b].kref > 0) = 0 /\ b01(mem[b] \in {"none", "held"}) = 0
    BY ONLY <1>6, SMTT(30) DEF b01
  <2>5. Cardinality(P) = 0 /\ Cardinality(Holders(b)) = 1
    BY <1>2, <1>3, <2>1, <2>3
  <2> QED
    BY ONLY <2>4, <2>5
<1>7. CASE mem[b] = "parked"
  <2>1. ~(bo[b].kref > 0)
    BY ONLY <1>1, <1>7, ZenonT(30) DEF Object
  <2>2. b01(bo[b].kref > 0) = 0 /\ b01(mem[b] \in {"none", "held"}) = 0
    BY ONLY <1>7, <2>1, ZenonT(30) DEF b01
  <2>3. CASE b \in InPool
    <3>1. Holders(b) = {}
      BY ONLY <1>1, <1>7, <2>3, ZenonT(30) DEF Holders, InHand
    <3>2. PICK k \in 1 .. Len(pool) : pool[k] = b
      BY <2>3 DEF InPool
    <3>3. P = {k}
      BY <1>1, <3>2 DEF Alone
    <3>4. Cardinality(P) = 1 /\ Cardinality(Holders(b)) = 0
      BY <1>2, <3>1, <3>3
    <3> QED
      BY ONLY <2>2, <3>4, SMTT(30)
  <2>4. CASE b \notin InPool
    <3>1. PICK t \in Threads : th[t].victim = b
      BY ONLY <1>1, <1>7, <2>4, ZenonT(30) DEF Object
    <3>2. Holders(b) = {t}
      BY ONLY <1>1, <1>7, <3>1, ZenonT(30) DEF Holders, InHand, Alone
    <3>3. Cardinality(P) = 0 /\ Cardinality(Holders(b)) = 1
      BY <1>2, <1>3, <2>4, <3>2
    <3> QED
      BY ONLY <2>2, <3>3
  <2> QED
    BY <2>3, <2>4
<1>8. \/ mem[b] \in {"none", "held"} \/ mem[b] = "parked"
      \/ (mem[b] = "live" /\ bo[b].kref > 0) \/ (mem[b] = "live" /\ bo[b].kref = 0)
  BY ONLY <1>1
<1> QED
  BY ONLY <1>4, <1>5, <1>6, <1>7, <1>8, ZenonT(30)

LEMMA Referenced ==
  ASSUME FiniteFacts, IInv
  PROVE  References
<1>1. \A b \in Bos : bo[b].kref = b01(b \in listed) + bo[b].maps + bo[b].prog_refs
  BY RefCount
<1> QED
  BY OnePlace, <1>1 DEF References

(* What a step may do to the programs the firmware has: a load adds one,   *)
(* and only ane_t6021_prog_unload_op's destroy command removes one, after  *)
(* its process is gone.                                                    *)
LEMMA DestroyedLast ==
  ASSUME IInv, NEW t \in Threads, ThreadStep(t), NEW i \in Ids, fw.progs[i] # {},
         fw'.progs[i] = {}
  PROVE  i \notin fw.procs
<1>1. ProgType
  BY DEF IInv, FwInv
<1>2. CASE PoolStep(t)
  <2>1. fw' = fw
    BY <1>2 DEF PoolStep, pool_release_ent, bo_release_park, bo_release_fw, pool_park_room,
                pool_park_recheck, pool_park_add, bo_release_free, pool_drain, evict_oldest
  <2> QED
    BY <2>1
<1>3. CASE BoStep(t)
  <2>1. fw' = fw
    BY <1>3 DEF BoStep, pool_take, bo_alloc_charge, bo_alloc_dma, bo_alloc_uncharge,
                pool_alloc_retry, bo_publish, unlock, evict_oldest
  <2> QED
    BY <2>1
<1>4. CASE load_answer(t)
  <2>1. \/ fw' = [fw EXCEPT !.lost = @ \cup th[t].done]
        \/ \E j \in Ids : fw.progs[j] = {} /\ fw' = [fw EXCEPT !.progs[j] = th[t].done]
    BY <1>4 DEF load_answer
  <2>2. fw'.progs[i] = fw.progs[i]
    BY ONLY <1>1, <2>1, i \in Ids, fw.progs[i] # {}, ZenonT(30) DEF ProgType
  <2> QED
    BY <2>2
<1>5. CASE prog_destroy(t)
  <2>1. At(t, "destroy") /\ th[t].pc \in UnloadPcs
    BY <1>5 DEF prog_destroy, At, UnloadPcs
  <2>2. th[t].prog \in Ids /\ th[t].prog \notin fw.procs
    BY <2>1, UnloadFacts
  <2>3. fw' \in {fw, [fw EXCEPT !.progs[th[t].prog] = {}]}
    BY <1>5 DEF prog_destroy
  <2>4. i = th[t].prog
    BY ONLY <1>1, <2>2, <2>3, i \in Ids, fw.progs[i] # {}, fw'.progs[i] = {}, SMTT(30) DEF ProgType
  <2> QED
    BY <2>2, <2>4
<1>6. CASE exec_send(t) \/ exec_answer(t) \/ prog_terminate(t)
  <2>1. \/ fw' = fw
        \/ fw' = [fw EXCEPT !.io = @ \cup th[t].done] \/ fw' = [fw EXCEPT !.io = @ \ th[t].done]
        \/ fw' = [fw EXCEPT !.procs = @ \ {th[t].prog}]
    BY <1>6 DEF exec_send, exec_answer, prog_terminate
  <2>2. fw'.progs = fw.progs
    BY ONLY <1>1, <2>1, ZenonT(30) DEF ProgType
  <2> QED
    BY <2>2
<1>7. CASE \/ \E b \in Bos : load_section(t, b) \/ exec_io(t, b) \/ prog_release(t, b)
                             \/ close_bo(t, b)
           \/ \E j \in Ids : fd_close(t, j)
           \/ prog_released(t) \/ fd_closed(t) \/ closed(t)
  <2>1. fw' = fw
    BY <1>7 DEF load_section, exec_io, prog_release, close_bo, fd_close, prog_released, fd_closed,
                closed
  <2> QED
    BY <2>1
<1> QED
  BY <1>2, <1>3, <1>4, <1>5, <1>6, <1>7 DEF ThreadStep, ProgStep

LEMMA DestroyedStep ==
  ASSUME IInv, [Next]_vars
  PROVE  [\A i \in Ids : fw.progs[i] # {} /\ fw'.progs[i] = {} => i \notin fw.procs]_vars
<1>1. ASSUME NEW t \in Threads, ThreadStep(t)
      PROVE  \A i \in Ids : fw.progs[i] # {} /\ fw'.progs[i] = {} => i \notin fw.procs
  BY <1>1, DestroyedLast
<1>2. ASSUME NEW t \in Threads, Start(t)
      PROVE  fw'.progs = fw.progs
  <2>1. CASE \E f \in Files, j \in Ids : proc_create(t, f, j)
    <3>1. PICK j \in Ids : fw' \in {fw, [fw EXCEPT !.procs = @ \cup {j}]}
      BY <2>1 DEF proc_create
    <3>2. ProgType
      BY DEF IInv, FwInv
    <3> QED
      BY ONLY <3>1, <3>2, ZenonT(30) DEF ProgType
  <2>2. CASE ~(\E f \in Files, j \in Ids : proc_create(t, f, j))
    <3>1. fw' = fw
      BY <1>2, <2>2 DEF Start, bo_pool_max_mb_set, postclose, bo_init, bo_free, prog_lookup,
                        prog_load, exec
    <3> QED
      BY <3>1
  <2> QED
    BY <2>1, <2>2
<1>3. ASSUME NEW t \in Threads, Mapping(t)
      PROVE  fw' = fw
  BY <1>3 DEF Mapping, vm_close, mmap
<1>4. ASSUME NEW f \in Files, drm_open(f)
      PROVE  fw' = fw
  BY <1>4 DEF drm_open
<1>5. CASE UNCHANGED vars
  BY <1>5
<1> QED
  BY <1>1, <1>2, <1>3, <1>4, <1>5 DEF Next, Unmapped

-----------------------------------------------------------------------------
INSTANCE FiniteSetTheorems

(* The facts on finite sets that the lemmas assume are theorems. *)
LEMMA FiniteTheory == FiniteFacts
<1>1. FsEmpty /\ FsSingleton
  BY FS_EmptySet, FS_Singleton DEF FsEmpty, FsSingleton
<1>2. FsCardinality /\ FsSubset
  BY FS_CardinalityType, FS_Subset DEF FsCardinality, FsSubset
<1>3. FsAdd /\ FsRemove
  BY FS_AddElement, FS_RemoveElement DEF FsAdd, FsRemove
<1> QED
  BY <1>1, <1>2, <1>3 DEF FiniteFacts

(* The inductive invariant holds throughout, whatever threads free, map,   *)
(* load, execute and close at once.                                        *)
THEOREM Invariance == Spec => []IInv
<1>1. Init => IInv
  BY FiniteTheory, InitIInv
<1>2. IInv /\ [Next]_vars => IInv'
  BY FiniteTheory, StepIInv
<1> QED
  BY <1>1, <1>2, PTL DEF Spec

(* Without mappings the driver does nothing that it may not do with them:  *)
(* what is proved of Spec holds of the instances TLC checks.               *)
LEMMA UnmappedRefines == UnmappedSpec => Spec
<1>1. [Unmapped]_vars => [Next]_vars
  BY DEF Next
<1> QED
  BY <1>1, PTL DEF UnmappedSpec, Spec

(* The firmware never sees a freed IOVA: memory it may access is not freed *)
(* and a program's section is not even parked, whatever BO_FREE, munmap,   *)
(* close, eviction and failed loads do in between.                         *)
THEOREM NoFreedIova == Spec => []FwNeverSeesFreed
<1>1. IInv => FwNeverSeesFreed
  BY FiniteTheory, NeverFreed
<1> QED
  BY <1>1, Invariance, PTL

(* Identical loads share one firmware program, and its count of users is   *)
(* the number of files that hold it, through every lookup, load and close  *)
(* of ane_t6021_progtab.h.                                                 *)
THEOREM ProgramsShared == Spec => []Shared
<1>1. IInv => Shared
  BY DEF IInv, FwInv, Table
<1> QED
  BY <1>1, Invariance, PTL

(* Until the device is quarantined the program table says what the         *)
(* firmware has, except for the program a close is giving back.            *)
THEOREM TableSoundness == Spec => []TableMatchesFirmware
<1>1. ASSUME IInv PROVE TableMatchesFirmware
  BY <1>1 DEF IInv, FwInv, Table, TableMatchesFirmware, Giving, Live
<1> QED
  BY <1>1, Invariance, PTL

(* Every object's count is its handle, its mappings and its programs, and  *)
(* an object without a reference is in one place only: no release happens  *)
(* twice and the pool and the file's list never share a node.              *)
THEOREM ReferencesExact == Spec => []References
<1>1. IInv => References
  BY FiniteTheory, Referenced
<1> QED
  BY <1>1, Invariance, PTL

(* A program with a process still attached would make the firmware halt:   *)
(* no step takes a program from the firmware before its process is gone.   *)
THEOREM ProcessGoesFirst == Spec => ProcessFirst
<1>1. IInv /\ [Next]_vars
      => [\A i \in Ids : fw.progs[i] # {} /\ fw'.progs[i] = {} => i \notin fw.procs]_vars
  BY DestroyedStep
<1> QED
  BY <1>1, Invariance, PTL DEF Spec, ProcessFirst
=============================================================================
