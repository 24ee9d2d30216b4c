------------------------- MODULE AneT6021ChanProofs -------------------------
(***************************************************************************)
(* Proofs about the two ends of the driver for t6021.  AneT6021Chan, its   *)
(* command channel to the firmware: for rings and tables of every size,    *)
(* every number of commands and every set of buffers; IInv is the          *)
(* inductive invariant behind them.  AneM2 (libane/ane_m2.c), the          *)
(* processes that run programs on it: for any number of processes,         *)
(* programs and sections; M2Inv is the inductive invariant behind them.    *)
(***************************************************************************)
EXTENDS AneT6021Chan, Sequences, FiniteSetTheorems, TLAPS

CONSTANTS Procs, Digests, SecSize, IoDir
VARIABLES stage, ane, held, hw

M2 == INSTANCE AneM2 WITH pc <- stage

(* Where the host counts the requests it answered, and that it sends       *)
(* nothing once the device is quarantined.                                 *)
HostInv ==
    /\ quarantined => pc = "idle"
    /\ pc # "idle" => n >= 1
    /\ pc \notin {"serve", "settle"} => served = 0
    /\ pc = "serve" => served <= MallocSlots
    /\ pc = "settle" => served <= MaxSettle

(* A command slot is the firmware's only while the command is out, at the  *)
(* place both sides look at.                                               *)
CmdInv ==
    /\ \A s \in 0..CmdSlots-1 : io[s].by = "fw" =>
          /\ s = cmd_cursor /\ s = fw.cmd
          /\ pc = "wait" \/ quarantined
          /\ io[s].word \in 1..MaxCalls /\ (~quarantined => io[s].word = n)
    /\ pc # "wait" /\ ~quarantined => fw.cmd = cmd_cursor
    /\ io[cmd_cursor].by = "fw" => fw.cmd = cmd_cursor
    /\ pc = "wait" /\ io[cmd_cursor].by = "host" => fw.cmd = Succ(cmd_cursor, CmdSlots)
    /\ quarantined /\ fw.cmd # cmd_cursor => fw.cmd = Succ(cmd_cursor, CmdSlots)
    /\ quarantined /\ fw.cmd # cmd_cursor => io[cmd_cursor].by = "host"

(* A request slot is the firmware's only while it waits for the answer, and *)
(* what it asks to be freed is no longer its own.                          *)
MallocInv ==
    /\ \A s \in 0..MallocSlots-1 : mring[s].by = "fw" =>
          /\ fw.waiting /\ s = fw.malloc /\ s = malloc_cursor
          /\ mring[s].word \notin fw.has
    /\ IF fw.waiting /\ mring[fw.malloc].by = "host"
       THEN malloc_cursor = Succ(fw.malloc, MallocSlots)
       ELSE malloc_cursor = fw.malloc

(* The firmware has acknowledged the EXEC the host is in.                  *)
Acked ==
    \/ pc = "call"
    \/ /\ pc = "wait" /\ kind = "CALL"
       /\ io[cmd_cursor].by = "host" /\ io[cmd_cursor].word = n

FinishAt(s) == t2h[s].by = "fw" /\ t2h[s].word = "finished"

(* Until a quarantine, only the call the host is in runs, and a finish     *)
(* event in the ring is that call's, the only one, and its last word.      *)
EventInv ==
    /\ ~quarantined =>
          /\ fw.running \subseteq {n}
          /\ fw.running # {} => Acked
          /\ \A s \in 0..EventSlots-1 : FinishAt(s) =>
                Acked /\ n \in fw.finished /\ fw.running = {}
          /\ \A r, s \in 0..EventSlots-1 : FinishAt(r) /\ FinishAt(s) => r = s
    /\ ok \subseteq fw.finished

IInv == TypeOK /\ HostInv /\ CmdInv /\ MallocInv /\ EventInv /\ LegacyTable

-----------------------------------------------------------------------------
(* Facts about the operators. *)

USE ZenonT(30)

(* The next place of a ring is a place of it. *)
LEMMA SuccType ==
  ASSUME NEW size \in Nat \ {0}, NEW c \in 0..size-1
  PROVE  Succ(c, size) \in 0..size-1
BY SMTT(30) DEF Succ

LEMMA SizesType ==
  /\ CmdSlots \in Nat \ {0} /\ MallocSlots \in Nat \ {0} /\ EventSlots \in Nat \ {0}
  /\ Slots \in Nat \ {0} /\ MaxBytes \in Nat \ {0}
  /\ MaxSettle \in Nat /\ MaxCalls \in Nat
BY AneT6021ChanAssumption

(* A set of naturals that is not empty has a least element. *)
LEMMA LeastElement ==
  ASSUME NEW S \in SUBSET Nat, S # {}
  PROVE  \E s \in S : \A r \in S : s <= r
<1> DEFINE Less == {ss \in Nat \X Nat : ss[1] < ss[2]}
<1>1. IsWellFoundedOn(Less, Nat)
  BY NatLessThanWellFounded DEF OpToRel
<1>2. \E s \in S : \A r \in S : ~(<<r, s>> \in Less)
  <2> HIDE DEF Less
  <2> QED
    BY <1>1, WFMin
<1>3. \A r, s \in Nat : r < s => <<r, s>> \in Less
  OBVIOUS
<1> HIDE DEF Less
<1>4. PICK s \in S : \A r \in S : ~(<<r, s>> \in Less)
  BY <1>2
<1>5. \A r \in S : ~(r < s)
  BY <1>3, <1>4
<1> QED
  BY <1>5, SMTT(30)

(* ane_legtab_pick finds a free slot when there is one. *)
LEMMA PickFree ==
  ASSUME Free # {}
  PROVE  Pick \in Free
<1>1. Free \in SUBSET Nat
  BY SizesType, SMTT(30) DEF Free
<1>2. \E s \in Free : \A r \in Free : s <= r
  BY <1>1, LeastElement
<1> QED
  BY <1>2 DEF Pick

LEMMA AllocatedFinite ==
  IsFiniteSet(Allocated) /\ Cardinality(Allocated) \in Nat
<1>1. IsFiniteSet(0..Slots-1)
  BY FS_Interval, SizesType, SMTT(30)
<1>2. IsFiniteSet(Allocated)
  BY <1>1, FS_Subset DEF Allocated
<1> QED
  BY <1>2, FS_CardinalityType

-----------------------------------------------------------------------------
USE SizesType

LEMMA InitIInv == Init => IInv
<1> SUFFICES ASSUME Init PROVE IInv
  OBVIOUS
<1> USE DEF Init, Host
<1>1. TypeOK
  <2>1. /\ table \in [0..Slots-1 -> Dmas \cup {None}] /\ used \in 0..Slots
        /\ bytes \in 0..MaxBytes
    BY AneT6021ChanAssumption, SMTT(30)
  <2>2. /\ io \in [0..CmdSlots-1 -> Rings(1..MaxCalls \cup {None})]
        /\ mring \in [0..MallocSlots-1 -> Rings(Dmas \cup {None})]
        /\ t2h \in [0..EventSlots-1 -> Rings({"started", "finished", None})]
    BY DEF Rings
  <2>3. fw \in [cmd : 0..CmdSlots-1, malloc : 0..MallocSlots-1,
                event : 0..EventSlots-1, waiting : BOOLEAN, has : SUBSET Dmas,
                running : SUBSET (1..MaxCalls), finished : SUBSET (1..MaxCalls)]
    BY SMTT(30)
  <2>4. quarantined \in BOOLEAN
    OBVIOUS
  <2>5. /\ pc \in {"idle", "serve", "wait", "call", "drain", "settle"}
        /\ kind \in Kinds /\ served \in 0..MallocSlots + MaxSettle
        /\ cmd_cursor \in 0..CmdSlots-1 /\ malloc_cursor \in 0..MallocSlots-1
        /\ event_cursor \in 0..EventSlots-1
        /\ n \in 0..MaxCalls /\ ok \subseteq 1..MaxCalls
    BY SMTT(30) DEF Kinds
  <2> QED
    BY <2>1, <2>2, <2>3, <2>4, <2>5 DEF TypeOK
<1>2. HostInv /\ CmdInv /\ MallocInv
  BY DEF HostInv, CmdInv, MallocInv
<1>3. EventInv
  BY DEF EventInv, FinishAt
<1>4. LegacyTable
  <2>1. Allocated = {0}
    BY AneT6021ChanAssumption, SMTT(30) DEF Allocated
  <2>2. Cardinality(Allocated) = 1
    BY <2>1, FS_Singleton
  <2>3. bytes = Cardinality(Allocated)
    BY <2>2
  <2> QED
    BY <2>1, <2>3, SMTT(30) DEF LegacyTable
<1> QED
  BY <1>1, <1>2, <1>3, <1>4 DEF IInv

(* What an answered request does to the table, the ring and the cursor,    *)
(* whichever loop of the host answers it.                                  *)
LEMMA ServiceStep ==
  ASSUME TypeOK, MallocInv, LegacyTable, Service, UNCHANGED fw
  PROVE  /\ table' \in [0..Slots-1 -> Dmas \cup {None}] /\ used' \in 0..Slots
         /\ bytes' \in 0..MaxBytes
         /\ mring' \in [0..MallocSlots-1 -> Rings(Dmas \cup {None})]
         /\ malloc_cursor' \in 0..MallocSlots-1
         /\ MallocInv' /\ LegacyTable'
<1> DEFINE req == mring[malloc_cursor]
<1>a. /\ malloc_cursor \in 0..MallocSlots-1
      /\ mring \in [0..MallocSlots-1 -> Rings(Dmas \cup {None})]
      /\ table \in [0..Slots-1 -> Dmas \cup {None}] /\ used \in 0..Slots
      /\ bytes \in 0..MaxBytes
  BY DEF TypeOK
<1>b. fw.has \subseteq Dmas /\ fw.malloc \in 0..MallocSlots-1
  BY DEF TypeOK
<1>c. Posted
  BY DEF Service, service_malloc, service_free
<1>d. /\ fw.waiting /\ malloc_cursor = fw.malloc
      /\ req.word \notin fw.has
  BY <1>a, <1>c DEF Posted, Request, MallocInv
<1>e. \A s \in 0..MallocSlots-1 : mring[s].by = "fw" => s = malloc_cursor
  BY <1>a, <1>c DEF Posted, Request, MallocInv
<1>1. ASSUME NEW w \in Dmas \cup {None}, Answer(w)
      PROVE  /\ mring' \in [0..MallocSlots-1 -> Rings(Dmas \cup {None})]
             /\ malloc_cursor' \in 0..MallocSlots-1
             /\ MallocInv'
             /\ mring'[fw'.malloc].by = "host" /\ mring'[fw'.malloc].word = w
  <2>1. mring' = [mring EXCEPT ![malloc_cursor] = [by |-> "host", word |-> w]]
    BY <1>1 DEF Answer
  <2>2. malloc_cursor' = Succ(malloc_cursor, MallocSlots)
    BY <1>1 DEF Answer
  <2>3. mring' \in [0..MallocSlots-1 -> Rings(Dmas \cup {None})]
    BY <1>a, <2>1 DEF Rings
  <2>4. malloc_cursor' \in 0..MallocSlots-1
    BY <1>a, <2>2, SuccType
  <2>5. \A s \in 0..MallocSlots-1 : mring'[s].by # "fw"
    BY <1>a, <1>e, <2>1
  <2>6. mring'[fw'.malloc].by = "host" /\ mring'[fw'.malloc].word = w
    BY <1>a, <1>d, <2>1
  <2>7. MallocInv'
    BY <1>d, <2>2, <2>5, <2>6 DEF MallocInv
  <2> QED
    BY <2>3, <2>4, <2>6, <2>7
<1>2. CASE service_malloc
  <2>1. PICK d \in Dmas \ {table[s] : s \in 0..Slots-1} :
          /\ table' = [table EXCEPT ![Pick] = d]
          /\ used' = IF Pick = used THEN used + 1 ELSE used
          /\ bytes' = bytes + 1
          /\ Answer(d)
    BY <1>2 DEF service_malloc
  <2>2. CanAlloc
    BY <1>2 DEF service_malloc
  <2>3. Pick \in 0..Slots-1 /\ table[Pick] = None /\ Pick <= used
    BY <2>2, PickFree DEF CanAlloc, Free
  <2>4. d # None /\ \A s \in 0..Slots-1 : table[s] # d
    BY <2>1, AneT6021ChanAssumption
  <2>5. Allocated' = Allocated \cup {Pick} /\ Pick \notin Allocated
    BY <1>a, <2>1, <2>3, <2>4 DEF Allocated
  <2>6. bytes' = Cardinality(Allocated')
    <3>1. Cardinality(Allocated \cup {Pick}) = Cardinality(Allocated) + 1
      BY <2>5, AllocatedFinite, FS_AddElement
    <3> QED
      BY <2>1, <2>5, <3>1 DEF LegacyTable
  <2>7. table' \in [0..Slots-1 -> Dmas \cup {None}] /\ used' \in 0..Slots
    BY <1>a, <2>1, <2>3, SMTT(30)
  <2>8. bytes' \in 0..MaxBytes
    BY <1>a, <2>1, <2>2, SMTT(30) DEF CanAlloc
  <2>9. /\ mring' \in [0..MallocSlots-1 -> Rings(Dmas \cup {None})]
        /\ malloc_cursor' \in 0..MallocSlots-1
        /\ MallocInv'
        /\ mring'[fw'.malloc].by = "host" /\ mring'[fw'.malloc].word = d
    BY <1>1, <2>1
  <2>10. \A s \in Allocated : table'[s] = table[s]
    BY <1>a, <2>1, <2>5 DEF Allocated
  <2>11. table'[Pick] = d
    BY <1>a, <2>1, <2>3
  <2>12. \A e \in fw'.has \cup {CmdBuf} : \E s \in Allocated' : table'[s] = e
    BY <2>5, <2>10 DEF LegacyTable
  <2>13. \E s \in Allocated' : table'[s] = mring'[fw'.malloc].word
    BY <2>5, <2>9, <2>11
  <2>14. \A s, r \in Allocated' : table'[s] = table'[r] => s = r
    BY <2>4, <2>5, <2>10, <2>11, SMTT(30) DEF LegacyTable, Allocated
  <2>15. \A s \in Allocated' : s < used'
    BY <1>a, <2>1, <2>3, <2>5, SMTT(30) DEF LegacyTable, Allocated
  <2>16. LegacyTable'
    BY <2>6, <2>12, <2>13, <2>14, <2>15 DEF LegacyTable
  <2> QED
    BY <2>7, <2>8, <2>9, <2>16
<1>3. CASE service_free
  <2> DEFINE found == {s \in 0..used-1 : table[s] = Request.word
                                         /\ table[s] # CmdBuf}
  <2>1. /\ Request.word # None
        /\ table' = [s \in 0..Slots-1 |-> IF s \in found THEN None ELSE table[s]]
        /\ bytes' = bytes - Cardinality(found)
        /\ used' = used
        /\ Answer(None)
    BY <1>3 DEF service_free
  <2>2. /\ mring' \in [0..MallocSlots-1 -> Rings(Dmas \cup {None})]
        /\ malloc_cursor' \in 0..MallocSlots-1
        /\ MallocInv'
        /\ mring'[fw'.malloc].by = "host" /\ mring'[fw'.malloc].word = None
    BY <1>1, <2>1
  <2>3. found \subseteq Allocated
    BY <1>a, <2>1, SMTT(30) DEF Allocated
  <2>4. Allocated' = Allocated \ found
    BY <1>a, <2>1 DEF Allocated
  <2>5. \A s \in Allocated' : s \in Allocated /\ table'[s] = table[s]
    BY <2>1, <2>4 DEF Allocated
  <2>6. bytes' = Cardinality(Allocated')
    <3>1. Cardinality(Allocated \ found) = Cardinality(Allocated) - Cardinality(Allocated \cap found)
      BY AllocatedFinite, FS_Difference
    <3>2. Allocated \cap found = found
      BY <2>3
    <3> QED
      BY <2>1, <2>4, <3>1, <3>2 DEF LegacyTable
  <2>7. bytes' \in 0..MaxBytes
    <3>1. Cardinality(found) \in Nat /\ Cardinality(Allocated') \in Nat
      <4>1. IsFiniteSet(found) /\ IsFiniteSet(Allocated \ found)
        BY <2>3, AllocatedFinite, FS_Subset
      <4> QED
        BY <2>4, <4>1, FS_CardinalityType
    <3>2. bytes' = bytes - Cardinality(found)
      BY <2>1
    <3> HIDE DEF found
    <3> QED
      BY <1>a, <2>6, <3>1, <3>2, SMTT(30)
  <2>8. table' \in [0..Slots-1 -> Dmas \cup {None}] /\ used' \in 0..Slots
    BY <1>a, <2>1
  <2>9. \A e \in fw'.has \cup {CmdBuf} : \E s \in Allocated' : table'[s] = e
    <3> SUFFICES ASSUME NEW e \in fw.has \cup {CmdBuf}
                 PROVE  \E s \in Allocated' : table'[s] = e
      OBVIOUS
    <3>1. PICK s \in Allocated : table[s] = e
      BY DEF LegacyTable
    <3>2. s \notin found
      BY <1>d, <3>1 DEF Request
    <3> QED
      BY <2>4, <2>5, <3>1, <3>2
  <2>10. \A s, r \in Allocated' : table'[s] = table'[r] => s = r
    BY <2>5 DEF LegacyTable
  <2>11. \A s \in Allocated' : s < used'
    BY <2>1, <2>5 DEF LegacyTable
  <2>12. LegacyTable'
    BY <2>2, <2>6, <2>9, <2>10, <2>11 DEF LegacyTable
  <2> QED
    BY <2>2, <2>7, <2>8, <2>12
<1> QED
  BY <1>2, <1>3 DEF Service

-----------------------------------------------------------------------------
(* The parts of the type invariant, by who writes them. *)
HostType ==
    /\ pc \in {"idle", "serve", "wait", "call", "drain", "settle"}
    /\ kind \in Kinds /\ served \in 0..MallocSlots + MaxSettle
    /\ quarantined \in BOOLEAN
    /\ n \in 0..MaxCalls /\ ok \subseteq 1..MaxCalls
CursorType ==
    /\ cmd_cursor \in 0..CmdSlots-1 /\ malloc_cursor \in 0..MallocSlots-1
    /\ event_cursor \in 0..EventSlots-1
TableType ==
    /\ table \in [0..Slots-1 -> Dmas \cup {None}] /\ used \in 0..Slots
    /\ bytes \in 0..MaxBytes
RingType ==
    /\ io \in [0..CmdSlots-1 -> Rings(1..MaxCalls \cup {None})]
    /\ mring \in [0..MallocSlots-1 -> Rings(Dmas \cup {None})]
    /\ t2h \in [0..EventSlots-1 -> Rings({"started", "finished", None})]
FwType ==
    fw \in [cmd : 0..CmdSlots-1, malloc : 0..MallocSlots-1,
            event : 0..EventSlots-1, waiting : BOOLEAN, has : SUBSET Dmas,
            running : SUBSET (1..MaxCalls), finished : SUBSET (1..MaxCalls)]

LEMMA TypeParts ==
  TypeOK <=> HostType /\ CursorType /\ TableType /\ RingType /\ FwType
BY DEF TypeOK, HostType, CursorType, TableType, RingType, FwType

LEMMA TypePartsNext ==
  TypeOK' <=> HostType' /\ CursorType' /\ TableType' /\ RingType' /\ FwType'
BY DEF TypeOK, HostType, CursorType, TableType, RingType, FwType

(* A conjunct of the invariant whose variables do not change. *)
LEMMA Frame ==
  /\ CursorType /\ UNCHANGED <<cmd_cursor, malloc_cursor, event_cursor>> => CursorType'
  /\ TableType /\ UNCHANGED tabVars => TableType'
  /\ RingType /\ UNCHANGED <<io, mring, t2h>> => RingType'
  /\ FwType /\ UNCHANGED fw => FwType'
  /\ CmdInv /\ UNCHANGED <<io, cmd_cursor, fw, pc, quarantined, n>> => CmdInv'
  /\ MallocInv /\ UNCHANGED <<mring, fw, malloc_cursor>> => MallocInv'
  /\ LegacyTable /\ UNCHANGED <<fw, table, used, bytes, mring>> => LegacyTable'
<1>1. CursorType /\ UNCHANGED <<cmd_cursor, malloc_cursor, event_cursor>> => CursorType'
  BY DEF CursorType
<1>2. TableType /\ UNCHANGED tabVars => TableType'
  BY DEF TableType, tabVars
<1>3. RingType /\ UNCHANGED <<io, mring, t2h>> => RingType'
  BY DEF RingType
<1>4. FwType /\ UNCHANGED fw => FwType'
  BY DEF FwType
<1>5. CmdInv /\ UNCHANGED <<io, cmd_cursor, fw, pc, quarantined, n>> => CmdInv'
  BY SMTT(30) DEF CmdInv
<1>6. MallocInv /\ UNCHANGED <<mring, fw, malloc_cursor>> => MallocInv'
  BY DEF MallocInv
<1>7. LegacyTable /\ UNCHANGED <<fw, table, used, bytes, mring>> => LegacyTable'
  BY SMTT(30) DEF LegacyTable, Allocated
<1> QED
  BY <1>1, <1>2, <1>3, <1>4, <1>5, <1>6, <1>7

(* A failed command: the host is out of the call and the device is         *)
(* quarantined, so that whatever the firmware still does concerns nobody.  *)
LEMMA FailStep ==
  ASSUME IInv, Fail, n' \in 0..MaxCalls, kind' \in Kinds, pc # "idle" \/ ~quarantined,
         UNCHANGED <<cmd_cursor, io, fw, ok>>
  PROVE  HostType' /\ HostInv' /\ CmdInv' /\ EventInv'
<1>1. HostType'
  BY SMTT(30) DEF Fail, IInv, TypeOK, HostType
<1>2. HostInv'
  BY DEF Fail, HostInv
<1>3. CmdInv'
  <2>1. io[cmd_cursor].by \in {"host", "fw"}
    BY DEF IInv, TypeOK, Rings
  <2> QED
    BY <2>1 DEF Fail, IInv, CmdInv, HostInv
<1>4. EventInv'
  BY DEF Fail, IInv, EventInv
<1> QED
  BY <1>1, <1>2, <1>3, <1>4

-----------------------------------------------------------------------------
(* The host's steps. *)

LEMMA CommandStep ==
  ASSUME IInv, NEW k \in Kinds, command(k)
  PROVE  IInv'
<1> USE DEF command
<1>1. TypeOK /\ HostType /\ CursorType /\ TableType /\ RingType /\ FwType
  BY TypeParts DEF IInv
<1>2. n' \in 0..MaxCalls /\ kind' \in Kinds /\ n' >= 1
  BY <1>1, SMTT(30) DEF HostType
<1>3. CursorType' /\ TableType' /\ RingType' /\ FwType' /\ MallocInv' /\ LegacyTable'
  BY <1>1, Frame DEF IInv, tabVars
<1>4. CASE Fail
  <2>1. HostType' /\ HostInv' /\ CmdInv' /\ EventInv'
    BY <1>2, <1>4, FailStep
  <2> QED
    BY <1>3, <2>1, TypePartsNext DEF IInv
<1>5. CASE /\ io[cmd_cursor].by = "host"
           /\ pc' = "serve" /\ UNCHANGED <<served, quarantined>>
  <2>1. HostType'
    BY <1>1, <1>2, <1>5 DEF HostType
  <2>2. HostInv'
    BY <1>2, <1>5, SMTT(30) DEF IInv, HostInv
  <2>3. CmdInv'
    BY <1>5 DEF IInv, CmdInv
  <2>4. EventInv'
    BY <1>5 DEF IInv, EventInv, Acked, FinishAt
  <2> QED
    BY <1>3, <2>1, <2>2, <2>3, <2>4, TypePartsNext DEF IInv
<1> QED
  BY <1>4, <1>5

LEMMA ServeBeforeStep ==
  ASSUME IInv, serve_before
  PROVE  IInv'
<1> USE DEF serve_before
<1>1. TypeOK /\ HostType /\ CursorType /\ TableType /\ RingType /\ FwType
  BY TypeParts DEF IInv
<1>2. FwType'
  BY <1>1, Frame
<1>3. CASE ServiceFails
  <2>1. HostType' /\ HostInv' /\ CmdInv' /\ EventInv'
    BY <1>1, <1>3, FailStep DEF ServiceFails, HostType
  <2>2. CursorType' /\ TableType' /\ RingType' /\ MallocInv' /\ LegacyTable'
    BY <1>1, <1>3, Frame DEF IInv, tabVars, ServiceFails
  <2> QED
    BY <1>2, <2>1, <2>2, TypePartsNext DEF IInv
<1>4. CASE Service /\ served' = served + 1 /\ UNCHANGED <<pc, quarantined>>
  <2>1. /\ TableType' /\ MallocInv' /\ LegacyTable'
        /\ mring' \in [0..MallocSlots-1 -> Rings(Dmas \cup {None})]
        /\ malloc_cursor' \in 0..MallocSlots-1
    BY <1>1, <1>4, ServiceStep DEF IInv, TableType
  <2>2. CursorType' /\ RingType'
    BY <1>1, <2>1 DEF CursorType, RingType
  <2>3. HostType' /\ HostInv'
    BY <1>1, <1>4, SMTT(30) DEF IInv, HostType, HostInv
  <2>4. CmdInv'
    BY <1>4, Frame DEF IInv
  <2>5. EventInv'
    BY <1>4 DEF IInv, EventInv, Acked, FinishAt
  <2> QED
    BY <1>2, <2>1, <2>2, <2>3, <2>4, <2>5, TypePartsNext DEF IInv
<1> QED
  BY <1>3, <1>4

LEMMA PostStep ==
  ASSUME IInv, post
  PROVE  IInv'
<1> USE DEF post
<1>1. TypeOK /\ HostType /\ CursorType /\ TableType /\ RingType /\ FwType
  BY TypeParts DEF IInv
<1>2. CursorType' /\ TableType' /\ FwType' /\ MallocInv' /\ LegacyTable'
  BY <1>1, Frame DEF IInv, tabVars
<1>3. ~quarantined /\ n \in 1..MaxCalls /\ fw.cmd = cmd_cursor
  BY <1>1, SMTT(30) DEF IInv, HostInv, CmdInv, HostType
<1>4. RingType'
  BY <1>1, <1>3 DEF RingType, CursorType, Slot, Rings
<1>5. HostType' /\ HostInv'
  BY <1>1, <1>3, SMTT(30) DEF HostType, HostInv
<1>6. CmdInv'
  BY <1>1, <1>3 DEF IInv, CmdInv, Slot, RingType, CursorType
<1>7. EventInv'
  <2>1. ~Acked
    BY DEF Acked
  <2> QED
    BY <1>3, <2>1 DEF IInv, EventInv, FinishAt
<1> QED
  BY <1>2, <1>4, <1>5, <1>6, <1>7, TypePartsNext DEF IInv

LEMMA WaitServeStep ==
  ASSUME IInv, wait_serve
  PROVE  IInv'
<1> USE DEF wait_serve
<1>1. TypeOK /\ HostType /\ CursorType /\ TableType /\ RingType /\ FwType
  BY TypeParts DEF IInv
<1>2. FwType'
  BY <1>1, Frame
<1>3. CASE ServiceFails
  <2>1. HostType' /\ HostInv' /\ CmdInv' /\ EventInv'
    BY <1>1, <1>3, FailStep DEF ServiceFails, HostType
  <2>2. CursorType' /\ TableType' /\ RingType' /\ MallocInv' /\ LegacyTable'
    BY <1>1, <1>3, Frame DEF IInv, tabVars, ServiceFails
  <2> QED
    BY <1>2, <2>1, <2>2, TypePartsNext DEF IInv
<1>4. CASE Service /\ UNCHANGED <<pc, served, quarantined>>
  <2>1. /\ TableType' /\ MallocInv' /\ LegacyTable'
        /\ mring' \in [0..MallocSlots-1 -> Rings(Dmas \cup {None})]
        /\ malloc_cursor' \in 0..MallocSlots-1
    BY <1>1, <1>4, ServiceStep DEF IInv, TableType
  <2>2. CursorType' /\ RingType'
    BY <1>1, <2>1 DEF CursorType, RingType
  <2>3. HostType' /\ HostInv'
    BY <1>1, <1>4 DEF IInv, HostType, HostInv
  <2>4. CmdInv'
    BY <1>4, Frame DEF IInv
  <2>5. EventInv'
    BY <1>4 DEF IInv, EventInv, Acked, FinishAt
  <2> QED
    BY <1>2, <2>1, <2>2, <2>3, <2>4, <2>5, TypePartsNext DEF IInv
<1> QED
  BY <1>3, <1>4

LEMMA WaitReplyStep ==
  ASSUME IInv, wait_reply
  PROVE  IInv'
<1> USE DEF wait_reply
<1>1. TypeOK /\ HostType /\ CursorType /\ TableType /\ RingType /\ FwType
  BY TypeParts DEF IInv
<1>2. TableType' /\ RingType' /\ FwType' /\ MallocInv' /\ LegacyTable'
  BY <1>1, Frame DEF IInv, tabVars
<1>3. CursorType'
  BY <1>1, SuccType DEF CursorType
<1>4. ~quarantined /\ cmd_cursor' = fw'.cmd
  BY DEF IInv, HostInv, CmdInv
<1>5. \A s \in 0..CmdSlots-1 : io[s].by # "fw"
  BY DEF IInv, CmdInv
<1>6. CmdInv'
  <2>1. pc' # "wait"
    BY DEF Fail
  <2> QED
    BY <1>3, <1>4, <1>5, <2>1 DEF CmdInv, CursorType
<1>7. HostType' /\ HostInv'
  BY <1>1 DEF IInv, HostType, HostInv, Fail
<1>8. EventInv'
  <2>1. CASE io[cmd_cursor].word = n
    <3>1. Acked => kind = "CALL"
      BY DEF Acked
    <3>2. kind = "CALL" => Acked'
      BY <2>1 DEF Acked
    <3> QED
      BY <2>1, <3>1, <3>2 DEF IInv, EventInv, FinishAt
  <2>2. CASE io[cmd_cursor].word # n
    BY <2>2 DEF IInv, EventInv, Fail
  <2> QED
    BY <2>1, <2>2
<1> QED
  BY <1>2, <1>3, <1>6, <1>7, <1>8, TypePartsNext DEF IInv

LEMMA TimeoutStep ==
  ASSUME IInv, timeout
  PROVE  IInv'
<1> USE DEF timeout
<1>1. TypeOK /\ HostType /\ CursorType /\ TableType /\ RingType /\ FwType
  BY TypeParts DEF IInv
<1>2. /\ CursorType' /\ TableType' /\ RingType' /\ FwType' /\ MallocInv'
      /\ LegacyTable'
  BY <1>1, Frame DEF IInv, tabVars
<1>3. HostType' /\ HostInv' /\ CmdInv' /\ EventInv'
  BY <1>1, FailStep DEF HostType
<1> QED
  BY <1>2, <1>3, TypePartsNext DEF IInv

LEMMA DrainStep ==
  ASSUME IInv, drain_t2h
  PROVE  IInv'
<1> USE DEF drain_t2h
<1> DEFINE ends == pc = "call" /\ t2h[event_cursor].word = "finished"
<1>1. TypeOK /\ HostType /\ CursorType /\ TableType /\ RingType /\ FwType
  BY TypeParts DEF IInv
<1>2. TableType' /\ FwType' /\ MallocInv' /\ LegacyTable'
  BY <1>1, Frame DEF IInv, tabVars
<1>3. CursorType'
  BY <1>1, SuccType DEF CursorType
<1>4. RingType'
  BY <1>1 DEF RingType, CursorType, Rings, Host
<1>5. ~quarantined /\ n \in 1..MaxCalls
  BY <1>1, SMTT(30) DEF IInv, HostInv, HostType
<1>6. ends => n \in fw.finished /\ fw.running = {}
  BY <1>1, <1>5 DEF IInv, EventInv, FinishAt, CursorType
<1>7. HostType' /\ HostInv'
  <2>1. pc' \in {"call", "drain"} /\ ok' \subseteq 1..MaxCalls
    BY <1>1, <1>5 DEF HostType
  <2> QED
    BY <1>1, <1>5, <2>1 DEF IInv, HostType, HostInv
<1>8. CmdInv'
  BY DEF IInv, CmdInv
<1>9. EventInv'
  <2>1. \A s \in 0..EventSlots-1 : FinishAt(s)' => FinishAt(s) /\ s # event_cursor
    BY <1>1 DEF FinishAt, RingType, CursorType, Host
  <2>2. CASE ends
    <3>1. FinishAt(event_cursor) /\ event_cursor \in 0..EventSlots-1
      BY <1>1, <2>2 DEF FinishAt, CursorType
    <3>2. \A s \in 0..EventSlots-1 : ~FinishAt(s)'
      BY <1>5, <2>1, <3>1 DEF IInv, EventInv
    <3>3. ok' \subseteq fw'.finished
      BY <1>6, <2>2 DEF IInv, EventInv
    <3> QED
      BY <1>6, <2>2, <3>2, <3>3 DEF EventInv
  <2>3. CASE ~ends
    <3>1. UNCHANGED <<pc, ok>>
      BY <2>3
    <3>2. Acked' = Acked
      BY <3>1 DEF Acked
    <3> QED
      BY <1>5, <2>1, <3>1, <3>2 DEF IInv, EventInv
  <2> QED
    BY <2>2, <2>3
<1> QED
  BY <1>2, <1>3, <1>4, <1>7, <1>8, <1>9, TypePartsNext DEF IInv

LEMMA DrainedStep ==
  ASSUME IInv, drained
  PROVE  IInv'
<1> USE DEF drained
<1>1. TypeOK /\ HostType /\ CursorType /\ TableType /\ RingType /\ FwType
  BY TypeParts DEF IInv
<1>2. /\ CursorType' /\ TableType' /\ RingType' /\ FwType' /\ MallocInv'
      /\ LegacyTable'
  BY <1>1, Frame DEF IInv, tabVars
<1>3. HostType' /\ HostInv'
  BY <1>1, SMTT(30) DEF IInv, HostType, HostInv
<1>4. CmdInv'
  BY DEF IInv, CmdInv
<1>5. EventInv'
  BY DEF IInv, EventInv, Acked, FinishAt
<1> QED
  BY <1>2, <1>3, <1>4, <1>5, TypePartsNext DEF IInv

LEMMA SettleStep ==
  ASSUME IInv, malloc_settle
  PROVE  IInv'
<1> USE DEF malloc_settle
<1>1. TypeOK /\ HostType /\ CursorType /\ TableType /\ RingType /\ FwType
  BY TypeParts DEF IInv
<1>2. FwType'
  BY <1>1, Frame
<1>3. CASE ServiceFails
  <2>1. HostType' /\ HostInv' /\ CmdInv' /\ EventInv'
    BY <1>1, <1>3, FailStep DEF ServiceFails, HostType
  <2>2. CursorType' /\ TableType' /\ RingType' /\ MallocInv' /\ LegacyTable'
    BY <1>1, <1>3, Frame DEF IInv, tabVars, ServiceFails
  <2> QED
    BY <1>2, <2>1, <2>2, TypePartsNext DEF IInv
<1>4. CASE Service /\ IF served < MaxSettle
                      THEN served' = served + 1 /\ UNCHANGED <<pc, quarantined>>
                      ELSE Fail
  <2>1. /\ TableType' /\ MallocInv' /\ LegacyTable'
        /\ mring' \in [0..MallocSlots-1 -> Rings(Dmas \cup {None})]
        /\ malloc_cursor' \in 0..MallocSlots-1
    BY <1>1, <1>4, ServiceStep DEF IInv, TableType
  <2>2. CursorType' /\ RingType'
    BY <1>1, <2>1 DEF CursorType, RingType
  <2>3. CASE served < MaxSettle
    <3>1. HostType' /\ HostInv'
      BY <1>1, <1>4, <2>3, SMTT(30) DEF IInv, HostType, HostInv
    <3>2. CmdInv'
      BY <1>4, <2>3, Frame DEF IInv
    <3>3. EventInv'
      BY <1>4, <2>3 DEF IInv, EventInv, Acked, FinishAt
    <3> QED
      BY <1>2, <2>1, <2>2, <3>1, <3>2, <3>3, TypePartsNext DEF IInv
  <2>4. CASE ~(served < MaxSettle)
    <3>1. HostType' /\ HostInv' /\ CmdInv' /\ EventInv'
      BY <1>1, <1>4, <2>4, FailStep DEF HostType
    <3> QED
      BY <1>2, <2>1, <2>2, <3>1, TypePartsNext DEF IInv
  <2> QED
    BY <2>3, <2>4
<1>5. CASE /\ ~Posted /\ pc' = "idle" /\ served' = 0
           /\ UNCHANGED <<quarantined, tabVars, mring, malloc_cursor>>
  <2>1. CursorType' /\ TableType' /\ RingType' /\ MallocInv' /\ LegacyTable'
    BY <1>1, <1>5, Frame DEF IInv, tabVars
  <2>2. HostType' /\ HostInv'
    BY <1>1, <1>5, SMTT(30) DEF IInv, HostType, HostInv
  <2>3. CmdInv'
    BY <1>5 DEF IInv, CmdInv
  <2>4. EventInv'
    BY <1>5 DEF IInv, EventInv, Acked, FinishAt
  <2> QED
    BY <1>2, <2>1, <2>2, <2>3, <2>4, TypePartsNext DEF IInv
<1> QED
  BY <1>3, <1>4, <1>5

-----------------------------------------------------------------------------
(* The firmware's steps. *)

LEMMA FwRequestStep ==
  ASSUME IInv, fw_request
  PROVE  IInv'
<1>1. TypeOK /\ HostType /\ CursorType /\ TableType /\ RingType /\ FwType
  BY TypeParts DEF IInv
<1>2. PICK w \in {None, CmdBuf} \cup fw.has :
        /\ mring' = [mring EXCEPT ![fw.malloc] = Slot(w)]
        /\ fw' = [fw EXCEPT !.waiting = TRUE, !.has = @ \ {w}]
  BY DEF fw_request
<1>3. /\ ~fw.waiting /\ mring[fw.malloc].by = "host"
      /\ UNCHANGED <<pc, kind, served, quarantined, n, ok, cmd_cursor, malloc_cursor,
                     event_cursor, table, used, bytes, io, t2h>>
  BY DEF fw_request, hostVars, tabVars
<1>4. w \in Dmas \cup {None} /\ fw.malloc \in 0..MallocSlots-1
  BY <1>1, AneT6021ChanAssumption DEF FwType
<1>5. FwType'
  BY <1>1, <1>2, <1>4 DEF FwType
<1>6. RingType'
  BY <1>1, <1>2, <1>3, <1>4 DEF RingType, Rings, Slot
<1>7. CursorType' /\ TableType' /\ HostType' /\ HostInv'
  BY <1>1, <1>3 DEF IInv, CursorType, TableType, HostType, HostInv
<1>8. /\ fw'.cmd = fw.cmd /\ fw'.running = fw.running /\ fw'.finished = fw.finished
      /\ fw'.malloc = fw.malloc /\ fw'.waiting /\ fw'.has = fw.has \ {w}
  BY <1>1, <1>2 DEF FwType
<1>9. CmdInv'
  BY <1>3, <1>8 DEF IInv, CmdInv
<1>10. EventInv'
  BY <1>3, <1>8, SMTT(30) DEF IInv, EventInv, Acked, FinishAt
<1>11. MallocInv'
  <2>1. \A s \in 0..MallocSlots-1 : mring'[s].by = "fw" => s = fw.malloc
    BY <1>1, <1>2, <1>3 DEF IInv, MallocInv, RingType
  <2>2. mring'[fw.malloc].by = "fw" /\ mring'[fw.malloc].word = w
    BY <1>1, <1>2, <1>4 DEF RingType, Slot
  <2>3. malloc_cursor = fw.malloc
    BY <1>3 DEF IInv, MallocInv
  <2> QED
    BY <1>3, <1>8, <2>1, <2>2, <2>3 DEF MallocInv
<1>12. LegacyTable'
  <2>1. mring'[fw'.malloc].by = "fw"
    BY <1>1, <1>2, <1>4, <1>8 DEF RingType, Slot
  <2> QED
    BY <1>3, <1>8, <2>1 DEF IInv, LegacyTable, Allocated
<1> QED
  BY <1>5, <1>6, <1>7, <1>9, <1>10, <1>11, <1>12, TypePartsNext DEF IInv

LEMMA FwAnsweredStep ==
  ASSUME IInv, fw_answered
  PROVE  IInv'
<1>1. TypeOK /\ HostType /\ CursorType /\ TableType /\ RingType /\ FwType
  BY TypeParts DEF IInv
<1> DEFINE w == mring[fw.malloc].word
<1>2. /\ fw.waiting /\ mring[fw.malloc].by = "host"
      /\ fw' = [fw EXCEPT !.waiting = FALSE, !.malloc = Succ(@, MallocSlots),
                          !.has = @ \cup ({w} \ {None})]
      /\ UNCHANGED <<pc, kind, served, quarantined, n, ok, cmd_cursor, malloc_cursor,
                     event_cursor, table, used, bytes, io, mring, t2h>>
  BY DEF fw_answered, hostVars, tabVars
<1>3. w \in Dmas \cup {None} /\ fw.malloc \in 0..MallocSlots-1
  BY <1>1 DEF FwType, RingType, Rings
<1>4. Succ(fw.malloc, MallocSlots) \in 0..MallocSlots-1
  BY <1>3, SuccType
<1>5. FwType'
  BY <1>1, <1>2, <1>3, <1>4 DEF FwType
<1>6. RingType' /\ CursorType' /\ TableType' /\ HostType' /\ HostInv'
  BY <1>1, <1>2 DEF IInv, RingType, CursorType, TableType, HostType, HostInv
<1>7. /\ fw'.cmd = fw.cmd /\ fw'.running = fw.running /\ fw'.finished = fw.finished
      /\ fw'.malloc = Succ(fw.malloc, MallocSlots) /\ ~fw'.waiting
      /\ fw'.has = fw.has \cup ({w} \ {None})
  BY <1>1, <1>2 DEF FwType
<1>8. CmdInv'
  BY <1>2, <1>7 DEF IInv, CmdInv
<1>9. EventInv'
  BY <1>2, <1>7, SMTT(30) DEF IInv, EventInv, Acked, FinishAt
<1>10. MallocInv'
  <2>1. malloc_cursor = Succ(fw.malloc, MallocSlots)
    BY <1>2 DEF IInv, MallocInv
  <2>2. \A s \in 0..MallocSlots-1 : mring[s].by # "fw"
    BY <1>2 DEF IInv, MallocInv
  <2> QED
    BY <1>2, <1>7, <2>1, <2>2 DEF MallocInv
<1>11. LegacyTable'
  BY <1>2, <1>7, SMTT(30) DEF IInv, LegacyTable, Allocated
<1> QED
  BY <1>5, <1>6, <1>8, <1>9, <1>10, <1>11, TypePartsNext DEF IInv

LEMMA FwAckStep ==
  ASSUME IInv, fw_ack
  PROVE  IInv'
<1> DEFINE c == io[fw.cmd].word
<1>1. TypeOK /\ HostType /\ CursorType /\ TableType /\ RingType /\ FwType
  BY TypeParts DEF IInv
<1>2. PICK good \in BOOLEAN :
        /\ io' = [io EXCEPT ![fw.cmd] =
                    [by |-> "host", word |-> IF good THEN c ELSE None]]
        /\ fw' = [fw EXCEPT !.cmd = Succ(@, CmdSlots),
                    !.running = IF good /\ kind = "CALL" THEN @ \cup {c} ELSE @]
  BY DEF fw_ack
<1>3. /\ io[fw.cmd].by = "fw"
      /\ UNCHANGED <<pc, kind, served, quarantined, n, ok, cmd_cursor, malloc_cursor,
                     event_cursor, table, used, bytes, mring, t2h>>
  BY DEF fw_ack, hostVars, tabVars
<1>4. fw.cmd \in 0..CmdSlots-1 /\ c \in 1..MaxCalls \cup {None}
  BY <1>1 DEF FwType, RingType, Rings
<1>6. c \in 1..MaxCalls
  BY <1>3, <1>4 DEF IInv, CmdInv
<1>7. Succ(fw.cmd, CmdSlots) \in 0..CmdSlots-1
  BY <1>4, SuccType
<1>8. FwType'
  BY <1>1, <1>2, <1>6, <1>7 DEF FwType
<1>9. RingType'
  BY <1>1, <1>2, <1>3, <1>4 DEF RingType, Rings
<1>10. CursorType' /\ TableType' /\ HostType' /\ HostInv'
  BY <1>1, <1>3 DEF IInv, CursorType, TableType, HostType, HostInv
<1>11. /\ fw'.cmd = Succ(fw.cmd, CmdSlots) /\ fw'.finished = fw.finished
       /\ fw'.running = IF good /\ kind = "CALL" THEN fw.running \cup {c}
                        ELSE fw.running
       /\ fw'.malloc = fw.malloc /\ fw'.waiting = fw.waiting /\ fw'.has = fw.has
  BY <1>1, <1>2 DEF FwType
<1>12. /\ fw.cmd = cmd_cursor
       /\ io'[cmd_cursor].by = "host"
       /\ io'[cmd_cursor].word = IF good THEN c ELSE None
  BY <1>1, <1>2, <1>3, <1>4 DEF IInv, CmdInv, RingType
<1>13. \A s \in 0..CmdSlots-1 : io'[s].by # "fw"
  BY <1>1, <1>2, <1>3, <1>4 DEF IInv, CmdInv, RingType
<1>14. CmdInv'
  <2>1. pc = "wait" \/ quarantined
    BY <1>3, <1>4 DEF IInv, CmdInv
  <2> QED
    BY <1>3, <1>10, <1>11, <1>12, <1>13, <2>1 DEF CmdInv, CursorType, IInv, HostInv
<1>15. MallocInv' /\ LegacyTable'
  BY <1>3, <1>11 DEF IInv, MallocInv, LegacyTable, Allocated
<1>16. EventInv'
  <2>1. ok' \subseteq fw'.finished
    BY <1>3, <1>11 DEF IInv, EventInv
  <2>2. CASE quarantined
    BY <1>3, <2>1, <2>2 DEF EventInv
  <2>3. CASE ~quarantined
    <3>1. pc = "wait" /\ c = n /\ ~Acked
      BY <1>3, <1>4, <1>12, <2>3 DEF IInv, CmdInv, Acked
    <3>2. fw.running = {} /\ \A s \in 0..EventSlots-1 : ~FinishAt(s)'
      BY <1>3, <2>3, <3>1 DEF IInv, EventInv, FinishAt
    <3>3. fw'.running \subseteq {n}
      BY <1>11, <3>1, <3>2
    <3>4. fw'.running # {} => Acked'
      BY <1>3, <1>11, <1>12, <3>1, <3>2 DEF Acked
    <3> QED
      BY <1>3, <2>1, <3>2, <3>3, <3>4 DEF EventInv
  <2> QED
    BY <2>2, <2>3
<1> QED
  BY <1>8, <1>9, <1>10, <1>14, <1>15, <1>16, TypePartsNext DEF IInv

LEMMA FwEventStep ==
  ASSUME IInv, fw_event
  PROVE  IInv'
<1>1. TypeOK /\ HostType /\ CursorType /\ TableType /\ RingType /\ FwType
  BY TypeParts DEF IInv
<1>2. /\ fw.running # {} /\ t2h[fw.event].by = "host"
      /\ UNCHANGED <<pc, kind, served, quarantined, n, ok, cmd_cursor, malloc_cursor,
                     event_cursor, table, used, bytes, io, mring>>
  BY DEF fw_event, hostVars, tabVars
<1>3. fw.event \in 0..EventSlots-1 /\ Succ(fw.event, EventSlots) \in 0..EventSlots-1
  BY <1>1, SuccType DEF FwType
<1>4. CursorType' /\ TableType' /\ HostType' /\ HostInv'
  BY <1>1, <1>2 DEF IInv, CursorType, TableType, HostType, HostInv
<1>5. Acked' = Acked
  BY <1>2 DEF Acked
<1>6. ASSUME fw'.cmd = fw.cmd, fw'.malloc = fw.malloc, fw'.waiting = fw.waiting,
             fw'.has = fw.has
      PROVE  CmdInv' /\ MallocInv' /\ LegacyTable'
  BY <1>2, <1>6 DEF IInv, CmdInv, MallocInv, LegacyTable, Allocated
<1>7. CASE /\ t2h' = [t2h EXCEPT ![fw.event] = Slot("started")]
           /\ fw' = [fw EXCEPT !.event = Succ(@, EventSlots)]
  <2>1. FwType'
    BY <1>1, <1>3, <1>7 DEF FwType
  <2>2. RingType'
    BY <1>1, <1>2, <1>3, <1>7 DEF RingType, Rings, Slot
  <2>3. /\ fw'.cmd = fw.cmd /\ fw'.malloc = fw.malloc /\ fw'.waiting = fw.waiting
        /\ fw'.has = fw.has /\ fw'.running = fw.running /\ fw'.finished = fw.finished
    BY <1>1, <1>7 DEF FwType
  <2>4. \A s \in 0..EventSlots-1 : FinishAt(s)' => FinishAt(s)
    BY <1>1, <1>3, <1>7 DEF FinishAt, RingType, Slot
  <2>5. EventInv'
    BY <1>2, <1>5, <2>3, <2>4 DEF IInv, EventInv
  <2> QED
    BY <1>4, <1>6, <2>1, <2>2, <2>3, <2>5, TypePartsNext DEF IInv
<1>8. CASE \E c \in fw.running :
             /\ t2h' = [t2h EXCEPT ![fw.event] = Slot("finished")]
             /\ fw' = [fw EXCEPT !.event = Succ(@, EventSlots),
                         !.running = @ \ {c}, !.finished = @ \cup {c}]
  <2>1. PICK c \in fw.running :
             /\ t2h' = [t2h EXCEPT ![fw.event] = Slot("finished")]
             /\ fw' = [fw EXCEPT !.event = Succ(@, EventSlots),
                         !.running = @ \ {c}, !.finished = @ \cup {c}]
    BY <1>8
  <2>2. FwType'
    BY <1>1, <1>3, <2>1 DEF FwType
  <2>3. RingType'
    BY <1>1, <1>2, <1>3, <2>1 DEF RingType, Rings, Slot
  <2>4. /\ fw'.cmd = fw.cmd /\ fw'.malloc = fw.malloc /\ fw'.waiting = fw.waiting
        /\ fw'.has = fw.has /\ fw'.running = fw.running \ {c}
        /\ fw'.finished = fw.finished \cup {c}
    BY <1>1, <2>1 DEF FwType
  <2>5. ok' \subseteq fw'.finished
    BY <1>2, <2>4 DEF IInv, EventInv
  <2>6. CASE quarantined
    <3>1. EventInv'
      BY <1>2, <2>5, <2>6 DEF EventInv
    <3> QED
      BY <1>4, <1>6, <2>2, <2>3, <2>4, <3>1, TypePartsNext DEF IInv
  <2>7. CASE ~quarantined
    <3>1. c = n /\ Acked /\ \A s \in 0..EventSlots-1 : ~FinishAt(s)
      BY <1>2, <2>7 DEF IInv, EventInv
    <3>2. fw'.running = {} /\ n \in fw'.finished
      BY <2>4, <2>7, <3>1 DEF IInv, EventInv
    <3>3. \A s \in 0..EventSlots-1 : FinishAt(s)' => s = fw.event
      BY <1>1, <1>3, <2>1, <3>1 DEF FinishAt, RingType
    <3>4. EventInv'
      BY <1>2, <1>5, <2>5, <3>1, <3>2, <3>3 DEF EventInv
    <3> QED
      BY <1>4, <1>6, <2>2, <2>3, <2>4, <3>4, TypePartsNext DEF IInv
  <2> QED
    BY <2>6, <2>7
<1> QED
  BY <1>7, <1>8 DEF fw_event

-----------------------------------------------------------------------------
(* The invariant is inductive. *)
LEMMA StepIInv == IInv /\ [Next]_vars => IInv'
<1> SUFFICES ASSUME IInv, [Next]_vars PROVE IInv'
  OBVIOUS
<1>1. CASE UNCHANGED vars
  <2>1. UNCHANGED <<pc, kind, served, quarantined, n, ok, cmd_cursor, malloc_cursor,
                    event_cursor, table, used, bytes, io, mring, t2h, fw>>
    BY <1>1 DEF vars
  <2>2. TypeOK'
    BY <2>1 DEF IInv, TypeOK
  <2>3. HostInv' /\ CmdInv' /\ MallocInv' /\ LegacyTable'
    BY <2>1, Frame DEF IInv, HostInv
  <2>4. EventInv'
    BY <2>1 DEF IInv, EventInv, Acked, FinishAt
  <2> QED
    BY <2>2, <2>3, <2>4 DEF IInv
<1>2. CASE Next
  BY <1>2, CommandStep, ServeBeforeStep, PostStep, WaitServeStep, WaitReplyStep,
     TimeoutStep, DrainStep, DrainedStep, SettleStep, FwRequestStep,
     FwAnsweredStep, FwAckStep, FwEventStep DEF Next
<1> QED
  BY <1>1, <1>2

(* IInv holds in every reachable state, for rings, tables and call counts  *)
(* of every size.                                                          *)
THEOREM Invariance == Spec => []IInv
BY InitIInv, StepIInv, PTL DEF Spec

(* Cursors stay inside their rings, legacy_allocated inside the table and  *)
(* legacy_bytes below the limit.                                           *)
THEOREM TypeCorrect == Spec => []TypeOK
<1>1. IInv => TypeOK
  BY DEF IInv
<1> QED
  BY <1>1, Invariance, PTL

(* An EXEC that ane_rtclient_procedure_call reports as done was finished   *)
(* by the firmware itself, although all calls share one cookie: a late     *)
(* event of a call that timed out never ends another.                      *)
THEOREM FinishIsOwn == Spec => []OwnFinish
<1>1. IInv => OwnFinish
  BY DEF IInv, EventInv, OwnFinish
<1> QED
  BY <1>1, Invariance, PTL

(* The cursors of ane_rtclient_legacy_exchange and of the malloc service   *)
(* stay on the slots the firmware looks at, through failures and time-outs.*)
THEOREM CursorsInStep == Spec => []RingsInStep
<1>1. IInv => RingsInStep
  <2> SUFFICES ASSUME IInv PROVE RingsInStep
    OBVIOUS
  <2>1. io[cmd_cursor].by \in {"host", "fw"} /\ DOMAIN mring = 0..MallocSlots-1
    BY DEF IInv, TypeOK, Rings
  <2>2. \/ cmd_cursor = fw.cmd
        \/ /\ pc = "wait" \/ quarantined
           /\ io[cmd_cursor].by = "host" /\ fw.cmd = Succ(cmd_cursor, CmdSlots)
    BY <2>1 DEF IInv, CmdInv
  <2> QED
    BY <2>1, <2>2 DEF IInv, MallocInv, RingsInStep
<1> QED
  BY <1>1, Invariance, PTL

(* What the firmware was given by SHAREDMALLOC, and the command buffer,    *)
(* stay in the table, once each and below the mark, and legacy_bytes is    *)
(* exactly what is allocated.                                              *)
THEOREM TableSoundness == Spec => []LegacyTable
<1>1. IInv => LegacyTable
  BY DEF IInv
<1> QED
  BY <1>1, Invariance, PTL

-----------------------------------------------------------------------------
(* AneM2.  What a process is doing, with every context it can have.        *)
Pcs == {"idle", "lookup", "sections", "ios", "load", "create", "open"}
Marks == {"none", "zero", "sent", "written"}
Ctx == [digest : Digests \cup {"none"}, found : BOOLEAN, prog : Nat,
        ios : 0..Len(IoDir), map : [DOMAIN IoDir -> Marks]]

M2Type ==
    /\ stage \in [Procs -> Pcs]
    /\ ane \in [Procs -> Ctx]
    /\ held \in [Procs -> SUBSET (M2!Secs \cup M2!Ios)]
    /\ hw \in [prog : [Digests -> Nat], refs : [Digests -> SUBSET Procs], lookup : BOOLEAN]

\* The io buffers of a process are the ones its context counts; it has the
\* copies of sections only while it loads a program that was not found.
HeldInv ==
    \A p \in Procs :
        /\ held[p] \cap M2!Ios = {<<"io", i>> : i \in 1..ane[p].ios}
        /\ stage[p] \in {"idle", "lookup", "open"} => held[p] \cap M2!Secs = {}
        /\ stage[p] \in {"idle", "lookup", "sections"} => ane[p].ios = 0 /\ ~ane[p].found
        /\ stage[p] \in {"load", "create", "open"} => ane[p].ios = Len(IoDir)
        /\ ane[p].found => held[p] \cap M2!Secs = {}
        /\ \A i \in DOMAIN IoDir : ane[p].map[i] = "sent" => IoDir[i] = 0

\* A process with an identity has a reference on the program of its digest.
Referring(p) == ane[p].found \/ stage[p] \in {"create", "open"}
ReferInv ==
    \A p \in Procs :
        /\ stage[p] # "idle" => ane[p].digest \in Digests
        /\ Referring(p) => /\ ane[p].digest \in Digests
                           /\ p \in hw.refs[ane[p].digest]
                           /\ ane[p].prog = hw.prog[ane[p].digest]

\* A loaded program has an identity of its own, a program with a reference is
\* loaded, and identities stay below the number of programs.
IdentityInv ==
    /\ \A d \in Digests : hw.prog[d] \in 0..Cardinality(Digests)
    /\ \A d \in Digests : hw.refs[d] # {} => hw.prog[d] # 0
    /\ \A d, e \in Digests : d # e /\ hw.prog[d] # 0 => hw.prog[d] # hw.prog[e]

M2Inv ==
    /\ M2!M2Assumption
    /\ M2Type
    /\ HeldInv
    /\ ReferInv
    /\ IdentityInv

-----------------------------------------------------------------------------
(* FiniteSets, as AneM2 has it, is FiniteSets.                              *)
LEMMA M2Finite == ASSUME NEW S PROVE M2!IsFiniteSet(S) <=> IsFiniteSet(S)
BY DEF M2!IsFiniteSet, IsFiniteSet

LEMMA M2Cardinality == ASSUME NEW S PROVE M2!Cardinality(S) = Cardinality(S)
BY DEF M2!Cardinality, Cardinality

(* A finite set of slots has a largest one: the slot with the fewest       *)
(* larger ones.                                                            *)
LEMMA OrderIn ==
    ASSUME SecSize \in Seq(Nat), NEW S \in SUBSET DOMAIN SecSize, S # {}
    PROVE  M2!Order(S) \in S
<1> DEFINE Above(i) == {j \in S : SecSize[j] > SecSize[i]}
           Ranks == {Cardinality(Above(i)) : i \in S}
<1>1. DOMAIN SecSize = 1..Len(SecSize) /\ Len(SecSize) \in Nat
  BY SMTT(30)
<1>2. IsFiniteSet(S)
  <2>1. IsFiniteSet(1..Len(SecSize))
    BY <1>1, FS_Interval, SMTT(30)
  <2> QED BY <1>1, <2>1, FS_Subset
<1>3. \A i \in S : IsFiniteSet(Above(i)) /\ Cardinality(Above(i)) \in Nat
  BY <1>2, FS_Subset, FS_CardinalityType
<1>4. Ranks \subseteq Nat /\ Ranks # {}
  BY <1>3
<1>5. PICK r \in Ranks : \A x \in Ranks : ~(<<x, r>> \in OpToRel(<, Nat))
  <2> HIDE DEF Ranks
  <2> QED BY <1>4, NatLessThanWellFounded, WFMin
<1>6. PICK i \in S : r = Cardinality(Above(i))
  OBVIOUS
<1>7. ASSUME NEW j \in S, SecSize[j] > SecSize[i] PROVE FALSE
  <2>1. \A x \in S : SecSize[x] \in Nat
    BY <1>1, SMTT(30)
  <2>2. Above(j) \subseteq Above(i) /\ j \in Above(i) /\ j \notin Above(j)
    BY <1>7, <2>1, SMTT(30)
  <2>3. Cardinality(Above(j)) < Cardinality(Above(i))
    <3> HIDE DEF Above
    <3> QED BY <1>3, <1>6, <1>7, <2>2, FS_Subset, SMTT(30)
  <2>4. Cardinality(Above(j)) \in Ranks /\ Cardinality(Above(j)) \in Nat /\ r \in Nat
    BY <1>3, <1>4
  <2> QED BY <1>5, <1>6, <2>3, <2>4 DEF OpToRel
<1>8. \A j \in S : SecSize[j] <= SecSize[i]
  BY <1>1, <1>7, SMTT(30)
<1> QED BY <1>8 DEF M2!Order

(* While a program is not loaded, an identity is left for it.              *)
LEMMA FreshIn ==
    ASSUME M2Inv, NEW d \in Digests, hw.prog[d] = 0
    PROVE  /\ M2!Fresh \in 1..Cardinality(Digests)
           /\ \A e \in Digests : hw.prog[e] # M2!Fresh
<1> DEFINE D == Digests \ {d}
           f == [e \in D |-> hw.prog[e]]
           T == {f[e] : e \in D}
           top == Cardinality(Digests)
<1>1. IsFiniteSet(Digests) /\ top \in Nat
  BY M2Finite, FS_CardinalityType DEF M2Inv, M2!M2Assumption
<1>2. IsFiniteSet(D) /\ Cardinality(D) = top - 1
  BY <1>1, FS_RemoveElement
<1>3. f \in Surjection(D, T)
  BY DEF Surjection
<1>4. IsFiniteSet(T) /\ Cardinality(T) <= top - 1
  <2> HIDE DEF f, T, D
  <2> QED BY <1>2, <1>3, FS_Surjection, SMTT(30)
<1>5. Cardinality(1..top) = top /\ top > 0
  <2>1. top # 0
    BY <1>1, FS_EmptySet
  <2>2. top > 0
    BY <1>1, <2>1, SMTT(30)
  <2>3. Cardinality(1..top) = IF 1 > top THEN 0 ELSE top - 1 + 1
    <3> HIDE DEF top
    <3> QED BY <1>1, FS_Interval, SMTT(30)
  <2> QED BY <1>1, <2>2, <2>3, SMTT(30)
<1>6. ~(1..top \subseteq T)
  <2> HIDE DEF T, top
  <2> QED BY <1>1, <1>4, <1>5, FS_Subset, FS_CardinalityType, SMTT(30)
<1>7. PICK i \in 1..top : i \notin T
  BY <1>6
<1>8. \A e \in Digests : hw.prog[e] # i
  BY <1>7, SMTT(30)
<1>9. M2!Cardinality(Digests) = top
  BY M2Cardinality
<1> QED BY <1>8, <1>9 DEF M2!Fresh

-----------------------------------------------------------------------------
(* ContextSlots of the two kinds are different, and what a process holds is the   *)
(* sum of both.                                                            *)
LEMMA ContextSlots ==
    ASSUME M2Inv, NEW p \in Procs
    PROVE  /\ M2!Secs \cap M2!Ios = {}
           /\ held[p] = (held[p] \cap M2!Secs) \cup {<<"io", i>> : i \in 1..ane[p].ios}
           /\ {<<"io", i>> : i \in 1..ane[p].ios} \subseteq M2!Ios
<1>1. M2!Secs \cap M2!Ios = {}
  BY SMTT(30) DEF M2!Secs, M2!Ios
<1>2. held[p] \subseteq M2!Secs \cup M2!Ios
  BY DEF M2Inv, M2Type
<1>3. held[p] \cap M2!Ios = {<<"io", i>> : i \in 1..ane[p].ios}
  BY DEF M2Inv, HeldInv
<1> QED BY ONLY <1>1, <1>2, <1>3, ZenonT(30)

(* A failed open and a close leave the process with nothing, and the other *)
(* processes with their programs.                                          *)
LEMMA Closing ==
    ASSUME M2Inv, NEW p \in Procs,
           held' = [held EXCEPT ![p] = {}], ane' = [ane EXCEPT ![p] = M2!NoCtx],
           M2!Go(p, "idle"), M2!ane_device_close(p)
    PROVE  M2Inv'
<1>0. stage' = [stage EXCEPT ![p] = "idle"]
  BY DEF M2!Go
<1>h. /\ hw' \in [prog : [Digests -> Nat], refs : [Digests -> SUBSET Procs], lookup : BOOLEAN]
      /\ \A d \in Digests : hw'.refs[d] = hw.refs[d] \ {p}
      /\ \A d \in Digests : hw'.prog[d] = IF hw.refs[d] \subseteq {p} THEN 0 ELSE hw.prog[d]
  BY DEF M2Inv, M2Type, M2!ane_device_close
<1>n. M2!NoCtx \in Ctx
  <2>1. Len(IoDir) \in Nat
    BY SMTT(30) DEF M2Inv, M2!M2Assumption
  <2> QED BY <2>1, SMTT(30) DEF M2!NoCtx, Ctx, Marks
<1>1. M2!M2Assumption'
  BY DEF M2Inv, M2!M2Assumption
<1>2. M2Type'
  <2>1. stage' \in [Procs -> Pcs]
    BY <1>0 DEF M2Inv, M2Type, Pcs
  <2>2. ane' \in [Procs -> Ctx]
    BY <1>n DEF M2Inv, M2Type
  <2>3. held' \in [Procs -> SUBSET (M2!Secs \cup M2!Ios)]
    BY DEF M2Inv, M2Type
  <2> QED BY <1>h, <2>1, <2>2, <2>3 DEF M2Type, M2!Secs, M2!Ios
<1>3. HeldInv'
  <2> SUFFICES ASSUME NEW q \in Procs
               PROVE  /\ held'[q] \cap M2!Ios = {<<"io", i>> : i \in 1..ane'[q].ios}
                      /\ stage'[q] \in {"idle", "lookup", "open"} => held'[q] \cap M2!Secs = {}
                      /\ stage'[q] \in {"idle", "lookup", "sections"} => ane'[q].ios = 0 /\ ~ane'[q].found
                      /\ stage'[q] \in {"load", "create", "open"} => ane'[q].ios = Len(IoDir)
                      /\ ane'[q].found => held'[q] \cap M2!Secs = {}
                      /\ \A i \in DOMAIN IoDir : ane'[q].map[i] = "sent" => IoDir[i] = 0
    BY DEF HeldInv, M2!Secs, M2!Ios
  <2>1. CASE q = p
    <3>1. held'[q] = {} /\ ane'[q] = M2!NoCtx /\ stage'[q] = "idle"
      BY <1>0, <2>1 DEF M2Inv, M2Type
    <3> QED BY ONLY <3>1 DEF M2!NoCtx
  <2>2. CASE q # p
    <3>1. held'[q] = held[q] /\ ane'[q] = ane[q] /\ stage'[q] = stage[q]
      BY <1>0, <2>2 DEF M2Inv, M2Type
    <3> QED BY <3>1 DEF M2Inv, HeldInv
  <2> QED BY <2>1, <2>2
<1>4. ReferInv'
  <2> SUFFICES ASSUME NEW q \in Procs
               PROVE  /\ stage'[q] # "idle" => ane'[q].digest \in Digests
                      /\ Referring(q)' => /\ ane'[q].digest \in Digests
                                          /\ q \in hw'.refs[ane'[q].digest]
                                          /\ ane'[q].prog = hw'.prog[ane'[q].digest]
    BY DEF ReferInv
  <2>1. CASE q = p
    <3>1. ane'[q] = M2!NoCtx /\ stage'[q] = "idle"
      BY <1>0, <2>1 DEF M2Inv, M2Type
    <3> QED BY ONLY <3>1 DEF M2!NoCtx, Referring
  <2>2. CASE q # p
    <3>1. ane'[q] = ane[q] /\ stage'[q] = stage[q]
      BY <1>0, <2>2 DEF M2Inv, M2Type
    <3> QED BY <1>h, <2>2, <3>1, SMTT(30) DEF M2Inv, ReferInv, Referring
  <2> QED BY <2>1, <2>2
<1>5. IdentityInv'
  <2>1. \A d \in Digests : hw.prog[d] \in 0..Cardinality(Digests)
    BY DEF M2Inv, IdentityInv
  <2>2. Cardinality(Digests) \in Nat
    BY M2Finite, FS_CardinalityType DEF M2Inv, M2!M2Assumption
  <2> QED BY <1>h, <2>1, <2>2, SMTT(30) DEF M2Inv, IdentityInv
<1> QED BY <1>1, <1>2, <1>3, <1>4, <1>5 DEF M2Inv

LEMMA ErrorInv == ASSUME M2Inv, NEW p \in Procs, M2!Error(p) PROVE M2Inv'
<1>1. held[p] \ (M2!Secs \cup {<<"io", i>> : i \in 1..ane[p].ios}) = {}
  BY ContextSlots
<1>2. held' = [held EXCEPT ![p] = {}]
  BY <1>1 DEF M2!Error, M2!ane_m2_ctx_free
<1> QED BY <1>2, Closing DEF M2!Error

LEMMA CloseInv == ASSUME M2Inv, NEW p \in Procs, M2!ane_m2_close(p) PROVE M2Inv'
<1>1. ane[p].ios = Len(IoDir)
  BY DEF M2!ane_m2_close, M2Inv, HeldInv
<1>2. held[p] \ (M2!Secs \cup {<<"io", i>> : i \in 1..Len(IoDir)}) = {}
  BY <1>1, ContextSlots
<1>3. held' = [held EXCEPT ![p] = {}]
  BY <1>2 DEF M2!ane_m2_close, M2!ane_m2_ctx_free
<1> QED BY <1>3, Closing DEF M2!ane_m2_close

-----------------------------------------------------------------------------
(* A step of one process that keeps the references of the others: what is  *)
(* to be shown is about the process's own state only.                      *)
HeldOf(s, a, h) ==
    /\ h \cap M2!Ios = {<<"io", i>> : i \in 1..a.ios}
    /\ s \in {"idle", "lookup", "open"} => h \cap M2!Secs = {}
    /\ s \in {"idle", "lookup", "sections"} => a.ios = 0 /\ ~a.found
    /\ s \in {"load", "create", "open"} => a.ios = Len(IoDir)
    /\ a.found => h \cap M2!Secs = {}
    /\ \A i \in DOMAIN IoDir : a.map[i] = "sent" => IoDir[i] = 0
ReferOf(p, s, a, w) ==
    /\ s # "idle" => a.digest \in Digests
    /\ a.found \/ s \in {"create", "open"} =>
         /\ a.digest \in Digests /\ p \in w.refs[a.digest]
         /\ a.prog = w.prog[a.digest]
Drivers == [prog : [Digests -> Nat], refs : [Digests -> SUBSET Procs], lookup : BOOLEAN]

LEMMA OwnParts ==
    ASSUME M2Inv, NEW p \in Procs
    PROVE  /\ stage[p] \in Pcs /\ ane[p] \in Ctx /\ held[p] \in SUBSET (M2!Secs \cup M2!Ios)
           /\ hw \in Drivers
           /\ HeldOf(stage[p], ane[p], held[p]) /\ ReferOf(p, stage[p], ane[p], hw)
BY DEF M2Inv, M2Type, HeldInv, ReferInv, Referring, HeldOf, ReferOf, Drivers

LEMMA OwnStep ==
    ASSUME M2Inv, NEW p \in Procs,
           NEW s \in Pcs, NEW a \in Ctx, NEW h \in SUBSET (M2!Secs \cup M2!Ios),
           stage' = [stage EXCEPT ![p] = s], ane' = [ane EXCEPT ![p] = a],
           held' = [held EXCEPT ![p] = h], hw' \in Drivers, IdentityInv',
           HeldOf(s, a, h), ReferOf(p, s, a, hw'),
           \A d \in Digests : /\ hw.refs[d] \subseteq hw'.refs[d]
                              /\ hw.refs[d] # {} => hw'.prog[d] = hw.prog[d]
    PROVE  M2Inv'
<1>0. \A q \in Procs : /\ stage'[q] = (IF q = p THEN s ELSE stage[q])
                       /\ ane'[q] = (IF q = p THEN a ELSE ane[q])
                       /\ held'[q] = (IF q = p THEN h ELSE held[q])
  BY DEF M2Inv, M2Type
<1>1. M2!M2Assumption'
  BY DEF M2Inv, M2!M2Assumption
<1>2. M2Type'
  <2>1. stage' \in [Procs -> Pcs] /\ ane' \in [Procs -> Ctx]
    BY DEF M2Inv, M2Type
  <2>2. held' \in [Procs -> SUBSET (M2!Secs \cup M2!Ios)]
    BY DEF M2Inv, M2Type
  <2> QED BY <2>1, <2>2 DEF M2Type, Drivers, M2!Secs, M2!Ios
<1>3. ASSUME NEW q \in Procs
      PROVE  HeldOf(stage'[q], ane'[q], held'[q]) /\ ReferOf(q, stage'[q], ane'[q], hw')
  <2>1. CASE q = p
    BY <1>0, <2>1
  <2>2. CASE q # p
    <3>1. HeldOf(stage'[q], ane'[q], held'[q])
      BY <1>0, <2>2, OwnParts
    <3>2. ReferOf(q, stage[q], ane[q], hw)
      BY OwnParts
    <3>3. ReferOf(q, stage[q], ane[q], hw')
      BY <3>2 DEF ReferOf
    <3> QED BY <1>0, <2>2, <3>1, <3>3
  <2> QED BY <2>1, <2>2
<1>4. HeldInv'
  BY <1>3 DEF HeldInv, HeldOf, M2!Secs, M2!Ios
<1>5. ReferInv'
  BY <1>3 DEF ReferInv, Referring, ReferOf
<1> QED BY <1>1, <1>2, <1>4, <1>5 DEF M2Inv

(* When the driver is not changed, nothing is left to show about it.       *)
LEMMA QuietStep ==
    ASSUME M2Inv, NEW p \in Procs,
           NEW s \in Pcs, NEW a \in Ctx, NEW h \in SUBSET (M2!Secs \cup M2!Ios),
           stage' = [stage EXCEPT ![p] = s], ane' = [ane EXCEPT ![p] = a],
           held' = [held EXCEPT ![p] = h], hw' = hw,
           HeldOf(s, a, h), ReferOf(p, s, a, hw)
    PROVE  M2Inv'
<1>1. hw' \in Drivers /\ ReferOf(p, s, a, hw')
  BY OwnParts
<1>2. IdentityInv'
  BY DEF M2Inv, IdentityInv
<1>3. \A d \in Digests : /\ hw.refs[d] \subseteq hw'.refs[d]
                         /\ hw.refs[d] # {} => hw'.prog[d] = hw.prog[d]
  OBVIOUS
<1> QED BY <1>1, <1>2, <1>3, OwnStep

(* A reference to a loaded program.                                        *)
LEMMA Referred ==
    ASSUME M2Inv, NEW p \in Procs, ane[p].digest \in Digests, hw.prog[ane[p].digest] # 0,
           hw' = M2!Refer(p)
    PROVE  /\ hw' \in Drivers /\ IdentityInv'
           /\ p \in hw'.refs[ane[p].digest] /\ hw'.prog = hw.prog
           /\ \A d \in Digests : hw.refs[d] \subseteq hw'.refs[d]
<1>1. hw \in Drivers
  BY OwnParts
<1>2. /\ hw' \in Drivers /\ hw'.prog = hw.prog
      /\ \A d \in Digests : hw'.refs[d] = IF d = ane[p].digest THEN hw.refs[d] \cup {p} ELSE hw.refs[d]
  BY <1>1 DEF Drivers, M2!Refer, M2!program_digest
<1>3. IdentityInv'
  BY <1>2 DEF M2Inv, IdentityInv
<1> QED BY <1>2, <1>3

-----------------------------------------------------------------------------
(* One lemma per step of a process.                                        *)
LEMMA OpenInv ==
    ASSUME M2Inv, NEW p \in Procs, NEW d \in Digests, M2!ane_m2_open(p, d)
    PROVE  M2Inv'
<1> DEFINE a == [ane[p] EXCEPT !.digest = d]
<1>0. /\ ane[p] \in Ctx /\ HeldOf("idle", ane[p], held[p]) /\ stage[p] = "idle"
      /\ held[p] \in SUBSET (M2!Secs \cup M2!Ios)
  BY OwnParts DEF M2!ane_m2_open
<1>1. a \in Ctx /\ a.digest = d /\ a.found = ane[p].found /\ a.ios = ane[p].ios /\ a.map = ane[p].map
  BY <1>0 DEF Ctx
<1>2. /\ stage' = [stage EXCEPT ![p] = "lookup"] /\ ane' = [ane EXCEPT ![p] = a]
      /\ held' = [held EXCEPT ![p] = held[p]] /\ hw' = hw
  BY DEF M2!ane_m2_open, M2!Go, M2Inv, M2Type
<1>3. HeldOf("lookup", a, held[p])
  BY <1>0, <1>1 DEF HeldOf
<1>4. ReferOf(p, "lookup", a, hw)
  BY <1>0, <1>1 DEF ReferOf, HeldOf
<1> HIDE DEF a
<1> QED BY <1>0, <1>1, <1>2, <1>3, <1>4, QuietStep DEF Pcs

LEMMA LookupInv ==
    ASSUME M2Inv, NEW p \in Procs, M2!lookup(p)
    PROVE  M2Inv'
<1>0. /\ ane[p] \in Ctx /\ HeldOf("lookup", ane[p], held[p]) /\ stage[p] = "lookup"
      /\ held[p] \in SUBSET (M2!Secs \cup M2!Ios) /\ ReferOf(p, "lookup", ane[p], hw)
      /\ hw \in Drivers
  BY OwnParts DEF M2!lookup
<1>d. ane[p].digest \in Digests /\ M2!program_digest(p) = ane[p].digest
  BY <1>0 DEF ReferOf, M2!program_digest
<1>1. PICK id \in Nat :
        /\ id # 0 => id = hw.prog[ane[p].digest]
        /\ ane' = [ane EXCEPT ![p].found = id # 0, ![p].prog = id]
        /\ M2!Go(p, IF id # 0 THEN "ios" ELSE "sections")
        /\ hw' = IF id # 0 THEN M2!Refer(p) ELSE hw
  <2>1. hw.prog[ane[p].digest] \in Nat
    BY <1>0, <1>d DEF Drivers
  <2> QED BY <1>d, <2>1 DEF M2!lookup
<1> DEFINE a == [ane[p] EXCEPT !.found = (id # 0), !.prog = id]
<1>2. /\ a \in Ctx /\ a.digest = ane[p].digest /\ (a.found <=> id # 0) /\ a.prog = id
      /\ a.ios = ane[p].ios /\ a.map = ane[p].map
  BY <1>0 DEF Ctx
<1>3. /\ ane' = [ane EXCEPT ![p] = a] /\ held' = [held EXCEPT ![p] = held[p]]
      /\ stage' = [stage EXCEPT ![p] = IF id # 0 THEN "ios" ELSE "sections"]
  BY <1>1 DEF M2!lookup, M2!Go, M2Inv, M2Type
<1> HIDE DEF a
<1>4. CASE id = 0
  <2>1. HeldOf("sections", a, held[p])
    BY <1>0, <1>2, <1>4 DEF HeldOf
  <2>2. ReferOf(p, "sections", a, hw)
    BY <1>d, <1>2, <1>4 DEF ReferOf
  <2>3. stage' = [stage EXCEPT ![p] = "sections"] /\ hw' = hw
    BY <1>1, <1>3, <1>4
  <2> QED BY <1>0, <1>2, <1>3, <2>1, <2>2, <2>3, QuietStep DEF Pcs
<1>5. CASE id # 0
  <2>1. HeldOf("ios", a, held[p])
    BY <1>0, <1>2 DEF HeldOf
  <2>2. hw' = M2!Refer(p) /\ stage' = [stage EXCEPT ![p] = "ios"]
    BY <1>1, <1>3, <1>5
  <2>3. /\ hw' \in Drivers /\ IdentityInv' /\ p \in hw'.refs[ane[p].digest] /\ hw'.prog = hw.prog
        /\ \A d \in Digests : hw.refs[d] \subseteq hw'.refs[d]
    BY <1>d, <1>1, <1>5, <2>2, Referred
  <2>4. ReferOf(p, "ios", a, hw')
    BY <1>d, <1>1, <1>2, <1>5, <2>3 DEF ReferOf
  <2> QED BY <1>0, <1>2, <1>3, <2>1, <2>2, <2>3, <2>4, OwnStep DEF Pcs
<1> QED BY <1>4, <1>5

LEMMA SectionInv ==
    ASSUME M2Inv, NEW p \in Procs, M2!bo_alloc_section(p)
    PROVE  M2Inv'
<1> DEFINE left == {i \in DOMAIN SecSize : <<"sec", i>> \notin held[p]}
<1>0. /\ ane[p] \in Ctx /\ HeldOf("sections", ane[p], held[p]) /\ stage[p] = "sections"
      /\ held[p] \in SUBSET (M2!Secs \cup M2!Ios) /\ ReferOf(p, "sections", ane[p], hw)
  BY OwnParts DEF M2!bo_alloc_section
<1>1. CASE M2!Go(p, "ios") /\ UNCHANGED <<ane, held, hw>>
  <2>1. /\ stage' = [stage EXCEPT ![p] = "ios"] /\ ane' = [ane EXCEPT ![p] = ane[p]]
        /\ held' = [held EXCEPT ![p] = held[p]] /\ hw' = hw
    BY <1>1 DEF M2!Go, M2Inv, M2Type
  <2>2. HeldOf("ios", ane[p], held[p])
    BY <1>0 DEF HeldOf
  <2>3. ReferOf(p, "ios", ane[p], hw)
    BY <1>0 DEF ReferOf
  <2> QED BY <1>0, <2>1, <2>2, <2>3, QuietStep DEF Pcs
<1>2. CASE /\ left # {} /\ M2!bo_alloc(p, <<"sec", M2!Order(left)>>)
           /\ UNCHANGED <<stage, ane, hw>>
  <2> DEFINE h == held[p] \cup {<<"sec", M2!Order(left)>>}
  <2>1. M2!Order(left) \in DOMAIN SecSize
    <3>1. SecSize \in Seq(Nat)
      BY DEF M2Inv, M2!M2Assumption
    <3> QED BY <1>2, <3>1, OrderIn
  <2>2. h \in SUBSET (M2!Secs \cup M2!Ios) /\ h \cap M2!Ios = held[p] \cap M2!Ios
    <3>1. <<"sec", M2!Order(left)>> \in M2!Secs
      BY <2>1 DEF M2!Secs
    <3>2. M2!Secs \cap M2!Ios = {}
      BY ContextSlots
    <3> QED BY <1>0, <3>1, <3>2
  <2>3. /\ stage' = [stage EXCEPT ![p] = "sections"] /\ ane' = [ane EXCEPT ![p] = ane[p]]
        /\ held' = [held EXCEPT ![p] = h] /\ hw' = hw
    BY <1>0, <1>2 DEF M2!bo_alloc, M2Inv, M2Type
  <2>4. HeldOf("sections", ane[p], h)
    BY <1>0, <2>2 DEF HeldOf
  <2> HIDE DEF h
  <2> QED BY <1>0, <2>2, <2>3, <2>4, QuietStep DEF Pcs
<1>3. CASE M2!Error(p)
  BY <1>3, ErrorInv
<1> QED BY <1>1, <1>2, <1>3 DEF M2!bo_alloc_section

LEMMA IoInv ==
    ASSUME M2Inv, NEW p \in Procs, M2!bo_alloc_io(p)
    PROVE  M2Inv'
<1> DEFINE i == ane[p].ios + 1
<1>0. /\ ane[p] \in Ctx /\ HeldOf("ios", ane[p], held[p]) /\ stage[p] = "ios"
      /\ held[p] \in SUBSET (M2!Secs \cup M2!Ios) /\ ReferOf(p, "ios", ane[p], hw)
  BY OwnParts DEF M2!bo_alloc_io
<1>l. Len(IoDir) \in Nat /\ DOMAIN IoDir = 1..Len(IoDir) /\ ane[p].ios \in 0..Len(IoDir)
  BY <1>0, SMTT(30) DEF M2Inv, M2!M2Assumption, Ctx
<1>1. CASE i > Len(IoDir) /\ M2!Go(p, "load") /\ UNCHANGED <<ane, held, hw>>
  <2>1. /\ stage' = [stage EXCEPT ![p] = "load"] /\ ane' = [ane EXCEPT ![p] = ane[p]]
        /\ held' = [held EXCEPT ![p] = held[p]] /\ hw' = hw
    BY <1>1 DEF M2!Go, M2Inv, M2Type
  <2>2. HeldOf("load", ane[p], held[p])
    BY <1>0, <1>1, <1>l, SMTT(30) DEF HeldOf
  <2>3. ReferOf(p, "load", ane[p], hw)
    BY <1>0 DEF ReferOf
  <2> QED BY <1>0, <2>1, <2>2, <2>3, QuietStep DEF Pcs
<1>2. CASE /\ i <= Len(IoDir) /\ M2!bo_alloc(p, <<"io", i>>)
           /\ ane' = [ane EXCEPT ![p].ios = i, ![p].map = [ane[p].map EXCEPT ![i] = "zero"]]
           /\ UNCHANGED <<stage, hw>>
  <2> DEFINE h == held[p] \cup {<<"io", i>>}
             a == [ane[p] EXCEPT !.ios = i, !.map = [ane[p].map EXCEPT ![i] = "zero"]]
  <2>1. i \in DOMAIN IoDir
    BY <1>2, <1>l, SMTT(30)
  <2>2. /\ a \in Ctx /\ a.ios = i /\ a.found = ane[p].found /\ a.digest = ane[p].digest
        /\ a.prog = ane[p].prog
        /\ \A j \in DOMAIN IoDir : a.map[j] = IF j = i THEN "zero" ELSE ane[p].map[j]
    <3> DEFINE m == [ane[p].map EXCEPT ![i] = "zero"]
    <3>1. /\ m \in [DOMAIN IoDir -> Marks]
          /\ \A j \in DOMAIN IoDir : m[j] = IF j = i THEN "zero" ELSE ane[p].map[j]
      BY <1>0, <2>1 DEF Ctx, Marks
    <3>2. i \in 0..Len(IoDir)
      BY <1>2, <1>l, SMTT(30)
    <3> HIDE DEF m, i
    <3>3. /\ a \in Ctx /\ a.ios = i /\ a.found = ane[p].found /\ a.digest = ane[p].digest
          /\ a.prog = ane[p].prog /\ a.map = m
      BY <1>0, <3>1, <3>2 DEF Ctx, m
    <3> QED BY <3>1, <3>3
  <2>3. h \in SUBSET (M2!Secs \cup M2!Ios) /\ h \cap M2!Secs = held[p] \cap M2!Secs
        /\ h \cap M2!Ios = {<<"io", j>> : j \in 1..i}
    <3>1. <<"io", i>> \in M2!Ios
      BY <2>1 DEF M2!Ios
    <3>2. M2!Secs \cap M2!Ios = {}
      BY ContextSlots
    <3>3. held[p] \cap M2!Ios = {<<"io", j>> : j \in 1..ane[p].ios}
      BY <1>0 DEF HeldOf
    <3>4. {<<"io", j>> : j \in 1..i} = {<<"io", j>> : j \in 1..ane[p].ios} \cup {<<"io", i>>}
      BY <1>l, SMTT(30)
    <3> HIDE DEF i
    <3> QED BY <1>0, <3>1, <3>2, <3>3, <3>4
  <2>4. /\ stage' = [stage EXCEPT ![p] = "ios"] /\ ane' = [ane EXCEPT ![p] = a]
        /\ held' = [held EXCEPT ![p] = h] /\ hw' = hw
    BY <1>0, <1>2 DEF M2!bo_alloc, M2Inv, M2Type
  <2>5. HeldOf("ios", a, h)
    BY <1>0, <2>2, <2>3, SMTT(30) DEF HeldOf
  <2>6. ReferOf(p, "ios", a, hw)
    BY <1>0, <2>2 DEF ReferOf
  <2> HIDE DEF h, a
  <2> QED BY <1>0, <2>2, <2>3, <2>4, <2>5, <2>6, QuietStep DEF Pcs
<1>3. CASE M2!Error(p)
  BY <1>3, ErrorInv
<1> QED BY <1>1, <1>2, <1>3 DEF M2!bo_alloc_io

(* PROG_LOAD: the identity is the program's own, new or not.               *)
LEMMA LoadedProgram ==
    ASSUME M2Inv, NEW p \in Procs, ane[p].digest \in Digests,
           hw' = [M2!Refer(p) EXCEPT !.prog[ane[p].digest] = M2!Identity(ane[p].digest)]
    PROVE  /\ M2!Identity(ane[p].digest) \in Nat
           /\ hw' \in Drivers /\ IdentityInv'
           /\ p \in hw'.refs[ane[p].digest]
           /\ hw'.prog[ane[p].digest] = M2!Identity(ane[p].digest)
           /\ \A d \in Digests : /\ hw.refs[d] \subseteq hw'.refs[d]
                                 /\ hw.refs[d] # {} => hw'.prog[d] = hw.prog[d]
<1> DEFINE e == ane[p].digest   id == M2!Identity(e)
<1>1. hw \in Drivers
  BY OwnParts
<1>c. Cardinality(Digests) \in Nat
  BY M2Finite, FS_CardinalityType DEF M2Inv, M2!M2Assumption
<1>2. /\ id \in 1..Cardinality(Digests)
      /\ hw.prog[e] # 0 => id = hw.prog[e]
      /\ \A d \in Digests : d # e => hw.prog[d] # id
  <2>1. CASE hw.prog[e] = 0
    BY <2>1, FreshIn DEF M2!Identity
  <2>2. CASE hw.prog[e] # 0
    <3>1. id = hw.prog[e]
      BY <2>2 DEF M2!Identity
    <3> QED BY <1>c, <2>2, <3>1, SMTT(30) DEF M2Inv, IdentityInv
  <2> QED BY <2>1, <2>2
<1> HIDE DEF id
<1>3. /\ hw' \in Drivers
      /\ hw'.refs[e] = hw.refs[e] \cup {p} /\ hw'.prog[e] = id
      /\ \A d \in Digests : d # e => hw'.refs[d] = hw.refs[d] /\ hw'.prog[d] = hw.prog[d]
  <2>1. hw' = [hw EXCEPT !.refs = [hw.refs EXCEPT ![e] = hw.refs[e] \cup {p}],
                         !.prog = [hw.prog EXCEPT ![e] = id]]
    BY <1>1 DEF M2!Refer, M2!program_digest, Drivers, id
  <2>2. id \in Nat
    BY <1>2, <1>c, SMTT(30)
  <2> DEFINE R == [hw.refs EXCEPT ![e] = hw.refs[e] \cup {p}]
             P == [hw.prog EXCEPT ![e] = id]
  <2>3. /\ P \in [Digests -> Nat] /\ P[e] = id
        /\ \A d \in Digests : d # e => P[d] = hw.prog[d]
    BY <1>1, <2>2 DEF Drivers
  <2>4. /\ R \in [Digests -> SUBSET Procs] /\ R[e] = hw.refs[e] \cup {p}
        /\ \A d \in Digests : d # e => R[d] = hw.refs[d]
    BY <1>1 DEF Drivers
  <2> HIDE DEF R, P
  <2>5. hw' \in Drivers /\ hw'.refs = R /\ hw'.prog = P
    BY <1>1, <2>1, <2>3, <2>4 DEF Drivers, R, P
  <2> QED BY <2>3, <2>4, <2>5
<1>4. IdentityInv'
  <2>1. /\ \A d \in Digests : hw.prog[d] \in 0..Cardinality(Digests)
        /\ \A d \in Digests : hw.refs[d] # {} => hw.prog[d] # 0
        /\ \A d, c \in Digests : d # c /\ hw.prog[d] # 0 => hw.prog[d] # hw.prog[c]
    BY DEF M2Inv, IdentityInv
  <2> HIDE DEF e
  <2>2. \A d \in Digests : hw'.prog[d] \in 0..Cardinality(Digests)
    BY <1>c, <1>2, <1>3, <2>1, SMTT(30)
  <2>3. \A d \in Digests : hw'.refs[d] # {} => hw'.prog[d] # 0
    <3>1. id # 0
      BY <1>c, <1>2, SMTT(30)
    <3> QED BY ONLY <1>3, <2>1, <3>1, ZenonT(30)
  <2>4. \A d, c \in Digests : d # c /\ hw'.prog[d] # 0 => hw'.prog[d] # hw'.prog[c]
    BY <1>c, <1>2, <1>3, <2>1, SMTT(30)
  <2> QED BY <2>2, <2>3, <2>4 DEF IdentityInv
<1>5. \A d \in Digests : hw.refs[d] # {} => hw'.prog[d] = hw.prog[d]
  BY <1>2, <1>3 DEF M2Inv, IdentityInv
<1>6. id \in Nat
  BY <1>c, <1>2, SMTT(30)
<1>7. p \in hw'.refs[e] /\ hw'.prog[e] = id
  BY <1>3
<1>8. \A d \in Digests : hw.refs[d] \subseteq hw'.refs[d]
  BY <1>3
<1> QED BY <1>3, <1>4, <1>5, <1>6, <1>7, <1>8 DEF id

LEMMA LoadInv ==
    ASSUME M2Inv, NEW p \in Procs, M2!prog_load(p)
    PROVE  M2Inv'
<1>0. /\ ane[p] \in Ctx /\ HeldOf("load", ane[p], held[p]) /\ stage[p] = "load"
      /\ held[p] \in SUBSET (M2!Secs \cup M2!Ios) /\ ReferOf(p, "load", ane[p], hw)
  BY OwnParts DEF M2!prog_load
<1>d. ane[p].digest \in Digests
  BY <1>0 DEF ReferOf
<1> DEFINE id == M2!Identity(ane[p].digest)
<1>1. CASE ane[p].found /\ M2!Go(p, "create") /\ UNCHANGED <<ane, held, hw>>
  <2>1. /\ stage' = [stage EXCEPT ![p] = "create"] /\ ane' = [ane EXCEPT ![p] = ane[p]]
        /\ held' = [held EXCEPT ![p] = held[p]] /\ hw' = hw
    BY <1>1 DEF M2!Go, M2Inv, M2Type
  <2>2. HeldOf("create", ane[p], held[p])
    BY <1>0 DEF HeldOf
  <2>3. ReferOf(p, "create", ane[p], hw)
    BY <1>0, <1>1 DEF ReferOf
  <2> QED BY <1>0, <2>1, <2>2, <2>3, QuietStep DEF Pcs
<1>2. CASE /\ hw' = [M2!Refer(p) EXCEPT !.prog[ane[p].digest] = id]
           /\ ane' = [ane EXCEPT ![p].prog = id]
           /\ M2!Go(p, "create") /\ UNCHANGED held
  <2> DEFINE a == [ane[p] EXCEPT !.prog = id]
  <2>1. /\ id \in Nat /\ hw' \in Drivers /\ IdentityInv'
        /\ p \in hw'.refs[ane[p].digest] /\ hw'.prog[ane[p].digest] = id
        /\ \A d \in Digests : /\ hw.refs[d] \subseteq hw'.refs[d]
                              /\ hw.refs[d] # {} => hw'.prog[d] = hw.prog[d]
    BY <1>2, <1>d, LoadedProgram
  <2> HIDE DEF id
  <2>2. /\ a \in Ctx /\ a.prog = id /\ a.digest = ane[p].digest /\ a.found = ane[p].found
        /\ a.ios = ane[p].ios /\ a.map = ane[p].map
    BY <1>0, <2>1 DEF Ctx
  <2>3. /\ stage' = [stage EXCEPT ![p] = "create"] /\ ane' = [ane EXCEPT ![p] = a]
        /\ held' = [held EXCEPT ![p] = held[p]]
    BY <1>2 DEF M2!Go, M2Inv, M2Type
  <2>4. HeldOf("create", a, held[p])
    BY <1>0, <2>2 DEF HeldOf
  <2>5. ReferOf(p, "create", a, hw')
    BY <1>d, <2>1, <2>2 DEF ReferOf
  <2> HIDE DEF a
  <2> QED BY <1>0, <2>1, <2>2, <2>3, <2>4, <2>5, OwnStep DEF Pcs
<1>3. CASE M2!Error(p)
  BY <1>3, ErrorInv
<1> QED BY <1>1, <1>2, <1>3 DEF M2!prog_load, M2!program_digest

LEMMA CreateInv ==
    ASSUME M2Inv, NEW p \in Procs, M2!proc_create(p)
    PROVE  M2Inv'
<1>0. /\ ane[p] \in Ctx /\ HeldOf("create", ane[p], held[p]) /\ stage[p] = "create"
      /\ held[p] \in SUBSET (M2!Secs \cup M2!Ios) /\ ReferOf(p, "create", ane[p], hw)
  BY OwnParts DEF M2!proc_create
<1>1. CASE /\ held' = [held EXCEPT ![p] = @ \ M2!Secs]
           /\ M2!Go(p, "open") /\ UNCHANGED <<ane, hw>>
  <2> DEFINE h == held[p] \ M2!Secs
  <2>1. /\ h \in SUBSET (M2!Secs \cup M2!Ios) /\ h \cap M2!Secs = {}
        /\ h \cap M2!Ios = held[p] \cap M2!Ios
    BY <1>0, ContextSlots
  <2>2. /\ stage' = [stage EXCEPT ![p] = "open"] /\ ane' = [ane EXCEPT ![p] = ane[p]]
        /\ held' = [held EXCEPT ![p] = h] /\ hw' = hw
    BY <1>1 DEF M2!Go, M2Inv, M2Type
  <2>3. HeldOf("open", ane[p], h)
    BY <1>0, <2>1 DEF HeldOf
  <2>4. ReferOf(p, "open", ane[p], hw)
    BY <1>0 DEF ReferOf
  <2> HIDE DEF h
  <2> QED BY <1>0, <2>1, <2>2, <2>3, <2>4, QuietStep DEF Pcs
<1>2. CASE M2!Error(p)
  BY <1>2, ErrorInv
<1> QED BY <1>1, <1>2 DEF M2!proc_create

(* Copying an input and running the program change marks only.             *)
LEMMA MarkInv ==
    ASSUME M2Inv, NEW p \in Procs, stage[p] = "open", NEW m \in [DOMAIN IoDir -> Marks],
           \A i \in DOMAIN IoDir : m[i] = "sent" => IoDir[i] = 0,
           ane' = [ane EXCEPT ![p].map = m], UNCHANGED <<stage, held, hw>>
    PROVE  M2Inv'
<1> DEFINE a == [ane[p] EXCEPT !.map = m]
<1>0. /\ ane[p] \in Ctx /\ HeldOf("open", ane[p], held[p])
      /\ held[p] \in SUBSET (M2!Secs \cup M2!Ios) /\ ReferOf(p, "open", ane[p], hw)
  BY OwnParts
<1>1. /\ a \in Ctx /\ a.prog = ane[p].prog /\ a.digest = ane[p].digest
      /\ a.found = ane[p].found /\ a.ios = ane[p].ios /\ a.map = m
  BY <1>0 DEF Ctx
<1>2. /\ stage' = [stage EXCEPT ![p] = "open"] /\ ane' = [ane EXCEPT ![p] = a]
      /\ held' = [held EXCEPT ![p] = held[p]] /\ hw' = hw
  BY DEF M2Inv, M2Type
<1>3. HeldOf("open", a, held[p])
  BY <1>0, <1>1 DEF HeldOf
<1>4. ReferOf(p, "open", a, hw)
  BY <1>0, <1>1 DEF ReferOf
<1> HIDE DEF a
<1> QED BY <1>0, <1>1, <1>2, <1>3, <1>4, QuietStep DEF Pcs

LEMMA SendInv ==
    ASSUME M2Inv, NEW p \in Procs, NEW idx \in 0..Len(IoDir), M2!ane_m2_send(p, idx)
    PROVE  M2Inv'
<1> DEFINE S == {i \in DOMAIN IoDir :
                   IoDir[i] = 0 /\ M2!Cardinality({j \in 1..(i - 1) : IoDir[j] = 0}) = idx}
           x == M2!nth_io(0, idx)
           m == [ane[p].map EXCEPT ![x] = "sent"]
<1>1. S # {} /\ x = CHOOSE i \in S : TRUE
  BY DEF M2!ane_m2_send, M2!nth_io
<1>2. x \in S
  BY <1>1
<1>3. x \in DOMAIN IoDir /\ IoDir[x] = 0
  BY <1>2
<1>4. ane' = [ane EXCEPT ![p].map = m] /\ stage[p] = "open" /\ UNCHANGED <<stage, held, hw>>
  BY DEF M2!ane_m2_send
<1>5. ane[p].map \in [DOMAIN IoDir -> Marks] /\ \A i \in DOMAIN IoDir : ane[p].map[i] = "sent" => IoDir[i] = 0
  BY OwnParts DEF Ctx, HeldOf
<1> HIDE DEF x
<1>6. m \in [DOMAIN IoDir -> Marks] /\ \A i \in DOMAIN IoDir : m[i] = "sent" => IoDir[i] = 0
  BY <1>3, <1>5 DEF Marks
<1> HIDE DEF m
<1> QED BY <1>4, <1>6, MarkInv

LEMMA ExecInv ==
    ASSUME M2Inv, NEW p \in Procs, M2!ane_m2_exec(p)
    PROVE  M2Inv'
<1> DEFINE m == [i \in DOMAIN IoDir |-> IF IoDir[i] = 0 THEN ane[p].map[i] ELSE "written"]
<1>1. ane' = [ane EXCEPT ![p].map = m] /\ stage[p] = "open" /\ UNCHANGED <<stage, held, hw>>
  BY DEF M2!ane_m2_exec
<1>2. ane[p].map \in [DOMAIN IoDir -> Marks] /\ \A i \in DOMAIN IoDir : ane[p].map[i] = "sent" => IoDir[i] = 0
  BY OwnParts DEF Ctx, HeldOf
<1>3. m \in [DOMAIN IoDir -> Marks] /\ \A i \in DOMAIN IoDir : m[i] = "sent" => IoDir[i] = 0
  BY <1>2 DEF Marks
<1> HIDE DEF m
<1> QED BY <1>1, <1>3, MarkInv

-----------------------------------------------------------------------------
LEMMA M2Start == M2!M2Assumption /\ M2!Init => M2Inv
<1> SUFFICES ASSUME M2!M2Assumption, M2!Init PROVE M2Inv
  OBVIOUS
<1>0. /\ stage = [p \in Procs |-> "idle"] /\ ane = [p \in Procs |-> M2!NoCtx]
      /\ held = [p \in Procs |-> {}]
  BY DEF M2!Init
<1>1. PICK l \in BOOLEAN :
        hw = [prog |-> [d \in Digests |-> 0], refs |-> [d \in Digests |-> {}], lookup |-> l]
  BY DEF M2!Init
<1>2. M2!NoCtx \in Ctx
  <2>1. Len(IoDir) \in Nat
    BY SMTT(30) DEF M2!M2Assumption
  <2> QED BY <2>1, SMTT(30) DEF M2!NoCtx, Ctx, Marks
<1>3. M2Type
  <2>1. hw \in Drivers
    BY <1>1 DEF Drivers
  <2> QED BY <1>0, <1>2, <2>1 DEF M2Type, Pcs, Drivers
<1>4. HeldInv
  BY <1>0, SMTT(30) DEF HeldInv, M2!NoCtx
<1>5. ReferInv
  BY <1>0 DEF ReferInv, Referring, M2!NoCtx
<1>6. IdentityInv
  <2>1. Cardinality(Digests) \in Nat
    BY M2Finite, FS_CardinalityType DEF M2!M2Assumption
  <2> QED BY <1>1, <2>1, SMTT(30) DEF IdentityInv
<1> QED BY <1>3, <1>4, <1>5, <1>6 DEF M2Inv

LEMMA M2Step == M2Inv /\ [M2!Next]_M2!vars => M2Inv'
<1> SUFFICES ASSUME M2Inv, [M2!Next]_M2!vars PROVE M2Inv'
  OBVIOUS
<1>1. CASE UNCHANGED M2!vars
  <2>1. stage' = stage /\ ane' = ane /\ held' = held /\ hw' = hw
    BY <1>1 DEF M2!vars
  <2>2. M2!M2Assumption' /\ M2Type'
    BY <2>1 DEF M2Inv, M2!M2Assumption, M2Type, M2!Secs, M2!Ios
  <2>3. HeldInv'
    BY <2>1 DEF M2Inv, HeldInv, M2!Secs, M2!Ios
  <2>4. ReferInv' /\ IdentityInv'
    BY <2>1 DEF M2Inv, ReferInv, Referring, IdentityInv
  <2> QED BY <2>2, <2>3, <2>4 DEF M2Inv
<1>2. ASSUME NEW p \in Procs, NEW d \in Digests, M2!ane_m2_open(p, d) PROVE M2Inv'
  BY <1>2, OpenInv
<1>3. ASSUME NEW p \in Procs, NEW idx \in 0..Len(IoDir), M2!ane_m2_send(p, idx) PROVE M2Inv'
  BY <1>3, SendInv
<1>4. ASSUME NEW p \in Procs,
             \/ M2!lookup(p) \/ M2!bo_alloc_section(p) \/ M2!bo_alloc_io(p) \/ M2!prog_load(p)
             \/ M2!proc_create(p) \/ M2!ane_m2_exec(p) \/ M2!ane_m2_close(p)
      PROVE  M2Inv'
  BY <1>4, LookupInv, SectionInv, IoInv, LoadInv, CreateInv, ExecInv, CloseInv
<1> QED BY <1>1, <1>2, <1>3, <1>4 DEF M2!Next

LEMMA M2Invariance == M2!M2Assumption /\ M2!Spec => []M2Inv
<1> QED BY M2Start, M2Step, PTL DEF M2!Spec

(* Whichever allocation or ioctl failed before, and whatever the other     *)
(* processes did, a process outside ane_m2_open() holds exactly the io     *)
(* buffers of its open program and no copy of a section, and a copy of the *)
(* input only ever goes to an input buffer: for any processes, programs,   *)
(* section slots and io tables.                                            *)
THEOREM ClientHoldsExactly == M2!M2Assumption /\ M2!Spec => []M2!M2Held
<1>1. M2Inv => M2!M2Held
  <2> SUFFICES ASSUME M2Inv, NEW p \in Procs
               PROVE  /\ stage[p] = "idle" => held[p] = {}
                      /\ stage[p] = "open" => held[p] = M2!Ios
                      /\ \A i \in DOMAIN IoDir : ane[p].map[i] = "sent" => IoDir[i] = 0
    BY DEF M2!M2Held
  <2>1. held[p] = (held[p] \cap M2!Secs) \cup {<<"io", i>> : i \in 1..ane[p].ios}
    BY ContextSlots
  <2>2. HeldOf(stage[p], ane[p], held[p])
    BY OwnParts
  <2>3. DOMAIN IoDir = 1..Len(IoDir)
    BY SMTT(30) DEF M2Inv, M2!M2Assumption
  <2>4. stage[p] = "idle" => held[p] = {}
    <3> SUFFICES ASSUME stage[p] = "idle" PROVE held[p] = {}
      OBVIOUS
    <3>1. ane[p].ios = 0 /\ held[p] \cap M2!Secs = {}
      BY <2>2 DEF HeldOf
    <3> QED BY <2>1, <3>1, SMTT(30)
  <2>5. stage[p] = "open" => held[p] = M2!Ios
    <3> SUFFICES ASSUME stage[p] = "open" PROVE held[p] = M2!Ios
      OBVIOUS
    <3>1. ane[p].ios = Len(IoDir) /\ held[p] \cap M2!Secs = {}
      BY <2>2 DEF HeldOf
    <3> QED BY <2>1, <2>3, <3>1 DEF M2!Ios
  <2> QED BY <2>2, <2>4, <2>5 DEF HeldOf
<1> QED BY <1>1, M2Invariance, PTL

(* The program a process runs stays loaded under it with the identity it   *)
(* was given, no other program has that identity, and a program that was   *)
(* found costs no second set of sections, also when two processes looked   *)
(* it up before either loaded it and when the first loader is gone: for    *)
(* any number of processes and programs.                                   *)
THEOREM ClientsShareOneLoad == M2!M2Assumption /\ M2!Spec => []M2!M2Shared
<1>1. M2Inv => M2!M2Shared
  <2> SUFFICES ASSUME M2Inv, NEW p \in Procs
               PROVE  /\ stage[p] = "open" =>
                           /\ ane[p].prog # 0 /\ hw.prog[ane[p].digest] = ane[p].prog
                           /\ \A d \in Digests : d # ane[p].digest => hw.prog[d] # ane[p].prog
                      /\ ane[p].found => held[p] \cap M2!Secs = {}
    BY DEF M2!M2Shared
  <2>1. ReferOf(p, stage[p], ane[p], hw) /\ HeldOf(stage[p], ane[p], held[p])
    BY OwnParts
  <2> QED BY <2>1 DEF ReferOf, HeldOf, M2Inv, IdentityInv
<1> QED BY <1>1, M2Invariance, PTL
=============================================================================
