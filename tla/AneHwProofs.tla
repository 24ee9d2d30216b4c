----------------------------- MODULE AneHwProofs -----------------------------
(***************************************************************************)
(* Proofs about what the ane driver does to the hardware around the        *)
(* engine.  AnePages: for any number of buffers of any length, any         *)
(* geometry and any page table met at probe, the translation of a buffer   *)
(* whose map call succeeded is whole, exact and inside the aperture, a     *)
(* failed call leaves nothing of its own behind, and the page-wise code    *)
(* implements the one-step mapping of AneRange.  AnePower, the composition *)
(* of AneBoost and AneDvfs, for every largest level, time-out limit and    *)
(* idle time: its part is the last one.                                    *)
(***************************************************************************)
EXTENDS AnePages, AnePower, FiniteSetTheorems, TLAPS

R == INSTANCE AneRange WITH tr <- Translation

Calling == {"each", "rollback", "batch", "short"}
InRange == mmlo .. mmhi - 1

(* The allocator's range, once it exists, is inside the aperture and below *)
(* 4 GiB, and leaves page 0 out.                                           *)
RangeInv ==
    op.pc \notin {"unbound", "failed"} =>
        /\ 0 < mmlo
        /\ ap.start <= mmlo * PageSize
        /\ mmhi * PageSize - 1 <= Min({ap.end, U32Max})
        /\ InRange \subseteq Places

(* Nodes lie in the range and apart from each other; there is none before  *)
(* the purge, and the call in progress has one.                            *)
NodeInv ==
    /\ op.pc \in {"unbound", "failed", "purge"} => \A b \in BOs : mm[b] = 0
    /\ \A b \in BOs : mm[b] # 0 => RangeOf(b, mm[b]) \subseteq InRange
    /\ \A b, c \in BOs : b # c /\ mm[b] # 0 /\ mm[c] # 0
                            => RangeOf(b, mm[b]) \cap RangeOf(c, mm[c]) = {}
    /\ op.pc \in Calling => mm[op.bo] # 0

(* The pages of a completed map are all there; a call that goes page by    *)
(* page has mapped exactly the pages before i.                             *)
Whole(b) == \A i \in 0 .. NPages[b] - 1 : pte[mm[b] + i] = <<b, i>>
Done == {mm[op.bo] + j : j \in 0 .. op.i - 1}
MapInv ==
    /\ \A b \in Live : Whole(b)
    /\ op.pc \in {"each", "rollback"} =>
         /\ op.i <= NPages[op.bo]
         /\ op.pc = "each" => op.i < NPages[op.bo]
         /\ \A j \in 0 .. op.i - 1 : pte[mm[op.bo] + j] = <<op.bo, j>>

(* Where a valid entry comes from: it is debris, a page of a completed     *)
(* map, or what the call in progress has mapped so far.                    *)
Covered(x) ==
    \/ x \in debris
    \/ \E b \in Live : x \in RangeOf(b, mm[b])
    \/ op.pc \in {"each", "rollback"} /\ x \in Done
    \/ op.pc = "short" /\ x \in RangeOf(op.bo, mm[op.bo])
EntryInv == \A x \in Places : pte[x] # NoPte => Covered(x)

(* A valid entry where the range was already cleared means that an unmap   *)
(* slipped, and so does the error it leads to.                             *)
SlipInv ==
    /\ op.err = "EEXIST" => op.slipped
    /\ op.pc = "each" /\ op.healed /\ pte[mm[op.bo] + op.i] # NoPte => op.slipped
    /\ op.pc = "batch" /\ op.healed /\ (\E x \in RangeOf(op.bo, mm[op.bo]) : pte[x] # NoPte)
         => op.slipped

(* Every buffer with a node has had room in 32 bits. *)
NarrowInv == wide = FALSE /\ \A b \in BOs : mm[b] # 0 => ~Wide(b)

PagesInv ==
    /\ PagesAssumption
    /\ PagesTypeOK
    /\ RangeInv
    /\ NodeInv
    /\ MapInv
    /\ EntryInv
    /\ SlipInv
    /\ NarrowInv

USE ZenonT(30)

-----------------------------------------------------------------------------
(* Arithmetic of pages and bytes.                                          *)
LEMMA MinTwo ==
    ASSUME NEW a \in Int, NEW b \in Int
    PROVE  /\ Min({a, b}) \in {a, b}
           /\ Min({a, b}) <= a /\ Min({a, b}) <= b
BY SMTT(30) DEF Min

LEMMA MaxTwo ==
    ASSUME NEW a \in Int, NEW b \in Int
    PROVE  /\ Max({a, b}) \in {a, b}
           /\ a <= Max({a, b}) /\ b <= Max({a, b})
BY SMTT(30) DEF Max

LEMMA DivBounds ==
    ASSUME NEW a \in Nat, NEW d \in Nat \ {0}
    PROVE  /\ a \div d \in Nat
           /\ (a \div d) * d <= a
           /\ a < (a \div d) * d + d
BY SMTT(30)

LEMMA DivTimes ==
    ASSUME NEW q \in Nat, NEW d \in Nat \ {0}
    PROVE  (q * d) \div d = q
BY SMTT(30)

LEMMA TimesMonotone ==
    ASSUME NEW p \in Nat, NEW q \in Nat, NEW d \in Nat \ {0}, p <= q
    PROVE  p * d <= q * d
BY SMTT(30)

LEMMA BelowQuotient ==
    ASSUME NEW p \in Nat, NEW a \in Nat, NEW d \in Nat \ {0}, p * d <= a
    PROVE  p <= a \div d
BY SMTT(30)

(* What ane_iommu_domain_init computes is a range of whole pages inside    *)
(* the geometry and below 4 GiB that leaves page 0 out.                    *)
LEMMA WindowInside ==
    ASSUME PagesAssumption, NEW a \in Apertures, Window(a) # <<>>,
           NEW lo, lo = Window(a)[1] \div PageSize,
           NEW hi, hi = Window(a)[2] \div PageSize
    PROVE  /\ lo \in Nat /\ hi \in Nat
           /\ 0 < lo
           /\ a.start <= lo * PageSize
           /\ hi * PageSize - 1 <= Min({a.end, U32Max})
           /\ lo .. hi - 1 \subseteq Places
<1> DEFINE first == Max({a.start, PageSize})
           last == Min({a.end, U32Max})
           p == (first + PageSize - 1) \div PageSize
           q == (last + 1) \div PageSize
<1>1. /\ PageSize \in Nat \ {0} /\ U32Max \in Nat
      /\ a.start \in Nat /\ a.end \in Nat
  BY DEF PagesAssumption
<1>2. first \in Nat /\ a.start <= first /\ PageSize <= first
  <2>1. a.start \in Int /\ PageSize \in Int
    BY ONLY <1>1
  <2>2. /\ first \in {a.start, PageSize}
        /\ a.start <= first /\ PageSize <= first
    BY ONLY <2>1, MaxTwo, ZenonT(30)
  <2> QED BY ONLY <1>1, <2>2, ZenonT(30)
<1>3. last \in Nat /\ last <= U32Max
  <2>1. a.end \in Int /\ U32Max \in Int
    BY ONLY <1>1
  <2>2. last \in {a.end, U32Max} /\ last <= U32Max
    BY ONLY <2>1, MinTwo, Zenon
  <2> QED BY ONLY <1>1, <2>2, ZenonT(30)
<1>4. Window(a)[1] = p * PageSize /\ Window(a)[2] = q * PageSize
  BY DEF Window
<1> HIDE DEF first, last
<1>5. first + PageSize - 1 \in Nat /\ last + 1 \in Nat
  BY <1>1, <1>2, <1>3, SMTT(30)
<1>6. /\ p \in Nat /\ first + PageSize - 1 < p * PageSize + PageSize
      /\ q \in Nat /\ q * PageSize <= last + 1
  BY <1>1, <1>5, DivBounds
<1> HIDE DEF p, q
<1>7. lo = p /\ hi = q
  BY <1>1, <1>4, <1>6, DivTimes
<1>8. /\ p * PageSize \in Nat /\ q * PageSize \in Nat
      /\ first <= p * PageSize
  BY ONLY <1>1, <1>2, <1>6
<1>9. 0 < p
  <2>1. CASE p = 0
    BY ONLY <2>1, <1>1, <1>2, <1>8
  <2> QED BY ONLY <2>1, <1>6
<1>10. q * PageSize - 1 <= last
  BY ONLY <1>3, <1>6, <1>8
<1>11. ASSUME NEW x \in p .. q - 1 PROVE x \in Places
  <2>1. x \in Nat /\ x + 1 \in Nat /\ x + 1 <= q
    BY ONLY <1>6, x \in p .. q - 1
  <2>2. (x + 1) * PageSize <= q * PageSize
    BY ONLY <2>1, <1>1, <1>6, TimesMonotone, ZenonT(30)
  <2>3. x * PageSize <= U32Max
    BY ONLY <2>1, <2>2, <1>1, <1>3, <1>8, <1>10
  <2>4. U32Max \div PageSize \in Nat
    BY ONLY <1>1, SMTT(30)
  <2> QED BY ONLY <2>1, <2>3, <2>4, <1>1, BelowQuotient DEF Places
<1> QED
  BY ONLY <1>2, <1>1, <1>6, <1>7, <1>8, <1>9, <1>10, <1>11 DEF last

-----------------------------------------------------------------------------
(* Below 4 GiB nothing is lost in 32 bits. *)
LEMMA NarrowBytes ==
    ASSUME PagesAssumption, NEW b \in BOs, ~Wide(b)
    PROVE  \A i \in 0 .. NPages[b] : Bytes32(i) = i
<1>1. NPages[b] \in Nat /\ (U32Max + 1) \div PageSize \in Nat
  <2>1. NPages[b] \in Nat /\ U32Max \in Nat /\ PageSize \in Nat \ {0}
    BY DEF PagesAssumption
  <2> QED BY ONLY <2>1, SMTT(30)
<1>2. PICK q \in Nat : q = (U32Max + 1) \div PageSize
  BY <1>1
<1>3. NPages[b] < q
  BY ONLY <1>1, <1>2, ~Wide(b), SMTT(30) DEF Wide
<1>4. \A i \in 0 .. NPages[b] : i % q = i
  BY ONLY <1>1, <1>2, <1>3, SMTT(30)
<1> QED BY ONLY <1>2, <1>4, ZenonT(30) DEF Bytes32

(* A node is a finite range of whole pages, counted from its start.        *)
LEMMA NodeFacts ==
    ASSUME PagesInv, NEW b \in BOs, mm[b] # 0
    PROVE  /\ mm[b] \in Nat /\ NPages[b] \in Nat /\ 0 < NPages[b]
           /\ op.pc \notin {"unbound", "failed", "purge"}
           /\ RangeOf(b, mm[b]) \subseteq Places
           /\ RangeOf(b, mm[b]) \subseteq InRange
           /\ IsFiniteSet(RangeOf(b, mm[b]))
           /\ \A i \in 0 .. NPages[b] - 1 : mm[b] + i \in RangeOf(b, mm[b])
           /\ \A x \in RangeOf(b, mm[b]) :
                 x - mm[b] \in 0 .. NPages[b] - 1 /\ mm[b] + (x - mm[b]) = x
           /\ \A i \in 0 .. NPages[b] : Bytes32(i) = i
           /\ NodeOf(b, mm[b]) = RangeOf(b, mm[b])
           /\ RangeOf(b, mm[b]) \cap Places = RangeOf(b, mm[b])
<1>1. /\ mm[b] \in Nat /\ NPages[b] \in Nat /\ 0 < NPages[b]
  <2>1. U32Max \div PageSize \in Nat
    BY DivBounds DEF PagesInv, PagesAssumption
  <2>2. mm[b] \in Places
    BY DEF PagesInv, PagesTypeOK
  <2>3. NPages[b] \in Nat \ {0}
    BY DEF PagesInv, PagesAssumption
  <2> QED BY ONLY <2>1, <2>2, <2>3 DEF Places
<1>2. op.pc \notin {"unbound", "failed", "purge"}
  BY DEF PagesInv, NodeInv
<1>3. RangeOf(b, mm[b]) \subseteq InRange
  BY DEF PagesInv, NodeInv
<1>4. InRange \subseteq Places
  BY <1>2 DEF PagesInv, RangeInv
<1>5. IsFiniteSet(RangeOf(b, mm[b]))
  <2>1. mm[b] \in Int /\ mm[b] + NPages[b] - 1 \in Int
    BY ONLY <1>1
  <2> QED BY ONLY <2>1, FS_Interval, ZenonT(30) DEF RangeOf
<1>6. /\ \A i \in 0 .. NPages[b] - 1 : mm[b] + i \in RangeOf(b, mm[b])
      /\ \A x \in RangeOf(b, mm[b]) :
            x - mm[b] \in 0 .. NPages[b] - 1 /\ mm[b] + (x - mm[b]) = x
  BY ONLY <1>1 DEF RangeOf
<1>7. \A i \in 0 .. NPages[b] : Bytes32(i) = i
  BY NarrowBytes DEF PagesInv, NarrowInv
<1>8. NodeOf(b, mm[b]) = RangeOf(b, mm[b])
  <2>1. NPages[b] \in 0 .. NPages[b]
    BY ONLY <1>1, SMTT(30)
  <2> QED BY ONLY <1>7, <2>1, ZenonT(30) DEF NodeOf, RangeOf
<1>9. RangeOf(b, mm[b]) \cap Places = RangeOf(b, mm[b])
  BY ONLY <1>3, <1>4, ZenonT(30)
<1> QED BY ONLY <1>1, <1>2, <1>3, <1>4, <1>5, <1>6, <1>7, <1>8, <1>9, ZenonT(30)

(* iommu_unmap changes entries of its range only, and what it loses is     *)
(* debris.                                                                 *)
LEMMA UnmapEffect ==
    ASSUME PagesInv, NEW S \in SUBSET Places, NEW L \in SUBSET S, IsFiniteSet(S), Unmap(S, L)
    PROVE  /\ pte' \in [Places -> {NoPte, Stray} \cup (BOs \X Nat)]
           /\ lost' \in 0 .. MaxLost
           /\ debris' \subseteq Places
           /\ \A x \in Places \ S : pte'[x] = pte[x] /\ (x \in debris => x \in debris')
           /\ \A x \in S : pte'[x] # NoPte => x \in debris'
           /\ \A x \in S \ L : pte'[x] = NoPte
<1>1. pte \in [Places -> {NoPte, Stray} \cup (BOs \X Nat)] /\ debris \subseteq Places
  BY DEF PagesInv, PagesTypeOK
<1>2. pte' = [x \in Places |-> IF x \in S \ L THEN NoPte ELSE pte[x]]
  BY DEF Unmap
<1>3. debris' = (debris \ S) \cup L
  BY DEF Unmap
<1>4. lost' \in 0 .. MaxLost
  <2>1. Cardinality(L) \in Nat
    BY FS_Subset, FS_CardinalityType
  <2>2. lost \in 0 .. MaxLost /\ MaxLost \in Nat
    BY DEF PagesInv, PagesTypeOK, PagesAssumption
  <2>3. lost' = lost + Cardinality(L) /\ lost + Cardinality(L) <= MaxLost
    BY DEF Unmap
  <2> QED BY ONLY <2>1, <2>2, <2>3
<1>5. pte' \in [Places -> {NoPte, Stray} \cup (BOs \X Nat)]
  BY ONLY <1>1, <1>2, ZenonT(30)
<1>6. debris' \subseteq Places
  BY ONLY <1>1, <1>3, S \in SUBSET Places, L \in SUBSET S, ZenonT(30)
<1>7. /\ \A x \in Places \ S : pte'[x] = pte[x] /\ (x \in debris => x \in debris')
      /\ \A x \in S : pte'[x] # NoPte => x \in debris'
      /\ \A x \in S \ L : pte'[x] = NoPte
  BY ONLY <1>2, <1>3, S \in SUBSET Places, L \in SUBSET S, ZenonT(30)
<1> QED BY ONLY <1>4, <1>5, <1>6, <1>7, ZenonT(30)

(* A step of a map call that changes entries of its own node only leaves   *)
(* the other buffers as they are.                                          *)
LEMMA CallStep ==
    ASSUME PagesInv,
           op.pc \in Calling, op'.pc \in Calling \cup {"idle"}, op'.bo = op.bo,
           mm' = mm \/ mm' = [mm EXCEPT ![op.bo] = 0],
           op'.pc \in Calling => mm' = mm,
           UNCHANGED <<ap, mmlo, mmhi, wide>>,
           \A x \in Places \ RangeOf(op.bo, mm[op.bo]) :
               pte'[x] = pte[x] /\ (x \in debris => x \in debris')
    PROVE  /\ RangeInv' /\ NodeInv' /\ NarrowInv'
           /\ \A b \in BOs \ {op.bo} : mm'[b] # 0 => b \in Live' /\ Whole(b)'
           /\ \A x \in Places \ RangeOf(op.bo, mm[op.bo]) : pte'[x] # NoPte => Covered(x)'
<1> DEFINE o == op.bo
           S == RangeOf(o, mm[o])
<1>1. o \in BOs /\ mm \in [BOs -> Places] /\ mm[o] # 0 /\ mm[o] \in Nat
      /\ NPages[o] \in Nat
  <2>1. o \in BOs /\ mm \in [BOs -> Places] /\ mm[o] # 0
    BY DEF PagesInv, PagesTypeOK, NodeInv
  <2> QED BY <2>1, NodeFacts
<1>2. \A b \in BOs : mm'[b] = mm[b] \/ (b = o /\ mm'[b] = 0)
  BY <1>1
<1>3. op.pc \notin {"unbound", "failed", "purge"} /\ op'.pc \notin {"unbound", "failed", "purge"}
  BY DEF Calling
<1>4. RangeInv'
  BY <1>3 DEF PagesInv, RangeInv, InRange, Places
<1>5. NodeInv'
  <2>1. \A b \in BOs : mm'[b] # 0 => RangeOf(b, mm'[b]) \subseteq InRange'
    BY <1>2 DEF PagesInv, NodeInv, InRange
  <2>2. \A b, c \in BOs : b # c /\ mm'[b] # 0 /\ mm'[c] # 0
                             => RangeOf(b, mm'[b]) \cap RangeOf(c, mm'[c]) = {}
    BY <1>2 DEF PagesInv, NodeInv
  <2>3. op'.pc \in Calling => mm'[op'.bo] # 0
    BY <1>1
  <2> QED BY ONLY <1>3, <2>1, <2>2, <2>3, ZenonT(30) DEF NodeInv, RangeOf
<1>6. ASSUME NEW b \in BOs \ {o}, mm[b] # 0
      PROVE  /\ b \in Live /\ mm'[b] = mm[b] /\ b \in Live'
             /\ RangeOf(b, mm[b]) \subseteq Places \ S
  <2>1. b \in Live
    BY <1>6 DEF Live
  <2>2. mm'[b] = mm[b]
    BY <1>2
  <2>3. b \in Live'
    BY <1>6, <2>2 DEF Live
  <2>4. RangeOf(b, mm[b]) \cap S = {}
    BY <1>1, <1>6 DEF PagesInv, NodeInv
  <2>5. RangeOf(b, mm[b]) \subseteq Places
    BY <1>6, NodeFacts
  <2> QED BY ONLY <2>1, <2>2, <2>3, <2>4, <2>5, ZenonT(30)
<1>7. ASSUME NEW b \in BOs \ {o}, mm'[b] # 0
      PROVE  b \in Live' /\ Whole(b)'
  <2>1. mm[b] # 0
    BY <1>2, <1>7
  <2>2. /\ b \in Live /\ mm'[b] = mm[b] /\ b \in Live'
        /\ RangeOf(b, mm[b]) \subseteq Places \ S
    BY <1>6, <2>1
  <2>3. \A i \in 0 .. NPages[b] - 1 : mm[b] + i \in RangeOf(b, mm[b])
    BY <2>1, NodeFacts
  <2>4. \A i \in 0 .. NPages[b] - 1 : pte[mm[b] + i] = <<b, i>>
    BY <2>2 DEF PagesInv, MapInv, Whole
  <2>5. \A x \in Places \ S : pte'[x] = pte[x]
    OBVIOUS
  <2>6. \A i \in 0 .. NPages[b] - 1 : pte'[mm'[b] + i] = <<b, i>>
    BY ONLY <2>2, <2>3, <2>4, <2>5, ZenonT(30)
  <2> QED BY ONLY <2>2, <2>6, ZenonT(30) DEF Whole
<1>8. ASSUME NEW x \in Places \ S, pte'[x] # NoPte
      PROVE  Covered(x)'
  <2>1. pte[x] # NoPte /\ (x \in debris => x \in debris')
    BY <1>8
  <2>2. Covered(x)
    BY <2>1 DEF PagesInv, EntryInv
  <2>3. CASE x \in debris
    BY <2>1, <2>3 DEF Covered
  <2>4. CASE \E b \in Live : x \in RangeOf(b, mm[b])
    <3>1. PICK b \in Live : x \in RangeOf(b, mm[b])
      BY <2>4
    <3>2. b \in BOs \ {o} /\ mm[b] # 0
      BY <3>1 DEF Live
    <3>3. b \in Live' /\ mm'[b] = mm[b]
      BY <1>6, <3>2
    <3> QED BY <3>1, <3>3 DEF Covered, RangeOf
  <2>5. CASE op.pc \in {"each", "rollback"} /\ x \in Done
    <3>1. op.i \in Nat /\ op.i <= NPages[o]
      BY <2>5 DEF PagesInv, MapInv, PagesTypeOK
    <3>2. PICK j \in 0 .. op.i - 1 : x = mm[o] + j
      BY <2>5 DEF Done
    <3> QED BY ONLY <3>1, <3>2, <1>1, x \in Places \ S DEF RangeOf
  <2>6. CASE op.pc = "short" /\ x \in RangeOf(op.bo, mm[op.bo])
    BY <2>6
  <2> QED BY ONLY <2>2, <2>3, <2>4, <2>5, <2>6, ZenonT(30) DEF Covered
<1>9. NarrowInv'
  BY <1>2 DEF PagesInv, NarrowInv, Wide
<1> QED BY ONLY <1>4, <1>5, <1>7, <1>8, <1>9, ZenonT(30)

-----------------------------------------------------------------------------
OpType == [pc : {"unbound", "failed", "purge", "idle", "each", "rollback", "batch", "short"},
           bo : BOs, i : Nat, healed : BOOLEAN, slipped : BOOLEAN,
           err : {"ok", "ENOMEM", "EEXIST", "EIO"}]

(* What a step of a call owes beyond CallStep: its own node.               *)
LEMMA OwnNode ==
    ASSUME PagesInv,
           op.pc \in Calling, op'.pc \in Calling \cup {"idle"}, op'.bo = op.bo, op' \in OpType,
           mm' = mm \/ mm' = [mm EXCEPT ![op.bo] = 0],
           op'.pc \in Calling => mm' = mm,
           UNCHANGED <<ap, mmlo, mmhi, wide>>,
           pte' \in [Places -> {NoPte, Stray} \cup (BOs \X Nat)],
           lost' \in 0 .. MaxLost, debris' \subseteq Places,
           \A x \in Places \ RangeOf(op.bo, mm[op.bo]) :
               pte'[x] = pte[x] /\ (x \in debris => x \in debris'),
           op'.pc = "idle" /\ mm' = mm => Whole(op.bo)',
           op'.pc \in {"each", "rollback"} =>
               /\ op'.i <= NPages[op.bo]
               /\ op'.pc = "each" => op'.i < NPages[op.bo]
               /\ \A j \in 0 .. op'.i - 1 : pte'[mm[op.bo] + j] = <<op.bo, j>>,
           \A x \in RangeOf(op.bo, mm[op.bo]) : pte'[x] # NoPte => Covered(x)',
           SlipInv'
    PROVE  PagesInv'
<1> DEFINE o == op.bo
<1>1. /\ RangeInv' /\ NodeInv' /\ NarrowInv'
      /\ \A b \in BOs \ {op.bo} : mm'[b] # 0 => b \in Live' /\ Whole(b)'
      /\ \A x \in Places \ RangeOf(op.bo, mm[op.bo]) : pte'[x] # NoPte => Covered(x)'
  BY CallStep
<1>2. o \in BOs /\ mm \in [BOs -> Places] /\ mm[o] # 0 /\ 0 \in Places
  <2>1. o \in BOs /\ mm \in [BOs -> Places] /\ mm[o] # 0
    BY DEF PagesInv, PagesTypeOK, NodeInv
  <2>2. U32Max \div PageSize \in Nat
    BY DivBounds DEF PagesInv, PagesAssumption
  <2> QED BY ONLY <2>1, <2>2 DEF Places
<1>3. PagesTypeOK'
  <2>1. mm' \in [BOs -> Places]
    BY <1>2
  <2>2. ap' \in Apertures /\ {mmlo', mmhi'} \subseteq Nat /\ wide' \in BOOLEAN
    BY DEF PagesInv, PagesTypeOK
  <2> QED BY <2>1, <2>2 DEF PagesTypeOK, OpType, Places
<1>4. MapInv'
  <2>1. ASSUME NEW b \in Live' PROVE Whole(b)'
    <3>1. b \in BOs /\ mm'[b] # 0
      BY DEF Live
    <3>2. CASE b # o
      BY ONLY <1>1, <3>1, <3>2, ZenonT(30)
    <3>3. CASE b = o
      <4>1. op'.pc = "idle"
        BY <3>3 DEF Live
      <4>2. mm' = mm
        BY <1>2, <3>1, <3>3
      <4> QED BY <3>3, <4>1, <4>2
    <3> QED BY <3>2, <3>3
  <2>2. op'.pc \in {"each", "rollback"} =>
           /\ op'.i <= NPages[op'.bo]
           /\ op'.pc = "each" => op'.i < NPages[op'.bo]
           /\ \A j \in 0 .. op'.i - 1 : pte'[mm'[op'.bo] + j] = <<op'.bo, j>>
    BY DEF Calling
  <2> QED BY ONLY <2>1, <2>2, ZenonT(30) DEF MapInv
<1>5. EntryInv'
  BY <1>1 DEF EntryInv, Places
<1>6. PagesAssumption'
  BY DEF PagesInv, PagesAssumption
<1> QED BY ONLY <1>1, <1>3, <1>4, <1>5, <1>6, SlipInv', ZenonT(30) DEF PagesInv

(* One page of a page-wise map: mapped, refused for want of memory,        *)
(* cleared of a stray, or refused.                                         *)
LEMMA MapEachStep ==
    ASSUME PagesInv, MapEach
    PROVE  PagesInv'
<1> DEFINE o == op.bo
           x0 == mm[o] + op.i
           S == RangeOf(o, mm[o])
           E == {NoPte, Stray} \cup (BOs \X Nat)
<1>1. /\ op \in OpType /\ op.pc = "each" /\ op.pc \in Calling
      /\ o \in BOs /\ op.i \in Nat /\ mm \in [BOs -> Places] /\ mm[o] # 0
      /\ op.i < NPages[o]
      /\ pte \in [Places -> E] /\ lost \in 0 .. MaxLost /\ debris \subseteq Places
      /\ \A j \in 0 .. op.i - 1 : pte[mm[o] + j] = <<o, j>>
      /\ UNCHANGED <<ap, mmlo, mmhi, wide>>
  BY DEF MapEach, PagesInv, PagesTypeOK, NodeInv, MapInv, OpType, Calling
<1>2. /\ mm[o] \in Nat /\ NPages[o] \in Nat /\ S \subseteq Places
      /\ \A i \in 0 .. NPages[o] - 1 : mm[o] + i \in S
      /\ \A x \in S : x - mm[o] \in 0 .. NPages[o] - 1 /\ mm[o] + (x - mm[o]) = x
  BY <1>1, NodeFacts
<1>3. /\ x0 \in S /\ x0 \in Places
      /\ \A j \in 0 .. op.i - 1 : mm[o] + j # x0 /\ mm[o] + j \in Places
  <2>1. op.i \in 0 .. NPages[o] - 1 /\ \A j \in 0 .. op.i - 1 : j \in 0 .. NPages[o] - 1 /\ mm[o] + j # mm[o] + op.i
    BY ONLY <1>1, <1>2
  <2> QED BY ONLY <2>1, <1>2, ZenonT(30)
<1>4. \A x \in S : pte[x] # NoPte => x \in debris \/ x \in Done
  <2> SUFFICES ASSUME NEW x \in S, pte[x] # NoPte
               PROVE  x \in debris \/ x \in Done
    OBVIOUS
  <2>1. Covered(x)
    BY <1>2 DEF PagesInv, EntryInv
  <2>2. ~(\E b \in Live : x \in RangeOf(b, mm[b]))
    <3> SUFFICES ASSUME NEW b \in Live, x \in RangeOf(b, mm[b])
                 PROVE  FALSE
      OBVIOUS
    <3>1. b \in BOs /\ b # o /\ mm[b] # 0
      BY <1>1 DEF Live
    <3> QED BY <1>1, <3>1 DEF PagesInv, NodeInv
  <2> QED BY <1>1, <2>1, <2>2 DEF Covered
<1> HIDE DEF x0, S
<1>5. CASE /\ pte[x0] = NoPte
           /\ pte' = [pte EXCEPT ![x0] = <<o, op.i>>]
           /\ op' = IF op.i + 1 = NPages[o] THEN [op EXCEPT !.pc = "idle", !.err = "ok"]
                    ELSE [op EXCEPT !.i = @ + 1, !.healed = FALSE]
           /\ UNCHANGED <<mm, lost, debris>>
  <2>1. pte' \in [Places -> E] /\ pte'[x0] = <<o, op.i>>
        /\ \A x \in Places \ {x0} : pte'[x] = pte[x]
    BY <1>1, <1>3, <1>5
  <2>2. \A x \in Places \ S : pte'[x] = pte[x] /\ (x \in debris => x \in debris')
    BY <1>3, <1>5, <2>1
  <2>3. \A j \in 0 .. op.i : pte'[mm[o] + j] = <<o, j>>
    <3> TAKE j \in 0 .. op.i
    <3>1. CASE j = op.i
      BY ONLY <2>1, <3>1, ZenonT(30) DEF x0
    <3>2. CASE j # op.i
      <4>1. j \in 0 .. op.i - 1
        BY ONLY <1>1, <3>2, j \in 0 .. op.i, SMTT(30)
      <4> QED BY ONLY <4>1, <1>1, <1>3, <2>1, ZenonT(30)
    <3> QED BY <3>1, <3>2
  <2>4. CASE op.i + 1 = NPages[o]
    <3>1. /\ op' \in OpType /\ op'.pc = "idle" /\ op'.bo = o /\ op'.err = "ok"
      BY <1>1, <1>5, <2>4 DEF OpType
    <3>2. Whole(o)'
      <4>1. \A j \in 0 .. NPages[o] - 1 : j \in 0 .. op.i
        BY ONLY <1>1, <2>4
      <4>2. \A j \in 0 .. NPages[o] - 1 : pte'[mm[o] + j] = <<o, j>>
        BY ONLY <2>3, <4>1, ZenonT(30)
      <4>3. mm' = mm
        BY ONLY <1>5, ZenonT(30)
      <4> QED BY ONLY <3>1, <4>2, <4>3, ZenonT(30) DEF Whole
    <3>3. o \in Live'
      BY <1>1, <1>5, <3>1 DEF Live
    <3>4. \A x \in S : Covered(x)'
      BY <1>5, <3>3 DEF Covered, S, RangeOf
    <3>5. SlipInv'
      BY <3>1 DEF SlipInv
    <3>6. /\ mm' = mm /\ lost' \in 0 .. MaxLost /\ debris' \subseteq Places
          /\ op'.pc \notin {"each", "rollback"} /\ op'.pc \in Calling \cup {"idle"}
      BY ONLY <1>1, <1>5, <3>1, ZenonT(30) DEF Calling
    <3> QED
      BY ONLY PagesInv, <1>1, <2>1, <2>2, <3>1, <3>2, <3>4, <3>5, <3>6, OwnNode, ZenonT(30) DEF S
  <2>5. CASE op.i + 1 # NPages[o]
    <3>1. /\ op' = [op EXCEPT !.i = op.i + 1, !.healed = FALSE]
          /\ op.i + 1 \in Nat /\ op.i + 1 < NPages[o]
      BY <1>1, <1>2, <1>5, <2>5, SMTT(30)
    <3>2. /\ op' \in OpType /\ op'.pc = "each" /\ op'.bo = o /\ op'.i = op.i + 1
          /\ op'.err = op.err /\ op'.healed = FALSE /\ op'.slipped = op.slipped
      BY ONLY <1>1, <3>1, Zenon DEF OpType
    <3>3. \A j \in 0 .. op'.i - 1 : pte'[mm[o] + j] = <<o, j>>
      BY ONLY <1>1, <2>3, <3>2, SMTT(30)
    <3>4. Done \subseteq Done' /\ x0 \in Done'
      BY ONLY <1>1, <1>5, <3>2 DEF Done, x0
    <3>5. \A x \in S : pte'[x] # NoPte => Covered(x)'
      BY ONLY <1>2, <1>4, <1>5, <2>1, <3>2, <3>4, ZenonT(30) DEF Covered
    <3>6. SlipInv'
      BY <3>2 DEF SlipInv, PagesInv
    <3>7. /\ mm' = mm /\ lost' \in 0 .. MaxLost /\ debris' \subseteq Places
          /\ op'.i <= NPages[o] /\ op'.i < NPages[o] /\ op'.pc \in Calling /\ op'.pc # "idle"
      BY ONLY <1>1, <1>2, <1>5, <3>1, <3>2, SMTT(30) DEF Calling
    <3> QED
      BY ONLY PagesInv, <1>1, <2>1, <2>2, <3>2, <3>3, <3>5, <3>6, <3>7, OwnNode, ZenonT(30) DEF S
  <2> QED BY <2>4, <2>5
<1>6. ASSUME NEW e \in {"ENOMEM", "EEXIST"},
             op' = [op EXCEPT !.pc = "rollback", !.err = e],
             e = "EEXIST" => op.slipped,
             UNCHANGED <<mm, pte, lost, debris>>
      PROVE  PagesInv'
  <2>1. /\ op' \in OpType /\ op'.pc = "rollback" /\ op'.bo = o /\ op'.i = op.i
        /\ op'.err = e /\ op'.slipped = op.slipped
    BY ONLY <1>1, <1>6, ZenonT(40) DEF OpType
  <2>2. \A x \in S : pte'[x] # NoPte => Covered(x)'
    BY ONLY <1>4, <1>6, <2>1, ZenonT(30) DEF Covered, Done
  <2>3. SlipInv'
    BY <1>6, <2>1 DEF SlipInv
  <2>4. op'.i <= NPages[o]
    BY ONLY <1>1, <1>2, <2>1
  <2> QED
    BY <1>1, <1>6, <2>1, <2>2, <2>3, <2>4, OwnNode DEF S, Calling
<1>7. CASE /\ HealEach(x0)
           /\ \E L \in SUBSET {x0} :
                 Unmap({x0}, L) /\ op' = [op EXCEPT !.healed = TRUE, !.slipped = @ \/ L # {}]
           /\ UNCHANGED mm
  <2>1. PICK L \in SUBSET {x0} :
                 Unmap({x0}, L) /\ op' = [op EXCEPT !.healed = TRUE, !.slipped = @ \/ L # {}]
    BY <1>7
  <2>2. {x0} \in SUBSET Places /\ IsFiniteSet({x0})
    BY <1>3, FS_Singleton
  <2>3. /\ pte' \in [Places -> E]
        /\ lost' \in 0 .. MaxLost
        /\ debris' \subseteq Places
        /\ \A x \in Places \ {x0} : pte'[x] = pte[x] /\ (x \in debris => x \in debris')
        /\ \A x \in {x0} : pte'[x] # NoPte => x \in debris'
        /\ \A x \in {x0} \ L : pte'[x] = NoPte
    BY <2>1, <2>2, UnmapEffect
  <2>4. op' \in OpType
    BY <1>1, <2>1 DEF OpType
  <2>5. /\ op'.pc = "each" /\ op'.bo = o /\ op'.i = op.i /\ op'.err = op.err
        /\ op'.slipped = (op.slipped \/ L # {})
    BY ONLY <1>1, <2>1, ZenonT(30) DEF OpType
  <2>6. \A x \in S : pte'[x] # NoPte => Covered(x)'
    BY ONLY <1>2, <1>4, <1>7, <2>3, <2>5 DEF Covered, Done
  <2>7. \A j \in 0 .. op'.i - 1 : pte'[mm[o] + j] = <<o, j>>
    BY ONLY <1>1, <1>3, <2>3, <2>5, ZenonT(30)
  <2>8. SlipInv'
    <3>1. pte'[x0] # NoPte => op'.slipped
      BY ONLY <2>1, <2>3, <2>5, Zenon
    <3>2. op'.err = "EEXIST" => op'.slipped
      BY <2>5 DEF PagesInv, SlipInv
    <3>3. mm'[op'.bo] + op'.i = x0
      BY <1>7, <2>5 DEF x0
    <3> QED BY ONLY <2>5, <3>1, <3>2, <3>3, ZenonT(30) DEF SlipInv
  <2> QED
    <3>1. \A x \in Places \ S : pte'[x] = pte[x] /\ (x \in debris => x \in debris')
      BY ONLY <1>3, <2>3, ZenonT(30)
    <3>2. op'.i < NPages[o] /\ op'.i <= NPages[o]
      BY ONLY <1>1, <1>2, <2>5
    <3>3. op'.pc # "idle" /\ op'.pc \in Calling
      BY ONLY <2>5, ZenonT(30) DEF Calling
    <3> QED
      BY ONLY PagesInv, <1>1, <1>7, <2>3, <2>4, <2>5, <2>6, <2>7, <2>8, <3>1, <3>2, <3>3, OwnNode, ZenonT(30) DEF S
<1>8. CASE /\ pte[x0] # NoPte /\ ~HealEach(x0)
           /\ op' = [op EXCEPT !.pc = "rollback", !.err = "EEXIST"]
           /\ UNCHANGED <<mm, pte, lost, debris>>
  <2>1. op.slipped
    BY <1>1, <1>8 DEF HealEach, PagesInv, SlipInv, x0
  <2> QED BY <1>6, <1>8, <2>1
<1>9. CASE /\ pte[x0] = NoPte
           /\ op' = [op EXCEPT !.pc = "rollback", !.err = "ENOMEM"]
           /\ UNCHANGED <<mm, pte, lost, debris>>
  BY <1>6, <1>9
<1>10. mm[o] + Bytes32(op.i) = x0
  <2>1. op.i \in 0 .. NPages[o]
    BY ONLY <1>1, <1>2, SMTT(30)
  <2> QED BY <1>1, <2>1, NodeFacts DEF x0
<1> QED BY <1>3, <1>5, <1>7, <1>8, <1>9, <1>10 DEF MapEach

(* What the own node of a call can hold: debris, and what the call itself  *)
(* has put there.                                                          *)
LEMMA OwnEntries ==
    ASSUME PagesInv, op.pc \in Calling
    PROVE  \A x \in RangeOf(op.bo, mm[op.bo]) :
              pte[x] # NoPte => \/ x \in debris
                                \/ op.pc \in {"each", "rollback"} /\ x \in Done
                                \/ op.pc = "short"
<1>1. op.bo \in BOs /\ mm[op.bo] # 0 /\ op.pc # "idle"
  BY DEF PagesInv, PagesTypeOK, NodeInv, Calling
<1>2. RangeOf(op.bo, mm[op.bo]) \subseteq Places
  BY <1>1, NodeFacts
<1> SUFFICES ASSUME NEW x \in RangeOf(op.bo, mm[op.bo]), pte[x] # NoPte
             PROVE  \/ x \in debris
                    \/ op.pc \in {"each", "rollback"} /\ x \in Done
                    \/ op.pc = "short"
  OBVIOUS
<1>3. Covered(x)
  BY <1>2 DEF PagesInv, EntryInv
<1>4. ~(\E b \in Live : x \in RangeOf(b, mm[b]))
  <2> SUFFICES ASSUME NEW b \in Live, x \in RangeOf(b, mm[b])
               PROVE  FALSE
    OBVIOUS
  <2>1. b \in BOs /\ b # op.bo /\ mm[b] # 0
    BY <1>1 DEF Live
  <2> QED BY <1>1, <2>1 DEF PagesInv, NodeInv
<1> QED BY <1>3, <1>4 DEF Covered

(* The error tail: what is left in the node that goes back is debris.      *)
LEMMA FailStep ==
    ASSUME PagesInv, op.pc \in Calling, NEW e \in {"ok", "ENOMEM", "EEXIST", "EIO"}, Fail(e),
           e = "EEXIST" => op.slipped,
           UNCHANGED <<ap, mmlo, mmhi, wide>>,
           pte' \in [Places -> {NoPte, Stray} \cup (BOs \X Nat)],
           lost' \in 0 .. MaxLost, debris' \subseteq Places,
           \A x \in Places \ RangeOf(op.bo, mm[op.bo]) :
               pte'[x] = pte[x] /\ (x \in debris => x \in debris'),
           \A x \in RangeOf(op.bo, mm[op.bo]) : pte'[x] # NoPte => x \in debris'
    PROVE  PagesInv'
<1>1. op \in OpType /\ op.bo \in BOs /\ mm \in [BOs -> Places] /\ mm[op.bo] # 0
  BY DEF PagesInv, PagesTypeOK, NodeInv, OpType
<1>2. mm' = [mm EXCEPT ![op.bo] = 0] /\ op' = [op EXCEPT !.pc = "idle", !.err = e]
  BY DEF Fail
<1>3. /\ op' \in OpType /\ op'.pc = "idle" /\ op'.bo = op.bo /\ op'.err = e
      /\ op'.slipped = op.slipped
  BY ONLY <1>1, <1>2, e \in {"ok", "ENOMEM", "EEXIST", "EIO"}, Zenon DEF OpType
<1>4. mm' # mm
  BY ONLY <1>1, <1>2, ZenonT(30)
<1>5. \A x \in RangeOf(op.bo, mm[op.bo]) : pte'[x] # NoPte => Covered(x)'
  BY DEF Covered
<1>6. SlipInv'
  BY <1>3 DEF SlipInv
<1>7. op'.pc \in Calling \cup {"idle"} /\ op'.pc \notin Calling /\ op'.pc \notin {"each", "rollback"}
  BY ONLY <1>3, ZenonT(30) DEF Calling
<1> HIDE DEF SlipInv, Covered
<1> QED BY <1>2, <1>3, <1>4, <1>5, <1>6, <1>7, OwnNode

(* One page of the rollback, or the error tail after the last one.         *)
LEMMA RollbackStep ==
    ASSUME PagesInv, Rollback
    PROVE  PagesInv'
<1> DEFINE o == op.bo
           S == RangeOf(o, mm[o])
           E == {NoPte, Stray} \cup (BOs \X Nat)
<1>1. /\ op \in OpType /\ op.pc = "rollback" /\ op.pc \in Calling
      /\ o \in BOs /\ op.i \in Nat /\ mm[o] # 0
      /\ op.i <= NPages[o] /\ op.err \in {"ok", "ENOMEM", "EEXIST", "EIO"}
      /\ pte \in [Places -> E] /\ lost \in 0 .. MaxLost /\ debris \subseteq Places
      /\ \A j \in 0 .. op.i - 1 : pte[mm[o] + j] = <<o, j>>
      /\ UNCHANGED <<ap, mmlo, mmhi, wide>>
  BY DEF Rollback, PagesInv, PagesTypeOK, NodeInv, MapInv, OpType, Calling
<1>2. /\ mm[o] \in Nat /\ NPages[o] \in Nat /\ S \subseteq Places
      /\ \A i \in 0 .. NPages[o] - 1 : mm[o] + i \in S
  BY <1>1, NodeFacts
<1>3. \A x \in S : pte[x] # NoPte => x \in debris \/ x \in Done
  BY <1>1, OwnEntries
<1>4. CASE op.i > 0
  <2> DEFINE x0 == RollbackPage
  <2>1. /\ x0 = mm[o] + (op.i - 1) /\ op.i - 1 \in Nat /\ op.i - 1 \in 0 .. NPages[o] - 1
    <3>1. op.i - 1 \in Nat /\ op.i - 1 \in 0 .. NPages[o] - 1 /\ op.i - 1 \in 0 .. NPages[o]
      BY ONLY <1>1, <1>2, <1>4, SMTT(30)
    <3>2. Bytes32(op.i - 1) = op.i - 1
      BY <1>1, <3>1, NodeFacts
    <3> QED BY ONLY <3>1, <3>2, ZenonT(30) DEF RollbackPage
  <2>2. x0 \in S /\ x0 \in Places
    BY <1>2, <2>1
  <2>3. PICK L \in SUBSET {x0} : Unmap({x0}, L)
    BY <1>4 DEF Rollback
  <2>4. op' = [op EXCEPT !.i = op.i - 1] /\ mm' = mm
    BY <1>4 DEF Rollback
  <2> HIDE DEF x0
  <2>5. {x0} \in SUBSET Places /\ IsFiniteSet({x0})
    BY <2>2, FS_Singleton
  <2>6. /\ pte' \in [Places -> E]
        /\ lost' \in 0 .. MaxLost
        /\ debris' \subseteq Places
        /\ \A x \in Places \ {x0} : pte'[x] = pte[x] /\ (x \in debris => x \in debris')
        /\ \A x \in {x0} : pte'[x] # NoPte => x \in debris'
    BY <2>3, <2>5, UnmapEffect
  <2>7. /\ op' \in OpType /\ op'.pc = "rollback" /\ op'.bo = o /\ op'.i = op.i - 1
        /\ op'.err = op.err /\ op'.slipped = op.slipped
    BY ONLY <1>1, <2>1, <2>4, ZenonT(30) DEF OpType
  <2>8. Done \subseteq Done' \cup {x0}
    BY ONLY <1>1, <2>1, <2>4, <2>7, SMTT(30) DEF Done
  <2>9. \A x \in S : pte'[x] # NoPte => Covered(x)'
    BY ONLY <1>2, <1>3, <2>6, <2>7, <2>8, ZenonT(30) DEF Covered
  <2>10. \A j \in 0 .. op'.i - 1 : pte'[mm[o] + j] = <<o, j>>
    <3> TAKE j \in 0 .. op'.i - 1
    <3>1. j \in 0 .. op.i - 1 /\ j \in 0 .. NPages[o] - 1 /\ mm[o] + j # x0
      BY ONLY <1>1, <1>2, <2>1, <2>7, j \in 0 .. op'.i - 1, SMTT(30)
    <3>2. mm[o] + j \in Places \ {x0}
      BY ONLY <1>2, <3>1, ZenonT(30)
    <3> QED BY ONLY <1>1, <2>6, <3>1, <3>2, ZenonT(30)
  <2>11. SlipInv'
    BY <2>7 DEF SlipInv, PagesInv
  <2>12. /\ op'.i <= NPages[o] /\ op'.pc # "each" /\ op'.pc # "idle" /\ op'.pc \in Calling
         /\ \A x \in Places \ S : pte'[x] = pte[x] /\ (x \in debris => x \in debris')
    BY ONLY <1>1, <1>2, <2>2, <2>6, <2>7, SMTT(30) DEF Calling
  <2> QED
    BY ONLY PagesInv, <1>1, <2>4, <2>6, <2>7, <2>9, <2>10, <2>11, <2>12, OwnNode, ZenonT(30)
<1>5. CASE ~(op.i > 0)
  <2>1. Fail(op.err) /\ UNCHANGED <<pte, lost, debris>>
    BY <1>5 DEF Rollback
  <2>2. Done = {}
    BY ONLY <1>1, <1>5 DEF Done
  <2>3. \A x \in S : pte'[x] # NoPte => x \in debris'
    BY ONLY <1>3, <2>1, <2>2, ZenonT(30)
  <2>4. op.err = "EEXIST" => op.slipped
    BY DEF PagesInv, SlipInv
  <2> QED
    BY ONLY PagesInv, <1>1, <2>1, <2>3, <2>4, FailStep, ZenonT(30)
<1> QED BY <1>4, <1>5

(* The batch: the whole sg table at once, in part, not at all, or after    *)
(* its range was cleared once.                                             *)
LEMMA MapBatchStep ==
    ASSUME PagesInv, MapBatch
    PROVE  PagesInv'
<1> DEFINE o == op.bo
           S == RangeOf(o, mm[o])
           E == {NoPte, Stray} \cup (BOs \X Nat)
           mapped(P) == [x \in Places |-> IF x \in P THEN <<o, x - mm[o]>> ELSE pte[x]]
<1>1. /\ op \in OpType /\ op.pc = "batch" /\ op.pc \in Calling
      /\ o \in BOs /\ mm[o] # 0
      /\ pte \in [Places -> E] /\ lost \in 0 .. MaxLost /\ debris \subseteq Places
      /\ UNCHANGED <<ap, mmlo, mmhi, wide>>
  BY DEF MapBatch, PagesInv, PagesTypeOK, NodeInv, OpType, Calling
<1>2. /\ mm[o] \in Nat /\ NPages[o] \in Nat /\ 0 < NPages[o] /\ S \subseteq Places /\ IsFiniteSet(S)
      /\ \A i \in 0 .. NPages[o] - 1 : mm[o] + i \in S
      /\ \A x \in S : x - mm[o] \in 0 .. NPages[o] - 1 /\ mm[o] + (x - mm[o]) = x
  BY <1>1, NodeFacts
<1>3. \A x \in S : pte[x] # NoPte => x \in debris
  BY <1>1, OwnEntries
<1>4. CASE /\ \A x \in S : pte[x] = NoPte
           /\ \E P \in SUBSET S :
                /\ pte' = mapped(P)
                /\ op' = IF ShortIsError(o, Cardinality(P))
                         THEN [op EXCEPT !.pc = "idle", !.err = "ok"]
                         ELSE [op EXCEPT !.pc = "short"]
           /\ UNCHANGED <<mm, lost, debris>>
  <2>1. PICK P \in SUBSET S :
                /\ pte' = mapped(P)
                /\ op' = IF ShortIsError(o, Cardinality(P))
                         THEN [op EXCEPT !.pc = "idle", !.err = "ok"]
                         ELSE [op EXCEPT !.pc = "short"]
    BY <1>4
  <2>2. \A x \in S : x - mm[o] \in Nat
    BY ONLY <1>2
  <2>3. /\ pte' \in [Places -> E]
        /\ \A x \in P : pte'[x] = <<o, x - mm[o]>>
        /\ \A x \in Places \ S : pte'[x] = pte[x]
    BY ONLY <1>1, <1>2, <2>1, <2>2, ZenonT(30)
  <2>4. /\ mm' = mm /\ lost' \in 0 .. MaxLost /\ debris' \subseteq Places /\ debris' = debris
    BY ONLY <1>1, <1>4, ZenonT(30)
  <2>5. CASE Cardinality(P) = NPages[o]
    <3>1. op' = [op EXCEPT !.pc = "idle", !.err = "ok"]
      BY ONLY <2>1, <2>5, ZenonT(30) DEF ShortIsError
    <3>2. /\ op' \in OpType /\ op'.pc = "idle" /\ op'.bo = o /\ op'.err = "ok"
          /\ op'.pc \notin {"each", "rollback"} /\ op'.pc \in Calling \cup {"idle"}
      BY ONLY <1>1, <3>1, ZenonT(40) DEF OpType, Calling
    <3>3. P = S
      <4>1. mm[o] \in Int /\ mm[o] + NPages[o] - 1 \in Int
            /\ (mm[o] + NPages[o] - 1) - mm[o] + 1 = NPages[o] /\ ~(mm[o] > mm[o] + NPages[o] - 1)
        BY ONLY <1>2, SMTT(30)
      <4>2. Cardinality(S) = NPages[o]
        BY ONLY <4>1, FS_Interval, ZenonT(30) DEF RangeOf
      <4> QED BY ONLY <1>2, <2>5, <4>2, P \in SUBSET S, FS_Subset, ZenonT(30)
    <3>4. \A i \in 0 .. NPages[o] - 1 : pte'[mm[o] + i] = <<o, i>>
      <4> TAKE i \in 0 .. NPages[o] - 1
      <4>1. mm[o] + i \in S /\ (mm[o] + i) - mm[o] = i
        BY ONLY <1>2, i \in 0 .. NPages[o] - 1, SMTT(30)
      <4>2. pte'[mm[o] + i] = <<o, (mm[o] + i) - mm[o]>>
        BY ONLY <2>3, <3>3, <4>1, ZenonT(30)
      <4> QED BY ONLY <4>1, <4>2, ZenonT(30)
    <3>5. Whole(o)'
      BY ONLY <2>4, <3>2, <3>4, ZenonT(30) DEF Whole
    <3>6. o \in Live'
      BY ONLY <1>1, <2>4, <3>2, ZenonT(30) DEF Live
    <3>7. \A x \in S : Covered(x)'
      BY ONLY <2>4, <3>6, ZenonT(30) DEF Covered, RangeOf
    <3>8. SlipInv'
      BY ONLY <3>2, ZenonT(30) DEF SlipInv
    <3> HIDE DEF SlipInv, Covered
    <3> QED
      BY ONLY PagesInv, <1>1, <2>3, <2>4, <3>2, <3>5, <3>7, <3>8, OwnNode, ZenonT(30)
  <2>6. CASE Cardinality(P) # NPages[o]
    <3>1. op' = [op EXCEPT !.pc = "short"]
      BY ONLY <2>1, <2>6, ZenonT(30) DEF ShortIsError
    <3>2. /\ op' \in OpType /\ op'.pc = "short" /\ op'.bo = o
          /\ op'.err = op.err /\ op'.slipped = op.slipped
          /\ op'.pc \notin {"each", "rollback"} /\ op'.pc # "idle" /\ op'.pc \in Calling
      BY ONLY <1>1, <3>1, ZenonT(30) DEF OpType, Calling
    <3>3. \A x \in S : Covered(x)'
      BY ONLY <2>4, <3>2, ZenonT(30) DEF Covered, RangeOf
    <3>4. SlipInv'
      BY <3>2 DEF SlipInv, PagesInv
    <3> QED
      BY ONLY PagesInv, <1>1, <2>3, <2>4, <3>2, <3>3, <3>4, OwnNode, ZenonT(30)
  <2> QED BY <2>5, <2>6
<1>5. ASSUME NEW e \in {"ENOMEM", "EEXIST"}, Fail(e), e = "EEXIST" => op.slipped,
             UNCHANGED <<pte, lost, debris>>
      PROVE  PagesInv'
  <2>1. \A x \in S : pte'[x] # NoPte => x \in debris'
    BY ONLY <1>3, <1>5, ZenonT(30)
  <2>2. e \in {"ok", "ENOMEM", "EEXIST", "EIO"}
    OBVIOUS
  <2> QED BY ONLY PagesInv, <1>1, <1>5, <2>1, <2>2, FailStep, ZenonT(30)
<1>6. CASE /\ \E x \in S : pte[x] # NoPte
           /\ ~op.healed
           /\ \E L \in SUBSET S :
                 Unmap(S, L) /\ op' = [op EXCEPT !.healed = TRUE, !.slipped = @ \/ L # {}]
           /\ UNCHANGED mm
  <2>1. PICK L \in SUBSET S :
                 Unmap(S, L) /\ op' = [op EXCEPT !.healed = TRUE, !.slipped = @ \/ L # {}]
    BY <1>6
  <2>2. /\ pte' \in [Places -> E]
        /\ lost' \in 0 .. MaxLost
        /\ debris' \subseteq Places
        /\ \A x \in Places \ S : pte'[x] = pte[x] /\ (x \in debris => x \in debris')
        /\ \A x \in S : pte'[x] # NoPte => x \in debris'
        /\ \A x \in S \ L : pte'[x] = NoPte
    BY <1>2, <2>1, UnmapEffect, SMTT(30)
  <2>3. op' \in OpType
    BY <1>1, <2>1 DEF OpType
  <2>4. /\ op'.pc = "batch" /\ op'.bo = o /\ op'.err = op.err
        /\ op'.slipped = (op.slipped \/ L # {})
    BY ONLY <1>1, <2>1, ZenonT(30) DEF OpType
  <2>5. \A x \in S : pte'[x] # NoPte => Covered(x)'
    BY ONLY <2>2, Zenon DEF Covered
  <2>6. SlipInv'
    <3>1. (\E x \in S : pte'[x] # NoPte) => op'.slipped
      BY ONLY <2>1, <2>2, <2>4, Zenon
    <3>2. op'.err = "EEXIST" => op'.slipped
      BY <2>4 DEF PagesInv, SlipInv
    <3>3. mm'[op'.bo] = mm[o]
      BY <1>6, <2>4
    <3> QED BY ONLY <2>4, <3>1, <3>2, <3>3, Zenon DEF SlipInv, RangeOf
  <2>7. op'.pc \notin {"each", "rollback"} /\ op'.pc # "idle" /\ op'.pc \in Calling /\ mm' = mm
    BY ONLY <1>6, <2>4, ZenonT(30) DEF Calling
  <2> QED
    BY ONLY PagesInv, <1>1, <2>2, <2>3, <2>4, <2>5, <2>6, <2>7, OwnNode, ZenonT(40)
<1>7. CASE /\ \E x \in S : pte[x] # NoPte
           /\ op.healed
           /\ Fail("EEXIST")
           /\ UNCHANGED <<pte, lost, debris>>
  <2>1. op.slipped
    BY <1>1, <1>7 DEF PagesInv, SlipInv
  <2> QED BY <1>5, <1>7, <2>1
<1>8. CASE Fail("ENOMEM") /\ UNCHANGED <<pte, lost, debris>>
  BY <1>5, <1>8
<1>9. S \cap Places = S
  BY <1>1, NodeFacts
<1> QED BY <1>4, <1>6, <1>7, <1>8, <1>9 DEF MapBatch

(* After a short map every page of the range is cleared.                   *)
LEMMA ClearShortStep ==
    ASSUME PagesInv, ClearShort
    PROVE  PagesInv'
<1> DEFINE S == RangeOf(op.bo, mm[op.bo])
<1>1. /\ op.pc \in Calling /\ op.bo \in BOs /\ mm[op.bo] # 0
      /\ Fail("EIO") /\ UNCHANGED <<ap, mmlo, mmhi, wide>>
  BY DEF ClearShort, PagesInv, PagesTypeOK, NodeInv, Calling
<1>2. S \in SUBSET Places /\ IsFiniteSet(S) /\ S \cap Places = S
  BY <1>1, NodeFacts
<1>3. PICK L \in SUBSET S : Unmap(S, L)
  BY <1>2 DEF ClearShort
<1>4. /\ pte' \in [Places -> {NoPte, Stray} \cup (BOs \X Nat)]
      /\ lost' \in 0 .. MaxLost
      /\ debris' \subseteq Places
      /\ \A x \in Places \ S : pte'[x] = pte[x] /\ (x \in debris => x \in debris')
      /\ \A x \in S : pte'[x] # NoPte => x \in debris'
  BY <1>2, <1>3, UnmapEffect
<1> QED BY ONLY PagesInv, <1>1, <1>4, FailStep, ZenonT(30)

(* Before and during the purge there is no node, so any entry is debris.   *)
LEMMA NoNodes ==
    ASSUME PagesInv, op.pc \in {"unbound", "failed", "purge"}
    PROVE  /\ \A b \in BOs : mm[b] = 0
           /\ Live = {}
           /\ \A x \in Places : pte[x] # NoPte => x \in debris
<1>1. \A b \in BOs : mm[b] = 0
  BY DEF PagesInv, NodeInv
<1>2. Live = {}
  BY <1>1 DEF Live
<1>3. \A x \in Places : pte[x] # NoPte => x \in debris
  BY <1>2 DEF PagesInv, EntryInv, Covered
<1> QED BY <1>1, <1>2, <1>3

LEMMA IdleType ==
    ASSUME PagesAssumption
    PROVE  /\ Idle \in OpType /\ Idle.pc = "idle" /\ Idle.err = "ok" /\ Idle.bo \in BOs
           /\ Idle.healed = FALSE /\ Idle.slipped = FALSE /\ Idle.i = 0
BY DEF PagesAssumption, Idle, OpType

(* ane_iommu_domain_init gives the allocator its window or fails.          *)
LEMMA DomainInitStep ==
    ASSUME PagesInv, ane_iommu_domain_init
    PROVE  PagesInv'
<1>1. /\ op \in OpType /\ op.pc = "unbound" /\ UNCHANGED <<ap, pte, mm, lost, debris, wide>>
      /\ ap \in Apertures /\ PagesAssumption
      /\ op.err = "EEXIST" => op.slipped
  BY DEF ane_iommu_domain_init, PagesInv, PagesTypeOK, OpType, SlipInv
<1>2. /\ \A b \in BOs : mm[b] = 0
      /\ \A x \in Places : pte[x] # NoPte => x \in debris
  BY <1>1, NoNodes
<1>3. ASSUME NEW p \in {"failed", "purge"}, op' = [op EXCEPT !.pc = p],
             mmlo' \in Nat, mmhi' \in Nat, RangeInv'
      PROVE  PagesInv'
  <2>1. /\ op' \in OpType /\ op'.pc = p /\ op'.err = op.err /\ op'.slipped = op.slipped
    BY ONLY <1>1, <1>3, ZenonT(30) DEF OpType
  <2>2. PagesTypeOK'
    <3>1. /\ ap' \in Apertures /\ {mmlo', mmhi'} \subseteq Nat
          /\ pte' \in [Places -> {NoPte, Stray} \cup (BOs \X Nat)]
          /\ mm' \in [BOs -> Places] /\ lost' \in 0 .. MaxLost /\ debris' \subseteq Places
          /\ wide' \in BOOLEAN
      BY <1>1, <1>3 DEF PagesInv, PagesTypeOK
    <3> QED BY <2>1, <3>1 DEF PagesTypeOK, OpType, Places
  <2>3. NodeInv'
    BY ONLY <1>1, <1>2, <1>3, <2>1, ZenonT(30) DEF NodeInv, Calling
  <2>4. Live' = {}
    BY ONLY <1>1, <1>2, ZenonT(30) DEF Live
  <2>5. MapInv'
    BY ONLY <1>3, <2>1, <2>4, ZenonT(30) DEF MapInv
  <2>6. EntryInv'
    BY ONLY <1>1, <1>2, ZenonT(30) DEF EntryInv, Covered, Places
  <2>7. SlipInv'
    BY ONLY <1>1, <1>3, <2>1, ZenonT(30) DEF SlipInv
  <2>8. NarrowInv'
    BY <1>1 DEF PagesInv, NarrowInv, Wide
  <2> QED
    BY ONLY <1>1, <1>3, <2>2, <2>3, <2>5, <2>6, <2>7, <2>8, ZenonT(30) DEF PagesInv, PagesAssumption
<1>4. CASE Window(ap) = <<>>
  <2>1. op' = [op EXCEPT !.pc = "failed"] /\ mmlo' \in Nat /\ mmhi' \in Nat
    BY <1>4 DEF ane_iommu_domain_init, PagesInv, PagesTypeOK
  <2>2. RangeInv'
    BY <1>1, <2>1 DEF RangeInv, OpType
  <2> QED BY <1>3, <2>1, <2>2
<1>5. CASE Window(ap) # <<>>
  <2>1. /\ op' = [op EXCEPT !.pc = "purge"]
        /\ mmlo' = Window(ap)[1] \div PageSize
        /\ mmhi' = Window(ap)[2] \div PageSize
    BY <1>5 DEF ane_iommu_domain_init
  <2>2. /\ mmlo' \in Nat /\ mmhi' \in Nat
        /\ 0 < mmlo'
        /\ ap.start <= mmlo' * PageSize
        /\ mmhi' * PageSize - 1 <= Min({ap.end, U32Max})
        /\ mmlo' .. mmhi' - 1 \subseteq Places
    BY <1>1, <1>5, <2>1, WindowInside
  <2>3. RangeInv'
    BY <1>1, <2>2 DEF RangeInv, InRange, Places
  <2> QED BY <1>3, <2>1, <2>2, <2>3
<1> QED BY <1>4, <1>5

(* ane_iommu_purge_stale clears the whole range, or leaves debris in it.   *)
LEMMA PurgeStep ==
    ASSUME PagesInv, ane_iommu_purge_stale
    PROVE  PagesInv'
<1>1. /\ op.pc = "purge" /\ op' = Idle /\ UNCHANGED <<ap, mmlo, mmhi, mm, wide>>
      /\ PagesAssumption /\ mmlo \in Nat /\ mmhi \in Nat
  BY DEF ane_iommu_purge_stale, PagesInv, PagesTypeOK
<1>2. /\ \A b \in BOs : mm[b] = 0
      /\ \A x \in Places : pte[x] # NoPte => x \in debris
  BY <1>1, NoNodes
<1>3. op' \in OpType /\ op'.pc = "idle" /\ op'.err = "ok"
  BY <1>1, IdleType
<1>4. InRange \in SUBSET Places
  BY <1>1 DEF PagesInv, RangeInv
<1>5. IsFiniteSet(InRange)
  <2>1. mmlo \in Int /\ mmhi - 1 \in Int
    BY ONLY <1>1, SMTT(30)
  <2> QED BY ONLY <2>1, FS_Interval, ZenonT(30) DEF InRange
<1>6. PICK L \in SUBSET InRange : Unmap(InRange, L)
  BY DEF ane_iommu_purge_stale, InRange
<1>7. /\ pte' \in [Places -> {NoPte, Stray} \cup (BOs \X Nat)]
      /\ lost' \in 0 .. MaxLost
      /\ debris' \subseteq Places
      /\ \A x \in Places \ InRange : pte'[x] = pte[x] /\ (x \in debris => x \in debris')
      /\ \A x \in InRange : pte'[x] # NoPte => x \in debris'
  BY <1>4, <1>5, <1>6, UnmapEffect
<1>8. PagesTypeOK'
  <2>1. /\ ap' \in Apertures /\ {mmlo', mmhi'} \subseteq Nat /\ mm' \in [BOs -> Places]
        /\ wide' \in BOOLEAN
    BY <1>1 DEF PagesInv, PagesTypeOK
  <2> QED BY <1>3, <1>7, <2>1 DEF PagesTypeOK, OpType, Places
<1>9. RangeInv'
  BY <1>1, <1>3 DEF PagesInv, RangeInv, InRange, Places
<1>10. NodeInv'
  BY ONLY <1>1, <1>2, <1>3, ZenonT(30) DEF NodeInv, Calling
<1>11. MapInv'
  BY ONLY <1>1, <1>2, <1>3, ZenonT(30) DEF MapInv, Live
<1>12. EntryInv'
  BY ONLY <1>2, <1>7, ZenonT(30) DEF EntryInv, Covered, Places
<1>13. SlipInv'
  BY ONLY <1>3, ZenonT(30) DEF SlipInv
<1>14. NarrowInv'
  BY <1>1 DEF PagesInv, NarrowInv, Wide
<1> QED
  BY ONLY <1>1, <1>8, <1>9, <1>10, <1>11, <1>12, <1>13, <1>14, ZenonT(30)
     DEF PagesInv, PagesAssumption

(* ane_iommu_map_pages inserts a node where there is none; that of a       *)
(* buffer below 4 GiB is as long as the buffer.                            *)
LEMMA MapPagesStep ==
    ASSUME PagesInv, NEW b \in BOs, NEW s \in Places, NEW batch \in BOOLEAN,
           ane_iommu_map_pages(b, s, batch), wide' = FALSE
    PROVE  PagesInv'
<1>0. ~Wide(b) /\ NodeOf(b, s) = RangeOf(b, s)
  <2>1. ~Wide(b)
    BY DEF ane_iommu_map_pages
  <2>2. PagesAssumption /\ NPages[b] \in Nat
    BY DEF PagesInv, PagesAssumption
  <2>3. NPages[b] \in 0 .. NPages[b]
    BY ONLY <2>2, SMTT(30)
  <2>4. Bytes32(NPages[b]) = NPages[b]
    BY <2>1, <2>2, <2>3, NarrowBytes
  <2> QED BY ONLY <2>1, <2>4, ZenonT(30) DEF NodeOf, RangeOf
<1>1. /\ op.pc = "idle" /\ mm[b] = 0 /\ RangeOf(b, s) \subseteq InRange \ Owned
      /\ mm' = [mm EXCEPT ![b] = s]
      /\ UNCHANGED <<ap, mmlo, mmhi, pte, lost, debris>>
      /\ mm \in [BOs -> Places] /\ PagesAssumption
  BY <1>0 DEF ane_iommu_map_pages, PagesInv, PagesTypeOK, InRange
<1>2. PICK p \in {"batch", "each"} : op' = [Idle EXCEPT !.bo = b, !.pc = p]
  BY DEF ane_iommu_map_pages
<1>3. /\ op' \in OpType /\ op'.pc = p /\ op'.bo = b /\ op'.i = 0 /\ op'.err = "ok"
      /\ op'.healed = FALSE
  BY ONLY <1>1, <1>2, IdleType, Zenon DEF OpType
<1>4. /\ RangeInv /\ 0 < mmlo /\ InRange \subseteq Places /\ mmlo \in Nat /\ mmhi \in Nat
  BY <1>1 DEF PagesInv, RangeInv, PagesTypeOK
<1>5. s \in Nat /\ s # 0 /\ NPages[b] \in Nat /\ 0 < NPages[b]
  <2>1. NPages[b] \in Nat \ {0} /\ U32Max \div PageSize \in Nat
    BY <1>1, DivBounds DEF PagesAssumption
  <2>2. s \in Nat
    BY ONLY <2>1, s \in Places DEF Places
  <2>3. s \in RangeOf(b, s)
    BY ONLY <2>1, <2>2 DEF RangeOf
  <2> QED BY ONLY <1>1, <1>4, <2>1, <2>2, <2>3, SMTT(30) DEF InRange
<1>6. mm'[b] = s /\ \A c \in BOs \ {b} : mm'[c] = mm[c]
  BY ONLY <1>1, ZenonT(30)
<1>7. ASSUME NEW c \in BOs \ {b}, mm[c] # 0
      PROVE  RangeOf(c, mm[c]) \cap RangeOf(b, s) = {}
  <2>1. NodeOf(c, mm[c]) = RangeOf(c, mm[c])
    BY <1>7, NodeFacts
  <2> QED BY ONLY <1>1, <1>7, <2>1, ZenonT(30) DEF Owned
<1>8. Live' = Live /\ b \notin Live
  BY ONLY <1>1, <1>3, <1>6, p \in {"batch", "each"}, ZenonT(30) DEF Live
<1>9. PagesTypeOK'
  <2>1. /\ ap' \in Apertures /\ {mmlo', mmhi'} \subseteq Nat /\ mm' \in [BOs -> Places]
        /\ pte' \in [Places -> {NoPte, Stray} \cup (BOs \X Nat)]
        /\ lost' \in 0 .. MaxLost /\ debris' \subseteq Places /\ wide' \in BOOLEAN
    BY <1>1 DEF PagesInv, PagesTypeOK
  <2> QED BY <1>3, <2>1 DEF PagesTypeOK, OpType, Places
<1>10. RangeInv'
  BY <1>1, <1>3 DEF PagesInv, RangeInv, InRange, Places
<1>11. NodeInv'
  <2>1. \A c \in BOs : mm'[c] # 0 => RangeOf(c, mm'[c]) \subseteq InRange'
    <3> TAKE c \in BOs
    <3>1. InRange' = InRange
      BY ONLY <1>1, ZenonT(30) DEF InRange
    <3>2. CASE c = b
      BY ONLY <1>1, <1>6, <3>1, <3>2, ZenonT(30)
    <3>3. CASE c # b
      BY <1>6, <3>1, <3>3 DEF PagesInv, NodeInv
    <3> QED BY <3>2, <3>3
  <2>2. \A c, d \in BOs : c # d /\ mm'[c] # 0 /\ mm'[d] # 0
                             => RangeOf(c, mm'[c]) \cap RangeOf(d, mm'[d]) = {}
    <3> TAKE c, d \in BOs
    <3> HAVE c # d /\ mm'[c] # 0 /\ mm'[d] # 0
    <3>1. CASE c = b
      BY <1>6, <1>7, <3>1
    <3>2. CASE d = b
      BY <1>6, <1>7, <3>2
    <3>3. CASE c # b /\ d # b
      BY <1>6, <3>3 DEF PagesInv, NodeInv
    <3> QED BY <3>1, <3>2, <3>3
  <2>3. mm'[op'.bo] # 0 /\ op'.pc \notin {"unbound", "failed", "purge"}
    BY ONLY <1>3, <1>5, <1>6, p \in {"batch", "each"}, ZenonT(30)
  <2> QED BY ONLY <2>1, <2>2, <2>3, Zenon DEF NodeInv, RangeOf
<1>12. \A c \in Live : c \in BOs \ {b} /\ mm'[c] = mm[c]
  BY ONLY <1>6, <1>8, ZenonT(30) DEF Live
<1>13. MapInv'
  <2>1. \A c \in Live' : Whole(c)'
    <3>1. \A c \in Live : \A i \in 0 .. NPages[c] - 1 : pte[mm[c] + i] = <<c, i>>
      BY DEF PagesInv, MapInv, Whole
    <3>2. pte' = pte
      BY ONLY <1>1, ZenonT(30)
    <3> QED BY ONLY <1>8, <1>12, <3>1, <3>2, ZenonT(30) DEF Whole
  <2>2. op'.i <= NPages[op'.bo] /\ op'.i < NPages[op'.bo]
        /\ \A j \in 0 .. op'.i - 1 : pte'[mm'[op'.bo] + j] = <<op'.bo, j>>
    BY ONLY <1>3, <1>5, SMTT(30)
  <2> QED BY ONLY <2>1, <2>2, ZenonT(30) DEF MapInv
<1>14. EntryInv'
  <2> SUFFICES ASSUME NEW x \in Places, pte'[x] # NoPte
               PROVE  Covered(x)'
    BY DEF EntryInv, Places
  <2>1. x \in debris \/ \E c \in Live : x \in RangeOf(c, mm[c])
    BY <1>1 DEF PagesInv, EntryInv, Covered
  <2>2. CASE x \in debris
    BY <1>1, <2>2 DEF Covered
  <2>3. CASE \E c \in Live : x \in RangeOf(c, mm[c])
    <3>1. PICK c \in Live : x \in RangeOf(c, mm[c])
      BY <2>3
    <3>2. c \in Live' /\ mm'[c] = mm[c]
      BY <1>8, <1>12
    <3> QED BY <3>1, <3>2 DEF Covered, RangeOf
  <2> QED BY <2>1, <2>2, <2>3
<1>15. SlipInv'
  BY ONLY <1>3, ZenonT(30) DEF SlipInv
<1>16. NarrowInv'
  BY <1>0, <1>6 DEF PagesInv, NarrowInv, Wide
<1> QED
  BY ONLY <1>1, <1>9, <1>10, <1>11, <1>13, <1>14, <1>15, <1>16, ZenonT(30)
     DEF PagesInv, PagesAssumption

(* What ane_iommu_unmap_pages clears is the node: the prefix that one call *)
(* unmaps and the rest, page by page.                                      *)
LEMMA UnmapPagesNode ==
    ASSUME PagesInv, NEW b \in BOs, ane_iommu_unmap_pages(b)
    PROVE  \E L \in SUBSET RangeOf(b, mm[b]) : Unmap(RangeOf(b, mm[b]), L)
<1> DEFINE s == mm[b]
           n == NPages[b]
<1> DEFINE rest(k) == (FirstOfRest(s, k) .. s + n - 1) \cap Places
<1>1. PICK k \in 0 .. n : \E L \in SUBSET rest(k) : Unmap((s .. s + k - 1) \cup rest(k), L)
  BY DEF ane_iommu_unmap_pages
<1>2. PICK L \in SUBSET rest(k) : Unmap((s .. s + k - 1) \cup rest(k), L)
  BY <1>1
<1>3. s \in Nat /\ n \in Nat /\ k \in 0 .. n /\ RangeOf(b, s) \subseteq Places
  BY <1>1, NodeFacts DEF ane_iommu_unmap_pages
<1>4. /\ (s .. s + k - 1) \cup (FirstOfRest(s, k) .. s + n - 1) = RangeOf(b, s)
      /\ FirstOfRest(s, k) .. s + n - 1 \subseteq RangeOf(b, s)
  BY ONLY <1>3, SMTT(30) DEF FirstOfRest, RangeOf
<1>5. rest(k) = FirstOfRest(s, k) .. s + n - 1
  BY ONLY <1>3, <1>4, ZenonT(30)
<1> QED BY ONLY <1>2, <1>4, <1>5, ZenonT(30)

(* ane_iommu_unmap_pages takes a buffer out as a whole.                    *)
LEMMA UnmapPagesStep ==
    ASSUME PagesInv, NEW b \in BOs, ane_iommu_unmap_pages(b)
    PROVE  PagesInv'
<1> DEFINE S == RangeOf(b, mm[b])
<1>1. /\ op.pc = "idle" /\ mm[b] # 0 /\ mm' = [mm EXCEPT ![b] = 0] /\ op' = Idle
      /\ UNCHANGED <<ap, mmlo, mmhi, wide>>
      /\ mm \in [BOs -> Places] /\ PagesAssumption
  BY DEF ane_iommu_unmap_pages, PagesInv, PagesTypeOK
<1>2. S \in SUBSET Places /\ IsFiniteSet(S) /\ mm[b] \in Nat
  BY <1>1, NodeFacts
<1>3. PICK L \in SUBSET S : Unmap(S, L)
  BY UnmapPagesNode
<1>4. /\ pte' \in [Places -> {NoPte, Stray} \cup (BOs \X Nat)]
      /\ lost' \in 0 .. MaxLost
      /\ debris' \subseteq Places
      /\ \A x \in Places \ S : pte'[x] = pte[x] /\ (x \in debris => x \in debris')
      /\ \A x \in S : pte'[x] # NoPte => x \in debris'
  BY <1>2, <1>3, UnmapEffect
<1>5. /\ op' \in OpType /\ op'.pc = "idle" /\ op'.err = "ok"
  BY <1>1, IdleType
<1>6. mm'[b] = 0 /\ \A c \in BOs \ {b} : mm'[c] = mm[c]
  BY ONLY <1>1, ZenonT(30)
<1>7. Live' = Live \ {b} /\ Live' \subseteq BOs
  BY ONLY <1>1, <1>5, <1>6, ZenonT(30) DEF Live
<1>8. \A c \in Live' : /\ c \in Live /\ mm[c] # 0 /\ mm'[c] = mm[c]
                       /\ RangeOf(c, mm[c]) \subseteq Places \ S
  <2> TAKE c \in Live'
  <2>1. c \in Live /\ c \in BOs \ {b} /\ mm'[c] = mm[c] /\ mm[c] # 0
    BY ONLY <1>6, <1>7, c \in Live', ZenonT(30) DEF Live
  <2>2. RangeOf(c, mm[c]) \cap S = {}
    BY <1>1, <2>1 DEF PagesInv, NodeInv
  <2>3. RangeOf(c, mm[c]) \subseteq Places
    BY <2>1, NodeFacts
  <2> QED BY ONLY <2>1, <2>2, <2>3, ZenonT(30)
<1>9. PagesTypeOK'
  <2>1. U32Max \div PageSize \in Nat
    BY <1>1, DivBounds DEF PagesAssumption
  <2>2. 0 \in Places
    BY ONLY <2>1, SMTT(30) DEF Places
  <2>3. /\ ap' \in Apertures /\ {mmlo', mmhi'} \subseteq Nat /\ mm' \in [BOs -> Places]
        /\ wide' \in BOOLEAN
    BY <1>1, <2>2 DEF PagesInv, PagesTypeOK
  <2> QED BY <1>4, <1>5, <2>3 DEF PagesTypeOK, OpType, Places
<1>10. RangeInv'
  BY <1>1, <1>5 DEF PagesInv, RangeInv, InRange, Places
<1>11. NodeInv'
  <2>1. \A c \in BOs : mm'[c] # 0 => mm'[c] = mm[c]
    BY ONLY <1>6, ZenonT(30)
  <2>2. \A c \in BOs : mm'[c] # 0 => RangeOf(c, mm'[c]) \subseteq InRange'
    BY <1>1, <2>1 DEF PagesInv, NodeInv, InRange
  <2>3. \A c, d \in BOs : c # d /\ mm'[c] # 0 /\ mm'[d] # 0
                             => RangeOf(c, mm'[c]) \cap RangeOf(d, mm'[d]) = {}
    BY <2>1 DEF PagesInv, NodeInv
  <2> QED BY ONLY <1>5, <2>2, <2>3, ZenonT(30) DEF NodeInv, RangeOf, Calling
<1>12. MapInv'
  <2>1. ASSUME NEW c \in Live' PROVE Whole(c)'
    <3>1. \A i \in 0 .. NPages[c] - 1 : mm[c] + i \in RangeOf(c, mm[c])
      BY <1>7, <1>8, NodeFacts
    <3>2. \A i \in 0 .. NPages[c] - 1 : pte[mm[c] + i] = <<c, i>>
      BY <1>8 DEF PagesInv, MapInv, Whole
    <3> QED BY ONLY <1>4, <1>8, <3>1, <3>2, c \in Live', ZenonT(30) DEF Whole
  <2> QED BY ONLY <1>5, <2>1, ZenonT(40) DEF MapInv
<1>13. EntryInv'
  <2> SUFFICES ASSUME NEW x \in Places, pte'[x] # NoPte
               PROVE  Covered(x)'
    BY DEF EntryInv, Places
  <2>1. CASE x \in S
    BY <1>4, <2>1 DEF Covered
  <2>2. CASE x \notin S
    <3>1. pte[x] # NoPte /\ (x \in debris => x \in debris')
      BY <1>4, <2>2
    <3>2. x \in debris \/ \E c \in Live : x \in RangeOf(c, mm[c])
      BY <1>1, <3>1 DEF PagesInv, EntryInv, Covered
    <3>3. CASE x \in debris
      BY <3>1, <3>3 DEF Covered
    <3>4. CASE \E c \in Live : x \in RangeOf(c, mm[c])
      <4>1. PICK c \in Live : x \in RangeOf(c, mm[c])
        BY <3>4
      <4>2. c \in Live' /\ mm'[c] = mm[c]
        BY <1>7, <1>8, <2>2, <4>1
      <4> QED BY <4>1, <4>2 DEF Covered, RangeOf
    <3> QED BY <3>2, <3>3, <3>4
  <2> QED BY <2>1, <2>2
<1>14. SlipInv'
  BY ONLY <1>5, ZenonT(30) DEF SlipInv
<1>15. NarrowInv'
  BY <1>1, <1>6 DEF PagesInv, NarrowInv, Wide
<1> QED
  BY ONLY <1>1, <1>9, <1>10, <1>11, <1>12, <1>13, <1>14, <1>15, ZenonT(30)
     DEF PagesInv, PagesAssumption

-----------------------------------------------------------------------------
LEMMA InitPages ==
    ASSUME PagesAssumption, PagesInit
    PROVE  PagesInv
<1>1. /\ Idle \in OpType /\ Idle.err = "ok"
  BY IdleType
<1>2. /\ op \in OpType /\ op.pc = "unbound" /\ op.err = "ok"
  BY <1>1 DEF PagesInit, OpType
<1>3. 0 \in Places
  <2>1. U32Max \div PageSize \in Nat
    BY DivBounds DEF PagesAssumption
  <2> QED BY ONLY <2>1 DEF Places
<1>4. /\ ap \in Apertures /\ mmlo = 0 /\ mmhi = 0
      /\ pte \in [Places -> {NoPte, Stray}]
      /\ mm = [b \in BOs |-> 0]
      /\ lost = 0 /\ debris = {x \in Places : pte[x] = Stray} /\ wide = FALSE
  BY DEF PagesInit
<1>5. PagesTypeOK
  <2>1. /\ {mmlo, mmhi} \subseteq Nat
        /\ pte \in [Places -> {NoPte, Stray} \cup (BOs \X Nat)]
        /\ mm \in [BOs -> Places] /\ debris \subseteq Places
    BY ONLY <1>3, <1>4
  <2>2. lost \in 0 .. MaxLost
    BY <1>4, SMTT(30) DEF PagesAssumption
  <2> QED BY ONLY <1>2, <1>4, <2>1, <2>2, ZenonT(30) DEF PagesTypeOK, OpType
<1>6. RangeInv
  BY ONLY <1>2, ZenonT(30) DEF RangeInv
<1>7. NodeInv
  BY ONLY <1>2, <1>4, ZenonT(30) DEF NodeInv, Calling
<1>8. MapInv
  BY ONLY <1>2, <1>4, ZenonT(30) DEF MapInv, Live
<1>9. EntryInv
  BY ONLY <1>4, ZenonT(30) DEF EntryInv, Covered
<1>10. SlipInv
  BY ONLY <1>2, ZenonT(30) DEF SlipInv
<1>11. NarrowInv
  BY ONLY <1>4, ZenonT(30) DEF NarrowInv
<1> QED
  BY ONLY PagesAssumption, <1>5, <1>6, <1>7, <1>8, <1>9, <1>10, <1>11, ZenonT(30) DEF PagesInv

LEMMA StutterPages ==
    ASSUME PagesInv, UNCHANGED pageVars
    PROVE  PagesInv'
<1>1. /\ ap' = ap /\ mmlo' = mmlo /\ mmhi' = mmhi /\ pte' = pte
      /\ mm' = mm /\ op' = op /\ lost' = lost /\ debris' = debris /\ wide' = wide
  BY DEF pageVars
<1>2. PagesAssumption'
  BY DEF PagesInv, PagesAssumption
<1>3. PagesTypeOK'
  BY <1>1 DEF PagesInv, PagesTypeOK, Places
<1>4. RangeInv' /\ NodeInv'
  BY <1>1 DEF PagesInv, RangeInv, NodeInv, InRange, RangeOf, Places
<1>5. Live' = Live
  BY <1>1 DEF Live
<1>6. MapInv' /\ EntryInv'
  BY <1>1, <1>5 DEF PagesInv, MapInv, Whole, EntryInv, Covered, Done, RangeOf, Places
<1>7. SlipInv'
  BY <1>1 DEF PagesInv, SlipInv, RangeOf
<1>8. NarrowInv'
  BY <1>1 DEF PagesInv, NarrowInv, Wide
<1> QED BY ONLY <1>2, <1>3, <1>4, <1>6, <1>7, <1>8, ZenonT(30) DEF PagesInv

LEMMA StepPages ==
    ASSUME PagesInv, [PagesNext]_pageVars, wide' = FALSE
    PROVE  PagesInv'
BY DomainInitStep, PurgeStep, MapPagesStep, MapEachStep, RollbackStep, MapBatchStep,
   ClearShortStep, UnmapPagesStep, StutterPages DEF PagesNext

(* Only inserting a node can make wide true, and nothing makes it false.   *)
LEMMA WideStep ==
    ASSUME [PagesNext]_pageVars, wide \in BOOLEAN
    PROVE  wide' \in BOOLEAN /\ (wide => wide')
<1>1. ASSUME NEW b \in BOs, NEW s \in Places, NEW batch \in BOOLEAN,
             ane_iommu_map_pages(b, s, batch)
      PROVE  wide' = (wide \/ Wide(b))
  BY <1>1 DEF ane_iommu_map_pages
<1>2. ASSUME ~\E b \in BOs, s \in Places, batch \in BOOLEAN : ane_iommu_map_pages(b, s, batch)
      PROVE  wide' = wide
  BY <1>2 DEF PagesNext, ane_iommu_domain_init, ane_iommu_purge_stale, MapEach, Rollback,
     MapBatch, ClearShort, ane_iommu_unmap_pages, pageVars
<1> QED BY <1>1, <1>2

(* The inductive invariant, which holds until a buffer of 4 GiB or more is *)
(* given a node.                                                           *)
UntilWide == wide = TRUE \/ PagesInv

(* Every reachable state of the mapping code has the inductive invariant,  *)
(* until a buffer of 4 GiB or more, whose 32-bit size ane_iommu_map_pages  *)
(* truncates, is given a node.                                             *)
THEOREM Invariance == PagesAssumption /\ PagesSpec => []UntilWide
<1>1. PagesAssumption /\ PagesInit => UntilWide
  BY InitPages DEF UntilWide
<1>2. UntilWide /\ [PagesNext]_pageVars => UntilWide'
  <2> SUFFICES ASSUME UntilWide, [PagesNext]_pageVars PROVE UntilWide'
    OBVIOUS
  <2>1. CASE wide = TRUE
    BY <2>1, WideStep DEF UntilWide
  <2>2. CASE PagesInv
    <3>1. wide' = TRUE \/ wide' = FALSE
      BY <2>2, WideStep DEF PagesInv, NarrowInv
    <3> QED BY <2>2, <3>1, StepPages DEF UntilWide
  <2> QED BY <2>1, <2>2 DEF UntilWide
<1> QED BY <1>1, <1>2, PTL DEF PagesSpec

(* A buffer whose map call succeeded is translated completely and exactly, *)
(* inside the aperture, below 4 GiB and never at page 0, whatever strays,  *)
(* lost unmaps, rollbacks and neighbours there were, until a buffer of     *)
(* 4 GiB or more is mapped.                                                *)
THEOREM TranslationWhole == PagesAssumption /\ PagesSpec => []LiveExact
<1>1. UntilWide => LiveExact
  <2> SUFFICES ASSUME PagesInv, NEW b \in Live
               PROVE  /\ \A i \in 0 .. NPages[b] - 1 : pte[mm[b] + i] = <<b, i>>
                      /\ mm[b] > 0
                      /\ mm[b] * PageSize >= ap.start
                      /\ (mm[b] + NPages[b]) * PageSize - 1 <= Min({ap.end, U32Max})
    BY DEF LiveExact, UntilWide
  <2>1. \A i \in 0 .. NPages[b] - 1 : pte[mm[b] + i] = <<b, i>>
    BY DEF PagesInv, MapInv, Whole
  <2>2. b \in BOs /\ mm[b] # 0
    BY DEF Live
  <2>3. /\ mm[b] \in Nat /\ NPages[b] \in Nat /\ 0 < NPages[b]
        /\ op.pc \notin {"unbound", "failed", "purge"}
        /\ RangeOf(b, mm[b]) \subseteq InRange
    BY <2>2, NodeFacts
  <2>4. /\ 0 < mmlo /\ ap.start <= mmlo * PageSize
        /\ mmhi * PageSize - 1 <= Min({ap.end, U32Max})
        /\ mmlo \in Nat /\ mmhi \in Nat /\ PageSize \in Nat \ {0}
        /\ ap.start \in Nat /\ ap.end \in Nat /\ U32Max \in Nat
    BY <2>3 DEF PagesInv, RangeInv, PagesTypeOK, PagesAssumption
  <2>5. mm[b] \in RangeOf(b, mm[b]) /\ mm[b] + NPages[b] - 1 \in RangeOf(b, mm[b])
    BY ONLY <2>3, SMTT(30) DEF RangeOf
  <2>6. mmlo <= mm[b] /\ mm[b] + NPages[b] <= mmhi /\ mm[b] + NPages[b] \in Nat
    BY ONLY <2>3, <2>4, <2>5, SMTT(30) DEF InRange
  <2>7. /\ mmlo * PageSize <= mm[b] * PageSize
        /\ (mm[b] + NPages[b]) * PageSize <= mmhi * PageSize
    BY ONLY <2>3, <2>4, <2>6, TimesMonotone, ZenonT(30)
  <2>8. Min({ap.end, U32Max}) \in Int
    <3>1. ap.end \in Int /\ U32Max \in Int
      BY ONLY <2>4
    <3>2. Min({ap.end, U32Max}) \in {ap.end, U32Max}
      BY ONLY <3>1, MinTwo, ZenonT(40)
    <3> QED BY ONLY <3>1, <3>2, ZenonT(30)
  <2>9. mm[b] > 0
    BY ONLY <2>2, <2>3
  <2>10. /\ mmlo * PageSize \in Nat /\ mm[b] * PageSize \in Nat
         /\ (mm[b] + NPages[b]) * PageSize \in Nat /\ mmhi * PageSize \in Nat
    BY ONLY <2>3, <2>4, <2>6
  <2>11. /\ mm[b] * PageSize >= ap.start
         /\ (mm[b] + NPages[b]) * PageSize - 1 <= Min({ap.end, U32Max})
    BY ONLY <2>4, <2>7, <2>8, <2>10
  <2> QED BY ONLY <2>1, <2>9, <2>11, ZenonT(30)
<1> QED BY <1>1, Invariance, PTL

(* Between calls a valid entry of the allocator's range outside every node *)
(* was left there by a lost unmap: no failed map, short map or rollback    *)
(* leaves an entry of its own behind, until a buffer of 4 GiB or more is   *)
(* mapped.                                                                 *)
THEOREM NothingLeftBehind == PagesAssumption /\ PagesSpec => []OnlyDebris
<1>1. UntilWide => OnlyDebris
  <2> SUFFICES ASSUME PagesInv, op.pc = "idle",
                      NEW x \in (mmlo .. mmhi - 1) \ Owned, pte[x] # NoPte
               PROVE  x \in debris
    BY DEF OnlyDebris, UntilWide
  <2>1. x \in Places
    BY DEF PagesInv, RangeInv, InRange
  <2>2. x \in debris \/ \E b \in Live : x \in RangeOf(b, mm[b])
    BY <2>1 DEF PagesInv, EntryInv, Covered
  <2>3. \A b \in Live : b \in BOs /\ mm[b] # 0 /\ NodeOf(b, mm[b]) = RangeOf(b, mm[b])
    BY NodeFacts DEF Live
  <2> QED BY <2>2, <2>3 DEF Owned
<1> QED BY <1>1, Invariance, PTL

(* A map call returns -EEXIST only when the unmap that should have cleared *)
(* the stray was itself lost, until a buffer of 4 GiB or more is mapped.   *)
THEOREM StrayFailsOnce == PagesAssumption /\ PagesSpec => []StrayHealed
<1>1. UntilWide => StrayHealed
  BY DEF UntilWide, PagesInv, SlipInv, StrayHealed
<1> QED BY <1>1, Invariance, PTL

-----------------------------------------------------------------------------
(* Refinement.  What the engine sees of a live buffer is its own pages, in *)
(* order.                                                                  *)
LEMMA Seen ==
    ASSUME PagesInv, NEW x \in LiveRange
    PROVE  \E b \in Live : /\ b \in BOs /\ mm[b] # 0
                           /\ x \in RangeOf(b, mm[b])
                           /\ x - mm[b] \in 0 .. NPages[b] - 1
                           /\ pte[x] = <<b, x - mm[b]>>
<1>1. PICK b \in Live : x \in RangeOf(b, mm[b])
  BY DEF LiveRange
<1>2. b \in BOs /\ mm[b] # 0
  BY DEF Live
<1>3. x - mm[b] \in 0 .. NPages[b] - 1 /\ mm[b] + (x - mm[b]) = x
  BY <1>1, <1>2, NodeFacts
<1>4. \A i \in 0 .. NPages[b] - 1 : pte[mm[b] + i] = <<b, i>>
  BY DEF PagesInv, MapInv, Whole
<1>5. pte[x] = <<b, x - mm[b]>>
  BY ONLY <1>3, <1>4, ZenonT(30)
<1> QED BY <1>1, <1>2, <1>3, <1>5

LEMMA SeenInPlaces ==
    ASSUME PagesInv
    PROVE  /\ LiveRange \subseteq Places
           /\ DOMAIN Translation = LiveRange
           /\ \A x \in LiveRange : Translation[x] = pte[x]
<1>1. \A b \in Live : RangeOf(b, mm[b]) \subseteq Places
  BY NodeFacts DEF Live
<1>2. LiveRange \subseteq Places
  BY <1>1 DEF LiveRange
<1>3. LiveRange \cap Places = LiveRange
  BY <1>2
<1> QED BY <1>2, <1>3 DEF Translation

(* A step that keeps the live buffers, their nodes and their entries is a  *)
(* stutter of AneRange.                                                    *)
LEMMA SameTranslation ==
    ASSUME Live' = Live,
           \A b \in Live : mm'[b] = mm[b],
           \A x \in LiveRange : pte'[x] = pte[x]
    PROVE  Translation' = Translation
<1>1. LiveRange' = LiveRange
  BY DEF LiveRange, RangeOf
<1> QED BY <1>1 DEF Translation, Places

(* The step that completes a map is RangeMap.                              *)
LEMMA MapCompletes ==
    ASSUME PagesInv, PagesInv', NEW o \in BOs,
           o \notin Live, Live' = Live \cup {o}, mm'[o] # 0,
           \A b \in Live : mm'[b] = mm[b],
           \A x \in LiveRange : pte'[x] = pte[x]
    PROVE  R!RangeNext
<1> DEFINE s == mm'[o]
           N == RangeOf(o, s)
<1>1. N \subseteq Places /\ s \in Places /\ s \in Nat /\ NPages[o] \in Nat /\ 0 < NPages[o]
  <2>1. /\ mm'[o] \in Places' /\ Places' = Places /\ NPages[o] \in Nat \ {0}
        /\ U32Max \div PageSize \in Nat
    BY DivBounds DEF PagesInv, PagesTypeOK, PagesAssumption, Places
  <2>2. RangeOf(o, mm'[o]) \subseteq InRange'
    BY DEF PagesInv, NodeInv, RangeOf
  <2>3. InRange' \subseteq Places
    BY <2>1 DEF PagesInv, RangeInv, NodeInv
  <2>4. mm'[o] \in Places
    BY ONLY <2>1, ZenonT(30)
  <2>5. mm'[o] \in Nat
    BY ONLY <2>1, <2>4, SMTT(30) DEF Places
  <2> QED BY ONLY <2>1, <2>2, <2>3, <2>4, <2>5, SMTT(30)
<1>2. \A b \in Live : b \in BOs /\ b # o /\ mm[b] # 0 /\ mm'[b] # 0 /\ mm'[b] = mm[b]
  BY DEF Live
<1>3. N \cap LiveRange = {}
  <2> SUFFICES ASSUME NEW b \in Live PROVE N \cap RangeOf(b, mm[b]) = {}
    BY SMTT(30) DEF LiveRange
  <2>1. \A c, d \in BOs : c # d /\ mm'[c] # 0 /\ mm'[d] # 0
                             => RangeOf(c, mm'[c]) \cap RangeOf(d, mm'[d]) = {}
    BY DEF PagesInv, NodeInv, RangeOf
  <2> QED BY ONLY <1>2, <2>1, o \in BOs, mm'[o] # 0, b \in Live, ZenonT(30)
<1>4. LiveRange' = LiveRange \cup N
  BY <1>2 DEF LiveRange, RangeOf
<1>5. \A x \in N : pte'[x] = <<o, x - s>>
  <2> TAKE x \in N
  <2>1. x - s \in 0 .. NPages[o] - 1 /\ s + (x - s) = x
    BY ONLY <1>1, x \in N, SMTT(30) DEF RangeOf
  <2>2. \A i \in 0 .. NPages[o] - 1 : pte'[mm'[o] + i] = <<o, i>>
    BY DEF PagesInv, MapInv, Whole
  <2> QED BY ONLY <2>1, <2>2, ZenonT(30)
<1>6. R!PagesOf(o) \cap R!Range(Translation) = {}
  <2> SUFFICES ASSUME NEW x \in LiveRange PROVE pte[x] \notin R!PagesOf(o)
    BY SeenInPlaces DEF R!Range
  <2>1. PICK b \in Live : pte[x] = <<b, x - mm[b]>>
    BY Seen
  <2>2. b # o
    BY <1>2
  <2> QED BY ONLY <2>1, <2>2, SMTT(30) DEF R!PagesOf
<1>7. /\ DOMAIN R!Layout(o, s) = N
      /\ \A x \in N : R!Layout(o, s)[x] = <<o, x - s>>
      /\ DOMAIN Translation = LiveRange
      /\ \A x \in LiveRange : Translation[x] = pte[x]
  BY SeenInPlaces DEF R!Layout, RangeOf
<1>8. Translation' = [x \in LiveRange \cup N |-> pte'[x]]
  <2>1. LiveRange' \cap Places' = LiveRange \cup N
    BY <1>1, <1>4, SeenInPlaces DEF Places
  <2> QED BY ONLY <2>1, ZenonT(30) DEF Translation
<1>9. Translation' = [x \in DOMAIN Translation \cup DOMAIN R!Layout(o, s) |->
                        IF x \in DOMAIN Translation THEN Translation[x] ELSE R!Layout(o, s)[x]]
  <2>1. \A x \in LiveRange \cup N :
          pte'[x] = IF x \in LiveRange THEN Translation[x] ELSE R!Layout(o, s)[x]
    BY <1>5, <1>7
  <2> QED BY ONLY <1>7, <1>8, <2>1, ZenonT(30)
<1>10. Translation' # Translation
  <2>1. s \in N /\ s \notin LiveRange
    <3>1. s \in N
      BY ONLY <1>1 DEF RangeOf
    <3> QED BY <1>3, <3>1
  <2>2. DOMAIN Translation' = LiveRange \cup N
    BY ONLY <1>8, ZenonT(30)
  <2> QED BY ONLY <1>7, <2>1, <2>2, ZenonT(30)
<1>11. R!RangeMap(o)
  <2>1. DOMAIN R!Layout(o, s) \subseteq Places \ DOMAIN Translation
    BY ONLY <1>1, <1>3, <1>7, ZenonT(30)
  <2> QED BY ONLY <1>1, <1>6, <1>9, <2>1, ZenonT(40) DEF R!RangeMap
<1> QED BY ONLY <1>10, <1>11, o \in BOs, ZenonT(30) DEF R!RangeNext

(* ane_iommu_unmap_pages is RangeUnmap.                                    *)
LEMMA UnmapCompletes ==
    ASSUME PagesInv, NEW b \in BOs, ane_iommu_unmap_pages(b)
    PROVE  R!RangeNext
<1> DEFINE S == RangeOf(b, mm[b])
<1>1. /\ op.pc = "idle" /\ mm[b] # 0 /\ mm' = [mm EXCEPT ![b] = 0] /\ op' = Idle
      /\ mm \in [BOs -> Places] /\ PagesAssumption
  BY DEF ane_iommu_unmap_pages, PagesInv, PagesTypeOK
<1>2. /\ S \in SUBSET Places /\ IsFiniteSet(S) /\ mm[b] \in Nat /\ NPages[b] \in Nat /\ 0 < NPages[b]
      /\ \A i \in 0 .. NPages[b] - 1 : mm[b] + i \in S
      /\ \A x \in S : x - mm[b] \in 0 .. NPages[b] - 1 /\ mm[b] + (x - mm[b]) = x
  BY <1>1, NodeFacts
<1>3. PICK L \in SUBSET S : Unmap(S, L)
  BY UnmapPagesNode
<1>4. \A x \in Places \ S : pte'[x] = pte[x]
  BY <1>2, <1>3, UnmapEffect
<1>5. Idle.pc = "idle"
  BY <1>1, IdleType
<1>6. /\ b \in Live /\ Live = {c \in BOs : mm[c] # 0} /\ Live' = {c \in BOs : mm'[c] # 0}
      /\ mm'[b] = 0 /\ \A c \in BOs \ {b} : mm'[c] = mm[c]
  BY ONLY <1>1, <1>5, b \in BOs, ZenonT(30) DEF Live
<1>7. \A c \in BOs \ {b} : mm[c] # 0 => RangeOf(c, mm[c]) \subseteq Places \ S
  <2> TAKE c \in BOs \ {b}
  <2> HAVE mm[c] # 0
  <2>1. RangeOf(c, mm[c]) \cap S = {}
    BY <1>1 DEF PagesInv, NodeInv
  <2>2. RangeOf(c, mm[c]) \subseteq Places
    BY NodeFacts
  <2> QED BY ONLY <2>1, <2>2, ZenonT(30)
<1>8. LiveRange' = LiveRange \ S /\ S \subseteq LiveRange /\ LiveRange \subseteq Places
  <2>1. LiveRange' = UNION {RangeOf(c, mm[c]) : c \in {d \in BOs \ {b} : mm[d] # 0}}
    BY ONLY <1>6 DEF LiveRange, RangeOf
  <2>2. LiveRange = S \cup UNION {RangeOf(c, mm[c]) : c \in {d \in BOs \ {b} : mm[d] # 0}}
    BY ONLY <1>6, ZenonT(30) DEF LiveRange
  <2> QED BY ONLY <1>2, <1>7, <2>1, <2>2, ZenonT(30)
<1>9. \A x \in LiveRange : pte[x] \in R!PagesOf(b) <=> x \in S
  <2> TAKE x \in LiveRange
  <2>1. PICK c \in Live : /\ c \in BOs /\ mm[c] # 0
                          /\ x \in RangeOf(c, mm[c])
                          /\ x - mm[c] \in 0 .. NPages[c] - 1
                          /\ pte[x] = <<c, x - mm[c]>>
    BY Seen
  <2>2. CASE c = b
    BY ONLY <2>1, <2>2, ZenonT(30) DEF R!PagesOf
  <2>3. CASE c # b
    <3>1. x \notin S
      BY ONLY <1>7, <2>1, <2>3, ZenonT(30)
    <3> QED BY ONLY <2>1, <2>3, <3>1, SMTT(30) DEF R!PagesOf
  <2> QED BY <2>2, <2>3
<1>10. /\ DOMAIN Translation = LiveRange
       /\ \A x \in LiveRange : Translation[x] = pte[x]
       /\ Translation' = [x \in LiveRange \ S |-> pte'[x]]
  <2>1. LiveRange' \cap Places' = LiveRange \ S
    BY <1>8 DEF Places
  <2>2. Translation' = [x \in LiveRange \ S |-> pte'[x]]
    BY ONLY <2>1, ZenonT(30) DEF Translation
  <2> QED BY <2>2, SeenInPlaces
<1>11. R!PagesOf(b) \subseteq R!Range(Translation)
  <2> SUFFICES ASSUME NEW i \in 0 .. NPages[b] - 1
               PROVE  \E x \in LiveRange : pte[x] = <<b, i>>
    BY <1>10 DEF R!PagesOf, R!Range
  <2>1. \A j \in 0 .. NPages[b] - 1 : pte[mm[b] + j] = <<b, j>>
    BY <1>6 DEF PagesInv, MapInv, Whole
  <2> QED BY ONLY <1>2, <1>8, <2>1, i \in 0 .. NPages[b] - 1, Zenon
<1>12. {x \in DOMAIN Translation : Translation[x] \notin R!PagesOf(b)} = LiveRange \ S
  BY ONLY <1>9, <1>10, ZenonT(40)
<1>13. Translation' = R!Restrict(Translation, LiveRange \ S)
  BY ONLY <1>4, <1>8, <1>10, ZenonT(40) DEF R!Restrict
<1>14. Translation' # Translation
  <2>1. DOMAIN Translation' = LiveRange \ S /\ mm[b] + 0 \in S
    BY ONLY <1>2, <1>10
  <2> QED BY ONLY <1>8, <1>10, <2>1, SMTT(30)
<1>15. R!RangeUnmap(b)
  BY ONLY <1>11, <1>12, <1>13, ZenonT(30) DEF R!RangeUnmap
<1> QED BY ONLY <1>14, <1>15, b \in BOs, ZenonT(30) DEF R!RangeNext

(* A step of a call that does not complete a map: the live buffers are the *)
(* others, and they keep what they have.                                   *)
LEMMA CallKeeps ==
    ASSUME PagesInv,
           op.pc \in Calling, op'.bo = op.bo,
           \/ op'.pc \in Calling /\ mm' = mm
           \/ op'.pc = "idle" /\ mm' = [mm EXCEPT ![op.bo] = 0],
           \A x \in Places \ RangeOf(op.bo, mm[op.bo]) : pte'[x] = pte[x]
    PROVE  Translation' = Translation
<1>1. /\ op.bo \in BOs /\ mm \in [BOs -> Places] /\ mm[op.bo] # 0 /\ op.pc # "idle"
  BY DEF PagesInv, PagesTypeOK, NodeInv, Calling
<1>2. Live = {c \in BOs \ {op.bo} : mm[c] # 0}
  BY ONLY <1>1, ZenonT(30) DEF Live
<1>3. Live' = {c \in BOs \ {op.bo} : mm[c] # 0}
  BY <1>1 DEF Live, Calling
<1>4. \A c \in Live : mm'[c] = mm[c]
  BY <1>1, <1>2
<1>5. LiveRange \subseteq Places \ RangeOf(op.bo, mm[op.bo])
  <2> SUFFICES ASSUME NEW c \in BOs \ {op.bo}, mm[c] # 0
               PROVE  RangeOf(c, mm[c]) \subseteq Places \ RangeOf(op.bo, mm[op.bo])
    BY <1>2, SMTT(30) DEF LiveRange
  <2>1. RangeOf(c, mm[c]) \cap RangeOf(op.bo, mm[op.bo]) = {}
    BY <1>1 DEF PagesInv, NodeInv
  <2>2. RangeOf(c, mm[c]) \subseteq Places
    BY NodeFacts
  <2> QED BY ONLY <2>1, <2>2, ZenonT(30)
<1> QED BY <1>2, <1>3, <1>4, <1>5, SameTranslation

(* A step of a call that ends it with the node in place completes a map.   *)
LEMMA CallCompletes ==
    ASSUME PagesInv, PagesInv',
           op.pc \in Calling, op'.pc = "idle", op'.bo = op.bo, mm' = mm,
           \A x \in Places \ RangeOf(op.bo, mm[op.bo]) : pte'[x] = pte[x]
    PROVE  R!RangeNext
<1>1. /\ op.bo \in BOs /\ mm[op.bo] # 0 /\ op.pc # "idle"
  BY DEF PagesInv, PagesTypeOK, NodeInv, Calling
<1>2. Live = {c \in BOs \ {op.bo} : mm[c] # 0}
  BY ONLY <1>1, ZenonT(30) DEF Live
<1>3. Live' = Live \cup {op.bo} /\ op.bo \notin Live
  BY <1>1, <1>2 DEF Live
<1>4. \A x \in LiveRange : pte'[x] = pte[x]
  <2> SUFFICES ASSUME NEW c \in BOs \ {op.bo}, mm[c] # 0
               PROVE  RangeOf(c, mm[c]) \subseteq Places \ RangeOf(op.bo, mm[op.bo])
    BY <1>2 DEF LiveRange
  <2>1. RangeOf(c, mm[c]) \cap RangeOf(op.bo, mm[op.bo]) = {}
    BY <1>1 DEF PagesInv, NodeInv
  <2>2. RangeOf(c, mm[c]) \subseteq Places
    BY NodeFacts
  <2> QED BY ONLY <2>1, <2>2, ZenonT(40)
<1>5. PICK o \in BOs : o = op.bo
  BY <1>1
<1>6. /\ o \notin Live /\ Live' = Live \cup {o} /\ mm'[o] # 0
      /\ \A c \in Live : mm'[c] = mm[c]
  BY <1>1, <1>3, <1>5
<1> QED BY ONLY PagesInv, PagesInv', o \in BOs, <1>4, <1>6, MapCompletes, ZenonT(40)

(* Whatever iommu_unmap does inside a call stays inside the call's node.   *)
LEMMA UnmapInside ==
    ASSUME PagesInv, NEW T, NEW S \in SUBSET T, NEW L, Unmap(S, L)
    PROVE  \A x \in Places \ T : pte'[x] = pte[x]
BY DEF Unmap

(* Every step of the page-wise code is a step of AneRange or a stutter.    *)
LEMMA StepRefines ==
    ASSUME PagesInv, PagesInv', [PagesNext]_pageVars
    PROVE  [R!RangeNext]_Translation
<1> DEFINE o == op.bo
           S == RangeOf(op.bo, mm[op.bo])
<1>1. op \in OpType /\ PagesAssumption /\ mm \in [BOs -> Places]
  BY DEF PagesInv, PagesTypeOK, OpType
<1>2. op.pc \in Calling => /\ op.bo \in BOs /\ mm[op.bo] # 0
                           /\ \A i \in 0 .. NPages[op.bo] - 1 : mm[op.bo] + i \in S
                           /\ NPages[op.bo] \in Nat /\ S \cap Places = S /\ S \subseteq Places
                           /\ \A i \in 0 .. NPages[op.bo] : Bytes32(i) = i
  <2> HAVE op.pc \in Calling
  <2>1. op.bo \in BOs /\ mm[op.bo] # 0
    BY DEF PagesInv, PagesTypeOK, NodeInv
  <2> QED BY <2>1, NodeFacts
<1>3. CASE ane_iommu_domain_init
  <2>1. op.pc = "unbound" /\ pte' = pte /\ mm' = mm
    BY <1>3 DEF ane_iommu_domain_init
  <2>2. \A b \in BOs : mm[b] = 0
    BY <2>1, NoNodes
  <2>3. Live = {} /\ Live' = {}
    BY ONLY <2>1, <2>2, ZenonT(30) DEF Live
  <2> QED BY <2>1, <2>3, SameTranslation
<1>4. CASE ane_iommu_purge_stale
  <2>1. op.pc = "purge" /\ mm' = mm
    BY <1>4 DEF ane_iommu_purge_stale
  <2>2. \A b \in BOs : mm[b] = 0
    BY <2>1, NoNodes
  <2>3. Live = {} /\ Live' = {} /\ LiveRange = {}
    BY ONLY <2>1, <2>2, ZenonT(30) DEF Live, LiveRange
  <2> QED BY <2>1, <2>3, SameTranslation
<1>5. ASSUME NEW b \in BOs, NEW s \in Places, NEW batch \in BOOLEAN,
             ane_iommu_map_pages(b, s, batch)
      PROVE  Translation' = Translation
  <2>1. /\ op.pc = "idle" /\ mm[b] = 0 /\ mm' = [mm EXCEPT ![b] = s] /\ pte' = pte
    BY <1>5 DEF ane_iommu_map_pages
  <2>2. PICK p \in {"batch", "each"} : op' = [Idle EXCEPT !.bo = b, !.pc = p]
    BY <1>5 DEF ane_iommu_map_pages
  <2>3. op'.pc # "idle" /\ op'.bo = b
    BY ONLY <1>1, <2>2, IdleType, ZenonT(30) DEF OpType
  <2>4. \A c \in BOs \ {b} : mm'[c] = mm[c]
    BY ONLY <1>1, <2>1, ZenonT(30)
  <2>5. Live' = Live /\ b \notin Live /\ Live \subseteq BOs
    BY ONLY <2>1, <2>3, <2>4, ZenonT(30) DEF Live
  <2> QED BY <2>1, <2>4, <2>5, SameTranslation
<1>6. CASE MapEach
  <2>1. op.pc = "each" /\ op.pc \in Calling /\ op.i \in Nat /\ op.i < NPages[o]
    BY <1>1, <1>6 DEF MapEach, Calling, PagesInv, MapInv, OpType
  <2> DEFINE x0 == mm[o] + op.i
  <2>2. x0 \in S
    BY ONLY <1>2, <2>1, SMTT(30)
  <2> HIDE DEF x0
  <2>3. CASE /\ pte' = [pte EXCEPT ![x0] = <<o, op.i>>]
             /\ op' = IF op.i + 1 = NPages[o] THEN [op EXCEPT !.pc = "idle", !.err = "ok"]
                      ELSE [op EXCEPT !.i = @ + 1, !.healed = FALSE]
             /\ UNCHANGED <<mm, lost, debris>>
    <3>1. \A x \in Places \ S : pte'[x] = pte[x]
      BY <2>2, <2>3 DEF PagesInv, PagesTypeOK
    <3>2. mm' = mm /\ op'.bo = op.bo /\ (op'.pc = "idle" \/ op'.pc \in Calling)
      BY <1>1, <2>1, <2>3 DEF OpType
    <3> QED BY <2>1, <3>1, <3>2, CallKeeps, CallCompletes
  <2>4. CASE \E e \in {"ENOMEM", "EEXIST"} :
                op' = [op EXCEPT !.pc = "rollback", !.err = e] /\ UNCHANGED <<mm, pte>>
    <3>1. mm' = mm /\ pte' = pte /\ op'.bo = op.bo /\ op'.pc \in Calling
      BY <1>1, <2>4 DEF OpType, Calling
    <3>9. Translation' = Translation
      BY ONLY PagesInv, <2>1, <3>1, CallKeeps, ZenonT(30)
    <3> QED BY <3>9
  <2>5. CASE /\ \E L \in SUBSET {x0} :
                   Unmap({x0}, L) /\ op' = [op EXCEPT !.healed = TRUE, !.slipped = @ \/ L # {}]
             /\ UNCHANGED mm
    <3>1. PICK L \in SUBSET {x0} :
                   Unmap({x0}, L) /\ op' = [op EXCEPT !.healed = TRUE, !.slipped = @ \/ L # {}]
      BY <2>5
    <3>2. \A x \in Places \ S : pte'[x] = pte[x]
      BY <2>2, <3>1, UnmapInside
    <3>3. op'.bo = op.bo /\ op'.pc = op.pc /\ mm' = mm
      BY <1>1, <2>5, <3>1 DEF OpType
    <3>9. Translation' = Translation
      BY ONLY PagesInv, <2>1, <3>2, <3>3, CallKeeps, ZenonT(40)
    <3> QED BY <3>9
  <2>6. mm[o] + Bytes32(op.i) = x0 /\ x0 \in Places
    <3>1. op.i \in 0 .. NPages[o]
      BY ONLY <1>2, <2>1, SMTT(30)
    <3> QED BY <1>2, <2>1, <2>2, <3>1 DEF x0
  <2> QED BY <1>6, <2>3, <2>4, <2>5, <2>6 DEF MapEach
<1>7. CASE Rollback
  <2>1. op.pc = "rollback" /\ op.pc \in Calling /\ op.i \in Nat /\ op.i <= NPages[o]
    BY <1>1, <1>7 DEF Rollback, Calling, PagesInv, MapInv, OpType
  <2>2. CASE op.i > 0
    <3>1. op.i - 1 \in 0 .. NPages[o] - 1 /\ RollbackPage = mm[o] + (op.i - 1)
      <4>1. op.i - 1 \in 0 .. NPages[o] - 1 /\ op.i - 1 \in 0 .. NPages[o]
        BY ONLY <1>2, <2>1, <2>2, SMTT(30)
      <4>2. Bytes32(op.i - 1) = op.i - 1
        BY <1>2, <2>1, <4>1, NodeFacts
      <4> QED BY ONLY <4>1, <4>2, ZenonT(30) DEF RollbackPage
    <3>2. RollbackPage \in S
      BY <1>2, <2>1, <3>1
    <3>3. PICK L \in SUBSET {RollbackPage} : Unmap({RollbackPage}, L)
      BY <1>7, <2>2 DEF Rollback
    <3>4. \A x \in Places \ S : pte'[x] = pte[x]
      BY <3>2, <3>3, UnmapInside
    <3>5. op'.bo = op.bo /\ op'.pc = op.pc /\ mm' = mm
      BY <1>1, <1>7, <2>2 DEF Rollback, OpType
    <3>9. Translation' = Translation
      BY ONLY PagesInv, <2>1, <3>4, <3>5, CallKeeps, ZenonT(30)
    <3> QED BY <3>9
  <2>3. CASE ~(op.i > 0)
    <3>1. /\ pte' = pte /\ mm' = [mm EXCEPT ![op.bo] = 0] /\ op'.pc = "idle" /\ op'.bo = op.bo
      BY <1>1, <1>7, <2>3 DEF Rollback, Fail, OpType
    <3>9. Translation' = Translation
      BY ONLY PagesInv, <2>1, <3>1, CallKeeps, ZenonT(30)
    <3> QED BY <3>9
  <2> QED BY <2>2, <2>3
<1>8. CASE MapBatch
  <2>1. op.pc = "batch" /\ op.pc \in Calling
    BY <1>8 DEF MapBatch, Calling
  <2>2. CASE \E P \in SUBSET S :
                  /\ pte' = [x \in Places |-> IF x \in P THEN <<o, x - mm[o]>> ELSE pte[x]]
                  /\ op' = IF ShortIsError(o, Cardinality(P))
                           THEN [op EXCEPT !.pc = "idle", !.err = "ok"]
                           ELSE [op EXCEPT !.pc = "short"]
                  /\ mm' = mm
    <3>1. \A x \in Places \ S : pte'[x] = pte[x]
      BY <2>2
    <3>2. mm' = mm /\ op'.bo = op.bo /\ (op'.pc = "idle" \/ op'.pc \in Calling)
      BY <1>1, <2>2 DEF OpType, Calling
    <3> QED BY <2>1, <3>1, <3>2, CallKeeps, CallCompletes
  <2>3. CASE \E e \in {"ENOMEM", "EEXIST"} : Fail(e) /\ UNCHANGED pte
    <3>1. /\ pte' = pte /\ mm' = [mm EXCEPT ![op.bo] = 0] /\ op'.pc = "idle" /\ op'.bo = op.bo
      BY <1>1, <2>3 DEF Fail, OpType
    <3>9. Translation' = Translation
      BY ONLY PagesInv, <2>1, <3>1, CallKeeps, ZenonT(30)
    <3> QED BY <3>9
  <2>4. CASE /\ \E L \in SUBSET S :
                   Unmap(S, L) /\ op' = [op EXCEPT !.healed = TRUE, !.slipped = @ \/ L # {}]
             /\ UNCHANGED mm
    <3>1. PICK L \in SUBSET S :
                   Unmap(S, L) /\ op' = [op EXCEPT !.healed = TRUE, !.slipped = @ \/ L # {}]
      BY <2>4
    <3>2. \A x \in Places \ S : pte'[x] = pte[x]
      BY <3>1, UnmapInside
    <3>3. op'.bo = op.bo /\ op'.pc = op.pc /\ mm' = mm
      BY <1>1, <2>4, <3>1 DEF OpType
    <3>9. Translation' = Translation
      BY ONLY PagesInv, <2>1, <3>2, <3>3, CallKeeps, Zenon
    <3> QED BY <3>9
  <2> QED BY <1>2, <1>8, <2>1, <2>2, <2>3, <2>4 DEF MapBatch
<1>9. CASE ClearShort
  <2>1. op.pc \in Calling /\ Fail("EIO") /\ \E L \in SUBSET S : Unmap(S, L)
    BY <1>2, <1>9 DEF ClearShort, Calling
  <2>2. \A x \in Places \ S : pte'[x] = pte[x]
    BY <2>1, UnmapInside
  <2>3. mm' = [mm EXCEPT ![op.bo] = 0] /\ op'.pc = "idle" /\ op'.bo = op.bo
    BY <1>1, <2>1 DEF Fail, OpType
  <2>9. Translation' = Translation
    BY ONLY PagesInv, <2>1, <2>2, <2>3, CallKeeps, ZenonT(30)
  <2> QED BY <2>9
<1>10. CASE UNCHANGED pageVars
  BY <1>10 DEF pageVars, Translation, LiveRange, Live, RangeOf, Places
<1> QED
  BY <1>3, <1>4, <1>5, <1>6, <1>7, <1>8, <1>9, <1>10, UnmapCompletes DEF PagesNext

(* The page-wise mapping code of ane_drv.c implements the one-step mapping *)
(* of AneRange until a buffer of 4 GiB or more is given a node: a buffer   *)
(* appears in the engine's address space as a whole, on page numbers       *)
(* nobody has, disappears as a whole, and no operation on one buffer       *)
(* changes the translation of another.                                     *)
THEOREM PagesRefineRange ==
    PagesAssumption /\ PagesSpec => R!RangeInit /\ [][wide' \/ R!RangeNext]_Translation
<1>1. PagesAssumption /\ PagesInit => R!RangeInit
  <2> SUFFICES ASSUME PagesInit PROVE Translation = [x \in {} |-> <<>>]
    BY DEF R!RangeInit
  <2>1. Live = {}
    BY DEF PagesInit, Live
  <2>2. LiveRange \cap Places = {}
    BY ONLY <2>1, ZenonT(30) DEF LiveRange
  <2> QED BY ONLY <2>2, ZenonT(30) DEF Translation
<1>2. UntilWide /\ UntilWide' /\ [PagesNext]_pageVars => [wide' \/ R!RangeNext]_Translation
  <2> SUFFICES ASSUME UntilWide, UntilWide', [PagesNext]_pageVars, ~wide'
               PROVE  [R!RangeNext]_Translation
    OBVIOUS
  <2>1. PagesInv'
    BY DEF UntilWide
  <2>2. PagesInv
    BY WideStep DEF UntilWide
  <2> QED BY <2>1, <2>2, StepRefines
<1> QED BY <1>1, <1>2, Invariance, PTL DEF PagesSpec

(* When no buffer reaches 4 GiB, the implementation holds throughout.      *)
THEOREM NarrowRefineRange ==
    ASSUME \A b \in BOs : ~Wide(b)
    PROVE  PagesAssumption /\ PagesSpec => R!RangeSpec
<1>1. PagesInit => wide = FALSE
  BY DEF PagesInit
<1>2. wide = FALSE /\ [PagesNext]_pageVars => (wide = FALSE)'
  <2> SUFFICES ASSUME wide = FALSE, [PagesNext]_pageVars PROVE wide' = FALSE
    OBVIOUS
  <2>1. ASSUME NEW b \in BOs, NEW s \in Places, NEW batch \in BOOLEAN,
               ane_iommu_map_pages(b, s, batch)
        PROVE  wide' = FALSE
    BY <2>1 DEF ane_iommu_map_pages
  <2> QED BY <2>1 DEF PagesNext, ane_iommu_domain_init, ane_iommu_purge_stale, MapEach, Rollback,
          MapBatch, ClearShort, ane_iommu_unmap_pages, pageVars
<1>3. (wide = FALSE)' /\ [wide' \/ R!RangeNext]_Translation => [R!RangeNext]_Translation
  OBVIOUS
<1> QED BY <1>1, <1>2, <1>3, PagesRefineRange, PTL DEF PagesSpec, R!RangeSpec

-----------------------------------------------------------------------------
(* AnePower. *)
(* Where an ane_dvfs_up, a release that follows it, and a suspend can be.  *)
UpPcs == {"reread", "request", "rmw", "readback"}
RelPcs == {"rel_level", "rel_req", "rel_rmw", "rel_off"}

(* The types of what DvfsTypeOK leaves out. *)
FlagType ==
    Locked \in BOOLEAN /\ pmp \in BOOLEAN /\ active \in BOOLEAN /\ other \in BOOLEAN
WordType ==
    /\ dvfs_level \in 0 .. LevelMax + 1
    /\ word \in (SUBSET {ANE, CLIENT}) \cup {NoWord}
    /\ oword \in (SUBSET {ANE, CLIENT}) \cup {NoWord}

(* The level word and the DVFS block at each place of a call: the block is *)
(* on from the first step of ane_dvfs_up to the last of ane_dvfs_release,  *)
(* and the level is up only while the driver is active, until the release  *)
(* has lowered it; otherwise both are as found, or at 0.                   *)
LevelInv ==
    /\ dpc = "idle" /\ ~active => DVFS_ON = boot.on /\ LEVEL = boot.level
    /\ dpc = "rel_level" \/ (dpc = "idle" /\ active) =>
          active /\ DVFS_ON = 1 /\ LEVEL = level /\ boot.level = 0
    /\ dpc \notin {"idle", "rel_level"} => DVFS_ON = 1 /\ LEVEL = boot.level
    /\ dpc # "idle" \/ active => boot.on = 0
    /\ dpc \in UpPcs => ~active

(* An attempt that can still time out is within the limit. *)
TimeoutInv == dpc \in {"reread", "request", "rmw"} => ack_timeouts < MaxTimeouts

(* The request word: the unlocked update is in progress only without the   *)
(* locked one, and with the locked one the other client's update is not    *)
(* interrupted and the driver's bit is set whenever the level is up.       *)
WordInv ==
    /\ dpc \in {"rmw", "rel_rmw"} => ~Locked /\ word # NoWord
    /\ Locked /\ oword # NoWord => oword = PS_REQ /\ (CLIENT \in PS_REQ <=> ~other)
    /\ Locked /\ oword = NoWord => (CLIENT \in PS_REQ <=> other)
    /\ Locked /\ (dpc = "rel_level" \/ (dpc = "idle" /\ active)) => ANE \in PS_REQ

(* Runtime PM: a call is in progress only on the way, and a device that    *)
(* suspends or goes has begun its release.                                 *)
PmInv ==
    /\ pm \in {"active", "suspended", "unbound", "abandoned"} => dpc = "idle"
    /\ pm \in {"suspending", "removing"} => dpc \in RelPcs \/ (dpc = "idle" /\ ~active)
    /\ pm = "resuming" => dpc \in UpPcs \cup RelPcs \cup {"idle"}
    /\ pm \in {"suspended", "unbound"} => ~active
    /\ pm = "unbound" => ~held /\ ~on /\ timer = Unarmed

PowerInv ==
    /\ TypeOK /\ FlagType /\ WordType /\ LevelInv /\ TimeoutInv /\ WordInv /\ PmInv /\ BusyHolds

DvfsInv == DvfsTypeOK /\ FlagType /\ WordType /\ LevelInv /\ TimeoutInv /\ WordInv
BoostInv == BoostTypeOK /\ BusyHolds

USE AneBoostAssumption, AneDvfsAssumption

LEMMA PowerStart == Init => PowerInv
<1> SUFFICES ASSUME Init PROVE PowerInv
  OBVIOUS
<1> USE DEF Init, BoostInit, DvfsInit
<1>1. BoostTypeOK
  <2>1. boost_idle_ms \in 0 .. MaxIdle /\ age \in 0 .. MaxIdle /\ timer \in -1 .. MaxIdle
    BY SMTT(30) DEF Unarmed
  <2>2. /\ on \in BOOLEAN /\ busy \in BOOLEAN /\ held \in BOOLEAN
        /\ raised \in BOOLEAN /\ running \in BOOLEAN /\ legs \in BOOLEAN
    OBVIOUS
  <2> QED
    BY <2>1, <2>2 DEF BoostTypeOK
<1>2. DvfsTypeOK
  BY SMTT(30) DEF DvfsTypeOK, Dpcs, Unknown
<1>3. FlagType
  <2>1. Locked \in BOOLEAN
    OBVIOUS
  <2>2. pmp = TRUE /\ active = FALSE /\ other = FALSE
    OBVIOUS
  <2> QED
    BY ONLY <2>1, <2>2, Zenon DEF FlagType
<1>4. WordType
  BY DEF WordType
<1>8. boot.on = DVFS_ON /\ boot.level = LEVEL
  BY SMTT(30)
<1>5. LevelInv /\ TimeoutInv /\ pm = "suspended" /\ BusyHolds
  BY <1>8 DEF LevelInv, TimeoutInv, UpPcs, BusyHolds
<1>7. PmInv
  BY DEF PmInv
<1>9. CLIENT \notin PS_REQ
  BY SMTT(30) DEF ANE, CLIENT
<1>6. WordInv
  BY <1>9 DEF WordInv
<1> QED
  BY <1>1, <1>2, <1>3, <1>4, <1>5, <1>6, <1>7 DEF PowerInv, TypeOK

-----------------------------------------------------------------------------
(* The boost. *)

(* Dropping the boost drops every request. *)
LEMMA BoostSet ==
  /\ ane_boost_set(TRUE) => on' = TRUE /\ held' \in BOOLEAN
  /\ ane_boost_set(FALSE) => on' = FALSE /\ held' = FALSE
BY DEF ane_boost_set

LEMMA BoostSteps ==
  ASSUME BoostInv,
         \/ boost_tick \/ ane_boost_off_work \/ ane_boost_begin \/ ane_boost_end
         \/ ane_boost_init \/ ane_boost_exit
         \/ \E k \in 0 .. MaxIdle : boost_idle_ms_write(k)
  PROVE  BoostInv'
<1> USE DEF boost_tick, ane_boost_off_work, ane_boost_begin, ane_boost_end,
            ane_boost_init, ane_boost_exit, boost_idle_ms_write
<1>5. /\ boost_idle_ms' \in 0 .. MaxIdle
      /\ age' = age \/ age' = 0 \/ (age < MaxIdle /\ age' = age + 1)
      /\ \/ timer' = timer \/ timer' = Unarmed \/ timer' = boost_idle_ms
         \/ timer > 0 /\ timer' = timer - 1
  BY DEF BoostInv, BoostTypeOK
<1>1. /\ boost_idle_ms' \in 0 .. MaxIdle /\ age' \in 0 .. MaxIdle
      /\ timer' \in -1 .. MaxIdle
  BY ONLY BoostInv, <1>5, AneBoostAssumption, SMTT(30) DEF BoostInv, BoostTypeOK, Unarmed
<1>2. on' \in BOOLEAN /\ held' \in BOOLEAN /\ busy' \in BOOLEAN
  BY BoostSet DEF BoostInv, BoostTypeOK
<1>3. raised' \in BOOLEAN /\ running' \in BOOLEAN /\ legs' \in BOOLEAN
  BY DEF BoostInv, BoostTypeOK
<1>4. BusyHolds'
  <2>1. CASE ane_boost_begin
    <3>1. running' = TRUE /\ ~busy
      BY <2>1 DEF BoostInv, BusyHolds
    <3>2. CASE boost_idle_ms = 0 \/ on
      <4>1. on' = on /\ held' = held /\ (busy' => on \/ busy)
        BY <2>1, <3>2
      <4> QED
        BY ONLY <3>1, <4>1, BoostInv, ZenonT(30) DEF BoostInv, BusyHolds
    <3>3. CASE ~(boost_idle_ms = 0 \/ on)
      <4>1. on' = TRUE
        BY <2>1, <3>3, BoostSet
      <4> QED
        BY ONLY <3>1, <4>1, ZenonT(30) DEF BusyHolds
    <3> QED
      BY ONLY <3>2, <3>3, ZenonT(30)
  <2>2. CASE ane_boost_end
    BY <2>2 DEF BoostInv, BusyHolds
  <2>3. CASE ane_boost_off_work \/ ane_boost_exit
    <3>1. running' = running /\ busy' = busy
      BY <2>3
    <3>2. CASE on' = on /\ held' = held
      BY ONLY <3>1, <3>2, BoostInv, ZenonT(30) DEF BoostInv, BusyHolds
    <3>3. CASE ~busy /\ ane_boost_set(FALSE)
      BY ONLY <3>1, <3>3, BoostSet, ZenonT(30) DEF BusyHolds
    <3> QED
      BY <2>3, <3>2, <3>3 DEF BoostInv, BusyHolds
  <2>4. CASE UNCHANGED <<on, busy, held, running>>
    BY <2>4 DEF BoostInv, BusyHolds
  <2> QED
    BY <2>1, <2>2, <2>3, <2>4
<1> QED
  BY <1>1, <1>2, <1>3, <1>4 DEF BoostInv, BoostTypeOK

-----------------------------------------------------------------------------
(* The level. *)

(* The first write of the level word ends what was found at power-up. *)
LEMMA WriteLevel ==
  ASSUME DvfsTypeOK, NEW n, write_level(n)
  PROVE  /\ LEVEL' = n /\ boot'.level = 0 /\ boot'.on = boot.on
         /\ boot' \in [on : {0, 1}, level : 0 .. Unknown]
BY SMTT(30) DEF DvfsTypeOK, write_level, Unknown

LEMMA UpStep ==
  ASSUME DvfsInv, ane_dvfs_up
  PROVE  DvfsInv'
<1> USE DEF DvfsInv, ane_dvfs_up, MayUp, envVars
<1>1. DvfsTypeOK'
  BY SMTT(30) DEF DvfsTypeOK, Min2, Dpcs, WordType, Unknown
<1>2. FlagType' /\ WordType'
  BY DEF FlagType, WordType
<1>3. LevelInv'
  BY DEF LevelInv, UpPcs
<1>4. TimeoutInv'
  BY DEF TimeoutInv
<1>5. WordInv'
  BY DEF WordInv
<1> QED
  BY <1>1, <1>2, <1>3, <1>4, <1>5

LEMMA DownStep ==
  ASSUME DvfsInv, ane_dvfs_down
  PROVE  DvfsInv'
<1> USE DEF DvfsInv, ane_dvfs_down, envVars, hwWords
<1>1. DvfsTypeOK'
  BY DEF DvfsTypeOK, Dpcs
<1>2. FlagType' /\ WordType'
  BY DEF FlagType, WordType
<1>3. LevelInv'
  BY DEF LevelInv, UpPcs
<1>4. TimeoutInv'
  BY DEF TimeoutInv
<1>5. WordInv'
  BY DEF WordInv
<1> QED
  BY <1>1, <1>2, <1>3, <1>4, <1>5

LEMMA RereadStep ==
  ASSUME DvfsInv, up_reread
  PROVE  DvfsInv'
<1> USE DEF DvfsInv, up_reread, envVars, hwWords
<1>1. DvfsTypeOK'
  BY DEF DvfsTypeOK, Dpcs
<1>2. FlagType' /\ WordType'
  BY DEF FlagType, WordType
<1>3. LevelInv'
  BY DEF LevelInv, UpPcs
<1>4. TimeoutInv'
  BY DEF TimeoutInv
<1>5. WordInv'
  BY DEF WordInv
<1> QED
  BY <1>1, <1>2, <1>3, <1>4, <1>5

(* The request: locked, or read here and written back. *)
LEMMA RequestStep ==
  ASSUME DvfsInv, up_request
  PROVE  DvfsInv'
<1> USE DEF DvfsInv, up_request, req_locked, req_read, req_write, envVars
<1>1. dpc \in {"request", "rmw"} /\ dpc' \in {"rmw", "readback", "rel_req"}
  OBVIOUS
<1>2. PS_REQ' \subseteq {ANE, CLIENT} /\ word' \in (SUBSET {ANE, CLIENT}) \cup {NoWord}
  BY DEF DvfsTypeOK, WordType, WordInv, Set
<1>3. DvfsTypeOK'
  BY <1>1, <1>2, SMTT(30) DEF DvfsTypeOK, Dpcs, TimeoutInv
<1>4. FlagType' /\ WordType'
  BY <1>2 DEF FlagType, WordType
<1>5. LevelInv'
  BY <1>1 DEF LevelInv, UpPcs
<1>6. TimeoutInv'
  BY <1>1 DEF TimeoutInv, DvfsTypeOK
<1>7. WordInv'
  <2>1. CASE req_locked("request", TRUE, "readback", "rel_req")
    BY <2>1 DEF WordInv, Set, ANE, CLIENT
  <2>2. CASE req_read("request", "rmw")
    BY <2>2 DEF WordInv, DvfsTypeOK, NoWord, ANE, CLIENT
  <2>3. CASE req_write("rmw", TRUE, "readback", "rel_req")
    BY <2>3 DEF WordInv
  <2> QED
    BY <2>1, <2>2, <2>3
<1> QED
  BY <1>3, <1>4, <1>5, <1>6, <1>7

LEMMA ReadbackStep ==
  ASSUME DvfsInv, up_readback
  PROVE  DvfsInv'
<1> USE DEF DvfsInv, up_readback, envVars
<1>0. /\ boot' \in [on : {0, 1}, level : 0 .. Unknown] /\ boot'.on = boot.on
      /\ IF ANE \in PS_REQ THEN LEVEL' = level /\ boot'.level = 0
                           ELSE LEVEL' = LEVEL /\ boot' = boot
  <2>1. CASE ANE \in PS_REQ
    BY <2>1, WriteLevel
  <2>2. CASE ANE \notin PS_REQ
    BY <2>2 DEF DvfsTypeOK
  <2> QED
    BY <2>1, <2>2
<1>1. DvfsTypeOK'
  BY <1>0, SMTT(30) DEF DvfsTypeOK, Dpcs, Unknown
<1>2. active' \in BOOLEAN
  BY DEF FlagType
<1>3. FlagType' /\ WordType'
  BY <1>2 DEF FlagType, WordType
<1>4. LevelInv'
  BY <1>0 DEF LevelInv, UpPcs
<1>5. TimeoutInv'
  BY DEF TimeoutInv
<1>6. WordInv'
  BY DEF WordInv
<1> QED
  BY <1>1, <1>3, <1>4, <1>5, <1>6

LEMMA ReleaseLevelStep ==
  ASSUME DvfsInv, release_level
  PROVE  DvfsInv'
<1> USE DEF DvfsInv, release_level, envVars
<1>0. /\ boot' \in [on : {0, 1}, level : 0 .. Unknown] /\ boot'.on = boot.on
      /\ LEVEL' = 0 /\ boot'.level = 0
  BY WriteLevel
<1>1. DvfsTypeOK'
  BY <1>0, SMTT(30) DEF DvfsTypeOK, Dpcs, Unknown
<1>2. FlagType' /\ WordType'
  BY DEF FlagType, WordType
<1>3. LevelInv'
  BY <1>0 DEF LevelInv, UpPcs
<1>4. TimeoutInv'
  BY DEF TimeoutInv
<1>5. WordInv'
  BY DEF WordInv
<1> QED
  BY <1>1, <1>2, <1>3, <1>4, <1>5

LEMMA ReleaseRequestStep ==
  ASSUME DvfsInv, release_request
  PROVE  DvfsInv'
<1> USE DEF DvfsInv, release_request, req_locked, req_read, req_write, envVars
<1>1. dpc \in {"rel_req", "rel_rmw"} /\ dpc' \in {"rel_rmw", "rel_off"}
  OBVIOUS
<1>2. PS_REQ' \subseteq {ANE, CLIENT} /\ word' \in (SUBSET {ANE, CLIENT}) \cup {NoWord}
  BY DEF DvfsTypeOK, WordType, WordInv, Set
<1>3. DvfsTypeOK'
  BY <1>1, <1>2 DEF DvfsTypeOK, Dpcs
<1>4. FlagType' /\ WordType'
  BY <1>2 DEF FlagType, WordType
<1>5. LevelInv'
  BY <1>1 DEF LevelInv, UpPcs
<1>6. TimeoutInv'
  BY <1>1 DEF TimeoutInv
<1>7. WordInv'
  <2>1. CASE req_locked("rel_req", FALSE, "rel_off", "rel_off")
    BY <2>1 DEF WordInv, Set, ANE, CLIENT
  <2>2. CASE req_read("rel_req", "rel_rmw")
    BY <2>2 DEF WordInv, DvfsTypeOK, NoWord, ANE, CLIENT
  <2>3. CASE req_write("rel_rmw", FALSE, "rel_off", "rel_off")
    BY <2>3 DEF WordInv
  <2> QED
    BY <2>1, <2>2, <2>3
<1> QED
  BY <1>3, <1>4, <1>5, <1>6, <1>7

LEMMA ReleaseOffStep ==
  ASSUME DvfsInv, release_off
  PROVE  DvfsInv'
<1> USE DEF DvfsInv, release_off, envVars
<1>1. DvfsTypeOK'
  BY SMTT(30) DEF DvfsTypeOK, Dpcs
<1>2. active' \in BOOLEAN
  OBVIOUS
<1>3. FlagType' /\ WordType'
  BY <1>2 DEF FlagType, WordType
<1>4. LevelInv'
  BY DEF LevelInv, UpPcs
<1>5. TimeoutInv'
  BY DEF TimeoutInv
<1>6. WordInv'
  BY DEF WordInv
<1> QED
  BY <1>1, <1>3, <1>4, <1>5, <1>6

(* The parameter, the PMP and the other client. *)
LEMMA EnvStep ==
  ASSUME DvfsInv, DvfsEnv
  PROVE  DvfsInv'
<1> USE DEF DvfsInv, DvfsEnv, dvfs_level_write, pmp_restart, other_read, other_write,
            driverVars, hwWords
<1>1. PS_REQ' \subseteq {ANE, CLIENT} /\ oword' \in (SUBSET {ANE, CLIENT}) \cup {NoWord}
  BY DEF DvfsTypeOK, WordType, Set
<1>2. UNCHANGED <<DVFS_ON, DVFS_CMD, LEVEL, active, level, ack_timeouts, dpc, word,
                  boot, Locked>>
  OBVIOUS
<1>3. dvfs_level' \in 0 .. LevelMax + 1
  BY DEF WordType
<1>4. pmp' \in BOOLEAN /\ other' \in BOOLEAN
  BY DEF FlagType
<1>5. DvfsTypeOK' /\ FlagType' /\ WordType'
  BY <1>1, <1>2, <1>3, <1>4 DEF DvfsTypeOK, FlagType, WordType
<1>6. LevelInv' /\ TimeoutInv'
  BY <1>2 DEF LevelInv, TimeoutInv
<1>7. WordInv'
  <2>1. CASE other_read
    <3>1. oword = NoWord /\ oword' = PS_REQ /\ PS_REQ' = PS_REQ /\ other' = ~other
      BY <2>1
    <3>2. oword' # NoWord
      BY <3>1 DEF DvfsTypeOK, NoWord, ANE, CLIENT
    <3>3. other' <=> ~other
      BY <3>1
    <3> QED
      BY ONLY <1>2, <3>1, <3>2, <3>3, DvfsInv, ZenonT(40) DEF DvfsInv, WordInv
  <2>2. CASE other_write
    BY <1>2, <2>2, SMTT(30) DEF WordInv, Set, ANE, CLIENT
  <2>3. CASE ~other_read /\ ~other_write
    <3>1. UNCHANGED <<PS_REQ, other, oword>>
      BY <2>3
    <3> QED
      BY <1>2, <3>1 DEF WordInv
  <2> QED
    BY <2>1, <2>2, <2>3
<1> QED
  BY <1>5, <1>6, <1>7

-----------------------------------------------------------------------------
(* The composition. *)

PmType ==
    /\ pm \in {"active", "suspended", "resuming", "suspending", "removing",
               "unbound", "abandoned"}
    /\ wedged \in BOOLEAN

LEMMA PowerParts == PowerInv <=> BoostInv /\ DvfsInv /\ PmInv /\ PmType
BY DEF PowerInv, TypeOK, BoostInv, DvfsInv, PmType

LEMMA PowerPartsNext == PowerInv' <=> BoostInv' /\ DvfsInv' /\ PmInv' /\ PmType'
BY DEF PowerInv, TypeOK, BoostInv, DvfsInv, PmType

(* Either half stays as it is when the other moves. *)
LEMMA PowerFrame ==
  /\ BoostInv /\ UNCHANGED boostVars => BoostInv'
  /\ DvfsInv /\ UNCHANGED dvfsVars => DvfsInv'
<1>1. BoostInv /\ UNCHANGED boostVars => BoostInv'
  BY SMTT(30) DEF BoostInv, BoostTypeOK, BusyHolds, boostVars
<1>2. DvfsInv /\ UNCHANGED dvfsVars => DvfsInv'
  <2> SUFFICES ASSUME DvfsInv, UNCHANGED dvfsVars PROVE DvfsInv'
    OBVIOUS
  <2> USE DEF DvfsInv, dvfsVars
  <2>1. DvfsTypeOK' /\ FlagType' /\ WordType'
    BY DEF DvfsTypeOK, FlagType, WordType
  <2>2. LevelInv' /\ TimeoutInv' /\ WordInv'
    BY DEF LevelInv, TimeoutInv, WordInv
  <2> QED
    BY <2>1, <2>2
<1> QED
  BY <1>1, <1>2

(* The steps of a call stay within it, and end it with the release done.   *)
LEMMA PowerCall ==
  ASSUME DvfsInv, PmInv, DvfsStep, UNCHANGED <<boostVars, pm>>
  PROVE  PmInv'
<1> USE DEF DvfsInv, boostVars, UpPcs, RelPcs, envVars, hwWords
<1>1. UNCHANGED <<held, on, timer, pm>>
  OBVIOUS
<1>2. dpc # "idle"
  BY DEF DvfsStep, up_reread, up_request, up_readback, release_level, release_request,
         release_off, req_locked, req_read, req_write
<1>3. dpc \in RelPcs => dpc' \in RelPcs \/ (dpc' = "idle" /\ ~active')
  BY DEF DvfsStep, up_reread, up_request, up_readback, release_level, release_request,
         release_off, req_locked, req_read, req_write
<1>4. dpc' \in UpPcs \cup RelPcs \cup {"idle"}
  BY DEF DvfsStep, up_reread, up_request, up_readback, release_level, release_request,
         release_off, req_locked, req_read, req_write
<1> QED
  BY ONLY PmInv, <1>1, <1>2, <1>3, <1>4, ZenonT(30) DEF PmInv

LEMMA EnvKeepsPm ==
  ASSUME PmInv, DvfsEnv, UNCHANGED <<boostVars, pm>>
  PROVE  PmInv'
<1>1. UNCHANGED <<dpc, active, held, on, timer, pm>>
  BY DEF DvfsEnv, dvfs_level_write, pmp_restart, other_read, other_write, driverVars,
         boostVars
<1> QED
  BY <1>1 DEF PmInv

(* One lemma per step of runtime PM, of the driver's life and of a submit. *)
LEMMA PowerSteps ==
  ASSUME PowerInv, Power
  PROVE  PowerInv'
<1>0. BoostInv /\ DvfsInv /\ PmInv /\ PmType
  BY PowerParts
<1>1. CASE ane_runtime_resume
  <2>1. BoostInv' /\ DvfsInv'
    BY <1>0, <1>1, PowerFrame, UpStep DEF ane_runtime_resume
  <2>2. PmInv'
    BY <1>0, <1>1 DEF ane_runtime_resume, ane_dvfs_up, PmInv, UpPcs
  <2> QED
    BY <1>0, <1>1, <2>1, <2>2, PowerPartsNext DEF ane_runtime_resume, PmType
<1>2. CASE resumed
  <2>1. BoostInv' /\ DvfsInv'
    BY <1>0, <1>2, PowerFrame DEF resumed
  <2>2. PmInv'
    BY <1>0, <1>2 DEF resumed, PmInv, dvfsVars
  <2> QED
    BY <1>0, <1>2, <2>1, <2>2, PowerPartsNext DEF resumed, PmType
<1>3. CASE ane_runtime_suspend
  <2>1. BoostInv' /\ DvfsInv'
    BY <1>0, <1>3, PowerFrame, DownStep DEF ane_runtime_suspend
  <2>2. PmInv'
    BY <1>0, <1>3 DEF ane_runtime_suspend, ane_dvfs_down, PmInv, RelPcs
  <2> QED
    BY <1>0, <1>3, <2>1, <2>2, PowerPartsNext DEF ane_runtime_suspend, PmType
<1>4. CASE suspended
  <2>1. BoostInv' /\ DvfsInv'
    BY <1>0, <1>4, PowerFrame DEF suspended
  <2>2. PmInv'
    BY <1>0, <1>4 DEF suspended, PmInv, dvfsVars, RelPcs
  <2> QED
    BY <1>0, <1>4, <2>1, <2>2, PowerPartsNext DEF suspended, PmType
<1>5. CASE ane_submit
  <2>1. BoostInv' /\ DvfsInv'
    BY <1>0, <1>5, PowerFrame, BoostSteps DEF ane_submit
  <2>2. PmInv'
    BY <1>0, <1>5 DEF ane_submit, PmInv, dvfsVars
  <2> QED
    BY <1>0, <1>5, <2>1, <2>2, PowerPartsNext DEF ane_submit, PmType
<1>6. CASE ane_platform_remove
  <2>1. BoostInv' /\ PmType'
    BY <1>0, <1>6, PowerFrame DEF ane_platform_remove, PmType
  <2>2. CASE wedged
    <3>1. UNCHANGED <<boostVars, dvfsVars>> /\ pm = "active" /\ pm' = "abandoned"
      BY <1>6, <2>2 DEF ane_platform_remove
    <3>2. DvfsInv' /\ PmInv'
      BY <1>0, <3>1, PowerFrame DEF PmInv, dvfsVars
    <3> QED
      BY <2>1, <3>2, PowerPartsNext
  <2>3. CASE ~wedged
    <3>1. DvfsInv' /\ PmInv'
      BY <1>0, <1>6, <2>3, DownStep DEF ane_platform_remove, ane_dvfs_down, PmInv, RelPcs
    <3> QED
      BY <2>1, <3>1, PowerPartsNext
  <2> QED
    BY <2>2, <2>3
<1>7. CASE removed
  <2>1. BoostInv' /\ DvfsInv'
    BY <1>0, <1>7, PowerFrame, BoostSteps DEF removed
  <2>2. PmInv'
    BY <1>0, <1>7 DEF removed, ane_boost_exit, ane_boost_set, PmInv, dvfsVars, RelPcs
  <2> QED
    BY <1>0, <1>7, <2>1, <2>2, PowerPartsNext DEF removed, PmType
<1>8. CASE ane_platform_probe
  <2>1. BoostInv'
    BY <1>0, <1>8, BoostSteps DEF ane_platform_probe
  <2>2. UNCHANGED <<envVars, hwWords, active, level, dpc, word, boot>> /\ ack_timeouts' = 0
        /\ dpc = "idle"
    BY <1>0, <1>8 DEF ane_platform_probe, PmInv
  <2>3. DvfsInv'
    BY <1>0, <2>2, SMTT(30) DEF DvfsInv, DvfsTypeOK, FlagType, WordType, LevelInv, TimeoutInv,
                      WordInv, envVars, hwWords
  <2>4. PmInv'
    BY <1>0, <1>8 DEF ane_platform_probe, PmInv
  <2> QED
    BY <1>0, <1>8, <2>1, <2>3, <2>4, PowerPartsNext DEF ane_platform_probe, PmType
<1>9. CASE ane_wedge \/ ane_tm_recover
  <2>1. UNCHANGED <<boostVars, dvfsVars, pm>> /\ wedged' \in BOOLEAN
    BY <1>9 DEF ane_wedge, ane_tm_recover
  <2>2. BoostInv' /\ DvfsInv'
    BY <1>0, <2>1, PowerFrame
  <2>3. PmInv' /\ PmType'
    BY <1>0, <2>1 DEF PmInv, PmType, boostVars, dvfsVars
  <2> QED
    BY <2>2, <2>3, PowerPartsNext
<1> QED
  BY <1>1, <1>2, <1>3, <1>4, <1>5, <1>6, <1>7, <1>8, <1>9 DEF Power

LEMMA PowerStep == PowerInv /\ [Next]_powerVars => PowerInv'
<1> SUFFICES ASSUME PowerInv, [Next]_powerVars PROVE PowerInv'
  OBVIOUS
<1>0. BoostInv /\ DvfsInv /\ PmInv /\ PmType
  BY PowerParts
<1>1. CASE UNCHANGED powerVars
  <2>1. BoostInv' /\ DvfsInv'
    BY <1>0, <1>1, PowerFrame DEF powerVars
  <2>2. PmInv' /\ PmType'
    BY <1>0, <1>1 DEF PmInv, PmType, powerVars, boostVars, dvfsVars
  <2> QED
    BY <1>0, <2>1, <2>2, PowerPartsNext
<1>2. CASE Power
  BY <1>2, PowerSteps
<1>3. CASE /\ boost_tick \/ ane_boost_off_work
              \/ \E n \in 0 .. MaxIdle : boost_idle_ms_write(n)
           /\ UNCHANGED <<dvfsVars, pm, wedged>>
  <2>1. BoostInv' /\ DvfsInv'
    BY <1>0, <1>3, PowerFrame, BoostSteps
  <2>3. timer = Unarmed => timer' = Unarmed
    BY <1>3, SMTT(30) DEF boost_tick, ane_boost_off_work, boost_idle_ms_write, Unarmed
  <2>4. (~held => ~held') /\ (~on => ~on')
    BY <1>3, BoostSet DEF boost_tick, ane_boost_off_work, boost_idle_ms_write
  <2>2. PmInv'
    BY <1>0, <1>3, <2>3, <2>4 DEF PmInv, dvfsVars
  <2> QED
    BY <1>0, <1>3, <2>1, <2>2, PowerPartsNext DEF PmType
<1>4. CASE DvfsStep /\ UNCHANGED <<boostVars, pm, wedged>>
  <2>1. DvfsInv'
    BY <1>0, <1>4, RereadStep, RequestStep, ReadbackStep, ReleaseLevelStep,
       ReleaseRequestStep, ReleaseOffStep DEF DvfsStep
  <2> QED
    BY <1>0, <1>4, <2>1, PowerCall, PowerFrame, PowerPartsNext DEF PmType
<1>5. CASE DvfsEnv /\ UNCHANGED <<boostVars, pm, wedged>>
  BY <1>0, <1>5, EnvStep, EnvKeepsPm, PowerFrame, PowerPartsNext DEF PmType
<1> QED
  BY <1>1, <1>2, <1>3, <1>4, <1>5 DEF Next

-----------------------------------------------------------------------------
(* PowerInv holds in every state the driver's power management can reach. *)
THEOREM PowerInvariance == Spec => []PowerInv
  BY PowerStart, PowerStep, PTL DEF Spec

(* For every level, limit and idle time: the busy engine keeps its boost,  *)
(* the level is up only under this driver's request, the other clients of  *)
(* PS-REQ keep their bits, and ane_runtime_suspend and ane_platform_remove *)
(* of a device that is not wedged leave no level, no frequency request and *)
(* no armed work behind, whichever step of ane_dvfs_up failed and whatever *)
(* level word was found at power-up.                                       *)
THEOREM PowerSoundness == Spec => []PowerSound
<1>1. PowerInv => PowerSound
  <2> SUFFICES ASSUME PowerInv PROVE PowerSound
    OBVIOUS
  <2>1. LevelNeedsRequest
    BY DEF PowerInv, TypeOK, DvfsTypeOK, LevelNeedsRequest, LevelInv, WordInv
  <2>2. OthersKept
    BY DEF PowerInv, WordInv, OthersKept
  <2>3. PoweredDownAtZero
    BY DEF PowerInv, PoweredDownAtZero, PmInv, LevelInv
  <2> QED
    BY <2>1, <2>2, <2>3 DEF PowerSound, PowerInv
<1> QED
  BY <1>1, PowerInvariance, PTL

(* ane_dvfs_up, ane_dvfs_release: a command to the DVFS block names as its *)
(* previous level the one that is set, even if the parameter dvfs_level    *)
(* was written between the up and the release; before the driver's first   *)
(* write of the level word the command says 0, whatever the word is.       *)
THEOREM CommandNamesLevel == Spec => CommandFollowsLevel
<1>1. PowerInv /\ [Next]_powerVars =>
        [DVFS_CMD' # DVFS_CMD =>
            DVFS_CMD'[1] = IF boot.level = 0 THEN LEVEL ELSE 0]_dvfsVars
  <2> SUFFICES ASSUME PowerInv, Next, DVFS_CMD' # DVFS_CMD
               PROVE  DVFS_CMD'[1] = IF boot.level = 0 THEN LEVEL ELSE 0
    BY DEF powerVars, dvfsVars
  <2> USE DEF PowerInv, LevelInv, UpPcs
  <2>1. CASE Power
    <3>1. ane_dvfs_up
      BY <2>1 DEF Power, ane_runtime_resume, resumed, ane_runtime_suspend, suspended,
                  ane_submit, ane_wedge, ane_tm_recover, ane_platform_remove, removed,
                  ane_platform_probe, ane_dvfs_down, dvfsVars, hwWords
    <3> QED
      BY <3>1, SMTT(30) DEF ane_dvfs_up, MayUp
  <2>2. CASE UNCHANGED <<dvfsVars, pm, wedged>>
    BY <2>2 DEF dvfsVars
  <2>3. CASE DvfsStep
    <3>1. up_readback \/ release_level \/ release_off
      BY <2>3 DEF DvfsStep, up_reread, up_request, release_request, hwWords
    <3>2. CASE up_readback
      BY <3>2, SMTT(30) DEF up_readback
    <3>3. CASE release_level
      BY <3>3 DEF release_level
    <3>4. CASE release_off
      BY <3>4 DEF release_off
    <3> QED
      BY <3>1, <3>2, <3>3, <3>4
  <2>4. CASE DvfsEnv
    BY <2>4 DEF DvfsEnv, dvfs_level_write, pmp_restart, other_read, other_write,
                driverVars, hwWords
  <2> QED
    BY <2>1, <2>2, <2>3, <2>4 DEF Next
<1> QED
  BY <1>1, PowerInvariance, PTL DEF Spec, CommandFollowsLevel
=============================================================================
