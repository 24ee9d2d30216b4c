------------------------------ MODULE AnePages ------------------------------
(***************************************************************************)
(* How ane.ko puts a buffer into the engine's address space and takes it   *)
(* out again, page by page, over an I/O page table that may hold strays: a *)
(* previous instance of the module, or an unmap that was lost, leaves      *)
(* valid entries no node owns.  Source: ane/src/ane_drv.c 112-325 and      *)
(* 1019-1057.                                                              *)
(*                                                                         *)
(* Addresses are page numbers; the aperture alone is in bytes, for the     *)
(* rounding of ane_iommu_domain_init.  Everything between the two ends of  *)
(* iommu_lock is still split into the calls made to the IOMMU layer, which *)
(* the engine can observe and any of which can fail.                       *)
(*                                                                         *)
(* The node is reserved with a 32-bit size, and the page loop has a 32-bit *)
(* offset, while the batch and the unmap use the full size: a buffer of    *)
(* 4 GiB or more, which nothing refuses, runs past its node.  The claims   *)
(* hold until such a buffer is given a node (wide).                        *)
(***************************************************************************)
EXTENDS Integers, FiniteSets, FiniteSetsExt

CONSTANTS
    BOs,            \* buffer objects
    NPages,         \* NPages[b]: bo->npages
    PageSize,       \* bytes, small
    U32Max,         \* stands for 2^32 - 1
    Apertures,      \* the domain geometries probe may meet: [start, end]
    MaxLost         \* bound: unmaps the IOMMU layer loses

\* What the proofs use of the constants: an object has at least one page, a
\* page at least one byte, and geometries are pairs of addresses.
PagesAssumption ==
    /\ BOs # {}
    /\ NPages \in [BOs -> Nat \ {0}]
    /\ PageSize \in Nat \ {0}
    /\ U32Max \in Nat
    /\ Apertures \subseteq [start : Nat, end : Nat]
    /\ MaxLost \in Nat

VARIABLES
    ap,             \* domain->geometry
    mmlo, mmhi,     \* the drm_mm range, in pages: mmlo .. mmhi - 1
    pte,            \* the I/O page table: page number -> page, NoPte or Stray
    mm,             \* mm[b]: the start of b's drm_mm node, 0 when there is none
    op,             \* the map call in progress
    lost,           \* unmaps lost so far
    debris,         \* history: entries left behind by a lost unmap or a
                    \* previous instance and not cleared since
    wide            \* history: a buffer of 4 GiB or more had a node

pageVars == <<ap, mmlo, mmhi, pte, mm, op, lost, debris, wide>>

NoPte == <<>>
Stray == <<"stray">>

\* The page numbers the IOMMU layer accepts; outside them a map fails and an
\* unmap finds nothing.
Places == 0 .. U32Max \div PageSize

\* A size or an offset of n pages in 32 bits of bytes: (u32)n << shift.
Bytes32(n) == n % ((U32Max + 1) \div PageSize)
Wide(b) == NPages[b] >= (U32Max + 1) \div PageSize

\* b's drm_mm node, and the range its size_t size covers.
NodeOf(b, s) == s .. s + Bytes32(NPages[b]) - 1
RangeOf(b, s) == s .. s + NPages[b] - 1
Live == {b \in BOs : mm[b] # 0 /\ ~(op.pc # "idle" /\ op.bo = b)}
Owned == UNION {NodeOf(b, mm[b]) : b \in {c \in BOs : mm[c] # 0}}
Idle == [pc |-> "idle", bo |-> CHOOSE b \in BOs : TRUE, i |-> 0,
         healed |-> FALSE, slipped |-> FALSE, err |-> "ok"]

\* ane_iommu_domain_init: the window the allocator gets, as <<lo, hi>> in
\* bytes, or <<>> for -EINVAL.
Bug_Window_NoZeroPage(a) ==
    LET lo == a.start
        hi == ((Min({a.end, U32Max}) + 1) \div PageSize) * PageSize
        up == ((lo + PageSize - 1) \div PageSize) * PageSize
    IN IF up >= hi THEN <<>> ELSE <<up, hi>>

Window(a) ==
    LET lo == Max({a.start, PageSize})
        hi == ((Min({a.end, U32Max}) + 1) \div PageSize) * PageSize
        up == ((lo + PageSize - 1) \div PageSize) * PageSize
    IN IF lo >= hi \/ up >= hi THEN <<>> ELSE <<up, hi>>

PagesInit ==
    /\ ap \in Apertures
    /\ mmlo = 0 /\ mmhi = 0
    /\ pte \in [Places -> {NoPte, Stray}]
    /\ mm = [b \in BOs |-> 0]
    /\ op = [Idle EXCEPT !.pc = "unbound"]
    /\ lost = 0
    /\ debris = {x \in Places : pte[x] = Stray}
    /\ wide = FALSE

\* The IOMMU layer, external: iommu_unmap of the page numbers S, of which it
\* loses L.
Unmap(S, L) ==
    /\ L \subseteq {x \in S : pte[x] # NoPte}
    /\ lost + Cardinality(L) <= MaxLost
    /\ lost' = lost + Cardinality(L)
    /\ pte' = [x \in Places |-> IF x \in S \ L THEN NoPte ELSE pte[x]]
    /\ debris' = (debris \ S) \cup L

\* Probe: the window, and once the engine is powered ane_iommu_purge_stale
\* over the still empty allocator.  A bad geometry fails the probe.
ane_iommu_domain_init ==
    /\ op.pc = "unbound"
    /\ IF Window(ap) = <<>>
       THEN op' = [op EXCEPT !.pc = "failed"] /\ UNCHANGED <<mmlo, mmhi>>
       ELSE /\ op' = [op EXCEPT !.pc = "purge"]
            /\ mmlo' = Window(ap)[1] \div PageSize
            /\ mmhi' = Window(ap)[2] \div PageSize
    /\ UNCHANGED <<ap, pte, mm, lost, debris, wide>>

\* ane_iommu_clear_range over every hole: every valid entry in the range.
ane_iommu_purge_stale ==
    /\ op.pc = "purge"
    /\ op' = Idle
    /\ \E L \in SUBSET (mmlo .. mmhi - 1) : Unmap(mmlo .. mmhi - 1, L)
    /\ UNCHANGED <<ap, mmlo, mmhi, mm, wide>>

\* ane_iommu_map_pages up to the choice of the path: the node is inserted in
\* some hole (no hole, size 0, or no memory for the node changes nothing).
ane_iommu_map_pages(b, s, batch) ==
    /\ op.pc = "idle"
    /\ mm[b] = 0
    /\ Bytes32(NPages[b]) # 0
    /\ NodeOf(b, s) \subseteq (mmlo .. mmhi - 1) \ Owned
    /\ mm' = [mm EXCEPT ![b] = s]
    /\ op' = [Idle EXCEPT !.bo = b, !.pc = IF batch THEN "batch" ELSE "each"]
    /\ wide' = (wide \/ Wide(b))
    /\ UNCHANGED <<ap, mmlo, mmhi, pte, lost, debris>>

\* The shared error tail: the node goes back and the call returns err.
Fail(err) ==
    /\ mm' = [mm EXCEPT ![op.bo] = 0]
    /\ op' = [op EXCEPT !.pc = "idle", !.err = err]

\* ane_iommu_map_each: page i maps; or fails for want of memory or outside the
\* table; or meets a valid entry, which is cleared once per page and retried.
Bug_each_NoHeal(x) == FALSE

HealEach(x) == ~op.healed

MapEach ==
    /\ op.pc = "each"
    /\ LET b == op.bo
           x == mm[b] + Bytes32(op.i)
           taken == x \in Places /\ pte[x] # NoPte
       IN \/ /\ x \in Places /\ ~taken
             /\ pte' = [pte EXCEPT ![x] = <<b, op.i>>]
             /\ op' = IF op.i + 1 = NPages[b] THEN [op EXCEPT !.pc = "idle", !.err = "ok"]
                      ELSE [op EXCEPT !.i = @ + 1, !.healed = FALSE]
             /\ UNCHANGED <<mm, lost, debris>>
          \/ /\ ~taken
             /\ op' = [op EXCEPT !.pc = "rollback", !.err = "ENOMEM"]
             /\ UNCHANGED <<mm, pte, lost, debris>>
          \/ /\ taken /\ HealEach(x)
             /\ \E L \in SUBSET {x} :
                   Unmap({x}, L) /\ op' = [op EXCEPT !.healed = TRUE, !.slipped = @ \/ L # {}]
             /\ UNCHANGED mm
          \/ /\ taken /\ ~HealEach(x)
             /\ op' = [op EXCEPT !.pc = "rollback", !.err = "EEXIST"]
             /\ UNCHANGED <<mm, pte, lost, debris>>
    /\ UNCHANGED <<ap, mmlo, mmhi, wide>>

\* The rollback loop: pages i - 1 down to 0, then the error tail.
Bug_RollbackPage == mm[op.bo] + Bytes32(op.i - 1) - 1

RollbackPage == mm[op.bo] + Bytes32(op.i - 1)

Rollback ==
    /\ op.pc = "rollback"
    /\ IF op.i > 0
       THEN /\ \E L \in SUBSET {RollbackPage} : Unmap({RollbackPage}, L)
            /\ op' = [op EXCEPT !.i = @ - 1]
            /\ UNCHANGED mm
       ELSE Fail(op.err) /\ UNCHANGED <<pte, lost, debris>>
    /\ UNCHANGED <<ap, mmlo, mmhi, wide>>

\* ane_iommu_map_batch.  iommu_map_sgtable, external, refuses a range with a
\* valid entry, fails having undone what it did, maps everything, or maps a
\* part, with holes.
Bug_ShortSize(b, n) == TRUE

ShortIsError(b, n) == n = NPages[b]

MapBatch ==
    /\ op.pc = "batch"
    /\ LET b == op.bo
           S == RangeOf(b, mm[b]) \cap Places
           mapped(P) == [x \in Places |-> IF x \in P THEN <<b, x - mm[b]>> ELSE pte[x]]
       IN \/ /\ \A x \in S : pte[x] = NoPte
             /\ \E P \in SUBSET S :
                  /\ pte' = mapped(P)
                  /\ op' = IF ShortIsError(b, Cardinality(P))
                           THEN [op EXCEPT !.pc = "idle", !.err = "ok"]
                           ELSE [op EXCEPT !.pc = "short"]
             /\ UNCHANGED <<mm, lost, debris>>
          \/ /\ Fail("ENOMEM")
             /\ UNCHANGED <<pte, lost, debris>>
          \/ /\ \E x \in S : pte[x] # NoPte
             /\ ~op.healed
             /\ \E L \in SUBSET S :
                   Unmap(S, L) /\ op' = [op EXCEPT !.healed = TRUE, !.slipped = @ \/ L # {}]
             /\ UNCHANGED mm
          \/ /\ \E x \in S : pte[x] # NoPte
             /\ op.healed
             /\ Fail("EEXIST")
             /\ UNCHANGED <<pte, lost, debris>>
    /\ UNCHANGED <<ap, mmlo, mmhi, wide>>

\* A short map: every page of the range is cleared one by one.
ClearShort ==
    /\ op.pc = "short"
    /\ LET S == RangeOf(op.bo, mm[op.bo]) \cap Places IN \E L \in SUBSET S : Unmap(S, L)
    /\ Fail("EIO")
    /\ UNCHANGED <<ap, mmlo, mmhi, wide>>

\* ane_iommu_unmap_pages: one call for the range, which unmaps a prefix of k
\* pages (short of the range when it loses page k), then the pages from k on
\* one by one.
Bug_FirstOfRest(s, k) == s + k + 1

FirstOfRest(s, k) == s + k

ane_iommu_unmap_pages(b) ==
    /\ op.pc = "idle"
    /\ mm[b] # 0
    /\ LET s == mm[b]
           n == NPages[b]
       IN \E k \in {j \in 0 .. n : \A x \in s .. s + j - 1 : x \in Places /\ pte[x] # NoPte} :
            LET rest == (FirstOfRest(s, k) .. s + n - 1) \cap Places
            IN /\ k < n => lost < MaxLost
               /\ \E L \in SUBSET rest : Unmap((s .. s + k - 1) \cup rest, L)
    /\ mm' = [mm EXCEPT ![b] = 0]
    /\ op' = Idle
    /\ UNCHANGED <<ap, mmlo, mmhi, wide>>

PagesNext ==
    \/ ane_iommu_domain_init
    \/ ane_iommu_purge_stale
    \/ \E b \in BOs, s \in Places, batch \in BOOLEAN : ane_iommu_map_pages(b, s, batch)
    \/ MapEach
    \/ Rollback
    \/ MapBatch
    \/ ClearShort
    \/ \E b \in BOs : ane_iommu_unmap_pages(b)

PagesSpec == PagesInit /\ [][PagesNext]_pageVars

-----------------------------------------------------------------------------
PagesTypeOK ==
    /\ ap \in Apertures
    /\ {mmlo, mmhi} \subseteq Nat
    /\ pte \in [Places -> {NoPte, Stray} \cup (BOs \X Nat)]
    /\ mm \in [BOs -> Places]
    /\ op \in [pc : {"unbound", "failed", "purge", "idle", "each", "rollback", "batch", "short"},
              bo : BOs, i : Nat, healed : BOOLEAN, slipped : BOOLEAN,
              err : {"ok", "ENOMEM", "EEXIST", "EIO"}]
    /\ lost \in 0 .. MaxLost
    /\ debris \subseteq Places
    /\ wide \in BOOLEAN

(* A buffer whose map call succeeded is translated completely and exactly, *)
(* inside the domain's aperture, below 4 GiB and never at page 0, whatever *)
(* strays, lost unmaps, rollbacks and neighbours there were - until a      *)
(* buffer of 4 GiB or more, whose node is too short, is mapped.            *)
LiveExact ==
    ~wide => \A b \in Live :
       /\ \A i \in 0 .. NPages[b] - 1 : pte[mm[b] + i] = <<b, i>>
       /\ mm[b] > 0
       /\ mm[b] * PageSize >= ap.start
       /\ (mm[b] + NPages[b]) * PageSize - 1 <= Min({ap.end, U32Max})

(* Between calls, a valid entry outside every node was left there by an    *)
(* unmap the IOMMU layer lost, or lies outside the allocator's range: no   *)
(* failed map, short map or rollback leaves an entry of its own behind,    *)
(* until a buffer of 4 GiB or more is mapped.                              *)
OnlyDebris ==
    ~wide /\ op.pc = "idle" =>
        \A x \in (mmlo .. mmhi - 1) \ Owned : pte[x] # NoPte => x \in debris

(* A map call returns -EEXIST only if the unmap that should have cleared   *)
(* the stray was itself lost: one stray never fails later buffers for the  *)
(* rest of the session, until a buffer of 4 GiB or more is mapped.         *)
StrayHealed == ~wide /\ op.pc = "idle" /\ op.err = "EEXIST" => op.slipped

(* What the engine sees of the buffers of completed calls.                 *)
LiveRange == UNION {RangeOf(b, mm[b]) : b \in Live}
Translation == [x \in LiveRange \cap Places |-> pte[x]]

=============================================================================
