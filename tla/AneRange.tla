------------------------------ MODULE AneRange ------------------------------
(***************************************************************************)
(* What the buffer mapping of ane.ko promises its callers: a buffer is     *)
(* either absent from the engine's address space or completely present in  *)
(* it, at a contiguous range of its own, and no operation on one buffer    *)
(* changes the translation of another.  AnePages shows that the page-wise  *)
(* code of ane/src/ane_drv.c implements this.                              *)
(***************************************************************************)
EXTENDS Integers, Functions

CONSTANTS BOs,     \* buffer objects
          NPages,  \* NPages[b]: the length of buffer b in pages
          Places   \* page numbers of the engine's address space

VARIABLE tr        \* the translation: a function from page numbers to pages

\* The pages of buffer b.
PagesOf(b) == {<<b, i>> : i \in 0 .. NPages[b] - 1}

\* Buffer b laid out from page number s on.
Layout(b, s) == [x \in s .. s + NPages[b] - 1 |-> <<b, x - s>>]

RangeInit == tr = [x \in {} |-> <<>>]

\* A buffer that is not present appears, whole, on page numbers nobody has.
RangeMap(b) ==
    /\ PagesOf(b) \cap Range(tr) = {}
    /\ \E s \in Places :
         /\ DOMAIN Layout(b, s) \subseteq Places \ DOMAIN tr
         /\ tr' = [x \in DOMAIN tr \cup DOMAIN Layout(b, s) |->
                     IF x \in DOMAIN tr THEN tr[x] ELSE Layout(b, s)[x]]

\* A present buffer disappears, whole.
RangeUnmap(b) ==
    /\ PagesOf(b) \subseteq Range(tr)
    /\ tr' = Restrict(tr, {x \in DOMAIN tr : tr[x] \notin PagesOf(b)})

RangeNext == tr' # tr /\ \E b \in BOs : RangeMap(b) \/ RangeUnmap(b)

RangeSpec == RangeInit /\ [][RangeNext]_tr

=============================================================================
