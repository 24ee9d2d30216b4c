---------------------------- MODULE AneT6021Prep ----------------------------
(***************************************************************************)
(* ane/t6021/ane_t6021_boot.h: what the boot sequence of the M2 firmware   *)
(* computes.  The fold of the image address into the reset vector, the     *)
(* sizes the firmware's scratch words ask for, the three surfaces, the     *)
(* init header and the two words that publish it.                          *)
(*                                                                         *)
(* Abstractions.  A 64-bit address of the vector fold is the set of its    *)
(* bits that are set.  A firmware word has W values and wraps; a device    *)
(* address splits into halves of Half values.  The allocator returns any   *)
(* unused address or none; an address inside the firmware alias is handed  *)
(* back by ane_boot_alloc().  The preflight flags are constants of the     *)
(* build, all true.                                                        *)
(***************************************************************************)
LOCAL INSTANCE Integers
LOCAL INSTANCE FiniteSets

CONSTANTS
    W,          \* values of a scratch word
    Band,       \* ANE_T6021_BOOT_IPC_REQ_THRESHOLD
    Page,       \* the DART page
    IpcCeiling, HeapFloor, HeapCeiling,
    Dvas, Alias, Half,
    Bits        \* the address bits the instances look at

VARIABLES
    pc,     \* "fold", "size", "pool", "ipc", "heap", "fill", "own", "end"
    cfg,    \* what the firmware wrote: [s0, s1, s3]; the image address [iova]; boot_prevent_nap [nap]
    ane,    \* boot_pool, boot_ipc, boot_heap and the sizes, of struct ane_t6021
    k,      \* struct ane_t6021_boot_allocs, the vector, the header, the published words, the result
    hw      \* the DMA memory that is allocated

vars == <<pc, cfg, ane, k, hw>>
Word == 0..(W - 1)
NoHeader == [ipc |-> 0, pool |-> 0, heap |-> 0, heap_size |-> 0, ordinal |-> 0, nap |-> FALSE]
Nothing == [pool |-> 0, ipc |-> 0, heap |-> 0, ipc_size |-> 0, heap_size |-> 0]
Zeroed == [a |-> Nothing, header |-> NoHeader, lo |-> 0, hi |-> 0, rvbar |-> {}, err |-> "none"]

Init ==
    /\ pc = "fold"
    /\ cfg \in [s0 : Word, s1 : Word, s3 : Word, iova : {{}}, nap : BOOLEAN]
             \cup [s0 : {0}, s1 : {0}, s3 : {0}, iova : SUBSET Bits, nap : {FALSE}]
    /\ ane = Nothing /\ k = Zeroed /\ hw = {}

(***************************************************************************)
(* The reset vector: the mask drops bits 0 to 10, 48 and 55, the base sets *)
(* bits 0, 48 and 55.                                                      *)
(***************************************************************************)
Masked == (0..10) \cup {48, 55}
rvbar_compose(a) == {0, 48, 55} \cup (a \ Masked)
rvbar_entry_bits(a) == a \ Masked
Bug_rvbar_entry_ok(a) == a \cap (0..10) = {}
rvbar_entry_ok(a) == a \cap Masked = {}

fold ==
    /\ pc = "fold" /\ UNCHANGED <<cfg, ane, hw>>
    /\ IF rvbar_entry_ok(cfg.iova)
       THEN k' = [k EXCEPT !.rvbar = rvbar_compose(cfg.iova)] /\ pc' = "size"
       ELSE k' = [k EXCEPT !.err = "EINVAL"] /\ pc' = "end"

(***************************************************************************)
(* Sizes.  The ordinal is the captured word plus one, in the word's width. *)
(***************************************************************************)
Ordinal == (cfg.s1 + 1) % W
MaxOf(a, b) == IF a > b THEN a ELSE b
ipc_size == MaxOf(Page, Ordinal)
Refused == -1
Bug_heap_size == IF cfg.s3 = 0 THEN 0 ELSE MaxOf(cfg.s3, HeapFloor)
heap_size == IF cfg.s3 = 0 THEN 0 ELSE IF cfg.s3 > HeapCeiling THEN Refused ELSE MaxOf(cfg.s3, HeapFloor)

Fails(e) == k' = [k EXCEPT !.err = e] /\ pc' = "own"

\* The band of the request word, the IPC size and the heap size; the IPC size
\* is recorded before it is refused.
sizes ==
    /\ pc = "size" /\ UNCHANGED <<cfg, ane, hw>>
    /\ CASE cfg.s0 >= Band -> Fails("EPROTO")
         [] cfg.s0 < Band /\ (ipc_size > IpcCeiling \/ heap_size = Refused) ->
              k' = [k EXCEPT !.a.ipc_size = ipc_size, !.err = "E2BIG"] /\ pc' = "own"
         [] OTHER ->
              k' = [k EXCEPT !.a.ipc_size = ipc_size, !.a.heap_size = heap_size] /\ pc' = "pool"

(***************************************************************************)
(* The surfaces, in the order pool, IPC, heap.  A failure keeps what was   *)
(* allocated: the core is running.                                         *)
(***************************************************************************)
Bug_ane_boot_alloc(d) == d \in Dvas \ hw
ane_boot_alloc(d) == d \in Dvas \ (hw \cup Alias)
Surface(s, next) ==
    /\ pc = s /\ UNCHANGED <<cfg, ane>>
    /\ \/ \E d \in Dvas :
            /\ ane_boot_alloc(d)
            /\ hw' = hw \cup {d} /\ pc' = next
            /\ k' = [k EXCEPT !.a[s] = d]
       \/ Fails("ENOMEM") /\ UNCHANGED hw

alloc_pool == Surface("pool", "ipc")
alloc_ipc == Surface("ipc", IF k.a.heap_size = 0 THEN "fill" ELSE "heap")
alloc_heap == Surface("heap", "fill")

\* The header names what the allocator returned, never the static sources.
Bug_init_struct_fill ==
    [ipc |-> 0, pool |-> 0, heap |-> k.a.heap, heap_size |-> k.a.heap_size, ordinal |-> Ordinal, nap |-> FALSE]
init_struct_fill ==
    [ipc |-> k.a.ipc, pool |-> k.a.pool, heap |-> k.a.heap, heap_size |-> k.a.heap_size,
     ordinal |-> Ordinal, nap |-> FALSE]
scratch64_split(d) == <<d % Half, d \div Half>>
scratch64_join(lo, hi) == hi * Half + lo

publish ==
    /\ pc = "fill" /\ pc' = "own" /\ UNCHANGED <<cfg, ane, hw>>
    /\ k' = [k EXCEPT !.header = init_struct_fill, !.err = "0",
                      !.lo = scratch64_split(k.a.pool)[1], !.hi = scratch64_split(k.a.pool)[2]]

\* The device owns the surfaces on every path, the failing ones included.
Bug_Owned == IF k.err = "0" THEN k.a ELSE Nothing
Owned == k.a
boot_prepare ==
    /\ pc = "own" /\ pc' = "end" /\ UNCHANGED <<cfg, hw>>
    /\ ane' = Owned
    /\ k' = [k EXCEPT !.header.nap = k.err = "0" /\ cfg.nap, !.a = Nothing]

Next == fold \/ sizes \/ alloc_pool \/ alloc_ipc \/ alloc_heap \/ publish \/ boot_prepare
Spec == Init /\ [][Next]_vars

\* Whatever the firmware wrote: a refused request allocated nothing; after
\* the call the device names every surface that was allocated, the ones of a
\* failed call included; none lies in the firmware alias.  On success the
\* sizes cover what was asked for, wrapped ordinal included, under their
\* ceilings; the header names exactly those surfaces; the published words
\* are the pool's address; and the vector enters the image where it was
\* staged.
PrepSound ==
    /\ hw \cap Alias = {}
    /\ k.err \in {"EINVAL", "EPROTO", "E2BIG"} => hw = {}
    /\ pc = "end" => hw = {ane.pool, ane.ipc, ane.heap} \ {0}
    /\ k.err = "0" => rvbar_entry_bits(k.rvbar) = cfg.iova
    /\ pc = "end" /\ k.err = "0" =>
        /\ k.header.ipc = ane.ipc /\ k.header.pool = ane.pool /\ k.header.heap = ane.heap
        /\ Cardinality(hw) = IF cfg.s3 = 0 THEN 2 ELSE 3
        /\ (ane.heap = 0) <=> (cfg.s3 = 0)
        /\ ane.ipc_size \in Page..IpcCeiling /\ ane.ipc_size >= k.header.ordinal
        /\ ane.heap_size >= cfg.s3 /\ ane.heap_size <= MaxOf(HeapFloor, HeapCeiling)
        /\ scratch64_join(k.lo, k.hi) = k.header.pool
====
