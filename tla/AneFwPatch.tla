----------------------------- MODULE AneFwPatch -----------------------------
(***************************************************************************)
(* The runtime patches of the M2 firmware image: the chip revision, the    *)
(* ASC tunables chosen by it, and the fields the driver writes into its    *)
(* own copy of the image as the boot loader would.  Source:                *)
(* ane/t6021/ane_fw_validate.h (the pinned images, their tables,           *)
(* ane_fw_apply_boot_patches) and ane_t6021_fw_patch of                    *)
(* ane/t6021/ane_t6021_fwload.c.                                           *)
(*                                                                         *)
(* Abstractions.  The image is its patched fields, each with the header    *)
(* the archive gives it ("pinned") or another one, and what was written to *)
(* it; the addresses and lengths are those of the source.  A field's value *)
(* is named, the tunables by their key.  Of the two eFuse words the        *)
(* instances keep the bits the decoder reads.                              *)
(***************************************************************************)
LOCAL INSTANCE Integers
LOCAL INSTANCE Sequences
LOCAL INSTANCE FiniteSetsExt

VARIABLES
    pc,     \* "revision", "keys", "base", "recs", "blk", "write", "end"
    cfg,    \* the device: [soc, fuse (the bits, or "none"), entry (the vector is latched, with an entry)]
    k,      \* [rev, key (index), err]
    hw      \* the staged copy: field -> [pinned, val, key]

vars == <<pc, cfg, k, hw>>

\* struct ane_fw_image: the fields that the patches use.
ane_fw_selene ==
    [text |-> \hc4000, data |-> \hc4000, filesize |-> \h3e8000, tunables_vm |-> \hdcd78,
     rtk_vm |-> <<\hca848, \hca9b3, \hca9bf, \hca9cb, \hca9db>>]
ane_fw_bia ==
    [text |-> \hb4000, data |-> \hb4000, filesize |-> \h3e8000, tunables_vm |-> \hccbb8,
     rtk_vm |-> <<\hba688, \hba7f3, \hba7ff, \hba80b, \hba81b>>]

\* struct ane_t602x_soc; rev 0 with fuse: the revision is read from the eFuses.
Soc(s) ==
    CASE s = "t6020" -> [fw |-> ane_fw_selene, keys |-> <<0>>, n |-> 24, rev |-> 1, fuse |-> FALSE]
      [] s = "t6021" -> [fw |-> ane_fw_selene, keys |-> <<16, 1, 0>>, n |-> 24, rev |-> 17, fuse |-> FALSE]
      [] s = "t6022" -> [fw |-> ane_fw_selene, keys |-> <<16, 1, 0>>, n |-> 24, rev |-> 17, fuse |-> FALSE]
      [] s = "t8112" -> [fw |-> ane_fw_bia, keys |-> <<16, 0>>, n |-> 23, rev |-> 0, fuse |-> TRUE]
Socs == {"t6020", "t6021", "t6022", "t8112"}

DATA_BASE_VM == \h423c
TUNABLES_MAX == 36
RecLen == <<8, 4, 4, 8, 8>>
Recs == {"stack_guard", "soc", "soc_revision", "cpu_pa", "wrapper_pa"}
RecNo(f) ==
    CASE f = "stack_guard" -> 1 [] f = "soc" -> 2 [] f = "soc_revision" -> 3
      [] f = "cpu_pa" -> 4 [] f = "wrapper_pa" -> 5
Fields == Recs \cup {"base", "blk"}

\* Bits 31:27 of the first word and the low bits of the second; "none" is no 8-byte window.
Fuses == [hi : 0..31, w1 : 0..3]
NoFuse == [hi |-> 0, w1 |-> -1]
Bug_fuse_revision(f) == (f.hi % 8) + 16 * ((f.hi \div 8) % 8)
ane_t8112_fuse_revision(f) == (f.hi % 8) + 16 * (((f.hi \div 8) + 4 * f.w1) % 8)

Archive == [f \in Fields |-> [pinned |-> TRUE, val |-> "archive", key |-> 0]]

Init ==
    /\ pc = "revision"
    /\ cfg \in [soc : Socs, fuse : Fuses \cup {NoFuse}, entry : BOOLEAN]
    /\ (Soc(cfg.soc).fuse \/ cfg.fuse = NoFuse)
    /\ hw \in {Archive} \cup {[Archive EXCEPT ![f].pinned = FALSE] : f \in Fields}
    /\ k = [rev |-> 0, key |-> 0, err |-> "none"]

T == Soc(cfg.soc)
Refuse(e) == pc' = "end" /\ k' = [k EXCEPT !.err = e]

ane_t6021_soc_revision ==
    /\ pc = "revision" /\ UNCHANGED <<cfg, hw>>
    /\ \/ T.fuse /\ cfg.fuse = NoFuse /\ Refuse("ENODEV")
       \/ T.fuse /\ cfg.fuse # NoFuse /\ Refuse("ENOMEM")         \* ioremap_np
       \/ /\ T.fuse => cfg.fuse # NoFuse
          /\ pc' = "keys"
          /\ k' = [k EXCEPT !.rev = IF T.fuse THEN ane_t8112_fuse_revision(cfg.fuse) ELSE T.rev]

\* The first entry whose key is not above the revision; the entries are sorted, highest first.
Bug_Chosen(keys, rev) == {i \in DOMAIN keys : keys[i] < rev}
Chosen(keys, rev) == {i \in DOMAIN keys : keys[i] <= rev}
check_keys ==
    /\ pc = "keys" /\ UNCHANGED <<cfg, hw>>
    /\ LET c == Chosen(T.keys, k.rev) IN
       IF c = {} \/ T.n > TUNABLES_MAX THEN Refuse("no tunables")
       ELSE pc' = "base" /\ k' = [k EXCEPT !.key = Min(c)]

check_base ==
    /\ pc = "base" /\ UNCHANGED <<cfg, hw>>
    /\ IF ~hw["base"].pinned THEN Refuse("base") ELSE pc' = "recs" /\ UNCHANGED k

\* A copy whose records are written as they are checked would be refused half patched.
Bug_check_records ==
    /\ pc = "recs" /\ UNCHANGED cfg
    /\ hw' = [f \in Fields |-> IF f \in Recs /\ hw[f].pinned THEN [hw[f] EXCEPT !.val = f] ELSE hw[f]]
    /\ IF \E f \in Recs : ~hw[f].pinned THEN Refuse("record") ELSE pc' = "blk" /\ UNCHANGED k
check_records ==
    /\ pc = "recs" /\ UNCHANGED <<cfg, hw>>
    /\ IF \E f \in Recs : ~hw[f].pinned THEN Refuse("record") ELSE pc' = "blk" /\ UNCHANGED k

check_tunables ==
    /\ pc = "blk" /\ UNCHANGED <<cfg, hw>>
    /\ IF ~hw["blk"].pinned THEN Refuse("block") ELSE pc' = "write" /\ UNCHANGED k

\* The base field gets the address of the image's DATA from where it runs.
exec_base == IF cfg.entry THEN "entry" ELSE "fw_iova"
Patched(f) ==
    [hw[f] EXCEPT !.val = IF f = "base" THEN exec_base ELSE f,
                  !.key = IF f = "blk" THEN T.keys[k.key] ELSE 0]
write_fields ==
    /\ pc = "write" /\ pc' = "end" /\ UNCHANGED <<cfg, k>>
    /\ hw' = [f \in Fields |-> Patched(f)]

Next ==
    \/ ane_t6021_soc_revision \/ check_keys \/ check_base \/ check_records \/ check_tunables
    \/ write_fields

Spec == Init /\ [][Next]_vars

-----------------------------------------------------------------------------
\* First byte and the byte after the last one of a field, its header included.
At(f) ==
    IF f = "base" THEN <<DATA_BASE_VM, DATA_BASE_VM + 8>>
    ELSE IF f = "blk" THEN <<T.fw.tunables_vm, T.fw.tunables_vm + 8 + 20 * T.n>>
    ELSE <<T.fw.rtk_vm[RecNo(f)], T.fw.rtk_vm[RecNo(f)] + 8 + RecLen[RecNo(f)]>>

(* ane_fw_apply_boot_patches is all or nothing: a refusal leaves the image *)
(* untouched, and otherwise every field has its value, the tunables those  *)
(* of the newest table the chip is not older than, for the revision its    *)
(* fuses hold.  No field reaches into another one or out of its segment.   *)
PatchWhole ==
    /\ pc = "end" /\ k.err # "none" => \A f \in Fields : hw[f].val = "archive"
    /\ pc = "end" /\ k.err = "none" =>
          /\ \A f \in Fields : hw[f].pinned /\ hw[f].val = IF f = "base" THEN exec_base ELSE f
          /\ hw["blk"].key = Max({T.keys[i] : i \in DOMAIN T.keys} \cap (0..k.rev))
          /\ T.fuse => /\ k.rev % 8 = cfg.fuse.hi % 8
                       /\ k.rev \div 16 = (cfg.fuse.hi \div 8) + 4 * (cfg.fuse.w1 % 2)
    /\ \A f, g \in Fields : f # g => At(f)[2] <= At(g)[1] \/ At(g)[2] <= At(f)[1]
    /\ \A f \in Fields : IF f = "base" THEN At(f)[2] <= T.fw.text
                          ELSE T.fw.data <= At(f)[1] /\ At(f)[2] <= T.fw.data + T.fw.filesize
=============================================================================
