------------------------------ MODULE AneRaise ------------------------------
(***************************************************************************)
(* ane_pdraise.c and ane_t6021_venc.c (ane/h13): modules that hold named   *)
(* power domains up through a dummy device each.  Both may be loaded at    *)
(* the same time and name the same domains.                                *)
(*                                                                         *)
(* Abstractions.  A domain is its label; the `domains` parameter is one of *)
(* Lists, with "" for an empty token and labels no node carries.  A domain *)
(* is on while some device of it holds a runtime PM reference.             *)
(***************************************************************************)
LOCAL INSTANCE Integers
LOCAL INSTANCE Sequences

CONSTANTS
    Labels,     \* the labels of the pwrstate nodes
    Lists,      \* the values of the parameter
    MAX_PD

VARIABLES
    pc,     \* of each module: "out", "loop", "cleanup", "loaded"
    cfg,    \* the machine has an apple,t6021-ane node
    k,      \* of each module: [toks (left), pd (records), err]
    hw      \* the domains up, as <<module, place>> holders of each

vars == <<pc, cfg, k, hw>>
Modules == {"pdraise", "venc"}
Idle == [toks |-> <<>>, pd |-> <<>>, err |-> FALSE]

Init ==
    /\ pc = [m \in Modules |-> "out"] /\ cfg \in BOOLEAN
    /\ k = [m \in Modules |-> Idle]
    /\ hw = [l \in Labels |-> {}]

Goto(m, s) == pc' = [pc EXCEPT ![m] = s]

ane_pdraise_init(m) ==
    /\ pc[m] = "out" /\ (m = "venc" => cfg)
    /\ \E toks \in Lists : k' = [k EXCEPT ![m].toks = toks]
    /\ Goto(m, "loop") /\ UNCHANGED <<cfg, hw>>

\* One token: empty ones are skipped; a full table, an unknown label, and a
\* failed registration, attachment or resume end the loop.  The record counts
\* from the registration on.
Record(l, attached, powered) == [label |-> l, attached |-> attached, powered |-> powered]
Fail(m, pds) == k' = [k EXCEPT ![m].err = TRUE, ![m].pd = pds] /\ Goto(m, "cleanup") /\ UNCHANGED hw
raise(m) ==
    /\ pc[m] = "loop" /\ k[m].toks # <<>>
    /\ LET l == Head(k[m].toks)
           pd == k[m].pd
       IN \/ l = "" /\ k' = [k EXCEPT ![m].toks = Tail(@)] /\ UNCHANGED <<pc, hw>>
          \/ l # "" /\ (Len(pd) = MAX_PD \/ l \notin Labels) /\ Fail(m, pd)
          \/ l # "" /\ Len(pd) < MAX_PD /\ l \in Labels /\
             \/ Fail(m, pd)
             \/ \E attached \in BOOLEAN : Fail(m, Append(pd, Record(l, attached, FALSE)))
             \/ /\ k' = [k EXCEPT ![m].toks = Tail(@), ![m].pd = Append(pd, Record(l, TRUE, TRUE))]
                /\ hw' = [hw EXCEPT ![l] = @ \cup {<<m, Len(pd) + 1>>}] /\ UNCHANGED pc
    /\ UNCHANGED cfg
raised(m) ==
    /\ pc[m] = "loop" /\ k[m].toks = <<>> /\ Goto(m, "loaded") /\ UNCHANGED <<cfg, k, hw>>
ane_pdraise_exit(m) == pc[m] = "loaded" /\ Goto(m, "cleanup") /\ UNCHANGED <<cfg, k, hw>>

\* The last record first: drop the reference, detach, unregister.
Bug_Last(pd) == 1
Last(pd) == Len(pd)
ane_pdraise_cleanup(m) ==
    /\ pc[m] = "cleanup" /\ UNCHANGED cfg
    /\ IF k[m].pd = <<>> THEN Goto(m, "out") /\ k' = [k EXCEPT ![m] = Idle] /\ UNCHANGED hw
       ELSE LET n == Last(k[m].pd)
                r == k[m].pd[n]
            IN /\ hw' = IF r.powered THEN [hw EXCEPT ![r.label] = @ \ {<<m, n>>}] ELSE hw
               /\ k' = [k EXCEPT ![m].pd = SubSeq(@, 1, n - 1) \o SubSeq(@, n + 1, Len(@))]
               /\ UNCHANGED pc

Next == \E m \in Modules :
    ane_pdraise_init(m) \/ raise(m) \/ raised(m) \/ ane_pdraise_exit(m) \/ ane_pdraise_cleanup(m)
Spec == Init /\ [][Next]_vars

\* What a module holds up is at every moment a prefix of its list, parents
\* before children on the way up and after them on the way down; a loaded
\* module holds every domain it named, and one that is out, also after a
\* failure in the middle, holds none, whatever the other module does.
RaisedInOrder ==
    \A m \in Modules :
        LET pd == k[m].pd
            up == {i \in 1..Len(pd) : \E l \in Labels : <<m, i>> \in hw[l]}
            mine == {h \in UNION {hw[l] : l \in Labels} : h[1] = m}
        IN /\ \A i \in up : 1..i \subseteq up /\ <<m, i>> \in hw[pd[i].label]
           /\ mine = {<<m, i>> : i \in up}
           /\ pc[m] = "loaded" => up = 1..Len(pd)
           /\ pc[m] = "out" => mine = {}
====
