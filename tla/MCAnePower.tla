----------------------------- MODULE MCAnePower -----------------------------
(* AnePower for TLC: one clock level above 0, one time-out.  A block found *)
(* on, or a request found set, keeps the driver from ever raising a level: *)
(* those boots are tried one at a time.                                    *)
EXTENDS AnePower

MCInit ==
    /\ Init
    /\ DVFS_ON = 1 => LEVEL = 0 /\ PS_REQ = {}
    /\ PS_REQ # {} => LEVEL = 0
    /\ ~Locked => LEVEL = 0

MCSpec == MCInit /\ [][Next]_powerVars /\ Fairness

=============================================================================
