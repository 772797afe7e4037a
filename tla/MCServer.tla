------------------------------ MODULE MCServer ------------------------------
(***************************************************************************)
(* Two creations, a cancellation and a read of the statistics, on two      *)
(* threads and two connections.  The two rooms are interchangeable, and so *)
(* are the two creations: one of each set of equal cases is enough.  The   *)
(* read changes nothing, so its room matters to nobody.                    *)
(***************************************************************************)
EXTENDS Server

CONSTANTS c1, c2, x1, g1, desk, loft

MCInit ==
    /\ Init
    /\ room[x1] = desk /\ room[g1] = desk
    /\ room[c1] = loft => room[c2] = loft

MCSpec == MCInit /\ [][Next]_vars /\ WF_vars(Next)
=============================================================================
