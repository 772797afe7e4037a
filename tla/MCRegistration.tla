--------------------------- MODULE MCRegistration ---------------------------
(***************************************************************************)
(* Registrations for TLC: enough of them to found, to lose the race for    *)
(* the organisation and to lose the race for a name.                       *)
(***************************************************************************)
EXTENDS Registration, TLC

Symmetric == Permutations(Requests)
=============================================================================
