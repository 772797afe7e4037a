---------------------------- MODULE ServiceCalls ----------------------------
(***************************************************************************)
(* The handlers that call the locked services: a creation takes a code,    *)
(* records itself in the statistics and notifies; a cancellation records   *)
(* itself and notifies; the statistics endpoint reads.                     *)
(***************************************************************************)
CONSTANTS Creates, Cancels, Gets, None

ASSUME CallsAssumption ==
    /\ Creates \cap Cancels = {} /\ Gets \cap (Creates \cup Cancels) = {}
    /\ None \notin Creates \cup Cancels \cup Gets

Calls == Creates \cup Cancels \cup Gets
=============================================================================
