---------------------------- MODULE MCBookingList ----------------------------
(***************************************************************************)
(* Three bookings of one administrator, two of them at one start; one of a *)
(* colleague, and one of the administrator of another organisation.  One   *)
(* of the rooms is not his to book.                                        *)
(***************************************************************************)
EXTENDS BookingList

CONSTANTS a1, a2, a3, bobs, doras, away,  \* bookings
          ann, bob, dora, desk, loft, annex

MCBookings == {a1, a2, a3, bobs, doras, away}
MCOwner == [b \in MCBookings |->
    IF b \in {a1, a2, a3, away} THEN ann ELSE IF b = bobs THEN bob ELSE dora]
MCRoom == [b \in MCBookings |->
    IF b \in {a1, a2, bobs} THEN desk ELSE IF b = a3 THEN loft ELSE annex]
MCStart == [b \in MCBookings |-> IF b = a1 THEN 2 ELSE 1]
MCUserOrg == [u \in {ann, bob, dora} |-> IF u = dora THEN "other" ELSE "one"]
MCRoomOrg == [m \in {desk, loft, annex} |-> IF m = annex THEN "other" ELSE "one"]
=============================================================================
