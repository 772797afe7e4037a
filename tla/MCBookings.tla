----------------------------- MODULE MCBookings -----------------------------
(***************************************************************************)
(* Instances of the booking core for TLC.  An hour has one or two ticks;   *)
(* the tiers are scaled down to one hour so that a few ticks of clock      *)
(* cross every boundary.                                                   *)
(***************************************************************************)
EXTENDS BookingsProperties, TLC

CONSTANTS ann, bob, eve, desk, loft

Symmetric == Permutations(Requests)

\* One organisation and one room: ann is a member, eve the admin.
OneOrg == [u \in {ann, eve} |-> "acme"]
OneRoom == [m \in {desk} |-> "acme"]
OneRate == [m \in {desk} |-> 29]
TwoRates == [m \in {desk, loft} |-> IF m = desk THEN 29 ELSE 58]

\* Two organisations with a room each: ann and eve (admin) in one, bob (admin)
\* in the other.
TwoOrgs == [u \in {ann, bob, eve} |-> IF u = bob THEN "beta" ELSE "acme"]
RoomOfEach == [m \in {desk, loft} |-> IF m = loft THEN "beta" ELSE "acme"]

\* Bookings that overlap, touch and contain one another, one of which started a
\* tick before the clock stops; none of no hours is granted.
ExclusiveStarts == {1, 3}
UpToFourHours == {0, 2, 4}

\* Two bookings of an hour, of two ticks here, that share a tick.
RacingStarts == {3, 4}
OneHour == {2}

\* Durations the handler refuses beside the one it grants: negative, half an
\* hour, too long.
EarlyStart == {1}
RaceDurations == {-2, 1, 2, 6}
=============================================================================
