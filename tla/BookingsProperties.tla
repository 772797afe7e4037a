------------------------- MODULE BookingsProperties -------------------------
(***************************************************************************)
(* What the booking core owes its users.  The README promises the plain    *)
(* form of several of these (no double booking, three bookings a member,   *)
(* one refund); the code keeps the plain form when handlers do not         *)
(* interfere (ExclusiveSpec) and, on the server as it runs, the OnlyByRace *)
(* form: whatever breaks the rule, none of those responsible had been      *)
(* committed when the other looked.                                        *)
(***************************************************************************)
EXTENDS Bookings, FiniteSetsExt

\* The ticks row b occupies its room for.
Ticks(b) == booking[b].start .. booking[b].end - 1

DoubleBooked(a, b) ==
    /\ a # b /\ {a, b} \subseteq Confirmed
    /\ booking[a].room = booking[b].room
    /\ Ticks(a) \cap Ticks(b) # {}

NothingInFlight == \A r \in Requests : pc[r] \notin InFlight

-----------------------------------------------------------------------------
\* The ledger of bookings, as the tables show it.
Ledger == INSTANCE BookingLedger WITH
    Ids <- Requests,
    now <- clock,
    row <- [b \in Requests |-> IF b \in Rows THEN booking[b] ELSE None],
    paid <- [b \in Requests |->
                IF RefundsOf(b) = {} THEN None
                ELSE entry[CHOOSE c \in RefundsOf(b) : TRUE].percent]

\* Without interference every handler acts as one step of that ledger, at its
\* commit, judged at the time it read the clock: it keeps what the README
\* promises but for the two tolerances of the ledger.
LedgerImplemented == Ledger!Spec

-----------------------------------------------------------------------------
\* One room is never sold twice for one tick (README, business rule 4).
NoDoubleBooking == \A a, b \in Requests : ~DoubleBooked(a, b)

\* A room sold twice was sold by two creations neither of which had been
\* committed when the other read the room's bookings: _has_conflict misses
\* nothing that is there to see, and no later cancellation or restart
\* brings an overlap back.
DoubleBookingOnlyByRace ==
    \A a, b \in Requests :
        DoubleBooked(a, b) => a \notin before[b] /\ b \notin before[a]

\* Nobody holds more than QUOTA_LIMIT confirmed bookings in the future
\* (README, business rule 5).
QuotaRespected ==
    \A user \in Users : Cardinality(Upcoming(user, clock)) <= QUOTA_LIMIT

\* Any QUOTA_LIMIT + 1 upcoming bookings of one user include two that were
\* counted concurrently, each before the other was committed.
QuotaExceededOnlyByRace ==
    \A user \in Users :
        \A held \in kSubset(QUOTA_LIMIT + 1, Upcoming(user, clock)) :
            \E a, b \in held :
                a # b /\ a \notin beforeQuota[b] /\ b \notin beforeQuota[a]

\* Of what a request saw committed, the bookings that had not been cancelled.
StillHeld(seen) == {b \in seen \cap Rows : \A c \in seen \cap ledger : entry[c].booking # b}

\* Nobody is turned away for nothing: a creation answers ROOM_CONFLICT only when
\* a booking that was held when it looked occupies the room for a tick it asked
\* for, and QUOTA_EXCEEDED only when the user held QUOTA_LIMIT bookings ahead of
\* the time the creation began.  What had been cancelled by then does not count.
RefusalsJustified ==
    \A r \in Requests :
        /\ pc[r] = "ROOM_CONFLICT" =>
              \E b \in StillHeld(before[r]) :
                  booking[b].room = booking[r].room /\ Ticks(b) \cap Ticks(r) # {}
        /\ pc[r] = "QUOTA_EXCEEDED" =>
              Cardinality({b \in StillHeld(beforeQuota[r]) :
                              /\ booking[b].user = booking[r].user
                              /\ booking[b].start > booking[r].created}) >= QUOTA_LIMIT

-----------------------------------------------------------------------------
\* A booking is refunded once (README, 409 ALREADY_CANCELLED).
AtMostOneRefund ==
    \A c, d \in ledger : entry[c].booking = entry[d].booking => c = d

\* Two refunds of one booking come from two cancellations that both read the
\* booking before the other was committed.
DoubleRefundOnlyByRace ==
    \A c, d \in ledger :
        c # d /\ entry[c].booking = entry[d].booking =>
            c \notin before[d] /\ d \notin before[c]

\* A booking is cancelled exactly when its refund has been logged, at every
\* instant and after any crash: the two are one commit.
CancelledIffRefunded ==
    /\ \A b \in Rows : status[b] = "cancelled" <=> RefundsOf(b) # {}
    /\ \A c \in ledger : entry[c].booking \in Rows

\* A detail answered as cancelled shows a refund, although the booking and
\* its refunds are read by two statements.
CancelledDetailShowsRefund ==
    \A r \in Requests :
        pc[r] = "shown" /\ view[r].status = "cancelled" => view[r].refunds # {}

\* The README's right to see and cancel a booking (business rules 9, 10).
MayAct(user, b) ==
    /\ UserOrg[user] = UserOrg[booking[b].user]
    /\ user = booking[b].user \/ user \in Admins

\* Whoever cancels or reads a booking belongs to the organisation of the user
\* who made it, and is that user or an admin, although the code compares the
\* caller's organisation with the room's.
TenantsApart ==
    /\ \A c \in ledger : MayAct(entry[c].user, entry[c].booking)
    /\ \A r \in Requests : pc[r] = "shown" => MayAct(view[r].user, view[r].booking)

-----------------------------------------------------------------------------
\* With no request under way the stats of a room show the number of its
\* confirmed bookings (README, GET /rooms/{id}/stats).
CountMatchesAtRest ==
    NothingInFlight =>
        \A m \in Rooms : stats[m].count = Cardinality(Existing(m))

\* With no request under way the stats of a room show what its confirmed
\* bookings cost together (README, GET /rooms/{id}/stats).
RevenueMatchesAtRest ==
    NothingInFlight =>
        \A m \in Rooms : stats[m].revenue = MapThenSumSet(Price, Existing(m))
=============================================================================
