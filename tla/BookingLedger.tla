--------------------------- MODULE BookingLedger ---------------------------
(***************************************************************************)
(* What the README promises of bookings (business rules 2, 4, 5, 7, 9),    *)
(* with no handlers, threads or commits in sight: a booking is made in one *)
(* step or not at all, into a free slot of a room of the caller's          *)
(* organisation, ahead of time and within the quota; it is cancelled at    *)
(* most once, for the share its notice buys.  `asked' is the time the      *)
(* request looked at its clock, at or before now.                          *)
(*                                                                         *)
(* In two points the code is known to keep less than that, and the ledger  *)
(* tolerates just this much: AheadOfTime lets a booking start up to GRACE  *)
(* late, and Shares lets the first hour of full notice be paid half.       *)
(***************************************************************************)
EXTENDS RefundMath, FiniteSets

CONSTANTS Ids, Users, Rooms, UserOrg, RoomOrg, QUOTA_LIMIT,
          MIN_DURATION_HOURS, MAX_DURATION_HOURS, GRACE,
          Starts, Durations, None

VARIABLES
    now,
    row,    \* the booking with this id, or None
    paid    \* the share refunded when it was cancelled, or None

vars == <<now, row, paid>>

Init ==
    /\ now = 0
    /\ row = [b \in Ids |-> None]
    /\ paid = [b \in Ids |-> None]

Held == {b \in Ids : row[b] # None /\ paid[b] = None}

Free(room, start, end) ==
    \A b \in Held : row[b].room = room => end <= row[b].start \/ row[b].end <= start

\* README: start_time must be in the future.
AheadOfTime(start, asked) == asked < start \/ asked - start < GRACE

\* README: the tiers by notice.
Shares(notice) == {Promised(notice)} \cup (IF InFirstFullHour(notice) THEN {50} ELSE {})

Book(b, user, room, start, end, asked) ==
    /\ row[b] = None
    /\ AheadOfTime(start, asked)
    /\ \E hours \in MIN_DURATION_HOURS .. MAX_DURATION_HOURS : end = start + hours * HOUR
    /\ UserOrg[user] = RoomOrg[room]
    /\ Free(room, start, end)
    /\ Cardinality({h \in Held : row[h].user = user /\ asked < row[h].start})
         < QUOTA_LIMIT
    /\ row' = [row EXCEPT ![b] = [user |-> user, room |-> room, start |-> start,
                                  end |-> end, created |-> asked]]
    /\ UNCHANGED <<now, paid>>

Cancel(b, asked) ==
    /\ b \in Held
    /\ \E share \in Shares(row[b].start - asked) : paid' = [paid EXCEPT ![b] = share]
    /\ UNCHANGED <<now, row>>

Tick == now' = now + 1 /\ UNCHANGED <<row, paid>>

Next ==
    \/ Tick
    \/ \E b \in Ids, asked \in 0 .. now :
          \/ Cancel(b, asked)
          \/ \E user \in Users, room \in Rooms, start \in Starts, d \in Durations :
                Book(b, user, room, start, start + d, asked)

Spec == Init /\ [][Next]_vars
=============================================================================
