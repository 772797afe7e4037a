------------------------------ MODULE Bookings ------------------------------
(***************************************************************************)
(* The booking core: POST /bookings, POST /bookings/{id}/cancel and        *)
(* GET /bookings/{id} as their handlers run in the server's thread pool.   *)
(*                                                                         *)
(* A handler is a sequence of steps, one per access to state that other    *)
(* handlers share: a SELECT (sqlite runs it outside a transaction, so it   *)
(* sees the latest commit), a COMMIT, or a module-level counter behind its *)
(* lock.  What a handler computes between two accesses belongs to the step *)
(* before it, whose data alone it depends on.                              *)
(*                                                                         *)
(* Every HTTP request is a member of Requests and is used once.  A booking *)
(* row is named after the request that inserted it, a refund row after the *)
(* request that cancelled.  Users and rooms exist from the start.          *)
(*                                                                         *)
(* The caches, the notifications and the 429 of the rate limiter touch     *)
(* nothing of this module's state and are modelled elsewhere: a 429 is a   *)
(* request that never begins here.                                         *)
(***************************************************************************)
EXTENDS RefundMath, FiniteSets

CONSTANTS
    Requests,            \* HTTP requests, each handled once
    Users, Rooms,
    Admins,              \* the users with role "admin"
    UserOrg, RoomOrg,    \* the organisation of a user, of a room
    Rate,                \* hourly_rate_cents of a room
    QUOTA_LIMIT,
    MIN_DURATION_HOURS,
    MAX_DURATION_HOURS,
    GRACE,               \* the 300 seconds of line 88, in ticks
    FIRST_CODE,          \* the counter of a new process
    Starts, Durations,   \* what clients ask for, in ticks
    MaxClock,            \* bound: the clock stops there
    None

ASSUME BookingsAssumption ==
    /\ IsFiniteSet(Requests)
    /\ Admins \subseteq Users
    /\ DOMAIN UserOrg = Users /\ DOMAIN RoomOrg = Rooms
    /\ Rate \in [Rooms -> Nat \ {0}]
    /\ QUOTA_LIMIT \in Nat \ {0}
    /\ MIN_DURATION_HOURS \in Nat \ {0}
    /\ MAX_DURATION_HOURS \in Nat
    /\ GRACE \in Nat
    /\ FIRST_CODE \in Nat
    /\ Starts \subseteq Int /\ Durations \subseteq Int
    /\ MaxClock \in Nat

VARIABLES
    clock,
    booking,      \* r's Booking object; the columns of row r once inserted
    status,       \* the status column of row r, "absent" until it is inserted
    code,         \* r's reference code
    entry,        \* r's RefundLog object; refund row r once r \in ledger
    ledger,       \* the refund rows: the cancel requests that committed
    view,         \* what the detail request r answers
    counter,      \* reference._counter["value"]
    stats,        \* stats._stats
    pc,           \* the step r is about to take, or how it ended
    before,       \* history: what was committed when r read its conflicts or
                  \*          the status of the booking it cancels
    beforeQuota   \* history: what was committed when r counted its quota

database == <<booking, status, code, entry, ledger>>
memory == <<counter, stats>>
history == <<before, beforeQuota>>
vars == <<clock, database, view, memory, pc, history>>

Booking == [user : Users, room : Rooms, start : Int, end : Int, created : Nat]
RefundLog == [booking : Requests, user : Users, percent : Percents]
Detail == [booking : Requests, user : Users,
           status : {"confirmed", "cancelled"}, refunds : SUBSET Requests]

ASSUME NoneAssumption == None \notin Booking \cup Percents

CreateSteps == {"conflict", "quota", "code", "insert", "record"}
CancelSteps == {"settle", "recordCancel"}
InFlight == CreateSteps \cup CancelSteps \cup {"refunds"}
Answers == {"created", "cancelled", "shown", "refused", "ROOM_CONFLICT",
            "QUOTA_EXCEEDED", "failed", "lost"}

TypeOK ==
    /\ clock \in Nat
    /\ booking \in [Requests -> Booking \cup {None}]
    /\ status \in [Requests -> {"absent", "confirmed", "cancelled"}]
    /\ code \in [Requests -> Nat \cup {None}]
    /\ entry \in [Requests -> RefundLog \cup {None}]
    /\ ledger \subseteq Requests
    /\ view \in [Requests -> Detail \cup {None}]
    /\ counter \in Nat
    /\ stats \in [Rooms -> [count : Nat, revenue : Int]]
    /\ pc \in [Requests -> {"idle"} \cup InFlight \cup Answers]
    /\ before \in [Requests -> SUBSET Requests]
    /\ beforeQuota \in [Requests -> SUBSET Requests]

NoStats == [m \in Rooms |-> [count |-> 0, revenue |-> 0]]

Init ==
    /\ clock = 0
    /\ booking = [r \in Requests |-> None]
    /\ status = [r \in Requests |-> "absent"]
    /\ code = [r \in Requests |-> None]
    /\ entry = [r \in Requests |-> None]
    /\ ledger = {}
    /\ view = [r \in Requests |-> None]
    /\ counter = FIRST_CODE
    /\ stats = NoStats
    /\ pc = [r \in Requests |-> "idle"]
    /\ before = [r \in Requests |-> {}]
    /\ beforeQuota = [r \in Requests |-> {}]

-----------------------------------------------------------------------------
\* What the handlers compute.

Rows == {b \in Requests : status[b] # "absent"}
Confirmed == {b \in Requests : status[b] = "confirmed"}
Committed == Rows \cup ledger

\* A plausible mistake: only asks whether b starts inside a.
StartsInside(a, b) == a.start <= b.start /\ b.start < a.end

\* The interval test of _has_conflict: back-to-back bookings do not overlap.
Overlaps(a, b) == a.start < b.end /\ b.start < a.end

\* A plausible mistake: skips the bookings that have started.
ExistingAhead(room) ==
    {b \in Confirmed : booking[b].room = room /\ booking[b].start > clock}

\* A plausible mistake: the rows of cancelled bookings are read as well.
ExistingAnyStatus(room) == {b \in Rows : booking[b].room = room}

\* The rows _has_conflict reads: what is confirmed in this room.
Existing(room) == {b \in Confirmed : booking[b].room = room}

\* The rows _check_quota counts: the user's own, confirmed, after now.
Upcoming(user, now) ==
    {b \in Confirmed : booking[b].user = user /\ booking[b].start > now}

QuotaFullOffByOne(n) == n > QUOTA_LIMIT

QuotaFull(n) == n >= QUOTA_LIMIT

\* BUGS.md #15: no minimum duration.
WindowAcceptedAnyMinimum(start, end, now) ==
    /\ start > now - GRACE
    /\ (end - start) % HOUR = 0
    /\ (end - start) \div HOUR <= MAX_DURATION_HOURS

WindowAccepted(start, end, now) ==
    /\ start > now - GRACE
    /\ (end - start) % HOUR = 0
    /\ (end - start) \div HOUR \in MIN_DURATION_HOURS .. MAX_DURATION_HOURS

Price(b) == Rate[booking[b].room] * ((booking[b].end - booking[b].start) \div HOUR)

\* BUGS.md #10: every user of the organisation may act on the booking.
VisibleToColleagues(user, b) ==
    b \in Rows /\ RoomOrg[booking[b].room] = UserOrg[user]

\* The row exists, its room is of the caller's organisation, and the caller
\* owns it or is an admin: the lookup of get_booking and cancel_booking.
Visible(user, b) ==
    /\ b \in Rows
    /\ RoomOrg[booking[b].room] = UserOrg[user]
    /\ user \in Admins \/ booking[b].user = user

NeverAlreadyCancelled(b) == FALSE

AlreadyCancelled(b) == status[b] = "cancelled"

RefundsOf(b) == {c \in ledger : entry[c].booking = b}

\* A plausible mistake: starts from the default instead of the current figures.
StatsStartOver(room, price) == [stats EXCEPT ![room] = [count |-> 1, revenue |-> price]]

StatsAfterCreate(room, price) ==
    [stats EXCEPT ![room] = [count |-> @.count + 1, revenue |-> @.revenue + price]]

\* Plausible mistakes: no clamp at zero; the revenue of a cancellation kept.
StatsUnclamped(room, price) ==
    [stats EXCEPT ![room] = [count |-> @.count - 1, revenue |-> @.revenue - price]]
StatsKeepRevenue(room, price) ==
    [stats EXCEPT ![room] = [count |-> IF @.count = 0 THEN 0 ELSE @.count - 1,
                             revenue |-> @.revenue]]

StatsAfterCancel(room, price) ==
    [stats EXCEPT ![room] = [count |-> IF @.count = 0 THEN 0 ELSE @.count - 1,
                             revenue |-> @.revenue - price]]

Goto(r, step) == pc' = [pc EXCEPT ![r] = step]

-----------------------------------------------------------------------------
\* POST /bookings.

\* The request is parsed and validated, and its room found (lines 82-103).
BeginCreate(r, user, room, start, end) ==
    /\ pc[r] = "idle"
    /\ WindowAccepted(start, end, clock)
    /\ RoomOrg[room] = UserOrg[user]
    /\ booking' = [booking EXCEPT ![r] =
           [user |-> user, room |-> room, start |-> start, end |-> end,
            created |-> clock]]
    /\ Goto(r, "conflict")
    /\ UNCHANGED <<clock, status, code, entry, ledger, view, memory, history>>

\* _has_conflict: the SELECT; the loop after the pause sees only its rows.
CheckConflict(r) ==
    /\ pc[r] = "conflict"
    /\ before' = [before EXCEPT ![r] = Committed]
    /\ IF \E b \in Existing(booking[r].room) : Overlaps(booking[b], booking[r])
       THEN Goto(r, "ROOM_CONFLICT")
       ELSE Goto(r, "quota")
    /\ UNCHANGED <<clock, database, view, memory, beforeQuota>>

\* _check_quota: the count; the comparison after the pause sees only it.
CheckQuota(r) ==
    /\ pc[r] = "quota"
    /\ beforeQuota' = [beforeQuota EXCEPT ![r] = Committed]
    /\ IF QuotaFull(Cardinality(Upcoming(booking[r].user, booking[r].created)))
       THEN Goto(r, "QUOTA_EXCEEDED")
       ELSE Goto(r, "code")
    /\ UNCHANGED <<clock, database, view, memory, before>>

\* next_reference_code, one step under _counter_lock.
IssueCode(r) ==
    /\ pc[r] = "code"
    /\ code' = [code EXCEPT ![r] = counter]
    /\ counter' = counter + 1
    /\ Goto(r, "insert")
    /\ UNCHANGED <<clock, booking, status, entry, ledger, view, stats, history>>

\* db.add and db.commit.
Insert(r) ==
    /\ pc[r] = "insert"
    /\ status' = [status EXCEPT ![r] = "confirmed"]
    /\ Goto(r, "record")
    /\ UNCHANGED <<clock, booking, code, entry, ledger, view, memory, history>>

\* stats.record_create, one step under _stats_lock; then the 201, or a 500 if
\* invalidate_report finds its dictionary changing.
RecordCreate(r) ==
    /\ pc[r] = "record"
    /\ stats' = StatsAfterCreate(booking[r].room, Price(r))
    /\ Goto(r, "created") \/ Goto(r, "failed")
    /\ UNCHANGED <<clock, database, view, counter, history>>

-----------------------------------------------------------------------------
\* POST /bookings/{id}/cancel.

\* Lookup, ownership, status, notice tier and log_refund's entry, all from
\* the row read at line 198.
BeginCancel(r, user, b) ==
    /\ pc[r] = "idle"
    /\ Visible(user, b)
    /\ ~AlreadyCancelled(b)
    /\ entry' = [entry EXCEPT ![r] =
           [booking |-> b, user |-> user,
            percent |-> RefundPercent(booking[b].start - clock)]]
    /\ before' = [before EXCEPT ![r] = Committed]
    /\ Goto(r, "settle")
    /\ UNCHANGED <<clock, booking, status, code, ledger, view, memory,
                   beforeQuota>>

\* Only the status is committed, the refund entry is left to a later commit.
CommitStatusOnly(r) ==
    /\ pc[r] = "settle"
    /\ status' = [status EXCEPT ![entry[r].booking] = "cancelled"]
    /\ Goto(r, "recordCancel")
    /\ UNCHANGED <<clock, booking, code, entry, ledger, view, memory, history>>

\* The single commit: UPDATE by primary key and INSERT of the refund row.
CommitCancel(r) ==
    /\ pc[r] = "settle"
    /\ status' = [status EXCEPT ![entry[r].booking] = "cancelled"]
    /\ ledger' = ledger \cup {r}
    /\ Goto(r, "recordCancel")
    /\ UNCHANGED <<clock, booking, code, entry, view, memory, history>>

\* stats.record_cancel, one step under _stats_lock; then the 200, or the same
\* 500.
RecordCancel(r) ==
    /\ pc[r] = "recordCancel"
    /\ stats' = StatsAfterCancel(booking[entry[r].booking].room,
                                 Price(entry[r].booking))
    /\ Goto(r, "cancelled") \/ Goto(r, "failed")
    /\ UNCHANGED <<clock, database, view, counter, history>>

-----------------------------------------------------------------------------
\* GET /bookings/{id}: the row first, its refunds by a lazy second SELECT.

BeginGet(r, user, b) ==
    /\ pc[r] = "idle"
    /\ Visible(user, b)
    /\ view' = [view EXCEPT ![r] =
           [booking |-> b, user |-> user, status |-> status[b], refunds |-> {}]]
    /\ Goto(r, "refunds")
    /\ UNCHANGED <<clock, database, memory, history>>

LoadRefunds(r) ==
    /\ pc[r] = "refunds"
    /\ view' = [view EXCEPT ![r].refunds = RefundsOf(view[r].booking)]
    /\ Goto(r, "shown")
    /\ UNCHANGED <<clock, database, memory, history>>

-----------------------------------------------------------------------------
\* Refusals and failures.

\* 400, 404 or 409 before anything is written.
Refuse(r) ==
    /\ pc[r] = "idle"
    /\ \/ \E user \in Users, room \in Rooms, start \in Starts, d \in Durations :
             \/ ~WindowAccepted(start, start + d, clock)
             \/ RoomOrg[room] # UserOrg[user]
       \/ \E user \in Users, b \in Requests :
             \/ ~Visible(user, b)
             \/ AlreadyCancelled(b)
    /\ Goto(r, "refused")
    /\ UNCHANGED <<clock, database, view, memory, history>>

\* The commit is refused (sqlite stays locked past its timeout): rollback, 500.
CommitFails(r) ==
    /\ pc[r] \in {"insert", "settle"}
    /\ Goto(r, "failed")
    /\ UNCHANGED <<clock, database, view, memory, history>>

\* After the commit the row is read again (db.refresh, the expired attributes
\* of a cancelled booking), which needs a connection of the pool: a timeout
\* there answers 500 and skips what follows.
RefreshFails(r) ==
    /\ pc[r] \in {"record", "recordCancel"}
    /\ Goto(r, "failed")
    /\ UNCHANGED <<clock, database, view, memory, history>>

\* The process dies and starts again.  The database keeps what was committed.
Restart ==
    /\ pc' = [r \in Requests |-> IF pc[r] \in InFlight THEN "lost" ELSE pc[r]]
    /\ counter' = FIRST_CODE
    /\ stats' = NoStats
    /\ UNCHANGED <<clock, database, view, history>>

Tick ==
    /\ clock < MaxClock
    /\ clock' = clock + 1
    /\ UNCHANGED <<database, view, memory, pc, history>>

-----------------------------------------------------------------------------
Begin(r) ==
    \/ \E user \in Users, room \in Rooms, start \in Starts, d \in Durations :
          BeginCreate(r, user, room, start, start + d)
    \/ \E user \in Users, b \in Requests :
          BeginCancel(r, user, b) \/ BeginGet(r, user, b)
    \/ Refuse(r)

Step(r) ==
    \/ CheckConflict(r) \/ CheckQuota(r) \/ IssueCode(r) \/ Insert(r)
    \/ RecordCreate(r) \/ CommitCancel(r) \/ RecordCancel(r) \/ LoadRefunds(r)

Next == Tick \/ \E r \in Requests : Begin(r) \/ Step(r) \/ CommitFails(r)

FaultNext == Next \/ Restart \/ \E r \in Requests : RefreshFails(r)

(***************************************************************************)
(* Two handlers in flight that could step on each other: creations for one *)
(* room or one user, cancellations of one booking, a cancellation of a     *)
(* booking whose creation has not been counted yet.                        *)
(***************************************************************************)
Interfere(r, q) ==
    \/ /\ pc[r] \in CreateSteps /\ pc[q] \in CreateSteps
       /\ \/ booking[r].room = booking[q].room
          \/ booking[r].user = booking[q].user
    \/ /\ pc[r] \in CancelSteps /\ pc[q] \in CancelSteps
       /\ entry[r].booking = entry[q].booking
    \/ /\ pc[r] \in CancelSteps /\ pc[q] \in CreateSteps
       /\ entry[r].booking = q

Exclusive == \A r, q \in Requests : r # q => ~Interfere(r, q)

Spec == Init /\ [][Next]_vars                        \* the server as it runs
FaultSpec == Init /\ [][FaultNext]_vars              \* and dies or fails late
ExclusiveSpec == Init /\ [][Next /\ Exclusive']_vars \* no interference
RestartSpec == Init /\ [][(Next \/ Restart) /\ Exclusive']_vars
=============================================================================
