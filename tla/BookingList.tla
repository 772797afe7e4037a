----------------------------- MODULE BookingList -----------------------------
(***************************************************************************)
(* GET /bookings and GET /admin/export: how the bookings table is read     *)
(* while creations and cancellations commit.                               *)
(*                                                                         *)
(* A page is answered from two queries, the total first and the page       *)
(* next; a client reads page after page, until one is not full or until    *)
(* the total is reached.  Pages are defined by offsets into an order       *)
(* (start descending, id ascending), so a booking inserted between two     *)
(* queries shifts the rest.  An export is one query.                       *)
(*                                                                         *)
(* The order is rendered by how many bookings precede one: a page holds    *)
(* those preceded by offset to offset + limit - 1 others.                  *)
(***************************************************************************)
EXTENDS Integers, FiniteSets

CONSTANTS
    Bookings,             \* bookings that may be created
    Owner, Room, Start,   \* the columns of each
    Users, Rooms,
    Admins,
    UserOrg, RoomOrg,
    Readers,              \* users who page through their bookings
    Limits,               \* the limits they ask for
    None                  \* a query parameter that is not given

ASSUME ListAssumption ==
    /\ IsFiniteSet(Bookings)
    /\ Owner \in [Bookings -> Users] /\ Room \in [Bookings -> Rooms]
    /\ Start \in [Bookings -> Int]
    /\ Admins \subseteq Users /\ Readers \subseteq Users
    /\ Limits \subseteq Nat \ {0}
    /\ None \notin Users \cup Rooms

VARIABLES
    id,         \* the primary key of each row, 0 until it is inserted
    cancelled,  \* the rows with status "cancelled"
    limit,      \* the query parameter each reader keeps using
    page,       \* the page a reader asks for
    counted,    \* the reader's rows when the total of that page was counted
    step,       \* the next query of the reader, or how it stopped
    shown,      \* the bookings on the pages so far
    items,      \* history: how many items the pages had in all
    known,      \* history: the reader's rows when the first page was counted
    served      \* history: the reader's rows when the latest page was read

table == <<id, cancelled>>
reading == <<page, counted, step, shown, items, known, served>>
vars == <<table, limit, reading>>

TypeOK ==
    /\ id \in [Bookings -> Nat]
    /\ cancelled \subseteq Bookings
    /\ limit \in [Readers -> Limits]
    /\ page \in [Readers -> Nat \ {0}]
    /\ counted \in [Readers -> SUBSET Bookings]
    /\ step \in [Readers -> {"count", "items", "lastPage", "totalReached"}]
    /\ shown \in [Readers -> SUBSET Bookings]
    /\ items \in [Readers -> Nat]
    /\ known \in [Readers -> SUBSET Bookings]
    /\ served \in [Readers -> SUBSET Bookings]

Init ==
    /\ id = [b \in Bookings |-> 0] /\ cancelled = {}
    /\ limit \in [Readers -> Limits]
    /\ page = [u \in Readers |-> 1]
    /\ counted = [u \in Readers |-> {}]
    /\ step = [u \in Readers |-> "count"]
    /\ shown = [u \in Readers |-> {}]
    /\ items = [u \in Readers |-> 0]
    /\ known = [u \in Readers |-> {}]
    /\ served = [u \in Readers |-> {}]

-----------------------------------------------------------------------------
Rows == {b \in Bookings : id[b] > 0}

\* A plausible mistake: the list leaves out what is cancelled.
OwnConfirmed(u) == {b \in Rows \ cancelled : Owner[b] = u}

\* base: the rows of the caller, whatever their status.
Own(u) == {b \in Rows : Owner[b] = u}

\* Later starts come first, equal starts in the order of their ids.
Precedes(a, b) == Start[a] > Start[b] \/ (Start[a] = Start[b] /\ id[a] < id[b])

Ahead(u, b) == {a \in Own(u) : Precedes(a, b)}

\* BUGS.md #7: the first page starts where the second should.
OffsetTooFar(u) == page[u] * limit[u]

Offset(u) == (page[u] - 1) * limit[u]

\* BUGS.md #8: ten items whatever the limit.
PageOfTen(u) ==
    {b \in Own(u) : /\ Offset(u) <= Cardinality(Ahead(u, b))
                    /\ Cardinality(Ahead(u, b)) < Offset(u) + 10}

Page(u) ==
    {b \in Own(u) : /\ Offset(u) <= Cardinality(Ahead(u, b))
                    /\ Cardinality(Ahead(u, b)) < Offset(u) + limit[u]}

-----------------------------------------------------------------------------
\* A plausible mistake: the room is looked up by its id alone.
InsertAnywhere(b) ==
    /\ id[b] = 0
    /\ id' = [id EXCEPT ![b] = Cardinality(Rows) + 1]
    /\ UNCHANGED <<cancelled, limit, reading>>

\* The commit of a creation: a room of the user's organisation, the next id.
Insert(b) ==
    /\ id[b] = 0
    /\ RoomOrg[Room[b]] = UserOrg[Owner[b]]
    /\ id' = [id EXCEPT ![b] = Cardinality(Rows) + 1]
    /\ UNCHANGED <<cancelled, limit, reading>>

\* The commit of a cancellation.
Cancel(b) ==
    /\ b \in Rows \ cancelled
    /\ cancelled' = cancelled \cup {b}
    /\ UNCHANGED <<id, limit, reading>>

\* total = base.count().
Count(u) ==
    /\ step[u] = "count"
    /\ counted' = [counted EXCEPT ![u] = Own(u)]
    /\ known' = IF page[u] = 1 THEN [known EXCEPT ![u] = Own(u)] ELSE known
    /\ step' = [step EXCEPT ![u] = "items"]
    /\ UNCHANGED <<table, limit, page, shown, items, served>>

\* The page itself, and the answer.  A page that is not full is the last one;
\* a client may also stop at the page that reaches the total it came with.
Items(u) ==
    /\ step[u] = "items"
    /\ shown' = [shown EXCEPT ![u] = @ \cup Page(u)]
    /\ items' = [items EXCEPT ![u] = @ + Cardinality(Page(u))]
    /\ served' = [served EXCEPT ![u] = Own(u)]
    /\ page' = [page EXCEPT ![u] = @ + 1]
    /\ \/ /\ Cardinality(Page(u)) < limit[u]
          /\ step' = [step EXCEPT ![u] = "lastPage"]
       \/ /\ Cardinality(Page(u)) >= limit[u]
          /\ step' = [step EXCEPT ![u] = "count"]
       \/ /\ Offset(u) + limit[u] >= Cardinality(counted[u])
          /\ step' = [step EXCEPT ![u] = "totalReached"]
    /\ UNCHANGED <<table, limit, counted, known>>

Next ==
    \/ \E b \in Bookings : Insert(b) \/ Cancel(b)
    \/ \E u \in Readers : Count(u) \/ Items(u)

Spec == Init /\ [][Next]_vars

-----------------------------------------------------------------------------
\* GET /admin/export.

\* BUGS.md #22: the rows of any room, of whatever organisation.
RawUnscoped(room, org) == {b \in Rows : Room[b] = room}

\* fetch_bookings_raw: the rows of one room, if it is of the organisation.
Raw(room, org) == {b \in Rows : Room[b] = room /\ RoomOrg[Room[b]] = org}

\* _fetch_scoped: the rows of the organisation, of one user and of one room.
Scoped(org, user, room) ==
    {b \in Rows : /\ RoomOrg[Room[b]] = org
                  /\ user # None => Owner[b] = user
                  /\ room # None => Room[b] = room}

\* generate_export.
Export(admin, room, includeAll) ==
    IF ~includeAll THEN Scoped(UserOrg[admin], admin, room)
    ELSE IF room # None THEN Raw(room, UserOrg[admin])
    ELSE Scoped(UserOrg[admin], None, None)

-----------------------------------------------------------------------------
\* A client that reads to the last page has seen every booking it had when it
\* began, whatever is created and cancelled meanwhile.  One that stops at the
\* total misses at most as many as were created between the two queries of
\* its last page: they push others behind the offset it stops at.
SkippedOnlyByStoppingEarly ==
    \A u \in Readers :
        /\ step[u] = "lastPage" => known[u] \subseteq shown[u]
        /\ step[u] = "totalReached" =>
              Cardinality(known[u] \ shown[u]) <= Cardinality(served[u] \ counted[u])

\* An item appears on a second page only if a booking of the same user was
\* created since the first was counted, one item for each booking at most.
RepeatedOnlyByInsert ==
    \A u \in Readers :
        items[u] - Cardinality(shown[u]) <= Cardinality(served[u] \ known[u])

\* No page falls short of the total it is answered with: a cancellation or a
\* creation between the two queries takes nothing from the page.
PageHasWhatWasCounted ==
    [][\A u \in Readers :
          Items(u) => \/ Cardinality(Page(u)) = limit[u]
                      \/ Cardinality(Page(u)) >= Cardinality(counted[u]) - Offset(u)]_vars

\* The two queries of the export agree: an administrator who exports all
\* bookings gets those of the single rooms, and no room gives him more.
ExportAddsUp ==
    \A a \in Admins :
        UNION {Export(a, m, TRUE) : m \in Rooms} = Export(a, None, TRUE)

\* An administrator's export of his own bookings has what his list has, though
\* one is selected by the organisation of the room and the other is not.
ExportAgreesWithList == \A a \in Admins : Export(a, None, FALSE) = Own(a)
=============================================================================
