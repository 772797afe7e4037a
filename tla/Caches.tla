------------------------------- MODULE Caches -------------------------------
(***************************************************************************)
(* The response caches of cache.py, the endpoints that fill them           *)
(* (availability in routers/rooms.py, usage_report in routers/admin.py)    *)
(* and the handlers that invalidate them (create_booking, cancel_booking). *)
(* No lock protects the caches, so a handler can be overtaken between any  *)
(* two of its queries and dictionary operations.  The organisation is one: *)
(* invalidate_report leaves the keys of the others alone.                  *)
(***************************************************************************)
EXTENDS Integers, FiniteSets

CONSTANTS Bookings,        \* the bookings that may be created
          BookingRoom,     \* the room of each booking
          StartDay,        \* the UTC date a booking starts on
          LastDay,         \* the UTC date of its last hour
          Rooms,           \* room ids
          OldRooms,        \* the rooms that exist at the start
          Writes,          \* the creations and cancellations that may be requested
          Ranges,          \* the <<from, to>> a usage report is asked for
          Dates,           \* the <<room, day, spelling>> availability is asked for
          Readers          \* requests for a report or an availability

ReportKeys == [kind : {"report"}, range : Ranges]
DateKeys == {[kind |-> "availability", room |-> d[1], date |-> <<d[2], d[3]>>] : d \in Dates}
Keys == ReportKeys \cup DateKeys
Statuses == {"absent", "confirmed", "cancelled"}

ASSUME CachesAssumption ==
    /\ Keys # {}
    /\ Writes \subseteq {"create", "cancel"} \X Bookings
    /\ Rooms \subseteq Nat /\ OldRooms \subseteq Rooms
    /\ BookingRoom \in [Bookings -> Rooms]
    /\ \A b \in Bookings : StartDay[b] \in Int /\ LastDay[b] \in Int
    /\ \A g \in Ranges : g[1] \in Int /\ g[2] \in Int

VARIABLES rooms,   \* the rooms in the database
          status,  \* the booking rows
          cached,  \* the keys present in _report_cache and _availability_cache
          entry,   \* the value cached under each key
          wpc,     \* where each creation and cancellation stands
          found,   \* the report keys invalidate_report has still to pop
          rpc,     \* where each reader stands
          fill     \* the key, the rooms to do and the result of each reader

vars == <<rooms, status, cached, entry, wpc, found, rpc, fill>>

\* raced is a history: the writes committed while the entry was computed.
Entries == [rooms : SUBSET Rooms, busy : SUBSET Bookings, raced : SUBSET Writes]
NoEntry == [rooms |-> {}, busy |-> {}, raced |-> {}]
NoFill == [key |-> CHOOSE k \in Keys : TRUE, todo |-> {}, result |-> NoEntry]

\* The values left when the keys of gone are popped.
Without(gone) == [k \in Keys |-> IF k \in gone THEN NoEntry ELSE entry[k]]

TypeOK ==
    /\ rooms \in SUBSET Rooms
    /\ status \in [Bookings -> Statuses]
    /\ cached \in SUBSET Keys
    /\ entry \in [Keys -> Entries]
    /\ wpc \in [Writes -> {"idle", "committed", "cleared", "scanning", "popping",
                           "done", "failed"}]
    /\ found \in [Writes -> SUBSET ReportKeys]
    /\ rpc \in [Readers -> {"idle", "missed", "reading"}]
    /\ fill \in [Readers -> [key : Keys, todo : SUBSET Rooms, result : Entries]]

Init ==
    /\ rooms = OldRooms
    /\ status = [b \in Bookings |-> "absent"]
    /\ cached = {} /\ entry = [k \in Keys |-> NoEntry]
    /\ wpc = [w \in Writes |-> "idle"] /\ found = [w \in Writes |-> {}]
    /\ rpc = [r \in Readers |-> "idle"]
    /\ fill = [r \in Readers |-> NoFill]

-----------------------------------------------------------------------------
\* Both queries select by the day a booking starts on.
StartsWithin(b, k) ==
    IF k.kind = "report" THEN StartDay[b] \in k.range[1] .. k.range[2]
    ELSE StartDay[b] = k.date[1]

\* A plausible bug: cancelled bookings are counted too.
SelectedAnyStatus(k, m) ==
    {b \in Bookings : BookingRoom[b] = m /\ status[b] # "absent" /\ StartsWithin(b, k)}

\* The rows of one room a reader of k selects.
Selected(k, m) ==
    {b \in Bookings : BookingRoom[b] = m /\ status[b] = "confirmed" /\ StartsWithin(b, k)}

\* A hit returns the cached value and changes nothing; this is a miss.
Miss(r, k) ==
    /\ rpc[r] = "idle"
    /\ k.kind = "availability" => k.room \in rooms
    /\ k \notin cached
    /\ fill' = [fill EXCEPT ![r] = [key |-> k, todo |-> {}, result |-> NoEntry]]
    /\ rpc' = [rpc EXCEPT ![r] = "missed"]
    /\ UNCHANGED <<rooms, status, cached, entry, wpc, found>>

\* The rooms the reader will report on, in one query of their own.
ReadRooms(r) ==
    LET k == fill[r].key
        of == IF k.kind = "report" THEN rooms ELSE {k.room}
    IN  /\ rpc[r] = "missed"
        /\ fill' = [fill EXCEPT ![r].todo = of, ![r].result.rooms = of]
        /\ rpc' = [rpc EXCEPT ![r] = "reading"]
        /\ UNCHANGED <<rooms, status, cached, entry, wpc, found>>

\* One query per room, in the order of their ids.
NextRoom(r) == CHOOSE m \in fill[r].todo : \A n \in fill[r].todo : m <= n

ReadBookings(r) ==
    /\ rpc[r] = "reading" /\ fill[r].todo # {}
    /\ fill' = [fill EXCEPT
           ![r].todo = @ \ {NextRoom(r)},
           ![r].result.busy = @ \cup Selected(fill[r].key, NextRoom(r))]
    /\ UNCHANGED <<rooms, status, cached, entry, wpc, found, rpc>>

\* set_report or set_availability: whatever is there is replaced.
Store(r) ==
    /\ rpc[r] = "reading" /\ fill[r].todo = {}
    /\ cached' = cached \cup {fill[r].key}
    /\ entry' = [entry EXCEPT ![fill[r].key] = fill[r].result]
    /\ rpc' = [rpc EXCEPT ![r] = "idle"]
    /\ fill' = [fill EXCEPT ![r] = NoFill]
    /\ UNCHANGED <<rooms, status, wpc, found>>

-----------------------------------------------------------------------------
\* create_room commits the row and invalidates nothing.
CreateRoom(m) ==
    /\ m \notin rooms
    /\ rooms' = rooms \cup {m}
    /\ UNCHANGED <<status, cached, entry, wpc, found, rpc, fill>>

\* The commit of a creation or of a cancellation, seen by every later query.
Commit(w) ==
    LET b == w[2]
    IN  /\ wpc[w] = "idle"
        /\ \/ /\ w[1] = "create" /\ BookingRoom[b] \in rooms
              /\ status' = [status EXCEPT ![b] = "confirmed"]
              /\ wpc' = [wpc EXCEPT ![w] = "committed"]
           \/ /\ w[1] = "cancel" /\ status[b] = "confirmed"
              /\ status' = [status EXCEPT ![b] = "cancelled"]
              /\ wpc' = [wpc EXCEPT ![w] = "cleared"]
        /\ fill' = [r \in Readers |->
                      [fill[r] EXCEPT !.result.raced =
                          IF rpc[r] = "idle" THEN @ ELSE @ \cup {w}]]
        /\ UNCHANGED <<rooms, cached, entry, found, rpc>>

\* A plausible bug: the date the booking ends on.
EndDateOf(b) == <<LastDay[b], "iso">>

\* start.date().isoformat(): the one spelling invalidate_availability pops.
DateOf(b) == <<StartDay[b], "iso">>

\* create_booking's invalidate_availability; cancel_booking has none.
InvalidateAvailability(w) ==
    /\ wpc[w] = "committed"
    /\ LET gone == {k \in DateKeys : k.room = BookingRoom[w[2]] /\ k.date = DateOf(w[2])}
       IN  cached' = cached \ gone /\ entry' = Without(gone)
    /\ wpc' = [wpc EXCEPT ![w] = "cleared"]
    /\ UNCHANGED <<rooms, status, found, rpc, fill>>

\* BUGS.md #23: a creation leaves the reports alone.
BeginScanOnCancel(w) ==
    /\ wpc[w] = "cleared"
    /\ found' = [found EXCEPT ![w] = IF w[1] = "create" THEN {}
                                     ELSE cached \cap ReportKeys]
    /\ wpc' = [wpc EXCEPT ![w] = IF w[1] = "create" THEN "done" ELSE "scanning"]
    /\ UNCHANGED <<rooms, status, cached, entry, rpc, fill>>

\* invalidate_report starts to iterate over the dictionary.
BeginScan(w) ==
    /\ wpc[w] = "cleared"
    /\ found' = [found EXCEPT ![w] = cached \cap ReportKeys]
    /\ wpc' = [wpc EXCEPT ![w] = "scanning"]
    /\ UNCHANGED <<rooms, status, cached, entry, rpc, fill>>

\* The list of keys is complete.  Keys that came or went meanwhile may or may
\* not be in it, unless the dictionary has another size than at the start: then
\* the iterator raises RuntimeError and the request ends in a 500.
EndScan(w) ==
    LET now == cached \cap ReportKeys
    IN  /\ wpc[w] = "scanning"
        /\ \/ /\ now # found[w]
              /\ wpc' = [wpc EXCEPT ![w] = "failed"]
              /\ found' = [found EXCEPT ![w] = {}]
           \/ /\ Cardinality(now) = Cardinality(found[w])
              /\ \E late \in SUBSET (now \ found[w]) :
                    found' = [found EXCEPT ![w] = @ \cup late]
              /\ wpc' = [wpc EXCEPT ![w] = "popping"]
        /\ UNCHANGED <<rooms, status, cached, entry, rpc, fill>>

\* Pops the keys of the list one by one; a key already gone is no error.
Pop(w) ==
    /\ wpc[w] = "popping"
    /\ IF found[w] = {}
       THEN /\ wpc' = [wpc EXCEPT ![w] = "done"]
            /\ UNCHANGED <<cached, entry, found>>
       ELSE \E k \in found[w] :
              /\ cached' = cached \ {k} /\ entry' = Without({k})
              /\ found' = [found EXCEPT ![w] = @ \ {k}]
              /\ UNCHANGED wpc
    /\ UNCHANGED <<rooms, status, rpc, fill>>

-----------------------------------------------------------------------------
Read(r) == (\E k \in Keys : Miss(r, k)) \/ ReadRooms(r) \/ ReadBookings(r) \/ Store(r)
Write(w) == Commit(w) \/ InvalidateAvailability(w) \/ BeginScan(w) \/ EndScan(w) \/ Pop(w)

Next ==
    \/ \E r \in Readers : Read(r)
    \/ \E w \in Writes : Write(w)
    \/ \E m \in Rooms : CreateRoom(m)

Spec == Init /\ [][Next]_vars

\* The requests being served.
Busy == {r \in Readers : rpc[r] # "idle"}
        \cup {w \in Writes : wpc[w] \notin {"idle", "done", "failed"}}

-----------------------------------------------------------------------------
\* What the database holds for a key: the truth a cached entry stands for.
Confirmed(k, of) ==
    {b \in Bookings : BookingRoom[b] \in of /\ status[b] = "confirmed" /\ StartsWithin(b, k)}

\* The bookings on which an entry and the database disagree.
Differing(k) ==
    LET truth == Confirmed(k, entry[k].rooms)
    IN  (truth \ entry[k].busy) \cup (entry[k].busy \ truth)

\* The write is on its way to invalidate, has died on the way, or committed
\* while the entry was being computed.
Excused(w, k) == wpc[w] \notin {"idle", "done"} \/ w \in entry[k].raced

\* A cached report is wrong about a booking only if a creation or cancellation
\* of it overtook the request that computed the report, or has not got through
\* its own invalidation: every write that completes undisturbed is seen.
ReportStaleOnlyByRace ==
    \A k \in cached \cap ReportKeys : \A b \in Differing(k) :
        \E w \in Writes : w[2] = b /\ Excused(w, k)

\* A cached day, asked for in the spelling create_booking invalidates, hides a
\* confirmed booking only if its creation overtook the request or is not done.
HiddenOnlyByRace ==
    \A k \in cached \cap DateKeys : k.date[2] = "iso" =>
        \A b \in Confirmed(k, {k.room}) \ entry[k].busy : Excused(<<"create", b>>, k)

\* Between requests a cached day shows no booking that has been cancelled.
NothingCancelledShown ==
    Busy = {} => \A k \in cached \cap DateKeys :
        k.date[2] = "iso" => entry[k].busy \subseteq Confirmed(k, {k.room})
=============================================================================
