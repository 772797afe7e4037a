---------------------------- MODULE CachesProofs ----------------------------
(***************************************************************************)
(* The response caches for any bookings, rooms, ranges, readers and        *)
(* writers: whatever a cached answer gets wrong, a write that overtook it  *)
(* or has not got through its own invalidation is to blame.                *)
(***************************************************************************)
EXTENDS Caches, WellFoundedInduction, TLAPS

\* The rooms whose bookings reader r has read.
Seen(r) == fill[r].result.rooms \ fill[r].todo

\* What a reader knows of the rooms it has read differs from the database only
\* by what was committed while it reads.
ReaderInv(r) ==
    LET k == fill[r].key
        busy == fill[r].result.busy
        raced == fill[r].result.raced
    IN  /\ rpc[r] = "missed" =>
              /\ fill[r].todo = {} /\ fill[r].result.rooms = {} /\ busy = {}
              /\ k.kind = "availability" => k.room \in Rooms
        /\ rpc[r] = "reading" =>
              /\ fill[r].todo \subseteq fill[r].result.rooms
              /\ k.kind = "availability" => fill[r].result.rooms = {k.room}
              /\ \A b \in busy : BookingRoom[b] \in Seen(r)
              /\ \A b \in Confirmed(k, Seen(r)) \ busy : <<"create", b>> \in raced
              /\ \A b \in busy \ Confirmed(k, Seen(r)) : <<"cancel", b>> \in raced

\* Write w has been committed and has report k still to pop.  A report that is
\* cached while w scans and that w will not pop was stored after the scan began.
Pending(w, k) ==
    \/ wpc[w] \in {"committed", "cleared", "failed"}
    \/ wpc[w] \in {"scanning", "popping"} /\ k \in found[w]

\* Write w is accountable for what report k says of its booking.
Accountable(w, k) == w \in Writes /\ (w \in entry[k].raced \/ Pending(w, k))

ReportInv(k) ==
    LET truth == Confirmed(k, entry[k].rooms)
    IN  /\ \A b \in truth \ entry[k].busy : Accountable(<<"create", b>>, k)
        /\ \A b \in entry[k].busy \ truth : Accountable(<<"cancel", b>>, k)

DayInv(k) ==
    k.date[2] = "iso" =>
        \A b \in Confirmed(k, {k.room}) \ entry[k].busy :
            \/ <<"create", b>> \in entry[k].raced
            \/ <<"create", b>> \in Writes /\ wpc[<<"create", b>>] = "committed"

CachesInv ==
    /\ TypeOK
    /\ \A r \in Readers : ReaderInv(r)
    /\ \A k \in cached \cap ReportKeys : ReportInv(k)
    /\ \A k \in cached \cap DateKeys : DayInv(k)
-----------------------------------------------------------------------------
\* The kinds of keys are what their names say.
LEMMA Kinds ==
    /\ \A k \in ReportKeys : k \in Keys /\ k.kind = "report"
    /\ \A k \in DateKeys : k \in Keys /\ k.kind = "availability"
    /\ \A k \in Keys : k.kind = "report" => k \in ReportKeys
    /\ \A k \in Keys : k.kind # "report" => k.kind = "availability" /\ k \in DateKeys
BY DEF Keys, ReportKeys, DateKeys

\* There is a first room among those still to be read.
LEMMA FirstRoom ==
    ASSUME NEW todo \in SUBSET Rooms, todo # {}
    PROVE  (CHOOSE m \in todo : \A n \in todo : m <= n) \in todo
<1>1. todo \in SUBSET Nat
  BY CachesAssumption
<1>2. PICK m \in todo : \A n \in todo : <<n, m>> \notin OpToRel(<, Nat)
  BY <1>1, NatLessThanWellFounded, WFMin
<1>3. \A n \in todo : n < m => <<n, m>> \in OpToRel(<, Nat)
  BY <1>1 DEF OpToRel
<1>4. \A n \in todo : ~ (n < m)
  BY <1>2, <1>3, Zenon
<1>5. \A n \in todo : m <= n
  BY <1>1, <1>4
<1> QED BY <1>5

\* What the reader that fills has, before anything is read.
LEMMA Blank ==
    /\ NoEntry \in Entries
    /\ NoFill \in [key : Keys, todo : SUBSET Rooms, result : Entries]
<1>1. NoEntry \in Entries
  BY DEF NoEntry, Entries
<1>2. (CHOOSE k \in Keys : TRUE) \in Keys
  BY CachesAssumption
<1> QED BY <1>1, <1>2 DEF NoFill

-----------------------------------------------------------------------------
\* What a reader works on.
Fills == [key : Keys, todo : SUBSET Rooms, result : Entries]

\* What the steps of a reader leave in place of his fill.
LEMMA MissFill ==
    ASSUME TypeOK, NEW r \in Readers, NEW k \in Keys, Miss(r, k)
    PROVE  /\ fill' = [fill EXCEPT ![r] = [key |-> k, todo |-> {}, result |-> NoEntry]]
           /\ fill'[r] \in Fills
BY Blank DEF Miss, TypeOK, Fills

\* The rooms still to be read are those the report or the day is about.
LEMMA ReadRoomsFill ==
    ASSUME TypeOK, NEW r \in Readers, ReaderInv(r), ReadRooms(r)
    PROVE  LET k == fill[r].key
               of == IF k.kind = "report" THEN rooms ELSE {k.room}
           IN  /\ fill'[r] = [key |-> k, todo |-> of,
                              result |-> [fill[r].result EXCEPT !.rooms = of]]
               /\ fill' = [fill EXCEPT ![r] = fill'[r]]
               /\ fill'[r] \in Fills
<1> DEFINE k == fill[r].key
           of == IF k.kind = "report" THEN rooms ELSE {k.room}
<1>1. fill[r] \in Fills
  BY DEF TypeOK, Fills
<1>2. fill'[r] = [key |-> k, todo |-> of, result |-> [fill[r].result EXCEPT !.rooms = of]]
  BY <1>1 DEF ReadRooms, TypeOK, Fills, Entries
<1>3. of \in SUBSET Rooms
  BY <1>1, Kinds DEF ReadRooms, ReaderInv, TypeOK, Fills
<1>4. fill'[r] \in Fills
  BY <1>1, <1>2, <1>3 DEF Fills, Entries
<1>5. fill' = [fill EXCEPT ![r] = fill'[r]]
  BY DEF ReadRooms, TypeOK
<1> QED BY <1>2, <1>4, <1>5

\* One room less to be read, and its bookings found.
LEMMA ReadBookingsFill ==
    ASSUME TypeOK, NEW r \in Readers, ReadBookings(r)
    PROVE  /\ NextRoom(r) \in fill[r].todo
           /\ fill'[r] = [key |-> fill[r].key, todo |-> fill[r].todo \ {NextRoom(r)},
                          result |-> [fill[r].result EXCEPT
                              !.busy = @ \cup Selected(fill[r].key, NextRoom(r))]]
           /\ \A q \in Readers \ {r} : fill'[q] = fill[q]
           /\ fill' \in [Readers -> Fills]
<1>1. fill[r] \in Fills
  BY DEF TypeOK, Fills
<1>2. NextRoom(r) \in fill[r].todo
  BY <1>1, FirstRoom DEF ReadBookings, NextRoom, Fills
<1>3. fill'[r] = [key |-> fill[r].key, todo |-> fill[r].todo \ {NextRoom(r)},
                  result |-> [fill[r].result EXCEPT
                      !.busy = @ \cup Selected(fill[r].key, NextRoom(r))]]
  <2> DEFINE next == NextRoom(r)
             more == Selected(fill[r].key, next)
  <2>1. fill'[r] = [fill[r] EXCEPT !.todo = @ \ {next}, !.result.busy = @ \cup more]
    BY DEF ReadBookings, TypeOK
  <2> HIDE DEF next, more
  <2>2. fill[r] = [key |-> fill[r].key, todo |-> fill[r].todo, result |-> fill[r].result]
    BY <1>1 DEF Fills
  <2>3. fill'[r] = [key |-> fill[r].key, todo |-> fill[r].todo \ {next},
                    result |-> [fill[r].result EXCEPT !.busy = @ \cup more]]
    BY <2>1, <2>2
  <2> QED BY <2>3 DEF next, more
<1>4. Selected(fill[r].key, NextRoom(r)) \subseteq Bookings
  BY DEF Selected
<1>5. fill'[r] \in Fills
  BY <1>1, <1>3, <1>4 DEF Fills, Entries
<1>6. \A q \in Readers \ {r} : fill'[q] = fill[q]
  BY DEF ReadBookings, TypeOK
<1>7. fill' \in [Readers -> Fills]
  BY <1>5, <1>6 DEF ReadBookings, TypeOK, Fills
<1> QED BY <1>2, <1>3, <1>6, <1>7

\* What a commit adds to the fill of a reader.
LEMMA CommitFill ==
    ASSUME TypeOK, NEW w \in Writes, Commit(w), NEW r \in Readers
    PROVE  /\ fill'[r] \in Fills
           /\ fill'[r].key = fill[r].key /\ fill'[r].todo = fill[r].todo
           /\ fill'[r].result.rooms = fill[r].result.rooms
           /\ fill'[r].result.busy = fill[r].result.busy
           /\ rpc[r] # "idle" =>
                 fill'[r].result.raced = fill[r].result.raced \cup {w}
<1>1. PICK more : more = IF rpc[r] = "idle" THEN {} ELSE {w}
  OBVIOUS
<1>2. fill[r] \in Fills /\ fill[r].result \in Entries
  BY DEF TypeOK, Fills
<1>3. fill'[r] = [fill[r] EXCEPT !.result.raced = @ \cup more]
  BY <1>1 DEF Commit
<1>4. [fill[r].result EXCEPT !.raced = @ \cup more]
        = [rooms |-> fill[r].result.rooms, busy |-> fill[r].result.busy,
           raced |-> fill[r].result.raced \cup more]
  <2>1. PICK was \in Entries : was = fill[r].result
    BY <1>2
  <2>2. [was EXCEPT !.raced = @ \cup more]
          = [rooms |-> was.rooms, busy |-> was.busy, raced |-> was.raced \cup more]
    BY DEF Entries
  <2> QED BY <2>1, <2>2
<1>5. fill'[r] = [key |-> fill[r].key, todo |-> fill[r].todo,
                  result |-> [rooms |-> fill[r].result.rooms, busy |-> fill[r].result.busy,
                              raced |-> fill[r].result.raced \cup more]]
  BY <1>2, <1>3, <1>4 DEF Fills
<1>6. fill[r].result.raced \cup more \subseteq Writes
  BY <1>1, <1>2 DEF Entries
<1>7. fill'[r].result \in Entries
  BY <1>2, <1>5, <1>6 DEF Entries
<1>8. fill'[r] \in Fills
  BY <1>2, <1>5, <1>7 DEF Fills
<1> QED BY <1>1, <1>5, <1>8

\* The values left when keys are popped.
LEMMA WithoutType ==
    ASSUME TypeOK, NEW gone
    PROVE  /\ Without(gone) \in [Keys -> Entries]
           /\ \A k \in Keys \ gone : Without(gone)[k] = entry[k]
BY Blank DEF Without, TypeOK

\* Every step keeps the types.
LEMMA TypeStep ==
    ASSUME TypeOK, \A r \in Readers : ReaderInv(r), [Next]_vars
    PROVE  TypeOK'
<1> USE CachesAssumption DEF TypeOK
<1>1. ASSUME NEW r \in Readers, NEW k \in Keys, Miss(r, k) PROVE TypeOK'
  BY <1>1, MissFill DEF Miss, Fills
<1>2. ASSUME NEW r \in Readers, ReadRooms(r) PROVE TypeOK'
  BY <1>2, ReadRoomsFill DEF ReadRooms, Fills
<1>3. ASSUME NEW r \in Readers, ReadBookings(r) PROVE TypeOK'
  BY <1>3, ReadBookingsFill DEF ReadBookings, Fills
<1>4. ASSUME NEW r \in Readers, Store(r) PROVE TypeOK'
  BY <1>4, Blank DEF Store
<1>5. ASSUME NEW m \in Rooms, CreateRoom(m) PROVE TypeOK'
  BY <1>5 DEF CreateRoom
<1>6. ASSUME NEW w \in Writes, Commit(w) PROVE TypeOK'
  <2>1. w[2] \in Bookings
    OBVIOUS
  <2>2. fill' \in [Readers -> Fills]
    BY <1>6, CommitFill DEF Commit
  <2> QED BY <1>6, <2>1, <2>2 DEF Commit, Fills, Statuses
<1>7. ASSUME NEW w \in Writes, InvalidateAvailability(w) PROVE TypeOK'
  BY <1>7, WithoutType DEF InvalidateAvailability
<1>8. ASSUME NEW w \in Writes, BeginScan(w) PROVE TypeOK'
  BY <1>8 DEF BeginScan
<1>9. ASSUME NEW w \in Writes, EndScan(w) PROVE TypeOK'
  <2>1. found' \in [Writes -> SUBSET ReportKeys]
    <3>1. CASE found' = [found EXCEPT ![w] = {}]
      BY <3>1
    <3>2. ASSUME NEW late \in SUBSET ((cached \cap ReportKeys) \ found[w]),
                 found' = [found EXCEPT ![w] = @ \cup late]
          PROVE  found' \in [Writes -> SUBSET ReportKeys]
      <4>1. found[w] \cup late \in SUBSET ReportKeys
        OBVIOUS
      <4> QED BY <3>2, <4>1
    <3> QED BY <1>9, <3>1, <3>2 DEF EndScan
  <2> QED BY <1>9, <2>1 DEF EndScan
<1>10. ASSUME NEW w \in Writes, Pop(w) PROVE TypeOK'
  <2>1. CASE found[w] = {}
    BY <1>10, <2>1 DEF Pop
  <2>2. CASE found[w] # {}
    <3>1. PICK k \in found[w] :
             /\ cached' = cached \ {k} /\ entry' = Without({k})
             /\ found' = [found EXCEPT ![w] = @ \ {k}]
             /\ UNCHANGED wpc
      BY <1>10, <2>2 DEF Pop
    <3>2. found[w] \ {k} \in SUBSET ReportKeys
      OBVIOUS
    <3>3. found' \in [Writes -> SUBSET ReportKeys]
      BY <3>1, <3>2
    <3>4. entry' \in [Keys -> Entries]
      BY <3>1, WithoutType
    <3> QED BY <1>10, <3>1, <3>3, <3>4 DEF Pop
  <2> QED BY <2>1, <2>2
<1>11. CASE UNCHANGED vars
  BY <1>11 DEF vars
<1> QED BY <1>1, <1>2, <1>3, <1>4, <1>5, <1>6, <1>7, <1>8, <1>9, <1>10, <1>11
        DEF Next, Read, Write

-----------------------------------------------------------------------------
\* What leaves a reader and the bookings alone leaves him right.
LEMMA ReaderFrame ==
    ASSUME NEW r \in Readers, ReaderInv(r),
           rpc'[r] = rpc[r], fill'[r] = fill[r], status' = status
    PROVE  ReaderInv(r)'
BY DEF ReaderInv, Seen, Confirmed, StartsWithin

\* A cached report stays right when no write that answers for it is let go.
LEMMA ReportFrame ==
    ASSUME NEW k \in ReportKeys, ReportInv(k),
           entry'[k] = entry[k], status' = status,
           \A w \in Writes : Pending(w, k) => Pending(w, k)'
    PROVE  ReportInv(k)'
BY DEF ReportInv, Accountable, Confirmed, StartsWithin

\* The same of a cached day.
LEMMA DayFrame ==
    ASSUME NEW k \in DateKeys, DayInv(k),
           entry'[k] = entry[k], status' = status, wpc' = wpc
    PROVE  DayInv(k)'
BY DEF DayInv, Confirmed, StartsWithin

\* The invariant without the types.
Right ==
    /\ \A r \in Readers : ReaderInv(r)
    /\ \A k \in cached \cap ReportKeys : ReportInv(k)
    /\ \A k \in cached \cap DateKeys : DayInv(k)

\* The steps of a reader up to the last leave the caches and the writers alone.
LEMMA ReadingStep ==
    ASSUME TypeOK, Right, NEW r \in Readers,
           UNCHANGED <<status, cached, entry, wpc, found>>,
           \A q \in Readers \ {r} : fill'[q] = fill[q] /\ rpc'[q] = rpc[q],
           ReaderInv(r)'
    PROVE  Right'
<1>1. \A q \in Readers : ReaderInv(q)'
  BY ReaderFrame DEF Right
<1>2. \A w, k : Pending(w, k) => Pending(w, k)'
  BY DEF Pending
<1>3. \A k \in cached' \cap ReportKeys : ReportInv(k)'
  BY <1>2, ReportFrame DEF Right
<1>4. \A k \in cached' \cap DateKeys : DayInv(k)'
  BY DayFrame DEF Right
<1> QED BY <1>1, <1>3, <1>4 DEF Right

\* A reader that misses knows nothing yet.
LEMMA MissStep ==
    ASSUME TypeOK, Right, NEW r \in Readers, NEW k \in Keys, Miss(r, k)
    PROVE  Right'
<1>1. fill'[r] = [key |-> k, todo |-> {}, result |-> NoEntry] /\ rpc'[r] = "missed"
  BY MissFill DEF Miss, TypeOK
<1>2. ReaderInv(r)'
  BY <1>1 DEF ReaderInv, NoEntry, Miss, TypeOK
<1>3. \A q \in Readers \ {r} : fill'[q] = fill[q] /\ rpc'[q] = rpc[q]
  BY DEF Miss, TypeOK
<1> QED BY <1>2, <1>3, ReadingStep DEF Miss

\* With no room read there is nothing to be wrong about.
LEMMA ReadRoomsStep ==
    ASSUME TypeOK, Right, NEW r \in Readers, ReadRooms(r)
    PROVE  Right'
<1> DEFINE k == fill[r].key
           of == IF k.kind = "report" THEN rooms ELSE {k.room}
<1>1. /\ fill'[r] = [key |-> k, todo |-> of, result |-> [fill[r].result EXCEPT !.rooms = of]]
      /\ rpc[r] = "missed" /\ rpc'[r] = "reading"
  BY ReadRoomsFill DEF Right, ReadRooms, TypeOK
<1>2. PICK was \in Entries : was = fill[r].result
  BY DEF TypeOK
<1>3. fill'[r].result.rooms = of /\ fill'[r].result.busy = fill[r].result.busy
  BY <1>1, <1>2 DEF Entries
<1>4. fill[r].result.busy = {}
  BY <1>1 DEF Right, ReaderInv
<1>5. Seen(r)' = {}
  BY <1>1, <1>3 DEF Seen
<1>6. fill'[r].key.kind = "availability" => of = {fill'[r].key.room}
  BY <1>1
<1>7. ReaderInv(r)'
  <2> HIDE DEF of
  <2> QED BY <1>1, <1>3, <1>4, <1>5, <1>6 DEF ReaderInv, Confirmed
<1>8. \A q \in Readers \ {r} : fill'[q] = fill[q] /\ rpc'[q] = rpc[q]
  BY DEF ReadRooms, TypeOK
<1> QED BY <1>7, <1>8, ReadingStep DEF ReadRooms

\* What is read of one more room is the truth at that instant.
LEMMA ReadBookingsStep ==
    ASSUME TypeOK, Right, NEW r \in Readers, ReadBookings(r)
    PROVE  Right'
<1>1. PICK k, next, of, busy, raced :
        /\ k = fill[r].key /\ next = NextRoom(r) /\ of = Seen(r)
        /\ busy = fill[r].result.busy /\ raced = fill[r].result.raced
  OBVIOUS
<1>2. PICK was \in Entries : was = fill[r].result
  BY DEF TypeOK
<1>3. /\ next \in fill[r].todo
      /\ fill'[r].key = k
      /\ fill'[r].todo = fill[r].todo \ {next}
      /\ fill'[r].result.rooms = fill[r].result.rooms
      /\ fill'[r].result.busy = busy \cup Selected(k, next)
      /\ fill'[r].result.raced = raced
  <2>1. /\ next \in fill[r].todo
        /\ fill'[r].key = k
        /\ fill'[r].todo = fill[r].todo \ {next}
        /\ fill'[r].result = [fill[r].result EXCEPT !.busy = @ \cup Selected(k, next)]
    <3>1. /\ NextRoom(r) \in fill[r].todo
          /\ fill'[r] = [key |-> fill[r].key, todo |-> fill[r].todo \ {NextRoom(r)},
                         result |-> [fill[r].result EXCEPT
                             !.busy = @ \cup Selected(fill[r].key, NextRoom(r))]]
      BY ReadBookingsFill
    <3> QED BY <1>1, <3>1
  <2>2. fill'[r].result = [was EXCEPT !.busy = @ \cup Selected(k, next)]
    BY <1>2, <2>1
  <2>3. /\ fill'[r].result.rooms = was.rooms
        /\ fill'[r].result.busy = was.busy \cup Selected(k, next)
        /\ fill'[r].result.raced = was.raced
    BY <2>2 DEF Entries
  <2> QED BY <1>1, <1>2, <2>1, <2>3
<1>4. /\ rpc[r] = "reading" /\ rpc'[r] = "reading" /\ status' = status
      /\ fill[r].todo \subseteq fill[r].result.rooms
  BY DEF ReadBookings, TypeOK, Right, ReaderInv
<1>5. Seen(r)' = of \cup {next}
  BY <1>1, <1>3, <1>4 DEF Seen
<1>6. PICK busier, further :
        /\ busier = busy \cup Selected(k, next) /\ further = of \cup {next}
  OBVIOUS
<1>7. Confirmed(k, further) = Confirmed(k, of) \cup Selected(k, next)
  BY <1>6 DEF Confirmed, Selected
<1>8. Confirmed(k, further)' = Confirmed(k, further)
  BY <1>4 DEF Confirmed, StartsWithin
<1>9. /\ \A b \in busy : BookingRoom[b] \in of
      /\ \A b \in Confirmed(k, of) \ busy : <<"create", b>> \in raced
      /\ \A b \in busy \ Confirmed(k, of) : <<"cancel", b>> \in raced
      /\ k.kind = "availability" => fill[r].result.rooms = {k.room}
  BY <1>1, <1>4 DEF Right, ReaderInv
<1>10. \A b \in Selected(k, next) : BookingRoom[b] = next
  BY DEF Selected
<1>11. /\ fill'[r].todo \subseteq fill'[r].result.rooms
       /\ k.kind = "availability" => fill'[r].result.rooms = {k.room}
       /\ \A b \in busier : BookingRoom[b] \in further
       /\ \A b \in Confirmed(k, further)' \ busier : <<"create", b>> \in raced
       /\ \A b \in busier \ Confirmed(k, further)' : <<"cancel", b>> \in raced
  <2>1. fill'[r].todo \subseteq fill'[r].result.rooms
    BY <1>3, <1>4
  <2>2. k.kind = "availability" => fill'[r].result.rooms = {k.room}
    BY <1>3, <1>9
  <2>3. \A b \in busier : BookingRoom[b] \in further
    BY <1>6, <1>9, <1>10
  <2>4. \A b \in Confirmed(k, further) \ busier : <<"create", b>> \in raced
    BY <1>6, <1>7, <1>9
  <2>5. \A b \in busier \ Confirmed(k, further) : <<"cancel", b>> \in raced
    BY <1>6, <1>7, <1>9
  <2> QED BY <1>8, <2>1, <2>2, <2>3, <2>4, <2>5
<1>12. ReaderInv(r)'
  BY <1>3, <1>4, <1>5, <1>6, <1>11 DEF ReaderInv, Confirmed
<1>13. \A q \in Readers \ {r} : fill'[q] = fill[q] /\ rpc'[q] = rpc[q]
  BY ReadBookingsFill DEF ReadBookings
<1> QED BY <1>12, <1>13, ReadingStep DEF ReadBookings

\* What is stored is as right as the reader that stores it.
LEMMA StoreStep ==
    ASSUME TypeOK, Right, NEW r \in Readers, Store(r)
    PROVE  Right'
<1>1. PICK key, result : key = fill[r].key /\ result = fill[r].result
  OBVIOUS
<1>2. /\ rpc[r] = "reading" /\ fill[r].todo = {} /\ key \in Keys
      /\ cached' = cached \cup {key}
      /\ entry'[key] = result /\ \A k \in Keys \ {key} : entry'[k] = entry[k]
      /\ status' = status /\ wpc' = wpc /\ found' = found
  BY <1>1 DEF Store, TypeOK
<1>3. /\ Seen(r) = result.rooms
      /\ key.kind = "availability" => result.rooms = {key.room}
      /\ \A b \in Confirmed(key, result.rooms) \ result.busy : <<"create", b>> \in result.raced
      /\ \A b \in result.busy \ Confirmed(key, result.rooms) : <<"cancel", b>> \in result.raced
  BY <1>1, <1>2 DEF Right, ReaderInv, Seen
<1>4. result.raced \subseteq Writes
  BY <1>1 DEF TypeOK, Entries
<1>5. \A k : \A of : Confirmed(k, of)' = Confirmed(k, of)
  BY <1>2 DEF Confirmed, StartsWithin
<1>6. \A q \in Readers : ReaderInv(q)'
  <2>1. ReaderInv(r)'
    BY DEF Store, TypeOK, ReaderInv
  <2>2. \A q \in Readers \ {r} : fill'[q] = fill[q] /\ rpc'[q] = rpc[q]
    BY DEF Store, TypeOK
  <2> QED BY <1>2, <2>1, <2>2, ReaderFrame DEF Right
<1>7. \A k \in cached' \cap ReportKeys : ReportInv(k)'
  <2>1. ASSUME NEW k \in ReportKeys, k = key PROVE ReportInv(k)'
    BY <1>2, <1>3, <1>4, <1>5, <2>1 DEF ReportInv, Accountable
  <2>2. ASSUME NEW k \in cached \cap ReportKeys, k # key PROVE ReportInv(k)'
    <3>1. \A w \in Writes : Pending(w, k) => Pending(w, k)'
      BY <1>2 DEF Pending
    <3> QED BY <1>2, <2>2, <3>1, ReportFrame, Kinds DEF Right
  <2> QED BY <1>2, <2>1, <2>2
<1>8. \A k \in cached' \cap DateKeys : DayInv(k)'
  <2>1. ASSUME NEW k \in DateKeys, k = key PROVE DayInv(k)'
    BY <1>2, <1>3, <1>5, <2>1, Kinds DEF DayInv
  <2>2. ASSUME NEW k \in cached \cap DateKeys, k # key PROVE DayInv(k)'
    BY <1>2, <2>2, DayFrame, Kinds DEF Right
  <2> QED BY <1>2, <2>1, <2>2
<1> QED BY <1>6, <1>7, <1>8 DEF Right

\* A new room is in no answer yet.
LEMMA CreateRoomStep ==
    ASSUME TypeOK, Right, NEW m \in Rooms, CreateRoom(m)
    PROVE  Right'
<1>1. \A r \in Readers : ReaderInv(r)'
  BY ReaderFrame DEF CreateRoom, Right
<1>2. \A w, k : Pending(w, k) => Pending(w, k)'
  BY DEF CreateRoom, Pending
<1>3. \A k \in cached' \cap ReportKeys : ReportInv(k)'
  BY <1>2, ReportFrame DEF CreateRoom, Right
<1>4. \A k \in cached' \cap DateKeys : DayInv(k)'
  BY DayFrame DEF CreateRoom, Right
<1> QED BY <1>1, <1>3, <1>4 DEF Right

\* A commit changes the truth about one booking; the write that made it is
\* accountable to what is cached, and is noted by every reader under way.
LEMMA CommitStep ==
    ASSUME TypeOK, Right, NEW w \in Writes, Commit(w)
    PROVE  Right'
<1>1. PICK b \in Bookings : b = w[2] /\ (w = <<"create", b>> \/ w = <<"cancel", b>>)
  BY CachesAssumption
<1>2. /\ \A c \in Bookings \ {b} : status'[c] = status[c]
      /\ w = <<"create", b>> => status'[b] = "confirmed" /\ wpc'[w] = "committed"
      /\ w = <<"cancel", b>> => status'[b] = "cancelled" /\ wpc'[w] = "cleared"
      /\ wpc[w] = "idle" /\ \A v \in Writes \ {w} : wpc'[v] = wpc[v]
      /\ cached' = cached /\ entry' = entry /\ found' = found /\ rpc' = rpc
  BY <1>1 DEF Commit, TypeOK
<1>3. ASSUME NEW k, NEW of, NEW c \in Bookings
      PROVE  /\ c \in Confirmed(k, of)' => c \in Confirmed(k, of) \/ w = <<"create", c>>
             /\ c \in Confirmed(k, of) => c \in Confirmed(k, of)' \/ w = <<"cancel", c>>
  BY <1>1, <1>2 DEF Confirmed, StartsWithin
<1>4. ASSUME NEW r \in Readers PROVE ReaderInv(r)'
  <2>1. PICK k, of, busy, raced :
          /\ k = fill[r].key /\ of = Seen(r)
          /\ busy = fill[r].result.busy /\ raced = fill[r].result.raced
    OBVIOUS
  <2>2. /\ fill'[r].key = k /\ fill'[r].todo = fill[r].todo
        /\ fill'[r].result.rooms = fill[r].result.rooms
        /\ fill'[r].result.busy = busy
        /\ rpc[r] # "idle" => fill'[r].result.raced = raced \cup {w}
    BY <2>1, CommitFill
  <2>3. Seen(r)' = of
    BY <2>1, <2>2 DEF Seen
  <2>4. busy \subseteq Bookings /\ ReaderInv(r)
    BY <2>1 DEF TypeOK, Entries, Right
  <2>5. CASE rpc[r] = "missed"
    BY <1>2, <2>1, <2>2, <2>4, <2>5 DEF ReaderInv
  <2>6. CASE rpc[r] = "reading"
    <3>1. \A c \in Confirmed(k, of)' \ busy : <<"create", c>> \in raced \cup {w}
      BY <1>3, <2>1, <2>4, <2>6 DEF ReaderInv, Confirmed
    <3>2. \A c \in busy \ Confirmed(k, of)' : <<"cancel", c>> \in raced \cup {w}
      BY <1>3, <2>1, <2>4, <2>6 DEF ReaderInv
    <3>3. /\ fill[r].todo \subseteq fill[r].result.rooms
          /\ k.kind = "availability" => fill[r].result.rooms = {k.room}
          /\ \A c \in busy : BookingRoom[c] \in of
      BY <2>1, <2>4, <2>6 DEF ReaderInv
    <3> QED BY <1>2, <2>2, <2>3, <2>6, <3>1, <3>2, <3>3 DEF ReaderInv, Confirmed
  <2>7. CASE rpc[r] \notin {"missed", "reading"}
    BY <1>2, <2>7 DEF ReaderInv
  <2> QED BY <2>5, <2>6, <2>7
<1>5. ASSUME NEW k \in cached' \cap ReportKeys PROVE ReportInv(k)'
  <2>1. ReportInv(k) /\ k \in Keys
    BY <1>2, Kinds DEF Right
  <2>2. \A v \in Writes : Accountable(v, k) => Accountable(v, k)'
    BY <1>2 DEF Accountable, Pending
  <2>3. Accountable(w, k)'
    BY <1>1, <1>2 DEF Accountable, Pending
  <2>4. PICK of, busy : of = entry[k].rooms /\ busy = entry[k].busy
    OBVIOUS
  <2>5. busy \subseteq Bookings
    BY <2>1, <2>4 DEF TypeOK, Entries
  <2>6. \A c \in Confirmed(k, of)' \ busy : Accountable(<<"create", c>>, k)'
    BY <1>3, <2>1, <2>2, <2>3, <2>4 DEF ReportInv, Accountable, Confirmed
  <2>7. \A c \in busy \ Confirmed(k, of)' : Accountable(<<"cancel", c>>, k)'
    BY <1>3, <2>1, <2>2, <2>3, <2>4, <2>5 DEF ReportInv, Accountable
  <2> QED BY <1>2, <2>4, <2>6, <2>7 DEF ReportInv, Confirmed
<1>6. ASSUME NEW k \in cached' \cap DateKeys PROVE DayInv(k)'
  <2>1. DayInv(k)
    BY <1>2 DEF Right
  <2>2. ASSUME NEW c \in Confirmed(k, {k.room})' \ entry[k].busy, k.date[2] = "iso"
        PROVE  \/ <<"create", c>> \in entry[k].raced
               \/ <<"create", c>> \in Writes /\ wpc'[<<"create", c>>] = "committed"
    <3>1. c \in Bookings
      BY DEF Confirmed
    <3>2. CASE w = <<"create", c>>
      BY <1>1, <1>2, <3>2
    <3>3. CASE w # <<"create", c>> /\ c \in Confirmed(k, {k.room})
      BY <1>2, <2>1, <2>2, <3>3 DEF DayInv
    <3> QED BY <1>3, <3>1, <3>2, <3>3
  <2> QED BY <1>2, <2>2 DEF DayInv
<1> QED BY <1>4, <1>5, <1>6 DEF Right

\* A creation that drops a day drops every entry that would have to show its
\* booking.
LEMMA InvalidateStep ==
    ASSUME TypeOK, Right, NEW w \in Writes, InvalidateAvailability(w)
    PROVE  Right'
<1> DEFINE gone == {k \in DateKeys : k.room = BookingRoom[w[2]] /\ k.date = DateOf(w[2])}
<1>1. /\ cached' = cached \ gone /\ \A k \in Keys \ gone : entry'[k] = entry[k]
      /\ wpc[w] = "committed" /\ wpc'[w] = "cleared"
      /\ \A v \in Writes \ {w} : wpc'[v] = wpc[v]
      /\ UNCHANGED <<status, found, rpc, fill>>
  BY WithoutType DEF InvalidateAvailability, TypeOK
<1>2. \A r \in Readers : ReaderInv(r)'
  BY <1>1, ReaderFrame DEF Right
<1>3. ASSUME NEW k \in cached' \cap ReportKeys PROVE ReportInv(k)'
  <2>1. k \in Keys \ gone /\ k \in cached
    BY <1>1, Kinds
  <2>2. \A v \in Writes : Pending(v, k) => Pending(v, k)'
    BY <1>1 DEF Pending
  <2> QED BY <1>1, <2>1, <2>2, ReportFrame DEF Right
<1>4. ASSUME NEW k \in cached' \cap DateKeys PROVE DayInv(k)'
  <2>1. k \in Keys \ gone /\ k \in cached /\ DayInv(k)
    BY <1>1, Kinds DEF Right
  <2>2. ASSUME NEW b \in Confirmed(k, {k.room}), k.date[2] = "iso"
        PROVE  w # <<"create", b>>
    <3>1. BookingRoom[b] = k.room /\ StartDay[b] = k.date[1]
      BY Kinds, <2>2 DEF Confirmed, StartsWithin
    <3>2. k.date = DateOf(b)
      BY <2>2, <3>1 DEF DateOf, DateKeys
    <3> QED BY <2>1, <3>1, <3>2
  <2>3. entry'[k] = entry[k] /\ Confirmed(k, {k.room})' = Confirmed(k, {k.room})
    BY <1>1, <2>1 DEF Confirmed, StartsWithin
  <2> QED BY <1>1, <2>1, <2>2, <2>3 DEF DayInv
<1> QED BY <1>2, <1>3, <1>4 DEF Right

\* A scan starts with every cached report still to be popped.
LEMMA BeginScanStep ==
    ASSUME TypeOK, Right, NEW w \in Writes, BeginScan(w)
    PROVE  Right'
<1>1. /\ wpc[w] = "cleared" /\ wpc'[w] = "scanning" /\ found'[w] = cached \cap ReportKeys
      /\ \A v \in Writes \ {w} : wpc'[v] = wpc[v] /\ found'[v] = found[v]
      /\ UNCHANGED <<status, cached, entry, rpc, fill>>
  BY DEF BeginScan, TypeOK
<1>2. \A r \in Readers : ReaderInv(r)'
  BY <1>1, ReaderFrame DEF Right
<1>3. ASSUME NEW k \in cached' \cap ReportKeys PROVE ReportInv(k)'
  <2>1. \A v \in Writes : Pending(v, k) => Pending(v, k)'
    BY <1>1 DEF Pending
  <2> QED BY <1>1, <2>1, ReportFrame DEF Right
<1>4. ASSUME NEW k \in cached' \cap DateKeys PROVE DayInv(k)'
  <2>1. \A v \in Writes : wpc[v] = "committed" => wpc'[v] = "committed"
    BY <1>1
  <2>2. DayInv(k) /\ Confirmed(k, {k.room})' = Confirmed(k, {k.room})
    BY <1>1 DEF Right, Confirmed, StartsWithin
  <2> QED BY <1>1, <2>1, <2>2 DEF DayInv
<1> QED BY <1>2, <1>3, <1>4 DEF Right

\* A scan that ends well has lost no report it started with.
LEMMA EndScanStep ==
    ASSUME TypeOK, Right, NEW w \in Writes, EndScan(w)
    PROVE  Right'
<1>1. /\ wpc[w] = "scanning"
      /\ wpc'[w] = "failed" \/ (wpc'[w] = "popping" /\ found[w] \subseteq found'[w])
      /\ \A v \in Writes \ {w} : wpc'[v] = wpc[v] /\ found'[v] = found[v]
      /\ UNCHANGED <<status, cached, entry, rpc, fill>>
  BY DEF EndScan, TypeOK
<1>2. \A r \in Readers : ReaderInv(r)'
  BY <1>1, ReaderFrame DEF Right
<1>3. ASSUME NEW k \in cached' \cap ReportKeys PROVE ReportInv(k)'
  <2>1. \A v \in Writes : Pending(v, k) => Pending(v, k)'
    BY <1>1 DEF Pending
  <2> QED BY <1>1, <2>1, ReportFrame DEF Right
<1>4. ASSUME NEW k \in cached' \cap DateKeys PROVE DayInv(k)'
  <2>1. \A v \in Writes : wpc[v] = "committed" => wpc'[v] = "committed"
    BY <1>1
  <2>2. DayInv(k) /\ Confirmed(k, {k.room})' = Confirmed(k, {k.room})
    BY <1>1 DEF Right, Confirmed, StartsWithin
  <2> QED BY <1>1, <2>1, <2>2 DEF DayInv
<1> QED BY <1>2, <1>3, <1>4 DEF Right

\* A popped report is gone; whoever has popped all of his list has nothing left
\* to answer for.
LEMMA PopStep ==
    ASSUME TypeOK, Right, NEW w \in Writes, Pop(w)
    PROVE  Right'
<1>1. PICK gone :
        /\ gone \subseteq found[w] /\ gone \subseteq ReportKeys
        /\ cached' = cached \ gone /\ \A k \in Keys \ gone : entry'[k] = entry[k]
        /\ \/ wpc'[w] = "done" /\ found[w] = {}
           \/ wpc'[w] = "popping" /\ found'[w] = found[w] \ gone
  <2>1. CASE found[w] = {}
    BY <2>1 DEF Pop, TypeOK
  <2>2. CASE found[w] # {}
    <3>1. PICK k \in found[w] :
             /\ cached' = cached \ {k} /\ entry' = Without({k})
             /\ found' = [found EXCEPT ![w] = @ \ {k}]
             /\ UNCHANGED wpc
      BY <2>2 DEF Pop
    <3> QED BY <3>1, WithoutType DEF Pop, TypeOK
  <2> QED BY <2>1, <2>2
<1>2. /\ wpc[w] = "popping"
      /\ \A v \in Writes \ {w} : wpc'[v] = wpc[v] /\ found'[v] = found[v]
      /\ UNCHANGED <<status, rpc, fill>>
  BY DEF Pop, TypeOK
<1>3. \A r \in Readers : ReaderInv(r)'
  BY <1>2, ReaderFrame DEF Right
<1>4. ASSUME NEW k \in cached' \cap ReportKeys PROVE ReportInv(k)'
  <2>1. k \in cached /\ k \in Keys \ gone
    BY <1>1, Kinds
  <2>2. \A v \in Writes : Pending(v, k) => Pending(v, k)'
    BY <1>1, <1>2, <2>1 DEF Pending
  <2> QED BY <1>1, <1>2, <2>1, <2>2, ReportFrame DEF Right
<1>5. ASSUME NEW k \in cached' \cap DateKeys PROVE DayInv(k)'
  <2>1. k \in cached /\ k \in Keys \ gone
    BY <1>1, Kinds
  <2>2. \A v \in Writes : wpc[v] = "committed" => wpc'[v] = "committed"
    BY <1>2
  <2>3. DayInv(k) /\ Confirmed(k, {k.room})' = Confirmed(k, {k.room})
    BY <1>2, <2>1 DEF Right, Confirmed, StartsWithin
  <2> QED BY <1>1, <2>1, <2>2, <2>3 DEF DayInv
<1> QED BY <1>3, <1>4, <1>5 DEF Right

-----------------------------------------------------------------------------
\* Every step keeps the invariant.
LEMMA CachesInvStep == CachesInv /\ [Next]_vars => CachesInv'
<1> SUFFICES ASSUME TypeOK, Right, [Next]_vars PROVE TypeOK' /\ Right'
  BY DEF CachesInv, Right
<1>1. TypeOK'
  BY TypeStep DEF Right
<1>2. ASSUME NEW r \in Readers, Read(r) PROVE Right'
  BY <1>2, MissStep, ReadRoomsStep, ReadBookingsStep, StoreStep DEF Read
<1>3. ASSUME NEW w \in Writes, Write(w) PROVE Right'
  BY <1>3, CommitStep, InvalidateStep, BeginScanStep, EndScanStep, PopStep DEF Write
<1>4. CASE UNCHANGED vars
  <2>1. \A r \in Readers : ReaderInv(r)'
    BY <1>4, ReaderFrame DEF vars, Right
  <2>2. \A w, k : Pending(w, k) => Pending(w, k)'
    BY <1>4 DEF vars, Pending
  <2>3. \A k \in cached' \cap ReportKeys : ReportInv(k)'
    BY <1>4, <2>2, ReportFrame DEF vars, Right
  <2>4. \A k \in cached' \cap DateKeys : DayInv(k)'
    BY <1>4, DayFrame DEF vars, Right
  <2> QED BY <1>1, <2>1, <2>3, <2>4 DEF Right
<1>5. ASSUME NEW m \in Rooms, CreateRoom(m) PROVE Right'
  BY <1>5, CreateRoomStep
<1> QED BY <1>1, <1>2, <1>3, <1>4, <1>5 DEF Next

(***************************************************************************)
(* The types, and who is accountable for what the caches say.              *)
(***************************************************************************)
THEOREM CachesInvAlways == Spec => []CachesInv
<1>1. Init => CachesInv
  BY Blank, CachesAssumption DEF Init, CachesInv, TypeOK, ReaderInv, Statuses
<1> QED BY <1>1, CachesInvStep, PTL DEF Spec

(***************************************************************************)
(* For any readers and writers: a cached report is wrong about a booking   *)
(* only by a write that overtook it or is still on its way.                *)
(***************************************************************************)
THEOREM StaleReportsAreRaces == Spec => []ReportStaleOnlyByRace
<1>1. CachesInv => ReportStaleOnlyByRace
  <2> SUFFICES ASSUME CachesInv, NEW k \in cached \cap ReportKeys, NEW b \in Differing(k)
               PROVE  \E w \in Writes : w[2] = b /\ Excused(w, k)
    BY DEF ReportStaleOnlyByRace
  <2>1. \E w : w[2] = b /\ Accountable(w, k)
    <3>1. CASE b \in Confirmed(k, entry[k].rooms) \ entry[k].busy
      BY <3>1 DEF CachesInv, ReportInv
    <3>2. CASE b \in entry[k].busy \ Confirmed(k, entry[k].rooms)
      BY <3>2 DEF CachesInv, ReportInv
    <3> QED BY <3>1, <3>2 DEF Differing
  <2> QED BY <2>1 DEF Accountable, Pending, Excused
<1> QED BY <1>1, CachesInvAlways, PTL

(***************************************************************************)
(* For any readers and writers: a cached day in the spelling the code      *)
(* invalidates hides a booking only while its creation is on its way, or   *)
(* because the creation overtook the answer.                               *)
(***************************************************************************)
THEOREM HiddenBookingsAreRaces == Spec => []HiddenOnlyByRace
<1>1. CachesInv => HiddenOnlyByRace
  BY DEF CachesInv, DayInv, HiddenOnlyByRace, Excused
<1> QED BY <1>1, CachesInvAlways, PTL

=============================================================================
