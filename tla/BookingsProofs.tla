--------------------------- MODULE BookingsProofs ---------------------------
(***************************************************************************)
(* Proofs about the booking core.  Everything is proved of FaultSpec, the  *)
(* specification with restarts and failed refreshes, unless it needs the   *)
(* absence of restarts (the stats) or of interference.                     *)
(***************************************************************************)
EXTENDS BookingsProperties, FiniteSetTheorems, WellFoundedInduction, TLAPS

USE DEF CreateSteps, CancelSteps, InFlight, Answers

-----------------------------------------------------------------------------
(***************************************************************************)
(* Which objects a request holds at which step, and that a request writes  *)
(* its row once: the companion of TypeOK.                                  *)
(***************************************************************************)
HasBooking(r) == pc[r] \in CreateSteps \/ status[r] # "absent"
HasEntry(r) == pc[r] \in CancelSteps \/ r \in ledger
Unwritten(r) == pc[r] \in {"idle", "conflict", "quota", "code", "insert", "settle"}

Shape ==
    \A r \in Requests :
        /\ HasBooking(r) => booking[r] \in Booking
        /\ HasEntry(r) => entry[r] \in RefundLog /\ status[entry[r].booking] # "absent"
        /\ pc[r] \in {"refunds", "shown"} => view[r] \in Detail
        /\ Unwritten(r) => status[r] = "absent" /\ r \notin ledger

WellFormed == TypeOK /\ Shape

\* The price of a booking object is an integer, whatever its duration.
LEMMA PriceIsInt ==
    ASSUME WellFormed, NEW b \in Requests, HasBooking(b)
    PROVE  Price(b) \in Int
BY NoticeAssumption, BookingsAssumption
   DEF WellFormed, Shape, Price, Booking

\* The server starts well formed.
LEMMA WellFormedInit == Init => WellFormed
BY BookingsAssumption DEF Init, WellFormed, TypeOK, Shape, HasBooking, HasEntry,
   Unwritten, NoStats

(***************************************************************************)
(* Every step keeps the types and the shape: one step per action.          *)
(***************************************************************************)
LEMMA WellFormedStep ==
    ASSUME WellFormed, [FaultNext]_vars
    PROVE  WellFormed'
<1> USE BookingsAssumption DEF WellFormed
<1>a. ASSUME NEW r \in Requests, NEW user \in Users, NEW room \in Rooms,
             NEW start \in Starts, NEW d \in Durations,
             BeginCreate(r, user, room, start, start + d)
      PROVE  WellFormed'
  <2>1. [user |-> user, room |-> room, start |-> start, end |-> start + d,
         created |-> clock] \in Booking
    <3>1. start \in Int /\ d \in Int
      OBVIOUS
    <3>2. start + d \in Int
      BY <3>1
    <3> QED BY <3>1, <3>2 DEF TypeOK, Booking
  <2>2. TypeOK'
    BY <1>a, <2>1 DEF TypeOK, BeginCreate, Goto, memory, history
  <2>3. Shape'
    BY <1>a, <2>1 DEF TypeOK, Shape, BeginCreate, Goto, memory, history,
       HasBooking, HasEntry, Unwritten
  <2> QED BY <2>2, <2>3
<1>b. ASSUME NEW r \in Requests, CheckConflict(r) PROVE WellFormed'
  <2>1. Committed \subseteq Requests
    BY DEF TypeOK, Committed, Rows
  <2>2. TypeOK'
    BY <1>b, <2>1 DEF TypeOK, CheckConflict, Goto, database, memory
  <2>3. Shape'
    BY <1>b DEF TypeOK, Shape, CheckConflict, Goto, database, memory,
       HasBooking, HasEntry, Unwritten
  <2> QED BY <2>2, <2>3
<1>c. ASSUME NEW r \in Requests, CheckQuota(r) PROVE WellFormed'
  <2>1. Committed \subseteq Requests
    BY DEF TypeOK, Committed, Rows
  <2>2. TypeOK'
    BY <1>c, <2>1 DEF TypeOK, CheckQuota, Goto, database, memory
  <2>3. Shape'
    BY <1>c DEF TypeOK, Shape, CheckQuota, Goto, database, memory,
       HasBooking, HasEntry, Unwritten
  <2> QED BY <2>2, <2>3
<1>d. ASSUME NEW r \in Requests, IssueCode(r) PROVE WellFormed'
  <2>2. TypeOK'
    BY <1>d DEF TypeOK, IssueCode, Goto, history
  <2>3. Shape'
    BY <1>d DEF TypeOK, Shape, IssueCode, Goto, history,
       HasBooking, HasEntry, Unwritten
  <2> QED BY <2>2, <2>3
<1>e. ASSUME NEW r \in Requests, Insert(r) PROVE WellFormed'
  <2>2. TypeOK'
    BY <1>e DEF TypeOK, Insert, Goto, memory, history
  <2>3. Shape'
    BY <1>e DEF TypeOK, Shape, Insert, Goto, memory, history,
       HasBooking, HasEntry, Unwritten, RefundLog
  <2> QED BY <2>2, <2>3
<1>f. ASSUME NEW r \in Requests, RecordCreate(r) PROVE WellFormed'
  <2>1. booking[r].room \in Rooms /\ Price(r) \in Int
    BY <1>f, PriceIsInt DEF Shape, RecordCreate, HasBooking, Booking
  <2>2. TypeOK'
    BY <1>f, <2>1 DEF TypeOK, RecordCreate, Goto, database, history, StatsAfterCreate
  <2>3. Shape'
    BY <1>f DEF TypeOK, Shape, RecordCreate, Goto, database, history,
       HasBooking, HasEntry, Unwritten
  <2> QED BY <2>2, <2>3
<1>g. ASSUME NEW r \in Requests, NEW user \in Users, NEW b \in Requests,
             BeginCancel(r, user, b)
      PROVE  WellFormed'
  <2>1. booking[b].start - clock \in Int
    BY <1>g DEF TypeOK, Shape, BeginCancel, Visible, Rows, HasBooking, Booking
  <2>2. RefundPercent(booking[b].start - clock) \in Percents
    BY DEF RefundPercent, Percents
  <2>3. [booking |-> b, user |-> user,
         percent |-> RefundPercent(booking[b].start - clock)] \in RefundLog
    BY <2>2 DEF RefundLog
  <2>4. Committed \subseteq Requests
    BY DEF TypeOK, Committed, Rows
  <2>5. TypeOK'
    BY <1>g, <2>3, <2>4 DEF TypeOK, BeginCancel, Goto, memory
  <2>6. Shape'
    BY <1>g, <2>3 DEF TypeOK, Shape, BeginCancel, Goto, memory, Visible, Rows,
       HasBooking, HasEntry, Unwritten
  <2> QED BY <2>5, <2>6
<1>h. ASSUME NEW r \in Requests, CommitCancel(r) PROVE WellFormed'
  <2>1. entry[r] \in RefundLog /\ status[entry[r].booking] # "absent"
    BY <1>h DEF Shape, CommitCancel, HasEntry
  <2>2. entry[r].booking \in Requests
    BY <2>1 DEF RefundLog
  <2>3. TypeOK'
    BY <1>h DEF TypeOK, CommitCancel, Goto, memory, history
  <2>4. Shape'
    BY <1>h, <2>1, <2>2 DEF TypeOK, Shape, CommitCancel, Goto, memory, history,
       HasBooking, HasEntry, Unwritten, RefundLog
  <2> QED BY <2>3, <2>4
<1>i. ASSUME NEW r \in Requests, RecordCancel(r) PROVE WellFormed'
  <2>1. entry[r].booking \in Requests /\ HasBooking(entry[r].booking)
    BY <1>i DEF Shape, RecordCancel, HasEntry, RefundLog, HasBooking
  <2>2. booking[entry[r].booking].room \in Rooms /\ Price(entry[r].booking) \in Int
    BY <2>1, PriceIsInt DEF Shape, Booking
  <2>3. TypeOK'
    <3>1. pc' \in [Requests -> {"idle"} \cup InFlight \cup Answers]
      BY <1>i DEF TypeOK, RecordCancel, Goto
    <3>2. stats' \in [Rooms -> [count : Nat, revenue : Int]]
      <4> DEFINE room == booking[entry[r].booking].room
                 price == Price(entry[r].booking)
      <4>1. stats' = StatsAfterCancel(room, price) /\ stats \in [Rooms -> [count : Nat, revenue : Int]]
        BY <1>i DEF TypeOK, RecordCancel
      <4>2. room \in Rooms /\ price \in Int
        BY <2>2
      <4> HIDE DEF room, price
      <4> QED BY <4>1, <4>2 DEF StatsAfterCancel
    <3> QED BY <1>i, <3>1, <3>2 DEF TypeOK, RecordCancel, database, history
  <2>4. Shape'
    BY <1>i DEF TypeOK, Shape, RecordCancel, Goto, database, history,
       HasBooking, HasEntry, Unwritten
  <2> QED BY <2>3, <2>4
<1>j. ASSUME NEW r \in Requests, NEW user \in Users, NEW b \in Requests,
             BeginGet(r, user, b)
      PROVE  WellFormed'
  <2>1. [booking |-> b, user |-> user, status |-> status[b], refunds |-> {}] \in Detail
    BY <1>j DEF TypeOK, BeginGet, Visible, Rows, Detail
  <2>2. TypeOK'
    BY <1>j, <2>1 DEF TypeOK, BeginGet, Goto, database, memory, history
  <2>3. Shape'
    BY <1>j, <2>1 DEF TypeOK, Shape, BeginGet, Goto, database, memory, history,
       HasBooking, HasEntry, Unwritten
  <2> QED BY <2>2, <2>3
<1>k. ASSUME NEW r \in Requests, LoadRefunds(r) PROVE WellFormed'
  <2>1. [view[r] EXCEPT !.refunds = RefundsOf(view[r].booking)] \in Detail
    BY <1>k DEF TypeOK, Shape, LoadRefunds, Detail, RefundsOf
  <2>2. TypeOK'
    BY <1>k, <2>1 DEF TypeOK, LoadRefunds, Goto, database, memory, history
  <2>3. Shape'
    BY <1>k, <2>1 DEF TypeOK, Shape, LoadRefunds, Goto, database, memory, history,
       HasBooking, HasEntry, Unwritten
  <2> QED BY <2>2, <2>3
<1>l. ASSUME NEW r \in Requests, Refuse(r) \/ CommitFails(r) \/ RefreshFails(r)
      PROVE  WellFormed'
  <2>1. /\ pc' = [pc EXCEPT ![r] = "refused"] \/ pc' = [pc EXCEPT ![r] = "failed"]
        /\ UNCHANGED <<clock, database, view, memory, history>>
    BY <1>l DEF Refuse, CommitFails, RefreshFails, Goto
  <2> QED
    BY <2>1 DEF TypeOK, Shape, database, memory, history, HasBooking, HasEntry, Unwritten
<1>m. CASE Restart
  BY <1>m DEF TypeOK, Shape, Restart, database, history, HasBooking, HasEntry,
     Unwritten, NoStats
<1>n. CASE Tick
  BY <1>n DEF TypeOK, Shape, Tick, database, memory, history, HasBooking,
     HasEntry, Unwritten
<1>o. CASE UNCHANGED vars
  BY <1>o DEF TypeOK, Shape, vars, database, memory, history, HasBooking,
     HasEntry, Unwritten
<1> QED
  BY <1>a, <1>b, <1>c, <1>d, <1>e, <1>f, <1>g, <1>h, <1>i, <1>j, <1>k, <1>l,
     <1>m, <1>n, <1>o DEF FaultNext, Next, Begin, Step

(***************************************************************************)
(* The state always has its types, whatever the interleaving and however   *)
(* often the process restarts.                                             *)
(***************************************************************************)
THEOREM WellFormedAlways == FaultSpec => []WellFormed
BY WellFormedInit, WellFormedStep, PTL DEF FaultSpec

\* Every variable keeps its type, through failures and restarts.
THEOREM TypeCorrect == FaultSpec => []TypeOK
BY WellFormedAlways, PTL DEF WellFormed

-----------------------------------------------------------------------------
(***************************************************************************)
(* A creation that has passed its conflict check.  Five actions write the  *)
(* database or read it for a decision; every other step leaves it alone    *)
(* and takes no request into a checked or a settling state.                *)
(***************************************************************************)
Checked(r) == pc[r] \in {"quota", "code", "insert", "record"} \/ status[r] # "absent"
Pending(r) == pc[r] \in {"quota", "code", "insert"}

Quiet ==
    /\ UNCHANGED <<booking, status, entry, ledger, before>>
    /\ \A q \in Requests : /\ Checked(q)' => Checked(q)
                           /\ Pending(q)' => Pending(q)
                           /\ HasEntry(q)' => HasEntry(q)
                           /\ pc'[q] = "settle" => pc[q] = "settle"

BeginsCreate == \E r \in Requests, user \in Users, room \in Rooms,
                   start \in Starts, d \in Durations :
                    BeginCreate(r, user, room, start, start + d)
BeginsCancel == \E r \in Requests, user \in Users, b \in Requests : BeginCancel(r, user, b)

\* Every step is quiet unless it begins a creation or a cancellation, reads the
\* conflicts, inserts a row or commits a cancellation.
LEMMA StepKinds ==
    ASSUME WellFormed, [FaultNext]_vars
    PROVE  \/ BeginsCreate \/ BeginsCancel \/ Quiet
           \/ \E r \in Requests : CheckConflict(r) \/ Insert(r) \/ CommitCancel(r)
<1> USE DEF WellFormed, TypeOK, Checked, Pending, HasEntry, Quiet
<1>a. ASSUME NEW r \in Requests, CheckQuota(r) \/ IssueCode(r) \/ RecordCreate(r)
      PROVE  Quiet
  BY <1>a DEF CheckQuota, IssueCode, RecordCreate, Goto, database, history
<1>b. ASSUME NEW r \in Requests,
             RecordCancel(r) \/ LoadRefunds(r) \/ CommitFails(r) \/ RefreshFails(r)
      PROVE  Quiet
  BY <1>b DEF RecordCancel, LoadRefunds, CommitFails, RefreshFails, Goto,
     database, history
<1>c. ASSUME NEW r \in Requests, NEW user \in Users, NEW b \in Requests,
             BeginGet(r, user, b) \/ Refuse(r)
      PROVE  Quiet
  BY <1>c DEF BeginGet, Refuse, Goto, database, history
<1>d. CASE Restart \/ Tick \/ UNCHANGED vars
  BY <1>d DEF Restart, Tick, vars, database, history
<1>e. CASE \E r \in Requests : Refuse(r)
  BY <1>e DEF Refuse, Goto, database, history
<1> QED
  BY <1>a, <1>b, <1>c, <1>d, <1>e
     DEF FaultNext, Next, Begin, Step, BeginsCreate, BeginsCancel

-----------------------------------------------------------------------------
(***************************************************************************)
(* The refund row and the status change are one commit.                    *)
(***************************************************************************)
LEMMA CancelledIffRefundedStep ==
    ASSUME WellFormed, CancelledIffRefunded, [FaultNext]_vars
    PROVE  CancelledIffRefunded'
<1> USE DEF CancelledIffRefunded, RefundsOf, Rows
<1>a. ASSUME NEW r \in Requests, Insert(r) PROVE CancelledIffRefunded'
  BY <1>a DEF WellFormed, TypeOK, Shape, Insert, Unwritten
<1>b. ASSUME NEW r \in Requests, NEW user \in Users, NEW b \in Requests,
             BeginCancel(r, user, b)
      PROVE  CancelledIffRefunded'
  BY <1>b DEF WellFormed, TypeOK, Shape, BeginCancel, Unwritten
<1>c. ASSUME NEW r \in Requests, CommitCancel(r) PROVE CancelledIffRefunded'
  <2>1. entry[r].booking \in Rows
    BY <1>c DEF WellFormed, Shape, HasEntry, CommitCancel, RefundLog
  <2>2. \A b \in Requests : status'[b] = IF b = entry[r].booking THEN "cancelled"
                                                              ELSE status[b]
    BY <1>c DEF WellFormed, TypeOK, CommitCancel
  <2>3. ledger' = ledger \cup {r} /\ entry' = entry
    BY <1>c DEF CommitCancel
  <2> QED BY <2>1, <2>2, <2>3 DEF WellFormed, TypeOK
<1>d. ASSUME UNCHANGED <<status, entry, ledger>> PROVE CancelledIffRefunded'
  BY <1>d
<1> QED
  BY StepKinds, <1>a, <1>b, <1>c, <1>d
     DEF BeginsCreate, BeginsCancel, BeginCreate, CheckConflict, Quiet, database

(***************************************************************************)
(* At every instant, and after any crash, a booking is cancelled exactly   *)
(* when a refund of it is in the ledger: cancel_booking's one commit.      *)
(***************************************************************************)
THEOREM CancelledExactlyWhenRefunded == FaultSpec => []CancelledIffRefunded
<1>1. Init => CancelledIffRefunded
  BY DEF Init, CancelledIffRefunded, Rows, RefundsOf
<1> QED
  BY <1>1, WellFormedAlways, CancelledIffRefundedStep, PTL DEF FaultSpec

-----------------------------------------------------------------------------
(***************************************************************************)
(* What a creation knows once it has read its conflicts, and a             *)
(* cancellation once it has read its booking: `before' stays a set of      *)
(* committed requests; no booking of it that is still confirmed overlaps   *)
(* the creation's own, and no refund of it is of the same booking.         *)
(***************************************************************************)
BeforeCommitted == \A r \in Requests : before[r] \subseteq Committed

CheckedFree ==
    \A r, a \in Requests :
        Checked(r) /\ a \in before[r] /\ a \in Confirmed
                   /\ booking[a].room = booking[r].room
        => ~Overlaps(booking[a], booking[r])

SettledFresh ==
    \A r, c \in Requests :
        HasEntry(r) /\ c \in before[r] /\ c \in ledger
        => entry[c].booking # entry[r].booking

RaceInv == BeforeCommitted /\ CheckedFree /\ SettledFresh

\* Every step, fault and restart keeps the race invariant.
LEMMA RaceInvStep ==
    ASSUME WellFormed, CancelledIffRefunded, RaceInv, [FaultNext]_vars
    PROVE  RaceInv'
<1> USE DEF WellFormed, RaceInv, Committed, Confirmed, Rows
<1>a. CASE BeginsCreate
  <2> PICK r \in Requests, user \in Users, room \in Rooms, start \in Starts, d \in Durations :
          BeginCreate(r, user, room, start, start + d)
    BY <1>a DEF BeginsCreate
  <2>1. BeforeCommitted'
    BY DEF TypeOK, BeforeCommitted, BeginCreate, history
  <2>2. CheckedFree'
    BY DEF TypeOK, Shape, Unwritten, CheckedFree, Checked, BeginCreate, Goto, history
  <2>3. SettledFresh'
    BY DEF TypeOK, SettledFresh, HasEntry, BeginCreate, Goto, history
  <2> QED BY <2>1, <2>2, <2>3
<1>b. ASSUME NEW r \in Requests, CheckConflict(r) PROVE RaceInv'
  <2>1. BeforeCommitted'
    BY <1>b DEF TypeOK, BeforeCommitted, CheckConflict, database
  <2>2. CheckedFree'
    BY <1>b DEF TypeOK, Shape, Unwritten, CheckedFree, Checked, CheckConflict,
       Goto, database, Existing
  <2>3. SettledFresh'
    BY <1>b DEF TypeOK, Shape, Unwritten, SettledFresh, HasEntry, CheckConflict,
       Goto, database
  <2> QED BY <2>1, <2>2, <2>3
<1>c. ASSUME NEW r \in Requests, Insert(r) PROVE RaceInv'
  <2>1. BeforeCommitted'
    BY <1>c DEF TypeOK, BeforeCommitted, Insert, history
  <2>2. CheckedFree'
    BY <1>c DEF TypeOK, Shape, Unwritten, BeforeCommitted, CheckedFree, Checked,
       Insert, Goto, history
  <2>3. SettledFresh'
    BY <1>c DEF TypeOK, SettledFresh, HasEntry, Insert, Goto, history
  <2> QED BY <2>1, <2>2, <2>3
<1>d. CASE BeginsCancel
  <2> PICK r \in Requests, user \in Users, b \in Requests : BeginCancel(r, user, b)
    BY <1>d DEF BeginsCancel
  <2>1. BeforeCommitted'
    BY DEF TypeOK, BeforeCommitted, BeginCancel
  <2>2. CheckedFree'
    BY DEF TypeOK, Shape, Unwritten, CheckedFree, Checked, BeginCancel, Goto
  <2>3. SettledFresh'
    BY DEF TypeOK, Shape, Unwritten, SettledFresh, HasEntry, BeginCancel, Goto,
       AlreadyCancelled, BeforeCommitted, CancelledIffRefunded, RefundsOf
  <2> QED BY <2>1, <2>2, <2>3
<1>e. ASSUME NEW r \in Requests, CommitCancel(r) PROVE RaceInv'
  <2>1. BeforeCommitted'
    BY <1>e DEF TypeOK, BeforeCommitted, CommitCancel, history
  <2>2. CheckedFree'
    BY <1>e DEF TypeOK, Shape, HasEntry, CheckedFree, Checked, CommitCancel, Goto,
       history
  <2>3. SettledFresh'
    BY <1>e DEF TypeOK, Shape, Unwritten, SettledFresh, HasEntry, CommitCancel,
       Goto, BeforeCommitted, history
  <2> QED BY <2>1, <2>2, <2>3
<1>f. CASE Quiet
  BY <1>f DEF Quiet, BeforeCommitted, CheckedFree, SettledFresh
<1> QED
  BY StepKinds, <1>a, <1>b, <1>c, <1>d, <1>e, <1>f

\* On the server as it runs and fails, nothing a handler had read overlaps what
\* it went on to insert, and no refund it could see is of the same booking.
THEOREM RaceInvAlways == FaultSpec => []RaceInv
<1>1. Init => RaceInv
  BY DEF Init, RaceInv, BeforeCommitted, CheckedFree, SettledFresh, Checked,
     HasEntry, Confirmed
<1> QED
  BY <1>1, WellFormedAlways, CancelledExactlyWhenRefunded, RaceInvStep, PTL
     DEF FaultSpec

(***************************************************************************)
(* Two confirmed bookings of one room share a tick only if each was read   *)
(* for by the other's conflict check too early to be seen: _has_conflict   *)
(* never overlooks a committed booking, and its interval test is exact.    *)
(***************************************************************************)
THEOREM DoubleBookingsAreRaces == FaultSpec => []DoubleBookingOnlyByRace
<1>1. WellFormed /\ RaceInv => DoubleBookingOnlyByRace
  <2> SUFFICES ASSUME WellFormed, RaceInv, NEW a \in Requests, NEW b \in Requests,
                      DoubleBooked(a, b)
               PROVE  a \notin before[b] /\ b \notin before[a]
    BY DEF DoubleBookingOnlyByRace
  <2>1. booking[a] \in Booking /\ booking[b] \in Booking
    BY DEF WellFormed, Shape, HasBooking, DoubleBooked, Confirmed
  <2>2. PICK t \in Ticks(a) : t \in Ticks(b)
    BY DEF DoubleBooked
  <2>3. Overlaps(booking[a], booking[b]) /\ Overlaps(booking[b], booking[a])
    BY <2>1, <2>2 DEF Ticks, Overlaps, Booking
  <2> QED
    BY <2>3 DEF RaceInv, CheckedFree, Checked, DoubleBooked, Confirmed
<1> QED
  BY <1>1, WellFormedAlways, RaceInvAlways, PTL

(***************************************************************************)
(* One booking is refunded twice only by cancellations that both read it   *)
(* before either was committed.                                            *)
(***************************************************************************)
THEOREM DoubleRefundsAreRaces == FaultSpec => []DoubleRefundOnlyByRace
<1>1. WellFormed /\ RaceInv => DoubleRefundOnlyByRace
  BY DEF WellFormed, TypeOK, RaceInv, SettledFresh, HasEntry, DoubleRefundOnlyByRace
<1> QED
  BY <1>1, WellFormedAlways, RaceInvAlways, PTL

-----------------------------------------------------------------------------
(***************************************************************************)
(* Without interference.  Between its check and its insert a creation's    *)
(* slot stays free, because nobody else inserts into the room; between its *)
(* read and its commit a cancellation's booking stays confirmed.           *)
(***************************************************************************)
SlotFree ==
    \A r \in Requests, a \in Confirmed :
        Pending(r) /\ booking[a].room = booking[r].room
        => ~Overlaps(booking[a], booking[r])

NoOverlap ==
    \A a, b \in Confirmed :
        a # b /\ booking[a].room = booking[b].room => ~Overlaps(booking[a], booking[b])

StillConfirmed ==
    \A r \in Requests : pc[r] = "settle" => status[entry[r].booking] = "confirmed"

ExclusiveInv == Exclusive /\ SlotFree /\ NoOverlap /\ StillConfirmed /\ AtMostOneRefund

\* Steps that leave no two handlers interfering keep the exclusive invariant.
LEMMA ExclusiveInvStep ==
    ASSUME WellFormed, CancelledIffRefunded, ExclusiveInv, [FaultNext]_vars,
           Exclusive' \/ UNCHANGED vars
    PROVE  ExclusiveInv'
<1> USE DEF WellFormed, ExclusiveInv, Confirmed
<1>0. Exclusive'
  BY DEF Exclusive, Interfere, vars, database
<1>a. CASE BeginsCreate
  <2> PICK r \in Requests, user \in Users, room \in Rooms, start \in Starts, d \in Durations :
          BeginCreate(r, user, room, start, start + d)
    BY <1>a DEF BeginsCreate
  <2>1. SlotFree' /\ NoOverlap'
    BY DEF TypeOK, Shape, Unwritten, Pending, SlotFree, NoOverlap, BeginCreate, Goto
  <2>2. StillConfirmed' /\ AtMostOneRefund'
    BY DEF TypeOK, StillConfirmed, AtMostOneRefund, BeginCreate, Goto
  <2> QED BY <1>0, <2>1, <2>2
<1>b. ASSUME NEW r \in Requests, CheckConflict(r) PROVE ExclusiveInv'
  <2>1. SlotFree' /\ NoOverlap'
    BY <1>b DEF TypeOK, Pending, SlotFree, NoOverlap, CheckConflict, Goto, database,
       Existing
  <2>2. StillConfirmed' /\ AtMostOneRefund'
    BY <1>b DEF TypeOK, StillConfirmed, AtMostOneRefund, CheckConflict, Goto, database
  <2> QED BY <1>0, <2>1, <2>2
<1>c. ASSUME NEW r \in Requests, Insert(r) PROVE ExclusiveInv'
  <2>1. \A q \in Requests : q # r /\ Pending(q) => booking[q].room # booking[r].room
    BY <1>c DEF Exclusive, Interfere, Pending, Insert
  <2>2. SlotFree'
    BY <1>c, <2>1 DEF TypeOK, Pending, SlotFree, Insert, Goto
  <2>3. NoOverlap'
    BY <1>c DEF TypeOK, Pending, SlotFree, NoOverlap, Insert, Overlaps
  <2>4. StillConfirmed' /\ AtMostOneRefund'
    BY <1>c DEF TypeOK, Shape, HasEntry, StillConfirmed, AtMostOneRefund, Insert, Goto,
       RefundLog
  <2> QED BY <1>0, <2>2, <2>3, <2>4
<1>d. CASE BeginsCancel
  <2> PICK r \in Requests, user \in Users, b \in Requests : BeginCancel(r, user, b)
    BY <1>d DEF BeginsCancel
  <2>1. SlotFree' /\ NoOverlap'
    BY DEF TypeOK, Pending, SlotFree, NoOverlap, BeginCancel, Goto
  <2>2. StillConfirmed' /\ AtMostOneRefund'
    BY DEF TypeOK, Shape, Unwritten, StillConfirmed, AtMostOneRefund, BeginCancel, Goto,
       Visible, Rows, AlreadyCancelled
  <2> QED BY <1>0, <2>1, <2>2
<1>e. ASSUME NEW r \in Requests, CommitCancel(r) PROVE ExclusiveInv'
  <2>1. entry[r] \in RefundLog /\ entry[r].booking \in Requests
    BY <1>e DEF Shape, HasEntry, CommitCancel, RefundLog
  <2>2. SlotFree' /\ NoOverlap'
    BY <1>e, <2>1 DEF TypeOK, Pending, SlotFree, NoOverlap, CommitCancel, Goto
  <2>3. \A q \in Requests : q # r /\ pc[q] = "settle" => entry[q].booking # entry[r].booking
    BY <1>e DEF Exclusive, Interfere, CommitCancel
  <2>4. StillConfirmed'
    BY <1>e, <2>1, <2>3 DEF TypeOK, StillConfirmed, CommitCancel, Goto
  <2>5. \A c \in ledger : entry[c].booking # entry[r].booking
    BY <1>e, <2>1 DEF StillConfirmed, CancelledIffRefunded, RefundsOf, Rows, CommitCancel
  <2>6. AtMostOneRefund'
    BY <1>e, <2>5 DEF AtMostOneRefund, CommitCancel
  <2> QED BY <1>0, <2>2, <2>4, <2>6
<1>f. CASE Quiet
  BY <1>0, <1>f DEF Quiet, SlotFree, NoOverlap, StillConfirmed, AtMostOneRefund
<1> QED
  BY StepKinds, <1>a, <1>b, <1>c, <1>d, <1>e, <1>f

\* A server without interference that may restart is a server that may fail.
LEMMA ExclusiveIsFault == RestartSpec => FaultSpec
<1>1. [(Next \/ Restart) /\ Exclusive']_vars => [FaultNext]_vars
  BY DEF FaultNext
<1> QED BY <1>1, PTL DEF RestartSpec, FaultSpec

\* A server without interference is one that may also restart.
LEMMA ExclusiveIsRestart == ExclusiveSpec => RestartSpec
<1>1. [Next /\ Exclusive']_vars => [(Next \/ Restart) /\ Exclusive']_vars
  OBVIOUS
<1> QED BY <1>1, PTL DEF RestartSpec, ExclusiveSpec

\* Without interference a handler has seen everything it could collide with.
THEOREM ExclusiveInvAlways == RestartSpec => []ExclusiveInv
<1>1. Init => ExclusiveInv
  BY DEF Init, ExclusiveInv, Exclusive, Interfere, SlotFree, NoOverlap,
     StillConfirmed, AtMostOneRefund, Confirmed
<1>2. [(Next \/ Restart) /\ Exclusive']_vars
      => [FaultNext]_vars /\ (Exclusive' \/ UNCHANGED vars)
  BY DEF FaultNext
<1> QED
  BY <1>1, <1>2, ExclusiveIsFault, WellFormedAlways, CancelledExactlyWhenRefunded,
     ExclusiveInvStep, PTL DEF RestartSpec

(***************************************************************************)
(* If creations of one room and of one user never overlap in time, no room *)
(* is sold twice for one tick, restarts included.                          *)
(***************************************************************************)
THEOREM ExclusiveNeverDoubleBooks == RestartSpec => []NoDoubleBooking
<1>1. WellFormed /\ ExclusiveInv => NoDoubleBooking
  <2> SUFFICES ASSUME WellFormed, ExclusiveInv, NEW a \in Requests, NEW b \in Requests,
                      DoubleBooked(a, b)
               PROVE  FALSE
    BY DEF NoDoubleBooking
  <2>1. booking[a] \in Booking /\ booking[b] \in Booking
    BY DEF WellFormed, Shape, HasBooking, DoubleBooked, Confirmed
  <2>2. PICK t \in Ticks(a) : t \in Ticks(b)
    BY DEF DoubleBooked
  <2>3. Overlaps(booking[a], booking[b])
    BY <2>1, <2>2 DEF Ticks, Overlaps, Booking
  <2> QED BY <2>3 DEF ExclusiveInv, NoOverlap, DoubleBooked
<1> QED
  BY <1>1, ExclusiveIsFault, WellFormedAlways, ExclusiveInvAlways, PTL

(***************************************************************************)
(* If cancellations of one booking never overlap in time, a booking is     *)
(* refunded at most once.                                                  *)
(***************************************************************************)
THEOREM ExclusiveRefundsOnce == RestartSpec => []AtMostOneRefund
BY ExclusiveInvAlways, PTL DEF ExclusiveInv

-----------------------------------------------------------------------------
(***************************************************************************)
(* Tenants.  The handlers compare organisations through the room; the      *)
(* invariant that makes it enough is that a booking's room is of its       *)
(* user's organisation.                                                    *)
(***************************************************************************)
TenantInv ==
    \A r \in Requests :
        /\ HasBooking(r) => RoomOrg[booking[r].room] = UserOrg[booking[r].user]
        /\ HasEntry(r) => MayAct(entry[r].user, entry[r].booking)
        /\ pc[r] \in {"refunds", "shown"} =>
               MayAct(view[r].user, view[r].booking) /\ status[view[r].booking] # "absent"

\* Every step keeps requests within what their users may see.
LEMMA TenantInvStep ==
    ASSUME WellFormed, TenantInv, [FaultNext]_vars
    PROVE  TenantInv'
<1> USE DEF WellFormed, TypeOK, TenantInv, HasBooking, HasEntry, MayAct
<1>a. CASE BeginsCreate
  <2> PICK r \in Requests, user \in Users, room \in Rooms, start \in Starts, d \in Durations :
          BeginCreate(r, user, room, start, start + d)
    BY <1>a DEF BeginsCreate
  <2> QED BY DEF BeginCreate, Goto, Shape, Unwritten
<1>b. CASE BeginsCancel
  BY <1>b DEF BeginsCancel, BeginCancel, Goto, Visible, Rows
<1>c. ASSUME NEW r \in Requests, NEW user \in Users, NEW b \in Requests,
             BeginGet(r, user, b)
      PROVE  TenantInv'
  BY <1>c DEF BeginGet, Goto, Visible, Rows, database
<1>d. ASSUME NEW r \in Requests, LoadRefunds(r) PROVE TenantInv'
  <2>1. view[r] \in Detail
    BY <1>d DEF Shape, LoadRefunds
  <2>2. view'[r].user = view[r].user /\ view'[r].booking = view[r].booking
    BY <1>d, <2>1 DEF LoadRefunds, Detail
  <2>3. \A q \in Requests : q # r => view'[q] = view[q]
    BY <1>d DEF LoadRefunds
  <2> QED BY <1>d, <2>2, <2>3 DEF LoadRefunds, Goto, database
<1>e. ASSUME NEW r \in Requests, Insert(r) PROVE TenantInv'
  BY <1>e DEF Insert, Goto
<1>f. ASSUME NEW r \in Requests, CommitCancel(r) PROVE TenantInv'
  BY <1>f DEF CommitCancel, Goto, Shape, RefundLog
<1>g. ASSUME NEW r \in Requests,
             CheckConflict(r) \/ CheckQuota(r) \/ IssueCode(r) \/ RecordCreate(r)
      PROVE  TenantInv'
  BY <1>g DEF CheckConflict, CheckQuota, IssueCode, RecordCreate, Goto, database
<1>h. ASSUME NEW r \in Requests,
             RecordCancel(r) \/ Refuse(r) \/ CommitFails(r) \/ RefreshFails(r)
      PROVE  TenantInv'
  BY <1>h DEF RecordCancel, Refuse, CommitFails, RefreshFails, Goto, database
<1>i. CASE Restart \/ Tick \/ UNCHANGED vars
  BY <1>i DEF Restart, Tick, vars, database
<1> QED
  BY <1>a, <1>b, <1>c, <1>d, <1>e, <1>f, <1>g, <1>h, <1>i
     DEF FaultNext, Next, Begin, Step, BeginsCreate, BeginsCancel

(***************************************************************************)
(* Nobody cancels or is shown a booking of another organisation, and only  *)
(* admins one of another user.                                             *)
(***************************************************************************)
THEOREM TenantsStayApart == FaultSpec => []TenantsApart
<1>1. Init => TenantInv
  BY DEF Init, TenantInv, HasBooking, HasEntry
<1>2. WellFormed /\ TenantInv => TenantsApart
  BY DEF TenantInv, TenantsApart, HasEntry, WellFormed, TypeOK
<1> QED
  BY <1>1, <1>2, WellFormedAlways, TenantInvStep, PTL DEF FaultSpec

-----------------------------------------------------------------------------
(***************************************************************************)
(* What no step undoes: a row keeps its columns, a booking that is         *)
(* committed never becomes confirmed again, a refund stays where it is and *)
(* a request that inserted a row never inserts a refund.                   *)
(***************************************************************************)
LEMMA RowsStay ==
    ASSUME WellFormed, [FaultNext]_vars
    PROVE  /\ \A b \in Rows : b \in Rows' /\ booking'[b] = booking[b]
           /\ Committed \subseteq Committed'
           /\ \A b \in Committed : b \in Confirmed' => b \in Confirmed
           /\ \A b \in Requests : RefundsOf(b) \subseteq RefundsOf(b)'
           /\ \A c \in Committed : c \in ledger' => c \in ledger /\ entry'[c] = entry[c]
<1> USE DEF WellFormed, TypeOK, Rows, Committed, Confirmed, RefundsOf
<1>a. ASSUME BeginsCreate \/ BeginsCancel
      PROVE  /\ UNCHANGED <<status, ledger>>
             /\ \A b \in Requests : status[b] # "absent" => booking'[b] = booking[b]
             /\ \A c \in ledger : entry'[c] = entry[c]
  BY <1>a DEF BeginsCreate, BeginsCancel, BeginCreate, BeginCancel, Shape, Unwritten
<1>b. ASSUME NEW r \in Requests, Insert(r)
      PROVE  /\ UNCHANGED <<booking, entry, ledger>> /\ r \notin Committed
             /\ \A b \in Requests \ {r} : status'[b] = status[b]
             /\ status'[r] = "confirmed"
  BY <1>b DEF Insert, Shape, Unwritten
<1>c. ASSUME NEW r \in Requests, CommitCancel(r)
      PROVE  /\ UNCHANGED <<booking, entry>> /\ ledger' = ledger \cup {r}
             /\ r \notin Committed
             /\ \A b \in Requests : status'[b] = status[b] \/ (status'[b] = "cancelled" /\ status[b] # "absent")
  BY <1>c DEF CommitCancel, Shape, HasEntry, RefundLog, Unwritten
<1>d. ASSUME Quiet \/ \E r \in Requests : CheckConflict(r)
      PROVE  UNCHANGED <<booking, status, entry, ledger>>
  BY <1>d DEF Quiet, CheckConflict, database
<1> QED BY <1>a, <1>b, <1>c, <1>d, StepKinds

\* A request that has begun keeps what it asked for.
LEMMA BookingsStay ==
    ASSUME WellFormed, [FaultNext]_vars, NEW q \in Requests, pc[q] # "idle"
    PROVE  booking'[q] = booking[q]
<1> USE DEF WellFormed, TypeOK
<1>a. CASE BeginsCreate
  BY <1>a DEF BeginsCreate, BeginCreate
<1>b. CASE ~BeginsCreate
  BY <1>b, StepKinds DEF BeginsCancel, BeginCancel, Quiet, CheckConflict, Insert, CommitCancel, database
<1> QED BY <1>a, <1>b

\* A creation that has passed its quota check.
PastQuota(r) == pc[r] \in {"code", "insert", "record"} \/ status[r] # "absent"

(***************************************************************************)
(* Only the two checks of a creation pass their verdict on it, and only    *)
(* the check of the quota writes beforeQuota.                              *)
(***************************************************************************)
LEMMA VerdictsStay ==
    ASSUME WellFormed, [FaultNext]_vars, NEW q \in Requests
    PROVE  /\ pc'[q] = "ROOM_CONFLICT" =>
                 CheckConflict(q) \/ (pc[q] = "ROOM_CONFLICT" /\ before'[q] = before[q])
           /\ CheckQuota(q) \/
                 /\ pc'[q] = "QUOTA_EXCEEDED" => pc[q] = "QUOTA_EXCEEDED"
                 /\ PastQuota(q)' => PastQuota(q)
                 /\ beforeQuota'[q] = beforeQuota[q]
           /\ clock' \in Nat /\ clock <= clock'
<1> USE DEF WellFormed, TypeOK, PastQuota
<1> DEFINE Goal == /\ pc'[q] = "ROOM_CONFLICT" => pc[q] = "ROOM_CONFLICT" /\ before'[q] = before[q]
                   /\ pc'[q] = "QUOTA_EXCEEDED" => pc[q] = "QUOTA_EXCEEDED"
                   /\ PastQuota(q)' => PastQuota(q)
                   /\ beforeQuota'[q] = beforeQuota[q]
                   /\ clock' \in Nat /\ clock <= clock'
<1>a. CASE BeginsCreate
  <2>1. Goal
    BY <1>a DEF BeginsCreate, BeginCreate, Goto, memory, history
  <2> QED BY <2>1
<1>b. CASE BeginsCancel
  <2>1. Goal
    BY <1>b DEF BeginsCancel, BeginCancel, Goto, memory
  <2> QED BY <2>1
<1> DEFINE Kept == /\ pc'[q] = "QUOTA_EXCEEDED" => pc[q] = "QUOTA_EXCEEDED"
                   /\ PastQuota(q)' => PastQuota(q)
                   /\ beforeQuota'[q] = beforeQuota[q]
                   /\ clock' \in Nat /\ clock <= clock'
<1>c. ASSUME NEW r \in Requests, CheckConflict(r) PROVE Goal \/ (CheckConflict(q) /\ Kept)
  <2>1. /\ UNCHANGED <<clock, status, beforeQuota>>
        /\ \A s \in Requests \ {r} : pc'[s] = pc[s] /\ before'[s] = before[s]
        /\ pc'[r] \in {"ROOM_CONFLICT", "quota"}
    BY <1>c DEF CheckConflict, Goto, database, memory
  <2>2. CASE r = q
    BY <1>c, <2>1, <2>2
  <2>3. CASE r # q
    BY <2>1, <2>3
  <2> QED BY <2>2, <2>3
<1>d. ASSUME NEW r \in Requests, CheckQuota(r) PROVE Goal \/ (r = q /\ UNCHANGED clock /\ pc'[q] # "ROOM_CONFLICT")
  BY <1>d DEF CheckQuota, Goto, database, memory
<1>e. ASSUME NEW r \in Requests, IssueCode(r) \/ Insert(r) \/ RecordCreate(r) PROVE Goal
  BY <1>e DEF IssueCode, Insert, RecordCreate, Goto, database, memory, history
<1>f. ASSUME NEW r \in Requests, CommitCancel(r) PROVE Goal
  BY <1>f DEF CommitCancel, Goto, memory, history, Shape, HasEntry, RefundLog
<1>g. ASSUME NEW r \in Requests, RecordCancel(r) \/ LoadRefunds(r) \/ Refuse(r) PROVE Goal
  BY <1>g DEF RecordCancel, LoadRefunds, Refuse, Goto, database, memory, history
<1>h. ASSUME NEW r \in Requests, CommitFails(r) \/ RefreshFails(r) PROVE Goal
  BY <1>h DEF CommitFails, RefreshFails, Goto, database, memory, history
<1>i. ASSUME NEW r \in Requests, NEW user, NEW b, BeginGet(r, user, b) PROVE Goal
  BY <1>i DEF BeginGet, Goto, database, memory, history
<1>j. CASE Restart \/ Tick \/ UNCHANGED vars
  <2>1. Goal
    BY <1>j DEF Restart, Tick, vars, database, memory, history
  <2> QED BY <2>1
<1> QED
  BY <1>a, <1>b, <1>c, <1>d, <1>e, <1>f, <1>g, <1>h, <1>i, <1>j
     DEF FaultNext, Next, Begin, Step, BeginsCreate, BeginsCancel

-----------------------------------------------------------------------------
(***************************************************************************)
(* The detail of a booking.  Its refunds are read after its status, and    *)
(* refunds are only ever added.                                            *)
(***************************************************************************)
DetailInv ==
    \A r \in Requests :
        /\ pc[r] = "refunds" /\ view[r].status = "cancelled" => RefundsOf(view[r].booking) # {}
        /\ pc[r] = "shown" /\ view[r].status = "cancelled" => view[r].refunds # {}

\* Every step keeps the promise of the details being read.
LEMMA DetailInvStep ==
    ASSUME WellFormed, CancelledIffRefunded, DetailInv, [FaultNext]_vars
    PROVE  DetailInv'
<1> USE DEF WellFormed, TypeOK
<1>1. ASSUME NEW r \in Requests, view[r] \in Detail, RefundsOf(view[r].booking) # {}
      PROVE  RefundsOf(view[r].booking)' # {} \/ view'[r] # view[r]
  <2>1. view[r].booking \in Requests
    BY <1>1 DEF Detail
  <2>2. RefundsOf(view[r].booking) \subseteq RefundsOf(view[r].booking)' \/ view'[r] # view[r]
    BY <2>1, RowsStay
  <2> QED BY <1>1, <2>2
<1>2. ASSUME NEW r \in Requests, pc'[r] = "refunds", pc[r] = "refunds", view'[r] = view[r],
             view[r].status = "cancelled"
      PROVE  RefundsOf(view[r].booking)' # {}
  BY <1>1, <1>2 DEF DetailInv, Shape
<1>a. ASSUME UNCHANGED view,
             \A q \in Requests : /\ pc'[q] = "refunds" => pc[q] = "refunds"
                                 /\ pc'[q] = "shown" => pc[q] = "shown"
      PROVE  DetailInv'
  BY <1>2, <1>a DEF DetailInv
<1>b. ASSUME NEW r \in Requests, NEW user \in Users, NEW b \in Requests, BeginGet(r, user, b)
      PROVE  DetailInv'
  <2>1. /\ view' = [view EXCEPT ![r] = [booking |-> b, user |-> user, status |-> status[b],
                                        refunds |-> {}]]
        /\ pc' = [pc EXCEPT ![r] = "refunds"]
        /\ UNCHANGED <<status, entry, ledger>> /\ b \in Rows
    BY <1>b DEF BeginGet, Goto, database, Visible
  <2>2. view'[r].booking = b /\ view'[r].status = status[b] /\ pc'[r] = "refunds"
    BY <2>1
  <2>3. status[b] = "cancelled" => RefundsOf(b)' # {}
    BY <2>1 DEF CancelledIffRefunded, RefundsOf
  <2>4. \A q \in Requests \ {r} : pc'[q] = pc[q] /\ view'[q] = view[q]
    BY <2>1
  <2> QED BY <1>2, <2>2, <2>3, <2>4 DEF DetailInv
<1>c. ASSUME NEW r \in Requests, LoadRefunds(r) PROVE DetailInv'
  <2>1. /\ pc[r] = "refunds" /\ pc' = [pc EXCEPT ![r] = "shown"]
        /\ view' = [view EXCEPT ![r].refunds = RefundsOf(view[r].booking)]
    BY <1>c DEF LoadRefunds, Goto
  <2>2. view[r] \in Detail
    BY <2>1 DEF Shape
  <2>3. view'[r].status = view[r].status /\ view'[r].refunds = RefundsOf(view[r].booking)
    BY <2>1, <2>2 DEF Detail
  <2>4. \A q \in Requests \ {r} : pc'[q] = pc[q] /\ view'[q] = view[q]
    BY <2>1
  <2> QED BY <1>2, <2>1, <2>3, <2>4 DEF DetailInv
<1>d. CASE BeginsCreate \/ BeginsCancel
  BY <1>a, <1>d DEF BeginsCreate, BeginsCancel, BeginCreate, BeginCancel, Goto
<1>e. ASSUME NEW r \in Requests,
             CheckConflict(r) \/ CheckQuota(r) \/ IssueCode(r) \/ Insert(r) \/ RecordCreate(r)
      PROVE  DetailInv'
  BY <1>a, <1>e DEF CheckConflict, CheckQuota, IssueCode, Insert, RecordCreate, Goto
<1>f. ASSUME NEW r \in Requests,
             \/ CommitCancel(r) \/ RecordCancel(r) \/ Refuse(r) \/ CommitFails(r) \/ RefreshFails(r)
      PROVE  DetailInv'
  BY <1>a, <1>f DEF CommitCancel, RecordCancel, Refuse, CommitFails, RefreshFails, Goto
<1>g. CASE Restart \/ Tick \/ UNCHANGED vars
  BY <1>a, <1>g DEF Restart, Tick, vars
<1> QED
  BY <1>b, <1>c, <1>d, <1>e, <1>f, <1>g
     DEF FaultNext, Next, Begin, Step, BeginsCreate, BeginsCancel

(***************************************************************************)
(* A detail that says cancelled shows a refund, with any interleaving,     *)
(* failure or restart.                                                     *)
(***************************************************************************)
THEOREM CancelledDetailsShowRefunds == FaultSpec => []CancelledDetailShowsRefund
<1>1. Init => DetailInv
  BY DEF Init, DetailInv
<1>2. DetailInv => CancelledDetailShowsRefund
  BY DEF DetailInv, CancelledDetailShowsRefund
<1> QED
  BY <1>1, <1>2, WellFormedAlways, CancelledExactlyWhenRefunded, DetailInvStep, PTL DEF FaultSpec

-----------------------------------------------------------------------------
(***************************************************************************)
(* Refusals.  Every creation asks for at least one tick, so two windows    *)
(* that overlap share one.                                                 *)
(***************************************************************************)
Verdicts == {"ROOM_CONFLICT", "QUOTA_EXCEEDED"}
HasWindow(r) == HasBooking(r) \/ pc[r] \in Verdicts

Windows ==
    \A r \in Requests : HasWindow(r) =>
        /\ booking[r] \in Booking
        /\ booking[r].start < booking[r].end
        /\ booking[r].created <= clock

\* A window that is accepted is not empty.
LEMMA AcceptedNotEmpty ==
    ASSUME NEW start \in Int, NEW end \in Int, WindowAccepted(start, end, clock)
    PROVE  start < end
<1>1. (end - start) \div HOUR >= 1
  BY BookingsAssumption DEF WindowAccepted
<1>2. \A d \in Int, h \in Nat \ {0} : d <= 0 => d \div h <= 0
  OBVIOUS
<1> QED BY <1>1, <1>2, NoticeAssumption

\* Windows that overlap share a tick.
LEMMA OverlapShares ==
    ASSUME NEW a \in Requests, NEW b \in Requests, booking[a] \in Booking, booking[b] \in Booking,
           booking[a].start < booking[a].end, booking[b].start < booking[b].end,
           Overlaps(booking[a], booking[b])
    PROVE  Ticks(a) \cap Ticks(b) # {}
<1> DEFINE t == IF booking[a].start >= booking[b].start THEN booking[a].start ELSE booking[b].start
<1>1. t \in Ticks(a) /\ t \in Ticks(b)
  BY DEF Booking, Overlaps, Ticks
<1> QED BY <1>1

\* Only BeginCreate gives a request a window.
LEMMA WindowsBegin ==
    ASSUME WellFormed, [FaultNext]_vars, NEW q \in Requests, HasWindow(q)'
    PROVE  \/ HasWindow(q)
           \/ \E user \in Users, room \in Rooms, start \in Starts, d \in Durations :
                BeginCreate(q, user, room, start, start + d)
<1> USE DEF WellFormed, TypeOK, HasWindow, HasBooking, Verdicts
<1>a. CASE BeginsCreate
  <2> PICK r \in Requests, user \in Users, room \in Rooms, start \in Starts, d \in Durations :
          BeginCreate(r, user, room, start, start + d)
    BY <1>a DEF BeginsCreate
  <2>1. r # q => HasWindow(q)
    BY DEF BeginCreate, Goto
  <2> QED BY <2>1
<1>b. CASE BeginsCancel
  BY <1>b DEF BeginsCancel, BeginCancel, Goto
<1>c. ASSUME NEW r \in Requests, CheckConflict(r) \/ CheckQuota(r) \/ IssueCode(r) PROVE HasWindow(q)
  BY <1>c DEF CheckConflict, CheckQuota, IssueCode, Goto, database
<1>d. ASSUME NEW r \in Requests, Insert(r) \/ RecordCreate(r) \/ RecordCancel(r) PROVE HasWindow(q)
  BY <1>d DEF Insert, RecordCreate, RecordCancel, Goto, database
<1>e. ASSUME NEW r \in Requests, CommitCancel(r) PROVE HasWindow(q)
  BY <1>e DEF CommitCancel, Goto, Shape, HasEntry, RefundLog
<1>f. ASSUME NEW r \in Requests, LoadRefunds(r) \/ Refuse(r) \/ CommitFails(r) \/ RefreshFails(r)
      PROVE  HasWindow(q)
  BY <1>f DEF LoadRefunds, Refuse, CommitFails, RefreshFails, Goto, database
<1>g. ASSUME NEW r \in Requests, NEW user, NEW b, BeginGet(r, user, b) PROVE HasWindow(q)
  BY <1>g DEF BeginGet, Goto, database
<1>h. CASE Restart \/ Tick \/ UNCHANGED vars
  BY <1>h DEF Restart, Tick, vars, database
<1> QED
  BY <1>a, <1>b, <1>c, <1>d, <1>e, <1>f, <1>g, <1>h
     DEF FaultNext, Next, Begin, Step, BeginsCreate, BeginsCancel

\* Every step keeps the windows of the requests that have one.
LEMMA WindowsStep ==
    ASSUME WellFormed, Windows, [FaultNext]_vars
    PROVE  Windows'
<1> SUFFICES ASSUME NEW q \in Requests, HasWindow(q)'
             PROVE  (booking[q] \in Booking /\ booking[q].start < booking[q].end
                        /\ booking[q].created <= clock)'
  BY DEF Windows
<1>1. clock \in Nat /\ clock' \in Nat /\ clock <= clock'
  BY VerdictsStay DEF WellFormed, TypeOK
<1>2. CASE HasWindow(q)
  <2>1. pc[q] # "idle"
    BY <1>2 DEF WellFormed, Shape, HasWindow, HasBooking, Verdicts, Unwritten
  <2>2. booking'[q] = booking[q]
    BY <2>1, BookingsStay
  <2>3. booking[q] \in Booking /\ booking[q].start < booking[q].end /\ booking[q].created <= clock
    BY <1>2 DEF Windows
  <2> QED BY <1>1, <2>2, <2>3 DEF Booking
<1>3. ASSUME NEW user \in Users, NEW room \in Rooms, NEW start \in Starts, NEW d \in Durations,
             BeginCreate(q, user, room, start, start + d)
      PROVE  (booking[q] \in Booking /\ booking[q].start < booking[q].end
                /\ booking[q].created <= clock)'
  <2>1. start \in Int /\ start + d \in Int
    BY BookingsAssumption
  <2>2. start < start + d
    BY <1>3, <2>1, AcceptedNotEmpty DEF BeginCreate
  <2>3. booking'[q] = [user |-> user, room |-> room, start |-> start, end |-> start + d,
                       created |-> clock]
    BY <1>3 DEF BeginCreate, WellFormed, TypeOK
  <2> QED BY <1>1, <2>1, <2>2, <2>3 DEF Booking
<1> QED BY <1>2, <1>3, WindowsBegin

\* Nobody has a window at the start.
THEOREM WindowsAlways == FaultSpec => []Windows
<1>1. Init => Windows
  BY DEF Init, Windows, HasWindow, HasBooking, Verdicts
<1> QED BY <1>1, WindowsStep, WellFormedAlways, PTL DEF FaultSpec

(***************************************************************************)
(* What was held when a request looked: everything confirmed then, and no  *)
(* later cancellation of it counts against the verdict.                    *)
(***************************************************************************)
LEMMA HeldIsWhatWasConfirmed ==
    ASSUME WellFormed, CancelledIffRefunded
    PROVE  Confirmed \subseteq StillHeld(Committed)
BY DEF WellFormed, TypeOK, CancelledIffRefunded, RefundsOf, StillHeld, Committed,
   Confirmed, Rows

\* Every step keeps what was held in a set of committed requests.
LEMMA HeldStays ==
    ASSUME WellFormed, [FaultNext]_vars, NEW S, S \subseteq Committed
    PROVE  \A b \in StillHeld(S) :
             /\ b \in Rows' /\ booking'[b] = booking[b]
             /\ \A c \in S \cap ledger' : entry'[c].booking # b
BY RowsStay DEF StillHeld

\* The bookings ahead that were held when r counted its quota.
Ahead(r) ==
    {b \in StillHeld(beforeQuota[r]) :
        booking[b].user = booking[r].user /\ booking[b].start > booking[r].created}

ConflictShown(r) ==
    \E b \in StillHeld(before[r]) :
        booking[b].room = booking[r].room /\ Ticks(b) \cap Ticks(r) # {}

\* A verdict is justified when it is given, and stays so.
LEMMA RefusalsJustifiedStep ==
    ASSUME WellFormed, CancelledIffRefunded, Windows, RefusalsJustified, [FaultNext]_vars,
           BeforeCommitted, \A r \in Requests : beforeQuota[r] \subseteq Committed
    PROVE  RefusalsJustified'
<1> USE DEF WellFormed, TypeOK
<1> SUFFICES ASSUME NEW r \in Requests
             PROVE  /\ pc'[r] = "ROOM_CONFLICT" => ConflictShown(r)'
                    /\ pc'[r] = "QUOTA_EXCEEDED" => Cardinality(Ahead(r)') >= QUOTA_LIMIT
  BY DEF RefusalsJustified, ConflictShown, Ahead
<1>0. IsFiniteSet(Ahead(r)) /\ IsFiniteSet(Ahead(r)')
  <2>1. Ahead(r) \subseteq Requests /\ Ahead(r)' \subseteq Requests
    BY DEF Ahead, StillHeld, Rows
  <2> QED BY <2>1, FS_Subset, BookingsAssumption
<1>2. ASSUME pc[r] = "ROOM_CONFLICT", before'[r] = before[r] PROVE ConflictShown(r)'
  <2>1. booking'[r] = booking[r]
    BY <1>2, BookingsStay
  <2>2. ConflictShown(r)
    BY <1>2 DEF RefusalsJustified, ConflictShown
  <2>3. before[r] \subseteq Committed
    BY DEF BeforeCommitted
  <2> QED BY <1>2, <2>1, <2>2, <2>3, HeldStays DEF ConflictShown, Ticks, StillHeld
<1>3. ASSUME pc'[r] = "ROOM_CONFLICT", CheckConflict(r) PROVE ConflictShown(r)'
  <2>1. before'[r] = Committed /\ UNCHANGED <<booking, status, ledger, entry>>
    BY <1>3 DEF CheckConflict, database
  <2>2. PICK b \in Existing(booking[r].room) : Overlaps(booking[b], booking[r])
    BY <1>3 DEF CheckConflict, Goto
  <2>3. /\ b \in Requests /\ b \in Rows /\ booking[b].room = booking[r].room
        /\ b \in StillHeld(Committed)
    BY <2>2, HeldIsWhatWasConfirmed DEF Existing, Confirmed, Rows
  <2>4. HasWindow(b) /\ HasWindow(r)
    BY <1>3, <2>3 DEF HasWindow, HasBooking, Rows, CheckConflict
  <2>5. Ticks(b) \cap Ticks(r) # {}
    BY <2>2, <2>3, <2>4, OverlapShares DEF Windows
  <2> QED BY <2>1, <2>3, <2>5 DEF ConflictShown, Ticks, StillHeld, Rows
<1>4. ASSUME pc[r] = "QUOTA_EXCEEDED", beforeQuota'[r] = beforeQuota[r]
      PROVE  Cardinality(Ahead(r)') >= QUOTA_LIMIT
  <2>1. booking'[r] = booking[r]
    BY <1>4, BookingsStay
  <2>2. Ahead(r) \subseteq Ahead(r)'
    BY <1>4, <2>1, HeldStays DEF Ahead, StillHeld
  <2>3. Cardinality(Ahead(r)) >= QUOTA_LIMIT
    BY <1>4 DEF RefusalsJustified, Ahead
  <2>4. /\ Cardinality(Ahead(r)) <= Cardinality(Ahead(r)')
        /\ Cardinality(Ahead(r)) \in Nat /\ Cardinality(Ahead(r)') \in Nat
    BY <1>0, <2>2, FS_Subset, FS_CardinalityType
  <2> QED BY <2>3, <2>4, BookingsAssumption
<1>5. ASSUME pc'[r] = "QUOTA_EXCEEDED", CheckQuota(r)
      PROVE  Cardinality(Ahead(r)') >= QUOTA_LIMIT
  <2> DEFINE U == Upcoming(booking[r].user, booking[r].created)
  <2>1. beforeQuota'[r] = Committed /\ UNCHANGED <<booking, status, ledger, entry>>
    BY <1>5 DEF CheckQuota, database
  <2>2. Cardinality(U) >= QUOTA_LIMIT
    BY <1>5 DEF CheckQuota, Goto, QuotaFull
  <2>3. U \subseteq Ahead(r)'
    BY <2>1, HeldIsWhatWasConfirmed DEF Ahead, Upcoming, StillHeld, Rows
  <2>4. /\ Cardinality(U) <= Cardinality(Ahead(r)') /\ IsFiniteSet(U)
    BY <1>0, <2>3, FS_Subset
  <2>5. Cardinality(U) \in Nat /\ Cardinality(Ahead(r)') \in Nat
    BY <1>0, <2>4, FS_CardinalityType
  <2> HIDE DEF U
  <2> QED BY <2>2, <2>4, <2>5, BookingsAssumption
<1> QED BY <1>2, <1>3, <1>4, <1>5, VerdictsStay

-----------------------------------------------------------------------------
(***************************************************************************)
(* The quota.  What a creation counted was less than the limit, and can    *)
(* only become less; whoever was committed before another counted had      *)
(* counted before him, so the counts of creations that are not concurrent  *)
(* are in an order, and the last of them counted all the others.           *)
(***************************************************************************)
Seen(r) ==
    {a \in beforeQuota[r] \cap Confirmed :
        booking[a].user = booking[r].user /\ booking[a].start > booking[r].created}

CountedBelow == \A r \in Requests : PastQuota(r) => Cardinality(Seen(r)) < QUOTA_LIMIT

CountsOrdered ==
    /\ \A r \in Requests : beforeQuota[r] \subseteq Committed
    /\ \A r \in Requests : r \notin beforeQuota[r]
    /\ \A r \in Requests : \A a \in beforeQuota[r] : beforeQuota[a] \subseteq beforeQuota[r]

QuotaInv == CountedBelow /\ CountsOrdered

\* Every step keeps what creations have counted and the order of the counts.
LEMMA QuotaInvStep ==
    ASSUME WellFormed, Windows, QuotaInv, [FaultNext]_vars
    PROVE  QuotaInv'
<1> USE DEF WellFormed, TypeOK
<1>1. Committed \subseteq Committed' /\ Committed \subseteq Requests
  BY RowsStay DEF Committed, Rows
<1>2. ASSUME NEW r \in Requests, CheckQuota(r)
      PROVE  /\ beforeQuota' = [beforeQuota EXCEPT ![r] = Committed]
             /\ r \notin Committed /\ UNCHANGED <<booking, status, ledger, entry>>
  BY <1>2 DEF CheckQuota, database, Shape, Unwritten, Committed, Rows
<1>3. CountsOrdered'
  <2>1. CASE \E r \in Requests : CheckQuota(r)
    <3> PICK r \in Requests : CheckQuota(r)
      BY <2>1
    <3>1. \A q \in Requests : r \notin beforeQuota[q]
      BY <1>2 DEF QuotaInv, CountsOrdered
    <3>2. \A q \in Requests : beforeQuota'[q] = IF q = r THEN Committed ELSE beforeQuota[q]
      BY <1>2
    <3>3. /\ \A q \in Requests : beforeQuota'[q] \subseteq Committed'
          /\ \A q \in Requests : q \notin beforeQuota'[q]
      BY <1>1, <1>2, <3>2 DEF QuotaInv, CountsOrdered
    <3>4. ASSUME NEW q \in Requests, NEW a \in beforeQuota'[q]
          PROVE  beforeQuota'[a] \subseteq beforeQuota'[q]
      <4>1. a \in Requests /\ a # r
        BY <1>1, <1>2, <3>1, <3>2, <3>4
      <4>2. beforeQuota'[a] = beforeQuota[a] /\ beforeQuota[a] \subseteq Committed
        BY <3>2, <4>1 DEF QuotaInv, CountsOrdered
      <4> QED BY <3>2, <3>4, <4>2 DEF QuotaInv, CountsOrdered
    <3> QED BY <3>3, <3>4 DEF CountsOrdered
  <2>2. CASE ~ \E r \in Requests : CheckQuota(r)
    <3>1. \A q \in Requests : beforeQuota'[q] = beforeQuota[q]
      BY <2>2, VerdictsStay
    <3>2. \A q \in Requests : \A a \in beforeQuota[q] : a \in Requests
      OBVIOUS
    <3> QED BY <1>1, <3>1, <3>2 DEF QuotaInv, CountsOrdered
  <2> QED BY <2>1, <2>2
<1>4. ASSUME NEW q \in Requests, PastQuota(q)' PROVE Cardinality(Seen(q)') < QUOTA_LIMIT
  <2>1. CASE CheckQuota(q)
    <3> DEFINE U == Upcoming(booking[q].user, booking[q].created)
    <3>1. U \subseteq Requests /\ IsFiniteSet(U)
      BY FS_Subset, BookingsAssumption DEF Upcoming, Confirmed
    <3>2. ~QuotaFull(Cardinality(U))
      <4>1. pc[q] = "quota" /\ status'[q] = "absent"
        BY <1>2, <2>1 DEF CheckQuota, Shape, Unwritten
      <4>2. pc'[q] = IF QuotaFull(Cardinality(U)) THEN "QUOTA_EXCEEDED" ELSE "code"
        BY <2>1 DEF CheckQuota, Goto
      <4> HIDE DEF U
      <4> QED BY <1>4, <4>1, <4>2 DEF PastQuota
    <3>3. Seen(q)' \subseteq U
      BY <1>2, <2>1 DEF Seen, Upcoming, Confirmed
    <3>4. IsFiniteSet(Seen(q)') /\ Cardinality(Seen(q)') <= Cardinality(U)
      BY <3>1, <3>3, FS_Subset
    <3>5. Cardinality(U) \in Nat /\ Cardinality(Seen(q)') \in Nat
      BY <3>1, <3>4, FS_CardinalityType
    <3> HIDE DEF U
    <3> QED BY <3>2, <3>4, <3>5, BookingsAssumption DEF QuotaFull
  <2>2. CASE ~CheckQuota(q)
    <3>1. PastQuota(q) /\ beforeQuota'[q] = beforeQuota[q]
      BY <1>4, <2>2, VerdictsStay
    <3>2. pc[q] # "idle"
      BY <3>1 DEF PastQuota, Shape, Unwritten
    <3>3. booking'[q] = booking[q]
      BY <3>2, BookingsStay
    <3>4. beforeQuota[q] \subseteq Committed
      BY DEF QuotaInv, CountsOrdered
    <3>5. ASSUME NEW a \in Seen(q)' PROVE a \in Seen(q)
      <4>1. a \in beforeQuota[q] /\ a \in Confirmed'
        BY <3>1, <3>5 DEF Seen
      <4>2. a \in Confirmed /\ a \in Rows
        BY <3>4, <4>1, RowsStay DEF Confirmed, Rows
      <4>3. booking'[a] = booking[a]
        BY <4>2, RowsStay
      <4> QED BY <3>3, <3>5, <4>1, <4>2, <4>3 DEF Seen
    <3>6. IsFiniteSet(Seen(q))
      <4>1. Seen(q) \subseteq Requests
        BY DEF Seen
      <4> QED BY <4>1, FS_Subset, BookingsAssumption
    <3>7. Cardinality(Seen(q)') <= Cardinality(Seen(q)) /\ IsFiniteSet(Seen(q)')
      BY <3>5, <3>6, FS_Subset
    <3>8. Cardinality(Seen(q)) \in Nat /\ Cardinality(Seen(q)') \in Nat
      BY <3>6, <3>7, FS_CardinalityType
    <3>9. Cardinality(Seen(q)) < QUOTA_LIMIT
      BY <3>1 DEF QuotaInv, CountedBelow
    <3> QED BY <3>7, <3>8, <3>9, BookingsAssumption
  <2> QED BY <2>1, <2>2
<1> QED BY <1>3, <1>4 DEF QuotaInv, CountedBelow

\* Nobody has counted anything at the start.
THEOREM QuotaInvAlways == FaultSpec => []QuotaInv
<1>1. Init => QuotaInv
  BY DEF Init, QuotaInv, CountedBelow, CountsOrdered, PastQuota
<1> QED BY <1>1, QuotaInvStep, WellFormedAlways, WindowsAlways, PTL DEF FaultSpec

(***************************************************************************)
(* Nobody is turned away for nothing, with any interleaving, failure or    *)
(* restart: the booking in the way was held when the request looked, and a *)
(* full quota was full of bookings that were.                              *)
(***************************************************************************)
THEOREM RefusalsAreJustified == FaultSpec => []RefusalsJustified
<1>1. Init => RefusalsJustified
  BY DEF Init, RefusalsJustified
<1>2. RaceInv => BeforeCommitted
  BY DEF RaceInv
<1>3. QuotaInv => \A r \in Requests : beforeQuota[r] \subseteq Committed
  BY DEF QuotaInv, CountsOrdered
<1> QED
  BY <1>1, <1>2, <1>3, RefusalsJustifiedStep, WellFormedAlways, WindowsAlways,
     CancelledExactlyWhenRefunded, RaceInvAlways, QuotaInvAlways, PTL DEF FaultSpec

(***************************************************************************)
(* Of upcoming bookings of one user that are pairwise not concurrent there *)
(* are never more than the limit: the one that counted last saw the rest.  *)
(***************************************************************************)
LEMMA LastCountsAll ==
    ASSUME WellFormed, Windows, QuotaInv, NEW user,
           NEW held \in SUBSET Upcoming(user, clock),
           \A a, b \in held : a # b => a \in beforeQuota[b] \/ b \in beforeQuota[a]
    PROVE  IsFiniteSet(held) /\ Cardinality(held) <= QUOTA_LIMIT
<1>1. held \subseteq Requests /\ held \subseteq Confirmed
  BY DEF Upcoming, Confirmed
<1>2. IsFiniteSet(held)
  BY <1>1, FS_Subset, BookingsAssumption
<1>3. CASE held = {}
  BY <1>2, <1>3, FS_EmptySet, BookingsAssumption
<1>4. CASE held # {}
  <2> DEFINE Missed(b) == Requests \ beforeQuota[b]
             T == {Missed(b) : b \in held}
  <2>1. IsWellFoundedOn(StrictSubsetOrdering(Requests), SUBSET Requests)
    BY FS_StrictSubsetOrderingWellFounded, FS_FiniteSubsetsOfFinite, BookingsAssumption
  <2>2. T \subseteq SUBSET Requests /\ T # {}
    BY <1>4
  <2>3. PICK X \in T : \A Y \in T : <<Y, X>> \notin StrictSubsetOrdering(Requests)
    <3> HIDE DEF T
    <3> QED BY <2>1, <2>2, WFMin
  <2>4. PICK b \in held : X = Missed(b)
    OBVIOUS
  <2>5. ASSUME NEW a \in held, a # b PROVE a \in beforeQuota[b]
    <3>1. SUFFICES ASSUME b \in beforeQuota[a] PROVE FALSE
      BY <2>5
    <3>2. beforeQuota[b] \subseteq beforeQuota[a] /\ b \notin beforeQuota[b] /\ b \in Requests
      BY <1>1, <3>1 DEF QuotaInv, CountsOrdered
    <3>3. Missed(a) \subseteq Missed(b) /\ Missed(a) # Missed(b)
      BY <3>1, <3>2
    <3>4. <<Missed(a), Missed(b)>> \in StrictSubsetOrdering(Requests)
      BY <3>3 DEF StrictSubsetOrdering
    <3>5. Missed(a) \in T
      OBVIOUS
    <3> QED BY <2>3, <2>4, <3>4, <3>5
  <2> HIDE DEF Missed, T
  <2>6. held \ {b} \subseteq Seen(b)
    <3> SUFFICES ASSUME NEW a \in held, a # b PROVE a \in Seen(b)
      OBVIOUS
    <3>1. booking[a].user = user /\ booking[b].user = user /\ booking[a].start > clock
      BY DEF Upcoming
    <3>2. HasWindow(a) /\ HasWindow(b)
      BY <1>1 DEF HasWindow, HasBooking, Confirmed
    <3>3. booking[b].created <= clock /\ booking[a] \in Booking /\ booking[b] \in Booking
      BY <1>1, <3>2 DEF Windows
    <3>4. booking[a].start > booking[b].created
      BY <3>1, <3>3 DEF Booking, WellFormed, TypeOK
    <3> QED BY <1>1, <2>5, <3>1, <3>4 DEF Seen
  <2>7. PastQuota(b) /\ b \in Requests
    BY <1>1 DEF PastQuota, Confirmed
  <2>8. Cardinality(Seen(b)) < QUOTA_LIMIT
    BY <2>7 DEF QuotaInv, CountedBelow
  <2>9. IsFiniteSet(Seen(b))
    <3>1. Seen(b) \subseteq Requests
      BY DEF Seen, Confirmed
    <3> QED BY <3>1, FS_Subset, BookingsAssumption
  <2>10. Cardinality(held \ {b}) <= Cardinality(Seen(b)) /\ IsFiniteSet(held \ {b})
    BY <2>6, <2>9, FS_Subset
  <2>11. Cardinality(held \ {b}) = Cardinality(held) - 1
    BY <1>2, <2>4, FS_RemoveElement
  <2>12. Cardinality(held) \in Nat /\ Cardinality(Seen(b)) \in Nat
    BY <1>2, <2>9, FS_CardinalityType
  <2> QED BY <1>2, <2>8, <2>10, <2>11, <2>12, BookingsAssumption
<1> QED BY <1>3, <1>4

(***************************************************************************)
(* The quota is exceeded only by creations that were counted concurrently, *)
(* with any interleaving, failure or restart.                              *)
(***************************************************************************)
THEOREM QuotaExcessesAreRaces == FaultSpec => []QuotaExceededOnlyByRace
<1>1. WellFormed /\ Windows /\ QuotaInv => QuotaExceededOnlyByRace
  <2> SUFFICES ASSUME WellFormed, Windows, QuotaInv, NEW user \in Users,
                      NEW held \in kSubset(QUOTA_LIMIT + 1, Upcoming(user, clock)),
                      ~ \E a, b \in held :
                            a # b /\ a \notin beforeQuota[b] /\ b \notin beforeQuota[a]
               PROVE  FALSE
    BY DEF QuotaExceededOnlyByRace
  <2>1. held \in SUBSET Upcoming(user, clock) /\ Cardinality(held) = QUOTA_LIMIT + 1
    BY DEF kSubset
  <2>2. Cardinality(held) <= QUOTA_LIMIT
    BY <2>1, LastCountsAll
  <2> QED BY <2>1, <2>2, BookingsAssumption
<1> QED BY <1>1, WellFormedAlways, WindowsAlways, QuotaInvAlways, PTL

(***************************************************************************)
(* Without interference the counts of one user's creations are in order:   *)
(* a row of his was there when the other counted, or the other had been    *)
(* when its creation counted.                                              *)
(***************************************************************************)
CountsCompare ==
    \A a \in Rows, b \in Requests :
        a # b /\ PastQuota(b) /\ booking[a].user = booking[b].user
        => a \in beforeQuota[b] \/ b \in beforeQuota[a]

\* Steps that leave no two handlers interfering keep the counts in order.
LEMMA CountsCompareStep ==
    ASSUME WellFormed, Exclusive, CountsCompare, [FaultNext]_vars
    PROVE  CountsCompare'
<1> USE DEF WellFormed, TypeOK
<1> SUFFICES ASSUME NEW a \in Requests, NEW b \in Requests, status'[a] # "absent", a # b,
                    PastQuota(b)', booking'[a].user = booking'[b].user
             PROVE  a \in beforeQuota'[b] \/ b \in beforeQuota'[a]
  BY DEF CountsCompare, Rows
<1>1. CASE a \in Rows
  <2>1. booking'[a] = booking[a]
    BY <1>1, RowsStay
  <2>2. beforeQuota'[a] = beforeQuota[a]
    <3>1. ~CheckQuota(a)
      BY <1>1 DEF CheckQuota, Shape, Unwritten, Rows
    <3> QED BY <3>1, VerdictsStay
  <2>3. CASE CheckQuota(b)
    BY <1>1, <2>3 DEF CheckQuota, Committed
  <2>4. CASE ~CheckQuota(b)
    <3>1. PastQuota(b) /\ beforeQuota'[b] = beforeQuota[b]
      BY <2>4, VerdictsStay
    <3>2. pc[b] # "idle"
      BY <3>1 DEF PastQuota, Shape, Unwritten
    <3>3. booking'[b] = booking[b]
      BY <3>2, BookingsStay
    <3> QED BY <1>1, <2>1, <2>2, <3>1, <3>3 DEF CountsCompare
  <2> QED BY <2>3, <2>4
<1>2. CASE a \notin Rows
  <2>1. Insert(a)
    BY <1>2, StepKinds DEF BeginsCreate, BeginsCancel, BeginCreate, BeginCancel, Quiet,
       CheckConflict, CommitCancel, Insert, Shape, HasEntry, RefundLog, Rows, database
  <2>2. UNCHANGED <<booking, beforeQuota>> /\ pc[a] = "insert" /\ PastQuota(b)
    BY <2>1 DEF Insert, PastQuota, Goto, history
  <2>3. CASE b \in Rows
    BY <2>2, <2>3 DEF CountsCompare, PastQuota
  <2>4. CASE b \notin Rows
    BY <2>2, <2>4 DEF PastQuota, Rows, Exclusive, Interfere
  <2> QED BY <2>3, <2>4
<1> QED BY <1>1, <1>2

\* Without interference two creations of one user never count at once.
LEMMA CountsCompareAlways == RestartSpec => []CountsCompare
<1>1. Init => CountsCompare
  BY DEF Init, CountsCompare, Rows
<1>2. [(Next \/ Restart) /\ Exclusive']_vars => [FaultNext]_vars
  BY DEF FaultNext
<1>3. ExclusiveInv => Exclusive
  BY DEF ExclusiveInv
<1> QED
  BY <1>1, <1>2, <1>3, ExclusiveIsFault, WellFormedAlways, ExclusiveInvAlways,
     CountsCompareStep, PTL DEF RestartSpec

(***************************************************************************)
(* If creations of one user never overlap in time, nobody ever holds more  *)
(* upcoming bookings than the quota, restarts included.                    *)
(***************************************************************************)
THEOREM ExclusiveKeepsTheQuota == RestartSpec => []QuotaRespected
<1>1. WellFormed /\ Windows /\ QuotaInv /\ CountsCompare => QuotaRespected
  <2> SUFFICES ASSUME WellFormed, Windows, QuotaInv, CountsCompare, NEW user \in Users
               PROVE  Cardinality(Upcoming(user, clock)) <= QUOTA_LIMIT
    BY DEF QuotaRespected
  <2> DEFINE held == Upcoming(user, clock)
  <2>1. \A a, b \in held : a # b => a \in beforeQuota[b] \/ b \in beforeQuota[a]
    BY DEF CountsCompare, Upcoming, Confirmed, Rows, PastQuota
  <2>2. held \in SUBSET Upcoming(user, clock)
    OBVIOUS
  <2> HIDE DEF held
  <2>3. Cardinality(held) <= QUOTA_LIMIT
    BY <2>1, <2>2, LastCountsAll
  <2> QED BY <2>3 DEF held
<1> QED
  BY <1>1, CountsCompareAlways, ExclusiveIsFault, WellFormedAlways, WindowsAlways,
     QuotaInvAlways, PTL

-----------------------------------------------------------------------------
(***************************************************************************)
(* The booking count of a room, without interference or restarts.  It is   *)
(* the confirmed rows whose creation has been recorded, and one more for   *)
(* every cancellation that is committed and still to be recorded; hence    *)
(* the clamp at zero never acts.                                           *)
(***************************************************************************)
Counted(m) == {b \in Existing(m) : pc[b] # "record"}
Owed(m) == {c \in Requests : pc[c] = "recordCancel" /\ booking[entry[c].booking].room = m}

CountInv ==
    /\ \A m \in Rooms : stats[m].count = Cardinality(Counted(m)) + Cardinality(Owed(m))
    /\ \A r \in Requests : pc[r] = "record" => status[r] = "confirmed"

\* The two sets are finite, before a step and after it.
LEMMA CountedFinite ==
    ASSUME NEW m
    PROVE  /\ IsFiniteSet(Counted(m)) /\ IsFiniteSet(Owed(m))
           /\ Cardinality(Counted(m)) \in Nat /\ Cardinality(Owed(m)) \in Nat
           /\ Cardinality(Counted(m)') \in Nat /\ Cardinality(Owed(m)') \in Nat
<1>1. /\ Counted(m) \subseteq Requests /\ Owed(m) \subseteq Requests
      /\ Counted(m)' \subseteq Requests /\ Owed(m)' \subseteq Requests
  BY DEF Counted, Owed, Existing, Confirmed
<1>2. /\ IsFiniteSet(Counted(m)) /\ IsFiniteSet(Owed(m))
      /\ IsFiniteSet(Counted(m)') /\ IsFiniteSet(Owed(m)')
  BY <1>1, FS_Subset, BookingsAssumption
<1> QED BY <1>2, FS_CardinalityType

\* Every step of a server without interference keeps the count.
LEMMA CountInvStep ==
    ASSUME WellFormed, ExclusiveInv, CountInv, [Next]_vars
    PROVE  CountInv'
<1> USE DEF WellFormed, TypeOK
<1> DEFINE Same == /\ UNCHANGED stats
                   /\ \A m \in Rooms : Counted(m)' = Counted(m) /\ Owed(m)' = Owed(m)
                   /\ \A r \in Requests : pc'[r] = "record" => status'[r] = "confirmed"
<1>0. Same => CountInv'
  BY DEF CountInv
<1>1. \A c \in Requests : pc[c] \in CancelSteps => /\ entry[c].booking \in Requests
                                                  /\ status[entry[c].booking] # "absent"
  BY DEF Shape, HasEntry, RefundLog
<1> HIDE DEF Same
<1>a. CASE BeginsCreate
  <2> PICK r \in Requests, user \in Users, room \in Rooms, start \in Starts, d \in Durations :
          BeginCreate(r, user, room, start, start + d)
    BY <1>a DEF BeginsCreate
  <2>1. pc[r] = "idle" /\ status[r] = "absent" /\ UNCHANGED <<status, entry, stats>>
    BY DEF BeginCreate, Shape, Unwritten, memory
  <2>2. \A q \in Requests \ {r} : pc'[q] = pc[q] /\ booking'[q] = booking[q]
    BY DEF BeginCreate, Goto
  <2>3. pc'[r] = "conflict"
    BY DEF BeginCreate, Goto
  <2>4. Same
    BY <1>1, <2>1, <2>2, <2>3 DEF Same, Counted, Owed, Existing, Confirmed, CountInv
  <2> QED BY <1>0, <2>4
<1>b. CASE BeginsCancel
  <2> PICK r \in Requests, user \in Users, b \in Requests : BeginCancel(r, user, b)
    BY <1>b DEF BeginsCancel
  <2>1. pc[r] = "idle" /\ pc'[r] = "settle" /\ UNCHANGED <<status, booking, stats>>
    BY DEF BeginCancel, Goto, memory
  <2>2. \A q \in Requests \ {r} : pc'[q] = pc[q] /\ entry'[q] = entry[q]
    BY DEF BeginCancel, Goto
  <2>3. Same
    BY <2>1, <2>2 DEF Same, Counted, Owed, Existing, Confirmed, CountInv
  <2> QED BY <1>0, <2>3
<1>c. ASSUME NEW r \in Requests, Insert(r) PROVE CountInv'
  <2>1. /\ pc[r] = "insert" /\ pc'[r] = "record" /\ UNCHANGED <<booking, entry, stats>>
        /\ status[r] = "absent" /\ status'[r] = "confirmed"
        /\ \A q \in Requests \ {r} : pc'[q] = pc[q] /\ status'[q] = status[q]
    BY <1>c DEF Insert, Goto, memory, Shape, Unwritten
  <2>2. Same
    BY <2>1 DEF Same, Counted, Owed, Existing, Confirmed, CountInv
  <2> QED BY <1>0, <2>2
<1>d. ASSUME NEW r \in Requests, RecordCreate(r) PROVE CountInv'
  <2>0. PICK room \in Rooms : room = booking[r].room
    BY <1>d DEF RecordCreate, Shape, HasBooking, Booking
  <2>1. /\ pc[r] = "record" /\ pc'[r] \in {"created", "failed"} /\ UNCHANGED <<booking, status, entry>>
        /\ stats' = StatsAfterCreate(room, Price(r))
        /\ \A q \in Requests \ {r} : pc'[q] = pc[q]
    BY <1>d, <2>0 DEF RecordCreate, Goto, database
  <2>2. r \in Existing(room)
    BY <2>0, <2>1 DEF CountInv, Existing, Confirmed
  <2>3. /\ \A m \in Rooms : Owed(m)' = Owed(m)
        /\ \A m \in Rooms \ {room} : Counted(m)' = Counted(m)
        /\ Counted(room)' = Counted(room) \cup {r}
    BY <2>1, <2>2 DEF Counted, Owed, Existing, Confirmed
  <2>4. r \notin Counted(room)
    BY <2>1 DEF Counted
  <2>5. Cardinality(Counted(room)') = Cardinality(Counted(room)) + 1
    BY <2>3, <2>4, CountedFinite, FS_AddElement
  <2>6. /\ stats'[room].count = stats[room].count + 1
        /\ \A m \in Rooms \ {room} : stats'[m] = stats[m]
    BY <2>1, <2>2 DEF StatsAfterCreate
  <2>7. \A q \in Requests : pc'[q] = "record" => status'[q] = "confirmed"
    BY <2>1 DEF CountInv
  <2>8. \A m \in Rooms : stats'[m].count = Cardinality(Counted(m)') + Cardinality(Owed(m)')
    <3> SUFFICES ASSUME NEW m \in Rooms
                 PROVE  stats'[m].count = Cardinality(Counted(m)') + Cardinality(Owed(m)')
      OBVIOUS
    <3>1. stats[m].count = Cardinality(Counted(m)) + Cardinality(Owed(m))
      BY DEF CountInv
    <3>2. CASE m = room
      <4>1. /\ Cardinality(Counted(m)') = Cardinality(Counted(m)) + 1
            /\ Owed(m)' = Owed(m) /\ stats'[m].count = stats[m].count + 1
        BY <2>3, <2>5, <2>6, <3>2
      <4> QED BY <3>1, <4>1, CountedFinite
    <3>3. CASE m # room
      BY <2>3, <2>6, <3>1, <3>3
    <3> QED BY <3>2, <3>3
  <2> QED BY <2>7, <2>8 DEF CountInv
<1>e. ASSUME NEW r \in Requests, CommitCancel(r) PROVE CountInv'
  <2>0. PICK b \in Requests, room \in Rooms : b = entry[r].booking /\ room = booking[b].room
    BY <1>1, <1>e DEF CommitCancel, Shape, HasBooking, Booking
  <2>1. /\ pc[r] = "settle" /\ pc'[r] = "recordCancel" /\ UNCHANGED <<booking, entry, stats>>
        /\ \A q \in Requests \ {r} : pc'[q] = pc[q]
        /\ status' = [status EXCEPT ![b] = "cancelled"]
    BY <1>e, <2>0 DEF CommitCancel, Goto, memory
  <2>2. status[b] = "confirmed" /\ pc[b] # "record" /\ b # r
    <3>2. status[b] = "confirmed"
      BY <2>0, <2>1 DEF ExclusiveInv, StillConfirmed
    <3>3. b # r
      BY <2>1, <3>2 DEF Shape, Unwritten
    <3>4. pc[b] # "record"
      BY <2>0, <2>1, <3>3 DEF ExclusiveInv, Exclusive, Interfere
    <3> QED BY <3>2, <3>3, <3>4
  <2>3. b \in Counted(room) /\ r \notin Owed(room)
    BY <2>0, <2>1, <2>2 DEF Counted, Owed, Existing, Confirmed
  <2>4. /\ \A m \in Rooms \ {room} : Counted(m)' = Counted(m) /\ Owed(m)' = Owed(m)
        /\ Counted(room)' = Counted(room) \ {b}
        /\ Owed(room)' = Owed(room) \cup {r}
    <3>1. \A q \in Requests : status'[q] = IF q = b THEN "cancelled" ELSE status[q]
      BY <2>1, <2>2
    <3>2. \A m \in Rooms : Counted(m)' = Counted(m) \ {b}
      BY <2>1, <3>1 DEF Counted, Existing, Confirmed
    <3>3. \A m \in Rooms \ {room} : b \notin Counted(m)
      BY <2>0 DEF Counted, Existing
    <3>4. \A m \in Rooms \ {room} : Owed(m)' = Owed(m)
      BY <2>0, <2>1 DEF Owed
    <3>5. Owed(room)' = Owed(room) \cup {r}
      BY <2>0, <2>1 DEF Owed
    <3>6. ASSUME NEW m \in Rooms \ {room} PROVE Counted(m)' = Counted(m)
      <4>1. Counted(m)' = Counted(m) \ {b} /\ b \notin Counted(m)
        BY <3>2, <3>3
      <4> QED BY <4>1
    <3> QED BY <3>2, <3>4, <3>5, <3>6
  <2>5. /\ Cardinality(Counted(room)') = Cardinality(Counted(room)) - 1
        /\ Cardinality(Owed(room)') = Cardinality(Owed(room)) + 1
    <3>1. Cardinality(Counted(room)') = Cardinality(Counted(room)) - 1
      BY <2>3, <2>4, CountedFinite, FS_RemoveElement
    <3>2. Cardinality(Owed(room)') = Cardinality(Owed(room)) + 1
      BY <2>3, <2>4, CountedFinite, FS_AddElement
    <3> QED BY <3>1, <3>2
  <2>6. \A q \in Requests : pc'[q] = "record" => status'[q] = "confirmed"
    BY <2>1, <2>2 DEF CountInv
  <2>7. \A m \in Rooms : stats'[m].count = Cardinality(Counted(m)') + Cardinality(Owed(m)')
    <3> SUFFICES ASSUME NEW m \in Rooms
                 PROVE  stats'[m].count = Cardinality(Counted(m)') + Cardinality(Owed(m)')
      OBVIOUS
    <3>1. stats'[m].count = Cardinality(Counted(m)) + Cardinality(Owed(m))
      BY <2>1 DEF CountInv
    <3>2. CASE m = room
      BY <2>5, <3>1, <3>2, CountedFinite
    <3>3. CASE m # room
      BY <2>4, <3>1, <3>3
    <3> QED BY <3>2, <3>3
  <2> QED BY <2>6, <2>7 DEF CountInv
<1>f. ASSUME NEW r \in Requests, RecordCancel(r) PROVE CountInv'
  <2>0. PICK b \in Requests, room \in Rooms : b = entry[r].booking /\ room = booking[b].room
    BY <1>1, <1>f DEF RecordCancel, Shape, HasBooking, Booking
  <2>1. /\ pc[r] = "recordCancel" /\ pc'[r] \in {"cancelled", "failed"}
        /\ UNCHANGED <<booking, status, entry>>
        /\ stats' = StatsAfterCancel(room, Price(b))
        /\ \A q \in Requests \ {r} : pc'[q] = pc[q]
    BY <1>f, <2>0 DEF RecordCancel, Goto, database
  <2>2. r \in Owed(room)
    BY <2>0, <2>1 DEF Owed
  <2>3. /\ \A m \in Rooms : Counted(m)' = Counted(m)
        /\ \A m \in Rooms \ {room} : Owed(m)' = Owed(m)
        /\ Owed(room)' = Owed(room) \ {r}
    BY <2>0, <2>1, <2>2 DEF Counted, Owed, Existing, Confirmed
  <2>4. Cardinality(Owed(room)') = Cardinality(Owed(room)) - 1
    BY <2>2, <2>3, CountedFinite, FS_RemoveElement
  <2>5. \A m \in Rooms : stats[m].count = Cardinality(Counted(m)) + Cardinality(Owed(m))
    BY DEF CountInv
  <2>6. stats[room].count # 0
    BY <2>2, <2>4, <2>5, CountedFinite
  <2>7. /\ stats'[room].count = stats[room].count - 1
        /\ \A m \in Rooms \ {room} : stats'[m] = stats[m]
    BY <2>1, <2>2, <2>6 DEF StatsAfterCancel
  <2>8. \A q \in Requests : pc'[q] = "record" => status'[q] = "confirmed"
    BY <2>1 DEF CountInv
  <2>9. \A m \in Rooms : stats'[m].count = Cardinality(Counted(m)') + Cardinality(Owed(m)')
    <3> SUFFICES ASSUME NEW m \in Rooms
                 PROVE  stats'[m].count = Cardinality(Counted(m)') + Cardinality(Owed(m)')
      OBVIOUS
    <3>1. stats[m].count = Cardinality(Counted(m)) + Cardinality(Owed(m))
      BY <2>5
    <3>2. CASE m = room
      <4>1. /\ Cardinality(Owed(m)') = Cardinality(Owed(m)) - 1
            /\ Counted(m)' = Counted(m) /\ stats'[m].count = stats[m].count - 1
        BY <2>3, <2>4, <2>7, <3>2
      <4> QED BY <3>1, <4>1, CountedFinite
    <3>3. CASE m # room
      BY <2>3, <2>7, <3>1, <3>3
    <3> QED BY <3>2, <3>3
  <2> QED BY <2>8, <2>9 DEF CountInv
<1>g. ASSUME NEW r \in Requests,
             \/ CheckConflict(r) \/ CheckQuota(r) \/ IssueCode(r) \/ LoadRefunds(r)
             \/ Refuse(r) \/ CommitFails(r)
             \/ \E user \in Users, b \in Requests : BeginGet(r, user, b)
      PROVE  CountInv'
  <2>1. /\ UNCHANGED <<booking, status, entry, stats>>
        /\ \A q \in Requests : pc'[q] \in {"record", "recordCancel"} <=> pc[q] \in {"record", "recordCancel"}
        /\ \A q \in Requests : pc[q] \in {"record", "recordCancel"} => pc'[q] = pc[q]
    BY <1>g DEF CheckConflict, CheckQuota, IssueCode, LoadRefunds, Refuse, CommitFails,
       BeginGet, Goto, database, memory
  <2>2. Same
    BY <2>1 DEF Same, Counted, Owed, Existing, Confirmed, CountInv
  <2> QED BY <1>0, <2>2
<1>h. CASE Tick \/ UNCHANGED vars
  <2>1. UNCHANGED <<booking, status, entry, stats, pc>>
    BY <1>h DEF Tick, vars, database, memory
  <2>2. Same
    BY <2>1 DEF Same, Counted, Owed, Existing, Confirmed, CountInv
  <2> QED BY <1>0, <2>2
<1> QED
  BY <1>a, <1>b, <1>c, <1>d, <1>e, <1>f, <1>g, <1>h
     DEF Next, Begin, Step, BeginsCreate, BeginsCancel

\* Without interference the figures count what is confirmed or still owed.
LEMMA CountInvAlways == ExclusiveSpec => []CountInv
<1>1. Init => CountInv
  <2> SUFFICES ASSUME Init PROVE CountInv
    OBVIOUS
  <2>1. \A m : Counted(m) = {} /\ Owed(m) = {}
    BY DEF Init, Counted, Owed, Existing, Confirmed
  <2> QED BY <2>1, FS_EmptySet DEF Init, CountInv, NoStats
<1>2. [Next /\ Exclusive']_vars => [Next]_vars
  OBVIOUS
<1> QED
  BY <1>1, <1>2, CountInvStep, ExclusiveIsRestart, ExclusiveIsFault,
     WellFormedAlways, ExclusiveInvAlways, PTL DEF ExclusiveSpec

(***************************************************************************)
(* In one process and without interference the statistics of a room show,  *)
(* whenever no request is under way, the number of its confirmed bookings. *)
(***************************************************************************)
THEOREM ExclusiveCountsMatch == ExclusiveSpec => []CountMatchesAtRest
<1>1. WellFormed /\ CountInv => CountMatchesAtRest
  <2> SUFFICES ASSUME WellFormed, CountInv, NothingInFlight, NEW m \in Rooms
               PROVE  stats[m].count = Cardinality(Existing(m))
    BY DEF CountMatchesAtRest
  <2>1. Counted(m) = Existing(m) /\ Owed(m) = {}
    BY DEF Counted, Owed, NothingInFlight, Existing, Confirmed
  <2>2. stats[m].count = Cardinality(Existing(m)) + 0 /\ Cardinality(Counted(m)) \in Nat
    BY <2>1, FS_EmptySet, CountedFinite DEF CountInv
  <2> QED BY <2>1, <2>2
<1> QED
  BY <1>1, CountInvAlways, ExclusiveIsRestart, ExclusiveIsFault, WellFormedAlways, PTL

-----------------------------------------------------------------------------
(***************************************************************************)
(* The refinement of BookingLedger.  A handler decides from what it read   *)
(* earlier; without interference it is still true when the handler commits.*)
(* A booking object was accepted at the time it is stamped with, and the   *)
(* share of a cancellation is that of a time not after now.                *)
(***************************************************************************)
Asked ==
    \A r \in Requests : HasWindow(r) =>
        \E user \in Users, room \in Rooms, start \in Starts, d \in Durations, now \in 0 .. clock :
            /\ WindowAccepted(start, start + d, now)
            /\ RoomOrg[room] = UserOrg[user]
            /\ booking[r] = [user |-> user, room |-> room, start |-> start,
                             end |-> start + d, created |-> now]

ShareFixed ==
    \A r \in Requests : pc[r] = "settle" =>
        \E now \in 0 .. clock :
            entry[r].percent = RefundPercent(booking[entry[r].booking].start - now)

LedgerInv == Asked /\ ShareFixed

\* A row appears only by the insert of its own request.
LEMMA NewRows ==
    ASSUME WellFormed, [FaultNext]_vars, NEW b \in Rows', b \notin Rows
    PROVE  Insert(b)
BY StepKinds DEF BeginsCreate, BeginsCancel, BeginCreate, BeginCancel, Quiet, CheckConflict,
   CommitCancel, Insert, WellFormed, TypeOK, Shape, HasEntry, RefundLog, Rows, database

\* Every step keeps what the booking objects were accepted for.
LEMMA AskedStep ==
    ASSUME WellFormed, Asked, [FaultNext]_vars
    PROVE  Asked'
<1> SUFFICES ASSUME NEW q \in Requests, HasWindow(q)'
             PROVE  \E user \in Users, room \in Rooms, start \in Starts, d \in Durations,
                       now \in 0 .. clock' :
                        /\ WindowAccepted(start, start + d, now)
                        /\ RoomOrg[room] = UserOrg[user]
                        /\ booking'[q] = [user |-> user, room |-> room, start |-> start,
                                          end |-> start + d, created |-> now]
  BY DEF Asked, WindowAccepted
<1>1. clock \in Nat /\ clock' \in Nat /\ clock <= clock'
  BY VerdictsStay DEF WellFormed, TypeOK
<1>2. \A now \in 0 .. clock : now \in 0 .. clock'
  BY <1>1
<1>3. CASE HasWindow(q)
  <2>1. pc[q] # "idle"
    BY <1>3 DEF WellFormed, Shape, HasWindow, HasBooking, Verdicts, Unwritten
  <2>2. booking'[q] = booking[q]
    BY <2>1, BookingsStay
  <2> QED BY <1>2, <1>3, <2>2 DEF Asked
<1>4. ASSUME NEW user \in Users, NEW room \in Rooms, NEW start \in Starts, NEW d \in Durations,
             BeginCreate(q, user, room, start, start + d)
      PROVE  /\ WindowAccepted(start, start + d, clock) /\ clock \in 0 .. clock'
             /\ RoomOrg[room] = UserOrg[user]
             /\ booking'[q] = [user |-> user, room |-> room, start |-> start,
                               end |-> start + d, created |-> clock]
  BY <1>1, <1>4 DEF BeginCreate, WellFormed, TypeOK
<1> QED BY <1>3, <1>4, WindowsBegin

\* Whoever has passed the quota check without interference saw everything that
\* is ahead of it: nobody else of that user has inserted since.
LEMMA FewAheadNow ==
    ASSUME WellFormed, QuotaInv, CountsCompare, NEW r \in Requests, pc[r] = "insert"
    PROVE  Cardinality(Upcoming(booking[r].user, booking[r].created)) < QUOTA_LIMIT
<1>1. Upcoming(booking[r].user, booking[r].created) \subseteq Seen(r)
  BY DEF WellFormed, TypeOK, Shape, Unwritten, Upcoming, Seen, Confirmed, Rows, Committed,
     QuotaInv, CountsOrdered, CountsCompare, PastQuota
<1>2. Seen(r) \subseteq Requests
  BY DEF Seen, Confirmed
<1>3. /\ Cardinality(Seen(r)) \in Nat
      /\ Cardinality(Upcoming(booking[r].user, booking[r].created)) \in Nat
      /\ Cardinality(Upcoming(booking[r].user, booking[r].created)) <= Cardinality(Seen(r))
  BY <1>1, <1>2, FS_Subset, FS_CardinalityType, BookingsAssumption
<1>4. Cardinality(Seen(r)) < QUOTA_LIMIT
  BY DEF QuotaInv, CountedBelow, PastQuota
<1> QED BY <1>3, <1>4, BookingsAssumption

\* The share of a cancellation under way is that of the time it began.
LEMMA ShareFixedStep ==
    ASSUME WellFormed, ShareFixed, [FaultNext]_vars
    PROVE  ShareFixed'
<1> USE DEF WellFormed, TypeOK
<1> SUFFICES ASSUME NEW q \in Requests, pc'[q] = "settle"
             PROVE  \E now \in 0 .. clock' :
                        entry'[q].percent = RefundPercent(booking'[entry'[q].booking].start - now)
  BY DEF ShareFixed
<1>1. clock \in Nat /\ clock' \in Nat /\ clock <= clock'
  BY VerdictsStay
<1>2. \A now \in 0 .. clock : now \in 0 .. clock'
  BY <1>1
<1>3. CASE pc[q] = "settle" /\ entry'[q] = entry[q]
  <2>1. entry[q].booking \in Rows
    BY <1>3 DEF Shape, HasEntry, RefundLog, Rows
  <2>2. booking'[entry[q].booking] = booking[entry[q].booking]
    BY <2>1, RowsStay
  <2>3. PICK now \in 0 .. clock :
                entry[q].percent = RefundPercent(booking[entry[q].booking].start - now)
    BY <1>3 DEF ShareFixed
  <2> QED BY <1>2, <1>3, <2>2, <2>3
<1>4. ASSUME NEW user \in Users, NEW b \in Requests, BeginCancel(q, user, b)
      PROVE  /\ clock \in 0 .. clock'
             /\ entry'[q].booking = b
             /\ entry'[q].percent = RefundPercent(booking'[b].start - clock)
  BY <1>1, <1>4 DEF BeginCancel
<1>5. \/ pc[q] = "settle" /\ entry'[q] = entry[q]
      \/ \E user \in Users, b \in Requests : BeginCancel(q, user, b)
  BY StepKinds DEF BeginsCreate, BeginsCancel, BeginCreate, BeginCancel, Quiet, CheckConflict,
     CommitCancel, Insert, Goto, database
<1> QED BY <1>3, <1>4, <1>5

LedgerRow == [b \in Requests |-> IF b \in Rows THEN booking[b] ELSE None]
LedgerPaid == [b \in Requests |->
                  IF RefundsOf(b) = {} THEN None
                  ELSE entry[CHOOSE c \in RefundsOf(b) : TRUE].percent]

\* The bookings the ledger holds are the confirmed rows.
LEMMA HeldIsConfirmed ==
    ASSUME WellFormed, CancelledIffRefunded
    PROVE  Ledger!Held = Confirmed
<1>1. Ledger!Held = {b \in Requests : LedgerRow[b] # None /\ LedgerPaid[b] = None}
  BY DEF Ledger!Held, LedgerRow, LedgerPaid
<1>2. ASSUME NEW b \in Requests
      PROVE  LedgerRow[b] # None <=> b \in Rows
  BY NoneAssumption DEF LedgerRow, Rows, WellFormed, Shape, HasBooking
<1>3. ASSUME NEW b \in Requests
      PROVE  LedgerPaid[b] = None <=> RefundsOf(b) = {}
  <2>1. CASE RefundsOf(b) # {}
    <3>1. (CHOOSE c \in RefundsOf(b) : TRUE) \in RefundsOf(b)
      BY <2>1
    <3>2. entry[CHOOSE c \in RefundsOf(b) : TRUE].percent \in Percents
      BY <3>1 DEF RefundsOf, WellFormed, TypeOK, Shape, HasEntry, RefundLog
    <3> QED BY <2>1, <3>2, NoneAssumption DEF LedgerPaid
  <2>2. CASE RefundsOf(b) = {}
    BY <2>2 DEF LedgerPaid
  <2> QED BY <2>1, <2>2
<1>4. \A b \in Requests : status[b] = "confirmed" <=> b \in Rows /\ RefundsOf(b) = {}
  BY DEF WellFormed, TypeOK, CancelledIffRefunded, Rows
<1> QED BY <1>1, <1>2, <1>3, <1>4 DEF Confirmed

\* A multiple of an hour is its whole hours.
LEMMA WholeHours ==
    ASSUME NEW x \in Int, x % HOUR = 0
    PROVE  x \div HOUR \in Int /\ x = (x \div HOUR) * HOUR
<1>1. \A h \in Nat \ {0} : x \div h \in Int /\ x = h * (x \div h) + (x % h)
  OBVIOUS
<1>2. \A a, b \in Int : a * b = b * a
  OBVIOUS
<1>3. HOUR \in Int /\ x \div HOUR \in Int /\ x = HOUR * (x \div HOUR)
  BY <1>1, NoticeAssumption
<1> QED BY <1>2, <1>3

\* The ledger counts as this module does.
LEMMA LedgerCardinality ==
    ASSUME NEW S
    PROVE  Ledger!Cardinality(S) = Cardinality(S)
BY Zenon DEF Ledger!Cardinality, Cardinality

\* An insert is a booking of the ledger, at the time its handler began.
LEMMA InsertBooks ==
    ASSUME WellFormed, CancelledIffRefunded, ExclusiveInv, QuotaInv, CountsCompare, Asked,
           NEW r \in Requests, Insert(r)
    PROVE  Ledger!Next
<1> USE DEF WellFormed
<1>1. pc[r] = "insert" /\ status[r] = "absent" /\ HasWindow(r)
  BY DEF Insert, Shape, Unwritten, HasWindow, HasBooking
<1>2. PICK user \in Users, room \in Rooms, start \in Starts, d \in Durations, asked \in 0 .. clock :
          /\ WindowAccepted(start, start + d, asked)
          /\ RoomOrg[room] = UserOrg[user]
          /\ booking[r] = [user |-> user, room |-> room, start |-> start,
                           end |-> start + d, created |-> asked]
  BY <1>1 DEF Asked
<1> DEFINE row == LedgerRow
<1>3. start \in Int /\ d \in Int /\ asked \in Int
  BY BookingsAssumption
<1>4. row[r] = None
  BY <1>1 DEF LedgerRow, Rows
<1>5. Ledger!AheadOfTime(start, asked)
  BY <1>2, <1>3, BookingsAssumption DEF WindowAccepted, Ledger!AheadOfTime
<1>6. \E hours \in MIN_DURATION_HOURS .. MAX_DURATION_HOURS : start + d = start + hours * HOUR
  <2>1. (start + d) - start = d
    BY <1>3
  <2>2. d % HOUR = 0 /\ d \div HOUR \in MIN_DURATION_HOURS .. MAX_DURATION_HOURS
    BY <1>2, <2>1 DEF WindowAccepted
  <2>3. d = (d \div HOUR) * HOUR
    BY <1>3, <2>2, WholeHours
  <2> QED BY <2>2, <2>3
<1>7. \A b \in Confirmed : b \in Requests /\ row[b] = booking[b]
  BY DEF LedgerRow, Confirmed, Rows
<1>8. \A b \in Ledger!Held : row[b].room = room => start + d <= row[b].start \/ row[b].end <= start
  <2> SUFFICES ASSUME NEW b \in Confirmed, booking[b].room = room
               PROVE  start + d <= booking[b].start \/ booking[b].end <= start
    BY <1>7, HeldIsConfirmed
  <2>1. ~Overlaps(booking[b], booking[r])
    BY <1>1, <1>2 DEF ExclusiveInv, SlotFree, Pending
  <2>2. booking[b].start \in Int /\ booking[b].end \in Int
    BY DEF Shape, HasBooking, Confirmed, Booking
  <2> QED BY <1>2, <1>3, <2>1, <2>2 DEF Overlaps
<1>9. Cardinality({h \in Ledger!Held : row[h].user = user /\ asked < row[h].start}) < QUOTA_LIMIT
  <2>1. \A h \in Confirmed : booking[h].start \in Int
    BY DEF Shape, HasBooking, Confirmed, Booking
  <2>2. \A h \in Confirmed : asked < booking[h].start <=> booking[h].start > asked
    BY <1>3, <2>1
  <2>3. {h \in Ledger!Held : row[h].user = user /\ asked < row[h].start} = Upcoming(user, asked)
    BY <1>7, <2>2, HeldIsConfirmed DEF Upcoming
  <2>4. booking[r].user = user /\ booking[r].created = asked
    BY <1>2
  <2> HIDE DEF row
  <2>5. Cardinality(Upcoming(user, asked)) < QUOTA_LIMIT
    BY <1>1, <2>4, FewAheadNow
  <2> QED BY <2>3, <2>5
<1>10. row' = [row EXCEPT ![r] = [user |-> user, room |-> room, start |-> start,
                                  end |-> start + d, created |-> asked]]
  BY <1>2 DEF LedgerRow, Rows, Insert, TypeOK
<1>11. clock' = clock /\ LedgerPaid' = LedgerPaid
  BY DEF Insert, LedgerPaid, RefundsOf
<1>12. Ledger!Book(r, user, room, start, start + d, asked)
  <2>1. Ledger!Free(room, start, start + d)
    BY <1>8 DEF Ledger!Free, LedgerRow
  <2>2. Ledger!Cardinality({h \in Ledger!Held :
                              LedgerRow[h].user = user /\ asked < LedgerRow[h].start})
          < QUOTA_LIMIT
    BY <1>9, LedgerCardinality
  <2>3. UserOrg[user] = RoomOrg[room]
    BY <1>2
  <2> HIDE DEF row
  <2> QED
    BY <1>4, <1>5, <1>6, <1>10, <1>11, <2>1, <2>2, <2>3
       DEF Ledger!Book, LedgerRow, LedgerPaid, row
<1> QED BY <1>12 DEF Ledger!Next

(***************************************************************************)
(* The share paid is the one promised, but for the half paid in the first  *)
(* hour of full notice, which the ledger tolerates.                        *)
(***************************************************************************)
LEMMA ShareIsTolerated ==
    ASSUME NEW n \in Int
    PROVE  RefundPercent(n) \in Ledger!Shares(n)
<1> DEFINE q == n \div HOUR
<1>1. /\ HOUR \in Nat /\ FULL_NOTICE \in Nat /\ HALF_NOTICE \in Nat /\ HOUR > 0
      /\ HALF_NOTICE * HOUR <= FULL_NOTICE * HOUR /\ HALF_NOTICE * HOUR \in Int
      /\ FULL_NOTICE * HOUR \in Int /\ (FULL_NOTICE + 1) * HOUR = FULL_NOTICE * HOUR + HOUR
  BY NoticeAssumption
<1>2. q \in Int /\ HOUR * q <= n /\ n < HOUR * q + HOUR
  <2>1. \A h \in Nat \ {0} : n \div h \in Int /\ h * (n \div h) <= n /\ n < h * (n \div h) + h
    OBVIOUS
  <2> QED BY <1>1, <2>1
<1> HIDE DEF q
<1>3. q > FULL_NOTICE => FULL_NOTICE * HOUR <= n
  BY <1>1, <1>2
<1>4. q <= FULL_NOTICE => n < (FULL_NOTICE + 1) * HOUR
  BY <1>1, <1>2
<1>5. RefundPercent(n) = IF q > FULL_NOTICE THEN 100 ELSE IF n >= HALF_NOTICE * HOUR THEN 50 ELSE 0
  BY DEF RefundPercent, q
<1> QED BY <1>1, <1>2, <1>3, <1>4, <1>5
        DEF Ledger!Shares, Ledger!Promised, Ledger!InFirstFullHour

\* A cancellation's commit is a cancellation of the ledger, for the share of the
\* time its handler began.
LEMMA CommitCancels ==
    ASSUME WellFormed, CancelledIffRefunded, ExclusiveInv, ShareFixed,
           NEW r \in Requests, CommitCancel(r)
    PROVE  Ledger!Next
<1> USE DEF WellFormed
<1>1. /\ pc[r] = "settle" /\ entry[r] \in RefundLog /\ r \notin ledger
      /\ status[entry[r].booking] = "confirmed"
  BY DEF CommitCancel, Shape, HasEntry, Unwritten, ExclusiveInv, StillConfirmed
<1>2. PICK b \in Confirmed : b = entry[r].booking
  BY <1>1 DEF RefundLog, Confirmed
<1>3. PICK asked \in 0 .. clock : entry[r].percent = RefundPercent(booking[b].start - asked)
  BY <1>1, <1>2 DEF ShareFixed
<1>4. b \in Requests /\ b \in Rows /\ RefundsOf(b) = {}
  BY <1>2 DEF Confirmed, Rows, CancelledIffRefunded
<1>5. \A q \in Requests : RefundsOf(q)' = IF q = b THEN {r} ELSE RefundsOf(q)
  BY <1>2, <1>4 DEF CommitCancel, RefundsOf
<1>6. (CHOOSE c \in {r} : TRUE) = r
  OBVIOUS
<1>7. LedgerPaid' = [LedgerPaid EXCEPT ![b] = entry[r].percent]
  <2>1. entry' = entry
    BY DEF CommitCancel
  <2>2. LedgerPaid'[b] = entry[r].percent
    <3>1. RefundsOf(b)' = {r}
      BY <1>4, <1>5
    <3> QED BY <1>4, <1>6, <2>1, <3>1, Zenon DEF LedgerPaid
  <2>3. ASSUME NEW q \in Requests, q # b PROVE LedgerPaid'[q] = LedgerPaid[q]
    <3>1. RefundsOf(q)' = RefundsOf(q)
      BY <1>5, <2>3
    <3> QED BY <2>1, <3>1 DEF LedgerPaid
  <2> QED BY <2>2, <2>3 DEF LedgerPaid
<1>8. LedgerRow' = LedgerRow /\ clock' = clock
  BY <1>2, <1>4 DEF CommitCancel, LedgerRow, Rows, TypeOK
<1>9. LedgerRow[b] = booking[b]
  BY <1>4 DEF LedgerRow
<1>10. entry[r].percent \in Ledger!Shares(booking[b].start - asked)
  <2>1. booking[b].start - asked \in Int
    BY <1>2, <1>4 DEF Shape, HasBooking, Rows, Booking
  <2> QED BY <1>3, <2>1, ShareIsTolerated
<1>11. Ledger!Cancel(b, asked)
  BY <1>2, <1>7, <1>8, <1>9, <1>10, HeldIsConfirmed DEF Ledger!Cancel, LedgerRow, LedgerPaid
<1> QED BY <1>4, <1>11 DEF Ledger!Next

\* Whatever writes no row and commits no refund leaves the ledger as it is.
LEMMA LedgerStays ==
    ASSUME WellFormed, Rows' = Rows, ledger' = ledger,
           \A b \in Rows : booking'[b] = booking[b],
           \A c \in ledger : entry'[c] = entry[c]
    PROVE  LedgerRow' = LedgerRow /\ LedgerPaid' = LedgerPaid
<1>1. LedgerRow' = LedgerRow
  BY DEF LedgerRow
<1>2. ASSUME NEW b \in Requests
      PROVE  LedgerPaid'[b] = LedgerPaid[b]
  <2>1. RefundsOf(b)' = RefundsOf(b)
    BY DEF RefundsOf
  <2>2. CASE RefundsOf(b) = {}
    BY <2>1, <2>2 DEF LedgerPaid
  <2>3. CASE RefundsOf(b) # {}
    <3>1. PICK c \in RefundsOf(b) : c = CHOOSE d \in RefundsOf(b) : TRUE
      BY <2>3
    <3>2. entry'[c] = entry[c]
      BY <3>1 DEF RefundsOf
    <3>3. LedgerPaid[b] = entry[c].percent
      BY <2>3, <3>1 DEF LedgerPaid
    <3>4. LedgerPaid'[b] = entry'[c].percent
      BY <2>1, <2>3, <3>1 DEF LedgerPaid
    <3> QED BY <3>2, <3>3, <3>4
  <2> QED BY <2>2, <2>3
<1> QED BY <1>1, <1>2 DEF LedgerPaid

\* Every step without interference is a step of the ledger or leaves it alone.
LEMMA LedgerStep ==
    ASSUME WellFormed, CancelledIffRefunded, ExclusiveInv, QuotaInv, CountsCompare, LedgerInv,
           [FaultNext]_vars
    PROVE  [Ledger!Next]_(Ledger!vars)
<1> USE DEF WellFormed, TypeOK
<1>1. ASSUME NEW r \in Requests, Insert(r) \/ CommitCancel(r)
      PROVE  Ledger!Next
  BY <1>1, InsertBooks, CommitCancels DEF LedgerInv
<1>2. CASE ~ \E r \in Requests : Insert(r) \/ CommitCancel(r)
  <2>1. /\ status' = status /\ ledger' = ledger
        /\ \A b \in Rows : booking'[b] = booking[b]
        /\ \A c \in ledger : entry'[c] = entry[c]
    BY <1>2, StepKinds DEF BeginsCreate, BeginsCancel, BeginCreate, BeginCancel, Quiet,
       CheckConflict, Shape, Unwritten, Rows, database
  <2>2. LedgerRow' = LedgerRow /\ LedgerPaid' = LedgerPaid
    BY <2>1, LedgerStays DEF Rows
  <2>3. clock' = clock \/ clock' = clock + 1
    BY DEF FaultNext, Next, Begin, Step, BeginCreate, CheckConflict, CheckQuota, IssueCode,
       Insert, RecordCreate, BeginCancel, CommitCancel, RecordCancel, BeginGet, LoadRefunds,
       Refuse, CommitFails, RefreshFails, Restart, Tick, vars
  <2> QED
    BY <2>2, <2>3 DEF Ledger!Next, Ledger!Tick, Ledger!vars, LedgerRow, LedgerPaid
<1> QED BY <1>1, <1>2

\* Without interference every booking object was accepted at the time it bears.
LEMMA LedgerInvAlways == RestartSpec => []LedgerInv
<1>1. Init => LedgerInv
  BY DEF Init, LedgerInv, Asked, ShareFixed, HasWindow, HasBooking, Verdicts
<1>2. [(Next \/ Restart) /\ Exclusive']_vars => [FaultNext]_vars
  BY DEF FaultNext
<1>3. WellFormed /\ LedgerInv /\ [FaultNext]_vars => LedgerInv'
  BY AskedStep, ShareFixedStep DEF LedgerInv
<1> QED
  BY <1>1, <1>2, <1>3, ExclusiveIsFault, WellFormedAlways, PTL DEF RestartSpec

(***************************************************************************)
(* If handlers do not interfere, the server, restarts included, implements *)
(* the ledger of bookings the README promises: each booking is made in one *)
(* step into a free slot and within the quota, and cancelled at most once  *)
(* for the share its notice buys, judged at the time its handler began.    *)
(***************************************************************************)
THEOREM RestartsImplementLedger == RestartSpec => LedgerImplemented
<1>1. Init => Ledger!Init
  BY DEF Init, Ledger!Init, Rows, RefundsOf
<1>2. [(Next \/ Restart) /\ Exclusive']_vars => [FaultNext]_vars
  BY DEF FaultNext
<1> QED
  BY <1>1, <1>2, LedgerStep, LedgerInvAlways, ExclusiveInvAlways, CountsCompareAlways,
     ExclusiveIsFault, WellFormedAlways, CancelledExactlyWhenRefunded, QuotaInvAlways, PTL
     DEF RestartSpec, LedgerImplemented, Ledger!Spec

\* The same of the server as the run without interference checks it.
THEOREM ExclusiveImplementsLedger == ExclusiveSpec => LedgerImplemented
BY ExclusiveIsRestart, RestartsImplementLedger, PTL

-----------------------------------------------------------------------------
(***************************************************************************)
(* Sums over finite sets.  MapThenSumSet adds the elements in the order a  *)
(* CHOOSE takes them out: Adds says that g is that function of the subsets *)
(* of T for the prices p, and Sum is its value on all of T.  What has to   *)
(* be shown is that the order does not matter.                             *)
(***************************************************************************)
First(s) == CHOOSE x \in s : TRUE

Adds(g, p, T) ==
    g = [s \in SUBSET T |-> IF s = {} THEN 0 ELSE p[First(s)] + g[s \ {First(s)}]]

Sum(p, T) == (CHOOSE g : Adds(g, p, T))[T]

\* The element taken out first is one of the set.
LEMMA FirstIn ==
    ASSUME NEW s, s # {}
    PROVE  First(s) \in s
BY DEF First

\* Among sets of subsets of a finite set there is a smallest one.
LEMMA Smallest ==
    ASSUME NEW S, IsFiniteSet(S), NEW Bad \in SUBSET SUBSET S, Bad # {}
    PROVE  \E T \in Bad : \A U \in Bad : U \subseteq T => U = T
<1>1. IsWellFoundedOn(StrictSubsetOrdering(S), SUBSET S)
  BY FS_StrictSubsetOrderingWellFounded, FS_FiniteSubsetsOfFinite
<1>2. PICK T \in Bad : \A U \in Bad : <<U, T>> \notin StrictSubsetOrdering(S)
  <2> HIDE DEF StrictSubsetOrdering
  <2> QED BY <1>1, WFMin
<1> QED BY <1>2 DEF StrictSubsetOrdering

\* Adding up is a function: on a set that both add up, two such functions agree.
LEMMA AddsOnce ==
    ASSUME NEW S, IsFiniteSet(S), NEW p, NEW g, NEW h, NEW T \in SUBSET S, NEW U \in SUBSET S,
           Adds(g, p, T), Adds(h, p, U), NEW s \in SUBSET S, s \subseteq T, s \subseteq U
    PROVE  g[s] = h[s]
<1> DEFINE Bad == {t \in SUBSET S : t \subseteq T /\ t \subseteq U /\ g[t] # h[t]}
<1> SUFFICES ASSUME Bad # {} PROVE FALSE
  OBVIOUS
<1>0. Bad \in SUBSET SUBSET S
  OBVIOUS
<1>1. PICK t \in Bad : \A u \in Bad : u \subseteq t => u = t
  <2> HIDE DEF Bad
  <2> QED BY <1>0, Smallest
<1>2. t # {}
  BY DEF Adds
<1>3. First(t) \in t
  BY <1>2, FirstIn
<1> DEFINE u == t \ {First(t)}
<1>4. g[u] = h[u]
  BY <1>1, <1>3
<1>5. g[t] = p[First(t)] + g[u] /\ h[t] = p[First(t)] + h[u]
  BY <1>2 DEF Adds
<1> QED BY <1>4, <1>5

\* What adds up a set adds up its subsets.
LEMMA AddsPart ==
    ASSUME NEW p, NEW g, NEW T, Adds(g, p, T), NEW U \in SUBSET T
    PROVE  Adds([s \in SUBSET U |-> g[s]], p, U)
<1> DEFINE h == [s \in SUBSET U |-> g[s]]
<1>1. ASSUME NEW s \in SUBSET U
      PROVE  h[s] = IF s = {} THEN 0 ELSE p[First(s)] + h[s \ {First(s)}]
  BY DEF Adds
<1> QED BY <1>1 DEF Adds

\* The sum of a set that something adds up.
LEMMA SumValue ==
    ASSUME NEW S, IsFiniteSet(S), NEW p, NEW g, NEW T \in SUBSET S, Adds(g, p, T),
           NEW U \in SUBSET T
    PROVE  Sum(p, U) = g[U]
<1>1. Adds([s \in SUBSET U |-> g[s]], p, U)
  BY AddsPart
<1>2. Adds(CHOOSE h : Adds(h, p, U), p, U)
  BY <1>1
<1> QED BY <1>2, AddsOnce DEF Sum

\* Every finite set adds up.
LEMMA AddsExists ==
    ASSUME NEW S, IsFiniteSet(S), NEW p, NEW T \in SUBSET S
    PROVE  \E g : Adds(g, p, T)
<1> DEFINE Bad == {t \in SUBSET S : ~ \E g : Adds(g, p, t)}
<1> SUFFICES ASSUME Bad # {} PROVE FALSE
  OBVIOUS
<1>0. Bad \in SUBSET SUBSET S
  OBVIOUS
<1>1. PICK t \in Bad : \A u \in Bad : u \subseteq t => u = t
  <2> HIDE DEF Bad
  <2> QED BY <1>0, Smallest
<1>2. ASSUME NEW u \in SUBSET t, u # t PROVE \E g : Adds(g, p, u)
  BY <1>1, <1>2
<1> DEFINE g == [s \in SUBSET t |-> IF s = {} THEN 0
                                     ELSE p[First(s)] + Sum(p, s \ {First(s)})]
<1>3. ASSUME NEW u \in SUBSET t, u # t
      PROVE  g[u] = Sum(p, u)
  <2>1. PICK h : Adds(h, p, u)
    BY <1>2, <1>3
  <2>2. Sum(p, u) = h[u]
    BY <2>1, SumValue
  <2>3. CASE u = {}
    BY <2>1, <2>2, <2>3 DEF Adds
  <2>4. CASE u # {}
    <3>1. h[u] = p[First(u)] + h[u \ {First(u)}]
      BY <2>1, <2>4 DEF Adds
    <3>2. Sum(p, u \ {First(u)}) = h[u \ {First(u)}]
      BY <2>1, SumValue
    <3> QED BY <2>2, <2>4, <3>1, <3>2
  <2> QED BY <2>3, <2>4
<1>4. ASSUME NEW s \in SUBSET t, s # {}
      PROVE  g[s] = p[First(s)] + g[s \ {First(s)}]
  <2>1. First(s) \in s
    BY <1>4, FirstIn
  <2>2. s \ {First(s)} \in SUBSET t /\ s \ {First(s)} # t
    BY <2>1
  <2>3. g[s \ {First(s)}] = Sum(p, s \ {First(s)})
    BY <1>3, <2>2
  <2> QED BY <1>4, <2>3
<1>5. Adds(g, p, t)
  BY <1>4 DEF Adds
<1> QED BY <1>1, <1>5

\* The sum takes its elements out one by one.
LEMMA SumUnfolds ==
    ASSUME NEW T, IsFiniteSet(T), NEW p
    PROVE  Sum(p, T) = IF T = {} THEN 0 ELSE p[First(T)] + Sum(p, T \ {First(T)})
<1>1. PICK g : Adds(g, p, T)
  BY AddsExists
<1>2. Sum(p, T) = g[T] /\ Sum(p, T \ {First(T)}) = g[T \ {First(T)}]
  BY <1>1, SumValue
<1>3. g[T] = IF T = {} THEN 0 ELSE p[First(T)] + g[T \ {First(T)}]
  BY <1>1 DEF Adds
<1> QED BY <1>2, <1>3

\* It is an integer, and the order does not matter: any element may be taken out.
LEMMA SumTakesOut ==
    ASSUME NEW S, IsFiniteSet(S), NEW p, \A y \in S : p[y] \in Int
    PROVE  /\ Sum(p, S) \in Int
           /\ \A x \in S : Sum(p, S) = p[x] + Sum(p, S \ {x})
<1> DEFINE Good(t) == /\ Sum(p, t) \in Int
                      /\ \A x \in t : Sum(p, t) = p[x] + Sum(p, t \ {x})
           Bad == {t \in SUBSET S : ~Good(t)}
<1>0. Bad \in SUBSET SUBSET S /\ (Bad = {} => Good(S))
  OBVIOUS
<1> SUFFICES ASSUME Bad # {} PROVE FALSE
  BY <1>0
<1>1. PICK t \in Bad : \A u \in Bad : u \subseteq t => u = t
  <2> HIDE DEF Bad
  <2> QED BY <1>0, Smallest
<1>2. ASSUME NEW u \in SUBSET t, u # t PROVE Good(u)
  BY <1>1, <1>2
<1>3. t # {} /\ Sum(p, t) = p[First(t)] + Sum(p, t \ {First(t)})
  <2>1. IsFiniteSet(t)
    BY <1>1, FS_Subset
  <2>2. Sum(p, {}) = 0
    BY SumUnfolds, FS_EmptySet
  <2>3. Good({})
    BY <2>2
  <2>4. t # {}
    BY <1>1, <2>3
  <2> QED BY <2>1, <2>4, SumUnfolds
<1> DEFINE f == First(t)
<1>4. f \in t /\ f \in S /\ p[f] \in Int
  BY <1>1, <1>3, FirstIn
<1>5. Good(t \ {f})
  BY <1>2, <1>4
<1>6. ASSUME NEW x \in t, x # f
      PROVE  Sum(p, t) = p[x] + Sum(p, t \ {x})
  <2>1. p[x] \in Int
    BY <1>1
  <2>2. Good(t \ {x}) /\ Good((t \ {f}) \ {x})
    BY <1>2, <1>4
  <2>3. Sum(p, t \ {f}) = p[x] + Sum(p, (t \ {f}) \ {x})
    BY <1>5, <1>6
  <2>4. Sum(p, t \ {x}) = p[f] + Sum(p, (t \ {x}) \ {f})
    BY <1>4, <1>6, <2>2
  <2>5. (t \ {f}) \ {x} = (t \ {x}) \ {f}
    OBVIOUS
  <2>6. PICK rest \in Int : /\ Sum(p, t \ {f}) = p[x] + rest
                            /\ Sum(p, t \ {x}) = p[f] + rest
    BY <2>2, <2>3, <2>4, <2>5
  <2>7. Sum(p, t) = p[f] + (p[x] + rest)
    BY <1>3, <2>6
  <2>8. \A i, j, k \in Int : i + (j + k) = j + (i + k)
    OBVIOUS
  <2> QED BY <1>4, <2>1, <2>6, <2>7, <2>8
<1>7. Good(t)
  <2>1. Sum(p, t) \in Int
    BY <1>3, <1>4, <1>5
  <2>2. \A x \in t : Sum(p, t) = p[x] + Sum(p, t \ {x})
    BY <1>3, <1>6
  <2> QED BY <2>1, <2>2
<1> QED BY <1>1, <1>7

\* A set sums up to the same whatever the prices of others.
LEMMA SumDependsOnSet ==
    ASSUME NEW S, IsFiniteSet(S), NEW p, NEW q, \A x \in S : p[x] = q[x]
    PROVE  Sum(p, S) = Sum(q, S)
<1>1. PICK g : Adds(g, p, S)
  BY AddsExists
<1>2. \A s \in SUBSET S : s # {} => First(s) \in S
  BY FirstIn
<1>3. \A s \in SUBSET S : s # {} => p[First(s)] = q[First(s)]
  BY <1>2
<1>4. Adds(g, q, S)
  BY <1>1, <1>3 DEF Adds
<1>5. Sum(p, S) = g[S] /\ Sum(q, S) = g[S]
  BY <1>1, <1>4, SumValue
<1> QED BY <1>5

Prices == [b \in Requests |-> Price(b)]

\* The sum the property states is that sum.
LEMMA RevenueIsSum ==
    ASSUME NEW S \in SUBSET Requests
    PROVE  MapThenSumSet(Price, S) = Sum(Prices, S)
<1> DEFINE Iter(g) == g = [s \in SUBSET S |->
                              IF s = {} THEN 0
                              ELSE Price(CHOOSE x \in s : TRUE) + g[s \ {CHOOSE x \in s : TRUE}]]
<1>1. MapThenSumSet(Price, S) = (CHOOSE g : Iter(g))[S]
  BY DEF MapThenSumSet, MapThenFoldSet
<1>2. \A s \in SUBSET S : s # {} => First(s) \in Requests
  BY FirstIn
<1>3. \A s \in SUBSET S : s # {} => Prices[First(s)] = Price(First(s))
  BY <1>2 DEF Prices
<1>4. ASSUME NEW g PROVE Iter(g) <=> Adds(g, Prices, S)
  BY <1>3 DEF Adds, First
<1> HIDE DEF Iter
<1>5. IsFiniteSet(S) /\ S \in SUBSET S
  BY FS_Subset, BookingsAssumption
<1>6. PICK g : Iter(g)
  BY <1>4, <1>5, AddsExists
<1>7. Iter(CHOOSE h : Iter(h))
  BY <1>6
<1>8. Adds(CHOOSE h : Iter(h), Prices, S)
  BY <1>4, <1>7
<1> QED BY <1>1, <1>5, <1>8, SumValue

-----------------------------------------------------------------------------
(***************************************************************************)
(* The revenue, without interference.  The figure of a room bills what the *)
(* room's bookings cost that have been recorded and whose cancellation, if *)
(* any, has not: a confirmed booking from the record_create of its own     *)
(* request on, a cancelled one until the record_cancel of the request that *)
(* cancelled it.                                                           *)
(***************************************************************************)
IsBilled(b) ==
    \/ status[b] = "confirmed" /\ pc[b] # "record"
    \/ \E c \in Requests : pc[c] = "recordCancel" /\ entry[c].booking = b

Billed(m) == {b \in Requests : IsBilled(b) /\ booking[b].room = m}

RevenueInv ==
    /\ \A m \in Rooms : stats[m].revenue = Sum(Prices, Billed(m))
    /\ \A c \in Requests : pc[c] = "recordCancel" => status[entry[c].booking] = "cancelled"

\* Whatever neither writes the figures nor moves a request into or out of
\* its record step bills the same bookings.
Calm ==
    /\ UNCHANGED <<status, stats>>
    /\ \A q \in Requests :
          pc[q] \in {"record", "recordCancel"} \/ pc'[q] \in {"record", "recordCancel"}
          => pc'[q] = pc[q] /\ entry'[q] = entry[q]

\* Every step is calm unless it commits or records.
LEMMA CalmSteps ==
    ASSUME WellFormed, [Next]_vars
    PROVE  \/ Calm
           \/ \E r \in Requests : Insert(r) \/ CommitCancel(r) \/ RecordCreate(r) \/ RecordCancel(r)
<1> USE DEF WellFormed, TypeOK, Calm
<1>1. ASSUME NEW r \in Requests, NEW user \in Users, NEW room \in Rooms,
             NEW start \in Starts, NEW d \in Durations,
             BeginCreate(r, user, room, start, start + d)
      PROVE  Calm
  BY <1>1 DEF BeginCreate, Goto, memory
<1>2. ASSUME NEW r \in Requests, NEW user \in Users, NEW b \in Requests,
             BeginCancel(r, user, b) \/ BeginGet(r, user, b)
      PROVE  Calm
  BY <1>2 DEF BeginCancel, BeginGet, Goto, memory, database
<1>3. ASSUME NEW r \in Requests,
             CheckConflict(r) \/ CheckQuota(r) \/ IssueCode(r) \/ LoadRefunds(r)
      PROVE  Calm
  BY <1>3 DEF CheckConflict, CheckQuota, IssueCode, LoadRefunds, Goto, memory, database
<1>4. ASSUME NEW r \in Requests, Refuse(r) \/ CommitFails(r)
      PROVE  Calm
  BY <1>4 DEF Refuse, CommitFails, Goto, memory, database
<1>5. CASE Tick \/ UNCHANGED vars
  BY <1>5 DEF Tick, vars, memory, database
<1> QED BY <1>1, <1>2, <1>3, <1>4, <1>5 DEF Next, Begin, Step

\* A billed booking is a row, and its price is an integer that no step changes.
LEMMA BilledRows ==
    ASSUME WellFormed, [FaultNext]_vars
    PROVE  /\ \A m : Billed(m) \subseteq Rows /\ IsFiniteSet(Billed(m))
           /\ \A T \in SUBSET Rows : Sum(Prices', T) = Sum(Prices, T)
           /\ \A b \in Rows : Prices[b] = Price(b) /\ Prices[b] \in Int
<1>1. \A b \in Requests : IsBilled(b) => b \in Rows
  BY DEF IsBilled, Rows, WellFormed, Shape, HasEntry
<1>2. \A m : Billed(m) \subseteq Rows
  BY <1>1 DEF Billed
<1>3. \A T \in SUBSET Rows : IsFiniteSet(T)
  BY FS_Subset, BookingsAssumption DEF Rows
<1>4. ASSUME NEW b \in Rows
      PROVE  Prices[b] = Price(b) /\ Prices[b] \in Int /\ Prices'[b] = Prices[b]
  <2>1. b \in Requests /\ HasBooking(b) /\ booking'[b] = booking[b]
    BY RowsStay DEF Rows, HasBooking
  <2>2. Price(b) \in Int
    BY <2>1, PriceIsInt
  <2>3. Price(b)' = Price(b)
    BY <2>1 DEF Price
  <2> QED BY <2>1, <2>2, <2>3 DEF Prices
<1>5. ASSUME NEW T \in SUBSET Rows PROVE Sum(Prices', T) = Sum(Prices, T)
  BY <1>3, <1>4, SumDependsOnSet
<1> QED BY <1>2, <1>3, <1>4, <1>5

\* A room whose bookings are billed as before and whose figure stays is right.
LEMMA RevenueStays ==
    ASSUME WellFormed, [FaultNext]_vars, NEW m \in Rooms,
           stats[m].revenue = Sum(Prices, Billed(m)),
           stats'[m].revenue = stats[m].revenue,
           \A b \in Rows' : booking[b].room = m => (IsBilled(b)' <=> IsBilled(b))
    PROVE  stats'[m].revenue = Sum(Prices', Billed(m)')
<1>1. \A b \in Requests : IsBilled(b) => b \in Rows
  BY DEF IsBilled, Rows, WellFormed, Shape, HasEntry
<1>2. \A b \in Requests : IsBilled(b)' => b \in Rows'
  BY WellFormedStep DEF IsBilled, Rows, WellFormed, Shape, HasEntry
<1>3. \A b \in Rows : b \in Rows' /\ booking'[b] = booking[b]
  BY RowsStay
<1>4. ASSUME NEW b \in Rows' PROVE booking'[b] = booking[b]
  BY <1>3, NewRows DEF Insert
<1>5. Billed(m)' = Billed(m)
  BY <1>1, <1>2, <1>3, <1>4 DEF Billed
<1> QED BY <1>5, BilledRows

\* Steps that leave no two handlers interfering keep the revenue right.
LEMMA RevenueInvStep ==
    ASSUME WellFormed, CancelledIffRefunded, ExclusiveInv, CountInv, RevenueInv, [Next]_vars
    PROVE  RevenueInv'
<1> USE DEF WellFormed, TypeOK
<1>0. [FaultNext]_vars
  BY DEF FaultNext
<1>1. \A c \in Requests : pc[c] \in CancelSteps => /\ entry[c].booking \in Requests
                                                  /\ status[entry[c].booking] # "absent"
  BY DEF Shape, HasEntry, RefundLog
<1>2. \A b \in Requests : IsBilled(b) => b \in Rows
  BY <1>1 DEF IsBilled, Rows
<1>a. CASE Calm
  <2>1. \A b \in Requests : IsBilled(b)' <=> IsBilled(b)
    BY <1>a DEF Calm, IsBilled
  <2>2. \A m \in Rooms : stats'[m].revenue = Sum(Prices', Billed(m)')
    BY <1>0, <1>a, <2>1, RevenueStays DEF RevenueInv, Calm, Rows
  <2>3. \A c \in Requests : pc'[c] = "recordCancel" => status'[entry'[c].booking] = "cancelled"
    BY <1>a DEF Calm, RevenueInv
  <2> QED BY <2>2, <2>3 DEF RevenueInv
<1>b. ASSUME NEW r \in Requests, Insert(r) PROVE RevenueInv'
  <2>1. /\ pc[r] = "insert" /\ pc'[r] = "record" /\ UNCHANGED <<booking, entry, stats>>
        /\ status[r] = "absent" /\ status'[r] = "confirmed"
        /\ \A q \in Requests \ {r} : pc'[q] = pc[q] /\ status'[q] = status[q]
    BY <1>b DEF Insert, Goto, memory, Shape, Unwritten
  <2>2. \A b \in Requests : IsBilled(b)' <=> IsBilled(b)
    BY <1>1, <2>1 DEF IsBilled
  <2>3. \A m \in Rooms : stats'[m].revenue = Sum(Prices', Billed(m)')
    BY <1>0, <2>1, <2>2, RevenueStays DEF RevenueInv, Rows
  <2>4. \A c \in Requests : pc'[c] = "recordCancel" => status'[entry'[c].booking] = "cancelled"
    BY <1>1, <2>1 DEF RevenueInv
  <2> QED BY <2>3, <2>4 DEF RevenueInv
<1>c. ASSUME NEW r \in Requests, CommitCancel(r) PROVE RevenueInv'
  <2>1. PICK d \in Requests : d = entry[r].booking
    BY <1>1, <1>c DEF CommitCancel
  <2>2. /\ pc[r] = "settle" /\ pc'[r] = "recordCancel" /\ UNCHANGED <<booking, entry, stats>>
        /\ status[d] = "confirmed" /\ status'[d] = "cancelled"
        /\ \A q \in Requests \ {r} : pc'[q] = pc[q]
        /\ \A q \in Requests \ {d} : status'[q] = status[q]
    BY <1>c, <2>1 DEF CommitCancel, Goto, memory, ExclusiveInv, StillConfirmed
  <2>3. pc[d] # "record"
    BY <2>1, <2>2 DEF ExclusiveInv, Exclusive, Interfere
  <2>4. \A b \in Requests : IsBilled(b)' <=> IsBilled(b)
    BY <2>1, <2>2, <2>3 DEF IsBilled
  <2>5. \A m \in Rooms : stats'[m].revenue = Sum(Prices', Billed(m)')
    BY <1>0, <2>2, <2>4, RevenueStays DEF RevenueInv, Rows
  <2>6. \A c \in Requests : pc'[c] = "recordCancel" => status'[entry'[c].booking] = "cancelled"
    BY <1>1, <2>1, <2>2 DEF RevenueInv
  <2> QED BY <2>5, <2>6 DEF RevenueInv
<1>d. ASSUME NEW r \in Requests, RecordCreate(r) PROVE RevenueInv'
  <2>1. PICK room \in Rooms : room = booking[r].room
    BY <1>d DEF RecordCreate, Shape, HasBooking, Booking
  <2>2. /\ pc[r] = "record" /\ pc'[r] \in {"created", "failed"} /\ UNCHANGED <<booking, status, entry>>
        /\ stats' = StatsAfterCreate(room, Price(r)) /\ status[r] = "confirmed"
        /\ \A q \in Requests \ {r} : pc'[q] = pc[q]
    BY <1>d, <2>1 DEF RecordCreate, Goto, database, CountInv
  <2>3. \A b \in Requests : b # r => (IsBilled(b)' <=> IsBilled(b))
    BY <2>2 DEF IsBilled
  <2>4. ~IsBilled(r) /\ IsBilled(r)'
    BY <2>2 DEF IsBilled, ExclusiveInv, Exclusive, Interfere
  <2>5. /\ stats'[room].revenue = stats[room].revenue + Price(r)
        /\ \A m \in Rooms \ {room} : stats'[m] = stats[m]
    BY <2>2 DEF StatsAfterCreate
  <2>6. ASSUME NEW m \in Rooms, m # room
        PROVE  stats'[m].revenue = Sum(Prices', Billed(m)')
    BY <1>0, <2>1, <2>3, <2>5, <2>6, RevenueStays DEF RevenueInv, Rows
  <2>7. stats'[room].revenue = Sum(Prices', Billed(room)')
    <3> DEFINE B == Billed(room)
    <3>1. Billed(room)' = B \cup {r} /\ r \notin B
      BY <2>1, <2>2, <2>3, <2>4 DEF Billed
    <3>2. r \in Rows /\ B \subseteq Rows /\ IsFiniteSet(B \cup {r}) /\ IsFiniteSet(B)
      BY <1>0, <2>2, BilledRows, FS_AddElement DEF Rows
    <3>3. \A b \in B \cup {r} : Prices[b] \in Int
      BY <1>0, <3>2, BilledRows
    <3>4. (B \cup {r}) \ {r} = B
      BY <3>1
    <3> HIDE DEF B
    <3>5. Sum(Prices, B \cup {r}) = Prices[r] + Sum(Prices, B) /\ Sum(Prices, B) \in Int
      <4>1. Sum(Prices, B) \in Int
        BY <3>2, <3>3, SumTakesOut
      <4>2. PICK C : C = B \cup {r}
        OBVIOUS
      <4>3. IsFiniteSet(C) /\ r \in C /\ (\A b \in C : Prices[b] \in Int) /\ C \ {r} = B
        BY <3>2, <3>3, <3>4, <4>2
      <4>4. Sum(Prices, C) = Prices[r] + Sum(Prices, C \ {r})
        BY <4>3, SumTakesOut
      <4> QED BY <4>1, <4>2, <4>3, <4>4
    <3>6. Sum(Prices', B \cup {r}) = Sum(Prices, B \cup {r})
      BY <1>0, <3>2, BilledRows
    <3>7. Prices[r] = Price(r) /\ Prices[r] \in Int
      BY <1>0, <3>2, BilledRows
    <3>8. stats[room].revenue = Sum(Prices, B)
      BY DEF RevenueInv, B
    <3>9. Sum(Prices', B \cup {r}) = Sum(Prices, B) + Price(r)
      BY <3>5, <3>6, <3>7
    <3> QED BY <2>5, <3>1, <3>8, <3>9
  <2>8. \A c \in Requests : pc'[c] = "recordCancel" => status'[entry'[c].booking] = "cancelled"
    BY <2>2 DEF RevenueInv
  <2> QED BY <2>6, <2>7, <2>8 DEF RevenueInv
<1>e. ASSUME NEW r \in Requests, RecordCancel(r) PROVE RevenueInv'
  <2>1. PICK d \in Requests : d = entry[r].booking
    BY <1>1, <1>e DEF RecordCancel
  <2>2. PICK room \in Rooms : room = booking[d].room
    BY <1>1, <1>e, <2>1 DEF RecordCancel, Shape, HasBooking, Booking
  <2>3. /\ pc[r] = "recordCancel" /\ pc'[r] \in {"cancelled", "failed"} /\ UNCHANGED <<booking, status, entry>>
        /\ stats' = StatsAfterCancel(room, Price(d)) /\ status[d] = "cancelled"
        /\ \A q \in Requests \ {r} : pc'[q] = pc[q]
    BY <1>e, <2>1, <2>2 DEF RecordCancel, Goto, database, RevenueInv
  <2>4. \A b \in Requests : b # d => (IsBilled(b)' <=> IsBilled(b))
    BY <2>1, <2>3 DEF IsBilled
  <2>5. IsBilled(d) /\ ~IsBilled(d)'
    BY <2>1, <2>3 DEF IsBilled, ExclusiveInv, Exclusive, Interfere
  <2>6. /\ stats'[room].revenue = stats[room].revenue - Price(d)
        /\ \A m \in Rooms \ {room} : stats'[m] = stats[m]
    BY <2>3 DEF StatsAfterCancel
  <2>7. ASSUME NEW m \in Rooms, m # room
        PROVE  stats'[m].revenue = Sum(Prices', Billed(m)')
    BY <1>0, <2>2, <2>4, <2>6, <2>7, RevenueStays DEF RevenueInv, Rows
  <2>8. stats'[room].revenue = Sum(Prices', Billed(room)')
    <3> DEFINE B == Billed(room)
    <3>1. Billed(room)' = B \ {d} /\ d \in B
      BY <2>2, <2>3, <2>4, <2>5 DEF Billed
    <3>2. d \in Rows /\ B \subseteq Rows /\ IsFiniteSet(B)
      BY <1>0, <3>1, BilledRows
    <3>3. \A b \in B : Prices[b] \in Int
      BY <1>0, <3>2, BilledRows
    <3>4. IsFiniteSet(B \ {d})
      BY <3>2, FS_RemoveElement
    <3> HIDE DEF B
    <3>5. Sum(Prices, B) = Prices[d] + Sum(Prices, B \ {d})
      BY <3>1, <3>2, <3>3, SumTakesOut
    <3>6. Sum(Prices, B \ {d}) \in Int
      BY <3>3, <3>4, SumTakesOut
    <3>7. Sum(Prices', B \ {d}) = Sum(Prices, B \ {d})
      BY <1>0, <3>2, BilledRows
    <3>8. Prices[d] = Price(d) /\ Prices[d] \in Int
      BY <1>0, <3>2, BilledRows
    <3>9. stats[room].revenue = Sum(Prices, B)
      BY DEF RevenueInv, B
    <3>10. Sum(Prices', B \ {d}) = Sum(Prices, B) - Price(d)
      BY <3>5, <3>6, <3>7, <3>8
    <3> QED BY <2>6, <3>1, <3>9, <3>10
  <2>9. \A c \in Requests : pc'[c] = "recordCancel" => status'[entry'[c].booking] = "cancelled"
    BY <2>3 DEF RevenueInv
  <2> QED BY <2>7, <2>8, <2>9 DEF RevenueInv
<1> QED BY <1>a, <1>b, <1>c, <1>d, <1>e, CalmSteps

(***************************************************************************)
(* In one process and without interference the statistics of a room show,  *)
(* whenever no request is under way, what its confirmed bookings cost      *)
(* together: creations add and cancellations take away the same prices.    *)
(***************************************************************************)
THEOREM ExclusiveRevenueMatches == ExclusiveSpec => []RevenueMatchesAtRest
<1>1. Init => RevenueInv
  <2> SUFFICES ASSUME Init PROVE RevenueInv
    OBVIOUS
  <2>1. \A m : Billed(m) = {}
    BY DEF Init, Billed, IsBilled
  <2>2. Sum(Prices, {}) = 0
    BY SumUnfolds, FS_EmptySet
  <2> QED BY <2>1, <2>2 DEF Init, RevenueInv, NoStats
<1>2. [Next /\ Exclusive']_vars => [Next]_vars
  OBVIOUS
<1>3. WellFormed /\ RevenueInv => RevenueMatchesAtRest
  <2> SUFFICES ASSUME WellFormed, RevenueInv, NothingInFlight, NEW m \in Rooms
               PROVE  stats[m].revenue = MapThenSumSet(Price, Existing(m))
    BY DEF RevenueMatchesAtRest
  <2>1. Billed(m) = Existing(m)
    BY DEF Billed, IsBilled, NothingInFlight, Existing, Confirmed
  <2>2. MapThenSumSet(Price, Existing(m)) = Sum(Prices, Existing(m))
    BY RevenueIsSum DEF Existing, Confirmed
  <2> QED BY <2>1, <2>2 DEF RevenueInv
<1> QED
  BY <1>1, <1>2, <1>3, RevenueInvStep, CountInvAlways, ExclusiveIsRestart, ExclusiveIsFault,
     WellFormedAlways, CancelledExactlyWhenRefunded, ExclusiveInvAlways, PTL DEF ExclusiveSpec
=============================================================================
