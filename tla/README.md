# CoWork API: specification, model checking and proofs

This directory specifies the CoWork room-booking API (the FastAPI application
under `src/app`) in TLA+, checks the specifications with TLC and proves the
results that matter most with TLAPS. `PROJECT.json` is the index: which
definition models which lines, what each run checks, which mutation of the code
each property would notice, and which hazards of the code the properties cover.

## 1. The system

The server is one process. Every endpoint is a plain `def`, so FastAPI runs it
in a pool of threads: **any two handlers interleave**, at every access to the
database and at every operation on the module-level state. Each request has its
own SQLAlchemy session; a `SELECT` sees the latest commit (sqlite opens a
transaction only when something is written), and `commit` is atomic.

The pools are those of the libraries (FastAPI 0.111, anyio, SQLAlchemy 2.0.30,
no settings in `database.py`): a sync dependency and the endpoint it guards each
take one of 40 worker threads, one after the other; a session takes one of 15
connections (5 and 10 overflow) at its first query and keeps it until it
commits or closes, and a thread that finds none waits for 30 seconds and then
raises. `db.close` of `get_db` runs in a thread outside those 40.

| Component | State | Operations | Talks to |
|---|---|---|---|
| bookings (`routers/bookings.py`) | tables `bookings`, `refund_logs` | create, cancel, detail, list | all services below, the caches |
| refunds (`services/refunds.py`) | adds to the session of a cancellation | `log_refund` | bookings |
| reference codes (`services/reference.py`) | `_counter` behind a lock | `next_reference_code` | bookings |
| room statistics (`services/stats.py`) | `_stats` behind a lock | `record_create`, `record_cancel`, `get` | bookings, rooms |
| rate limiter (`services/ratelimit.py`) | `_buckets` behind a lock | `record_and_check` | bookings |
| notifications (`services/notifications.py`) | two locks | `notify_created`, `notify_cancelled` | bookings |
| caches (`cache.py`) | two dictionaries, no lock | get, set, invalidate | rooms, admin, bookings |
| rooms and reports (`routers/rooms.py`, `routers/admin.py`) | table `rooms` | create, list, availability, statistics, usage report, export | caches, statistics |
| registration (`routers/auth.py`) | tables `organizations`, `users` | `register` | |
| tokens (`auth.py`, `routers/auth.py`) | `_revoked_tokens` behind a lock | login, refresh, logout, the guard of every other endpoint | |
| sessions (`database.py`, `get_current_user`) | the pool of connections, the worker threads | `get_db` around every request | everything that queries |
| conversions (`timeutils.py`, `serializers.py`, `schemas.py`) | none | parsing, validation, formatting | |

What is hard about it:

* **Check, pause, act.** A creation reads the conflicts, sleeps, counts the
  quota, sleeps, takes a code, sleeps, and only then inserts. A cancellation
  reads the status, sleeps and commits. Nothing is held in between.
* **Two homes for one truth.** Codes and statistics live in memory, the
  bookings they describe in the database; a restart or a failure between the
  two leaves them apart.
* **Order.** Statistics are recorded after the commits, in another order than
  the commits if the scheduler wants it; the rate limiter reads the clock
  before it queues for its lock.
* **Two pools.** A request holds a connection while it waits for its second
  thread, and asks for another connection after its commit, with a thread in
  hand; locks come on top.
* **Pages by offset**, of a table that grows between the queries.
* **Caches without a lock**, filled from queries that may be out of date by the
  time the result is stored, and iterated while others write to them.
* **Two commits per registration**, with the role decided before the first.
* **Numbers.** Notice tiers that mix floored and exact comparisons, refunds
  computed in binary floating point.

What makes each component correct is stated as properties of its module; the
`hazards` of `PROJECT.json` tie every place where it could go wrong to them.

## 2. The modules

| Module | What it is |
|---|---|
| `RefundMath` | tiers and amounts of a cancellation, as pure operators |
| `Settlement`, `MCSettlement`, `SettlementProofs` | one booking, time passing, its cancellation |
| `Bookings` | the booking core: handlers of create, cancel and detail, step by step |
| `BookingLedger` | the abstract specification: what the project's README promises, one step per operation, with the two tolerances the code needs |
| `BookingsProperties`, `MCBookings`, `BookingsProofs` | properties of the core and its refinement mapping; instances; proofs |
| `ServiceCalls` | the handlers as callers of the locked services |
| `ReferenceCodes`, `RoomStats`, `Notifications` | the inside of the three locked services |
| `Server`, `MCServer`, `ServerProofs` | requests on worker threads and pooled connections, composed with the three services in the order in which the handlers call them; proofs about the services and the composition |
| `BookingList`, `MCBookingList`, `BookingListProofs` | clients that page through their bookings, and the export, while the table changes |
| `RateLimit`, `MCRateLimit`, `RateLimitProofs` | the rolling window of one user |
| `Caches`, `MCCaches`, `CachesProofs` | readers that fill the caches against writers that invalidate them |
| `Registration`, `MCRegistration`, `RegistrationProofs` | `register` |
| `Tokens`, `MCTokens`, `TokensProofs` | login, rotation, logout, the guard, restarts |

`Bookings` uses `RefundMath` for the notice tiers. It takes `next_reference_code`,
`record_create` and `record_cancel` as one step each; `ReferenceCodes` and
`RoomStats` open those steps up and show that the locks make them so.

### Bookings

One member of `Requests` is one HTTP request; a booking row is named after the
request that inserted it, a refund row after the cancellation that wrote it.
`pc` is the next access the handler will make, or how it ended.

| Action | Code |
|---|---|
| `BeginCreate` | parse, validate, find the room (`bookings.py:82-103`) |
| `CheckConflict` | the `SELECT` of `_has_conflict`; the loop runs on its result |
| `CheckQuota` | the count of `_check_quota`; the comparison after the pause uses it |
| `IssueCode` | `next_reference_code`, atomic by `ServerProofs!IssueIsAtomic` |
| `Insert` | `db.add`, `db.commit` |
| `RecordCreate` | `stats.record_create` and the answer: 201, or 500 if `invalidate_report` raises |
| `BeginCancel` | lookup, ownership, status, tier, `log_refund` (`:198-227`) |
| `CommitCancel` | status and refund in one commit (`:230-232`) |
| `RecordCancel` | `stats.record_cancel` and the answer, likewise |
| `BeginGet`, `LoadRefunds` | the detail, read by two statements |
| `Refuse` | 400, 404, 409 before anything is written |
| `CommitFails` | a commit that raises: rolled back, 500 |
| `RefreshFails` | the read after a commit raises: 500, the rest of the handler skipped |
| `Restart` | memory is new, the database stays, requests in flight are gone |

`before` and `beforeQuota` are histories: what was committed when a handler
read. Four specifications differ in what may happen: `Spec` (the server as it
runs), `FaultSpec` (and restarts or fails after a commit), `ExclusiveSpec` (no
two handlers in flight that could interfere: creations for one room or one
user, cancellations of one booking, a cancellation of a booking whose creation
has not been counted) and `RestartSpec` (that, with restarts; used by the
proofs).

The pattern of the properties follows: a rule of the project's README in its
plain form holds under `ExclusiveSpec`; on the server as it runs it does not,
and the `...OnlyByRace` form says exactly how far the code gets: whatever breaks
the rule, the requests responsible had each read before the other committed.

`BookingLedger` knows bookings and refunds only. Its tiers are the README's 48
and 24 hours (`Promised`), its bookings start after the time of the request
(`AheadOfTime`). The code does not keep either exactly, so the ledger names two
tolerances and no more: a booking may start up to `GRACE` late, and a notice in
the first hour of the full tier may be paid half (`Shares`, `InFirstFullHour`).
Without them the refinement fails; they are the known departures below. The
refinement mapping reads both off the tables: a row is there once inserted, and
paid with the percentage of its refund entry once that is committed. `Insert`
implements `Book` and `CommitCancel` implements `Cancel`, both judged at the
time the handler read the clock; all else stutters.

### The others

* `Settlement`: `Wait` moves the notice towards and past the start; `Cancel`
  computes tier, reply and ledger amount. `RefundMath` renders the binary64
  computations `int(price / 100.0 * share * 100)` and `round(price * share)` as
  integer functions. `FloatCents` gives the price at which the product falls a
  cent short from the size and the dropped bits of the quotient; it was
  compared with CPython for every price up to three million.
* `ReferenceCodes`, `RoomStats`: `EnterCounter` and `EnterStats` take the lock
  and read, `LeaveCounter` and `LeaveStats` write and release; the pause lies
  in between.
* `Notifications`: `TakeOuter`, `TakeInner`, `LeaveBoth`.
* `Server`: each request goes through the stages of its thread and its session.
  `TakeThread` starts the guard or the endpoint; `Guard` is the query of
  `get_current_user`, which takes the connection and frees the thread; `Commit`
  gives the connection back, and `CommitFails` answers 500 with nothing stored;
  `Reload` is the first query after it; `TimeOut` is what a wait for a
  connection ends in if it does not end otherwise; `InvalidationFails` is the
  `RuntimeError` of `invalidate_report`, which ends a request whose statistics
  are recorded and whose notification is not sent; `Close` is `get_db`. In
  between a creation takes a code, records and notifies, a cancellation records
  and notifies, and the statistics endpoint reads (`IssueCode`, `Record`,
  `Notify`). `TimeOut` after a commit is what `RefreshFails` of `Bookings`
  stands for. The dependencies without a query, `get_token_payload` and
  `require_admin`, take and return a thread as well and wait for nothing with
  it; they are left out.
* `BookingList`: `Count` and `Items` are the two queries of a page. A page is
  rendered by how many rows precede one in the order of the list, so a row
  inserted further up pushes the rest down, as offsets do. A client keeps her
  limit and stops at a page that is not full or at the total (`lastPage`,
  `totalReached`). Insertions and cancellations are those commits of `Bookings`;
  what they check concerns no property here but the organisation of the room,
  which the export selects by. The export is one query and therefore an
  operator of the tables (`Export`).
* `RateLimit`: `ReadClock`, then `RecordAndCheck` under the lock. Buckets of
  different users share only the lock, so one user is modelled. The stamps are
  represented by the requests that left them. `Restart` empties the bucket.
  `handled` is a history, the order in which requests of one process held the
  lock, and so is `forgotten`, the requests answered before the last restart.
* `Caches`: a reader misses, reads the rooms, reads the bookings room by room
  and stores; a writer commits, pops the day (creations only), iterates over
  the report keys, pops them one by one. The iteration is two steps: keys that
  come or go in between may be in the list or not, or raise `RuntimeError`.
  `raced` in an entry is a history: the writes that committed while the entry
  was computed. A date is asked for in a spelling; `"iso"` is the one that
  `create_booking` pops.
* `Registration`: `LookUpOrg`, `FoundOrg`, `CheckUsername`, `InsertUser`, each
  one access to a table; `FoundOrgFails` is the broad `except` clause, which takes
  any failure for a lost race (so a founder whose `refresh` fails becomes a
  member), `RefreshFails` a user who is stored and answered 500, `CallFails`
  every other failing call, `Crash` the end of the process. Constraints of
  `models.py` act at the commits. `founders` and `failed` are histories: who
  inserted his organisation, and who met a failure.
* `Tokens`: a token is its index in the order of issue. `Decode`,
  `CheckRevoked` and then `Serve` for protected endpoints or `Logout`; `Decode`,
  `Redeem`, `Issue` for a refresh; `LookUpFails` is the query of the user that
  raises. `Expire` may happen at any time, which covers every lifetime.
  `Restart` empties the set, `forgotten` is the history of what it held.

## 3. What is checked

Every passing run explores its whole state space.

| Run | Specification | Shows |
|---|---|---|
| `BookingsRace` | `Bookings!FaultSpec` | double bookings (`DoubleBookingOnlyByRace`), excess bookings (`QuotaExceededOnlyByRace`) and double refunds (`DoubleRefundOnlyByRace`) only arise between handlers that overlapped, whatever fails or restarts; a booking is cancelled exactly when refunded (`CancelledIffRefunded`); a detail that says cancelled shows its refund; nobody acts across tenants (`TenantsApart`) |
| `BookingsExclusive` | `Bookings!ExclusiveSpec` | without interference: no double booking, quota kept, nobody refused for nothing (a cancelled booking is nothing), one refund, count and revenue exact at rest, and `BookingLedger` implemented |
| `Settlement` | `Settlement!Spec` | ledger within a cent of the reply; the share is the promised one but in one hour (`UnderpaidOnlyInOneHour`); waiting never pays |
| `Server` | `Server!FairSpec` | each code is issued in one step, no update of the revenue is lost and the count loses only cancellations that found it at zero (`CountLosesOnlyEarlyCancels`), the audit log follows the mails; nothing leaks, whatever is refused or times out; nobody waits for a thread or a connection with a lock in hand; the pools block one another only when filled together; at every instant the revenue has every request answered as done and none that the database refused (`StatsCoverWhatWasDone`); every request is answered |
| `BookingList` | `BookingList!Spec` | reading to the last page misses nothing, stopping at the total only what was pushed behind it between two queries; an item is repeated only for one created; no page falls short of its total; the exports agree with one another and with the list |
| `RateLimit` | `RateLimit!Spec` | a rejection is justified in any order at the lock; within one process the limit breaks only when a request was overtaken by one with a later stamp |
| `CachesRace` | `Caches!Spec` | a stale report or a hidden booking was overtaken while the entry was computed, or its writer has not finished |
| `RegisterFault` | `Registration!FaultSpec` | never two admins; and an organisation whose founder is through lacks one only if a call of his failed, his process died or another request took his name first (`AdminMissingOnlyByAccident`) |
| `Tokens` | `Tokens!Spec` | a session forks only when a restart forgets a used token, a logout holds until a restart, nobody is refused for another's token |

Three runs show where the code departs from what the repository says of it. Each
is a finding in `PROJECT.json`, with the line of the claim.

| Run | The code |
|---|---|
| `RaceDoubleBooking` | two creations that check before either inserts sell one slot twice |
| `StaleDay` | a cancellation leaves the cached day as it was |
| `RegisterTwins` | of two registrations of one name and organisation the founder finds the name taken and answers 409, the other is a member: the organisation has no admin |

**Known departures without a run of their own.** The models contain the
behaviour below (unless said otherwise); the properties above are stated so that
they hold in spite of it.

* Notice tiers: the full refund starts at 49 hours, not at the 48 of
  `README.md:360`, because the hours are floored before they are compared with
  `>`. `UnderpaidOnlyInOneHour` says that this is the only notice at which the
  promised share is not paid, `Shares` of `BookingLedger` tolerates it.
* Quota: two creations of one user can both count before either commits, and a
  fourth booking appears. `QuotaExceededOnlyByRace` says it is the only way.
* Double refund: two cancellations that both read `confirmed` both commit a
  refund; together they may exceed the price.
* Statistics: if a cancellation is recorded before its creation, the clamp at
  zero loses a count; if one booking is cancelled twice, count and revenue drop
  twice. A restart, or a failure between commit and recording, leaves the
  statistics short of the table: `StatsCoverWhatWasDone` says that a 500 may or
  may not be counted, a success always is.
* A creation whose reload finds no connection answers 500 although the booking
  is there, and a second try is refused for a conflict with the first.
* Codes: a restart starts the counter anew, and codes repeat those of older rows.
* Grace: a start up to five minutes in the past is accepted, where `README.md:346`
  asks for a future one, and such a booking does not count towards the quota
  (`AheadOfTime` of `BookingLedger` tolerates it).
* The list: two pages that a client reads one after the other may show an item
  twice, and a client that stops at the total may miss an item, when bookings
  are created in between.
* Tokens: a restart forgets the revoked tokens (`README.md:453` says they are in
  memory), so a logged-out token is admitted and a used refresh token can be
  used again until it expires.
* Cents: a full refund of 29, 57, 58, ... cents is stored a cent short.
* Rate limiter: the clock is read before the lock, so a request with an older
  stamp can be overtaken, its window trimmed, and a request beyond the limit
  accepted. A restart empties the buckets, so a window across it can hold more
  than the limit.
* Caches: a report computed before a write can be stored after its invalidation
  and stays; spellings of a date other than the ISO form are never popped; a new
  room is missing from cached reports; a booking that runs past midnight is only
  shown on the day it starts.
* `invalidate_report` iterates over a dictionary others may resize: the
  `RuntimeError` ends a committed request, already in the statistics, in a 500
  without a notification and with reports left stale.
* Registration: between the founder's two commits another user can register and
  get a lower id, as a member; a crash or a failing call there leaves an
  organisation that never gets an admin; the loser of a race for a name gets a
  500, not a 409.

**Bounds.** Each race in the core needs two handlers and a third to observe or
disturb, so it runs with three requests, which may be any mix of creations,
cancellations and details. `BookingsRace` has two organisations, each with a
room and an admin, a member besides, one start that the clock can reach, and
all failures; `BookingsExclusive` one organisation with a member and its admin,
two starts and two durations such that bookings touch, overlap and contain one
another, and a clock that goes past the earlier start, within the grace. The
durations that are refused include a negative one, none, half an hour and one
too long. `QUOTA_LIMIT` is 1, so that
two bookings exceed it. An hour has two ticks (one in `BookingsExclusive`), and
the tiers are scaled to one hour, so that notices fall below, on and above the
boundary and into the first full hour; `Settlement` has the real 24 and 48, 2000 prices and some around powers
of two. `MaxClock` stops the clock at 1 or 2, once starts have been reached. The
window of the rate limiter is two ticks for at most two requests, with five
requests over four ticks and a restart at any of them. `CachesRace` has a booking in each of two rooms, one
of which is created meanwhile, two report ranges of which one covers the other,
one day, two creations and a cancellation, and one reader, which may serve any
number of requests in turn. `RegisterFault` has four requests for two
organisations and two names. `Server` has two creations, a cancellation and a
read on two threads and two connections, so four requests fill both pools at
once, the least that jams them; the rooms and the creations are interchangeable
and the room of the read is of no consequence, so `MCServer` keeps one of each
set of equal beginnings. `BookingList` has three
bookings of its reader in two rooms, two of them at one start, one of a
colleague in one of these rooms, one of the administrator of another
organisation, and one request for a room that is not the reader's to book; pages
of one and of two. `MaxTokens` stops logins and refreshes at four tokens: two
sessions, or one with a rotation. Requests are interchangeable, hence the
symmetry where no liveness is checked (`LedgerImplemented` is a safety property
and treats all requests alike: what its `CHOOSE` picks from has one element). `CHECK_DEADLOCK` is off because
the requests of an instance are finite in number and the server then rests; that
nothing stops before is `EveryRequestAnswered`.

**Fairness.** Only `Server` has a liveness property, under weak fairness of the
server as a whole: as long as some step is possible, one is taken. That is the
least a scheduler does, and enough, since each request takes finitely many steps:
threads that can go on are run, each `sleep` ends, and a wait for a connection
ends with one or with the timeout. Nothing is assumed about which request goes
first. What the property then says is that the server never reaches a state in
which requests are left and none can move.

## 4. What is proved

All for every value of the constants, subject to the named assumptions on them
(`NoticeAssumption`, `BookingsAssumption`, `NoneAssumption`,
`SettlementAssumption`, `CallsAssumption`, `CodesAssumption`, `StatsAssumption`,
`ServerAssumption`, `ListAssumption`, `CachesAssumption`, `TokensAssumption`,
`RateLimitAssumption`), which TLC evaluates in the runs. They say what the
constants are: finite sets of requests, positive limits, organisations for every
user and room, a `None` that is neither a booking nor a percentage, a day or a
range that somebody may ask for.

* `BookingsProofs`. `WellFormed` (types, and which objects exist at which `pc`)
  is inductive for `FaultSpec` (`TypeCorrect`), and with it
  `CancelledIffRefunded` (`CancelledExactlyWhenRefunded`). `RaceInv` adds what a
  handler knows: nothing it had read, and that is still confirmed, overlaps its
  own booking; no refund it could see is of its booking. It is needed because
  `DoubleBookingOnlyByRace` alone says nothing of a creation between its check
  and its insert (`DoubleBookingsAreRaces`, `DoubleRefundsAreRaces`).
  `ExclusiveInv` says that the slot a creation has checked stays free and the
  booking a cancellation has read stays confirmed, because whoever could change
  that would interfere (`ExclusiveNeverDoubleBooks`, `ExclusiveRefundsOnce`,
  restarts included).
  `TenantsStayApart` rests on a booking's room and user belonging to one
  organisation from its creation on. `CancelledDetailsShowRefunds` follows from
  refunds only ever being added. For `RefusalsAreJustified`, `Windows` says that
  every booking object was accepted by `WindowAccepted` and so lasts at least a
  tick: then an overlap by the code's comparisons is a tick in common. What justified
  a verdict was held when the handler looked: whatever is confirmed has no refund
  in the ledger (`HeldIsWhatWasConfirmed`), and what a request saw does not change
  afterwards (`HeldStays`).
* The quota, in the same module. `QuotaInv` says that what a creation counted is
  fewer than the limit and can only become fewer, since no booking becomes
  confirmed again, and that whoever was committed before another counted had
  himself counted before that. So of pairwise non-concurrent upcoming bookings
  one counted last (a minimum in the well-founded order of strict subsets) and
  it saw all the others: with it they are at most the limit (`LastCountsAll`,
  `QuotaExcessesAreRaces`). Without interference any two bookings of a user are
  non-concurrent in this sense (`CountsCompare`), hence `ExclusiveKeepsTheQuota`.
* The booking count, in the same module. `CountInv` says that the count of a room
  is its confirmed bookings whose creation has been recorded and one for every
  committed cancellation that has not; without interference nobody cancels a
  booking that is still to be recorded, so the clamp at zero never acts
  (`ExclusiveCountsMatch`).
* The revenue, in the same module. The figure of a room is the sum of what is
  *billed* (`RevenueInv`): the bookings counted above and those whose
  cancellation is committed and not yet recorded. Each step bills the same,
  one booking more (`RecordCreate`) or one less (`RecordCancel`), of which
  neither was billed twice because the handlers concerned would interfere
  (`ExclusiveRevenueMatches`). The sum is `MapThenSumSet`, which takes the
  elements out in the order of a `CHOOSE`; that it exists for every finite set,
  is unique, and does not depend on the order (`AddsExists`, `AddsOnce`,
  `SumTakesOut`) is proved by looking at a smallest set for which it fails
  (`Smallest`), which needs no induction over an operator.
* The refinement of `BookingLedger`, in the same module. Every booking object
  was accepted at the time it is stamped with (`Asked`), the share of a
  cancellation under way is that of a time not after now (`ShareFixed`), and a
  creation that has passed its quota check has seen all that is ahead of it,
  since nobody else of its user has inserted since (`FewAheadNow`, from `QuotaInv`
  and `CountsCompare`). With the free slot and the confirmed booking of
  `ExclusiveInv`, an insert is a `Book` (`InsertBooks`) and a cancellation's
  commit a `Cancel` (`CommitCancels`); a step of the clock is a `Tick`, and no
  other step changes what the mapping shows; that the code's share is the
  promised one or the tolerated half is `ShareIsTolerated` (`LedgerStep`,
  `RestartsImplementLedger`, `ExclusiveImplementsLedger`).
* `SettlementProofs`. Division is monotone, so the tiers are
  (`WaitingIsNeverRewarded`); the two amounts differ by at most a cent for each
  share separately (`LedgerAlwaysWithinACent`), and flooring the hours loses
  less than an hour (`UnderpaysInOneHourOnly`). That `FloatCents` is what
  binary64 computes is not part of the proof: it only uses that `FloatCents` is
  the price or a cent less.
* `ServerProofs`, the services. The lock's holder is the call in its pause and
  what it read is still what is stored; then no code repeats (`CodesDiffer`),
  each is issued in one step (`IssueIsAtomic`), a read returns what is stored
  (`GetReturnsCurrent`), and the revenue equals the recorded creations less
  cancellations, a count of finite sets (`RevenueLosesNothing`); so does the
  count, but for the cancellations that read a zero (`CountLosesLittle`).
* `ServerProofs`, the composition. It implements `CodesSpec` and `StatsSpec`
  (`ServerUsesCodes`, `ServerUsesStats`), so their theorems carry over
  (`ServerLosesNothing`); whoever holds the inner lock of the notifications sent
  the last mail (`AuditAlwaysFollowsMail`). `ServerInv` ties the stage of a
  request to what it occupies: which stages hold a thread, a connection or a
  lock, and how far its calls are. From it follow `NothingEverLeaks` and
  `LocksAreNeverHeldUp`, by counting the occupied threads and connections
  `JamTakesThreadsAndPool`, and with `NoLostUpdate` `StatsAlwaysCoverWhatWasDone`:
  the recorded requests are stored, and whoever is answered as done is among them.
* `ServerProofs`, progress. `Proceeds` is the disjunction of the guards of a
  request's steps, refusals and timeouts left out. As long as a request is in
  progress one proceeds, unless both pools are jammed, and then one may time out
  (`SomebodyAlwaysMoves`): a request that is not starved goes on or waits for a
  lock, and the holder of a lock goes on or waits for `_audit_lock`, whose holder
  has only to leave (`ProgressInvAlways`); in a jam every thread is occupied by
  a request that waits for a connection. The steps a request has still to take
  are at most fourteen (`RanksAreAlwaysBounded`), and every step of the server
  lowers this number for one request and leaves it for the others
  (`EveryStepIsCounted`).
* `BookingListProofs`. Insertions only move rows to later places, so a row the
  reader had at the beginning and has not seen still lies behind her offset
  (`StillAhead`); a page that is not full then has the rest of them, and one
  that reaches the total leaves out at most what was inserted since the total
  (`NothingSkipped`). A page is a contiguous piece of the order, so it holds as
  many rows as the table has behind its offset, up to the limit
  (`PagesKeepTheirTotal`). What will be repeated was shown and pushed behind the
  offset since (`Late`); one insertion pushes one row at most, so
  the repeated and the late together are paid for (`RepeatsArePaidFor`). Both
  queries of the export select by the organisation of the room
  (`ExportsAddUp`); an insert checks that it is the user's, so the export and
  the list have the same bookings (`ExportsAgreeWithLists`).
* `CachesProofs`. What a reader has found in the rooms it has read differs from
  the table only by writes that committed while it reads (`ReaderInv`), which is
  what an entry is stored with. From then on a writer whose booking an entry is
  wrong about either overtook the entry's reader or still has that key to pop:
  it has not scanned yet, has failed, or found the key when it scanned
  (`ReportInv`; a key that the scan left out was not cached then, and whoever
  stores it later has seen the write or was overtaken by it). For a day the
  writer has committed and not yet popped (`DayInv`). `StaleReportsAreRaces` and
  `HiddenBookingsAreRaces` follow.
* `TokensProofs`. A session whose tokens no restart has forgotten has, at any
  time, at most one refresh token that is usable or one request about to replace
  it, never both (`OnlyRestartsForkSessions`). A request that was
  checked after a logout was checked against it, in the same process
  (`LogoutsHold`); only a presented token is ever added to the set, and none
  removed but by a restart (`RefusalsAreOwn`).
* `RateLimitProofs`. A handled request is missing from the bucket only if one
  with a stamp a whole window later was handled (`Complete`). So a request under
  the lock that would complete a window of too many either counts them all and
  is rejected, or was itself overtaken by the later one
  (`OnlyOvertakingBreaksTheLimit`); and what it counts lies in its window, so a
  rejection has its reasons (`RejectionsAreJustified`). Bucket and `Complete` are
  about the requests of one process; a restart begins with none.
* `RegistrationProofs`. A request *holds* an organisation when it means to make
  its user the admin and has inserted the organisation; at most one does, and
  only when the organisation exists, whatever fails or crashes
  (`OneAdminPerOrganisation`). Every organisation has a founder, who still holds
  it unless he met with an accident (`FounderInv`): his row is added as the admin
  he means to be, or he failed, crashed or found his name taken; and since rows
  are never deleted, the name stays taken (`AdminsAreMissingByAccident`).

Only model-checked: liveness. `EveryRequestAnswered` needs fairness and
`ENABLED`, which are out of the prover's reach, and stays with TLC; every other
property of a passing run is stated by a theorem. What the theorems say of it is
its safety part: something can always move, nothing moves for ever, and who is
over has his reply. What is missing is that a guard which holds makes its step
`ENABLED`, and the rule that takes weak fairness from there to the end.

## 5. What is not modelled

* The list of rooms, health: they change no state and combine no two queries.
* Conversions, validation of other fields, formats, passwords, signatures: no state.
* A token whose user is gone: nothing deletes users.
* What sqlite itself locks and for how long: a commit succeeds or fails
  (`CommitFails`), and a statement is atomic.
* In `Server` the caches, the rate limiter and the queries before the commit of
  an endpoint, which use the connection the session already holds.
* In `Caches` one organisation, since `invalidate_report` filters by it.
* `src/run_bug_demo.py`, `src/smoke_test.py`, `src/final_check.py`: scripts that
  call the API and look at the answers.

## 6. Plan

1. The booking core with its abstract ledger, refunds, codes, statistics, rate
   limiter and notifications, caches, registration, tokens: done.
2. The list and the export (`BookingList`), the two pools (`Server`), restarts
   in `Tokens` and `RateLimit`: done.
3. Proofs of the refusals, the details, the quota, the count at rest, the
   sessions and logouts, the list and the server: done.
4. Proofs of the refinement of `BookingLedger`, of the revenue at rest, of the
   caches and of the export: done.
5. One composition of creation with its cache steps and its rate limiter, to
   state what a client observes across endpoints.
