------------------------------ MODULE RateLimit ------------------------------
(***************************************************************************)
(* services/ratelimit.py: record_and_check for the creations of one user   *)
(* (the buckets of different users share nothing but the lock).  The clock *)
(* is read before _buckets_lock is taken, so requests may be handled in    *)
(* another order than the one they read the clock in.                      *)
(*                                                                         *)
(* A bucket is a list of time stamps of which the code uses the values     *)
(* and the length; here it is the set of requests that left them.  The     *)
(* buckets live in the memory of the process: a restart empties them.      *)
(***************************************************************************)
EXTENDS Integers, FiniteSets

CONSTANTS Requests,
          WINDOW,        \* _WINDOW_SECONDS, in ticks
          MAX_REQUESTS,  \* _MAX_REQUESTS
          MaxClock       \* bound: the clock stops there

ASSUME RateLimitAssumption ==
    WINDOW \in Nat \ {0} /\ MAX_REQUESTS \in Nat /\ MaxClock \in Nat

VARIABLES clock,
          now,      \* the time each request read
          bucket,   \* _buckets[user_id]
          pc,
          handled,  \* history: the order in which the requests of one
                    \* process held the lock
          forgotten \* history: the requests answered before the last restart

vars == <<clock, now, bucket, pc, handled, forgotten>>

TypeOK ==
    /\ clock \in Nat
    /\ now \in [Requests -> Nat]
    /\ bucket \subseteq Requests
    /\ pc \in [Requests -> {"idle", "waiting", "accepted", "rejected", "lost"}]
    /\ handled \subseteq Requests \X Requests
    /\ forgotten \subseteq Requests

Init ==
    /\ clock = 0
    /\ now = [r \in Requests |-> 0]
    /\ bucket = {}
    /\ pc = [r \in Requests |-> "idle"]
    /\ handled = {}
    /\ forgotten = {}

Ended == {r \in Requests : pc[r] \in {"accepted", "rejected"}}

\* What this process has handled.
Done == Ended \ forgotten

\* now = time.time(), before the lock.
ReadClock(r) ==
    /\ pc[r] = "idle"
    /\ now' = [now EXCEPT ![r] = clock]
    /\ pc' = [pc EXCEPT ![r] = "waiting"]
    /\ UNCHANGED <<clock, bucket, handled, forgotten>>

\* Off by one: the window a tick too short, or a tick too long.
KeptTooFew(time) == {q \in bucket : now[q] > time - WINDOW + 1}
KeptTooMany(time) == {q \in bucket : now[q] >= time - WINDOW}

\* The stamps the trim keeps.
Kept(time) == {q \in bucket : now[q] > time - WINDOW}

OverLimit(stamps) == Cardinality(stamps) > MAX_REQUESTS

\* Under the lock: trim, append, store, count; then 429 or go on.  A rejected
\* request leaves its stamp as well.
RecordAndCheck(r) ==
    /\ pc[r] = "waiting"
    /\ bucket' = Kept(now[r]) \cup {r}
    /\ pc' = [pc EXCEPT ![r] =
           IF OverLimit(Kept(now[r]) \cup {r}) THEN "rejected" ELSE "accepted"]
    /\ handled' = handled \cup (Done \X {r})
    /\ UNCHANGED <<clock, now, forgotten>>

Tick ==
    /\ clock < MaxClock
    /\ clock' = clock + 1
    /\ UNCHANGED <<now, bucket, pc, handled, forgotten>>

\* A new process starts with no stamps; requests at the lock are cut off.
Restart ==
    /\ bucket' = {}
    /\ forgotten' = Ended
    /\ pc' = [r \in Requests |-> IF pc[r] = "waiting" THEN "lost" ELSE pc[r]]
    /\ UNCHANGED <<clock, now, handled>>

Next == Tick \/ Restart \/ \E r \in Requests : ReadClock(r) \/ RecordAndCheck(r)

Spec == Init /\ [][Next]_vars

-----------------------------------------------------------------------------
\* What this process accepted in the window that ends with r.
AcceptedUpTo(r) ==
    {q \in Done : /\ pc[q] = "accepted"
                  /\ now[r] - WINDOW < now[q] /\ now[q] <= now[r]}

\* The requests handled before r that fall into the window r closes.
InWindow(r) == {q \in Requests : <<q, r>> \in handled /\ now[q] > now[r] - WINDOW}

\* Nobody is turned away who had not been preceded by MAX_REQUESTS requests in
\* his window, however the requests reach the lock.
RejectionJustified ==
    \A r \in Requests : pc[r] = "rejected" => Cardinality(InWindow(r)) >= MAX_REQUESTS

Overtaken(p, q) == <<p, q>> \in handled /\ now[p] > now[q]

\* No window of WINDOW ticks holds more than MAX_REQUESTS requests accepted
\* since the process started (README, business rule 6), unless a request was
\* overtaken: a window with too many accepted requests was let through because
\* a request of the window was overtaken at the lock by one with a later stamp,
\* whose trim dropped what the overtaken one should have been counted with.
LimitBrokenOnlyByOvertaking ==
    \A r \in Done :
        pc[r] = "accepted" /\ Cardinality(AcceptedUpTo(r)) > MAX_REQUESTS =>
            \E p \in Done, q \in AcceptedUpTo(r) : Overtaken(p, q)
=============================================================================
