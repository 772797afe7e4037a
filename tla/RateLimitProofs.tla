--------------------------- MODULE RateLimitProofs ---------------------------
(***************************************************************************)
(* For every window, limit and number of requests, in whatever order they  *)
(* reach the lock: too many accepted requests in a window mean that one of *)
(* them was overtaken, and a rejected request had enough before it.        *)
(***************************************************************************)
EXTENDS RateLimit, FiniteSetTheorems, TLAPS

(***************************************************************************)
(* The bucket is complete: a handled request is missing only if some trim  *)
(* had a stamp a whole window later.                                       *)
(***************************************************************************)
Complete ==
    \A q \in Done : q \notin bucket => \E p \in Done : now[q] <= now[p] - WINDOW

BucketInv ==
    /\ TypeOK
    /\ IsFiniteSet(Done) /\ bucket \subseteq Done
    /\ handled \subseteq Ended \X Ended /\ forgotten \subseteq Ended
    /\ Complete

WindowInv == BucketInv /\ LimitBrokenOnlyByOvertaking /\ RejectionJustified

(***************************************************************************)
(* What handling r does: the bucket is what the trim keeps and r itself,   *)
(* and everything handled before is now recorded as before r.              *)
(***************************************************************************)
LEMMA HandlingOne ==
    ASSUME BucketInv, NEW r \in Requests, RecordAndCheck(r)
    PROVE  /\ now' = now /\ clock' = clock /\ forgotten' = forgotten
           /\ Done' = Done \cup {r} /\ r \notin Done
           /\ Ended' = Ended \cup {r} /\ r \notin Ended /\ Done \subseteq Ended
           /\ bucket' = Kept(now[r]) \cup {r} /\ Kept(now[r]) \subseteq bucket
           /\ handled' = handled \cup (Done \X {r})
           /\ \A q \in Requests : q # r => pc'[q] = pc[q]
           /\ pc'[r] = IF OverLimit(bucket') THEN "rejected" ELSE "accepted"
BY DEF BucketInv, TypeOK, RecordAndCheck, Ended, Done, Kept

\* Handling a request keeps the bucket complete.
LEMMA BucketInvHandled ==
    ASSUME BucketInv, NEW r \in Requests, RecordAndCheck(r)
    PROVE  BucketInv'
<1> USE RateLimitAssumption DEF BucketInv
<1>1. TypeOK'
  BY DEF TypeOK, RecordAndCheck, Ended, Done, Kept
<1>2. IsFiniteSet(Done') /\ bucket' \subseteq Done'
  BY HandlingOne, FS_AddElement
<1>3. handled' \subseteq Ended' \X Ended' /\ forgotten' \subseteq Ended'
  BY HandlingOne
<1>4. Complete'
  <2> SUFFICES ASSUME NEW q \in Done', q \notin bucket'
               PROVE  \E p \in Done' : now[q] <= now[p] - WINDOW
    BY HandlingOne DEF Complete
  <2>1. q \in Done /\ q \notin Kept(now[r])
    BY HandlingOne
  <2>2. CASE q \in bucket
    <3>1. ~ (now[q] > now[r] - WINDOW)
      BY <2>1, <2>2 DEF Kept
    <3>2. now[q] \in Nat /\ now[r] \in Nat
      BY <2>1 DEF TypeOK, Ended, Done
    <3>3. now[q] <= now[r] - WINDOW
      BY <3>1, <3>2
    <3> QED BY <3>3, HandlingOne
  <2>3. CASE q \notin bucket
    BY <2>1, <2>3, HandlingOne DEF Complete
  <2> QED BY <2>2, <2>3
<1> QED BY <1>1, <1>2, <1>3, <1>4

(***************************************************************************)
(* A window that counts the request just accepted, none of whose requests  *)
(* was overtaken, lies within the bucket that request was counted against. *)
(***************************************************************************)
LEMMA WindowInBucket ==
    ASSUME BucketInv, NEW r \in Requests, RecordAndCheck(r),
           NEW d \in Requests, r \in AcceptedUpTo(d)',
           \A p \in Done', q \in AcceptedUpTo(d)' : ~Overtaken(p, q)'
    PROVE  AcceptedUpTo(d)' \subseteq bucket'
<1> USE RateLimitAssumption DEF BucketInv
<1> SUFFICES ASSUME NEW q \in AcceptedUpTo(d)', q # r PROVE q \in Kept(now[r])
  BY HandlingOne
<1>1. q \in Requests /\ now[q] \in Nat /\ now[r] \in Nat /\ now[d] \in Nat
  BY DEF TypeOK, AcceptedUpTo, Done, Ended
<1>2. now[d] - WINDOW < now[q] /\ now[r] <= now[d]
  BY HandlingOne DEF AcceptedUpTo
<1>3. now[q] > now[r] - WINDOW
  BY <1>1, <1>2
<1>4. q \in Done
  BY <1>1, HandlingOne DEF AcceptedUpTo, Done
<1>5. \A p \in Done : now[p] <= now[r]
  <2> SUFFICES ASSUME NEW p \in Done PROVE now[p] <= now[r]
    OBVIOUS
  <2>1. ~ (now[p] > now[r])
    BY HandlingOne DEF Overtaken
  <2> QED BY <2>1, <1>1 DEF TypeOK, Ended, Done
<1>6. q \in bucket
  <2> SUFFICES ASSUME q \notin bucket PROVE FALSE
    OBVIOUS
  <2>1. PICK p \in Done : now[q] <= now[p] - WINDOW
    BY <1>4 DEF Complete
  <2>2. now[p] \in Nat /\ now[p] <= now[r]
    BY <1>5 DEF TypeOK, Ended, Done
  <2> QED BY <1>1, <1>3, <2>1, <2>2
<1> QED BY <1>3, <1>6 DEF Kept

\* Handling a request accepts none too many, unless one was overtaken.
LEMMA LimitHandled ==
    ASSUME WindowInv, NEW r \in Requests, RecordAndCheck(r)
    PROVE  LimitBrokenOnlyByOvertaking'
<1> USE RateLimitAssumption DEF WindowInv
<1> SUFFICES ASSUME NEW d \in Done', pc'[d] = "accepted",
                    Cardinality(AcceptedUpTo(d)') > MAX_REQUESTS,
                    \A p \in Done', q \in AcceptedUpTo(d)' : ~Overtaken(p, q)'
             PROVE  FALSE
  BY DEF LimitBrokenOnlyByOvertaking
<1>0. d \in Requests
  BY DEF Ended, Done
<1>1. CASE r \in AcceptedUpTo(d)'
  <2>1. AcceptedUpTo(d)' \subseteq bucket'
    BY <1>0, <1>1, WindowInBucket
  <2>2. IsFiniteSet(bucket')
    BY BucketInvHandled, FS_Subset DEF BucketInv
  <2>3. ~ OverLimit(bucket')
    BY <1>1, HandlingOne DEF AcceptedUpTo
  <2>4. Cardinality(bucket') \in Nat /\ Cardinality(bucket') <= MAX_REQUESTS
    BY <2>2, <2>3, FS_CardinalityType DEF OverLimit
  <2>5. /\ Cardinality(AcceptedUpTo(d)') <= Cardinality(bucket')
        /\ IsFiniteSet(AcceptedUpTo(d)')
    BY <2>1, <2>2, FS_Subset
  <2>6. Cardinality(AcceptedUpTo(d)') \in Nat
    BY <2>5, FS_CardinalityType
  <2> QED BY <2>4, <2>5, <2>6
<1>2. CASE r \notin AcceptedUpTo(d)'
  <2>1. d # r
    <3>1. r \in Done' /\ now'[r] \in Nat
      BY HandlingOne DEF BucketInv, TypeOK
    <3>2. d = r => r \in AcceptedUpTo(d)'
      BY <3>1 DEF AcceptedUpTo
    <3> QED BY <1>2, <3>2
  <2>2. AcceptedUpTo(d)' = AcceptedUpTo(d)
    <3>1. \A q \in Requests : q # r => (q \in AcceptedUpTo(d)' <=> q \in AcceptedUpTo(d))
      BY HandlingOne DEF AcceptedUpTo
    <3>2. r \notin AcceptedUpTo(d)
      BY HandlingOne DEF AcceptedUpTo
    <3>3. AcceptedUpTo(d)' \subseteq Requests /\ AcceptedUpTo(d) \subseteq Requests
      BY DEF AcceptedUpTo, Done, Ended
    <3> QED BY ONLY <1>2, <3>1, <3>2, <3>3
  <2>3. \A p \in Done, q \in AcceptedUpTo(d) : ~Overtaken(p, q)
    BY <2>2, HandlingOne DEF Overtaken
  <2>4. d \in Done /\ pc[d] = "accepted"
    BY <1>0, <2>1, HandlingOne
  <2>5. PICK p \in Done, q \in AcceptedUpTo(d) : Overtaken(p, q)
    BY <2>2, <2>4 DEF LimitBrokenOnlyByOvertaking
  <2> QED BY <2>3, <2>5
<1> QED BY <1>1, <1>2

\* Handling a request rejects none that had too few before it.
LEMMA RejectionHandled ==
    ASSUME WindowInv, NEW r \in Requests, RecordAndCheck(r)
    PROVE  RejectionJustified'
<1> USE RateLimitAssumption DEF WindowInv
<1> SUFFICES ASSUME NEW d \in Requests, pc'[d] = "rejected"
             PROVE  Cardinality(InWindow(d)') >= MAX_REQUESTS
  BY DEF RejectionJustified
<1>1. CASE d = r
  <2>1. Kept(now[r]) \subseteq InWindow(r)'
    BY HandlingOne DEF Kept, InWindow, Done, BucketInv, TypeOK
  <2>2. InWindow(r)' \subseteq Done
    BY HandlingOne DEF InWindow, BucketInv
  <2>3. IsFiniteSet(InWindow(r)') /\ IsFiniteSet(Kept(now[r]))
    BY <2>1, <2>2, FS_Subset DEF BucketInv
  <2>4. r \notin Kept(now[r])
    BY HandlingOne DEF BucketInv
  <2>5. Cardinality(bucket') = Cardinality(Kept(now[r])) + 1
    <3>1. Cardinality(Kept(now[r]) \cup {r}) = Cardinality(Kept(now[r])) + 1
      BY <2>3, <2>4, FS_AddElement
    <3> QED BY <3>1, HandlingOne
  <2>6. Cardinality(bucket') > MAX_REQUESTS
    BY <1>1, HandlingOne DEF OverLimit
  <2>7. Cardinality(Kept(now[r])) <= Cardinality(InWindow(r)')
    BY <2>1, <2>3, FS_Subset
  <2>8. Cardinality(Kept(now[r])) \in Nat /\ Cardinality(InWindow(r)') \in Nat
    BY <2>3, FS_CardinalityType
  <2> QED BY <1>1, <2>5, <2>6, <2>7, <2>8
<1>2. CASE d # r
  <2>1. InWindow(d)' = InWindow(d) /\ pc[d] = "rejected"
    BY <1>2, HandlingOne DEF InWindow
  <2> QED BY <2>1 DEF RejectionJustified
<1> QED BY <1>1, <1>2

(***************************************************************************)
(* The invariant of the window holds in every state.                       *)
(***************************************************************************)
THEOREM WindowInvAlways == Spec => []WindowInv
<1>1. Init => WindowInv
  <2> SUFFICES ASSUME Init PROVE WindowInv
    OBVIOUS
  <2>1. Done = {}
    BY DEF Init, Ended, Done
  <2> QED
    BY <2>1, FS_EmptySet DEF Init, WindowInv, BucketInv, TypeOK, Complete,
       LimitBrokenOnlyByOvertaking, RejectionJustified
<1>2. WindowInv /\ [Next]_vars => WindowInv'
  <2> SUFFICES ASSUME WindowInv, [Next]_vars PROVE WindowInv'
    OBVIOUS
  <2> USE RateLimitAssumption DEF WindowInv, BucketInv
  <2>1. ASSUME NEW r \in Requests, RecordAndCheck(r) PROVE WindowInv'
    BY <2>1, BucketInvHandled, LimitHandled, RejectionHandled
  <2>2. ASSUME TypeOK', bucket' = bucket, handled' = handled, forgotten' = forgotten,
               Ended' = Ended, \A q \in Ended : now'[q] = now[q] /\ pc'[q] = pc[q]
        PROVE  WindowInv'
    <3>1. Done' = Done /\ Done \subseteq Ended /\ Ended \subseteq Requests
      BY <2>2 DEF Done, Ended
    <3>2. Complete'
      BY <2>2, <3>1 DEF Complete
    <3>3. LimitBrokenOnlyByOvertaking'
      <4>1. \A p, q \in Done : Overtaken(p, q)' <=> Overtaken(p, q)
        BY <2>2, <3>1 DEF Overtaken
      <4>2. \A d \in Done : AcceptedUpTo(d)' = AcceptedUpTo(d) /\ AcceptedUpTo(d) \subseteq Done
        BY <2>2, <3>1 DEF AcceptedUpTo
      <4> QED BY <2>2, <3>1, <4>1, <4>2 DEF LimitBrokenOnlyByOvertaking
    <3>4. \A d \in Ended : InWindow(d)' = InWindow(d)
      BY <2>2, <3>1 DEF InWindow
    <3>5. RejectionJustified'
      <4> SUFFICES ASSUME NEW d \in Requests, pc'[d] = "rejected"
                   PROVE  Cardinality(InWindow(d)') >= MAX_REQUESTS
        BY DEF RejectionJustified
      <4>1. d \in Ended /\ pc[d] = "rejected"
        BY <2>2 DEF Ended
      <4> QED BY <3>4, <4>1 DEF RejectionJustified
    <3>6. IsFiniteSet(Done') /\ bucket' \subseteq Done' /\ handled' \subseteq Ended' \X Ended'
          /\ forgotten' \subseteq Ended'
      BY <2>2, <3>1
    <3> QED BY <2>2, <3>2, <3>3, <3>5, <3>6
  <2>3. CASE Tick
    BY <2>2, <2>3 DEF Tick, TypeOK, Ended
  <2>4. ASSUME NEW r \in Requests, ReadClock(r) PROVE WindowInv'
    BY <2>2, <2>4 DEF ReadClock, TypeOK, Ended
  <2>5. CASE UNCHANGED vars
    BY <2>2, <2>5 DEF vars, TypeOK, Ended
  <2>6. CASE Restart
    <3>1. Ended' = Ended /\ forgotten' = Ended /\ Done' = {} /\ Ended \subseteq Requests
      BY <2>6 DEF Restart, Ended, Done, TypeOK
    <3>2. TypeOK' /\ bucket' = {} /\ handled' = handled /\ now' = now
      BY <2>6, <3>1 DEF Restart, TypeOK
    <3>3. Complete' /\ LimitBrokenOnlyByOvertaking'
      BY <3>1 DEF Complete, LimitBrokenOnlyByOvertaking
    <3>4. RejectionJustified'
      BY <2>6, <3>2 DEF RejectionJustified, Restart, InWindow, TypeOK
    <3> QED BY <3>1, <3>2, <3>3, <3>4, FS_EmptySet
  <2> QED BY <2>1, <2>3, <2>4, <2>5, <2>6 DEF Next
<1> QED BY <1>1, <1>2, PTL DEF Spec

(***************************************************************************)
(* Every window with too many accepted requests contains one that was      *)
(* overtaken between its clock and the lock: apart from that, trim and     *)
(* count are exact, rejected and equal stamps and both ends included.      *)
(***************************************************************************)
THEOREM OnlyOvertakingBreaksTheLimit == Spec => []LimitBrokenOnlyByOvertaking
BY WindowInvAlways, PTL DEF WindowInv

(***************************************************************************)
(* A request answered 429 had MAX_REQUESTS others of its window before it. *)
(***************************************************************************)
THEOREM RejectionsAreJustified == Spec => []RejectionJustified
BY WindowInvAlways, PTL DEF WindowInv
=============================================================================
