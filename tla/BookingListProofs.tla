-------------------------- MODULE BookingListProofs --------------------------
(***************************************************************************)
(* What a client that reads page after page can miss, see twice, or be     *)
(* promised in vain, for any bookings, readers and limits.                 *)
(***************************************************************************)
EXTENDS BookingList, FiniteSetTheorems, WellFoundedInduction, TLAPS

-----------------------------------------------------------------------------
\* A set of numbers that is not empty has a least one.
LEMMA LeastNumber ==
    ASSUME NEW T \in SUBSET Nat, T # {} PROVE \E n \in T : \A k \in T : n <= k
<1>1. PICK n \in T : \A k \in T : ~(<<k, n>> \in OpToRel(<, Nat))
  BY NatLessThanWellFounded, WFMin
<1>2. ASSUME NEW k \in T PROVE n <= k
  <2>1. <<k, n>> \in Nat \X Nat /\ ~(<<k, n>> \in OpToRel(<, Nat))
    BY <1>1
  <2> QED BY <2>1 DEF OpToRel
<1> QED BY <1>2

\* Keys are never used twice, and the next one is free.
KeysDistinct ==
    /\ \A b \in Rows : id[b] <= Cardinality(Rows)
    /\ \A a, b \in Rows : id[a] = id[b] => a = b

\* The bookings of a user are finitely many, and so are those before another.
LEMMA OwnFinite ==
    ASSUME NEW u, NEW b
    PROVE  /\ IsFiniteSet(Rows) /\ IsFiniteSet(Own(u)) /\ IsFiniteSet(Ahead(u, b))
           /\ Cardinality(Rows) \in Nat /\ Cardinality(Own(u)) \in Nat
           /\ Cardinality(Ahead(u, b)) \in Nat
           /\ Cardinality(Ahead(u, b)) <= Cardinality(Own(u))
<1>1. Rows \in SUBSET Bookings /\ Own(u) \in SUBSET Bookings /\ Ahead(u, b) \in SUBSET Own(u)
  BY DEF Rows, Own, Ahead
<1>2. IsFiniteSet(Rows) /\ IsFiniteSet(Own(u))
  BY <1>1, FS_Subset, ListAssumption
<1>3. IsFiniteSet(Ahead(u, b)) /\ Cardinality(Ahead(u, b)) <= Cardinality(Own(u))
  BY <1>1, <1>2, FS_Subset
<1> QED BY <1>2, <1>3, FS_CardinalityType

\* Later starts first, then lower keys: a strict total order of the rows.
LEMMA PrecedesOrders ==
    ASSUME TypeOK, KeysDistinct, NEW a \in Rows, NEW b \in Rows, NEW c \in Rows
    PROVE  /\ ~Precedes(a, a)
           /\ Precedes(a, b) /\ Precedes(b, c) => Precedes(a, c)
           /\ a = b \/ Precedes(a, b) \/ Precedes(b, a)
<1>1. id[a] \in Nat /\ id[b] \in Nat /\ id[c] \in Nat
  BY DEF Rows, TypeOK
<1>2. Start[a] \in Int /\ Start[b] \in Int /\ Start[c] \in Int
  BY ListAssumption DEF Rows
<1> QED BY <1>1, <1>2 DEF Precedes, KeysDistinct

\* More bookings come before one that comes later.
LEMMA RankGrows ==
    ASSUME TypeOK, KeysDistinct, NEW u, NEW a \in Own(u), NEW b \in Own(u), Precedes(a, b)
    PROVE  Cardinality(Ahead(u, a)) < Cardinality(Ahead(u, b))
<1>1. Own(u) \subseteq Rows
  BY DEF Own
<1>2. a \notin Ahead(u, a) /\ Ahead(u, a) \cup {a} \in SUBSET Ahead(u, b)
  BY <1>1, PrecedesOrders DEF Ahead
<1>3. Cardinality(Ahead(u, a) \cup {a}) = Cardinality(Ahead(u, a)) + 1
  BY <1>2, OwnFinite, FS_AddElement
<1>4. Cardinality(Ahead(u, a) \cup {a}) <= Cardinality(Ahead(u, b))
  BY <1>2, OwnFinite, FS_Subset
<1> QED BY <1>3, <1>4, OwnFinite

\* Fewer come before a booking than before another only if it comes first.
LEMMA RankOrders ==
    ASSUME TypeOK, KeysDistinct, NEW u, NEW a \in Own(u), NEW b \in Own(u),
           Cardinality(Ahead(u, a)) <= Cardinality(Ahead(u, b))
    PROVE  a = b \/ Precedes(a, b)
<1>1. Precedes(b, a) => Cardinality(Ahead(u, b)) < Cardinality(Ahead(u, a))
  BY RankGrows
<1>2. a \in Rows /\ b \in Rows
  BY DEF Own
<1>3. a = b \/ Precedes(a, b) \/ Precedes(b, a)
  BY <1>2, PrecedesOrders
<1> QED BY <1>1, <1>3, OwnFinite

\* The bookings of a user that come before the place k of his list.
First(u, k) == {a \in Own(u) : Cardinality(Ahead(u, a)) < k}

\* They are finitely many.
LEMMA FirstFinite ==
    ASSUME NEW u, NEW k
    PROVE  /\ First(u, k) \in SUBSET Own(u) /\ IsFiniteSet(First(u, k))
           /\ Cardinality(First(u, k)) \in Nat
<1>1. First(u, k) \in SUBSET Own(u)
  BY DEF First
<1> QED BY <1>1, OwnFinite, FS_Subset, FS_CardinalityType

\* If a booking has the place k or a later one, the k places before are taken.
LEMMA PlacesTaken ==
    ASSUME TypeOK, KeysDistinct, NEW u, NEW k \in Nat, NEW b \in Own(u),
           k <= Cardinality(Ahead(u, b))
    PROVE  k <= Cardinality(First(u, k))
<1> DEFINE T == {n \in Nat : \E c \in Own(u) : n = Cardinality(Ahead(u, c)) /\ k <= n}
<1>1. \E n \in T : \A j \in T : n <= j
  <2>1. Cardinality(Ahead(u, b)) \in T
    BY OwnFinite
  <2> QED BY <2>1, LeastNumber
<1>2. PICK c \in Own(u) : /\ k <= Cardinality(Ahead(u, c))
                          /\ \A j \in T : Cardinality(Ahead(u, c)) <= j
  BY <1>1
<1>3. Ahead(u, c) \in SUBSET First(u, k)
  <2> SUFFICES ASSUME NEW a \in Ahead(u, c) PROVE Cardinality(Ahead(u, a)) < k
    BY DEF First, Ahead
  <2>1. a \in Own(u) /\ Precedes(a, c)
    BY DEF Ahead
  <2>2. Cardinality(Ahead(u, a)) < Cardinality(Ahead(u, c))
    BY <2>1, RankGrows
  <2>3. Cardinality(Ahead(u, a)) \notin T
    BY <1>2, <2>2, OwnFinite
  <2> QED BY <2>1, <2>3, OwnFinite
<1>4. Cardinality(Ahead(u, c)) <= Cardinality(First(u, k))
  BY <1>3, FirstFinite, FS_Subset
<1> QED BY <1>2, <1>4, OwnFinite, FirstFinite

\* No more than k bookings come before the place k.
LEMMA PlacesBounded ==
    ASSUME TypeOK, KeysDistinct, NEW u, NEW k \in Nat PROVE Cardinality(First(u, k)) <= k
<1>1. CASE First(u, k) = {}
  BY <1>1, FS_EmptySet
<1>2. CASE First(u, k) # {}
  <2> DEFINE N == Cardinality(Own(u))
             T == {n \in Nat : \E a \in First(u, k) : n = N - Cardinality(Ahead(u, a))}
  <2>1. T # {}
    <3>1. PICK a \in First(u, k) : TRUE
      BY <1>2
    <3>2. N - Cardinality(Ahead(u, a)) \in T
      BY OwnFinite
    <3> QED BY <3>2
  <2>2. PICK n \in T : \A j \in T : n <= j
    BY <2>1, LeastNumber
  <2>3. PICK m \in First(u, k) : n = N - Cardinality(Ahead(u, m))
    BY DEF First
  <2>4. m \in Own(u) /\ Cardinality(Ahead(u, m)) < k
    BY DEF First
  <2>5. First(u, k) \in SUBSET (Ahead(u, m) \cup {m})
    <3> SUFFICES ASSUME NEW a \in First(u, k) PROVE a = m \/ a \in Ahead(u, m)
      OBVIOUS
    <3>1. a \in Own(u) /\ N - Cardinality(Ahead(u, a)) \in T
      BY OwnFinite DEF First
    <3>2. Cardinality(Ahead(u, a)) <= Cardinality(Ahead(u, m))
      BY <2>2, <2>3, <3>1, OwnFinite
    <3>3. a = m \/ Precedes(a, m)
      BY <2>4, <3>1, <3>2, RankOrders
    <3> QED BY <3>1, <3>3 DEF Ahead
  <2>6. /\ IsFiniteSet(Ahead(u, m) \cup {m})
        /\ Cardinality(Ahead(u, m) \cup {m}) <= Cardinality(Ahead(u, m)) + 1
        /\ Cardinality(Ahead(u, m) \cup {m}) \in Nat
    <3>1. IsFiniteSet(Ahead(u, m)) /\ Cardinality(Ahead(u, m)) \in Nat
      BY OwnFinite
    <3>2. /\ IsFiniteSet(Ahead(u, m) \cup {m})
          /\ Cardinality(Ahead(u, m) \cup {m}) =
                IF m \in Ahead(u, m) THEN Cardinality(Ahead(u, m))
                ELSE Cardinality(Ahead(u, m)) + 1
      BY <3>1, FS_AddElement
    <3> QED BY <3>1, <3>2
  <2>7. Cardinality(First(u, k)) <= Cardinality(Ahead(u, m) \cup {m})
    BY <2>5, <2>6, FS_Subset
  <2> QED BY <2>4, <2>6, <2>7, OwnFinite, FirstFinite
<1> QED BY <1>1, <1>2

-----------------------------------------------------------------------------
(***************************************************************************)
(* What a reader of pages has not seen yet lies ahead of him: whatever is  *)
(* inserted, it only moves to later places.                                *)
(***************************************************************************)
RowsKnown ==
    \A u \in Readers : known[u] \cup counted[u] \cup shown[u] \cup served[u] \subseteq Own(u)

StillAhead ==
    \A u \in Readers : step[u] \in {"count", "items"} =>
        \A b \in known[u] \ shown[u] : Offset(u) <= Cardinality(Ahead(u, b))

ListInv ==
    TypeOK /\ KeysDistinct /\ RowsKnown /\ StillAhead /\ SkippedOnlyByStoppingEarly

\* An offset is a number, and the next page starts where this one ends.
LEMMA OffsetType ==
    ASSUME TypeOK, NEW u \in Readers
    PROVE  /\ Offset(u) \in Nat /\ limit[u] \in Nat /\ limit[u] > 0
           /\ (page[u] + 1 - 1) * limit[u] = Offset(u) + limit[u]
<1>1. page[u] \in Nat /\ page[u] > 0 /\ limit[u] \in Nat /\ limit[u] > 0
  <2>1. page[u] \in Nat \ {0} /\ limit[u] \in Limits
    BY DEF TypeOK
  <2>2. limit[u] \in Nat \ {0}
    BY <2>1, ListAssumption
  <2> QED BY <2>1, <2>2
<1>2. ASSUME NEW p \in Nat, p > 0, NEW l \in Nat
      PROVE (p - 1) * l \in Nat /\ (p + 1 - 1) * l = (p - 1) * l + l
  <2>1. PICK q \in Nat : p = q + 1
    <3>1. p - 1 \in Nat /\ p = (p - 1) + 1
      BY <1>2
    <3> QED BY <3>1
  <2>2. q * l \in Nat /\ (q + 1) * l = q * l + l
    OBVIOUS
  <2>3. p - 1 = q /\ p + 1 - 1 = q + 1
    BY <2>1
  <2> QED BY <2>2, <2>3
<1> QED BY <1>1, <1>2 DEF Offset

\* An insertion adds one row and puts it in front of some others.
LEMMA InsertAdds ==
    ASSUME TypeOK, KeysDistinct, NEW b \in Bookings, Insert(b)
    PROVE  /\ TypeOK' /\ KeysDistinct' /\ b \notin Rows
           /\ \A u : Own(u) \subseteq Own(u)' /\ Own(u)' \subseteq Own(u) \cup {b}
           /\ \A u, a : a \in Own(u) =>
                 /\ Ahead(u, a) \subseteq Ahead(u, a)'
                 /\ Ahead(u, a)' \subseteq Ahead(u, a) \cup {b}
<1> DEFINE k == Cardinality(Rows) + 1
<1>1. k \in Nat /\ k > 0 /\ id \in [Bookings -> Nat] /\ id[b] = 0
  <2>1. Cardinality(Rows) \in Nat
    BY OwnFinite
  <2>2. id \in [Bookings -> Nat] /\ id[b] = 0
    BY DEF TypeOK, Insert
  <2> QED BY <2>1, <2>2
<1>2. id' = [id EXCEPT ![b] = k]
  BY DEF Insert
<1> HIDE DEF k
<1>3. Rows' = Rows \cup {b} /\ b \notin Rows
  BY <1>1, <1>2 DEF Rows
<1>4. \A a \in Rows : id'[a] = id[a]
  BY <1>1, <1>2, <1>3 DEF Rows
<1>5. TypeOK'
  BY <1>1, <1>2 DEF Insert, TypeOK, reading
<1>6. KeysDistinct'
  <2>1. Cardinality(Rows') = k
    BY <1>3, OwnFinite, FS_AddElement DEF k
  <2>2. \A a \in Rows : id[a] < k /\ id[a] \in Nat
    BY <1>1, OwnFinite DEF KeysDistinct, Rows, k
  <2>3. id'[b] = k
    BY <1>1, <1>2
  <2> QED BY <1>3, <1>4, <2>1, <2>2, <2>3, <1>1 DEF KeysDistinct
<1>7. \A u : Own(u) \subseteq Own(u)' /\ Own(u)' \subseteq Own(u) \cup {b}
  BY <1>3 DEF Own
<1>8. ASSUME NEW u, NEW a \in Own(u)
      PROVE  /\ Ahead(u, a) \subseteq Ahead(u, a)'
             /\ Ahead(u, a)' \subseteq Ahead(u, a) \cup {b}
  <2>1. a \in Rows /\ Own(u) \subseteq Rows
    BY <1>8 DEF Own
  <2>2. \A c \in Own(u) : Precedes(c, a) <=> Precedes(c, a)'
    BY <2>1, <1>4 DEF Precedes
  <2> QED BY <1>7, <2>2 DEF Ahead
<1> QED BY <1>3, <1>5, <1>6, <1>7, <1>8

\* So nobody's place becomes earlier, and at most one later.
LEMMA InsertMovesBack ==
    ASSUME TypeOK, KeysDistinct, NEW b \in Bookings, Insert(b), NEW u, NEW a \in Own(u)
    PROVE  /\ Cardinality(Ahead(u, a))' \in Nat
           /\ Cardinality(Ahead(u, a)) <= Cardinality(Ahead(u, a))'
           /\ Cardinality(Ahead(u, a))' <= Cardinality(Ahead(u, a)) + 1
<1>1. Ahead(u, a) \subseteq Ahead(u, a)' /\ Ahead(u, a)' \subseteq Ahead(u, a) \cup {b}
  BY InsertAdds
<1>2. IsFiniteSet(Ahead(u, a)) /\ Cardinality(Ahead(u, a)) \in Nat
  BY OwnFinite
<1>3. /\ IsFiniteSet(Ahead(u, a) \cup {b})
      /\ Cardinality(Ahead(u, a) \cup {b}) =
            IF b \in Ahead(u, a) THEN Cardinality(Ahead(u, a))
            ELSE Cardinality(Ahead(u, a)) + 1
  BY <1>2, FS_AddElement
<1>4. /\ IsFiniteSet(Ahead(u, a)')
      /\ Cardinality(Ahead(u, a)') <= Cardinality(Ahead(u, a) \cup {b})
  BY <1>1, <1>3, FS_Subset
<1>5. Cardinality(Ahead(u, a)) <= Cardinality(Ahead(u, a)')
  BY <1>1, <1>4, FS_Subset
<1>6. Cardinality(Ahead(u, a)') \in Nat
  BY <1>4, FS_CardinalityType
<1> QED BY <1>2, <1>3, <1>4, <1>5, <1>6

\* An insertion only moves rows to later places.
LEMMA InsertKeepsListInv ==
    ASSUME ListInv, NEW b \in Bookings, Insert(b) PROVE ListInv'
<1>1. TypeOK' /\ KeysDistinct' /\ \A u : Own(u) \subseteq Own(u)'
  BY InsertAdds DEF ListInv
<1>2. UNCHANGED reading /\ UNCHANGED limit
  BY DEF Insert
<1>3. RowsKnown'
  BY <1>1, <1>2 DEF ListInv, RowsKnown, reading
<1>4. StillAhead'
  <2> SUFFICES ASSUME NEW u \in Readers, step[u] \in {"count", "items"},
                      NEW a \in known[u] \ shown[u]
               PROVE  Offset(u)' <= Cardinality(Ahead(u, a))'
    BY <1>2 DEF StillAhead, reading
  <2>1. a \in Own(u) /\ Offset(u) <= Cardinality(Ahead(u, a))
    BY DEF ListInv, StillAhead, RowsKnown
  <2>2. Offset(u)' = Offset(u) /\ Offset(u) \in Nat
    BY <1>2, OffsetType DEF Offset, reading, ListInv
  <2> QED BY <2>1, <2>2, InsertMovesBack, OwnFinite DEF ListInv
<1>5. SkippedOnlyByStoppingEarly'
  BY <1>2 DEF ListInv, SkippedOnlyByStoppingEarly, reading
<1> QED BY <1>1, <1>3, <1>4, <1>5 DEF ListInv

\* A cancellation leaves every row in its place.
LEMMA CancelKeepsListInv ==
    ASSUME ListInv, UNCHANGED <<id, limit, reading>>, cancelled' \subseteq Bookings
    PROVE  ListInv'
<1>1. TypeOK' /\ KeysDistinct'
  BY DEF ListInv, TypeOK, KeysDistinct, Rows, reading
<1>2. \A u : Own(u)' = Own(u) /\ Offset(u)' = Offset(u) /\ \A b : Ahead(u, b)' = Ahead(u, b)
  BY DEF Own, Rows, Offset, Ahead, Precedes, reading
<1>3. RowsKnown' /\ StillAhead' /\ SkippedOnlyByStoppingEarly'
  BY <1>2 DEF ListInv, RowsKnown, StillAhead, SkippedOnlyByStoppingEarly, reading
<1> QED BY <1>1, <1>3 DEF ListInv

\* The total is counted; what is on the first page lies ahead of its offset.
LEMMA CountKeepsListInv ==
    ASSUME ListInv, NEW u \in Readers, Count(u) PROVE ListInv'
<1>1. /\ counted' = [counted EXCEPT ![u] = Own(u)] /\ step[u] = "count"
      /\ known' = IF page[u] = 1 THEN [known EXCEPT ![u] = Own(u)] ELSE known
      /\ step' = [step EXCEPT ![u] = "items"]
      /\ UNCHANGED <<table, limit, page, shown, items, served>>
  BY DEF Count
<1>2. TypeOK /\ Own(u) \in SUBSET Bookings
  BY DEF ListInv, Own, Rows
<1>3. TypeOK'
  BY <1>1, <1>2 DEF TypeOK, table
<1>4. \A w : Own(w)' = Own(w) /\ Offset(w)' = Offset(w) /\ \A b : Ahead(w, b)' = Ahead(w, b)
  BY <1>1 DEF Own, Rows, Offset, Ahead, Precedes, table
<1>5. KeysDistinct'
  BY <1>1 DEF ListInv, KeysDistinct, Rows, table
<1>6. RowsKnown'
  BY <1>1, <1>2, <1>4 DEF ListInv, RowsKnown, TypeOK
<1>7. StillAhead'
  <2> SUFFICES ASSUME NEW w \in Readers, step'[w] \in {"count", "items"},
                      NEW b \in known'[w] \ shown[w]
               PROVE  Offset(w) <= Cardinality(Ahead(w, b))
    BY <1>1, <1>4 DEF StillAhead
  <2>1. CASE w = u /\ page[u] = 1
    <3>1. limit[u] \in Nat
      BY <1>2, OffsetType
    <3>2. Offset(u) = 0
      BY <2>1, <3>1 DEF Offset
    <3> QED BY <2>1, <3>2, OwnFinite
  <2>2. CASE ~(w = u /\ page[u] = 1)
    <3>1. b \in known[w]
      BY <1>1, <1>2, <2>2 DEF TypeOK
    <3>2. step[w] \in {"count", "items"}
      BY <1>1, <1>2 DEF TypeOK
    <3> QED BY <3>1, <3>2 DEF ListInv, StillAhead
  <2> QED BY <2>1, <2>2
<1>8. SkippedOnlyByStoppingEarly'
  <2> SUFFICES ASSUME NEW w \in Readers, step'[w] \in {"lastPage", "totalReached"}
               PROVE  /\ w # u /\ step'[w] = step[w] /\ known'[w] = known[w]
                      /\ shown'[w] = shown[w] /\ served'[w] = served[w]
                      /\ counted'[w] = counted[w]
    BY DEF ListInv, SkippedOnlyByStoppingEarly
  <2> QED BY <1>1, <1>2 DEF TypeOK
<1> QED BY <1>3, <1>5, <1>6, <1>7, <1>8 DEF ListInv

\* A booking that lies beyond a page leaves the page full.
LEMMA FullPage ==
    ASSUME TypeOK, KeysDistinct, NEW u \in Readers
    PROVE  /\ Page(u) \in SUBSET Own(u) /\ IsFiniteSet(Page(u))
           /\ Cardinality(Page(u)) \in Nat
           /\ Cardinality(Page(u)) = Cardinality(First(u, Offset(u) + limit[u]))
                                       - Cardinality(First(u, Offset(u)))
           /\ \A b \in Own(u) : Offset(u) + limit[u] <= Cardinality(Ahead(u, b))
                                => limit[u] <= Cardinality(Page(u))
<1> DEFINE o == Offset(u)
           k == Offset(u) + limit[u]
<1>1. o \in Nat /\ k \in Nat /\ o <= k /\ k = o + limit[u] /\ limit[u] \in Nat
  BY OffsetType
<1>2. Page(u) \in SUBSET Own(u) /\ IsFiniteSet(Page(u)) /\ Cardinality(Page(u)) \in Nat
  <2>1. Page(u) \in SUBSET Own(u)
    BY DEF Page
  <2> QED BY <2>1, OwnFinite, FS_Subset, FS_CardinalityType
<1>3. Cardinality(Page(u)) = Cardinality(First(u, k)) - Cardinality(First(u, o))
  <2>1. \A b \in Own(u) : Cardinality(Ahead(u, b)) \in Nat
    BY OwnFinite
  <2>2. Page(u) = First(u, k) \ First(u, o) /\ First(u, k) \cap First(u, o) = First(u, o)
    BY <1>1, <2>1 DEF Page, First
  <2> QED BY <2>2, FirstFinite, FS_Difference
<1>4. ASSUME NEW b \in Own(u), k <= Cardinality(Ahead(u, b))
      PROVE  limit[u] <= Cardinality(Page(u))
  <2>1. k <= Cardinality(First(u, k))
    BY <1>1, <1>4, PlacesTaken
  <2>2. Cardinality(First(u, o)) <= o
    BY <1>1, PlacesBounded
  <2> QED BY <1>1, <1>2, <1>3, <2>1, <2>2, FirstFinite
<1> QED BY <1>2, <1>3, <1>4

\* Unseen bookings at or beyond the place k of a list fit behind the k first.
LEMMA UnseenFitBehind ==
    ASSUME TypeOK, KeysDistinct, NEW u, NEW C \in SUBSET Own(u), NEW k \in Nat,
           Cardinality(C) <= k, NEW U \in SUBSET Own(u),
           \A b \in U : k <= Cardinality(Ahead(u, b))
    PROVE  Cardinality(U) <= Cardinality(Own(u) \ C)
<1>1. /\ IsFiniteSet(Own(u)) /\ Cardinality(Own(u)) \in Nat
      /\ \A b : Cardinality(Ahead(u, b)) \in Nat
  BY OwnFinite
<1>2. IsFiniteSet(U) /\ IsFiniteSet(C) /\ Cardinality(U) \in Nat /\ Cardinality(C) \in Nat
  BY <1>1, FS_Subset, FS_CardinalityType
<1>3. Cardinality(Own(u) \ C) = Cardinality(Own(u)) - Cardinality(C)
  <2>1. Own(u) \cap C = C
    OBVIOUS
  <2> QED BY <1>1, <2>1, FS_Difference
<1>4. CASE U = {}
  <2>1. Cardinality(U) = 0
    BY <1>4, FS_EmptySet
  <2>2. Cardinality(C) <= Cardinality(Own(u))
    BY <1>1, FS_Subset
  <2> QED BY <1>1, <1>2, <1>3, <2>1, <2>2
<1>5. CASE U # {}
  <2>1. /\ k <= Cardinality(First(u, k)) /\ IsFiniteSet(First(u, k))
        /\ Cardinality(First(u, k)) \in Nat /\ First(u, k) \in SUBSET Own(u)
    BY <1>5, PlacesTaken, FirstFinite
  <2>2. First(u, k) \cap U = {} /\ First(u, k) \cup U \in SUBSET Own(u)
    BY <1>1, <2>1 DEF First
  <2>3. Cardinality(First(u, k) \cup U) = Cardinality(First(u, k)) + Cardinality(U)
    <3>1. Cardinality(First(u, k) \cap U) = 0
      BY <2>2, FS_EmptySet
    <3>2. Cardinality(First(u, k) \cup U) = Cardinality(First(u, k)) + Cardinality(U)
                                             - Cardinality(First(u, k) \cap U)
      BY <1>2, <2>1, FS_Union
    <3> QED BY <1>2, <2>1, <3>1, <3>2
  <2>4. Cardinality(First(u, k) \cup U) <= Cardinality(Own(u))
    BY <1>1, <2>2, FS_Subset
  <2> QED BY <1>1, <1>2, <1>3, <2>1, <2>3, <2>4
<1> QED BY <1>4, <1>5

\* A page shows what lies between its offset and the next.
LEMMA ItemsKeepsListInv ==
    ASSUME ListInv, NEW u \in Readers, Items(u) PROVE ListInv'
<1> DEFINE next == Offset(u) + limit[u]
<1>1. /\ step[u] = "items" /\ shown' = [shown EXCEPT ![u] = @ \cup Page(u)]
      /\ items' = [items EXCEPT ![u] = @ + Cardinality(Page(u))]
      /\ served' = [served EXCEPT ![u] = Own(u)]
      /\ page' = [page EXCEPT ![u] = @ + 1]
      /\ UNCHANGED <<table, limit, counted, known>>
  BY DEF Items
<1>2. \/ step' = [step EXCEPT ![u] = "lastPage"] /\ Cardinality(Page(u)) < limit[u]
      \/ step' = [step EXCEPT ![u] = "count"]
      \/ step' = [step EXCEPT ![u] = "totalReached"] /\ next >= Cardinality(counted[u])
  BY DEF Items
<1>3. TypeOK /\ KeysDistinct /\ RowsKnown /\ Own(u) \in SUBSET Bookings
  BY DEF ListInv, Own, Rows
<1>4. /\ Page(u) \in SUBSET Own(u) /\ Cardinality(Page(u)) \in Nat
      /\ \A b \in Own(u) : next <= Cardinality(Ahead(u, b)) => limit[u] <= Cardinality(Page(u))
  BY <1>3, FullPage
<1>5. TypeOK'
  <2>1. page' \in [Readers -> Nat \ {0}] /\ items' \in [Readers -> Nat]
    BY <1>1, <1>3, <1>4 DEF TypeOK
  <2>2. shown' \in [Readers -> SUBSET Bookings] /\ served' \in [Readers -> SUBSET Bookings]
    BY <1>1, <1>3, <1>4 DEF TypeOK
  <2>3. step' \in [Readers -> {"count", "items", "lastPage", "totalReached"}]
    BY <1>2, <1>3 DEF TypeOK
  <2> QED BY <1>1, <1>3, <2>1, <2>2, <2>3 DEF TypeOK, table
<1>6. /\ \A w : Own(w)' = Own(w) /\ \A b : Ahead(w, b)' = Ahead(w, b)
      /\ Offset(u)' = next
      /\ \A w \in Readers : w # u => Offset(w)' = Offset(w)
  <2>1. \A w : Own(w)' = Own(w) /\ \A b : Ahead(w, b)' = Ahead(w, b)
    BY <1>1 DEF Own, Rows, Ahead, Precedes, table
  <2>2. page'[u] = page[u] + 1 /\ \A w \in Readers : w # u => page'[w] = page[w]
    BY <1>1, <1>3 DEF TypeOK
  <2>3. Offset(u)' = next
    <3>1. Offset(u)' = (page[u] + 1 - 1) * limit[u]
      <4>1. Offset(u)' = (page'[u] - 1) * limit'[u]
        BY DEF Offset
      <4>2. page'[u] = page[u] + 1 /\ limit'[u] = limit[u] /\ page[u] \in Nat \ {0}
        BY <1>1, <1>3, <2>2 DEF TypeOK
      <4> QED BY <4>1, <4>2
    <3>2. (page[u] + 1 - 1) * limit[u] = Offset(u) + limit[u]
      BY <1>3, OffsetType
    <3> QED BY <3>1, <3>2
  <2>4. \A w \in Readers : w # u => Offset(w)' = Offset(w)
    BY <1>1, <2>2 DEF Offset
  <2> QED BY <2>1, <2>3, <2>4
<1>7. KeysDistinct'
  BY <1>1, <1>3 DEF KeysDistinct, Rows, table
<1>8. RowsKnown'
  BY <1>1, <1>3, <1>4, <1>6 DEF RowsKnown, TypeOK
<1>9. \A b \in known[u] \ (shown[u] \cup Page(u)) :
          b \in Own(u) /\ next <= Cardinality(Ahead(u, b))
  <2> SUFFICES ASSUME NEW b \in known[u] \ (shown[u] \cup Page(u))
               PROVE  b \in Own(u) /\ next <= Cardinality(Ahead(u, b))
    OBVIOUS
  <2>1. b \in Own(u) /\ Offset(u) <= Cardinality(Ahead(u, b)) /\ b \notin Page(u)
    BY <1>1 DEF ListInv, RowsKnown, StillAhead
  <2>2. Offset(u) \in Nat /\ limit[u] \in Nat /\ Cardinality(Ahead(u, b)) \in Nat
    BY <1>3, OffsetType, OwnFinite
  <2> QED BY <2>1, <2>2 DEF Page
<1>10. /\ shown'[u] = shown[u] \cup Page(u) /\ served'[u] = Own(u)
       /\ known' = known /\ counted' = counted
       /\ \A w \in Readers : w # u => /\ shown'[w] = shown[w] /\ served'[w] = served[w]
                                      /\ step'[w] = step[w]
  BY <1>1, <1>2, <1>3 DEF TypeOK
<1>11. StillAhead'
  <2> SUFFICES ASSUME NEW w \in Readers, step'[w] \in {"count", "items"},
                      NEW b \in known'[w] \ shown'[w]
               PROVE  Offset(w)' <= Cardinality(Ahead(w, b)')
    BY DEF StillAhead
  <2>1. CASE w = u
    BY <1>6, <1>9, <1>10, <2>1
  <2>2. CASE w # u
    BY <1>6, <1>10, <2>2 DEF ListInv, StillAhead
  <2> QED BY <2>1, <2>2
<1>12. SkippedOnlyByStoppingEarly'
  <2>1. ASSUME step'[u] = "lastPage" PROVE known[u] \subseteq shown'[u]
    <3>1. Cardinality(Page(u)) < limit[u] /\ limit[u] \in Nat
      BY <1>2, <1>3, <2>1, OffsetType DEF TypeOK
    <3> QED BY <1>4, <1>9, <1>10, <3>1
  <2>2. ASSUME step'[u] = "totalReached"
        PROVE  Cardinality(known[u] \ shown'[u]) <= Cardinality(served'[u] \ counted[u])
    <3>1. Cardinality(counted[u]) <= next /\ next \in Nat
      BY <1>2, <1>3, <2>2, OffsetType DEF TypeOK
    <3>2. counted[u] \in SUBSET Own(u)
      BY <1>3 DEF RowsKnown
    <3>3. known[u] \ shown'[u] \in SUBSET Own(u)
      BY <1>9, <1>10
    <3>4. \A b \in known[u] \ shown'[u] : next <= Cardinality(Ahead(u, b))
      BY <1>9, <1>10
    <3> HIDE DEF next
    <3> QED BY <1>3, <1>10, <3>1, <3>2, <3>3, <3>4, UnseenFitBehind
  <2> QED BY <1>10, <2>1, <2>2 DEF ListInv, SkippedOnlyByStoppingEarly
<1> QED BY <1>5, <1>7, <1>8, <1>11, <1>12 DEF ListInv

-----------------------------------------------------------------------------
(***************************************************************************)
(* A reader misses nothing by what others insert: only by stopping at a    *)
(* total that was counted before the page it came with.                    *)
(***************************************************************************)
THEOREM ListInvAlways == Spec => []ListInv
<1>1. Init => ListInv
  <2> SUFFICES ASSUME Init PROVE ListInv
    OBVIOUS
  <2>1. TypeOK
    BY DEF Init, TypeOK
  <2>2. Rows = {}
    BY DEF Init, Rows
  <2>3. KeysDistinct
    BY <2>2 DEF KeysDistinct
  <2> QED BY <2>1, <2>3 DEF Init, ListInv, RowsKnown, StillAhead, SkippedOnlyByStoppingEarly
<1>2. ListInv /\ [Next]_vars => ListInv'
  <2> SUFFICES ASSUME ListInv, [Next]_vars PROVE ListInv'
    OBVIOUS
  <2>1. ASSUME NEW b \in Bookings, Insert(b) PROVE ListInv'
    BY <2>1, InsertKeepsListInv
  <2>2. ASSUME NEW b \in Bookings, Cancel(b) PROVE ListInv'
    <3>1. cancelled' \subseteq Bookings /\ UNCHANGED <<id, limit, reading>>
      BY <2>2 DEF Cancel, ListInv, TypeOK
    <3> QED BY <3>1, CancelKeepsListInv
  <2>3. ASSUME NEW u \in Readers, Count(u) PROVE ListInv'
    BY <2>3, CountKeepsListInv
  <2>4. ASSUME NEW u \in Readers, Items(u) PROVE ListInv'
    BY <2>4, ItemsKeepsListInv
  <2>5. CASE UNCHANGED vars
    BY <2>5, CancelKeepsListInv DEF vars, table, ListInv, TypeOK
  <2> QED BY <2>1, <2>2, <2>3, <2>4, <2>5 DEF Next
<1> QED BY <1>1, <1>2, PTL DEF Spec

\* For any bookings and limits: a client that reads to the last page has seen
\* all, one that stops at the total misses no more than came in between.
THEOREM NothingSkipped == Spec => []SkippedOnlyByStoppingEarly
BY ListInvAlways, PTL DEF ListInv

-----------------------------------------------------------------------------
(***************************************************************************)
(* No page falls short of its total: the rows counted are still there, and *)
(* a page that is not full ends the list.                                  *)
(***************************************************************************)
THEOREM PagesKeepTheirTotal == Spec => PageHasWhatWasCounted
<1> DEFINE A == \A u \in Readers :
                   Items(u) => \/ Cardinality(Page(u)) = limit[u]
                               \/ Cardinality(Page(u)) >= Cardinality(counted[u]) - Offset(u)
<1>1. ListInv => A
  <2> SUFFICES ASSUME ListInv, NEW u \in Readers
               PROVE  \/ Cardinality(Page(u)) = limit[u]
                      \/ Cardinality(Page(u)) >= Cardinality(counted[u]) - Offset(u)
    OBVIOUS
  <2> DEFINE k == Offset(u) + limit[u]
  <2>1. /\ TypeOK /\ KeysDistinct /\ counted[u] \in SUBSET Own(u)
        /\ Offset(u) \in Nat /\ limit[u] \in Nat /\ k \in Nat
    BY OffsetType DEF ListInv, RowsKnown
  <2>2. /\ Cardinality(Page(u)) \in Nat
        /\ Cardinality(Page(u)) = Cardinality(First(u, k)) - Cardinality(First(u, Offset(u)))
        /\ \A b \in Own(u) : k <= Cardinality(Ahead(u, b)) => limit[u] <= Cardinality(Page(u))
    BY <2>1, FullPage
  <2>3. /\ Cardinality(First(u, Offset(u))) <= Offset(u)
        /\ Cardinality(First(u, Offset(u))) \in Nat /\ Cardinality(First(u, k)) \in Nat
    BY <2>1, PlacesBounded, FirstFinite
  <2>4. CASE \E b \in Own(u) : k <= Cardinality(Ahead(u, b))
    <3>1. /\ limit[u] <= Cardinality(Page(u))
          /\ k <= Cardinality(First(u, k)) /\ Cardinality(First(u, k)) <= k
      BY <2>1, <2>2, <2>4, PlacesTaken, PlacesBounded
    <3>2. CASE Cardinality(Page(u)) = limit[u]
      BY <3>2
    <3>3. CASE Cardinality(First(u, Offset(u))) < Offset(u)
      <4>1. PICK b \in Own(u) : k <= Cardinality(Ahead(u, b))
        BY <2>4
      <4>2. Offset(u) <= Cardinality(Ahead(u, b))
        BY <2>1, <4>1, OwnFinite
      <4> QED BY <2>1, <2>3, <3>3, <4>2, PlacesTaken
    <3> QED BY <2>1, <2>2, <2>3, <3>1, <3>2, <3>3
  <2>5. CASE ~\E b \in Own(u) : k <= Cardinality(Ahead(u, b))
    <3>1. First(u, k) = Own(u)
      BY <2>1, <2>5, OwnFinite DEF First
    <3>2. Cardinality(counted[u]) <= Cardinality(Own(u)) /\ Cardinality(counted[u]) \in Nat
      BY <2>1, OwnFinite, FS_Subset, FS_CardinalityType
    <3> QED BY <2>1, <2>2, <2>3, <3>1, <3>2
  <2> QED BY <2>4, <2>5
<1>2. ListInv => [A]_vars
  BY <1>1
<1>3. Spec => [][A]_vars
  BY <1>2, ListInvAlways, PTL
<1> QED BY <1>3 DEF PageHasWhatWasCounted

-----------------------------------------------------------------------------
(***************************************************************************)
(* Repetitions.  What a reader has seen and what has been pushed behind    *)
(* his offset since will be shown again; an insertion pushes one booking   *)
(* over that offset at most.                                               *)
(***************************************************************************)
Late(u) == {b \in shown[u] : Offset(u) <= Cardinality(Ahead(u, b))}

FirstPageFresh == \A u \in Readers : page[u] = 1 => items[u] = 0 /\ shown[u] = {}

RepeatsPaidFor ==
    \A u \in Readers : step[u] \in {"count", "items"} =>
        items[u] - Cardinality(shown[u]) + Cardinality(Late(u))
            <= Cardinality(Own(u) \ known[u])

RepeatInv == FirstPageFresh /\ RepeatsPaidFor /\ RepeatedOnlyByInsert

\* All these sets are finite.
LEMMA ReadingFinite ==
    ASSUME ListInv, NEW u \in Readers
    PROVE  /\ IsFiniteSet(shown[u]) /\ Cardinality(shown[u]) \in Nat
           /\ IsFiniteSet(Late(u)) /\ Cardinality(Late(u)) \in Nat
           /\ IsFiniteSet(Own(u) \ known[u]) /\ Cardinality(Own(u) \ known[u]) \in Nat
           /\ Late(u) \subseteq shown[u] /\ shown[u] \subseteq Own(u)
           /\ items[u] \in Nat /\ Offset(u) \in Nat
<1>1. shown[u] \in SUBSET Own(u) /\ Late(u) \in SUBSET Own(u)
      /\ Own(u) \ known[u] \in SUBSET Own(u)
  BY DEF ListInv, RowsKnown, Late
<1>2. IsFiniteSet(Own(u))
  BY OwnFinite
<1>3. IsFiniteSet(shown[u]) /\ IsFiniteSet(Late(u)) /\ IsFiniteSet(Own(u) \ known[u])
  BY <1>1, <1>2, FS_Subset
<1>4. items[u] \in Nat /\ Offset(u) \in Nat
  BY OffsetType DEF ListInv, TypeOK
<1> QED BY <1>1, <1>3, <1>4, FS_CardinalityType DEF Late

\* An insertion pushes one booking at most over the offset of a reader.
LEMMA InsertMakesOneLate ==
    ASSUME ListInv, NEW b \in Bookings, Insert(b), NEW u \in Readers, UNCHANGED reading
    PROVE  Cardinality(Late(u))' <= Cardinality(Late(u)) + 1
<1>1. /\ TypeOK /\ KeysDistinct /\ Offset(u)' = Offset(u) /\ Offset(u) \in Nat
      /\ shown' = shown /\ shown[u] \subseteq Own(u)
      /\ IsFiniteSet(Late(u)) /\ Cardinality(Late(u)) \in Nat
  BY ReadingFinite DEF ListInv, Insert, Offset, reading
<1>2. ASSUME NEW c \in Late(u)' PROVE c \in Late(u) \/ Cardinality(Ahead(u, c)) = Offset(u) - 1
  <2>1. c \in shown[u] /\ Offset(u) <= Cardinality(Ahead(u, c))'
    BY <1>1, <1>2 DEF Late
  <2>2. /\ Cardinality(Ahead(u, c))' \in Nat /\ Cardinality(Ahead(u, c)) \in Nat
        /\ Cardinality(Ahead(u, c))' <= Cardinality(Ahead(u, c)) + 1
    BY <1>1, <2>1, InsertMovesBack, OwnFinite
  <2> QED BY <1>1, <2>1, <2>2 DEF Late
<1>3. PICK d : \A c \in Late(u)' : c \in Late(u) \/ c = d
  <2>1. CASE \E d \in Late(u)' \ Late(u) : TRUE
    <3>1. PICK d \in Late(u)' \ Late(u) : TRUE
      BY <2>1
    <3>2. ASSUME NEW c \in Late(u)' \ Late(u) PROVE c = d
      <4>1. c \in Own(u) /\ d \in Own(u)
        BY <1>1, <3>1 DEF Late
      <4>2. Cardinality(Ahead(u, c)) = Cardinality(Ahead(u, d))
        BY <1>2, <3>1
      <4>3. Cardinality(Ahead(u, c)) \in Nat
        BY OwnFinite
      <4>4. ~Precedes(c, d)
        BY <1>1, <4>1, <4>2, <4>3, RankGrows
      <4> QED BY <1>1, <4>1, <4>2, <4>3, <4>4, RankOrders
    <3> QED BY <3>2
  <2>2. CASE ~\E d \in Late(u)' \ Late(u) : TRUE
    BY <2>2
  <2> QED BY <2>1, <2>2
<1>4. /\ IsFiniteSet(Late(u) \cup {d})
      /\ Cardinality(Late(u) \cup {d}) <= Cardinality(Late(u)) + 1
      /\ Cardinality(Late(u) \cup {d}) \in Nat
  <2>1. /\ IsFiniteSet(Late(u) \cup {d})
        /\ Cardinality(Late(u) \cup {d}) =
              IF d \in Late(u) THEN Cardinality(Late(u)) ELSE Cardinality(Late(u)) + 1
    BY <1>1, FS_AddElement
  <2> QED BY <1>1, <2>1
<1>5. Late(u)' \in SUBSET (Late(u) \cup {d})
  BY <1>3
<1>6. IsFiniteSet(Late(u)') /\ Cardinality(Late(u)') <= Cardinality(Late(u) \cup {d})
  BY <1>4, <1>5, FS_Subset
<1>7. Cardinality(Late(u)') \in Nat
  BY <1>6, FS_CardinalityType
<1> QED BY <1>1, <1>4, <1>6, <1>7

\* A booking that becomes late is paid for by the one inserted.
LEMMA InsertKeepsRepeatInv ==
    ASSUME ListInv, RepeatInv, NEW b \in Bookings, Insert(b) PROVE RepeatInv'
<1>1. UNCHANGED reading /\ UNCHANGED limit /\ TypeOK /\ KeysDistinct
  BY DEF Insert, ListInv
<1>2. FirstPageFresh' /\ RepeatedOnlyByInsert'
  BY <1>1 DEF RepeatInv, FirstPageFresh, RepeatedOnlyByInsert, reading
<1>3. RepeatsPaidFor'
  <2> SUFFICES ASSUME NEW u \in Readers, step[u] \in {"count", "items"}
               PROVE  items[u] - Cardinality(shown[u]) + Cardinality(Late(u))'
                          <= Cardinality(Own(u)' \ known[u])
    BY <1>1 DEF RepeatsPaidFor, reading
  <2> DEFINE N == Own(u) \ known[u]
             M == Own(u)' \ known[u]
  <2>1. /\ items[u] - Cardinality(shown[u]) + Cardinality(Late(u)) <= Cardinality(N)
        /\ items[u] \in Nat /\ Cardinality(shown[u]) \in Nat
        /\ Cardinality(Late(u)) \in Nat /\ IsFiniteSet(N) /\ Cardinality(N) \in Nat
        /\ known[u] \subseteq Own(u)
    BY ReadingFinite DEF RepeatInv, RepeatsPaidFor, ListInv, RowsKnown
  <2>2. CASE b \in Own(u)'
    <3>1. M = N \cup {b} /\ b \notin N
      <4>1. Own(u) \subseteq Own(u)' /\ Own(u)' \subseteq Own(u) \cup {b} /\ b \notin Rows
        BY <1>1, InsertAdds
      <4>2. b \notin Own(u)
        BY <4>1 DEF Own
      <4> QED BY <2>1, <2>2, <4>1, <4>2
    <3>2. Cardinality(M) = Cardinality(N) + 1
      BY <2>1, <3>1, FS_AddElement
    <3>3. Cardinality(Late(u))' <= Cardinality(Late(u)) + 1 /\ Cardinality(Late(u))' \in Nat
      <4>1. Late(u)' \in SUBSET shown[u] /\ IsFiniteSet(shown[u])
        BY <1>1, ReadingFinite DEF Late, reading
      <4>2. Cardinality(Late(u)') \in Nat
        BY <4>1, FS_Subset, FS_CardinalityType
      <4> QED BY <1>1, <4>2, InsertMakesOneLate
    <3> QED BY <2>1, <3>2, <3>3
  <2>3. CASE b \notin Own(u)'
    <3>1. Own(u)' = Own(u)
      BY <1>1, <2>3, InsertAdds
    <3>2. \A a \in Own(u) : Ahead(u, a)' = Ahead(u, a)
      BY <1>1, <2>3, <3>1, InsertAdds DEF Ahead
    <3>3. Late(u)' = Late(u)
      BY <1>1, <3>2, ReadingFinite DEF Late, Offset, reading
    <3> QED BY <2>1, <3>1, <3>3
  <2> QED BY <2>2, <2>3
<1> QED BY <1>2, <1>3 DEF RepeatInv

\* Counting the total repeats nothing.
LEMMA CountKeepsRepeatInv ==
    ASSUME ListInv, RepeatInv, NEW u \in Readers, Count(u) PROVE RepeatInv'
<1>1. /\ step[u] = "count" /\ step' = [step EXCEPT ![u] = "items"]
      /\ known' = IF page[u] = 1 THEN [known EXCEPT ![u] = Own(u)] ELSE known
      /\ UNCHANGED <<table, limit, page, shown, items, served>> /\ TypeOK
  BY DEF Count, ListInv
<1>2. \A w : Own(w)' = Own(w) /\ Late(w)' = Late(w)
  BY <1>1 DEF Own, Rows, Offset, Ahead, Precedes, Late, table
<1>3. \A w \in Readers : known'[w] = known[w] \/ (w = u /\ page[w] = 1)
  BY <1>1 DEF TypeOK
<1>4. ASSUME page[u] = 1
      PROVE  items[u] = 0 /\ Cardinality(shown[u]) = 0 /\ Cardinality(Late(u)) = 0
  <2>1. items[u] = 0 /\ shown[u] = {} /\ Late(u) = {}
    BY <1>4 DEF RepeatInv, FirstPageFresh, Late
  <2> QED BY <2>1, FS_EmptySet
<1>5. \A w \in Readers : /\ Cardinality(Own(w) \ known'[w]) \in Nat
                          /\ Cardinality(served[w] \ known'[w]) \in Nat
                          /\ Cardinality(Late(w)) \in Nat /\ items[w] \in Nat
                          /\ Cardinality(shown[w]) \in Nat
  <2> SUFFICES ASSUME NEW w \in Readers
               PROVE  /\ Cardinality(Own(w) \ known'[w]) \in Nat
                      /\ Cardinality(served[w] \ known'[w]) \in Nat
    BY ReadingFinite
  <2>1. Own(w) \ known'[w] \in SUBSET Own(w) /\ served[w] \ known'[w] \in SUBSET Own(w)
    BY DEF ListInv, RowsKnown
  <2> QED BY <2>1, OwnFinite, FS_Subset, FS_CardinalityType
<1>6. RepeatsPaidFor'
  <2> SUFFICES ASSUME NEW w \in Readers, step'[w] \in {"count", "items"}
               PROVE  items[w] - Cardinality(shown[w]) + Cardinality(Late(w))
                          <= Cardinality(Own(w) \ known'[w])
    BY <1>1, <1>2 DEF RepeatsPaidFor
  <2>1. step[w] \in {"count", "items"}
    BY <1>1 DEF TypeOK
  <2>2. CASE w = u /\ page[w] = 1
    <3>1. items[w] = 0 /\ Cardinality(shown[w]) = 0 /\ Cardinality(Late(w)) = 0
      BY <1>4, <2>2
    <3>2. Cardinality(Own(w) \ known'[w]) \in Nat
      BY <1>5
    <3> QED BY <3>1, <3>2
  <2>3. CASE known'[w] = known[w]
    BY <2>1, <2>3 DEF RepeatInv, RepeatsPaidFor
  <2> QED BY <1>3, <2>2, <2>3
<1>7. RepeatedOnlyByInsert'
  <2> SUFFICES ASSUME NEW w \in Readers
               PROVE  items[w] - Cardinality(shown[w]) <= Cardinality(served[w] \ known'[w])
    BY <1>1 DEF RepeatedOnlyByInsert
  <2>1. CASE w = u /\ page[w] = 1
    <3>1. items[w] = 0 /\ Cardinality(shown[w]) = 0
      BY <1>4, <2>1
    <3>2. Cardinality(served[w] \ known'[w]) \in Nat
      BY <1>5
    <3> QED BY <3>1, <3>2
  <2>2. CASE known'[w] = known[w]
    BY <2>2 DEF RepeatInv, RepeatedOnlyByInsert
  <2> QED BY <1>3, <2>1, <2>2
<1>8. FirstPageFresh'
  BY <1>1 DEF RepeatInv, FirstPageFresh
<1> QED BY <1>6, <1>7, <1>8 DEF RepeatInv

\* A page repeats only what was late, which then is late no more.
LEMMA ItemsKeepsRepeatInv ==
    ASSUME ListInv, RepeatInv, NEW u \in Readers, Items(u) PROVE RepeatInv'
<1> DEFINE next == Offset(u) + limit[u]
           P == Page(u)
           S == shown[u]
           L == Late(u)
<1>1. /\ step[u] = "items" /\ shown' = [shown EXCEPT ![u] = @ \cup P]
      /\ items' = [items EXCEPT ![u] = @ + Cardinality(P)]
      /\ served' = [served EXCEPT ![u] = Own(u)]
      /\ page' = [page EXCEPT ![u] = @ + 1]
      /\ UNCHANGED <<table, limit, counted, known>> /\ TypeOK /\ KeysDistinct
  BY DEF Items, ListInv
<1>2. /\ P \in SUBSET Own(u) /\ IsFiniteSet(P) /\ Cardinality(P) \in Nat
      /\ S \subseteq Own(u) /\ IsFiniteSet(S) /\ Cardinality(S) \in Nat
      /\ L \subseteq S /\ IsFiniteSet(L) /\ Cardinality(L) \in Nat
      /\ items[u] \in Nat /\ Cardinality(Own(u) \ known[u]) \in Nat
  BY <1>1, FullPage, ReadingFinite
<1>3. /\ \A w : Own(w)' = Own(w) /\ \A b : Ahead(w, b)' = Ahead(w, b)
      /\ Offset(u)' = next
      /\ \A w \in Readers : w # u => /\ Offset(w)' = Offset(w) /\ page'[w] = page[w]
                                     /\ shown'[w] = shown[w] /\ items'[w] = items[w]
                                     /\ served'[w] = served[w]
      /\ shown'[u] = S \cup P /\ items'[u] = items[u] + Cardinality(P)
      /\ served'[u] = Own(u) /\ page'[u] # 1
  <2>1. \A w : Own(w)' = Own(w) /\ \A b : Ahead(w, b)' = Ahead(w, b)
    BY <1>1 DEF Own, Rows, Ahead, Precedes, table
  <2>2. /\ page'[u] = page[u] + 1 /\ limit'[u] = limit[u]
        /\ page[u] \in Nat \ {0}
        /\ \A w \in Readers : w # u => page'[w] = page[w]
    BY <1>1 DEF TypeOK
  <2>3. Offset(u)' = next
    <3>1. Offset(u)' = (page'[u] - 1) * limit'[u]
      BY DEF Offset
    <3>2. Offset(u)' = (page[u] + 1 - 1) * limit[u]
      BY <2>2, <3>1
    <3>3. (page[u] + 1 - 1) * limit[u] = Offset(u) + limit[u]
      BY <1>1, OffsetType
    <3> QED BY <3>2, <3>3
  <2>4. \A w \in Readers : w # u => Offset(w)' = Offset(w)
    BY <1>1, <2>2 DEF Offset
  <2>5. \A w \in Readers : w # u => /\ shown'[w] = shown[w] /\ items'[w] = items[w]
                                    /\ served'[w] = served[w]
    BY <1>1 DEF TypeOK
  <2>6. /\ shown'[u] = S \cup P /\ items'[u] = items[u] + Cardinality(P)
        /\ served'[u] = Own(u) /\ page'[u] # 1
    BY <1>1, <2>2 DEF TypeOK
  <2> QED BY <2>1, <2>2, <2>3, <2>4, <2>5, <2>6
<1>4. items'[u] - Cardinality(shown'[u]) + Cardinality(Late(u)')
          = items[u] - Cardinality(S) + Cardinality(L)
  <2>1. Offset(u) \in Nat /\ limit[u] \in Nat /\ \A b : Cardinality(Ahead(u, b)) \in Nat
    BY <1>1, OffsetType, OwnFinite
  <2>2. Late(u)' = L \ P
    <3>1. Late(u)' = {b \in S \cup P : next <= Cardinality(Ahead(u, b))}
      BY <1>3 DEF Late
    <3>2. \A b \in P : ~(next <= Cardinality(Ahead(u, b)))
      BY <2>1 DEF Page
    <3>3. \A b \in S : next <= Cardinality(Ahead(u, b)) <=> b \in L \ P
      BY <1>2, <2>1 DEF Late, Page
    <3> QED BY <1>2, <3>1, <3>2, <3>3
  <2>3. L \cap P = S \cap P
    BY <1>2 DEF Late, Page
  <2>4. Cardinality(L \ P) = Cardinality(L) - Cardinality(S \cap P)
    BY <1>2, <2>3, FS_Difference
  <2>5. Cardinality(S \cup P) = Cardinality(S) + Cardinality(P) - Cardinality(S \cap P)
    BY <1>2, FS_Union
  <2>6. Cardinality(S \cap P) \in Nat
    <3>1. S \cap P \in SUBSET P
      OBVIOUS
    <3> QED BY <1>2, <3>1, FS_Subset, FS_CardinalityType
  <2> QED BY <1>2, <1>3, <2>2, <2>4, <2>5, <2>6
<1>5. items'[u] - Cardinality(shown'[u]) + Cardinality(Late(u)')
          <= Cardinality(Own(u) \ known[u])
  BY <1>1, <1>4 DEF RepeatInv, RepeatsPaidFor
<1>6. /\ Cardinality(Late(u)') \in Nat /\ Cardinality(shown'[u]) \in Nat
      /\ items'[u] \in Nat
  <2>1. ListInv'
    BY ItemsKeepsListInv
  <2>2. IsFiniteSet(Own(u)') /\ Late(u)' \in SUBSET Own(u)' /\ shown'[u] \in SUBSET Own(u)'
    <3>1. IsFiniteSet(Own(u)) /\ Own(u)' = Own(u)
      BY <1>3, OwnFinite
    <3> QED BY <2>1, <3>1 DEF ListInv, RowsKnown, Late
  <2> QED BY <1>2, <1>3, <2>2, FS_Subset, FS_CardinalityType
<1>7. RepeatsPaidFor'
  <2> SUFFICES ASSUME NEW w \in Readers, step'[w] \in {"count", "items"}
               PROVE  items'[w] - Cardinality(shown'[w]) + Cardinality(Late(w)')
                          <= Cardinality(Own(w) \ known[w])
    BY <1>1, <1>3 DEF RepeatsPaidFor
  <2>1. CASE w = u
    BY <1>5, <2>1
  <2>2. CASE w # u
    <3>1. step'[w] = step[w]
      BY <1>1, <2>2 DEF Items, TypeOK
    <3>2. Late(w)' = Late(w) /\ items'[w] = items[w] /\ shown'[w] = shown[w]
      BY <1>3, <2>2 DEF Late
    <3> QED BY <3>1, <3>2 DEF RepeatInv, RepeatsPaidFor
  <2> QED BY <2>1, <2>2
<1>8. RepeatedOnlyByInsert'
  <2> SUFFICES ASSUME NEW w \in Readers
               PROVE  items'[w] - Cardinality(shown'[w]) <= Cardinality(served'[w] \ known[w])
    BY <1>1 DEF RepeatedOnlyByInsert
  <2>1. CASE w = u
    <3>1. served'[w] \ known[w] = Own(u) \ known[u]
      BY <1>3, <2>1
    <3>2. items'[u] - Cardinality(shown'[u]) <= Cardinality(Own(u) \ known[u])
      BY <1>2, <1>5, <1>6
    <3> QED BY <2>1, <3>1, <3>2
  <2>2. CASE w # u
    BY <1>3, <2>2 DEF RepeatInv, RepeatedOnlyByInsert
  <2> QED BY <2>1, <2>2
<1>9. FirstPageFresh'
  BY <1>3 DEF RepeatInv, FirstPageFresh
<1> QED BY <1>7, <1>8, <1>9 DEF RepeatInv

\* For any bookings and limits, an item is shown twice at most as often as the
\* user's bookings were created since his first page was counted.
THEOREM RepeatsArePaidFor == Spec => []RepeatedOnlyByInsert
<1>1. Init => RepeatInv
  <2> SUFFICES ASSUME Init, NEW u \in Readers
               PROVE  /\ items[u] = 0 /\ Cardinality(shown[u]) = 0 /\ shown[u] = {}
                      /\ Cardinality(Late(u)) = 0 /\ Cardinality(Own(u) \ known[u]) = 0
                      /\ Cardinality(served[u] \ known[u]) = 0
    <3>1. 0 - 0 + 0 <= 0 /\ 0 - 0 <= 0
      OBVIOUS
    <3> QED BY <3>1 DEF RepeatInv, FirstPageFresh, RepeatsPaidFor, RepeatedOnlyByInsert
  <2>1. items[u] = 0 /\ shown[u] = {} /\ Late(u) = {} /\ Own(u) = {} /\ served[u] = {}
    BY DEF Init, Late, Own, Rows
  <2> QED BY <2>1, FS_EmptySet
<1>2. ListInv /\ RepeatInv /\ [Next]_vars => RepeatInv'
  <2> SUFFICES ASSUME ListInv, RepeatInv, [Next]_vars PROVE RepeatInv'
    OBVIOUS
  <2>1. ASSUME UNCHANGED <<id, limit, reading>> PROVE RepeatInv'
    BY <2>1 DEF RepeatInv, FirstPageFresh, RepeatsPaidFor, RepeatedOnlyByInsert, Late,
                Own, Rows, Ahead, Precedes, Offset, reading
  <2>2. ASSUME NEW b \in Bookings, Cancel(b) PROVE RepeatInv'
    BY <2>1, <2>2 DEF Cancel
  <2>3. CASE UNCHANGED vars
    BY <2>1, <2>3 DEF vars, table
  <2>4. ASSUME NEW b \in Bookings, Insert(b) PROVE RepeatInv'
    BY <2>4, InsertKeepsRepeatInv
  <2>5. ASSUME NEW u \in Readers, Count(u) PROVE RepeatInv'
    BY <2>5, CountKeepsRepeatInv
  <2>6. ASSUME NEW u \in Readers, Items(u) PROVE RepeatInv'
    BY <2>6, ItemsKeepsRepeatInv
  <2> QED BY <2>2, <2>3, <2>4, <2>5, <2>6 DEF Next
<1>3. RepeatInv => RepeatedOnlyByInsert
  BY DEF RepeatInv
<1> QED BY <1>1, <1>2, <1>3, ListInvAlways, PTL DEF Spec
-----------------------------------------------------------------------------
(***************************************************************************)
(* The rows of the organisation are those of its rooms, in any table: the  *)
(* two queries of the export select the same, room by room.                *)
(***************************************************************************)
THEOREM ExportsAddUp == Spec => []ExportAddsUp
<1>1. ExportAddsUp
  <2> SUFFICES ASSUME NEW a \in Admins
               PROVE  UNION {Export(a, m, TRUE) : m \in Rooms} = Export(a, None, TRUE)
    BY DEF ExportAddsUp
  <2>1. \A m \in Rooms : Export(a, m, TRUE) = Raw(m, UserOrg[a])
    BY ListAssumption DEF Export
  <2>2. Export(a, None, TRUE) = {b \in Rows : RoomOrg[Room[b]] = UserOrg[a]}
    BY DEF Export, Scoped
  <2>3. \A b \in Rows : Room[b] \in Rooms
    BY ListAssumption DEF Rows
  <2>4. \A b : b \in UNION {Raw(m, UserOrg[a]) : m \in Rooms}
               <=> b \in Rows /\ RoomOrg[Room[b]] = UserOrg[a]
    BY <2>3 DEF Raw
  <2> QED BY <2>1, <2>2, <2>4
<1> QED BY <1>1, PTL

\* A booking is of one organisation, its room's and its owner's.
OneOrganisation == \A b \in Rows : RoomOrg[Room[b]] = UserOrg[Owner[b]]

\* Only a creation adds a row, and it has looked the room up among its own.
LEMMA OneOrganisationAlways == Spec => [](TypeOK /\ OneOrganisation)
<1>1. Init => OneOrganisation
  BY DEF Init, OneOrganisation, Rows
<1>2. TypeOK /\ OneOrganisation /\ [Next]_vars => OneOrganisation'
  <2> SUFFICES ASSUME TypeOK, OneOrganisation, [Next]_vars PROVE OneOrganisation'
    OBVIOUS
  <2>1. CASE \E b \in Bookings : Insert(b)
    <3>1. PICK b \in Bookings : Insert(b)
      BY <2>1
    <3>2. \A c \in Rows' : c = b \/ c \in Rows
      BY <3>1 DEF Insert, Rows, TypeOK
    <3> QED BY <3>1, <3>2 DEF Insert, OneOrganisation
  <2>2. CASE UNCHANGED id
    BY <2>2 DEF OneOrganisation, Rows
  <2>3. [Next]_vars => UNCHANGED id \/ \E b \in Bookings : Insert(b)
    BY DEF Next, vars, table, Cancel, Count, Items
  <2> QED BY <2>1, <2>2, <2>3
<1> QED BY <1>1, <1>2, ListInvAlways, PTL DEF Spec, ListInv

(***************************************************************************)
(* An administrator's export of his own bookings has what his list has.    *)
(***************************************************************************)
THEOREM ExportsAgreeWithLists == Spec => []ExportAgreesWithList
<1>1. OneOrganisation => ExportAgreesWithList
  <2> SUFFICES ASSUME OneOrganisation, NEW a \in Admins PROVE Export(a, None, FALSE) = Own(a)
    BY DEF ExportAgreesWithList
  <2>1. a # None
    BY ListAssumption
  <2> QED BY <2>1 DEF Export, Scoped, Own, OneOrganisation
<1> QED BY <1>1, OneOrganisationAlways, PTL

=============================================================================
