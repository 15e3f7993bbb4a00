--------------------------- MODULE StorageProofs ---------------------------
(***************************************************************************)
(* The daily cap and the rate limit as invariants of the request log: what *)
(* each transaction does to the table, and why that keeps them.            *)
(***************************************************************************)
EXTENDS Storage, FiniteSetTheorems, WellFoundedInduction, TLAPS

\* The cents of a finite set of rows with whole amounts are finitely many, so
\* that counting them is summing the amounts.
LEMMA CentsFinite ==
    ASSUME NEW rows, IsFiniteSet(rows),
           \A r \in rows : requests[r].amount \in Nat
    PROVE  IsFiniteSet(Cents(rows))
<1> DEFINE Of(r) == {r} \X (1 .. requests[r].amount)
<1> DEFINE parts == {Of(r) : r \in rows}
<1> DEFINE f == [r \in rows |-> Of(r)]
<1>1. f \in Surjection(rows, parts)
  BY DEF Surjection
<1>2. IsFiniteSet(parts)
  <2> HIDE DEF f, parts
  <2> QED BY <1>1, FS_Surjection
<1>3. ASSUME NEW r \in rows PROVE IsFiniteSet(Of(r))
  <2>1. IsFiniteSet({r})
    BY FS_Singleton
  <2>2. IsFiniteSet(1 .. requests[r].amount)
    BY FS_Interval
  <2> QED BY <2>1, <2>2, FS_Product
<1>4. \A T \in parts : IsFiniteSet(T)
  BY <1>3
<1>5. IsFiniteSet(UNION parts)
  <2> HIDE DEF parts
  <2> QED BY <1>2, <1>4, FS_UNION
<1> QED BY <1>5 DEF Cents

\* Every set of rows in the table is finite and has whole amounts.
LEMMA RowsFinite ==
    ASSUME StorageTypeOK, NEW rows, rows \subseteq DOMAIN requests
    PROVE  /\ IsFiniteSet(rows)
           /\ IsFiniteSet(Cents(rows))
<1>1. IsFiniteSet(1 .. lastId)
  BY FS_Interval DEF StorageTypeOK
<1>2. IsFiniteSet(rows)
  BY <1>1, FS_Subset DEF StorageTypeOK
<1>3. \A r \in rows : requests[r].amount \in Nat
  BY DEF StorageTypeOK, Row
<1> QED BY <1>2, <1>3, CentsFinite

\* A row holds as much as its amount.
LEMMA CentsOfOne ==
    ASSUME NEW r, NEW n \in Nat
    PROVE  /\ IsFiniteSet({r} \X (1 .. n))
           /\ Cardinality({r} \X (1 .. n)) = n
<1>1. IsFiniteSet({r}) /\ Cardinality({r}) = 1
  BY FS_Singleton
<1>2. IsFiniteSet(1 .. n) /\ Cardinality(1 .. n) = n
  BY FS_Interval
<1>3. Cardinality({r} \X (1 .. n)) = 1 * n
  BY <1>1, <1>2, FS_Product
<1> QED BY <1>1, <1>2, <1>3, FS_Product

----------------------------------------------------------------------------
(***************************************************************************)
(* What each transaction does to the table.                                *)
(***************************************************************************)
LEMMA FinalizeRows ==
    ASSUME StorageTypeOK, NEW r, NEW d \in Decisions, Finalize(r, d)
    PROVE  /\ StorageTypeOK'
           /\ DOMAIN requests' = DOMAIN requests
           /\ lastId' = lastId /\ clock' = clock
           /\ \A x \in DOMAIN requests :
                 /\ requests'[x] = IF x = r THEN [requests[x] EXCEPT !.decision = d]
                                            ELSE requests[x]
                 /\ requests'[x].born = requests[x].born
                 /\ requests'[x].agent = requests[x].agent
                 /\ requests'[x].amount = requests[x].amount
                 /\ requests'[x].at = requests[x].at
                 /\ requests'[x].cap = requests[x].cap
                 /\ requests'[x].limit = requests[x].limit
<1>1. /\ DOMAIN requests' = DOMAIN requests
      /\ \A x \in DOMAIN requests :
            requests'[x] = IF x = r THEN [requests[x] EXCEPT !.decision = d]
                                    ELSE requests[x]
  BY DEF Finalize
<1>2. lastId' = lastId /\ clock' = clock
  BY DEF Finalize
<1>3. \A x \in DOMAIN requests : requests[x] \in Row /\ requests'[x] \in Row
  BY <1>1 DEF StorageTypeOK, Row
<1> QED BY <1>1, <1>2, <1>3 DEF StorageTypeOK, Row

LEMMA InsertRows ==
    ASSUME StorageTypeOK, NEW row \in Row, Insert(row)
    PROVE  /\ StorageTypeOK'
           /\ lastId' = lastId + 1 /\ clock' = clock
           /\ lastId + 1 \notin DOMAIN requests
           /\ DOMAIN requests' = DOMAIN requests \cup {lastId + 1}
           /\ requests'[lastId + 1] = row
           /\ \A r \in DOMAIN requests : requests'[r] = requests[r]
<1>1. lastId + 1 \notin DOMAIN requests
  BY DEF StorageTypeOK
<1>2. /\ lastId' = lastId + 1 /\ clock' = clock
      /\ DOMAIN requests' = DOMAIN requests \cup {lastId + 1}
      /\ requests'[lastId + 1] = row
      /\ \A r \in DOMAIN requests : requests'[r] = requests[r]
  BY <1>1 DEF Insert, Extend
<1>3. DOMAIN requests' \subseteq 1 .. lastId'
  BY <1>2 DEF StorageTypeOK
<1>4. \A r \in DOMAIN requests' : requests'[r] \in Row
  BY <1>2 DEF StorageTypeOK
<1> QED BY <1>1, <1>2, <1>3, <1>4 DEF StorageTypeOK

\* Reaping: what it does to a row.
LEMMA ReapRows ==
    ASSUME StorageTypeOK, ReapStale
    PROVE  /\ StorageTypeOK'
           /\ DOMAIN requests' = DOMAIN requests
           /\ lastId' = lastId /\ clock' = clock
           /\ \A x \in DOMAIN requests :
                 /\ requests'[x] = IF x \in Stale
                                   THEN [requests[x] EXCEPT !.decision = "denied"]
                                   ELSE requests[x]
                 /\ requests'[x].born = requests[x].born
                 /\ requests'[x].agent = requests[x].agent
                 /\ requests'[x].amount = requests[x].amount
                 /\ requests'[x].at = requests[x].at
                 /\ requests'[x].cap = requests[x].cap
                 /\ requests'[x].limit = requests[x].limit
<1>1. /\ DOMAIN requests' = DOMAIN requests
      /\ \A x \in DOMAIN requests :
            requests'[x] = IF x \in Stale THEN [requests[x] EXCEPT !.decision = "denied"]
                                          ELSE requests[x]
  BY DEF ReapStale
<1>2. lastId' = lastId /\ clock' = clock
  BY DEF ReapStale
<1>3. \A x \in DOMAIN requests : requests[x] \in Row /\ requests'[x] \in Row
  BY <1>1 DEF StorageTypeOK, Row, Decisions
<1> QED BY <1>1, <1>2, <1>3 DEF StorageTypeOK, Row

----------------------------------------------------------------------------
(***************************************************************************)
(* The daily cap.                                                          *)
(***************************************************************************)
\* What is summed against the cap of row r, before a step and after it.
Before(r, left) == {q \in Holding(requests[r].agent, Day(requests[r].at)) \ left : q <= r}

After(r, left) == {q \in Holding(requests[r].agent, Day(requests[r].at))' \ left : q <= r}

CentsAfter(rows) == UNION {{q} \X (1 .. requests'[q].amount) : q \in rows}

\* WithinCapBut after a step, for rows to leave out that are given.
CapAfter(left) ==
    \A r \in DOMAIN requests' \ left :
       Counts(r)' => Cardinality(CentsAfter(After(r, left))) <= requests'[r].cap

\* finalize, reaping and reset: no row appears, nothing but decisions changes,
\* and no row that held no budget comes to hold some, but among those left out.
LEMMA ReleaseKeepsCap ==
    ASSUME StorageTypeOK, NEW left, NEW more, left \subseteq more, WithinCapBut(left),
           DOMAIN requests' \subseteq DOMAIN requests,
           \A r \in DOMAIN requests' :
              /\ requests'[r].agent = requests[r].agent
              /\ requests'[r].amount = requests[r].amount
              /\ requests'[r].at = requests[r].at
              /\ requests'[r].cap = requests[r].cap
              /\ r \notin more /\ Counts(r)' => Counts(r)
    PROVE  CapAfter(more)
<1> SUFFICES ASSUME NEW r \in DOMAIN requests' \ more, Counts(r)'
             PROVE  Cardinality(CentsAfter(After(r, more))) <= requests'[r].cap
  BY DEF CapAfter
<1>1. r \in DOMAIN requests \ left /\ Counts(r)
  OBVIOUS
<1>2. After(r, more) \subseteq Before(r, left)
  BY DEF Before, After, Holding
<1>3. CentsAfter(After(r, more)) \subseteq Cents(Before(r, left))
  <2>1. CentsAfter(After(r, more)) = UNION {{q} \X (1 .. requests[q].amount) : q \in After(r, more)}
    BY DEF CentsAfter, After, Holding
  <2> QED BY <1>2, <2>1 DEF Cents
<1>4. Before(r, left) \subseteq DOMAIN requests
  BY DEF Before, Holding
<1>5. IsFiniteSet(Cents(Before(r, left)))
  BY <1>4, RowsFinite
<1>6. /\ Cardinality(CentsAfter(After(r, more))) <= Cardinality(Cents(Before(r, left)))
      /\ Cardinality(Cents(Before(r, left))) \in Nat
      /\ Cardinality(CentsAfter(After(r, more))) \in Nat
  BY <1>3, <1>5, FS_Subset, FS_CardinalityType
<1>7. Cardinality(Cents(Before(r, left))) <= requests[r].cap
  BY <1>1 DEF WithinCapBut, Before
<1>8. requests[r].cap \in Nat /\ requests'[r].cap = requests[r].cap
  BY <1>1 DEF StorageTypeOK, Row
<1> QED BY <1>6, <1>7, <1>8

\* log_request and try_reserve: one row is added at the end, which holds no
\* budget or fits in its own cap on top of what its agent holds that day.
LEMMA InsertKeepsCap ==
    ASSUME StorageTypeOK, NEW left, WithinCapBut(left),
           NEW row \in Row, Insert(row),
           row.decision \in CapCounting =>
              SpentOn(row.agent, Day(row.at)) + row.amount <= row.cap
    PROVE  CapAfter(left)
<1> DEFINE n == lastId + 1
<1>1. n \notin DOMAIN requests /\ n \in Nat /\ \A r \in DOMAIN requests : r < n /\ r \in Nat
  BY DEF StorageTypeOK
<1>2. /\ DOMAIN requests' = DOMAIN requests \cup {n}
      /\ requests'[n] = row
      /\ \A r \in DOMAIN requests : requests'[r] = requests[r]
  BY <1>1 DEF Insert, Extend
<1> HIDE DEF n
<1> SUFFICES ASSUME NEW r \in DOMAIN requests' \ left, Counts(r)'
             PROVE  Cardinality(CentsAfter(After(r, left))) <= requests'[r].cap
  BY DEF CapAfter
<1>3. CASE r \in DOMAIN requests
  <2>1. After(r, left) = Before(r, left)
    BY <1>1, <1>2, <1>3 DEF Before, After, Holding, Counts
  <2>2. Before(r, left) \subseteq DOMAIN requests
    BY DEF Before, Holding
  <2>3. CentsAfter(After(r, left)) = Cents(Before(r, left))
    BY <1>2, <2>1, <2>2 DEF Cents, CentsAfter
  <2>4. Counts(r)
    BY <1>2, <1>3 DEF Counts
  <2> QED BY <1>2, <1>3, <2>3, <2>4 DEF WithinCapBut, Before
<1>4. CASE r = n
  <2> DEFINE held == Holding(row.agent, Day(row.at))
             all == Cents(held) \cup ({n} \X (1 .. row.amount))
  <2>1. row.decision \in CapCounting
    BY <1>2, <1>4 DEF Counts
  <2>2. After(r, left) \subseteq held \cup {n}
    BY <1>1, <1>2, <1>4, <2>1 DEF After, Holding, Counts
  <2>3. held \subseteq DOMAIN requests
    BY DEF Holding
  <2>4. CentsAfter(After(r, left)) \subseteq all
    BY <1>2, <2>2, <2>3 DEF CentsAfter, Cents
  <2>5. Cents(held) \cap ({n} \X (1 .. row.amount)) = {}
    BY <1>1, <2>3 DEF Cents
  <2>6. IsFiniteSet(Cents(held))
    BY <2>3, RowsFinite
  <2>7. /\ IsFiniteSet({n} \X (1 .. row.amount))
        /\ Cardinality({n} \X (1 .. row.amount)) = row.amount
    BY CentsOfOne DEF Row
  <2>8. IsFiniteSet(all) /\ Cardinality(all) = Cardinality(Cents(held)) + row.amount - 0
    <3> DEFINE own == {n} \X (1 .. row.amount)
               sum == Cents(held)
    <3>1. sum \cap own = {} /\ IsFiniteSet(sum) /\ IsFiniteSet(own) /\ Cardinality(own) = row.amount
      BY <2>5, <2>6, <2>7
    <3> HIDE DEF own, sum
    <3>2. IsFiniteSet(sum \cup own) /\ Cardinality(sum \cup own) = Cardinality(sum) + row.amount - 0
      BY <3>1, FS_Union, FS_EmptySet
    <3> QED BY <3>2 DEF own, sum
  <2>9. Cardinality(Cents(held)) \in Nat /\ row.amount \in Nat /\ row.cap \in Nat
    BY <2>6, FS_CardinalityType DEF Row
  <2>10. /\ Cardinality(CentsAfter(After(r, left))) <= Cardinality(all)
         /\ Cardinality(CentsAfter(After(r, left))) \in Nat
    <3> HIDE DEF all
    <3> QED BY <2>4, <2>8, FS_Subset, FS_CardinalityType
  <2> QED BY <1>2, <1>4, <2>1, <2>8, <2>9, <2>10 DEF SpentOn
<1> QED BY <1>2, <1>3, <1>4

----------------------------------------------------------------------------
(***************************************************************************)
(* The rate limit.  Its invariant looks back from each row that was        *)
(* admitted, as try_reserve did when it admitted it: wherever a window is  *)
(* placed, it looks back from the last row inside.                         *)
(***************************************************************************)
Earlier(r) == {q \in Admitted(requests[r].agent) :
                  q <= r /\ requests[q].at > requests[r].at - VelocityWindow}

RateKept ==
    \A r \in DOMAIN requests :
       requests[r].born # "denied" /\ requests[r].limit # NoLimit =>
          Cardinality(Earlier(r)) <= requests[r].limit

LEMMA EarlierFinite ==
    ASSUME StorageTypeOK, NEW r \in DOMAIN requests
    PROVE  /\ IsFiniteSet(Earlier(r)) /\ Cardinality(Earlier(r)) \in Nat
           /\ Earlier(r) \subseteq DOMAIN requests
<1>1. Earlier(r) \subseteq DOMAIN requests
  BY DEF Earlier, Admitted
<1>2. IsFiniteSet(Earlier(r))
  BY <1>1, RowsFinite
<1> QED BY <1>1, <1>2, FS_CardinalityType

\* finalize, reaping and reset: no row appears, and none changes its time or limit.
LEMMA ReleaseKeepsRate ==
    ASSUME StorageTypeOK, RateKept,
           DOMAIN requests' \subseteq DOMAIN requests,
           \A r \in DOMAIN requests' :
              /\ requests'[r].agent = requests[r].agent
              /\ requests'[r].at = requests[r].at
              /\ requests'[r].born = requests[r].born
              /\ requests'[r].limit = requests[r].limit
    PROVE  RateKept'
<1> SUFFICES ASSUME NEW r \in DOMAIN requests',
                    requests'[r].born # "denied", requests'[r].limit # NoLimit
             PROVE  Cardinality(Earlier(r)') <= requests'[r].limit
  BY DEF RateKept
<1>1. Earlier(r)' \subseteq Earlier(r)
  BY DEF Earlier, Admitted
<1>2. Cardinality(Earlier(r)) <= requests[r].limit /\ requests[r].limit \in Nat
  BY DEF RateKept, StorageTypeOK, Row, Limits
<1>3. IsFiniteSet(Earlier(r)) /\ Cardinality(Earlier(r)) \in Nat
  BY EarlierFinite
<1>4. IsFiniteSet(Earlier(r)') /\ Cardinality(Earlier(r)') <= Cardinality(Earlier(r))
  BY <1>1, <1>3, FS_Subset
<1>5. Cardinality(Earlier(r)') \in Nat
  BY <1>4, FS_CardinalityType
<1> QED BY <1>2, <1>3, <1>4, <1>5

\* log_request and try_reserve: a row is added that was denied, or that the
\* window of its agent had room for.
LEMMA InsertKeepsRate ==
    ASSUME StorageTypeOK, RateKept, NEW row \in Row, Insert(row),
           row.born # "denied" /\ row.limit # NoLimit =>
              Cardinality(Recent(row.agent, row.at)) < row.limit
    PROVE  RateKept'
<1> DEFINE n == lastId + 1
<1>1. /\ n \notin DOMAIN requests /\ n \in Nat /\ \A r \in DOMAIN requests : r < n /\ r \in Nat
      /\ DOMAIN requests' = DOMAIN requests \cup {n} /\ requests'[n] = row
      /\ \A r \in DOMAIN requests : requests'[r] = requests[r]
  <2>1. n \in Nat /\ \A r \in DOMAIN requests : r < n /\ r \in Nat
    BY DEF StorageTypeOK
  <2> QED BY <2>1, InsertRows
<1> HIDE DEF n
<1> SUFFICES ASSUME NEW r \in DOMAIN requests',
                    requests'[r].born # "denied", requests'[r].limit # NoLimit
             PROVE  Cardinality(Earlier(r)') <= requests'[r].limit
  BY DEF RateKept
<1>2. CASE r \in DOMAIN requests
  <2>1. Earlier(r)' = Earlier(r)
    BY <1>1, <1>2 DEF Earlier, Admitted
  <2> QED BY <1>1, <1>2, <2>1 DEF RateKept
<1>3. CASE r = n
  <2> DEFINE recent == Recent(row.agent, row.at)
  <2>1. recent \subseteq DOMAIN requests
    BY DEF Recent
  <2>2. IsFiniteSet(recent) /\ Cardinality(recent) \in Nat
    BY <2>1, RowsFinite, FS_CardinalityType
  <2>3. Earlier(r)' \subseteq recent \cup {n}
    BY <1>1, <1>3 DEF Earlier, Admitted, Recent
  <2>4. n \notin recent
    BY <1>1, <2>1
  <2> HIDE DEF recent
  <2>5. /\ IsFiniteSet(recent \cup {n})
        /\ Cardinality(recent \cup {n}) = Cardinality(recent) + 1
    BY <2>2, <2>4, FS_AddElement
  <2>6. IsFiniteSet(Earlier(r)') /\ Cardinality(Earlier(r)') <= Cardinality(recent) + 1
    BY <2>3, <2>5, FS_Subset
  <2>7. Cardinality(Earlier(r)') \in Nat
    BY <2>6, FS_CardinalityType
  <2>8. row.limit \in Nat /\ Cardinality(recent) < row.limit
    BY <1>1, <1>3 DEF Row, Limits, recent
  <2> QED BY <1>1, <1>3, <2>2, <2>6, <2>7, <2>8
<1> QED BY <1>1, <1>2, <1>3

\* A set of rows has a last one.
LEMMA LastOf ==
    ASSUME NEW n \in Nat, NEW S, S \subseteq 1 .. n, S # {}
    PROVE  \E i \in S : \A j \in S : j <= i
<1> DEFINE R == {ss \in Nat \X Nat : ss[1] < ss[2]}
           Back == {n - i : i \in S}
<1>1. IsWellFoundedOn(R, Nat)
  BY NatLessThanWellFounded, Zenon DEF OpToRel
<1>2. \A x, y \in Nat : x < y => <<x, y>> \in R
  OBVIOUS
<1>3. Back \subseteq Nat /\ Back # {}
  <2>1. \A i \in S : i \in Nat /\ n - i \in Nat
    OBVIOUS
  <2>2. \E i \in S : n - i \in Back
    OBVIOUS
  <2> QED BY <2>1, <2>2
<1> HIDE DEF R, Back
<1>4. PICK b \in Back : \A c \in Back : ~(<<c, b>> \in R)
  BY <1>1, <1>3, WFMin
<1>5. \A c \in Back : ~(c < b)
  BY <1>2, <1>3, <1>4
<1>6. PICK i \in S : b = n - i
  BY <1>4 DEF Back
<1>7. \A j \in S : n - j \in Back
  BY DEF Back
<1>8. \A j \in S : ~(n - j < n - i)
  BY <1>5, <1>6, <1>7
<1> QED BY <1>8

\* Looking back from the last row inside a window is enough.
LEMMA RateKeptBounds ==
    ASSUME StorageTypeOK, RateKept
    PROVE  RateBound
<1> SUFFICES ASSUME NEW a \in Agents, NEW t \in 0 .. clock
             PROVE  LET inside == {r \in Admitted(a) :
                           t - VelocityWindow < requests[r].at /\ requests[r].at <= t}
                    IN inside # {} =>
                          \E r \in inside : \/ requests[r].limit = NoLimit
                                            \/ Cardinality(inside) <= requests[r].limit
  BY DEF RateBound
<1> DEFINE inside == {r \in Admitted(a) :
                         t - VelocityWindow < requests[r].at /\ requests[r].at <= t}
<1> SUFFICES ASSUME inside # {}
             PROVE  \E r \in inside : \/ requests[r].limit = NoLimit
                                      \/ Cardinality(inside) <= requests[r].limit
  OBVIOUS
<1>1. inside \subseteq DOMAIN requests /\ inside \subseteq 1 .. lastId /\ lastId \in Nat
  BY DEF Admitted, StorageTypeOK
<1>2. PICK r \in inside : \A q \in inside : q <= r
  BY <1>1, LastOf
<1>3. /\ requests[r].agent = a /\ requests[r].born # "denied" /\ r \in DOMAIN requests
      /\ requests[r].limit \in Limits
  BY <1>1, <1>2 DEF Admitted, StorageTypeOK, Row
<1>4. ASSUME NEW q \in inside PROVE q \in Earlier(r)
  <2>1. /\ q \in Admitted(a) /\ t - VelocityWindow < requests[q].at /\ requests[r].at <= t
        /\ q <= r
    BY <1>2
  <2>2. requests[q].at \in Nat /\ requests[r].at \in Nat /\ t \in Nat /\ VelocityWindow \in Nat
    BY <1>1, StorageAssumption DEF StorageAssumption, StorageTypeOK, Row
  <2>3. requests[q].at > requests[r].at - VelocityWindow
    BY <2>1, <2>2
  <2> QED BY <1>3, <2>1, <2>3 DEF Earlier
<1> HIDE DEF inside
<1>5. CASE requests[r].limit # NoLimit
  <2>1. Cardinality(Earlier(r)) <= requests[r].limit /\ requests[r].limit \in Nat
    BY <1>3, <1>5 DEF RateKept, Limits
  <2>2. IsFiniteSet(Earlier(r)) /\ Cardinality(Earlier(r)) \in Nat
    BY <1>3, EarlierFinite
  <2>3. IsFiniteSet(inside) /\ Cardinality(inside) <= Cardinality(Earlier(r))
    BY <1>4, <2>2, FS_Subset
  <2>4. Cardinality(inside) \in Nat
    BY <2>3, FS_CardinalityType
  <2>5. Cardinality(inside) <= requests[r].limit
    BY <2>1, <2>2, <2>3, <2>4
  <2> QED BY <2>5
<1> QED BY <1>5

=============================================================================
