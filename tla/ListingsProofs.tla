--------------------------- MODULE ListingsProofs ---------------------------
(***************************************************************************)
(* Theorems about Listings: for any number of rows, any size of the pages  *)
(* and any filter, whatever the triggers and executors do meanwhile.       *)
(***************************************************************************)
EXTENDS Listings, FiniteSetTheorems, SequenceTheorems, WellFoundedInduction, TLAPS

(***************************************************************************)
(* Places in a list.                                                       *)
(***************************************************************************)
LEMMA TheLeast ==
  ASSUME NEW S \in SUBSET Nat, S # {}
  PROVE  \E n \in S : \A m \in S : n <= m
<1> DEFINE R == OpToRel(<, Nat)
<1>1. IsWellFoundedOn(R, Nat)
  BY NatLessThanWellFounded
<1> HIDE DEF R
<1>2. PICK n \in S : \A m \in S : ~(<<m, n>> \in R)
  BY <1>1, WFMin
<1>3. \A m \in S : ~(m < n)
  BY <1>2 DEF OpToRel, R
<1> QED
  BY <1>3

LEMMA MinMaxOfTwo ==
  ASSUME NEW a \in Int, NEW b \in Int
  PROVE  /\ Min({a, b}) = IF a <= b THEN a ELSE b
         /\ Max({a, b}) = IF a <= b THEN b ELSE a
<1>1. PICK m \in {a, b} : m = (IF a <= b THEN a ELSE b) /\ \A y \in {a, b} : m <= y
  OBVIOUS
<1>2. PICK n \in {a, b} : n = (IF a <= b THEN b ELSE a) /\ \A y \in {a, b} : n >= y
  OBVIOUS
<1>3. Min({a, b}) \in {a, b} /\ \A y \in {a, b} : Min({a, b}) <= y
  BY <1>1 DEF Min
<1>4. Max({a, b}) \in {a, b} /\ \A y \in {a, b} : Max({a, b}) >= y
  BY <1>2 DEF Max
<1> QED
  BY <1>1, <1>2, <1>3, <1>4

LEMMA PlaceIs ==
  ASSUME NEW S \in SUBSET Nat, IsFiniteSet(S)
  PROVE  /\ Cardinality(S) \in Nat
         /\ \A i : Place(S, i) \in Nat /\ Place(S, i) <= Cardinality(S)
         /\ \A i \in S : Place(S, i) >= 1
<1>1. Cardinality(S) \in Nat
  BY FS_CardinalityType
<1>2. ASSUME NEW i PROVE Place(S, i) \in Nat /\ Place(S, i) <= Cardinality(S)
  <2> DEFINE T == {j \in S : j >= i}
  <2>1. T \subseteq S
    OBVIOUS
  <2> HIDE DEF T
  <2>2. IsFiniteSet(T) /\ Cardinality(T) <= Cardinality(S) /\ Cardinality(T) \in Nat
    BY <2>1, FS_Subset, FS_CardinalityType
  <2> QED
    BY <2>2 DEF Place, T
<1>3. ASSUME NEW i \in S PROVE Place(S, i) >= 1
  <2> DEFINE T == {j \in S : j >= i}
  <2>1. T \subseteq S /\ i \in T
    OBVIOUS
  <2> HIDE DEF T
  <2>2. IsFiniteSet(T) /\ Cardinality(T) \in Nat /\ Cardinality(T) # 0
    BY <2>1, FS_Subset, FS_CardinalityType, FS_EmptySet
  <2> QED
    BY <2>2 DEF Place, T
<1> QED
  BY <1>1, <1>2, <1>3

\* More rows push a row down.
LEMMA PlaceGrows ==
  ASSUME NEW T \in SUBSET Nat, IsFiniteSet(T), NEW S \in SUBSET T, NEW i
  PROVE  Place(S, i) <= Place(T, i)
<1> DEFINE A == {j \in S : j >= i}
           B == {j \in T : j >= i}
<1>1. A \subseteq B /\ B \subseteq T
  OBVIOUS
<1> HIDE DEF A, B
<1>2. IsFiniteSet(B) /\ Cardinality(A) <= Cardinality(B)
  BY <1>1, FS_Subset
<1> QED
  BY <1>2 DEF Place, A, B

\* The newer, the sooner.
LEMMA PlaceOrders ==
  ASSUME NEW S \in SUBSET Nat, IsFiniteSet(S), NEW i \in S, NEW j \in S
  PROVE  Place(S, j) <= Place(S, i) <=> j >= i
<1>1. ASSUME NEW a \in S, NEW b \in S, b < a
      PROVE  Place(S, a) < Place(S, b)
  <2> DEFINE A == {x \in S : x >= a}
             B == {x \in S : x >= b}
  <2>1. A \subseteq B /\ b \in B /\ b \notin A /\ B \subseteq S
    <3>1. a \in Nat /\ b \in Nat /\ S \subseteq Nat
      OBVIOUS
    <3>2. b \in B /\ b \notin A /\ B \subseteq S
      BY <1>1, <3>1
    <3>3. ASSUME NEW x \in S, x >= a PROVE x >= b
      BY <1>1, <3>1, <3>3
    <3> QED
      BY <3>2, <3>3
  <2> HIDE DEF A, B
  <2>2. IsFiniteSet(B) /\ IsFiniteSet(A) /\ Cardinality(A) \in Nat /\ Cardinality(B) \in Nat
    BY <2>1, FS_Subset, FS_CardinalityType
  <2>3. Cardinality(A) <= Cardinality(B) /\ (Cardinality(A) = Cardinality(B) => A = B)
    BY <2>1, <2>2, FS_Subset
  <2>4. Cardinality(A) < Cardinality(B)
    BY <2>1, <2>2, <2>3
  <2> QED
    BY <2>4 DEF Place, A, B
<1>2. i \in Nat /\ j \in Nat /\ Place(S, i) \in Nat /\ Place(S, j) \in Nat
  BY PlaceIs
<1>3. CASE j < i
  BY <1>1, <1>2, <1>3
<1>4. CASE j = i
  BY <1>2, <1>4
<1>5. CASE j > i
  BY <1>1, <1>2, <1>5
<1> QED
  BY <1>2, <1>3, <1>4, <1>5

\* No place is empty.
LEMMA EveryPlace ==
  ASSUME NEW S \in SUBSET Nat, IsFiniteSet(S), NEW k \in 1..Cardinality(S)
  PROVE  \E i \in S : Place(S, i) = k
<1>1. /\ Cardinality(S) \in Nat
      /\ \A i \in S : Place(S, i) \in Nat /\ Place(S, i) <= Cardinality(S) /\ Place(S, i) >= 1
  BY PlaceIs
<1> DEFINE Empty == {n \in 1..Cardinality(S) : \A i \in S : Place(S, i) # n}
<1>2. SUFFICES ASSUME Empty # {} PROVE FALSE
  OBVIOUS
<1>3. PICK n \in Empty : \A m \in Empty : n <= m
  <2>1. Empty \in SUBSET Nat
    BY <1>1
  <2> HIDE DEF Empty
  <2> QED
    BY <1>2, <2>1, TheLeast
<1>4. n \in Nat /\ 1 <= n /\ n <= Cardinality(S) /\ \A i \in S : Place(S, i) # n
  BY <1>1
\* The rows that come before place n, and the newest of the others.
<1> DEFINE Before == {i \in S : Place(S, i) < n}
           After == {i \in S : ~(Place(S, i) < n)}
<1>5. After # {}
  <2> SUFFICES ASSUME After = {} PROVE FALSE
    OBVIOUS
  <2>1. S # {}
    BY <1>1, <1>4, FS_EmptySet
  <2>2. PICK l \in S : \A m \in S : l <= m
    BY <2>1, TheLeast
  <2>3. {j \in S : j >= l} = S
    <3>1. \A j \in S : j >= l
      BY <2>2
    <3> QED
      BY <3>1
  <2>4. Place(S, l) = Cardinality(S)
    BY <2>3 DEF Place
  <2>5. Place(S, l) < n
    BY <2>2
  <2> QED
    BY <1>1, <1>4, <2>4, <2>5
<1>6. PICK i \in After : \A j \in After : j <= i
  <2>1. IsFiniteSet(After) /\ After \in SUBSET Nat
    BY FS_Subset
  <2>2. PICK p \in {Place(S, j) : j \in After} : \A q \in {Place(S, j) : j \in After} : p <= q
    <3> DEFINE P == {Place(S, j) : j \in After}
    <3>1. P \in SUBSET Nat /\ P # {}
      BY <1>1, <1>5
    <3> HIDE DEF P
    <3>2. \E p \in P : \A q \in P : p <= q
      BY <3>1, TheLeast
    <3> QED
      BY <3>2 DEF P
  <2>3. PICK i \in After : p = Place(S, i)
    BY <2>2
  <2>4. ASSUME NEW j \in After PROVE j <= i
    <3>1. Place(S, i) <= Place(S, j)
      BY <2>2, <2>3
    <3> QED
      BY <2>3, <3>1, PlaceOrders
  <2> QED
    BY <2>4
<1>7. {j \in S : j >= i} = Before \cup {i} /\ i \notin Before
  <2>1. ASSUME NEW j \in S PROVE j >= i <=> j \in Before \/ j = i
    <3>1. CASE j \in Before
      <4>1. Place(S, j) <= Place(S, i)
        BY <1>1, <1>4, <1>6, <3>1
      <4> QED
        BY <1>6, <3>1, <4>1, PlaceOrders
    <3>2. CASE j \notin Before
      BY <1>6, <3>2
    <3> QED
      BY <3>1, <3>2
  <2> QED
    BY <1>6, <2>1
<1>8. Place(S, i) = Cardinality(Before) + 1
  <2>1. IsFiniteSet(Before)
    BY FS_Subset
  <2> QED
    BY <1>7, <2>1, FS_AddElement DEF Place
<1>9. Cardinality(Before) = n - 1
  <2>1. CASE n = 1
    <3>1. \A j \in S : ~(Place(S, j) < 1)
      BY <1>1
    <3>2. Before = {}
      BY <2>1, <3>1
    <3> QED
      BY <2>1, <3>2, FS_EmptySet
  <2>2. CASE n # 1
    <3>1. n - 1 \in 1..Cardinality(S) /\ ~(n <= n - 1)
      BY <1>1, <1>4, <2>2
    <3>2. n - 1 \notin Empty
      BY <1>3, <3>1
    <3>3. PICK l \in S : Place(S, l) = n - 1
      BY <3>1, <3>2
    <3>4. ASSUME NEW j \in S PROVE j \in Before <=> j >= l
      <4>1. Place(S, j) < n <=> Place(S, j) <= Place(S, l)
        BY <1>1, <1>4, <3>3
      <4> QED
        BY <3>3, <4>1, PlaceOrders
    <3>5. Before = {j \in S : j >= l}
      BY <3>4
    <3> QED
      BY <3>3, <3>5 DEF Place
  <2> QED
    BY <2>1, <2>2
<1> QED
  BY <1>4, <1>6, <1>8, <1>9

LEMMA HowManyUpTo ==
  ASSUME NEW S \in SUBSET Nat, IsFiniteSet(S), NEW k \in 0..Cardinality(S)
  PROVE  Cardinality({i \in S : Place(S, i) <= k}) = k
<1>1. /\ Cardinality(S) \in Nat
      /\ \A i \in S : Place(S, i) \in Nat /\ Place(S, i) >= 1
  BY PlaceIs
<1>2. CASE k = 0
  <2>1. {i \in S : Place(S, i) <= k} = {}
    <3>1. \A i \in S : ~(Place(S, i) <= 0)
      BY <1>1
    <3> QED
      BY <1>2, <3>1
  <2> QED
    BY <1>2, <2>1, FS_EmptySet
<1>3. CASE k # 0
  <2>1. k \in 1..Cardinality(S)
    BY <1>1, <1>3
  <2>2. PICK l \in S : Place(S, l) = k
    BY <2>1, EveryPlace
  <2>3. \A i \in S : Place(S, i) <= k <=> i >= l
    BY <2>2, PlaceOrders
  <2>4. {i \in S : Place(S, i) <= k} = {i \in S : i >= l}
    BY <2>3
  <2> QED
    BY <2>2, <2>4 DEF Place
<1> QED
  BY <1>2, <1>3

\* LIMIT and OFFSET: what is skipped, and how much there is.
LEMMA LimitedIs ==
  ASSUME NEW S \in SUBSET Nat, IsFiniteSet(S), NEW limit \in Nat, NEW offset \in Nat
  PROVE  /\ IsFiniteSet(Limited(S, limit, offset))
         /\ Cardinality(Limited(S, limit, offset))
              = IF Cardinality(S) <= offset THEN 0
                ELSE IF Cardinality(S) - offset <= limit THEN Cardinality(S) - offset ELSE limit
<1> DEFINE L == Limited(S, limit, offset)
           n == Cardinality(S)
           last == IF n <= offset + limit THEN n ELSE offset + limit
           To == {i \in S : Place(S, i) <= last}
           Skipped == {i \in S : Place(S, i) <= offset}
<1>1. /\ n \in Nat
      /\ \A i \in S : Place(S, i) \in Nat /\ Place(S, i) <= n /\ Place(S, i) >= 1
  BY PlaceIs
<1>2. L \subseteq S /\ IsFiniteSet(L)
  <2>1. L \subseteq S
    BY DEF Limited
  <2> QED
    BY <2>1, FS_Subset
<1>3. CASE n <= offset
  <2>1. \A i \in S : ~(offset < Place(S, i))
    BY <1>1, <1>3
  <2>2. L = {}
    BY <2>1 DEF Limited
  <2> QED
    BY <1>2, <1>3, <2>2, FS_EmptySet
<1>4. CASE ~(n <= offset)
  <2>1. /\ last \in 0..n /\ offset \in 0..n /\ offset <= last
        /\ last - offset = IF n - offset <= limit THEN n - offset ELSE limit
    BY <1>1, <1>4
  <2>2. \A i \in S : Place(S, i) <= last <=> Place(S, i) <= offset + limit
    BY <1>1
  <2> HIDE DEF last
  <2>3. Cardinality(To) = last /\ Cardinality(Skipped) = offset
    BY <2>1, HowManyUpTo
  <2>4. Skipped \subseteq To /\ To \subseteq S /\ L = To \ Skipped
    <3>1. \A i \in S : i \in Skipped => i \in To
      BY <1>1, <2>1
    <3>2. \A i \in S : i \in L <=> i \in To /\ i \notin Skipped
      BY <1>1, <2>2 DEF Limited
    <3> QED
      BY <1>2, <3>1, <3>2
  <2> HIDE DEF To, Skipped, L
  <2>5. IsFiniteSet(To) /\ IsFiniteSet(Skipped)
    BY <2>4, FS_Subset
  <2>6. Cardinality(To \ Skipped) = Cardinality(To) - Cardinality(To \cap Skipped)
    BY <2>5, FS_Difference
  <2>7. To \cap Skipped = Skipped
    BY <2>4
  <2>8. Cardinality(L) = last - offset
    BY <2>3, <2>4, <2>6, <2>7
  <2> QED
    BY <1>2, <1>4, <2>1, <2>8 DEF L, n
<1> QED
  BY <1>3, <1>4

\* The newest rows of a list, and among these those of another list, keep
\* their places in it.
LEMMA NewestKeepTheirPlaces ==
  ASSUME NEW S \in SUBSET Nat, IsFiniteSet(S), NEW T \in SUBSET S, NEW k \in Nat
  PROVE  LET G == {i \in T : Place(S, i) <= k}
         IN  \A i \in G : Place(G, i) = Place(T, i)
<1> DEFINE G == {i \in T : Place(S, i) <= k}
<1> SUFFICES ASSUME NEW i \in G PROVE Place(G, i) = Place(T, i)
  OBVIOUS
<1>1. ASSUME NEW j \in T, j >= i PROVE j \in G
  <2>1. i \in S /\ j \in S /\ Place(S, i) <= k /\ Place(S, i) \in Nat /\ Place(S, j) \in Nat
    BY PlaceIs
  <2>2. Place(S, j) <= Place(S, i)
    BY <1>1, <2>1, PlaceOrders
  <2>3. Place(S, j) <= k
    BY <2>1, <2>2
  <2> QED
    BY <2>3
<1>2. {j \in T : j >= i} = {j \in G : j >= i}
  BY <1>1
<1> QED
  BY <1>2 DEF Place

----
(***************************************************************************)
(* The pages.                                                              *)
(***************************************************************************)
LEMMA Rounded ==
  ASSUME NEW a \in Nat, NEW b \in Nat \ {0}
  PROVE  /\ a \div b \in Nat
         /\ b * (a \div b) <= a /\ a < b * (a \div b) + b
OBVIOUS

\* There are as many pages as it takes.
LEMMA PagesHoldAll ==
  ASSUME NEW total \in Nat
  PROVE  /\ TotalPages(total) \in Nat /\ TotalPages(total) >= 1
         /\ total <= TotalPages(total) * PerPage
         /\ \A page \in Nat : (page - 1) * PerPage < total => page <= TotalPages(total)
<1>1. PerPage \in Nat \ {0}
  BY ListingsConstants
<1>2. CASE total = 0
  <2>1. \A page \in Nat : page > 1 => ~((page - 1) * PerPage < 0)
    BY <1>1
  <2> QED
    BY <1>1, <1>2, <2>1 DEF TotalPages
<1>3. CASE total # 0
  <2> DEFINE q == (total + PerPage - 1) \div PerPage
  <2>1. total + PerPage - 1 \in Nat
    BY <1>1
  <2>2. /\ q \in Nat /\ PerPage * q <= total + PerPage - 1
        /\ total + PerPage - 1 < PerPage * q + PerPage
    BY <1>1, <2>1, Rounded
  <2> HIDE DEF q
  <2>3. PerPage * q \in Nat /\ PerPage * q = q * PerPage
    BY <1>1, <2>2
  <2>4. total <= PerPage * q
    BY <1>1, <2>2, <2>3
  <2>5. q >= 1
    <3>1. q # 0
      BY <1>1, <1>3, <2>3, <2>4
    <3> QED
      BY <2>2, <3>1
  <2>6. ASSUME NEW page \in Nat, (page - 1) * PerPage < total PROVE page <= q
    <3> SUFFICES ASSUME page >= q + 1 PROVE FALSE
      BY <2>2
    <3>1. (page - 1) * PerPage >= q * PerPage
      BY <1>1, <2>2
    <3> QED
      BY <1>1, <2>3, <2>4, <2>6, <3>1
  <2>7. TotalPages(total) = q
    BY <1>3 DEF TotalPages, q
  <2> QED
    BY <2>2, <2>3, <2>4, <2>5, <2>6, <2>7
<1> QED
  BY <1>2, <1>3

\* What PaginationState::new makes of a page, a total and a number of rows.
LEMMA PaginationIs ==
  ASSUME NEW page \in Nat \ {0}, NEW total \in Nat, NEW items \in 0..PerPage
  PROVE  LET p == Pagination(page, total, items)
         IN  /\ p.total = total /\ p.items = items
             /\ p.page = IF page <= TotalPages(total) THEN page ELSE TotalPages(total)
             /\ p \in [page : Nat \ {0}, total : Nat, items : Nat]
<1>1. PerPage \in Nat \ {0} /\ TotalPages(total) \in Nat /\ TotalPages(total) >= 1
  BY ListingsConstants, PagesHoldAll
<1>2. Clamp(page, 1, TotalPages(total)) = IF page <= TotalPages(total) THEN page ELSE TotalPages(total)
  <2> DEFINE m == Min({page, TotalPages(total)})
  <2>1. m = (IF page <= TotalPages(total) THEN page ELSE TotalPages(total)) /\ m \in Nat /\ 1 <= m
    BY <1>1, MinMaxOfTwo
  <2> HIDE DEF m
  <2>2. Max({1, m}) = m
    BY <2>1, MinMaxOfTwo
  <2> QED
    BY <2>1, <2>2 DEF Clamp, m
<1>3. Clamp(items, 0, PerPage) = items
  <2>1. items \in Nat /\ Min({items, PerPage}) = items
    BY <1>1, MinMaxOfTwo
  <2>2. Max({0, items}) = items
    BY <2>1, MinMaxOfTwo
  <2> QED
    BY <2>1, <2>2 DEF Clamp
<1> QED
  BY <1>1, <1>2, <1>3 DEF Pagination

----
(***************************************************************************)
(* The invariant.                                                          *)
(***************************************************************************)
Pages == [page : Nat \ {0}, total : Nat, items : Nat]

Views ==
  [pc : {"away", "asked", "counted", "shown"},
   filter : [status : Statuses \cup {Unfiltered},
             from : Days \cup {Unfiltered}, to : Days \cup {Unfiltered}],
   unseen : SUBSET Nat, walk : BOOLEAN, page : Nat \ {0}, total : Nat,
   stale : BOOLEAN, shown : SUBSET Nat, at : Pages]

Typed ==
  /\ list \in {"executions", "attempts"}
  /\ rows \in Seq([status : Statuses, day : Days]) /\ Len(rows) <= MaxRows
  /\ view \in Views

\* A count is what was so when it was taken.
CountedRight ==
  view.pc = "counted" /\ ~view.stale => view.total = Cardinality(Matching(view.filter))

\* What matches goes on matching.
Walks ==
  /\ view.walk /\ ~HasDates(view.filter)
  /\ list = "attempts" \/ view.filter.status = Unfiltered

\* What has not been seen is behind the page that is asked for or shown, and
\* the page's links lead no further than to the next one.
UnseenBehind ==
  Walks =>
    /\ view.unseen \subseteq WithStatus(view.filter)
    /\ view.pc \in {"asked", "counted"} =>
         \A i \in view.unseen :
           Place(WithStatus(view.filter), i) > (view.page - 1) * PerPage
    /\ view.pc = "shown" =>
         /\ view.at.page <= view.page
         /\ \A i \in view.unseen : Place(WithStatus(view.filter), i) > view.page * PerPage

PagingInvariant == Typed /\ CountedRight /\ UnseenBehind /\ WalkMissesNothing

LEMMA RowsAre ==
  ASSUME Typed
  PROVE  /\ Len(rows) \in Nat /\ DOMAIN rows = 1..Len(rows) /\ IsFiniteSet(DOMAIN rows)
         /\ \A f : /\ WithStatus(f) \in SUBSET Nat /\ WithStatus(f) \subseteq DOMAIN rows
                   /\ IsFiniteSet(WithStatus(f)) /\ Cardinality(WithStatus(f)) <= MaxRows
                   /\ Matching(f) \in SUBSET Nat /\ Matching(f) \subseteq WithStatus(f)
                   /\ IsFiniteSet(Matching(f)) /\ Cardinality(Matching(f)) <= MaxRows
                   /\ ~HasDates(f) => Matching(f) = WithStatus(f)
<1>1. Len(rows) \in Nat /\ DOMAIN rows = 1..Len(rows) /\ Len(rows) <= MaxRows /\ MaxRows \in Nat
  BY LenProperties, ListingsConstants DEF Typed
<1> DEFINE D == 1..Len(rows)
<1>2. IsFiniteSet(D) /\ Cardinality(D) = Len(rows)
  <2> DEFINE n == Len(rows)
  <2>1. n \in Nat /\ 1 \in Int /\ n \in Int /\ n - 1 + 1 = n /\ (1 > n => n = 0)
    BY <1>1
  <2> HIDE DEF n
  <2>2. IsFiniteSet(1..n) /\ Cardinality(1..n) = IF 1 > n THEN 0 ELSE n - 1 + 1
    BY <2>1, FS_Interval
  <2>3. IsFiniteSet(1..n) /\ Cardinality(1..n) = n
    BY <2>1, <2>2
  <2> QED
    BY <2>3 DEF n
<1>3. D \subseteq Nat
  BY <1>1
<1>4. ASSUME NEW f
      PROVE  Matching(f) \subseteq WithStatus(f) /\ WithStatus(f) \subseteq D
  BY <1>1 DEF Matching, WithStatus
<1>5. ASSUME NEW f, ~HasDates(f) PROVE Matching(f) = WithStatus(f)
  BY <1>5 DEF Matching, WithStatus, HasDates, InRange
<1> HIDE DEF D
<1>6. ASSUME NEW S, S \subseteq D
      PROVE  S \in SUBSET Nat /\ IsFiniteSet(S) /\ Cardinality(S) <= MaxRows
  <2>1. IsFiniteSet(S) /\ Cardinality(S) <= Cardinality(D)
    BY <1>2, <1>6, FS_Subset
  <2>2. Cardinality(S) \in Nat
    BY <2>1, FS_CardinalityType
  <2> QED
    BY <1>1, <1>2, <1>3, <1>6, <2>1, <2>2
<1>7. \A f : Matching(f) \subseteq D
  BY <1>4
<1> QED
  BY <1>1, <1>2, <1>4, <1>5, <1>6, <1>7 DEF D

\* What matches, among the newest k with the status.
Recent(f, k) == {i \in Matching(f) : Place(WithStatus(f), i) <= k}

\* What list_by_hook_filtered finds, in terms of what matches.
LEMMA ListIs ==
  ASSUME Typed, NEW f, NEW limit \in Nat, NEW offset \in Nat
  PROVE  LET all == Matching(f)
             found == ListByHook(f, limit, offset)
             newest == Recent(f, limit + offset)
         IN  /\ IsFiniteSet(found) /\ Cardinality(found) <= limit
             /\ found \in SUBSET all
             /\ ~HasDates(f) => found = Limited(all, limit, offset)
             /\ HasDates(f) => /\ found = Limited(newest, limit, offset)
                               /\ newest \subseteq all
                               /\ \A i \in newest : Place(newest, i) = Place(all, i)
                               /\ \A i \in all : \A j \in newest : i >= j => i \in newest
<1> DEFINE W == WithStatus(f)
           all == Matching(f)
           found == ListByHook(f, limit, offset)
           newest == Recent(f, limit + offset)
<1>0. newest = {i \in all : Place(W, i) <= limit + offset}
  BY DEF Recent
<1>1. /\ W \in SUBSET Nat /\ IsFiniteSet(W) /\ all \subseteq W
      /\ all \in SUBSET Nat /\ IsFiniteSet(all)
  BY RowsAre
<1>2. newest \subseteq all /\ newest \in SUBSET Nat /\ IsFiniteSet(newest)
  <2>1. newest \subseteq all
    BY <1>0
  <2> HIDE DEF newest
  <2> QED
    BY <1>1, <2>1, FS_Subset
<1>3. ~HasDates(f) => found = Limited(all, limit, offset)
  BY RowsAre DEF ListByHook
<1>4. HasDates(f) => found = Limited(newest, limit, offset)
  <2>1. \A i \in W : Place(W, i) \in Nat /\ Place(W, i) >= 1
    BY <1>1, PlaceIs
  <2>2. Fetched(f, limit, offset) = {i \in W : 0 < Place(W, i) /\ Place(W, i) <= 0 + (limit + offset)}
    BY DEF Fetched, Limited
  <2>3. {i \in Fetched(f, limit, offset) : InRange(f, i)} = newest
    BY <1>0, <2>1, <2>2 DEF Matching
  <2> QED
    BY <2>3 DEF ListByHook
<1>5. \A i \in newest : Place(newest, i) = Place(all, i)
  <2> DEFINE k == limit + offset
  <2>1. k \in Nat
    OBVIOUS
  <2>2. newest = {i \in all : Place(W, i) <= k}
    BY <1>0
  <2> HIDE DEF k, W, all
  <2>3. \A i \in {j \in all : Place(W, j) <= k} :
          Place({j \in all : Place(W, j) <= k}, i) = Place(all, i)
    BY <1>1, <2>1, NewestKeepTheirPlaces
  <2> HIDE DEF newest
  <2> QED
    BY <2>2, <2>3
<1>6. ASSUME NEW i \in all, NEW j \in newest, i >= j PROVE i \in newest
  <2>1. i \in W /\ j \in W /\ Place(W, j) <= limit + offset
    BY <1>0, <1>1
  <2>2. Place(W, i) <= Place(W, j) /\ Place(W, i) \in Nat /\ Place(W, j) \in Nat
    BY <1>1, <1>6, <2>1, PlaceOrders, PlaceIs
  <2> QED
    BY <1>0, <2>1, <2>2
<1>7. ASSUME NEW S \in SUBSET Nat, IsFiniteSet(S)
      PROVE  /\ IsFiniteSet(Limited(S, limit, offset))
             /\ Cardinality(Limited(S, limit, offset)) <= limit
             /\ Limited(S, limit, offset) \subseteq S
  <2> DEFINE L == Limited(S, limit, offset)
  <2>1. /\ IsFiniteSet(L)
        /\ Cardinality(L) = IF Cardinality(S) <= offset THEN 0
                            ELSE IF Cardinality(S) - offset <= limit THEN Cardinality(S) - offset
                            ELSE limit
    BY <1>7, LimitedIs
  <2>2. Cardinality(S) \in Nat
    BY <1>7, FS_CardinalityType
  <2>3. L \subseteq S
    BY DEF Limited
  <2> HIDE DEF L
  <2>4. Cardinality(L) <= limit
    BY <2>1, <2>2
  <2> QED
    BY <2>1, <2>3, <2>4 DEF L
<1> HIDE DEF W, all, newest, found
<1>8. IsFiniteSet(found) /\ Cardinality(found) <= limit /\ found \in SUBSET all
  BY <1>1, <1>2, <1>3, <1>4, <1>7
<1> QED
  BY <1>2, <1>3, <1>4, <1>5, <1>6, <1>8 DEF W, all, newest, found

\* count_by_hook counts what matches, dates or not.
LEMMA CountIs ==
  ASSUME Typed, NEW f
  PROVE  CountByHook(f) = Cardinality(Matching(f)) /\ CountByHook(f) \in Nat
<1> DEFINE all == Matching(f)
           W == WithStatus(f)
<1>1. /\ W \in SUBSET Nat /\ IsFiniteSet(W) /\ Cardinality(W) <= MaxRows /\ all \subseteq W
      /\ all \in SUBSET Nat /\ IsFiniteSet(all) /\ Cardinality(all) <= MaxRows /\ MaxRows \in Nat
      /\ ~HasDates(f) => all = W
  BY RowsAre, ListingsConstants
<1>2. Cardinality(all) \in Nat
  BY <1>1, FS_CardinalityType
<1>3. CASE ~HasDates(f)
  BY <1>1, <1>2, <1>3 DEF CountByHook
<1>4. CASE HasDates(f)
  <2> DEFINE newest == Recent(f, MaxRows + 0)
  <2>1. ListByHook(f, MaxRows, 0) = Limited(newest, MaxRows, 0)
    BY <1>1, <1>4, ListIs
  <2>2. \A S \in SUBSET Nat : IsFiniteSet(S) /\ Cardinality(S) <= MaxRows =>
          \A i \in S : Place(S, i) \in Nat /\ Place(S, i) >= 1 /\ Place(S, i) <= MaxRows
    <3> TAKE S \in SUBSET Nat
    <3> HAVE IsFiniteSet(S) /\ Cardinality(S) <= MaxRows
    <3>1. /\ Cardinality(S) \in Nat
          /\ \A i \in S : Place(S, i) \in Nat /\ Place(S, i) <= Cardinality(S) /\ Place(S, i) >= 1
      BY PlaceIs
    <3> QED
      BY <1>1, <3>1
  <2>3. newest = all
    <3>1. \A i \in all : Place(W, i) <= MaxRows + 0
      BY <1>1, <2>2
    <3> QED
      BY <3>1 DEF Recent
  <2>4. Limited(all, MaxRows, 0) = all
    <3>1. \A i \in all : 0 < Place(all, i) /\ Place(all, i) <= 0 + MaxRows
      BY <1>1, <2>2
    <3> QED
      BY <3>1 DEF Limited
  <2> QED
    BY <1>2, <1>4, <2>1, <2>3, <2>4 DEF CountByHook
<1> QED
  BY <1>3, <1>4

----
(***************************************************************************)
(* The steps.                                                              *)
(***************************************************************************)
LEMMA OffsetIs ==
  /\ PerPage \in Nat \ {0}
  /\ \A page \in Nat \ {0} : /\ Offset(page) = (page - 1) * PerPage /\ Offset(page) \in Nat
                             /\ Offset(page) + PerPage = page * PerPage
                             /\ page * PerPage \in Nat
<1>1. PerPage \in Nat \ {0}
  BY ListingsConstants
<1>2. ASSUME NEW page \in Nat \ {0}
      PROVE  /\ Offset(page) = (page - 1) * PerPage /\ Offset(page) \in Nat
             /\ Offset(page) + PerPage = page * PerPage
             /\ page * PerPage \in Nat
  <2>1. Offset(page) = (page - 1) * PerPage
    BY DEF Offset
  <2>2. (page - 1) * PerPage \in Nat /\ page * PerPage \in Nat
    BY <1>1
  <2>3. (page - 1) * PerPage + PerPage = page * PerPage
    BY <1>1
  <2> QED
    BY <2>1, <2>2, <2>3
<1> QED
  BY <1>1, <1>2

\* A page no further on begins no later.
LEMMA PagesInOrder ==
  ASSUME NEW a \in Nat, NEW b \in Nat, a <= b
  PROVE  a * PerPage <= b * PerPage
BY OffsetIs

LEMMA NoPageTyped == NoPage \in Pages
<1>1. 0 \in 0..PerPage /\ 1 \in Nat \ {0} /\ 0 \in Nat
  BY OffsetIs
<1> QED
  BY <1>1, PaginationIs DEF NoPage, Pages

\* What a page that is asked for leaves behind.
LEMMA Asked ==
  ASSUME Typed, NEW v \in Views, NEW page \in Int, Ask(v, page)
  PROVE  /\ view' \in Views /\ view'.pc = "asked" /\ view'.filter = v.filter
         /\ view'.unseen = v.unseen /\ view'.walk = v.walk
         /\ view'.page = IF page >= 1 THEN page ELSE 1
<1> DEFINE p == Max({page, 1})
<1>1. p = (IF page >= 1 THEN page ELSE 1) /\ p \in Nat \ {0}
  <2>1. Max({page, 1}) = IF page <= 1 THEN 1 ELSE page
    BY MinMaxOfTwo
  <2>2. p = IF page <= 1 THEN 1 ELSE page
    BY <2>1
  <2> HIDE DEF p
  <2> QED
    BY <2>2
<1>2. NoPage \in Pages
  BY NoPageTyped
<1>3. view' = [v EXCEPT !.pc = "asked", !.page = p, !.stale = FALSE, !.shown = {}, !.at = NoPage]
  BY DEF Ask
<1> HIDE DEF p
<1> QED
  BY <1>1, <1>2, <1>3 DEF Views

LEMMA VisitStep ==
  ASSUME PagingInvariant, NEW f \in Filters, NEW page \in 0..MaxPage, Visit(f, page)
  PROVE  PagingInvariant'
<1>1. Typed
  BY DEF PagingInvariant
<1> DEFINE v == [view EXCEPT !.filter = f, !.walk = page <= 1,
                             !.unseen = IF page <= 1 THEN Matching(f) ELSE {}]
<1>2. /\ Matching(f) \in SUBSET Nat /\ (~HasDates(f) => Matching(f) = WithStatus(f))
      /\ WithStatus(f) \in SUBSET Nat /\ IsFiniteSet(WithStatus(f))
  BY <1>1, RowsAre
<1>3. v \in Views /\ v.filter = f /\ v.walk = (page <= 1)
      /\ v.unseen = IF page <= 1 THEN Matching(f) ELSE {}
  <2> DEFINE first == page <= 1
             U == IF page <= 1 THEN Matching(f) ELSE {}
  <2>1. first \in BOOLEAN /\ U \in SUBSET Nat
    BY <1>2
  <2>2. f \in [status : Statuses \cup {Unfiltered},
               from : Days \cup {Unfiltered}, to : Days \cup {Unfiltered}]
    BY DEF Filters
  <2>3. v = [view EXCEPT !.filter = f, !.walk = first, !.unseen = U] /\ view \in Views
    BY <1>1 DEF Typed
  <2> HIDE DEF first, U, v
  <2>4. v \in Views /\ v.filter = f /\ v.walk = first /\ v.unseen = U
    BY <2>1, <2>2, <2>3 DEF Views
  <2> QED
    BY <2>4 DEF first, U
<1>4. Ask(v, page) /\ UNCHANGED <<list, rows>> /\ page \in Nat
  <2>1. Ask(v, page) /\ UNCHANGED <<list, rows>>
    BY Zenon DEF Visit
  <2>2. page \in Nat
    BY ListingsConstants
  <2> QED
    BY <2>1, <2>2
<1> HIDE DEF v
<1>5. /\ view' \in Views /\ view'.pc = "asked" /\ view'.filter = f
      /\ view'.unseen = (IF page <= 1 THEN Matching(f) ELSE {}) /\ view'.walk = (page <= 1)
      /\ view'.page = IF page >= 1 THEN page ELSE 1
  BY <1>1, <1>3, <1>4, Asked
<1>6. Typed'
  BY <1>1, <1>4, <1>5 DEF Typed
<1>7. WithStatus(view.filter)' = WithStatus(f)
  BY <1>4, <1>5 DEF WithStatus, StatusMatches
<1>8. UnseenBehind'
  <2> SUFFICES ASSUME Walks'
               PROVE  /\ view'.unseen \subseteq WithStatus(f)
                      /\ \A i \in view'.unseen : Place(WithStatus(f), i) > (view'.page - 1) * PerPage
    BY <1>5, <1>7 DEF UnseenBehind, Place
  <2>1. page <= 1 /\ ~HasDates(f)
    BY <1>5 DEF Walks, HasDates
  <2>2. view'.unseen = WithStatus(f) /\ view'.page = 1
    BY <1>2, <1>4, <1>5, <2>1
  <2>3. (1 - 1) * PerPage = 0
    BY OffsetIs
  <2>4. \A i \in WithStatus(f) : Place(WithStatus(f), i) \in Nat /\ Place(WithStatus(f), i) >= 1
    BY <1>2, PlaceIs
  <2> QED
    BY <2>2, <2>3, <2>4
<1> QED
  BY <1>5, <1>6, <1>8 DEF PagingInvariant, CountedRight, WalkMissesNothing

LEMMA FollowStep ==
  ASSUME PagingInvariant, Follow
  PROVE  PagingInvariant'
<1>1. Typed /\ view \in Views /\ view.at.page \in Nat \ {0} /\ view.page \in Nat \ {0}
  BY DEF PagingInvariant, Typed, Views, Pages
<1>2. /\ view.pc = "shown" /\ UNCHANGED <<list, rows>>
      /\ \/ Ask(view, view.at.page + 1)
         \/ view.at.page > 1 /\ Ask(view, view.at.page - 1)
  BY DEF Follow, NextPage, PreviousPage, HasPrevious
<1>3. /\ view' \in Views /\ view'.pc = "asked" /\ view'.filter = view.filter
      /\ view'.unseen = view.unseen /\ view'.walk = view.walk
      /\ view'.page \in {view.at.page + 1, view.at.page - 1} /\ view'.page \in Nat \ {0}
  <2>1. CASE Ask(view, view.at.page + 1)
    <3>1. view.at.page + 1 \in Int /\ view.at.page + 1 >= 1
      BY <1>1
    <3> QED
      BY <1>1, <2>1, <3>1, Asked
  <2>2. CASE view.at.page > 1 /\ Ask(view, view.at.page - 1)
    <3>1. view.at.page - 1 \in Int /\ view.at.page - 1 >= 1
      BY <1>1, <2>2
    <3> QED
      BY <1>1, <2>2, <3>1, Asked
  <2> QED
    BY <1>2, <2>1, <2>2
<1>4. Typed'
  BY <1>1, <1>2, <1>3 DEF Typed
<1>5. WithStatus(view.filter)' = WithStatus(view.filter)
  BY <1>2, <1>3 DEF WithStatus, StatusMatches
<1>6. Walks' => Walks
  BY <1>2, <1>3 DEF Walks, HasDates
<1>7. UnseenBehind'
  <2> DEFINE W == WithStatus(view.filter)
  <2> SUFFICES ASSUME Walks'
               PROVE  /\ view.unseen \subseteq W
                      /\ \A i \in view.unseen : Place(W, i) > (view'.page - 1) * PerPage
    BY <1>3, <1>5 DEF UnseenBehind, Place
  <2>1. /\ view.unseen \subseteq W /\ view.at.page <= view.page
        /\ \A i \in view.unseen : Place(W, i) > view.page * PerPage
    BY <1>2, <1>6 DEF PagingInvariant, UnseenBehind
  <2>2. view'.page - 1 \in Nat /\ view'.page - 1 <= view.page
    BY <1>1, <1>3, <2>1
  <2>3. (view'.page - 1) * PerPage <= view.page * PerPage
    BY <1>1, <2>2, PagesInOrder
  <2>4. (view'.page - 1) * PerPage \in Nat /\ view.page * PerPage \in Nat
    BY <1>1, <1>3, OffsetIs
  <2>5. \A i \in view.unseen : Place(W, i) \in Nat
    BY <1>1, RowsAre, PlaceIs
  <2> QED
    BY <2>1, <2>3, <2>4, <2>5
<1> QED
  BY <1>3, <1>4, <1>7 DEF PagingInvariant, CountedRight, WalkMissesNothing

LEMMA CountStep ==
  ASSUME PagingInvariant, Count
  PROVE  PagingInvariant'
<1>1. Typed /\ view \in Views
  BY DEF PagingInvariant, Typed
<1>2. /\ CountByHook(view.filter) = Cardinality(Matching(view.filter))
      /\ CountByHook(view.filter) \in Nat
  BY <1>1, CountIs
<1>3. /\ view.pc = "asked" /\ UNCHANGED <<list, rows>> /\ view' \in Views /\ view'.pc = "counted"
      /\ view'.total = CountByHook(view.filter) /\ view'.filter = view.filter
      /\ view'.unseen = view.unseen /\ view'.walk = view.walk /\ view'.page = view.page
  BY <1>1, <1>2 DEF Count, Views
<1>4. /\ WithStatus(view.filter)' = WithStatus(view.filter)
      /\ Matching(view.filter)' = Matching(view.filter)
  BY <1>3 DEF Matching, InRange, WithStatus, StatusMatches
<1>5. Typed' /\ CountedRight'
  BY <1>1, <1>2, <1>3, <1>4 DEF Typed, CountedRight
<1>6. Walks' => Walks
  BY <1>3 DEF Walks, HasDates
<1>7. UnseenBehind'
  BY <1>3, <1>4, <1>6 DEF PagingInvariant, UnseenBehind, Place
<1> QED
  BY <1>3, <1>5, <1>7 DEF PagingInvariant, WalkMissesNothing

\* What the page shows, once its rows are found.
LEMMA Shown ==
  ASSUME Typed, Show
  PROVE  LET found == ListByHook(view.filter, PerPage, Offset(view.page))
         IN  /\ UNCHANGED <<list, rows>> /\ view.pc = "counted"
             /\ view' \in Views /\ view'.pc = "shown" /\ view'.shown = found
             /\ view'.unseen = view.unseen \ found /\ view'.page = view.page
             /\ view'.filter = view.filter /\ view'.walk = view.walk /\ view'.stale = view.stale
             /\ Cardinality(found) \in 0..PerPage
             /\ view'.at.total = view.total /\ view'.at.items = Cardinality(found)
             /\ view'.at.page = IF view.page <= TotalPages(view.total) THEN view.page
                                ELSE TotalPages(view.total)
             /\ TotalPages(view.total) \in Nat
<1> DEFINE found == ListByHook(view.filter, PerPage, Offset(view.page))
           at == Pagination(view.page, view.total, Cardinality(found))
<1>1. view \in Views /\ view.page \in Nat \ {0} /\ view.total \in Nat /\ view.unseen \in SUBSET Nat
  BY DEF Typed, Views
<1>2. PerPage \in Nat /\ Offset(view.page) \in Nat
  BY <1>1, OffsetIs
<1>3. IsFiniteSet(found) /\ Cardinality(found) <= PerPage /\ found \in SUBSET Matching(view.filter)
  BY <1>2, ListIs
<1>4. Cardinality(found) \in 0..PerPage /\ found \in SUBSET Nat
  <2>1. Cardinality(found) \in Nat
    BY <1>3, FS_CardinalityType
  <2>2. Matching(view.filter) \in SUBSET Nat
    BY RowsAre
  <2> QED
    BY <1>2, <1>3, <2>1, <2>2
<1>5. /\ at.total = view.total /\ at.items = Cardinality(found) /\ at \in Pages
      /\ at.page = IF view.page <= TotalPages(view.total) THEN view.page
                   ELSE TotalPages(view.total)
  BY <1>1, <1>4, PaginationIs DEF Pages
<1>6. TotalPages(view.total) \in Nat
  BY <1>1, PagesHoldAll
<1>7. /\ UNCHANGED <<list, rows>> /\ view.pc = "counted"
      /\ view' = [view EXCEPT !.pc = "shown", !.shown = found, !.at = at, !.total = 0,
                              !.unseen = @ \ found]
  BY DEF Show
<1> HIDE DEF at, found
<1>8. view.unseen \ found \in SUBSET Nat /\ 0 \in Nat
  BY <1>1
<1>9. /\ view' \in Views /\ view'.pc = "shown" /\ view'.shown = found
      /\ view'.unseen = view.unseen \ found /\ view'.page = view.page
      /\ view'.filter = view.filter /\ view'.walk = view.walk /\ view'.stale = view.stale
      /\ view'.at = at
  BY <1>1, <1>4, <1>5, <1>7, <1>8 DEF Views
<1> QED
  BY <1>4, <1>5, <1>6, <1>7, <1>9 DEF found

LEMMA ShowStep ==
  ASSUME PagingInvariant, Show
  PROVE  PagingInvariant'
<1> DEFINE found == ListByHook(view.filter, PerPage, Offset(view.page))
           W == WithStatus(view.filter)
           last == view.page * PerPage
<1>1. /\ Typed /\ CountedRight /\ UnseenBehind
      /\ view.page \in Nat \ {0} /\ view.total \in Nat
  BY DEF PagingInvariant, Typed, Views
<1>2. /\ UNCHANGED <<list, rows>> /\ view.pc = "counted"
      /\ view' \in Views /\ view'.pc = "shown" /\ view'.shown = found
      /\ view'.unseen = view.unseen \ found /\ view'.page = view.page
      /\ view'.filter = view.filter /\ view'.walk = view.walk /\ view'.stale = view.stale
      /\ view'.at.total = view.total
      /\ view'.at.page = IF view.page <= TotalPages(view.total) THEN view.page
                         ELSE TotalPages(view.total)
      /\ TotalPages(view.total) \in Nat
  BY <1>1, Shown
<1>3. Typed'
  BY <1>1, <1>2 DEF Typed
<1>4. WithStatus(view.filter)' = W
  BY <1>2 DEF WithStatus, StatusMatches
<1>5. Walks' => Walks
  BY <1>2 DEF Walks, HasDates
<1>6. /\ Offset(view.page) \in Nat /\ Offset(view.page) = (view.page - 1) * PerPage
      /\ Offset(view.page) + PerPage = last /\ last \in Nat /\ PerPage \in Nat \ {0}
  BY <1>1, OffsetIs
<1>7. /\ W \in SUBSET Nat /\ IsFiniteSet(W) /\ Cardinality(W) \in Nat
      /\ \A i : Place(W, i) \in Nat /\ Place(W, i) <= Cardinality(W)
  BY <1>1, RowsAre, PlaceIs
<1> HIDE DEF last
<1>8. ASSUME Walks
      PROVE  /\ view'.unseen \subseteq W
             /\ \A i \in view'.unseen : Place(W, i) > last
             /\ found = Limited(W, PerPage, Offset(view.page)) /\ Matching(view.filter) = W
  <2>1. /\ view.unseen \subseteq W
        /\ \A i \in view.unseen : Place(W, i) > (view.page - 1) * PerPage
    BY <1>1, <1>2, <1>8 DEF UnseenBehind
  <2>2. Matching(view.filter) = W /\ ~HasDates(view.filter)
    BY <1>1, <1>8, RowsAre DEF Walks
  <2>3. found = Limited(W, PerPage, Offset(view.page))
    <3>1. PerPage \in Nat
      BY <1>6
    <3>2. found = Limited(Matching(view.filter), PerPage, Offset(view.page))
      BY <1>1, <1>6, <2>2, <3>1, ListIs
    <3> QED
      BY <2>2, <3>2
  <2>4. ASSUME NEW i \in W, i \notin found, Place(W, i) > (view.page - 1) * PerPage
        PROVE  Place(W, i) > last
    BY <1>6, <1>7, <2>3, <2>4 DEF Limited
  <2> QED
    BY <1>2, <2>1, <2>2, <2>3, <2>4
<1>9. UnseenBehind'
  <2> SUFFICES ASSUME Walks'
               PROVE  /\ view'.unseen \subseteq W /\ view'.at.page <= view.page
                      /\ \A i \in view'.unseen : Place(W, i) > view.page * PerPage
    BY <1>2, <1>4 DEF UnseenBehind, Place
  <2>1. view'.at.page <= view.page
    BY <1>1, <1>2
  <2> QED
    BY <1>5, <1>8, <2>1 DEF last
<1>10. WalkMissesNothing'
  <2> SUFFICES ASSUME Walks, ~view.stale, NEW i \in view'.unseen PROVE HasNext'
    BY <1>2, <1>5 DEF WalkMissesNothing, Walks, HasDates
  <2>1. view.total = Cardinality(W)
    BY <1>1, <1>2, <1>8 DEF CountedRight
  <2>2. last < Cardinality(W)
    BY <1>6, <1>7, <1>8
  <2>3. /\ view.total <= TotalPages(view.total) * PerPage
    BY <1>1, PagesHoldAll
  <2>4. view.page < TotalPages(view.total)
    <3> SUFFICES ASSUME TotalPages(view.total) <= view.page PROVE FALSE
      BY <1>1, <1>2
    <3>1. TotalPages(view.total) * PerPage <= last
      BY <1>1, <1>2, PagesInOrder DEF last
    <3>2. TotalPages(view.total) * PerPage \in Nat
      BY <1>2, <1>6
    <3> QED
      BY <1>1, <1>6, <1>7, <2>1, <2>2, <2>3, <3>1, <3>2
  <2>5. found # {}
    <3> DEFINE off == Offset(view.page)
               n == Cardinality(W)
    <3>1. /\ n \in Nat /\ off \in Nat /\ off < n /\ PerPage # 0 /\ PerPage \in Nat
      BY <1>6, <1>7, <2>2
    <3>2. Cardinality(found) = IF n <= off THEN 0 ELSE IF n - off <= PerPage THEN n - off ELSE PerPage
      BY <1>6, <1>7, <1>8, LimitedIs
    <3> HIDE DEF off, n, found
    <3>3. Cardinality(found) # 0
      BY <3>1, <3>2
    <3> QED
      BY <3>3, FS_EmptySet
  <2>6. view'.at.page = view.page /\ view'.at.total = view.total
    BY <1>1, <1>2, <2>4
  <2>7. TotalPages(view'.at.total) = TotalPages(view.at.total)'
    BY DEF TotalPages
  <2> QED
    BY <1>2, <2>4, <2>5, <2>6, <2>7 DEF HasNext
<1> QED
  BY <1>2, <1>3, <1>9, <1>10 DEF PagingInvariant, CountedRight

LEMMA RowsStep ==
  ASSUME PagingInvariant,
         \/ \E s \in Statuses, d \in Days : Insert(s, d)
         \/ \E s \in Statuses, i \in DOMAIN rows : Change(i, s)
  PROVE  PagingInvariant'
<1>1. /\ Typed /\ CountedRight /\ UnseenBehind /\ WalkMissesNothing
      /\ view \in Views /\ view.pc \in {"away", "asked", "counted", "shown"}
      /\ view.page \in Nat \ {0} /\ rows \in Seq([status : Statuses, day : Days])
      /\ list \in {"executions", "attempts"}
  BY DEF PagingInvariant, Typed, Views
<1>2. /\ list' = list /\ view' = [view EXCEPT !.stale = @ \/ view.pc = "counted"]
  BY DEF Insert, Change, Restale
<1>3. /\ view' \in Views /\ view'.pc = view.pc /\ view'.filter = view.filter
      /\ view'.unseen = view.unseen /\ view'.walk = view.walk /\ view'.page = view.page
      /\ view'.shown = view.shown /\ view'.at = view.at
      /\ view'.stale = (view.stale \/ view.pc = "counted")
  BY <1>1, <1>2 DEF Views
\* The rows that were there stay, and so does what matters of them.
<1>4. /\ rows' \in Seq([status : Statuses, day : Days]) /\ Len(rows') <= MaxRows
      /\ DOMAIN rows \subseteq DOMAIN rows'
      /\ list = "attempts" => \A i \in DOMAIN rows : rows'[i] = rows[i]
  <2>1. CASE \E s \in Statuses, d \in Days : Insert(s, d)
    <3>1. PICK s \in Statuses, d \in Days : Insert(s, d)
      BY <2>1
    <3> DEFINE r == [status |-> s, day |-> d]
    <3>2. r \in [status : Statuses, day : Days]
      OBVIOUS
    <3>3. Len(rows) < MaxRows /\ rows' = Append(rows, r)
      BY <3>1 DEF Insert
    <3> HIDE DEF r
    <3>4. /\ rows' \in Seq([status : Statuses, day : Days]) /\ Len(rows') = Len(rows) + 1
          /\ \A i \in 1..Len(rows) : rows'[i] = rows[i]
      BY <1>1, <3>2, <3>3, AppendProperties
    <3>5. /\ DOMAIN rows = 1..Len(rows) /\ DOMAIN rows' = 1..Len(rows')
          /\ Len(rows) \in Nat /\ MaxRows \in Nat
      BY <1>1, <3>4, LenProperties, ListingsConstants
    <3> QED
      BY <3>3, <3>4, <3>5
  <2>2. CASE \E s \in Statuses, i \in DOMAIN rows : Change(i, s)
    <3>1. PICK s \in Statuses, i \in DOMAIN rows : Change(i, s)
      BY <2>2
    <3>2. list = "executions" /\ rows' = [rows EXCEPT ![i].status = s]
      BY <3>1 DEF Change
    <3>3. rows[i] \in [status : Statuses, day : Days] /\ i \in 1..Len(rows)
      BY <1>1, LenProperties, ElementOfSeq
    <3>4. [rows[i] EXCEPT !.status = s] \in [status : Statuses, day : Days]
      BY <3>3
    <3> DEFINE r == [rows[i] EXCEPT !.status = s]
    <3>5. rows' = [rows EXCEPT ![i] = r]
      BY <3>2
    <3> HIDE DEF r
    <3>6. /\ rows' \in Seq([status : Statuses, day : Days]) /\ Len(rows') = Len(rows)
      BY <1>1, <3>3, <3>4, <3>5, ExceptSeq DEF r
    <3>7. DOMAIN rows' = DOMAIN rows /\ Len(rows) <= MaxRows
      BY <1>1, <3>5 DEF Typed
    <3> QED
      BY <3>2, <3>6, <3>7
  <2> QED
    BY <2>1, <2>2
<1>5. Typed'
  BY <1>1, <1>2, <1>3, <1>4 DEF Typed
<1>6. CountedRight'
  BY <1>3 DEF CountedRight
<1>7. Walks' => Walks
  BY <1>2, <1>3 DEF Walks, HasDates
<1> DEFINE W == WithStatus(view.filter)
           V == {i \in DOMAIN rows' : view.filter.status \in {Unfiltered, rows'[i].status}}
<1>8. WithStatus(view.filter)' = V
  BY <1>3 DEF WithStatus, StatusMatches
<1>9. Walks => W \subseteq V
  BY <1>1, <1>4 DEF Walks, WithStatus, StatusMatches
<1>10. V \in SUBSET Nat /\ IsFiniteSet(V)
  <2> DEFINE D == 1..Len(rows')
  <2>1. DOMAIN rows' = D /\ Len(rows') \in Nat
    BY <1>4, LenProperties
  <2>2. IsFiniteSet(D)
    BY <2>1, FS_Interval
  <2>3. V \subseteq D /\ D \subseteq Nat
    BY <2>1
  <2> HIDE DEF V, D
  <2> QED
    BY <2>2, <2>3, FS_Subset
<1>11. /\ \A i : Place(W, i) \in Nat /\ Place(V, i) \in Nat
  BY <1>1, <1>10, RowsAre, PlaceIs
<1>12. Walks => \A i : Place(W, i) <= Place(V, i)
  BY <1>9, <1>10, PlaceGrows
<1> HIDE DEF W, V
<1>13. ASSUME NEW n \in Nat, Walks, NEW i, Place(W, i) > n PROVE Place(V, i) > n
  BY <1>11, <1>12, <1>13
<1>14. view.page * PerPage \in Nat /\ (view.page - 1) * PerPage \in Nat
  BY <1>1, OffsetIs
<1>15. UnseenBehind'
  <2> SUFFICES ASSUME Walks'
               PROVE  /\ view.unseen \subseteq V
                      /\ view.pc \in {"asked", "counted"} =>
                           \A i \in view.unseen : Place(V, i) > (view.page - 1) * PerPage
                      /\ view.pc = "shown" =>
                           /\ view.at.page <= view.page
                           /\ \A i \in view.unseen : Place(V, i) > view.page * PerPage
    BY <1>3, <1>8 DEF UnseenBehind, Place
  <2>1. /\ view.unseen \subseteq W
        /\ view.pc \in {"asked", "counted"} =>
             \A i \in view.unseen : Place(W, i) > (view.page - 1) * PerPage
        /\ view.pc = "shown" =>
             /\ view.at.page <= view.page
             /\ \A i \in view.unseen : Place(W, i) > view.page * PerPage
    BY <1>1, <1>7 DEF UnseenBehind, W
  <2> QED
    BY <1>7, <1>9, <1>13, <1>14, <2>1
<1>16. WalkMissesNothing'
  <2>1. HasNext' <=> HasNext
    BY <1>3 DEF HasNext, TotalPages
  <2>2. HasDates(view.filter)' <=> HasDates(view.filter)
    BY <1>3 DEF HasDates
  <2> QED
    BY <1>1, <1>2, <1>3, <2>1, <2>2 DEF WalkMissesNothing
<1> QED
  BY <1>5, <1>6, <1>15, <1>16 DEF PagingInvariant

----
(***************************************************************************)
(* The theorems.                                                           *)
(***************************************************************************)
LEMMA PagingInvariantHolds == Spec => []PagingInvariant
<1>1. Init => PagingInvariant
  <2> SUFFICES ASSUME Init PROVE PagingInvariant
    OBVIOUS
  <2>1. view = Away /\ rows = <<>> /\ list \in {"executions", "attempts"}
    BY DEF Init
  <2>2. view \in Views /\ view.pc = "away" /\ view.walk = FALSE
    BY <2>1, NoPageTyped DEF Away, Views, NoFilter
  <2>3. rows \in Seq([status : Statuses, day : Days]) /\ Len(rows) <= MaxRows
    BY <2>1, EmptySeq, ListingsConstants
  <2> QED
    BY <2>1, <2>2, <2>3
       DEF PagingInvariant, Typed, CountedRight, UnseenBehind, Walks, WalkMissesNothing
<1>2. PagingInvariant /\ [Next]_vars => PagingInvariant'
  <2> SUFFICES ASSUME PagingInvariant, [Next]_vars PROVE PagingInvariant'
    OBVIOUS
  <2>1. CASE \E f \in Filters, page \in 0..MaxPage : Visit(f, page)
    BY <2>1, VisitStep
  <2>2. CASE Count
    BY <2>2, CountStep
  <2>3. CASE Show
    BY <2>3, ShowStep
  <2>4. CASE Follow
    BY <2>4, FollowStep
  <2>5. CASE \/ \E s \in Statuses, d \in Days : Insert(s, d)
             \/ \E s \in Statuses, i \in DOMAIN rows : Change(i, s)
    BY <2>5, RowsStep
  <2>6. CASE UNCHANGED vars
    BY <2>6 DEF vars, PagingInvariant, Typed, CountedRight, UnseenBehind, WalkMissesNothing,
       Walks, HasDates, HasNext, TotalPages, Matching, InRange, WithStatus, StatusMatches, Place
  <2> QED
    BY <2>1, <2>2, <2>3, <2>4, <2>5, <2>6 DEF Next
<1> QED
  BY <1>1, <1>2, PTL DEF Spec

\* Who follows the links from the first page on has seen every row when there
\* is no next link, if what matches goes on matching, however many rows come
\* meanwhile (PaginationState, has_next, the queries' LIMIT and OFFSET).
THEOREM WalksSeeAll == Spec => []WalkMissesNothing
<1>1. PagingInvariant => WalkMissesNothing
  BY DEF PagingInvariant
<1> QED
  BY <1>1, PagingInvariantHolds, PTL

\* A cut of the newest rows of a list is a run of places in the list.
LEMMA CutIsARun ==
  ASSUME NEW all \in SUBSET Nat, IsFiniteSet(all), NEW N \in SUBSET all,
         \A i \in N : Place(N, i) = Place(all, i),
         \A i \in all : \A j \in N : i >= j => i \in N,
         NEW limit \in Nat, NEW offset \in Nat,
         NEW found, found = Limited(N, limit, offset), found # {}
  PROVE  LET n == Cardinality(found)
         IN  /\ n \in Nat /\ n >= 1 /\ offset + n <= Cardinality(all)
             /\ found = {i \in all : Place(all, i) \in (offset + 1)..(offset + n)}
<1> DEFINE n == Cardinality(found)
           m == Cardinality(N)
<1>1. N \in SUBSET Nat /\ IsFiniteSet(N) /\ m \in Nat /\ m <= Cardinality(all)
  BY FS_Subset, FS_CardinalityType
<1>2. /\ IsFiniteSet(found)
      /\ n = IF m <= offset THEN 0 ELSE IF m - offset <= limit THEN m - offset ELSE limit
  BY <1>1, LimitedIs
<1>3. n \in Nat /\ n # 0
  BY <1>2, FS_CardinalityType, FS_EmptySet
<1>4. Cardinality(all) \in Nat
  BY FS_CardinalityType
<1>5. \A i \in N : Place(N, i) \in Nat /\ Place(N, i) <= m
  BY <1>1, PlaceIs
<1>6. \A i \in all : Place(all, i) \in Nat
  BY PlaceIs
<1>7. ASSUME NEW i \in all, Place(all, i) <= m PROVE i \in N
  <2>1. m \in 1..m
    BY <1>1, <1>2, <1>3
  <2>2. PICK j \in N : Place(N, j) = m
    BY <1>1, <2>1, EveryPlace
  <2>3. Place(all, i) <= Place(all, j)
    BY <1>7, <2>2
  <2>4. i >= j
    BY <2>2, <2>3, PlaceOrders
  <2> QED
    BY <2>2, <2>4
<1> HIDE DEF m, n
<1>8. ASSUME NEW i \in all
      PROVE  i \in found <=> Place(all, i) \in (offset + 1)..(offset + n)
  <2>1. CASE i \in N
    <3>1. i \in found <=> offset < Place(all, i) /\ Place(all, i) <= offset + limit
      BY <2>1 DEF Limited
    <3>2. Place(all, i) <= m /\ Place(all, i) \in Nat
      BY <1>5, <2>1
    <3> QED
      BY <1>1, <1>2, <1>3, <3>1, <3>2
  <2>2. CASE i \notin N
    <3>1. i \notin found
      BY <2>2 DEF Limited
    <3>2. ~(Place(all, i) <= m) /\ Place(all, i) \in Nat
      BY <1>6, <1>7, <2>2
    <3> QED
      BY <1>1, <1>2, <1>3, <3>1, <3>2
  <2> QED
    BY <2>1, <2>2
<1>9. found \subseteq all
  BY DEF Limited
<1>10. n \in Nat /\ n >= 1 /\ offset + n <= Cardinality(all)
  BY <1>1, <1>2, <1>3, <1>4
<1> QED
  BY <1>8, <1>9, <1>10 DEF n

LEMMA PageIsRight ==
  ASSUME PagingInvariant, Show, ~view.stale
  PROVE  LET all == Matching(view.filter)
         IN  /\ view'.at.total = Cardinality(all)
             /\ view'.shown # {} =>
                  view'.shown
                    = {i \in all : Place(all, i) \in StartIndex(view'.at)..EndIndex(view'.at)}
             /\ ~HasDates(view.filter) /\ (view.page - 1) * PerPage < Cardinality(all) =>
                  Cardinality(view'.shown)
                    = Min({PerPage, Cardinality(all) - (view.page - 1) * PerPage})
<1> DEFINE all == Matching(view.filter)
           found == ListByHook(view.filter, PerPage, Offset(view.page))
           off == Offset(view.page)
           newest == Recent(view.filter, PerPage + off)
           n == Cardinality(found)
<1>1. /\ Typed /\ view.pc = "counted" /\ view.page \in Nat \ {0} /\ view.total \in Nat
      /\ view'.shown = found /\ view'.at.total = view.total /\ view'.at.items = n
      /\ view'.at.page = IF view.page <= TotalPages(view.total) THEN view.page
                         ELSE TotalPages(view.total)
  BY Shown DEF PagingInvariant, Typed, Views
<1>2. view.total = Cardinality(all)
  BY <1>1 DEF PagingInvariant, CountedRight
<1>3. /\ off \in Nat /\ off = (view.page - 1) * PerPage /\ PerPage \in Nat /\ PerPage # 0
  BY <1>1, OffsetIs
<1>4. all \in SUBSET Nat /\ IsFiniteSet(all) /\ Cardinality(all) \in Nat
  BY <1>1, RowsAre, FS_CardinalityType
<1>5. /\ ~HasDates(view.filter) => found = Limited(all, PerPage, off)
      /\ HasDates(view.filter) => /\ found = Limited(newest, PerPage, off)
                                  /\ newest \subseteq all
                                  /\ \A i \in newest : Place(newest, i) = Place(all, i)
                                  /\ \A i \in all : \A j \in newest : i >= j => i \in newest
  <2>1. ~HasDates(view.filter) => found = Limited(all, PerPage, off)
    BY <1>1, <1>3, ListIs
  <2>2. HasDates(view.filter) => found = Limited(newest, PerPage, off)
    BY <1>1, <1>3, ListIs
  <2>3. HasDates(view.filter) => newest \subseteq all
    BY <1>1, <1>3, ListIs
  <2>4. HasDates(view.filter) => \A i \in newest : Place(newest, i) = Place(all, i)
    BY <1>1, <1>3, ListIs
  <2>5. HasDates(view.filter) => \A i \in all : \A j \in newest : i >= j => i \in newest
    BY <1>1, <1>3, ListIs
  <2> QED
    BY <2>1, <2>2, <2>3, <2>4, <2>5
<1> HIDE DEF all, found, off, newest
<1>6. ASSUME found # {}
      PROVE  /\ n \in Nat /\ n >= 1 /\ off + n <= Cardinality(all)
             /\ found = {i \in all : Place(all, i) \in (off + 1)..(off + n)}
  <2>1. CASE HasDates(view.filter)
    BY <1>3, <1>4, <1>5, <1>6, <2>1, CutIsARun
  <2>2. CASE ~HasDates(view.filter)
    BY <1>3, <1>4, <1>5, <1>6, <2>2, CutIsARun
  <2> QED
    BY <2>1, <2>2
<1> HIDE DEF n
<1>7. ASSUME found # {}
      PROVE  StartIndex(view'.at) = off + 1 /\ EndIndex(view'.at) = off + n
  <2>1. off < view.total /\ view.total # 0 /\ n # 0 /\ off + n <= view.total /\ n \in Nat
    BY <1>2, <1>3, <1>4, <1>6, <1>7
  <2>2. view.page <= TotalPages(view.total)
    BY <1>1, <1>3, <2>1, PagesHoldAll
  <2>3. view'.at.page = view.page
    BY <1>1, <2>2
  <2>4. StartIndex(view'.at) = off + 1
    BY <1>1, <1>3, <2>1, <2>3 DEF StartIndex
  <2> DEFINE e == StartIndex(view'.at) + n - 1
  <2>5. e = off + n /\ e \in Int
    BY <1>3, <2>1, <2>4
  <2>6. EndIndex(view'.at) = Min({e, view.total})
    BY <1>1, <2>1 DEF EndIndex
  <2> HIDE DEF e
  <2>7. Min({e, view.total}) = IF e <= view.total THEN e ELSE view.total
    BY <1>1, <2>5, MinMaxOfTwo
  <2> QED
    BY <2>1, <2>4, <2>5, <2>6, <2>7
<1>8. ASSUME ~HasDates(view.filter), off < Cardinality(all)
      PROVE  n = Min({PerPage, Cardinality(all) - off})
  <2>1. n = IF Cardinality(all) - off <= PerPage THEN Cardinality(all) - off ELSE PerPage
    BY <1>3, <1>4, <1>5, <1>8, LimitedIs DEF n
  <2> DEFINE rest == Cardinality(all) - off
  <2>2. rest \in Int /\ PerPage \in Int /\ n = IF rest <= PerPage THEN rest ELSE PerPage
    BY <1>3, <1>4, <2>1
  <2> HIDE DEF rest
  <2>3. Min({PerPage, rest}) = IF PerPage <= rest THEN PerPage ELSE rest
    BY <2>2, MinMaxOfTwo
  <2>4. n = Min({PerPage, rest})
    BY <2>2, <2>3
  <2> QED
    BY <2>4 DEF rest
<1>9. view'.shown # {} =>
        view'.shown = {i \in all : Place(all, i) \in StartIndex(view'.at)..EndIndex(view'.at)}
  BY <1>1, <1>6, <1>7
<1>10. ~HasDates(view.filter) /\ (view.page - 1) * PerPage < Cardinality(all) =>
         Cardinality(view'.shown) = Min({PerPage, Cardinality(all) - (view.page - 1) * PerPage})
  BY <1>1, <1>3, <1>8 DEF n
<1>11. view'.at.total = Cardinality(all)
  BY <1>1, <1>2
<1> QED
  BY <1>9, <1>10, <1>11 DEF all

\* What a page's label says of it is so, "FROM-TO OF TOTAL", unless the rows
\* changed between the count and the query (PaginationState::start_index,
\* end_index, count_by_hook_filtered, list_by_hook_filtered).
THEOREM LabelsAreRight == Spec => PageIsAsLabelled
<1> DEFINE Right ==
      view.pc = "counted" /\ view'.pc = "shown" /\ ~view.stale =>
        LET all == Matching(view.filter)
        IN /\ view'.at.total = Cardinality(all)
           /\ view'.shown # {} =>
                view'.shown = {i \in all : Place(all, i) \in StartIndex(view'.at)..EndIndex(view'.at)}
           /\ ~HasDates(view.filter) /\ (view.page - 1) * PerPage < Cardinality(all) =>
                Cardinality(view'.shown)
                  = Min({PerPage, Cardinality(all) - (view.page - 1) * PerPage})
<1>1. PagingInvariant /\ [Next]_vars => [Right]_vars
  <2> SUFFICES ASSUME PagingInvariant, Next, view.pc = "counted", view'.pc = "shown", ~view.stale
               PROVE  Right
    BY DEF vars
  <2>1. view \in Views
    BY DEF PagingInvariant, Typed
  <2>2. CASE Show
    <3> HIDE DEF Right
    <3> QED
      BY <2>2, PageIsRight DEF Right
  <2>3. CASE \E f \in Filters, page \in 0..MaxPage : Visit(f, page)
    BY <2>3 DEF Visit
  <2>4. CASE Count \/ Follow
    BY <2>4 DEF Count, Follow
  <2>5. CASE \/ \E s \in Statuses, d \in Days : Insert(s, d)
             \/ \E s \in Statuses, i \in DOMAIN rows : Change(i, s)
    <3>1. view' = [view EXCEPT !.stale = @ \/ view.pc = "counted"]
      BY <2>5 DEF Insert, Change, Restale
    <3>2. view'.pc = view.pc
      BY <2>1, <3>1 DEF Views
    <3> QED
      BY <3>2
  <2> QED
    BY <2>2, <2>3, <2>4, <2>5 DEF Next
<1>2. Spec => [][Right]_vars
  BY <1>1, PagingInvariantHolds, PTL DEF Spec
<1> QED
  BY <1>2, PTL DEF PageIsAsLabelled

=============================================================================
