-------------------------- MODULE LogStreamProofs --------------------------
(***************************************************************************)
(* Theorems about LogStream: for any output, secrets and patterns, however *)
(* the output is cut into reads, and whenever readers come.                *)
(***************************************************************************)
EXTENDS LogStream, SequenceTheorems, FiniteSetTheorems, WellFoundedInduction, TLAPS

(***************************************************************************)
(* Numbers, and functions that are defined by recursion on numbers.        *)
(***************************************************************************)
LEMMA LeastNumber ==
  ASSUME NEW S \in SUBSET Nat, S # {}
  PROVE  \E n \in S : \A m \in S : n <= m
<1> DEFINE R == OpToRel(<, Nat)
<1>1. IsWellFoundedOn(R, Nat)
  BY NatLessThanWellFounded
<1> HIDE DEF R
<1>2. PICK n \in S : \A m \in S : ~(<<m, n>> \in R)
  BY <1>1, WFMin
<1>3. \A m \in S : ~(m < n)
  BY <1>2 DEF OpToRel, R
<1> QED
  BY <1>3

LEMMA MinIsLeast ==
  ASSUME NEW S \in SUBSET Nat, S # {}
  PROVE  Min(S) \in S /\ \A m \in S : Min(S) <= m
BY LeastNumber DEF Min

LEMMA CountingUp ==
  ASSUME NEW N \in Nat, NEW S, 0 \in S, \A k \in 0..(N - 1) : k \in S => k + 1 \in S
  PROVE  \A k \in 0..N : k \in S
<1> DEFINE T == {k \in 0..N : k \notin S}
<1>1. ASSUME T # {} PROVE FALSE
  <2>1. T \in SUBSET Nat
    OBVIOUS
  <2>2. PICK k \in T : \A j \in T : k <= j
    <3> HIDE DEF T
    <3> QED
      BY <1>1, <2>1, LeastNumber
  <2>3. k # 0 /\ k \in 0..N /\ k \notin S
    OBVIOUS
  <2>4. k - 1 \in 0..(N - 1) /\ k - 1 \in 0..N /\ ~(k <= k - 1) /\ k - 1 + 1 = k
    BY <2>3
  <2>5. k - 1 \in S
    BY <2>2, <2>4
  <2>6. k - 1 + 1 \in S
    BY <2>4, <2>5
  <2> QED
    BY <2>3, <2>4, <2>6
<1> QED
  BY <1>1

LEMMA MaxIsGreatest ==
  ASSUME NEW n \in Nat, NEW S \in SUBSET (0..n), S # {}
  PROVE  Max(S) \in S /\ \A m \in S : m <= Max(S)
<1> DEFINE T == {k \in Nat : k <= n /\ n - k \in S}
<1>1. T \in SUBSET Nat /\ T # {}
  <2>1. PICK m \in S : TRUE
    OBVIOUS
  <2>2. n - m \in T
    BY <2>1
  <2> QED
    BY <2>2
<1>2. PICK k \in T : \A j \in T : k <= j
  <2> HIDE DEF T
  <2> QED
    BY <1>1, LeastNumber
<1>3. \A m \in S : m <= n - k
  <2> TAKE m \in S
  <2>1. m \in Nat /\ m <= n /\ n - (n - m) = m /\ n - m \in Nat
    OBVIOUS
  <2>2. n - m \in T
    BY <2>1
  <2>3. k \in Nat /\ k <= n - m
    BY <1>2, <2>2
  <2> QED
    BY <2>1, <2>3
<1>4. n - k \in S /\ \A m \in S : m <= n - k
  BY <1>2, <1>3
<1>5. \E x \in S : \A m \in S : x >= m
  <2>1. \A m \in S : n - k >= m
    BY <1>4
  <2> QED
    BY <1>4, <2>1
<1>6. Max(S) \in S /\ \A m \in S : Max(S) >= m
  BY <1>5 DEF Max
<1> QED
  BY <1>6

\* H gives the value at k from the values below k; f has these values.
LooksBack(H, D, V) ==
  \A k \in D : \A g, h \in [D -> V] :
    (\A j \in D : j < k => g[j] = h[j]) => H[k][g] = H[k][h]

Solves(f, H, D) == \A k \in D : f[k] = H[k][f]

\* What is defined at every number from its values at smaller ones exists.
LEMMA RecursionExists ==
  ASSUME NEW N \in Nat, NEW D \in SUBSET (0..N), NEW V, V # {},
         NEW H \in [D -> [[D -> V] -> V]], LooksBack(H, D, V)
  PROVE  \E f \in [D -> V] : Solves(f, H, D)
<1> USE DEF LooksBack, Solves
<1> DEFINE Good(n) == \E g \in [D -> V] : \A k \in D : k < n => g[k] = H[k][g]
           S == {n \in Nat : ~Good(n)}
<1>1. Good(N + 1) => \E f \in [D -> V] : Solves(f, H, D)
  OBVIOUS
<1>2. Good(0)
  <2>1. PICK v \in V : TRUE
    OBVIOUS
  <2>2. [k \in D |-> v] \in [D -> V]
    BY <2>1
  <2>3. \A k \in D : ~(k < 0)
    OBVIOUS
  <2> QED
    BY <2>2, <2>3
<1>3. ASSUME NEW n \in Nat, Good(n) PROVE Good(n + 1)
  <2>1. PICK g \in [D -> V] : \A k \in D : k < n => g[k] = H[k][g]
    BY <1>3
  <2>2. CASE n \notin D
    <3>1. ASSUME NEW k \in D, k < n + 1 PROVE k < n
      <4>1. k \in Nat /\ k # n
        BY <2>2
      <4> QED
        BY <3>1, <4>1
    <3>2. \A k \in D : k < n + 1 => g[k] = H[k][g]
      BY <2>1, <3>1
    <3> QED
      BY <3>2
  <2>3. CASE n \in D
    <3> DEFINE h == [g EXCEPT ![n] = H[n][g]]
    <3>1. h \in [D -> V] /\ h[n] = H[n][g] /\ \A k \in D : k # n => h[k] = g[k]
      BY <2>3
    <3> HIDE DEF h
    <3>2. ASSUME NEW k \in D, k < n + 1 PROVE h[k] = H[k][h]
      <4>1. H[k][h] = H[k][g]
        BY <3>1, <3>2
      <4> QED
        BY <2>1, <3>1, <3>2, <4>1
    <3> QED
      BY <3>1, <3>2
  <2> QED
    BY <2>2, <2>3
<1>4. S = {}
  <2>1. ASSUME S # {} PROVE FALSE
    <3>1. PICK n \in S : \A m \in S : n <= m
      BY <2>1, LeastNumber
    <3>2. n # 0
      BY <1>2
    <3> HIDE DEF Good
    <3>3. n - 1 \in Nat /\ n - 1 + 1 = n /\ ~(n <= n - 1)
      BY <3>2
    <3>4. Good(n - 1)
      BY <3>1, <3>3
    <3>5. Good(n)
      BY <1>3, <3>3, <3>4
    <3> QED
      BY <3>1, <3>5
  <2> QED
    BY <2>1
<1> HIDE DEF Good
<1> QED
  BY <1>1, <1>4

----
(***************************************************************************)
(* Matches and replacement.                                                *)
(***************************************************************************)
\* Bytes of a log, and of what is made of it.
Raw == Bytes \cup {Marker[1], Note[1]}
Masked == Raw \cup {MASK, Gone}

\* A match is an occurrence that no earlier match overlaps.
LEMMA MatchesAre ==
  ASSUME NEW T, NEW text \in Seq(T), NEW word \in Seq(T)
  PROVE  /\ Matches(text, word) \subseteq DOMAIN text
         /\ \A i \in DOMAIN text :
              i \in Matches(text, word)
              <=> /\ OccursAt(word, text, i)
                  /\ \A j \in 1..(i - 1) :
                       i < j + Len(word) => j \notin Matches(text, word)
<1> DEFINE D == DOMAIN text
           Free(i, g) == \A j \in 1..(i - 1) : i < j + Len(word) => ~g[j]
           H == [i \in D |-> [g \in [D -> BOOLEAN] |-> OccursAt(word, text, i) /\ Free(i, g)]]
           Is(f) == f = [i \in D |-> OccursAt(word, text, i) /\ Free(i, f)]
           matched == CHOOSE f : Is(f)
<1>1. Len(text) \in Nat /\ D = 1..Len(text) /\ D \in SUBSET (0..Len(text))
  BY LenProperties
<1>2. H \in [D -> [[D -> BOOLEAN] -> BOOLEAN]]
  OBVIOUS
<1>3. ASSUME NEW k \in D, NEW g \in [D -> BOOLEAN], NEW h \in [D -> BOOLEAN],
             \A j \in D : j < k => g[j] = h[j]
      PROVE  H[k][g] = H[k][h]
  <2>1. \A j \in 1..(k - 1) : j \in D /\ j < k
    BY <1>1
  <2>2. \A j \in 1..(k - 1) : g[j] = h[j]
    BY <1>3, <2>1
  <2>3. Free(k, g) <=> Free(k, h)
    BY <2>2
  <2> QED
    BY <2>3
<1> HIDE DEF H
<1>4. PICK f \in [D -> BOOLEAN] : \A k \in D : f[k] = H[k][f]
  <2> DEFINE V == BOOLEAN
             N == Len(text)
  <2>1. V # {} /\ N \in Nat /\ D \in SUBSET (0..N) /\ H \in [D -> [[D -> V] -> V]]
    BY <1>1, <1>2
  <2>2. LooksBack(H, D, V)
    BY <1>3 DEF LooksBack
  <2> HIDE DEF D, V, N
  <2>3. \E f \in [D -> V] : Solves(f, H, D)
    BY <2>1, <2>2, RecursionExists
  <2> QED
    BY <2>3 DEF V, Solves
<1>5. Is(f)
  <2>1. \A k \in D : f[k] = (OccursAt(word, text, k) /\ Free(k, f))
    BY <1>4 DEF H
  <2> HIDE DEF Free
  <2> QED
    BY <1>4, <2>1
<1>6. Is(matched)
  <2> HIDE DEF Is
  <2> QED
    BY <1>5
<1>7. Matches(text, word) = {i \in D : matched[i]}
  BY DEF Matches
<1> HIDE DEF matched
<1>8. \A i \in D : matched[i] <=> OccursAt(word, text, i) /\ Free(i, matched)
  <2> HIDE DEF Free
  <2> QED
    BY <1>6
<1>9. \A i \in D : i \in Matches(text, word) <=> matched[i]
  BY <1>7
<1>10. ASSUME NEW i \in D
       PROVE  Free(i, matched)
              <=> \A j \in 1..(i - 1) : i < j + Len(word) => j \notin Matches(text, word)
  <2>1. \A j \in 1..(i - 1) : j \in D
    BY <1>1
  <2>2. \A j \in 1..(i - 1) : j \in Matches(text, word) <=> matched[j]
    BY <1>9, <2>1
  <2> HIDE DEF D
  <2> QED
    BY <2>2
<1> QED
  BY <1>7, <1>8, <1>9, <1>10

LEMMA WordsAre ==
  ASSUME NEW word \in Words
  PROVE  /\ word \in Seq(Bytes) /\ word \in Seq(Masked) /\ Len(word) \in Nat /\ Len(word) >= 1
         /\ DOMAIN word = 1..Len(word)
         /\ \A k \in DOMAIN word : word[k] \in Bytes /\ word[k] \notin Added
<1>1. word \in Seq(Bytes) /\ word # <<>>
  BY DEF Words
<1>2. Len(word) \in Nat /\ Len(word) # 0 /\ DOMAIN word = 1..Len(word)
  BY <1>1, LenProperties, EmptySeq
<1>3. \A k \in DOMAIN word : word[k] \in Bytes
  BY <1>1, ElementOfSeq, <1>2
<1>4. word \in Seq(Masked)
  BY <1>1, SeqMonotonic DEF Masked, Raw
<1> QED
  BY <1>1, <1>2, <1>3, <1>4, LogConstants

LEMMA ReplaceIs ==
  ASSUME NEW text \in Seq(Masked), NEW word \in Words
  PROVE  /\ Replace(text, word) \in Seq(Masked)
         /\ Len(Replace(text, word)) = Len(text)
         /\ DOMAIN Replace(text, word) = 1..Len(text)
         /\ \A i \in 1..Len(text) :
              Replace(text, word)[i] =
                IF i \in Matches(text, word) THEN MASK
                ELSE IF \E j \in Matches(text, word) : j < i /\ i < j + Len(word)
                     THEN Gone ELSE text[i]
<1> DEFINE V(i) == IF i \in Matches(text, word) THEN MASK
                   ELSE IF \E j \in Matches(text, word) : j < i /\ i < j + Len(word)
                        THEN Gone ELSE text[i]
           n == Len(text)
<1>1. n \in Nat /\ DOMAIN text = 1..n /\ \A i \in 1..n : text[i] \in Masked
  BY LenProperties, ElementOfSeq
<1>2. Replace(text, word) = [i \in 1..n |-> V(i)]
  BY <1>1 DEF Replace
<1>3. \A i \in 1..n : V(i) \in Masked
  BY <1>1 DEF Masked
<1> HIDE DEF V
<1>4. Replace(text, word) \in [1..n -> Masked]
  BY <1>2, <1>3
<1>5. Replace(text, word) \in Seq(Masked) /\ Len(Replace(text, word)) = n
  BY <1>1, <1>4
<1>6. \A i \in 1..n : Replace(text, word)[i] = V(i)
  BY <1>2
<1> QED
  BY <1>2, <1>5, <1>6 DEF V

\* Replacing makes no new occurrence of any word, and leaves none of its own.
LEMMA NoNewOccurrence ==
  ASSUME NEW text \in Seq(Masked), NEW word \in Words, NEW other \in Words,
         NEW i \in 1..Len(text), OccursAt(other, Replace(text, word), i)
  PROVE  OccursAt(other, text, i)
<1>1. i + Len(other) - 1 <= Len(text)
  BY ReplaceIs DEF OccursAt
<1>2. ASSUME NEW k \in DOMAIN other PROVE text[i + k - 1] = other[k]
  <2>1. Replace(text, word)[i + k - 1] = other[k]
    BY DEF OccursAt
  <2>2. i + k - 1 \in 1..Len(text)
    BY <1>1, WordsAre, LenProperties
  <2>3. other[k] # MASK /\ other[k] # Gone
    BY WordsAre DEF Added
  <2> QED
    BY <2>1, <2>2, <2>3, ReplaceIs
<1> QED
  BY <1>1, <1>2 DEF OccursAt

LEMMA NoneLeft ==
  ASSUME NEW text \in Seq(Masked), NEW word \in Words, NEW i \in 1..Len(text)
  PROVE  ~OccursAt(word, Replace(text, word), i)
<1> SUFFICES ASSUME OccursAt(word, Replace(text, word), i) PROVE FALSE
  OBVIOUS
<1>1. OccursAt(word, text, i) /\ word \in Seq(Masked) /\ 1 \in DOMAIN word
  BY NoNewOccurrence, WordsAre
<1>2. Replace(text, word)[i] = word[1] /\ word[1] # MASK /\ word[1] # Gone
  <2>1. Replace(text, word)[i + 1 - 1] = word[1]
    BY <1>1 DEF OccursAt
  <2> QED
    BY <1>1, <2>1, WordsAre DEF Added
<1>3. i \notin Matches(text, word)
  BY <1>2, ReplaceIs
<1>4. i \in DOMAIN text
  BY LenProperties
<1>5. \E j \in 1..(i - 1) : i < j + Len(word) /\ j \in Matches(text, word)
  BY <1>1, <1>3, <1>4, MatchesAre
<1>6. \E j \in Matches(text, word) : j < i /\ i < j + Len(word)
  BY <1>5
<1> QED
  BY <1>2, <1>3, <1>6, ReplaceIs

\* No occurrence of word in x \o y begins in x and ends in y.
NoneAcross(x, y, word) ==
  \A i \in 1..Len(x) : OccursAt(word, x \o y, i) => i + Len(word) - 1 <= Len(x)

LEMMA OccursInConcat ==
  ASSUME NEW x \in Seq(Masked), NEW y \in Seq(Masked), NEW word \in Words,
         NoneAcross(x, y, word)
  PROVE  /\ \A i \in 1..Len(x) : OccursAt(word, x \o y, i) <=> OccursAt(word, x, i)
         /\ \A i \in 1..Len(y) : OccursAt(word, x \o y, Len(x) + i) <=> OccursAt(word, y, i)
<1> DEFINE n == Len(x)
           m == Len(y)
           l == Len(word)
           t == x \o y
<1>1. n \in Nat /\ m \in Nat /\ Len(t) = n + m
  BY LenProperties, ConcatProperties
<1>2. /\ \A i \in 1..n : t[i] = x[i]
      /\ \A i \in 1..m : t[n + i] = y[i]
  <2>1. \A i \in 1..(n + m) : t[i] = IF i <= n THEN x[i] ELSE y[i - n]
    BY ConcatProperties
  <2> HIDE DEF t
  <2>2. ASSUME NEW i \in 1..m PROVE t[n + i] = y[i]
    <3>1. n + i \in 1..(n + m) /\ ~(n + i <= n) /\ n + i - n = i
      BY <1>1
    <3> QED
      BY <2>1, <3>1
  <2>3. \A i \in 1..n : i \in 1..(n + m) /\ i <= n
    BY <1>1
  <2> QED
    BY <2>1, <2>2, <2>3
<1>3. l \in Nat /\ l >= 1 /\ DOMAIN word = 1..l
  BY WordsAre
<1>4. \A i \in 1..n : OccursAt(word, t, i) => i + l - 1 <= n
  BY DEF NoneAcross
<1> HIDE DEF n, m, l, t
<1>5. ASSUME NEW i \in 1..n PROVE OccursAt(word, t, i) <=> OccursAt(word, x, i)
  <2>1. ASSUME i + l - 1 <= n, NEW k \in 1..l PROVE t[i + k - 1] = x[i + k - 1]
    BY <1>1, <1>2, <1>3, <2>1
  <2>2. OccursAt(word, x, i) <=> i + l - 1 <= n /\ \A k \in 1..l : x[i + k - 1] = word[k]
    BY <1>3 DEF OccursAt, n, l
  <2>3. OccursAt(word, t, i)
        <=> i + l - 1 <= n + m /\ \A k \in 1..l : t[i + k - 1] = word[k]
    BY <1>1, <1>3 DEF OccursAt, l
  <2>4. i + l - 1 <= n => i + l - 1 <= n + m
    BY <1>1, <1>3
  <2> QED
    BY <1>4, <2>1, <2>2, <2>3, <2>4
<1>6. ASSUME NEW i \in 1..m PROVE OccursAt(word, t, n + i) <=> OccursAt(word, y, i)
  <2>1. ASSUME i + l - 1 <= m, NEW k \in 1..l PROVE t[n + i + k - 1] = y[i + k - 1]
    <3>1. i + k - 1 \in 1..m /\ n + (i + k - 1) = n + i + k - 1
      BY <1>1, <1>3, <2>1
    <3> QED
      BY <1>2, <3>1
  <2>2. OccursAt(word, y, i) <=> i + l - 1 <= m /\ \A k \in 1..l : y[i + k - 1] = word[k]
    BY <1>3 DEF OccursAt, m, l
  <2>3. OccursAt(word, t, n + i)
        <=> n + i + l - 1 <= n + m /\ \A k \in 1..l : t[n + i + k - 1] = word[k]
    BY <1>1, <1>3 DEF OccursAt, l
  <2>4. i + l - 1 <= m <=> n + i + l - 1 <= n + m
    BY <1>1, <1>3
  <2> QED
    BY <2>1, <2>2, <2>3, <2>4
<1> QED
  BY <1>5, <1>6 DEF n, m, l, t

LEMMA MatchesOfConcat ==
  ASSUME NEW x \in Seq(Masked), NEW y \in Seq(Masked), NEW word \in Words,
         NoneAcross(x, y, word)
  PROVE  /\ \A i \in 1..Len(x) : i \in Matches(x \o y, word) <=> i \in Matches(x, word)
         /\ \A i \in 1..Len(y) : Len(x) + i \in Matches(x \o y, word) <=> i \in Matches(y, word)
<1> DEFINE n == Len(x)
           m == Len(y)
           l == Len(word)
           M == Matches(x \o y, word)
           X == Matches(x, word)
           Y == Matches(y, word)
           Agree(i) == i \in M <=> IF i <= n THEN i \in X ELSE i - n \in Y
           S == {i \in 1..(n + m) : ~Agree(i)}
<1>1. /\ n \in Nat /\ m \in Nat /\ x \o y \in Seq(Masked) /\ word \in Seq(Masked)
      /\ DOMAIN x = 1..n /\ DOMAIN y = 1..m /\ DOMAIN (x \o y) = 1..(n + m)
      /\ l \in Nat /\ l >= 1
  BY LenProperties, ConcatProperties, WordsAre
<1>2. /\ \A i \in 1..(n + m) :
           i \in M <=> /\ OccursAt(word, x \o y, i)
                       /\ \A j \in 1..(i - 1) : i < j + l => j \notin M
      /\ \A i \in 1..n :
           i \in X <=> OccursAt(word, x, i) /\ \A j \in 1..(i - 1) : i < j + l => j \notin X
      /\ \A i \in 1..m :
           i \in Y <=> OccursAt(word, y, i) /\ \A j \in 1..(i - 1) : i < j + l => j \notin Y
  BY <1>1, MatchesAre
<1>3. /\ \A i \in 1..n : OccursAt(word, x \o y, i) <=> OccursAt(word, x, i)
      /\ \A i \in 1..m : OccursAt(word, x \o y, n + i) <=> OccursAt(word, y, i)
      /\ \A i \in 1..n : OccursAt(word, x \o y, i) => i + l - 1 <= n
  BY OccursInConcat DEF NoneAcross
<1> HIDE DEF n, m, l, M, X, Y
<1>4. ASSUME NEW i \in 1..(n + m), \A j \in 1..(i - 1) : Agree(j) PROVE Agree(i)
  <2>1. CASE i <= n
    <3>1. i \in 1..n /\ \A j \in 1..(i - 1) : j <= n
      BY <1>1, <2>1
    <3>2. \A j \in 1..(i - 1) : j \in M <=> j \in X
      BY <1>4, <3>1
    <3>3. i \in M <=> i \in X
      BY <1>2, <1>3, <3>1, <3>2
    <3> QED
      BY <2>1, <3>3
  <2>2. CASE ~(i <= n)
    <3> DEFINE h == i - n
    <3>1. h \in 1..m /\ i = n + h
      BY <1>1, <2>2
    <3>2. ASSUME NEW j \in 1..(i - 1), i < j + l, j \in M
          PROVE  j - n \in 1..(h - 1) /\ h < (j - n) + l /\ j - n \in Y
      <4>1. ~(j <= n)
        <5>1. ASSUME j <= n PROVE FALSE
          <6>1. j \in 1..n /\ j \in 1..(n + m)
            BY <1>1, <5>1
          <6>2. j + l - 1 <= n
            BY <1>2, <1>3, <3>2, <6>1
          <6> QED
            BY <1>1, <2>2, <3>2, <6>2
        <5> QED
          BY <5>1
      <4>2. j - n \in Y
        BY <1>4, <3>2, <4>1
      <4> QED
        BY <1>1, <3>1, <3>2, <4>1, <4>2
    <3>3. ASSUME NEW j \in 1..(h - 1), h < j + l, j \in Y
          PROVE  n + j \in 1..(i - 1) /\ i < n + j + l /\ n + j \in M
      <4>1. PICK g \in 1..(i - 1) : g = n + j /\ i < g + l /\ ~(g <= n) /\ g - n = j
        BY <1>1, <3>1, <3>3
      <4>2. Agree(g)
        BY <1>4
      <4> QED
        BY <3>3, <4>1, <4>2
    <3> HIDE DEF h
    <3>4. (\A j \in 1..(i - 1) : i < j + l => j \notin M)
          <=> (\A j \in 1..(h - 1) : h < j + l => j \notin Y)
      BY <3>2, <3>3
    <3>5. i \in M <=> h \in Y
      BY <1>2, <1>3, <3>1, <3>4
    <3> QED
      BY <2>2, <3>5 DEF h
  <2> QED
    BY <2>1, <2>2
<1>5. S = {}
  <2>1. ASSUME S # {} PROVE FALSE
    <3>1. S \in SUBSET Nat
      BY <1>1
    <3>2. PICK i \in S : \A j \in S : i <= j
      BY <2>1, <3>1, LeastNumber
    <3>3. \A j \in 1..(i - 1) : Agree(j)
      <4> TAKE j \in 1..(i - 1)
      <4>1. j \in 1..(n + m) /\ ~(i <= j)
        BY <1>1
      <4> QED
        BY <3>2, <4>1
    <3>4. i \in 1..(n + m) /\ ~Agree(i)
      OBVIOUS
    <3> HIDE DEF Agree
    <3> QED
      BY <1>4, <3>3, <3>4
  <2> QED
    BY <2>1
<1>6. \A i \in 1..(n + m) : Agree(i)
  BY <1>5
<1>7. \A i \in 1..n : i \in M <=> i \in X
  <2> TAKE i \in 1..n
  <2>1. i \in 1..(n + m) /\ i <= n
    BY <1>1
  <2> QED
    BY <1>6, <2>1
<1>8. \A i \in 1..m : n + i \in M <=> i \in Y
  <2> TAKE i \in 1..m
  <2>1. PICK g \in 1..(n + m) : g = n + i /\ ~(g <= n) /\ g - n = i
    BY <1>1
  <2>2. Agree(g)
    BY <1>6
  <2> QED
    BY <2>1, <2>2
<1> QED
  BY <1>7, <1>8 DEF n, m, M, X, Y

LEMMA ReplaceOfConcat ==
  ASSUME NEW x \in Seq(Masked), NEW y \in Seq(Masked), NEW word \in Words,
         NoneAcross(x, y, word)
  PROVE  Replace(x \o y, word) = Replace(x, word) \o Replace(y, word)
<1> DEFINE n == Len(x)
           m == Len(y)
           l == Len(word)
           M == Matches(x \o y, word)
           X == Matches(x, word)
           Y == Matches(y, word)
           R == Replace(x \o y, word)
           A == Replace(x, word)
           B == Replace(y, word)
<1>1. /\ n \in Nat /\ m \in Nat /\ x \o y \in Seq(Masked) /\ word \in Seq(Masked)
      /\ Len(x \o y) = n + m /\ DOMAIN x = 1..n /\ DOMAIN y = 1..m
      /\ DOMAIN (x \o y) = 1..(n + m) /\ l \in Nat /\ l >= 1
      /\ \A i \in 1..(n + m) : (x \o y)[i] = IF i <= n THEN x[i] ELSE y[i - n]
  BY LenProperties, ConcatProperties, WordsAre
<1>2. /\ M \subseteq 1..(n + m) /\ X \subseteq 1..n /\ Y \subseteq 1..m
      /\ \A i \in M : OccursAt(word, x \o y, i)
  BY <1>1, MatchesAre
<1>3. /\ \A i \in 1..n : i \in M <=> i \in X
      /\ \A i \in 1..m : n + i \in M <=> i \in Y
      /\ \A i \in 1..n : OccursAt(word, x \o y, i) => i + l - 1 <= n
  BY MatchesOfConcat DEF NoneAcross
<1>4. /\ R \in Seq(Masked) /\ Len(R) = n + m
      /\ \A i \in 1..(n + m) :
           R[i] = IF i \in M THEN MASK
                  ELSE IF \E j \in M : j < i /\ i < j + l THEN Gone ELSE (x \o y)[i]
  BY <1>1, ReplaceIs
<1>5. /\ A \in Seq(Masked) /\ Len(A) = n
      /\ \A i \in 1..n :
           A[i] = IF i \in X THEN MASK
                  ELSE IF \E j \in X : j < i /\ i < j + l THEN Gone ELSE x[i]
  BY ReplaceIs
<1>6. /\ B \in Seq(Masked) /\ Len(B) = m
      /\ \A i \in 1..m :
           B[i] = IF i \in Y THEN MASK
                  ELSE IF \E j \in Y : j < i /\ i < j + l THEN Gone ELSE y[i]
  BY ReplaceIs
<1> HIDE DEF n, m, l, M, X, Y, R, A, B
<1>7. /\ A \o B \in Seq(Masked) /\ Len(A \o B) = n + m
      /\ \A i \in 1..(n + m) : (A \o B)[i] = IF i <= n THEN A[i] ELSE B[i - n]
  BY <1>5, <1>6, ConcatProperties
<1>8. ASSUME NEW i \in 1..(n + m) PROVE R[i] = (A \o B)[i]
  <2>1. CASE i <= n
    <3>1. i \in 1..n /\ i \in Nat
      BY <1>1, <2>1
    <3>2. (\E j \in M : j < i /\ i < j + l) <=> (\E j \in X : j < i /\ i < j + l)
      <4>1. \A j \in M : j < i => j \in 1..n
        BY <1>1, <1>2, <3>1
      <4> QED
        BY <1>2, <1>3, <4>1
    <3>3. R[i] = A[i]
      BY <1>1, <1>3, <1>4, <1>5, <2>1, <3>1, <3>2
    <3> QED
      BY <1>7, <2>1, <3>3
  <2>2. CASE ~(i <= n)
    <3>1. PICK h \in 1..m : i = n + h /\ i - n = h
      <4>1. i - n \in 1..m /\ i = n + (i - n)
        BY <1>1, <2>2
      <4> QED
        BY <4>1
    <3>2. ASSUME NEW j \in M, j < i, i < j + l PROVE \E k \in Y : k < h /\ h < k + l
      <4>1. j \in 1..(n + m) /\ OccursAt(word, x \o y, j)
        BY <1>2
      <4>2. ~(j <= n)
        BY <1>1, <1>3, <2>2, <3>2, <4>1
      <4>3. j - n \in 1..m /\ n + (j - n) = j
        BY <1>1, <4>1, <4>2
      <4>4. j - n \in Y
        BY <1>3, <4>3
      <4>5. j - n < h /\ h < (j - n) + l
        BY <1>1, <3>1, <3>2, <4>1
      <4> QED
        BY <4>4, <4>5
    <3>3. ASSUME NEW k \in Y, k < h, h < k + l PROVE \E j \in M : j < i /\ i < j + l
      <4>1. k \in 1..m
        BY <1>2
      <4>2. n + k \in M /\ n + k < i /\ i < n + k + l
        BY <1>1, <1>3, <3>1, <3>3, <4>1
      <4> QED
        BY <4>2
    <3>4. (\E j \in M : j < i /\ i < j + l) <=> (\E k \in Y : k < h /\ h < k + l)
      BY <3>2, <3>3
    <3>5. i \in M <=> h \in Y
      BY <1>3, <3>1
    <3>6. (x \o y)[i] = y[h]
      BY <1>1, <2>2, <3>1
    <3>7. R[i] = B[h]
      BY <1>4, <1>6, <3>4, <3>5, <3>6
    <3> QED
      BY <1>7, <2>2, <3>1, <3>7
  <2> QED
    BY <2>1, <2>2
<1>9. R = A \o B
  BY <1>4, <1>7, <1>8, SeqEqual
<1> QED
  BY <1>9 DEF R, A, B

\* f[k] is text after the first k words are replaced.
MaskedBy(f, text, words) ==
  /\ f \in [0..Len(words) -> Seq(Masked)] /\ f[0] = text
  /\ \A k \in 1..Len(words) : f[k] = Replace(f[k - 1], words[k])

LEMMA MaskAllIs ==
  ASSUME NEW text \in Seq(Masked), NEW words \in Seq(Words)
  PROVE  \E f : MaskedBy(f, text, words) /\ MaskAll(text, words) = f[Len(words)]
<1> DEFINE N == Len(words)
           D == 0..N
           V == Seq(Masked)
           Step(k, g) == IF k = 0 THEN text ELSE Replace(g[k - 1], words[k])
           H == [k \in D |-> [g \in [D -> V] |-> Step(k, g)]]
           Is(f) == f = [k \in D |-> Step(k, f)]
           masked == CHOOSE f : Is(f)
<1>1. N \in Nat /\ \A k \in 1..N : words[k] \in Words
  BY LenProperties, ElementOfSeq
<1>2. \A k \in D : \A g \in [D -> V] : Step(k, g) \in V
  <2> TAKE k \in D
  <2> TAKE g \in [D -> V]
  <2>1. CASE k = 0
    BY <2>1
  <2>2. CASE k # 0
    <3>1. k \in 1..N /\ k - 1 \in D
      BY <1>1, <2>2
    <3>2. g[k - 1] \in Seq(Masked) /\ words[k] \in Words
      BY <1>1, <3>1
    <3> QED
      BY <2>2, <3>2, ReplaceIs
  <2> QED
    BY <2>1, <2>2
<1>3. H \in [D -> [[D -> V] -> V]]
  <2> HIDE DEF Step, V
  <2> QED
    BY <1>2
<1>4. LooksBack(H, D, V)
  <2>1. ASSUME NEW k \in D, NEW g \in [D -> V], NEW h \in [D -> V],
               \A j \in D : j < k => g[j] = h[j]
        PROVE  H[k][g] = H[k][h]
    <3>1. k # 0 => k - 1 \in D /\ k - 1 < k
      BY <1>1
    <3>2. k # 0 => g[k - 1] = h[k - 1]
      BY <2>1, <3>1
    <3> HIDE DEF D, V
    <3> QED
      BY <3>2
  <2> HIDE DEF H, D, V
  <2> QED
    BY <2>1 DEF LooksBack
<1>5. PICK f \in [D -> V] : Solves(f, H, D)
  <2>1. V # {} /\ D \in SUBSET (0..N)
    OBVIOUS
  <2> HIDE DEF H, D, V
  <2> QED
    BY <1>1, <1>3, <1>4, <2>1, RecursionExists
<1>6. Is(f)
  <2> HIDE DEF Step
  <2> QED
    BY <1>5 DEF Solves
<1>7. Is(masked)
  <2> HIDE DEF Is
  <2> QED
    BY <1>6
<1>8. MaskAll(text, words) = masked[N]
  BY DEF MaskAll
<1> HIDE DEF masked
<1>9. masked \in [D -> V]
  <2> DEFINE S == {k \in D : masked[k] \in V}
  <2>1. \A k \in D : masked[k] = Step(k, masked)
    <3> HIDE DEF Step
    <3> QED
      BY <1>7
  <2>2. 0 \in S
    BY <1>1, <2>1
  <2>3. ASSUME NEW k \in 0..(N - 1), k \in S PROVE k + 1 \in S
    <3>1. k + 1 \in D /\ k + 1 # 0 /\ k + 1 \in 1..N /\ k + 1 - 1 = k
      BY <1>1
    <3>2. masked[k + 1] = Replace(masked[k], words[k + 1])
      BY <2>1, <3>1
    <3> QED
      BY <1>1, <2>3, <3>1, <3>2, ReplaceIs
  <2> HIDE DEF S
  <2>4. \A k \in 0..N : k \in S
    BY <1>1, <2>2, <2>3, CountingUp
  <2>5. \A k \in D : masked[k] \in V
    BY <2>4 DEF S
  <2>6. DOMAIN masked = D /\ masked = [k \in D |-> masked[k]]
    <3> HIDE DEF Step, D
    <3> QED
      BY <1>7
  <2> HIDE DEF V, D
  <2> QED
    BY <2>5, <2>6
<1>10. MaskedBy(masked, text, words)
  <2>1. \A k \in D : masked[k] = Step(k, masked)
    <3> HIDE DEF Step
    <3> QED
      BY <1>7
  <2>2. \A k \in 1..N : k \in D /\ k # 0
    BY <1>1
  <2> QED
    BY <1>1, <1>9, <2>1, <2>2 DEF MaskedBy
<1> QED
  BY <1>8, <1>10

\* Each step of the masking keeps the length, makes no new occurrence, and
\* leaves none of the words before it.
LEMMA MaskingSteps ==
  ASSUME NEW text \in Seq(Masked), NEW words \in Seq(Words), NEW f, MaskedBy(f, text, words)
  PROVE  \A k \in 0..Len(words) :
           /\ f[k] \in Seq(Masked) /\ Len(f[k]) = Len(text)
           /\ \A word \in Words : \A i \in 1..Len(text) :
                OccursAt(word, f[k], i) => OccursAt(word, text, i)
           /\ \A j \in 1..k : \A i \in 1..Len(text) : ~OccursAt(words[j], f[k], i)
<1> DEFINE N == Len(words)
           Good(k) == /\ f[k] \in Seq(Masked) /\ Len(f[k]) = Len(text)
                      /\ \A word \in Words : \A i \in 1..Len(text) :
                           OccursAt(word, f[k], i) => OccursAt(word, text, i)
                      /\ \A j \in 1..k : \A i \in 1..Len(text) : ~OccursAt(words[j], f[k], i)
           S == {k \in 0..N : Good(k)}
<1>1. N \in Nat /\ \A k \in 1..N : words[k] \in Words
  BY LenProperties, ElementOfSeq
<1>2. f[0] = text /\ \A k \in 1..N : f[k] = Replace(f[k - 1], words[k])
  BY DEF MaskedBy
<1>3. Good(0)
  BY <1>2
<1>4. ASSUME NEW k \in 0..(N - 1), Good(k) PROVE Good(k + 1)
  <2>1. k + 1 \in 1..N /\ k + 1 - 1 = k /\ words[k + 1] \in Words
    BY <1>1
  <2>2. f[k + 1] = Replace(f[k], words[k + 1])
    BY <1>2, <2>1
  <2>3. f[k + 1] \in Seq(Masked) /\ Len(f[k + 1]) = Len(text)
    BY <1>4, <2>1, <2>2, ReplaceIs
  <2>4. \A word \in Words : \A i \in 1..Len(text) :
          OccursAt(word, f[k + 1], i) => OccursAt(word, f[k], i)
    BY <1>4, <2>1, <2>2, NoNewOccurrence
  <2>5. ASSUME NEW j \in 1..(k + 1), NEW i \in 1..Len(text)
        PROVE  ~OccursAt(words[j], f[k + 1], i)
    <3>1. CASE j = k + 1
      BY <1>4, <2>1, <2>2, <3>1, NoneLeft
    <3>2. CASE j # k + 1
      <4>1. j \in 1..k /\ j \in 1..N /\ words[j] \in Words
        BY <1>1, <3>2
      <4> QED
        BY <1>4, <2>4, <4>1
    <3> QED
      BY <3>1, <3>2
  <2> QED
    BY <1>4, <2>3, <2>4, <2>5
<1> HIDE DEF Good
<1>5. 0 \in S /\ \A k \in 0..(N - 1) : k \in S => k + 1 \in S
  <2>1. \A k \in 0..(N - 1) : k + 1 \in 0..N
    BY <1>1
  <2> QED
    BY <1>1, <1>3, <1>4, <2>1
<1>6. \A k \in 0..N : k \in S
  <2> HIDE DEF S
  <2> QED
    BY <1>1, <1>5, CountingUp
<1>7. \A k \in 0..N : Good(k)
  BY <1>6
<1> QED
  BY <1>7 DEF Good

LEMMA MaskAllHides ==
  ASSUME NEW text \in Seq(Masked), NEW words \in Seq(Words)
  PROVE  /\ MaskAll(text, words) \in Seq(Masked)
         /\ Len(MaskAll(text, words)) = Len(text)
         /\ \A word \in Words : \A i \in 1..Len(text) :
              OccursAt(word, MaskAll(text, words), i) => OccursAt(word, text, i)
         /\ \A j \in 1..Len(words) : \A i \in 1..Len(text) :
              ~OccursAt(words[j], MaskAll(text, words), i)
<1>1. PICK f : MaskedBy(f, text, words) /\ MaskAll(text, words) = f[Len(words)]
  BY MaskAllIs
<1>2. Len(words) \in 0..Len(words)
  BY LenProperties
<1> QED
  BY <1>1, <1>2, MaskingSteps

\* A text may be masked in parts where no word lies across.
LEMMA MaskAllOfConcat ==
  ASSUME NEW x \in Seq(Masked), NEW y \in Seq(Masked), NEW words \in Seq(Words),
         \A k \in 1..Len(words) : NoneAcross(x, y, words[k])
  PROVE  MaskAll(x \o y, words) = MaskAll(x, words) \o MaskAll(y, words)
<1> DEFINE N == Len(words)
           t == x \o y
<1>1. N \in Nat /\ \A k \in 1..N : words[k] \in Words
  BY LenProperties, ElementOfSeq
<1>2. /\ t \in Seq(Masked) /\ Len(t) = Len(x) + Len(y) /\ Len(x) \in Nat /\ Len(y) \in Nat
      /\ t = x \o y
  BY ConcatProperties, LenProperties
<1> HIDE DEF t
<1>3. PICK f : MaskedBy(f, x, words) /\ MaskAll(x, words) = f[N]
  BY MaskAllIs
<1>4. PICK g : MaskedBy(g, y, words) /\ MaskAll(y, words) = g[N]
  BY MaskAllIs
<1>5. PICK h : MaskedBy(h, t, words) /\ MaskAll(t, words) = h[N]
  BY <1>2, MaskAllIs
<1>6. /\ \A k \in 0..N : f[k] \in Seq(Masked) /\ Len(f[k]) = Len(x)
      /\ \A k \in 0..N : g[k] \in Seq(Masked)
      /\ \A k \in 0..N : \A word \in Words : \A i \in 1..Len(t) :
           OccursAt(word, h[k], i) => OccursAt(word, t, i)
  <2> HIDE DEF N
  <2>1. \A k \in 0..N : f[k] \in Seq(Masked) /\ Len(f[k]) = Len(x)
    BY <1>3, MaskingSteps DEF N
  <2>2. \A k \in 0..N : g[k] \in Seq(Masked)
    BY <1>4, MaskingSteps DEF N
  <2>3. \A k \in 0..N : \A word \in Words : \A i \in 1..Len(t) :
          OccursAt(word, h[k], i) => OccursAt(word, t, i)
    BY <1>2, <1>5, MaskingSteps DEF N
  <2> QED
    BY <2>1, <2>2, <2>3
<1>7. /\ f[0] = x /\ \A k \in 1..N : f[k] = Replace(f[k - 1], words[k])
      /\ g[0] = y /\ \A k \in 1..N : g[k] = Replace(g[k - 1], words[k])
      /\ h[0] = t /\ \A k \in 1..N : h[k] = Replace(h[k - 1], words[k])
  BY <1>3, <1>4, <1>5 DEF MaskedBy
<1> DEFINE S == {k \in 0..N : h[k] = f[k] \o g[k]}
<1>8. 0 \in S
  <2>1. 0 \in 0..N /\ h[0] = f[0] \o g[0]
    BY <1>1, <1>2, <1>7
  <2> QED
    BY <2>1
<1>9. ASSUME NEW k \in 0..(N - 1), k \in S PROVE k + 1 \in S
  <2>1. k \in 0..N /\ k + 1 \in 0..N /\ k + 1 \in 1..N /\ k + 1 - 1 = k /\ words[k + 1] \in Words
    BY <1>1
  <2>2. NoneAcross(f[k], g[k], words[k + 1])
    <3> SUFFICES ASSUME NEW i \in 1..Len(f[k]), OccursAt(words[k + 1], f[k] \o g[k], i)
                 PROVE  i + Len(words[k + 1]) - 1 <= Len(f[k])
      BY DEF NoneAcross
    <3>1. i \in 1..Len(x) /\ i \in 1..Len(t) /\ Len(f[k]) = Len(x)
      BY <1>2, <1>6, <2>1
    <3>2. OccursAt(words[k + 1], t, i)
      BY <1>6, <1>9, <2>1, <3>1
    <3> QED
      BY <1>2, <2>1, <3>1, <3>2 DEF NoneAcross
  <2>3. Replace(f[k] \o g[k], words[k + 1]) = Replace(f[k], words[k + 1]) \o Replace(g[k], words[k + 1])
    BY <1>6, <2>1, <2>2, ReplaceOfConcat
  <2>4. /\ h[k + 1] = Replace(h[k], words[k + 1])
        /\ f[k + 1] = Replace(f[k], words[k + 1])
        /\ g[k + 1] = Replace(g[k], words[k + 1])
    BY <1>7, <2>1
  <2>5. h[k + 1] = f[k + 1] \o g[k + 1]
    BY <1>9, <2>3, <2>4
  <2> QED
    BY <2>1, <2>5
<1>10. \A k \in 0..N : k \in S
  <2> HIDE DEF S
  <2> QED
    BY <1>1, <1>8, <1>9, CountingUp
<1>11. N \in 0..N
  BY <1>1
<1>12. h[N] = f[N] \o g[N]
  BY <1>10, <1>11
<1> HIDE DEF N
<1>13. MaskAll(t, words) = MaskAll(x, words) \o MaskAll(y, words)
  BY <1>3, <1>4, <1>5, <1>12
<1> QED
  BY <1>2, <1>13

----
(***************************************************************************)
(* What is shown.                                                          *)
(***************************************************************************)
LEMMA TokensAre ==
  /\ Raw \subseteq Masked /\ Seq(Raw) \subseteq Seq(Masked) /\ <<>> \in Seq(Raw)
  /\ Entity \notin Masked /\ Text = Seq(Masked \cup {Entity})
<1>1. Raw \subseteq Masked /\ <<>> \in Seq(Raw)
  BY DEF Masked
<1>2. \A s \in Seq(Raw) : s \in Seq(Masked)
  BY <1>1, SeqMonotonic
<1>3. Entity \notin Masked
  BY LogConstants DEF Masked, Raw, Added, Entity, MASK, Gone, Marker, Note
<1>4. Bytes \cup Added = Masked \cup {Entity}
  BY DEF Masked, Raw, Added
<1> QED
  BY <1>1, <1>2, <1>3, <1>4 DEF Text

LEMMA MaskingIs ==
  ASSUME NEW m \in Maskings
  PROVE  /\ m.secrets \in Seq(Words) /\ m.patterns \in Seq(Words)
         /\ ToSet(m.secrets) \subseteq Words
         /\ \A k \in 1..Len(m.secrets) : m.secrets[k] \in ToSet(m.secrets)
<1>1. m.secrets \in Seq(Words) /\ m.patterns \in Seq(Words)
  BY LogConstants
<1>2. DOMAIN m.secrets = 1..Len(m.secrets) /\ \A k \in 1..Len(m.secrets) : m.secrets[k] \in Words
  BY <1>1, LenProperties, ElementOfSeq
<1> QED
  BY <1>1, <1>2 DEF ToSet

LEMMA EscapeIs ==
  ASSUME NEW text \in Seq(Masked)
  PROVE  /\ HtmlEscape(text) \in Text /\ Len(HtmlEscape(text)) = Len(text)
         /\ \A i \in 1..Len(text) :
              HtmlEscape(text)[i] = IF text[i] = Markup THEN Entity ELSE text[i]
<1> DEFINE n == Len(text)
           E(i) == IF text[i] = Markup THEN Entity ELSE text[i]
<1>1. n \in Nat /\ DOMAIN text = 1..n /\ \A i \in 1..n : text[i] \in Masked
  BY LenProperties, ElementOfSeq
<1>2. HtmlEscape(text) = [i \in 1..n |-> E(i)]
  BY <1>1 DEF HtmlEscape
<1>3. \A i \in 1..n : E(i) \in Masked \cup {Entity}
  BY <1>1
<1> HIDE DEF E
<1>4. HtmlEscape(text) \in [1..n -> Masked \cup {Entity}]
  BY <1>2, <1>3
<1>5. HtmlEscape(text) \in Seq(Masked \cup {Entity}) /\ Len(HtmlEscape(text)) = n
  BY <1>1, <1>4
<1>6. \A i \in 1..n : HtmlEscape(text)[i] = E(i)
  BY <1>2
<1> QED
  BY <1>5, <1>6, TokensAre DEF E

LEMMA EscapeOfConcat ==
  ASSUME NEW x \in Seq(Masked), NEW y \in Seq(Masked)
  PROVE  HtmlEscape(x \o y) = HtmlEscape(x) \o HtmlEscape(y)
<1> DEFINE n == Len(x)
           m == Len(y)
           t == x \o y
           A == HtmlEscape(x)
           B == HtmlEscape(y)
           E(b) == IF b = Markup THEN Entity ELSE b
<1>1. /\ n \in Nat /\ m \in Nat /\ t \in Seq(Masked) /\ Len(t) = n + m
      /\ \A i \in 1..(n + m) : t[i] = IF i <= n THEN x[i] ELSE y[i - n]
  BY ConcatProperties, LenProperties
<1>2. /\ A \in Text /\ Len(A) = n /\ \A i \in 1..n : A[i] = E(x[i])
      /\ B \in Text /\ Len(B) = m /\ \A i \in 1..m : B[i] = E(y[i])
  BY EscapeIs
<1> HIDE DEF n, m, t
<1>3. /\ HtmlEscape(t) \in Text /\ Len(HtmlEscape(t)) = n + m
      /\ \A i \in 1..(n + m) : HtmlEscape(t)[i] = E(t[i])
  BY <1>1, EscapeIs
<1> HIDE DEF E, A, B
<1>4. /\ A \o B \in Text /\ Len(A \o B) = n + m
      /\ \A i \in 1..(n + m) : (A \o B)[i] = IF i <= n THEN A[i] ELSE B[i - n]
  <2>1. A \in Seq(Bytes \cup Added) /\ B \in Seq(Bytes \cup Added)
    BY <1>2 DEF Text
  <2>2. /\ A \o B \in Seq(Bytes \cup Added) /\ Len(A \o B) = Len(A) + Len(B)
        /\ \A i \in 1..(Len(A) + Len(B)) :
             (A \o B)[i] = IF i <= Len(A) THEN A[i] ELSE B[i - Len(A)]
    BY <2>1, ConcatProperties
  <2> QED
    BY <1>2, <2>2 DEF Text
<1>5. ASSUME NEW i \in 1..(n + m) PROVE HtmlEscape(t)[i] = (A \o B)[i]
  <2>1. CASE i <= n
    <3>1. i \in 1..n
      BY <1>1, <2>1
    <3> QED
      BY <1>1, <1>2, <1>3, <1>4, <2>1, <3>1
  <2>2. CASE ~(i <= n)
    <3>1. i - n \in 1..m
      BY <1>1, <2>2
    <3> QED
      BY <1>1, <1>2, <1>3, <1>4, <2>2, <3>1
  <2> QED
    BY <2>1, <2>2
<1>6. HtmlEscape(t) = A \o B
  BY <1>3, <1>4, <1>5, SeqEqual, TokensAre
<1> QED
  BY <1>6 DEF t, A, B

\* A text that ends with no beginning of a secret.
Clean(text) ==
  \A s \in ToSet(masking.secrets) : \A l \in 1..(Len(s) - 1) :
    ~(l <= Len(text) /\ \A k \in 1..l : text[Len(text) - l + k] = s[k])

LEMMA CleanCuts ==
  ASSUME NEW x \in Seq(Masked), NEW y \in Seq(Masked), Clean(x),
         NEW s \in ToSet(masking.secrets), s \in Words
  PROVE  NoneAcross(x, y, s)
<1> SUFFICES ASSUME NEW i \in 1..Len(x), OccursAt(s, x \o y, i), ~(i + Len(s) - 1 <= Len(x))
             PROVE  FALSE
  BY DEF NoneAcross
<1> DEFINE l == Len(x) - i + 1
           n == Len(x)
<1>1. Len(s) \in Nat /\ DOMAIN s = 1..Len(s) /\ n \in Nat /\ Len(y) \in Nat
  BY WordsAre, LenProperties
<1>2. l \in 1..(Len(s) - 1) /\ l <= n /\ n - l = i - 1 /\ l \in 1..Len(s)
  BY <1>1
<1>3. \A k \in 1..Len(s) : (x \o y)[i + k - 1] = s[k]
  BY <1>1 DEF OccursAt
<1>4. \A j \in 1..(n + Len(y)) : (x \o y)[j] = IF j <= n THEN x[j] ELSE y[j - n]
  BY ConcatProperties
<1>5. ASSUME NEW k \in 1..l PROVE x[n - l + k] = s[k]
  <2>1. i + k - 1 \in 1..(n + Len(y)) /\ i + k - 1 <= n /\ n - l + k = i + k - 1 /\ k \in 1..Len(s)
    BY <1>1, <1>2
  <2> HIDE DEF n, l
  <2>2. (x \o y)[i + k - 1] = s[k]
    BY <1>3, <2>1
  <2>3. (x \o y)[i + k - 1] = x[i + k - 1]
    BY <1>4, <2>1
  <2> QED
    BY <2>1, <2>2, <2>3
<1> HIDE DEF l
<1> QED
  BY <1>2, <1>5 DEF Clean

LEMMA CleanGrows ==
  ASSUME NEW x \in Seq(Masked), NEW y \in Seq(Masked), Clean(x), Clean(y),
         ToSet(masking.secrets) \subseteq Words
  PROVE  Clean(x \o y)
<1> SUFFICES ASSUME NEW s \in ToSet(masking.secrets), NEW l \in 1..(Len(s) - 1),
                    l <= Len(x \o y),
                    \A k \in 1..l : (x \o y)[Len(x \o y) - l + k] = s[k]
             PROVE  FALSE
  BY DEF Clean
<1> DEFINE n == Len(x)
           m == Len(y)
           t == x \o y
<1>1. /\ n \in Nat /\ m \in Nat /\ Len(t) = n + m /\ Len(s) \in Nat
      /\ \A i \in 1..(n + m) : t[i] = IF i <= n THEN x[i] ELSE y[i - n]
  BY ConcatProperties, LenProperties, WordsAre
<1>2. l <= n + m /\ \A k \in 1..l : t[n + m - l + k] = s[k]
  BY <1>1
<1>3. /\ ~(l <= m /\ \A k \in 1..l : y[m - l + k] = s[k])
      /\ \A j \in 1..(Len(s) - 1) : ~(j <= n /\ \A k \in 1..j : x[n - j + k] = s[k])
  BY DEF Clean
<1> HIDE DEF n, m, t
<1>4. CASE l <= m
  <2>1. ASSUME NEW k \in 1..l PROVE y[m - l + k] = s[k]
    <3>1. PICK i \in 1..(n + m) : i = n + m - l + k /\ ~(i <= n) /\ i - n = m - l + k
      BY <1>1, <1>4
    <3> QED
      BY <1>1, <1>2, <3>1
  <2> QED
    BY <1>3, <1>4, <2>1
<1>5. CASE ~(l <= m)
  <2> DEFINE j == l - m
  <2>1. j \in 1..(Len(s) - 1) /\ j <= n /\ n - j = n + m - l /\ \A k \in 1..j : k \in 1..l
    BY <1>1, <1>2, <1>5
  <2>2. ASSUME NEW k \in 1..j PROVE x[n - j + k] = s[k]
    <3>1. PICK i \in 1..(n + m) : i = n + m - l + k /\ i <= n /\ i = n - j + k
      BY <1>1, <1>2, <1>5, <2>1
    <3>2. k \in 1..l
      BY <2>1
    <3>3. t[i] = s[k]
      BY <1>2, <3>1, <3>2
    <3>4. t[i] = x[i]
      BY <1>1, <3>1
    <3> QED
      BY <3>1, <3>3, <3>4
  <2> HIDE DEF j
  <2> QED
    BY <1>3, <2>1, <2>2
<1> QED
  BY <1>4, <1>5

LEMMA ShowIs ==
  ASSUME NEW text \in Seq(Raw), masking \in Maskings
  PROVE  /\ Show(text) \in Text /\ Len(Show(text)) = Len(text)
         /\ ShowWhole(text) \in Text /\ Len(ShowWhole(text)) = Len(text)
         /\ MaskSecrets(text) \in Seq(Masked) /\ Len(MaskSecrets(text)) = Len(text)
         /\ ~Deferred => ShowWhole(text) = Show(text)
<1>1. /\ text \in Seq(Masked) /\ masking.secrets \in Seq(Words) /\ masking.patterns \in Seq(Words)
  BY TokensAre, MaskingIs
<1> DEFINE m == MaskAll(text, masking.secrets)
<1>2. m \in Seq(Masked) /\ Len(m) = Len(text)
  BY <1>1, MaskAllHides
<1>3. Show(text) \in Text /\ Len(Show(text)) = Len(text)
  BY <1>2, EscapeIs DEF Show
<1>4. MaskSecrets(text) \in Seq(Masked) /\ Len(MaskSecrets(text)) = Len(text)
  BY <1>1, <1>2, MaskAllHides DEF MaskSecrets
<1>5. ShowWhole(text) \in Text /\ Len(ShowWhole(text)) = Len(text)
  BY <1>4, EscapeIs DEF ShowWhole
<1>6. ASSUME ~Deferred PROVE ShowWhole(text) = Show(text)
  <2>1. masking.patterns = <<>>
    BY <1>6 DEF Deferred
  <2> HIDE DEF m
  <2>2. PICK f : MaskedBy(f, m, <<>>) /\ MaskAll(m, <<>>) = f[Len(<<>>)]
    BY <1>1, <1>2, <2>1, MaskAllIs
  <2>3. MaskAll(m, <<>>) = m
    BY <2>2, EmptySeq DEF MaskedBy
  <2> QED
    BY <2>1, <2>3 DEF ShowWhole, Show, MaskSecrets, m
<1> QED
  BY <1>3, <1>4, <1>5, <1>6

LEMMA ShowOfConcat ==
  ASSUME NEW x \in Seq(Raw), NEW y \in Seq(Raw), masking \in Maskings, Clean(x)
  PROVE  Show(x \o y) = Show(x) \o Show(y)
<1>1. x \in Seq(Masked) /\ y \in Seq(Masked) /\ masking.secrets \in Seq(Words)
  BY TokensAre, MaskingIs
<1>2. \A k \in 1..Len(masking.secrets) : NoneAcross(x, y, masking.secrets[k])
  BY <1>1, CleanCuts, MaskingIs
<1>3. MaskAll(x \o y, masking.secrets) = MaskAll(x, masking.secrets) \o MaskAll(y, masking.secrets)
  BY <1>1, <1>2, MaskAllOfConcat
<1>4. MaskAll(x, masking.secrets) \in Seq(Masked) /\ MaskAll(y, masking.secrets) \in Seq(Masked)
  BY <1>1, MaskAllHides
<1> QED
  BY <1>3, <1>4, EscapeOfConcat DEF Show

----
(***************************************************************************)
(* The masker.                                                             *)
(***************************************************************************)
LEMMA AdjustIs ==
  ASSUME NEW text \in Seq(Raw), masking \in Maskings, NEW n \in 0..Len(text)
  PROVE  /\ AdjustEmitLen(text, n) \in 0..n
         /\ AdjustEmitLen(text, n) = n => Clean(SubSeq(text, 1, n))
<1> DEFINE beginnings == UNION {Prefixes(s) \ {<<>>, s} : s \in ToSet(masking.secrets)}
           ending == {c \in beginnings : EndsWith(text, n, c)}
           S == {n} \cup {n - Len(b) : b \in ending}
<1>1. Len(text) \in Nat /\ n \in Nat
  BY LenProperties
<1>2. \A b \in beginnings : Len(b) \in Nat
  <2> TAKE b \in beginnings
  <2>1. PICK s \in ToSet(masking.secrets) : b \in Prefixes(s)
    OBVIOUS
  <2>2. PICK l \in 0..Len(s) : b = SubSeq(s, 1, l)
    BY <2>1 DEF Prefixes
  <2>3. s \in Seq(Bytes) /\ l \in Int /\ \A i \in 1..l : s[i] \in Bytes
    BY <2>1, MaskingIs, WordsAre
  <2> QED
    BY <2>2, <2>3, SubSeqProperties, LenProperties
<1>3. \A b \in ending : Len(b) \in Nat /\ Len(b) <= n
  BY <1>2 DEF EndsWith
<1>4. S \in SUBSET (0..n) /\ S # {}
  BY <1>1, <1>3
<1>5. AdjustEmitLen(text, n) = Min(S)
  BY DEF AdjustEmitLen
<1> HIDE DEF S
<1>6. Min(S) \in S /\ \A m \in S : Min(S) <= m
  BY <1>4, MinIsLeast
<1>7. ASSUME Min(S) = n PROVE Clean(SubSeq(text, 1, n))
  <2>1. \A b \in ending : ~(Len(b) >= 1)
    <3> TAKE b \in ending
    <3>1. n - Len(b) \in S
      BY DEF S
    <3> HIDE DEF ending
    <3> QED
      BY <1>1, <1>3, <1>6, <1>7, <3>1
  <2> DEFINE p == SubSeq(text, 1, n)
  <2>2. p \in Seq(Raw) /\ Len(p) = n /\ \A i \in 1..n : p[i] = text[i]
    <3>1. \A i \in 1..n : text[i] \in Raw
      BY <1>1, ElementOfSeq
    <3> QED
      BY <1>1, <3>1, SubSeqProperties
  <2> HIDE DEF p
  <2> SUFFICES ASSUME NEW s \in ToSet(masking.secrets), NEW l \in 1..(Len(s) - 1),
                      l <= n, \A k \in 1..l : p[n - l + k] = s[k]
               PROVE  FALSE
    BY <2>2 DEF Clean, p
  <2> DEFINE b == SubSeq(s, 1, l)
  <2>3. s \in Seq(Bytes) /\ Len(s) \in Nat /\ \A i \in 1..l : s[i] \in Bytes
    BY MaskingIs, WordsAre
  <2>4. b \in Seq(Bytes) /\ Len(b) = l /\ \A i \in 1..l : b[i] = s[i]
    BY <2>3, SubSeqProperties
  <2>5. b \in Prefixes(s)
    BY <2>3 DEF Prefixes
  <2> HIDE DEF b
  <2>6. b \in beginnings
    BY <2>3, <2>4, <2>5, EmptySeq
  <2>7. EndsWith(text, n, b)
    <3>1. DOMAIN b = 1..l
      BY <2>4, LenProperties
    <3>2. ASSUME NEW k \in 1..l PROVE text[n + 1 - Len(b) + k - 1] = b[k]
      <4>1. n + 1 - Len(b) + k - 1 = n - l + k /\ n - l + k \in 1..n
        BY <1>1, <2>4
      <4>2. p[n - l + k] = s[k]
        OBVIOUS
      <4> QED
        BY <2>2, <2>4, <4>1, <4>2
    <3> QED
      BY <1>1, <2>4, <3>1, <3>2 DEF EndsWith, OccursAt
  <2> QED
    BY <2>1, <2>4, <2>6, <2>7
<1> QED
  BY <1>4, <1>5, <1>6, <1>7

LEMMA EmitPrefixIs ==
  ASSUME NEW text \in Seq(Raw)
  PROVE  EmitPrefixLen(text) \in 0..Len(text)
<1> DEFINE after(n) == Cardinality({i \in CharStarts(text) : i > n})
           S == {0} \cup {n \in 0..Len(text) : /\ after(n) = TailChars
                                               /\ n + 1 \notin DOMAIN text \ CharStarts(text)}
<1>1. Len(text) \in Nat
  BY LenProperties
<1>2. S \in SUBSET (0..Len(text)) /\ S # {}
  BY <1>1
<1>3. EmitPrefixLen(text) = Max(S)
  BY DEF EmitPrefixLen
<1> HIDE DEF S
<1> QED
  BY <1>1, <1>2, <1>3, MaxIsGreatest

\* The masker stops where what it sends ends with no beginning of a secret.
LEMMA SafeCut ==
  ASSUME NEW text \in Seq(Raw), masking \in Maskings
  PROVE  /\ SafeEmitPrefixLen(text) \in 0..Len(text)
         /\ Clean(SubSeq(text, 1, SafeEmitPrefixLen(text)))
<1> DEFINE N == Len(text)
           D == 0..N
           A(k) == AdjustEmitLen(text, k)
           Step(k, g) == IF A(k) = k THEN k ELSE g[A(k)]
           H == [k \in D |-> [g \in [D -> D] |-> Step(k, g)]]
           Is(f) == f = [k \in D |-> Step(k, f)]
           from == CHOOSE f : Is(f)
<1>1. N \in Nat /\ D # {} /\ D \in SUBSET (0..N)
  BY LenProperties
<1>2. \A k \in D : A(k) \in 0..k /\ A(k) \in D /\ (A(k) # k => A(k) < k)
  BY <1>1, AdjustIs
<1> HIDE DEF A
<1>3. H \in [D -> [[D -> D] -> D]]
  <2>1. \A k \in D : \A g \in [D -> D] : Step(k, g) \in D
    BY <1>2
  <2> HIDE DEF Step, D
  <2> QED
    BY <2>1
<1>4. LooksBack(H, D, D)
  <2> SUFFICES ASSUME NEW k \in D, NEW g \in [D -> D], NEW h \in [D -> D],
                      \A j \in D : j < k => g[j] = h[j]
               PROVE  H[k][g] = H[k][h]
    <3> HIDE DEF H, D
    <3> QED
      BY DEF LooksBack
  <2>1. A(k) # k => g[A(k)] = h[A(k)]
    BY <1>2
  <2>2. Step(k, g) = Step(k, h)
    BY <2>1
  <2> HIDE DEF Step, D
  <2> QED
    BY <2>2
<1>5. PICK f \in [D -> D] : Solves(f, H, D)
  <2> HIDE DEF H, D
  <2> QED
    BY <1>1, <1>3, <1>4, RecursionExists
<1>6. Is(f)
  <2> HIDE DEF Step, D
  <2> QED
    BY <1>5 DEF Solves
<1>7. Is(from)
  <2> HIDE DEF Is
  <2> QED
    BY <1>6
<1>8. SafeEmitPrefixLen(text) = from[EmitPrefixLen(text)]
  BY DEF SafeEmitPrefixLen, A
<1> HIDE DEF from
<1>9. \A k \in D : from[k] = IF A(k) = k THEN k ELSE from[A(k)]
  BY <1>7
<1> DEFINE S == {k \in D : ~(from[k] \in D /\ A(from[k]) = from[k])}
<1>10. S = {}
  <2> SUFFICES ASSUME S # {} PROVE FALSE
    OBVIOUS
  <2>1. S \in SUBSET Nat
    BY <1>1
  <2>2. PICK k \in S : \A j \in S : k <= j
    <3> HIDE DEF S
    <3> QED
      BY <2>1, LeastNumber
  <2>3. k \in D /\ ~(from[k] \in D /\ A(from[k]) = from[k])
    OBVIOUS
  <2>4. A(k) # k
    BY <1>9, <2>3
  <2>5. A(k) \in D /\ A(k) < k /\ from[k] = from[A(k)]
    BY <1>2, <1>9, <2>3, <2>4
  <2>6. A(k) \in S
    BY <2>3, <2>5
  <2>7. A(k) \in Int /\ k \in Int
    BY <1>1, <2>3, <2>5
  <2> QED
    BY <2>2, <2>5, <2>6, <2>7
<1>11. EmitPrefixLen(text) \in D
  BY EmitPrefixIs
<1>12. /\ SafeEmitPrefixLen(text) \in D
       /\ A(SafeEmitPrefixLen(text)) = SafeEmitPrefixLen(text)
  BY <1>8, <1>10, <1>11
<1> QED
  BY <1>12, AdjustIs DEF A

\* No secret and no match of a pattern is in what is shown of a log.
LEMMA ShownIsMasked ==
  ASSUME NEW text \in Seq(Raw), masking \in Maskings,
         NEW word \in ToSet(masking.secrets \o masking.patterns),
         NEW i \in DOMAIN ShowWhole(text)
  PROVE  ~OccursAt(HtmlEscape(word), ShowWhole(text), i)
<1> DEFINE a == MaskAll(text, masking.secrets)
           m == MaskAll(a, masking.patterns)
           S == masking.secrets
           P == masking.patterns
<1>1. text \in Seq(Masked) /\ S \in Seq(Words) /\ P \in Seq(Words)
  BY TokensAre, MaskingIs
<1>2. a \in Seq(Masked) /\ Len(a) = Len(text)
      /\ \A j \in 1..Len(S) : \A k \in 1..Len(text) : ~OccursAt(S[j], a, k)
  BY <1>1, MaskAllHides
<1> HIDE DEF a
<1>3. /\ m \in Seq(Masked) /\ Len(m) = Len(text)
      /\ \A w \in Words : \A k \in 1..Len(text) : OccursAt(w, m, k) => OccursAt(w, a, k)
      /\ \A j \in 1..Len(P) : \A k \in 1..Len(text) : ~OccursAt(P[j], m, k)
  BY <1>1, <1>2, MaskAllHides
<1> HIDE DEF m
<1>4. word \in Words /\ \A k \in 1..Len(text) : ~OccursAt(word, m, k)
  <2>1. /\ Len(S) \in Nat /\ Len(P) \in Nat /\ S \o P \in Seq(Words)
        /\ Len(S \o P) = Len(S) + Len(P)
        /\ \A j \in 1..(Len(S) + Len(P)) :
             (S \o P)[j] = IF j <= Len(S) THEN S[j] ELSE P[j - Len(S)]
    BY <1>1, ConcatProperties, LenProperties
  <2>2. PICK j \in 1..(Len(S) + Len(P)) : word = (S \o P)[j]
    BY <2>1, LenProperties DEF ToSet
  <2> HIDE DEF S, P
  <2>3. CASE j <= Len(S)
    <3>1. j \in 1..Len(S) /\ word = S[j] /\ word \in Words
      BY <1>1, <2>1, <2>2, <2>3, ElementOfSeq
    <3> QED
      BY <1>2, <1>3, <3>1
  <2>4. CASE ~(j <= Len(S))
    <3>1. j - Len(S) \in 1..Len(P) /\ word = P[j - Len(S)]
      BY <2>1, <2>2, <2>4
    <3> QED
      BY <1>1, <1>3, <3>1, ElementOfSeq
  <2> QED
    BY <2>3, <2>4
<1>5. /\ ShowWhole(text) = HtmlEscape(m) /\ Len(HtmlEscape(m)) = Len(text)
      /\ HtmlEscape(m) \in Text /\ Len(text) \in Nat
      /\ \A k \in 1..Len(text) : HtmlEscape(m)[k] = IF m[k] = Markup THEN Entity ELSE m[k]
  BY <1>3, EscapeIs, LenProperties DEF ShowWhole, MaskSecrets, m, a
<1>6. /\ word \in Seq(Masked) /\ Len(word) \in Nat /\ DOMAIN word = 1..Len(word)
      /\ Len(HtmlEscape(word)) = Len(word) /\ DOMAIN HtmlEscape(word) = 1..Len(word)
      /\ \A k \in 1..Len(word) :
           HtmlEscape(word)[k] = IF word[k] = Markup THEN Entity ELSE word[k]
  BY <1>4, WordsAre, EscapeIs, LenProperties, TokensAre
<1>7. i \in 1..Len(text)
  <2>1. ShowWhole(text) \in Seq(Masked \cup {Entity}) /\ Len(ShowWhole(text)) = Len(text)
    BY <1>5, TokensAre
  <2> QED
    BY <2>1, LenProperties
<1>8. ASSUME OccursAt(HtmlEscape(word), HtmlEscape(m), i) PROVE OccursAt(word, m, i)
  <2>1. i + Len(word) - 1 <= Len(m)
    BY <1>3, <1>5, <1>6, <1>8 DEF OccursAt
  <2>2. ASSUME NEW k \in 1..Len(word) PROVE m[i + k - 1] = word[k]
    <3>1. i + k - 1 \in 1..Len(text)
      BY <1>3, <1>5, <1>6, <1>7, <2>1
    <3>2. HtmlEscape(m)[i + k - 1] = HtmlEscape(word)[k]
      BY <1>6, <1>8 DEF OccursAt
    <3>3. m[i + k - 1] # Entity
      BY <1>3, <3>1, ElementOfSeq, TokensAre
    <3>4. word[k] # Entity
      BY <1>6, ElementOfSeq, TokensAre
    <3> QED
      BY <1>5, <1>6, <3>1, <3>2, <3>3, <3>4
  <2> QED
    BY <1>6, <2>1, <2>2 DEF OccursAt
<1> QED
  BY <1>4, <1>5, <1>7, <1>8

----
(***************************************************************************)
(* Types.                                                                  *)
(***************************************************************************)
ReaderStates ==
  [pc : ReaderPCs, offset : Nat, buffer : Seq(Raw), sent : Text, lost : BOOLEAN,
   told : Statuses \cup {"none"}]

\* TypeOK, with what is masked and what is not told apart.
TypeInvariant ==
  /\ masking \in Maskings
  /\ log \in {"stdout", "stderr"} /\ kind \in {"command", "http"}
  /\ status \in Statuses
  /\ exec \in [pc : ExecPCs, attempt : 0..MaxRetries,
               end : {"none", "exit", "signal", "not_started", "timeout"}]
  /\ output \in Seq(Bytes) /\ said \in Seq(Bytes) /\ inflight \in Seq(Bytes)
  /\ file \in Seq(Raw) /\ late \in Seq(Seq(Raw))
  /\ reader \in ReaderStates /\ reader.offset <= Len(file)
  /\ exec.pc \in {"backoff", "marked"} => RetriesLeft

LEMMA RemoveAtIs ==
  ASSUME NEW T, NEW s \in Seq(T), NEW i \in DOMAIN s
  PROVE  RemoveAt(s, i) \in Seq(T)
<1>1. Len(s) \in Nat /\ DOMAIN s = 1..Len(s) /\ \A j \in 1..Len(s) : s[j] \in T
  BY LenProperties, ElementOfSeq
<1>2. SubSeq(s, 1, i - 1) \in Seq(T)
  <2>1. \A j \in 1..(i - 1) : s[j] \in T
    BY <1>1
  <2> QED
    BY <1>1, <2>1, SubSeqProperties
<1>3. SubSeq(s, i + 1, Len(s)) \in Seq(T)
  <2>1. \A j \in (i + 1)..Len(s) : s[j] \in T
    BY <1>1
  <2> QED
    BY <1>1, <2>1, SubSeqProperties
<1> QED
  BY <1>2, <1>3, ConcatProperties DEF RemoveAt

LEMMA CutInTwo ==
  ASSUME NEW T, NEW s \in Seq(T), NEW n \in 0..Len(s)
  PROVE  /\ SubSeq(s, 1, n) \in Seq(T) /\ Len(SubSeq(s, 1, n)) = n
         /\ SubSeq(s, n + 1, Len(s)) \in Seq(T)
         /\ Len(SubSeq(s, n + 1, Len(s))) = Len(s) - n
         /\ SubSeq(s, 1, n) \o SubSeq(s, n + 1, Len(s)) = s
<1>1. Len(s) \in Nat /\ \A j \in 1..Len(s) : s[j] \in T
  BY LenProperties, ElementOfSeq
<1>2. SubSeq(s, 1, n) \in Seq(T) /\ Len(SubSeq(s, 1, n)) = n
  <2>1. \A j \in 1..n : s[j] \in T
    BY <1>1
  <2> QED
    BY <1>1, <2>1, SubSeqProperties
<1>3. SubSeq(s, n + 1, Len(s)) \in Seq(T) /\ Len(SubSeq(s, n + 1, Len(s))) = Len(s) - n
  <2>1. \A j \in (n + 1)..Len(s) : s[j] \in T
    BY <1>1
  <2> QED
    BY <1>1, <2>1, SubSeqProperties
<1>4. SubSeq(s, 1, n) \o SubSeq(s, n + 1, Len(s)) = s
  <2>1. 1 \in 1..(Len(s) + 1) /\ n \in (1 - 1)..Len(s) /\ Len(s) \in n..Len(s)
    BY <1>1
  <2>2. SubSeq(s, 1, n) \o SubSeq(s, n + 1, Len(s)) = SubSeq(s, 1, Len(s))
    BY <2>1, ConcatAdjacentSubSeq
  <2> QED
    BY <2>2, SubSeqFull
<1> QED
  BY <1>2, <1>3, <1>4

LEMMA MinOfTwo ==
  ASSUME NEW a \in Nat, NEW b \in Nat
  PROVE  Min({a, b}) \in Nat /\ Min({a, b}) = IF a <= b THEN a ELSE b
<1>1. {a, b} \in SUBSET Nat /\ {a, b} # {}
  OBVIOUS
<1>2. Min({a, b}) \in {a, b} /\ \A m \in {a, b} : Min({a, b}) <= m
  BY <1>1, MinIsLeast
<1> QED
  BY <1>2

\* What the next read returns is what follows the offset in the file.
LEMMA NextChunkIs ==
  ASSUME TypeInvariant
  PROVE  /\ NextChunk \in Seq(Raw)
         /\ reader.offset + Len(NextChunk) \in 0..Len(file)
         /\ SubSeq(file, 1, reader.offset) \in Seq(Raw)
         /\ SubSeq(file, 1, reader.offset) \o NextChunk
              = SubSeq(file, 1, reader.offset + Len(NextChunk))
         /\ NextChunk = <<>> => reader.offset = Len(file)
<1> DEFINE o == reader.offset
           n == Len(file)
           e == Min({o + ChunkBytes, n})
<1>1. o \in Nat /\ n \in Nat /\ o <= n /\ file \in Seq(Raw)
  BY LenProperties DEF TypeInvariant, ReaderStates
<1>2. ChunkBytes \in Nat /\ ChunkBytes >= 1
  BY LogConstants
<1>3. e \in Nat /\ o <= e /\ e <= n /\ (e = o => o = n)
  BY <1>1, <1>2, MinOfTwo
<1>4. NextChunk = SubSeq(file, o + 1, e)
  BY DEF NextChunk
<1> HIDE DEF o, n, e
<1>5. NextChunk \in Seq(Raw) /\ Len(NextChunk) = e - o
  <2>1. \A j \in (o + 1)..e : file[j] \in Raw
    BY <1>1, <1>3, ElementOfSeq DEF n
  <2> QED
    BY <1>1, <1>3, <1>4, <2>1, SubSeqProperties
<1>6. SubSeq(file, 1, o) \in Seq(Raw)
  BY <1>1, CutInTwo DEF n
<1>7. SubSeq(file, 1, o) \o NextChunk = SubSeq(file, 1, e)
  <2>1. 1 \in 1..(Len(file) + 1) /\ o \in (1 - 1)..Len(file) /\ e \in o..Len(file)
    BY <1>1, <1>3 DEF n
  <2> QED
    BY <1>1, <1>4, <2>1, ConcatAdjacentSubSeq
<1>8. o + Len(NextChunk) = e
  BY <1>1, <1>3, <1>5
<1>9. NextChunk = <<>> => o = n
  BY <1>1, <1>3, <1>5, EmptySeq
<1> QED
  BY <1>1, <1>3, <1>5, <1>6, <1>7, <1>8, <1>9 DEF o, n

\* push and flush: the reader is shown a clean part of what the masker has.
LEMMA PushIs ==
  ASSUME masking \in Maskings, NEW r \in ReaderStates, NEW text \in Seq(Raw)
  PROVE  /\ Push(r, text) \in ReaderStates
         /\ \E p \in Seq(Raw) :
              /\ Clean(p)
              /\ Push(r, text) = [r EXCEPT !.sent = r.sent \o Show(p),
                                           !.buffer = Push(r, text).buffer]
              /\ p \o Push(r, text).buffer = r.buffer \o text
<1> DEFINE all == r.buffer \o text
           n == SafeEmitPrefixLen(all)
           p == SubSeq(all, 1, n)
           b == SubSeq(all, n + 1, Len(all))
<1>1. all \in Seq(Raw) /\ r.sent \in Text
  BY ConcatProperties DEF ReaderStates
<1>2. Push(r, text) = [r EXCEPT !.sent = r.sent \o Show(p), !.buffer = b]
  BY DEF Push
<1> HIDE DEF all
<1>3. n \in 0..Len(all) /\ Clean(p)
  BY <1>1, SafeCut
<1> HIDE DEF n
<1>4. p \in Seq(Raw) /\ b \in Seq(Raw) /\ p \o b = all
  BY <1>1, <1>3, CutInTwo
<1> HIDE DEF p, b
<1>5. Show(p) \in Text
  BY <1>4, ShowIs
<1>6. r.sent \o Show(p) \in Text
  BY <1>1, <1>5, TokensAre, ConcatProperties
<1>7. Push(r, text) \in ReaderStates /\ Push(r, text).buffer = b
  BY <1>2, <1>4, <1>6 DEF ReaderStates
<1> QED
  BY <1>2, <1>3, <1>4, <1>7 DEF all

LEMMA OneIsASeq ==
  ASSUME NEW S, NEW x \in S
  PROVE  <<x>> \in Seq(S)
OBVIOUS

LEMMA LateIs ==
  ASSUME TypeInvariant
  PROVE  /\ \A bytes \in Seq(Raw) : LateWith(bytes) \in Seq(Seq(Raw))
         /\ \A l \in {"stdout", "stderr"} : late \o NoteFor(l) \in Seq(Seq(Raw))
         /\ Append(late, Marker) \in Seq(Seq(Raw))
<1>1. late \in Seq(Seq(Raw)) /\ Note \in Seq(Raw) /\ Marker \in Seq(Raw)
  <2>1. Note[1] \in Raw /\ Note = <<Note[1]>> /\ Marker[1] \in Raw /\ Marker = <<Marker[1]>>
    BY DEF Note, Marker, Raw
  <2>2. <<Note[1]>> \in Seq(Raw) /\ <<Marker[1]>> \in Seq(Raw)
    BY <2>1, OneIsASeq
  <2>3. late \in Seq(Seq(Raw))
    BY DEF TypeInvariant
  <2> QED
    BY <2>1, <2>2, <2>3
<1>2. \A l : NoteFor(l) \in Seq(Seq(Raw))
  BY <1>1 DEF NoteFor
<1> QED
  BY <1>1, <1>2, ConcatProperties, AppendProperties DEF LateWith

\* Reading on, wherever the reader is.
LEMMA ReadOnTyped ==
  ASSUME TypeInvariant, NEW l \in ReaderPCs
  PROVE  /\ ReadNewText([reader EXCEPT !.pc = l]) \in ReaderStates
         /\ ReadNewText([reader EXCEPT !.pc = l]).offset = reader.offset + Len(NextChunk)
<1> DEFINE read == [[reader EXCEPT !.pc = l] EXCEPT !.offset = @ + Len(NextChunk)]
<1>1. /\ NextChunk \in Seq(Raw) /\ reader.offset + Len(NextChunk) \in Nat
      /\ reader \in ReaderStates /\ masking \in Maskings
  BY NextChunkIs, LenProperties DEF TypeInvariant
<1>2. read \in ReaderStates /\ read.offset = reader.offset + Len(NextChunk)
  BY <1>1 DEF ReaderStates
<1>3. ReadNewText([reader EXCEPT !.pc = l])
      = IF IsText(NextChunk) THEN Push(read, NextChunk) ELSE [read EXCEPT !.lost = TRUE]
  BY DEF ReadNewText
<1> HIDE DEF read
<1>4. CASE IsText(NextChunk)
  <2>1. /\ Push(read, NextChunk) \in ReaderStates
        /\ \E p \in Seq(Raw) :
             Push(read, NextChunk)
             = [read EXCEPT !.sent = read.sent \o Show(p), !.buffer = Push(read, NextChunk).buffer]
    BY <1>1, <1>2, PushIs
  <2>2. Push(read, NextChunk).offset = read.offset
    BY <1>2, <2>1 DEF ReaderStates
  <2> QED
    BY <1>2, <1>3, <1>4, <2>1, <2>2
<1>5. CASE ~IsText(NextChunk)
  BY <1>2, <1>3, <1>5 DEF ReaderStates
<1> QED
  BY <1>4, <1>5

LEMMA WholeFileTyped ==
  ASSUME TypeInvariant, NEW masked \in Text
  PROVE  /\ WholeFile(reader, masked) \in ReaderStates
         /\ WholeFile(reader, masked).offset = Len(file)
         /\ WholeFile(reader, masked).buffer = reader.buffer
         /\ WholeFile(reader, masked).lost = ~IsText(file)
         /\ WholeFile(reader, masked).sent = IF IsText(file) THEN masked ELSE <<>>
<1>1. reader \in ReaderStates /\ Len(file) \in Nat /\ <<>> \in Text /\ IsText(file) \in BOOLEAN
  BY LenProperties DEF TypeInvariant, Text, IsText
<1> QED
  BY <1>1 DEF WholeFile, ReaderStates

LEMMA FlushIs ==
  ASSUME TypeInvariant
  PROVE  /\ Flush(reader) \in ReaderStates
         /\ Flush(reader) = [reader EXCEPT !.sent = reader.sent \o Show(reader.buffer),
                                           !.buffer = <<>>]
<1>1. /\ reader \in ReaderStates /\ reader.buffer \in Seq(Raw) /\ reader.sent \in Text
      /\ masking \in Maskings /\ <<>> \in Seq(Raw)
  BY DEF TypeInvariant, ReaderStates
<1>2. Show(reader.buffer) \in Text
  BY <1>1, ShowIs
<1>3. reader.sent \o Show(reader.buffer) \in Text
  BY <1>1, <1>2, TokensAre, ConcatProperties
<1> QED
  BY <1>1, <1>3 DEF Flush, ReaderStates

\* The execution's steps leave the reader alone, and the file only grows.
FileGrows == \E x \in Seq(Raw) : file' = file \o x

LEMMA ExecutionTyped ==
  ASSUME TypeInvariant, Execute \/ Copy \/ ReadBody \/ Land \/ LandLate
  PROVE  TypeInvariant' /\ FileGrows /\ UNCHANGED <<masking, log, kind, reader>>
<1> USE DEF TypeInvariant
<1>0. /\ file = file \o <<>> /\ <<>> \in Seq(Raw) /\ <<>> \in Seq(Bytes)
      /\ Seq(Bytes) \subseteq Seq(Raw)
  <2>1. \A s \in Seq(Bytes) : s \in Seq(Raw)
    BY SeqMonotonic DEF Raw
  <2> QED
    BY <2>1, ConcatEmptySeq
<1>a. ASSUME UNCHANGED <<masking, log, kind, file, reader>>, status' \in Statuses,
             exec' \in [pc : ExecPCs, attempt : 0..MaxRetries,
                        end : {"none", "exit", "signal", "not_started", "timeout"}],
             output' \in Seq(Bytes), said' \in Seq(Bytes), inflight' \in Seq(Bytes),
             late' \in Seq(Seq(Raw)), exec'.pc \in {"backoff", "marked"} => RetriesLeft'
      PROVE  TypeInvariant' /\ FileGrows /\ UNCHANGED <<masking, log, kind, reader>>
  BY <1>0, <1>a DEF FileGrows
<1>b. ASSUME NEW s \in {"failed", "timed_out", "success"},
             NEW end \in {"exit", "signal", "not_started", "timeout"}, Completes(s, end)
      PROVE  /\ status' \in Statuses /\ output' \in Seq(Bytes)
             /\ exec' \in [pc : ExecPCs, attempt : 0..MaxRetries,
                           end : {"none", "exit", "signal", "not_started", "timeout"}]
             /\ exec'.pc \in {"backoff", "marked"} => RetriesLeft'
  BY <1>0, <1>b DEF Completes, Statuses, ExecPCs, RetriesLeft
<1>c. Outputs \subseteq Seq(Bytes) /\ MaxRetries \in Nat
  BY LogConstants
<1>1. CASE MarkRunning
  BY <1>0, <1>1, <1>a, <1>c DEF MarkRunning, Statuses, ExecPCs, RetriesLeft
<1>2. CASE NotStarted
  BY <1>2, <1>a, <1>b, LateIs DEF NotStarted, SpawnError
<1>3. CASE ChildExits
  BY <1>3, <1>a DEF ChildExits, ExecPCs, RetriesLeft
<1>4. CASE Exit
  <2>1. Completes("success", "exit") \/ Completes("failed", "exit") \/ Completes("failed", "signal")
    BY <1>4 DEF Exit
  <2>2. late' \in Seq(Seq(Raw)) /\ inflight' \in Seq(Bytes)
    BY <1>0, <1>4, LateIs DEF Exit
  <2> QED
    BY <1>4, <1>a, <1>b, <2>1, <2>2 DEF Exit
<1>5. CASE TimesOut
  <2>1. late' \in Seq(Seq(Raw)) /\ inflight' \in Seq(Bytes)
    BY <1>0, <1>5, LateIs DEF TimesOut
  <2> QED
    BY <1>5, <1>a, <1>b, <2>1 DEF TimesOut
<1>6. CASE Respond
  BY <1>6, <1>a, LateIs DEF Respond, ExecPCs, RetriesLeft
<1>7. CASE AppendRetryMarker
  BY <1>7, <1>a, LateIs DEF AppendRetryMarker, ExecPCs, RetriesLeft, ExecAt
<1>8. CASE ResetToPending
  <2>1. exec.attempt + 1 \in 0..MaxRetries
    BY <1>8, <1>c DEF ResetToPending, ExecAt, RetriesLeft
  <2> QED
    BY <1>8, <1>a, <2>1 DEF ResetToPending, ExecPCs, Statuses
<1>9. CASE Copy
  <2>1. PICK n \in 1..Min({PipeBytes, Len(output)}) :
          inflight' = SubSeq(output, 1, n) /\ output' = SubSeq(output, n + 1, Len(output))
    BY <1>9 DEF Copy
  <2>2. n \in 0..Len(output)
    <3>1. PipeBytes \in Nat /\ Len(output) \in Nat
      BY LogConstants, LenProperties
    <3> DEFINE m == Min({PipeBytes, Len(output)})
    <3>2. m \in Nat /\ m = IF PipeBytes <= Len(output) THEN PipeBytes ELSE Len(output)
      BY <3>1, MinOfTwo
    <3>3. n \in 1..m
      BY <2>1
    <3> HIDE DEF m
    <3> QED
      BY <3>1, <3>2, <3>3
  <2>3. inflight' \in Seq(Bytes) /\ output' \in Seq(Bytes)
    BY <2>1, <2>2, CutInTwo
  <2> QED
    BY <1>9, <1>a, <2>3 DEF Copy, RetriesLeft
<1>10. CASE ReadBody
  <2>1. PICK body \in {SubSeq(output, 1, Min({MaxBody, Len(output)})), <<>>} :
          late' = LateWith(body)
    BY <1>10 DEF ReadBody
  <2>2. Min({MaxBody, Len(output)}) \in 0..Len(output)
    <3>1. MaxBody \in Nat /\ Len(output) \in Nat
      BY LogConstants, LenProperties
    <3> DEFINE m == Min({MaxBody, Len(output)})
    <3>2. m \in Nat /\ m = IF MaxBody <= Len(output) THEN MaxBody ELSE Len(output)
      BY <3>1, MinOfTwo
    <3> HIDE DEF m
    <3>3. m \in 0..Len(output)
      BY <3>1, <3>2
    <3> QED
      BY <3>3 DEF m
  <2>3. body \in Seq(Raw)
    BY <1>0, <2>1, <2>2, CutInTwo
  <2> QED
    BY <1>0, <1>10, <1>a, <2>1, <2>3, LateIs DEF ReadBody, ExecPCs, RetriesLeft
<1>11. ASSUME NEW x \in Seq(Raw), file' = file \o x, UNCHANGED <<masking, log, kind, status, exec, output, said, reader>>,
              inflight' \in Seq(Bytes), late' \in Seq(Seq(Raw))
       PROVE  TypeInvariant' /\ FileGrows /\ UNCHANGED <<masking, log, kind, reader>>
  <2>1. file' \in Seq(Raw) /\ Len(file') = Len(file) + Len(x) /\ Len(x) \in Nat /\ Len(file) \in Nat
    BY <1>11, ConcatProperties, LenProperties
  <2>2. reader.offset <= Len(file')
    BY <2>1 DEF ReaderStates
  <2> QED
    BY <1>11, <2>1, <2>2 DEF FileGrows, RetriesLeft
<1>12. CASE Land
  BY <1>0, <1>11, <1>12 DEF Land
<1>13. CASE LandLate
  <2>1. PICK i \in DOMAIN late : file' = file \o late[i] /\ late' = RemoveAt(late, i)
    BY <1>13 DEF LandLate
  <2>2. late[i] \in Seq(Raw)
    BY <2>1, LenProperties, ElementOfSeq
  <2>3. late' \in Seq(Seq(Raw))
    BY <2>1, RemoveAtIs
  <2> QED
    BY <1>11, <1>13, <2>1, <2>2, <2>3 DEF LandLate
<1> QED
  BY <1>1, <1>2, <1>3, <1>4, <1>5, <1>6, <1>7, <1>8, <1>9, <1>10, <1>12, <1>13 DEF Execute

----
(***************************************************************************)
(* The reader.                                                             *)
(***************************************************************************)
\* The stream has sent the masked e, which may be cut off where it ends; with
\* what the masker holds e is what was read, unless some of that was lost.
Streamed(r) ==
  \E e \in Seq(Raw) :
    /\ r.sent = Show(e) /\ Clean(e)
    /\ ~r.lost => e \o r.buffer = SubSeq(file, 1, r.offset)

ReaderInvariant ==
  /\ reader.pc \in {"absent", "page", "wait", "whole"} =>
       reader.sent = <<>> /\ reader.buffer = <<>> /\ reader.offset = 0 /\ ~reader.lost
  /\ reader.pc \in {"poll", "check", "drain"} => ~Deferred /\ Streamed(reader)
  /\ reader.pc \in {"done", "shown"} =>
       reader.buffer = <<>> /\ \E text \in Seq(Raw) : reader.sent = ShowWhole(text)
  /\ reader.pc = "done" /\ ~reader.lost /\ ~Deferred =>
       reader.sent = Show(SubSeq(file, 1, reader.offset))

LEMMA NothingShown ==
  ASSUME masking \in Maskings
  PROVE  /\ Show(<<>>) = <<>> /\ ShowWhole(<<>>) = <<>> /\ Clean(<<>>)
         /\ \A s : SubSeq(s, 1, 0) = <<>>
<1>1. <<>> \in Seq(Raw) /\ Len(<<>>) = 0
  BY EmptySeq
<1>2. Show(<<>>) \in Text /\ Len(Show(<<>>)) = 0 /\ ShowWhole(<<>>) \in Text /\ Len(ShowWhole(<<>>)) = 0
  BY <1>1, ShowIs
<1>3. Show(<<>>) = <<>> /\ ShowWhole(<<>>) = <<>>
  BY <1>2, TokensAre, EmptySeq
<1>4. Clean(<<>>)
  BY <1>1 DEF Clean
<1> QED
  BY <1>3, <1>4, SubSeqEmpty

LEMMA SameMasking ==
  ASSUME masking' = masking
  PROVE  /\ \A t : Show(t)' = Show(t) /\ ShowWhole(t)' = ShowWhole(t)
         /\ \A t : Clean(t)' <=> Clean(t)
         /\ Deferred' <=> Deferred
BY DEF Show, ShowWhole, MaskSecrets, Clean, Deferred

LEMMA PrefixStays ==
  ASSUME NEW s \in Seq(Raw), NEW x \in Seq(Raw), NEW n \in 0..Len(s)
  PROVE  SubSeq(s \o x, 1, n) = SubSeq(s, 1, n)
<1>1. Len(s) \in Nat
  BY LenProperties
<1>2. CASE n = 0
  BY <1>2, SubSeqEmpty
<1>3. CASE n # 0
  <2>1. 1 \in 1..Len(s) /\ n \in 1..Len(s)
    BY <1>1, <1>3
  <2> QED
    BY <2>1, SubSeqOfConcat1
<1> QED
  BY <1>2, <1>3

LEMMA FileGrowsReaderStays ==
  ASSUME TypeInvariant, ReaderInvariant, FileGrows, UNCHANGED <<masking, reader>>
  PROVE  ReaderInvariant'
<1>1. reader.offset \in 0..Len(file) /\ file \in Seq(Raw)
  BY LenProperties DEF TypeInvariant, ReaderStates
<1>2. SubSeq(file', 1, reader.offset) = SubSeq(file, 1, reader.offset)
  BY <1>1, PrefixStays DEF FileGrows
<1>3. Streamed(reader) => Streamed(reader)'
  BY <1>2, SameMasking DEF Streamed
<1>4. (\E text \in Seq(Raw) : reader.sent = ShowWhole(text))
      => (\E text \in Seq(Raw) : reader.sent = ShowWhole(text))'
  BY SameMasking DEF Raw
<1>5. Show(SubSeq(file, 1, reader.offset))' = Show(SubSeq(file, 1, reader.offset))
  BY <1>2, SameMasking DEF Show
<1> QED
  BY <1>3, <1>4, <1>5, SameMasking DEF ReaderInvariant

LEMMA Associative ==
  \A x, y, z \in Seq(Raw) : (x \o y) \o z = x \o (y \o z)
BY ConcatAssociative

\* A read keeps what has been sent masked, whatever it returns.
LEMMA ReadOn ==
  ASSUME TypeInvariant, Streamed(reader), NEW l \in ReaderPCs
  PROVE  LET r == ReadNewText([reader EXCEPT !.pc = l]) IN Streamed(r) /\ r.pc = l
<1> DEFINE read == [[reader EXCEPT !.pc = l] EXCEPT !.offset = @ + Len(NextChunk)]
           r == ReadNewText([reader EXCEPT !.pc = l])
<1>1. /\ reader \in ReaderStates /\ masking \in Maskings /\ reader.offset <= Len(file)
      /\ reader.buffer \in Seq(Raw)
  BY DEF TypeInvariant, ReaderStates
<1>2. /\ NextChunk \in Seq(Raw) /\ reader.offset + Len(NextChunk) \in Nat
      /\ SubSeq(file, 1, reader.offset) \o NextChunk
           = SubSeq(file, 1, reader.offset + Len(NextChunk))
  BY NextChunkIs
<1>3. /\ read \in ReaderStates /\ read.offset = reader.offset + Len(NextChunk) /\ read.pc = l
      /\ read.sent = reader.sent /\ read.buffer = reader.buffer /\ read.lost = reader.lost
  BY <1>1, <1>2 DEF ReaderStates
<1>4. r = IF IsText(NextChunk) THEN Push(read, NextChunk) ELSE [read EXCEPT !.lost = TRUE]
  BY DEF ReadNewText
<1> HIDE DEF read, r
<1>5. PICK e \in Seq(Raw) : /\ reader.sent = Show(e) /\ Clean(e)
                            /\ ~reader.lost => e \o reader.buffer = SubSeq(file, 1, reader.offset)
  BY DEF Streamed
<1>6. CASE IsText(NextChunk)
  <2>0. r = Push(read, NextChunk)
    BY <1>4, <1>6
  <2>a. /\ Push(read, NextChunk) \in ReaderStates
        /\ \E p \in Seq(Raw) :
             /\ Clean(p)
             /\ Push(read, NextChunk) = [read EXCEPT !.sent = read.sent \o Show(p),
                                                    !.buffer = Push(read, NextChunk).buffer]
             /\ p \o Push(read, NextChunk).buffer = read.buffer \o NextChunk
    BY <1>1, <1>2, <1>3, PushIs
  <2>1. PICK p \in Seq(Raw) :
          /\ Clean(p)
          /\ r = [read EXCEPT !.sent = read.sent \o Show(p), !.buffer = r.buffer]
          /\ p \o r.buffer = reader.buffer \o NextChunk
          /\ r \in ReaderStates
    BY <1>3, <2>0, <2>a
  <2>2. /\ r.sent = reader.sent \o Show(p) /\ r.lost = reader.lost /\ r.pc = l
        /\ r.offset = reader.offset + Len(NextChunk) /\ r.buffer \in Seq(Raw)
    BY <1>3, <2>1 DEF ReaderStates
  <2>3. e \o p \in Seq(Raw) /\ r.sent = Show(e \o p)
    BY <1>1, <1>5, <2>2, ConcatProperties, ShowOfConcat
  <2>4. Clean(e \o p)
    BY <1>1, <1>5, <2>1, CleanGrows, TokensAre, MaskingIs
  <2>5. ASSUME ~r.lost PROVE (e \o p) \o r.buffer = SubSeq(file, 1, r.offset)
    <3>1. (e \o p) \o r.buffer = e \o (p \o r.buffer)
      BY <2>2, Associative
    <3>2. (e \o reader.buffer) \o NextChunk = e \o (reader.buffer \o NextChunk)
      BY <1>1, <1>2, Associative
    <3>3. e \o reader.buffer = SubSeq(file, 1, reader.offset)
      BY <1>5, <2>2, <2>5
    <3> QED
      BY <1>2, <2>1, <2>2, <3>1, <3>2, <3>3
  <2> QED
    BY <2>2, <2>3, <2>4, <2>5 DEF Streamed, r
<1>7. CASE ~IsText(NextChunk)
  <2>1. r.sent = reader.sent /\ r.lost /\ r.pc = l
    BY <1>3, <1>4, <1>7 DEF ReaderStates
  <2> QED
    BY <1>5, <2>1 DEF Streamed, r
<1> QED
  BY <1>6, <1>7

\* The masker's rest is sent, and all is masked as one.
LEMMA FlushedIsMasked ==
  ASSUME TypeInvariant, Streamed(reader), ~Deferred
  PROVE  /\ \E text \in Seq(Raw) : Flush(reader).sent = ShowWhole(text)
         /\ ~reader.lost => Flush(reader).sent = Show(SubSeq(file, 1, reader.offset))
<1>1. PICK e \in Seq(Raw) : /\ reader.sent = Show(e) /\ Clean(e)
                            /\ ~reader.lost => e \o reader.buffer = SubSeq(file, 1, reader.offset)
  BY DEF Streamed
<1>2. reader \in ReaderStates /\ reader.buffer \in Seq(Raw) /\ masking \in Maskings
  BY DEF TypeInvariant, ReaderStates
<1>3. Flush(reader).sent = reader.sent \o Show(reader.buffer)
  BY <1>2 DEF Flush, ReaderStates
<1>4. e \o reader.buffer \in Seq(Raw) /\ Flush(reader).sent = Show(e \o reader.buffer)
  BY <1>1, <1>2, <1>3, ShowOfConcat, ConcatProperties
<1> QED
  BY <1>1, <1>2, <1>4, ShowIs

LEMMA ToldStays ==
  ASSUME TypeInvariant, NEW l \in ReaderPCs
  PROVE  ReadNewText([reader EXCEPT !.pc = l]).told = reader.told
<1> DEFINE read == [[reader EXCEPT !.pc = l] EXCEPT !.offset = @ + Len(NextChunk)]
<1>1. /\ NextChunk \in Seq(Raw) /\ reader.offset + Len(NextChunk) \in Nat
      /\ reader \in ReaderStates /\ masking \in Maskings
  BY NextChunkIs, LenProperties DEF TypeInvariant
<1>2. read \in ReaderStates /\ read.told = reader.told
  BY <1>1 DEF ReaderStates
<1>3. ReadNewText([reader EXCEPT !.pc = l])
      = IF IsText(NextChunk) THEN Push(read, NextChunk) ELSE [read EXCEPT !.lost = TRUE]
  BY DEF ReadNewText
<1> HIDE DEF read
<1>4. \E p \in Seq(Raw) :
        Push(read, NextChunk)
        = [read EXCEPT !.sent = read.sent \o Show(p), !.buffer = Push(read, NextChunk).buffer]
  BY <1>1, <1>2, PushIs
<1>5. Push(read, NextChunk).told = read.told
  BY <1>2, <1>4 DEF ReaderStates
<1> QED
  BY <1>2, <1>3, <1>5 DEF ReaderStates

OthersStay == UNCHANGED <<masking, log, kind, status, exec, output, said, inflight, late, file>>

\* A step of the reader, and that it ends with all that is in the file.
LEMMA ReaderSteps ==
  ASSUME TypeInvariant, ReaderInvariant, OpenPage \/ Connect \/ Read \/ Reload
  PROVE  /\ TypeInvariant' /\ ReaderInvariant' /\ OthersStay
         /\ reader'.told \in {reader.told, status, "none"}
         /\ reader'.pc \in {"done", "shown"} /\ ~reader'.lost =>
              reader'.sent = ShowWhole(file)
<1> DEFINE Goal == /\ TypeInvariant' /\ ReaderInvariant' /\ OthersStay
                   /\ reader'.told \in {reader.told, status, "none"}
                   /\ reader'.pc \in {"done", "shown"} /\ ~reader'.lost =>
                        reader'.sent = ShowWhole(file)
<1>1. /\ reader \in ReaderStates /\ masking \in Maskings /\ reader.offset <= Len(file)
      /\ file \in Seq(Raw) /\ Len(file) \in Nat /\ <<>> \in Seq(Raw) /\ <<>> \in Text
      /\ status \in Statuses
  BY LenProperties DEF TypeInvariant, Text
<1>2. ShowWhole(file) \in Text /\ (~Deferred => ShowWhole(file) = Show(file))
  BY <1>1, ShowIs
<1>3. ASSUME OthersStay, reader' \in ReaderStates, reader'.offset <= Len(file) PROVE TypeInvariant'
  BY <1>3 DEF TypeInvariant, OthersStay, RetriesLeft
<1>4. ASSUME OthersStay
      PROVE  /\ \A t : Show(t)' = Show(t) /\ ShowWhole(t)' = ShowWhole(t)
             /\ Streamed(reader)' <=> \E e \in Seq(Raw) :
                  /\ reader'.sent = Show(e) /\ Clean(e)
                  /\ ~reader'.lost => e \o reader'.buffer = SubSeq(file, 1, reader'.offset)
             /\ (Deferred' <=> Deferred) /\ file' = file
  BY <1>4, SameMasking DEF OthersStay, Streamed
<1>5. ReaderInvariant' <=>
        /\ reader'.pc \in {"absent", "page", "wait", "whole"} =>
             reader'.sent = <<>> /\ reader'.buffer = <<>> /\ reader'.offset = 0 /\ ~reader'.lost
        /\ reader'.pc \in {"poll", "check", "drain"} => ~Deferred' /\ Streamed(reader)'
        /\ reader'.pc \in {"done", "shown"} =>
             reader'.buffer = <<>> /\ (\E text \in Seq(Raw) : reader.sent = ShowWhole(text))'
        /\ reader'.pc = "done" /\ ~reader'.lost /\ ~Deferred' =>
             reader'.sent = Show(SubSeq(file, 1, reader.offset))'
  BY DEF ReaderInvariant
<1>6. ASSUME OthersStay,
             \E text \in Seq(Raw) : reader'.sent = ShowWhole(text)
      PROVE  (\E text \in Seq(Raw) : reader.sent = ShowWhole(text))'
  BY <1>4, <1>6 DEF Raw
<1>7. \A s : SubSeq(s, 1, 0) = <<>>
  BY <1>1, NothingShown
\* The reader has not begun to read.
<1>8. ASSUME NEW l \in {"absent", "page", "wait", "whole"}, NEW t \in {reader.told, status, "none"},
             reader' = [reader EXCEPT !.pc = l, !.told = t], OthersStay,
             reader.sent = <<>> /\ reader.buffer = <<>> /\ reader.offset = 0 /\ ~reader.lost
      PROVE  Goal
  <2>1. reader' \in ReaderStates /\ reader'.offset <= Len(file)
    BY <1>1, <1>8 DEF ReaderStates, ReaderPCs
  <2>2. /\ reader'.pc = l /\ reader'.sent = <<>> /\ reader'.buffer = <<>>
        /\ reader'.offset = 0 /\ ~reader'.lost /\ reader'.told = t
    BY <1>1, <1>8 DEF ReaderStates
  <2> QED
    BY <1>3, <1>5, <1>8, <2>1, <2>2
<1>9. CASE OpenPage
  <2>1. reader' = [reader EXCEPT !.pc = "page", !.told = status] /\ reader.pc = "absent" /\ OthersStay
    BY <1>9 DEF OpenPage, ReaderAt, OthersStay
  <2> QED
    BY <1>8, <2>1 DEF ReaderInvariant
<1>10. CASE Wait
  <2>1. reader' = [reader EXCEPT !.pc = "whole"] /\ reader.pc = "wait" /\ OthersStay
    BY <1>10 DEF Wait, ReaderAt, OthersStay
  <2>2. reader' = [reader EXCEPT !.pc = "whole", !.told = reader.told]
    BY <1>1, <2>1 DEF ReaderStates
  <2> QED
    BY <1>8, <2>1, <2>2 DEF ReaderInvariant
<1>11. CASE Connect
  <2>1. /\ reader.pc = "absent" /\ OthersStay
        /\ reader' = [reader EXCEPT !.pc = IF IsTerminal THEN "whole"
                                           ELSE IF Deferred THEN "wait" ELSE "poll"]
    BY <1>11 DEF Connect, ReaderAt, OthersStay
  <2>2. reader.sent = <<>> /\ reader.buffer = <<>> /\ reader.offset = 0 /\ ~reader.lost
    BY <2>1 DEF ReaderInvariant
  <2>3. CASE reader'.pc \in {"whole", "wait"}
    <3>1. PICK l \in {"whole", "wait"} : reader' = [reader EXCEPT !.pc = l, !.told = reader.told]
      BY <1>1, <2>1, <2>3 DEF ReaderStates
    <3> QED
      BY <1>8, <2>1, <2>2, <3>1
  <2>4. CASE reader'.pc = "poll"
    <3>1. ~Deferred /\ reader' = [reader EXCEPT !.pc = "poll"]
      BY <1>1, <2>1, <2>4 DEF ReaderStates
    <3>2. /\ reader' \in ReaderStates /\ reader'.offset = 0 /\ reader'.sent = <<>>
          /\ reader'.buffer = <<>> /\ ~reader'.lost /\ reader'.told = reader.told
      BY <1>1, <2>2, <3>1 DEF ReaderStates, ReaderPCs
    <3>3. <<>> = Show(<<>>) /\ Clean(<<>>) /\ <<>> \o <<>> = SubSeq(file, 1, 0)
      BY <1>1, NothingShown
    <3>4. Streamed(reader)'
      BY <1>1, <1>4, <2>1, <3>2, <3>3
    <3> QED
      BY <1>1, <1>3, <1>4, <1>5, <2>1, <2>4, <3>1, <3>2, <3>4
  <2> QED
    BY <1>1, <2>1, <2>3, <2>4 DEF ReaderStates
<1>12. CASE Reload
  <2>1. reader' = NoReader /\ OthersStay
    BY <1>12 DEF Reload, OthersStay
  <2>2. /\ reader' \in ReaderStates /\ reader'.offset = 0 /\ reader'.sent = <<>>
        /\ reader'.buffer = <<>> /\ ~reader'.lost /\ reader'.told = "none" /\ reader'.pc = "absent"
    BY <1>1, <2>1 DEF NoReader, ReaderStates, ReaderPCs
  <2> QED
    BY <1>1, <1>3, <1>5, <2>1, <2>2
\* The whole file, masked.
<1>13. ASSUME NEW l \in {"done", "shown"}, NEW t \in {reader.told, status, "none"},
              reader.pc \in {"whole", "page"},
              reader' = [WholeFile(reader, ShowWhole(file)) EXCEPT !.pc = l, !.told = t], OthersStay
       PROVE  Goal
  <2> DEFINE w == WholeFile(reader, ShowWhole(file))
  <2>1. /\ w \in ReaderStates /\ w.offset = Len(file) /\ w.buffer = <<>> /\ w.lost = ~IsText(file)
        /\ w.sent = IF IsText(file) THEN ShowWhole(file) ELSE <<>>
    BY <1>2, <1>13, WholeFileTyped DEF ReaderInvariant
  <2> HIDE DEF w
  <2>2. /\ reader' \in ReaderStates /\ reader'.offset = Len(file) /\ reader'.buffer = <<>>
        /\ reader'.lost = ~IsText(file) /\ reader'.pc = l /\ reader'.told = t
        /\ reader'.sent = IF IsText(file) THEN ShowWhole(file) ELSE <<>>
    BY <1>1, <1>13, <2>1 DEF ReaderStates, ReaderPCs, w
  <2>3. (\E text \in Seq(Raw) : reader.sent = ShowWhole(text))'
    <3>1. \E text \in Seq(Raw) : reader'.sent = ShowWhole(text)
      BY <1>1, <2>2, NothingShown
    <3> QED
      BY <1>6, <1>13, <3>1
  <2>4. SubSeq(file, 1, Len(file)) = file
    BY <1>1, SubSeqFull
  <2>5. ~reader'.lost => reader'.sent = ShowWhole(file)
    BY <2>2
  <2>6. ~reader'.lost /\ ~Deferred' => reader'.sent = Show(SubSeq(file, 1, reader.offset))'
    BY <1>2, <1>4, <1>13, <2>2, <2>4, <2>5
  <2> QED
    BY <1>1, <1>3, <1>5, <1>13, <2>2, <2>3, <2>5, <2>6
<1>14. CASE SendWhole
  BY <1>13, <1>14 DEF SendWhole, ReaderAt, OthersStay
<1>15. CASE ShowPage
  <2>1. reader.pc = "page" /\ OthersStay
        /\ reader' = [WholeFile(reader, ShowWhole(file)) EXCEPT !.pc = "shown"]
    BY <1>15 DEF ShowPage, ReaderAt, OthersStay, PageText, ShowWhole
  <2>2. WholeFile(reader, ShowWhole(file)).told = reader.told
        /\ WholeFile(reader, ShowWhole(file)) \in ReaderStates
    <3>1. WholeFile(reader, ShowWhole(file)) \in ReaderStates
      BY <1>2, WholeFileTyped
    <3> QED
      BY <1>1, <3>1 DEF WholeFile, ReaderStates
  <2>3. reader' = [WholeFile(reader, ShowWhole(file)) EXCEPT !.pc = "shown", !.told = reader.told]
    BY <2>1, <2>2 DEF ReaderStates
  <2> QED
    BY <1>13, <2>1, <2>3
\* The stream goes on.
<1>16. ASSUME NEW l \in {"poll", "check", "drain"}, OthersStay, reader' \in ReaderStates,
              reader'.offset <= Len(file), Streamed(reader'), ~Deferred, reader'.pc = l,
              reader'.told \in {reader.told, status, "none"}
       PROVE  Goal
  <2>1. Streamed(reader)'
    BY <1>4, <1>16 DEF Streamed
  <2> QED
    BY <1>3, <1>4, <1>5, <1>16, <2>1
<1>17. ASSUME reader.pc \in {"poll", "check", "drain"} PROVE Streamed(reader) /\ ~Deferred
  BY <1>17 DEF ReaderInvariant
<1>18. ASSUME NEW l \in {"poll", "check", "drain"}, reader.pc \in {"poll", "check", "drain"}, OthersStay,
              reader' = ReadNewText([reader EXCEPT !.pc = l])
       PROVE  Goal
  <2>1. l \in ReaderPCs
    BY DEF ReaderPCs
  <2>2. /\ reader' \in ReaderStates /\ reader'.offset = reader.offset + Len(NextChunk)
        /\ Streamed(reader') /\ reader'.pc = l
    BY <1>17, <1>18, <2>1, ReadOn, ReadOnTyped
  <2>3. reader.offset + Len(NextChunk) <= Len(file)
    BY <1>1, NextChunkIs
  <2>4. reader'.told = reader.told
    BY <1>1, <1>18, <2>1, ToldStays
  <2> QED
    BY <1>16, <1>17, <1>18, <2>2, <2>3, <2>4
<1>19. CASE Poll
  <2>1. reader.pc = "poll" /\ OthersStay
    BY <1>19 DEF Poll, ReaderAt, OthersStay
  <2>2. CASE NextChunk = <<>>
    <3>1. reader' = [reader EXCEPT !.pc = "check"]
      BY <1>19, <2>2 DEF Poll
    <3>2. /\ reader' \in ReaderStates /\ reader'.offset <= Len(file) /\ reader'.pc = "check"
          /\ reader'.told = reader.told /\ reader'.sent = reader.sent
          /\ reader'.buffer = reader.buffer /\ reader'.lost = reader.lost
          /\ reader'.offset = reader.offset
      BY <1>1, <3>1 DEF ReaderStates, ReaderPCs
    <3>3. Streamed(reader')
      BY <1>17, <2>1, <3>2 DEF Streamed
    <3> QED
      BY <1>16, <1>17, <2>1, <3>2, <3>3
  <2>3. CASE NextChunk # <<>>
    BY <1>18, <1>19, <2>1, <2>3 DEF Poll
  <2> QED
    BY <2>2, <2>3
<1>20. CASE CheckStatus
  <2>1. /\ reader.pc = "check" /\ OthersStay
        /\ reader' = [reader EXCEPT !.pc = IF IsTerminal THEN "drain" ELSE "poll",
                                    !.told = IF IsTerminal THEN status ELSE @]
    BY <1>20 DEF CheckStatus, ReaderAt, OthersStay
  <2>2. /\ reader' \in ReaderStates /\ reader'.offset <= Len(file)
        /\ reader'.pc \in {"drain", "poll"} /\ reader'.told \in {reader.told, status}
        /\ reader'.sent = reader.sent /\ reader'.offset = reader.offset
        /\ reader'.buffer = reader.buffer /\ reader'.lost = reader.lost
    BY <1>1, <2>1 DEF ReaderStates, ReaderPCs
  <2>3. Streamed(reader')
    BY <1>17, <2>1, <2>2 DEF Streamed
  <2> QED
    BY <1>16, <1>17, <2>1, <2>2, <2>3
<1>21. CASE Drain
  <2>1. reader.pc = "drain" /\ OthersStay
    BY <1>21 DEF Drain, ReaderAt, OthersStay
  <2>2. CASE MoreText
    <3>1. reader' = ReadNewText([reader EXCEPT !.pc = "drain"])
      <4>1. reader = [reader EXCEPT !.pc = "drain"]
        BY <1>1, <2>1 DEF ReaderStates
      <4>2. reader' = ReadNewText(reader)
        BY <1>21, <2>2 DEF Drain
      <4> QED
        BY <4>1, <4>2
    <3> QED
      BY <1>18, <2>1, <3>1
  <2>3. CASE ~MoreText
    <3> DEFINE f == Flush(reader)
               gone == reader.lost \/ ~IsText(NextChunk)
    <3>1. /\ f \in ReaderStates /\ f.offset = reader.offset /\ f.buffer = <<>>
          /\ f.told = reader.told /\ f.lost = reader.lost
      BY <1>1, FlushIs DEF ReaderStates
    <3>2. reader' = [f EXCEPT !.pc = "done", !.lost = @ \/ ~IsText(NextChunk)]
      BY <1>21, <2>3 DEF Drain
    <3>3. /\ \E text \in Seq(Raw) : f.sent = ShowWhole(text)
          /\ ~reader.lost => f.sent = Show(SubSeq(file, 1, reader.offset))
      BY <1>17, <2>1, FlushedIsMasked
    <3> HIDE DEF f
    <3>4. gone \in BOOLEAN
      OBVIOUS
    <3>5. reader' = [f EXCEPT !.pc = "done", !.lost = gone]
      BY <3>1, <3>2
    <3> HIDE DEF gone
    <3>6. /\ reader' \in ReaderStates /\ reader'.offset = reader.offset /\ reader'.buffer = <<>>
          /\ reader'.told = reader.told /\ reader'.sent = f.sent /\ reader'.pc = "done"
          /\ reader'.lost = gone
      BY <3>1, <3>4, <3>5 DEF ReaderStates, ReaderPCs
    <3>7. (\E text \in Seq(Raw) : reader.sent = ShowWhole(text))'
      BY <1>6, <2>1, <3>3, <3>6
    <3>8. ~reader'.lost => reader'.sent = Show(SubSeq(file, 1, reader'.offset))
      BY <3>3, <3>6 DEF gone
    <3>9. ~reader'.lost => reader'.sent = ShowWhole(file)
      <4>1. ~gone => NextChunk = <<>>
        BY <2>3 DEF gone, MoreText
      <4>2. ~gone => reader.offset = Len(file)
        BY <4>1, NextChunkIs
      <4>3. SubSeq(file, 1, Len(file)) = file
        BY <1>1, SubSeqFull
      <4> QED
        BY <1>2, <1>17, <2>1, <3>6, <3>8, <4>2, <4>3
    <3>10. (~reader'.lost /\ ~Deferred') => reader'.sent = Show(SubSeq(file, 1, reader.offset))'
      BY <1>4, <2>1, <3>8
    <3>11. reader'.offset <= Len(file)
      BY <1>1, <3>6
    <3> QED
      BY <1>3, <1>5, <2>1, <3>6, <3>7, <3>9, <3>10, <3>11
  <2> QED
    BY <2>2, <2>3
<1> QED
  BY <1>9, <1>10, <1>11, <1>12, <1>14, <1>15, <1>19, <1>20, <1>21 DEF Read

----
(***************************************************************************)
(* The log's end.                                                          *)
(***************************************************************************)
LEMMA OwnIs ==
  ASSUME NEW text \in Seq(Raw)
  PROVE  /\ Own(text) \subseteq 1..Len(text) /\ Len(text) \in Nat
         /\ IsFiniteSet(Own(text)) /\ Cardinality(Own(text)) \in Nat
         /\ \A i \in Own(text) : FromTheEnd(text, i) \in Nat /\ FromTheEnd(text, i) >= 1
<1>1. Len(text) \in Nat /\ Own(text) \subseteq 1..Len(text)
  BY LenProperties DEF Own
<1>2. IsFiniteSet(1..Len(text))
  BY <1>1, FS_Interval
<1>3. IsFiniteSet(Own(text)) /\ Cardinality(Own(text)) \in Nat
  BY <1>1, <1>2, FS_Subset, FS_CardinalityType
<1>4. ASSUME NEW i \in Own(text)
      PROVE  FromTheEnd(text, i) \in Nat /\ FromTheEnd(text, i) >= 1
  <2> DEFINE S == {j \in Own(text) : i <= j}
  <2>1. S \in SUBSET Own(text) /\ i \in S
    BY <1>1
  <2> HIDE DEF S
  <2>2. IsFiniteSet(S) /\ S # {}
    BY <1>3, <2>1, FS_Subset
  <2>3. Cardinality(S) \in Nat /\ Cardinality(S) # 0
    BY <2>2, FS_CardinalityType, FS_EmptySet
  <2> QED
    BY <2>3 DEF FromTheEnd, S
<1> QED
  BY <1>1, <1>3, <1>4

LEMMA EndsInNothing ==
  ASSUME NEW text \in Seq(Raw)
  PROVE  EndsIn(text, <<>>)
<1>1. Len(<<>>) = 0
  BY EmptySeq
<1> QED
  BY <1>1, OwnIs DEF EndsIn

LEMMA EndsInBeforeMarker ==
  ASSUME NEW text \in Seq(Raw), NEW word, EndsIn(text, word)
  PROVE  EndsIn(text \o Marker, word)
<1> DEFINE n == Len(text)
           t == text \o Marker
<1>1. Marker \in Seq(Raw) /\ Len(Marker) = 1
  <2>1. Marker[1] \in Raw /\ Marker = <<Marker[1]>>
    BY DEF Marker, Raw
  <2> QED
    BY <2>1, OneIsASeq DEF Marker
<1>2. /\ n \in Nat /\ t \in Seq(Raw) /\ DOMAIN t = 1..(n + 1) /\ DOMAIN text = 1..n
      /\ \A i \in 1..(n + 1) : t[i] = IF i <= n THEN text[i] ELSE Marker[i - n]
  BY <1>1, ConcatProperties, LenProperties
<1> HIDE DEF t, n
<1>3. \A i \in 1..n : t[i] = text[i]
  <2> TAKE i \in 1..n
  <2>1. i \in 1..(n + 1) /\ i <= n
    BY <1>2
  <2> QED
    BY <1>2, <2>1
<1>4. t[n + 1] = Marker[1]
  <2>1. n + 1 \in 1..(n + 1) /\ ~(n + 1 <= n) /\ n + 1 - n = 1
    BY <1>2
  <2>2. t[n + 1] = Marker[n + 1 - n]
    BY <1>2, <2>1
  <2> QED
    BY <2>1, <2>2
<1>5. Own(t) = Own(text)
  <2>1. \A i \in 1..(n + 1) : i \in 1..n \/ i = n + 1
    BY <1>2
  <2>2. \A i \in 1..n : i \in 1..(n + 1)
    BY <1>2
  <2> QED
    BY <1>2, <1>3, <1>4, <2>1, <2>2 DEF Own
<1>6. \A i : FromTheEnd(t, i) = FromTheEnd(text, i)
  BY <1>5 DEF FromTheEnd
<1>7. \A i \in Own(text) : t[i] = text[i]
  BY <1>2, <1>3 DEF Own
<1>8. EndsIn(t, word)
  BY <1>5, <1>6, <1>7 DEF EndsIn
<1> QED
  BY <1>8 DEF t

LEMMA EndsInGrows ==
  ASSUME NEW text \in Seq(Raw), NEW word \in Seq(Bytes), NEW x \in Seq(Bytes),
         EndsIn(text, word)
  PROVE  EndsIn(text \o x, word \o x)
<1> DEFINE n == Len(text)
           m == Len(x)
           l == Len(word)
           t == text \o x
           w == word \o x
           O == Own(text)
           New == (n + 1)..(n + m)
<1>1. /\ x \in Seq(Raw) /\ n \in Nat /\ m \in Nat /\ l \in Nat
      /\ \A i \in 1..m : x[i] # Marker[1]
  <2>1. x \in Seq(Raw)
    BY SeqMonotonic DEF Raw
  <2>2. \A i \in 1..m : x[i] \in Bytes
    BY ElementOfSeq
  <2> QED
    BY <2>1, <2>2, LenProperties, LogConstants DEF Added
<1>2. /\ t \in Seq(Raw) /\ DOMAIN t = 1..(n + m) /\ DOMAIN text = 1..n
      /\ \A i \in 1..(n + m) : t[i] = IF i <= n THEN text[i] ELSE x[i - n]
      /\ Len(w) = l + m
      /\ \A i \in 1..(l + m) : w[i] = IF i <= l THEN word[i] ELSE x[i - l]
  BY <1>1, ConcatProperties, LenProperties
<1>3. /\ O \subseteq 1..n /\ IsFiniteSet(O) /\ Cardinality(O) \in Nat
      /\ \A i \in O : FromTheEnd(text, i) \in Nat /\ FromTheEnd(text, i) >= 1
  BY OwnIs
<1>4. /\ l <= Cardinality(O)
      /\ \A i \in O : FromTheEnd(text, i) <= l => text[i] = word[l + 1 - FromTheEnd(text, i)]
  BY DEF EndsIn
<1>5. \A i \in 1..n : i \in O <=> text[i] # Marker[1]
  BY <1>2 DEF Own
<1>6. \A i : i \in Own(t) <=> i \in 1..(n + m) /\ t[i] # Marker[1]
  BY <1>2 DEF Own
<1>7. \A i : FromTheEnd(text, i) = Cardinality({j \in O : i <= j})
             /\ FromTheEnd(t, i) = Cardinality({j \in Own(t) : i <= j})
  BY DEF FromTheEnd
<1>8. EndsIn(t, w) <=> /\ l + m <= Cardinality(Own(t))
                       /\ \A i \in Own(t) :
                            FromTheEnd(t, i) <= l + m => t[i] = w[l + m + 1 - FromTheEnd(t, i)]
  BY <1>2 DEF EndsIn
<1> HIDE DEF n, m, l, t, w, O
<1>9. Own(t) = O \cup New
  <2>1. ASSUME NEW i PROVE i \in Own(t) <=> i \in O \cup New
    <3>1. CASE i \in 1..n
      <4>1. i \in 1..(n + m) /\ i <= n /\ i \notin New
        BY <1>1, <3>1
      <4> QED
        BY <1>2, <1>5, <1>6, <3>1, <4>1
    <3>2. CASE i \in New
      <4>1. i \in 1..(n + m) /\ ~(i <= n) /\ i - n \in 1..m
        BY <1>1, <3>2
      <4> QED
        BY <1>1, <1>2, <1>6, <3>2, <4>1
    <3>3. CASE i \notin 1..n /\ i \notin New
      <4>1. i \notin 1..(n + m)
        BY <1>1, <3>3
      <4> QED
        BY <1>3, <1>6, <3>3, <4>1
    <3> QED
      BY <3>1, <3>2, <3>3
  <2> QED
    BY <2>1
<1>10. IsFiniteSet(New) /\ Cardinality(New) = m
  <2> DEFINE a == n + 1
             b == n + m
  <2>1. a \in Int /\ b \in Int /\ b - a + 1 = m /\ (a > b => m = 0) /\ New = a..b
    BY <1>1
  <2> HIDE DEF a, b
  <2>2. IsFiniteSet(a..b) /\ Cardinality(a..b) = IF a > b THEN 0 ELSE b - a + 1
    BY <2>1, FS_Interval
  <2> QED
    BY <2>1, <2>2
<1>11. ASSUME NEW S, S \subseteq O
       PROVE  Cardinality(S \cup New) = Cardinality(S) + m
  <2>1. IsFiniteSet(S) /\ Cardinality(S) \in Nat
    BY <1>3, <1>11, FS_Subset, FS_CardinalityType
  <2>2. S \cap New = {}
    BY <1>1, <1>3, <1>11
  <2>3. Cardinality(S \cup New) = Cardinality(S) + Cardinality(New) - Cardinality(S \cap New)
    BY <1>10, <2>1, FS_Union
  <2>4. Cardinality(S \cap New) = 0
    BY <2>2, FS_EmptySet
  <2>5. Cardinality(S \cup New) = Cardinality(S) + m - 0
    BY <1>10, <2>3, <2>4
  <2> QED
    BY <1>1, <2>1, <2>5
<1>12. l + m <= Cardinality(Own(t))
  BY <1>1, <1>3, <1>4, <1>9, <1>11
<1>13. ASSUME NEW i \in O, FromTheEnd(t, i) <= l + m
       PROVE  t[i] = w[l + m + 1 - FromTheEnd(t, i)]
  <2> DEFINE f == FromTheEnd(text, i)
  <2>0. i \in 1..n /\ i \in 1..(n + m) /\ i <= n /\ f \in Nat /\ f >= 1
    BY <1>1, <1>3
  <2>1. {j \in Own(t) : i <= j} = {j \in O : i <= j} \cup New
    <3>1. \A j \in New : i <= j
      BY <1>1, <2>0
    <3> QED
      BY <1>9, <3>1
  <2>2. FromTheEnd(t, i) = f + m
    <3>1. {j \in O : i <= j} \subseteq O
      OBVIOUS
    <3> QED
      BY <1>7, <1>11, <2>1, <3>1
  <2> HIDE DEF f
  <2>3. f <= l /\ l + m + 1 - (f + m) = l + 1 - f /\ l + 1 - f \in 1..(l + m) /\ l + 1 - f <= l
    BY <1>1, <1>13, <2>0, <2>2
  <2>4. t[i] = text[i] /\ text[i] = word[l + 1 - f]
    BY <1>2, <1>4, <2>0, <2>3 DEF f
  <2>5. w[l + 1 - f] = word[l + 1 - f]
    BY <1>2, <2>3
  <2> QED
    BY <2>2, <2>3, <2>4, <2>5
<1>14. ASSUME NEW i \in New
       PROVE  t[i] = w[l + m + 1 - FromTheEnd(t, i)]
  <2>0. i \in 1..(n + m) /\ ~(i <= n) /\ i \in Int
    BY <1>1
  <2>1. {j \in Own(t) : i <= j} = i..(n + m)
    <3>1. \A j \in O : ~(i <= j)
      BY <1>1, <1>3, <2>0
    <3>2. \A j \in New : i <= j <=> j \in i..(n + m)
      BY <1>1, <2>0
    <3>3. \A j \in i..(n + m) : j \in New
      BY <1>1
    <3> QED
      BY <1>9, <3>1, <3>2, <3>3
  <2>2. FromTheEnd(t, i) = n + m - i + 1
    <3> DEFINE b == n + m
    <3>1. i \in Int /\ b \in Int /\ ~(i > b) /\ b - i + 1 = n + m - i + 1
      BY <1>1, <2>0
    <3>2. FromTheEnd(t, i) = Cardinality(i..b)
      BY <1>7, <2>1
    <3> HIDE DEF b
    <3>3. Cardinality(i..b) = IF i > b THEN 0 ELSE b - i + 1
      BY <3>1, FS_Interval
    <3> QED
      BY <3>1, <3>2, <3>3
  <2> DEFINE h == l + m + 1 - (n + m - i + 1)
  <2>3. h \in 1..(l + m) /\ ~(h <= l) /\ h - l = i - n
    BY <1>1, <2>0
  <2> HIDE DEF h
  <2>4. w[h] = x[i - n] /\ t[i] = x[i - n]
    BY <1>2, <2>0, <2>3
  <2> QED
    BY <2>2, <2>4 DEF h
<1>15. EndsIn(t, w)
  BY <1>8, <1>9, <1>12, <1>13, <1>14
<1> QED
  BY <1>15 DEF t, w

----
(***************************************************************************)
(* The execution.                                                          *)
(***************************************************************************)
Over == exec.pc \in {"backoff", "marked", "ended"}
ByItself == exec.end \in {"exit", "signal"}

\* The status follows the task.
PhaseInvariant ==
  /\ exec.pc = "begin" => status = "pending"
  /\ exec.pc \in {"running", "exited", "body"} => status = "running"
  /\ Over => IsTerminal
  /\ exec.pc \in {"backoff", "marked"} => exec.end = "exit"
  /\ exec.pc = "body" => kind = "http"

\* What this attempt wrote is in the file, or accepted by the handle, or still
\* to be copied, in this order.
Copied ==
  \E w \in Seq(Bytes) : /\ said = w \o (inflight \o output)
                        /\ EndsIn(file, w)
                        /\ exec.attempt = 0 => file = w

Arrived ==
  /\ inflight = <<>> /\ EndsIn(file, said)
  /\ exec.attempt = 0 /\ exec.pc # "marked" => file = said

\* Nothing but markers is left to land.
OnlyMarkers ==
  /\ late \in Seq({Marker})
  /\ exec.attempt = 0 /\ exec.pc # "marked" => late = <<>>

CommandInvariant ==
  /\ exec.pc = "begin" => inflight = <<>> /\ (exec.attempt = 0 => file = <<>>)
  /\ exec.pc \in {"running", "exited"} => Copied
  /\ Over /\ ByItself => Arrived
  /\ (exec.pc = "ended" => ByItself) => OnlyMarkers

CopyInvariant == kind = "command" => CommandInvariant

LEMMA PhaseSteps ==
  ASSUME TypeInvariant, PhaseInvariant, Execute \/ Copy \/ ReadBody \/ Land \/ LandLate
  PROVE  PhaseInvariant'
<1>1. exec \in [pc : ExecPCs, attempt : 0..MaxRetries,
                end : {"none", "exit", "signal", "not_started", "timeout"}]
  BY DEF TypeInvariant
<1>2. ASSUME NEW s \in {"failed", "timed_out", "success"},
             NEW end \in {"exit", "signal", "not_started", "timeout"}, Completes(s, end), kind' = kind
      PROVE  PhaseInvariant'
  <2>1. status' = s /\ exec'.end = end /\ exec'.pc \in {"ended", "backoff"}
    BY <1>1, <1>2 DEF Completes
  <2>2. exec'.pc = "backoff" => exec'.end = "exit"
    BY <1>1, <1>2 DEF Completes
  <2>3. s \in {"success", "failed", "timed_out"}
    BY <1>2
  <2>4. IsTerminal'
    BY <2>1, <2>3 DEF IsTerminal
  <2> QED
    BY <2>1, <2>2, <2>4 DEF PhaseInvariant, Over
<1>3. CASE MarkRunning
  BY <1>1, <1>3 DEF MarkRunning, PhaseInvariant, Over, IsTerminal
<1>4. CASE NotStarted
  BY <1>2, <1>4 DEF NotStarted
<1>5. CASE ChildExits
  BY <1>1, <1>5 DEF ChildExits, ExecAt, PhaseInvariant, Over, IsTerminal
<1>6. CASE Exit
  BY <1>2, <1>6 DEF Exit
<1>7. CASE TimesOut
  BY <1>2, <1>7 DEF TimesOut
<1>8. CASE Respond
  BY <1>1, <1>8 DEF Respond, ExecAt, PhaseInvariant, Over, IsTerminal
<1>9. CASE AppendRetryMarker
  BY <1>1, <1>9 DEF AppendRetryMarker, ExecAt, PhaseInvariant, Over, IsTerminal
<1>10. CASE ResetToPending
  BY <1>1, <1>10 DEF ResetToPending, PhaseInvariant, Over, IsTerminal
<1>11. CASE ReadBody
  BY <1>1, <1>11 DEF ReadBody, ExecAt, PhaseInvariant, Over, IsTerminal
<1>12. CASE Copy \/ Land \/ LandLate
  <2>1. UNCHANGED <<kind, status, exec>>
    BY <1>12 DEF Copy, Land, LandLate
  <2> QED
    BY <2>1 DEF PhaseInvariant, Over, IsTerminal
<1> QED
  BY <1>3, <1>4, <1>5, <1>6, <1>7, <1>8, <1>9, <1>10, <1>11, <1>12 DEF Execute

\* A marker that lands is not counted.
LEMMA MarkerLands ==
  ASSUME TypeInvariant, CommandInvariant, LandLate, exec.pc = "ended" => ByItself
  PROVE  /\ late' \in Seq({Marker}) /\ file' = file \o Marker
         /\ ~(exec.attempt = 0 /\ exec.pc # "marked")
         /\ \A w : EndsIn(file, w) => EndsIn(file', w)
<1>1. PICK i \in DOMAIN late : file' = file \o late[i] /\ late' = RemoveAt(late, i)
  BY DEF LandLate
<1>2. late \in Seq({Marker}) /\ (exec.attempt = 0 /\ exec.pc # "marked" => late = <<>>)
  BY DEF CommandInvariant, OnlyMarkers
<1>3. late[i] = Marker
  BY <1>1, <1>2, ElementOfSeq, LenProperties
<1>4. late # <<>>
  <2>1. DOMAIN <<>> = 1..0
    BY EmptySeq, LenProperties
  <2> QED
    BY <1>1, <2>1
<1>5. late' \in Seq({Marker})
  BY <1>1, <1>2, RemoveAtIs
<1>6. file \in Seq(Raw)
  BY DEF TypeInvariant
<1> QED
  BY <1>1, <1>2, <1>3, <1>4, <1>5, <1>6, EndsInBeforeMarker

LEMMA CommandSteps ==
  ASSUME TypeInvariant, PhaseInvariant, CommandInvariant, kind = "command",
         Execute \/ Copy \/ ReadBody \/ Land \/ LandLate
  PROVE  CommandInvariant'
<1>1. /\ exec \in [pc : ExecPCs, attempt : 0..MaxRetries,
                   end : {"none", "exit", "signal", "not_started", "timeout"}]
      /\ output \in Seq(Bytes) /\ said \in Seq(Bytes) /\ inflight \in Seq(Bytes)
      /\ file \in Seq(Raw) /\ late \in Seq(Seq(Raw))
  BY DEF TypeInvariant
<1>2. <<>> \in Seq(Raw) /\ <<>> \in Seq(Bytes) /\ \A s \in Seq(Bytes) : s \in Seq(Raw) /\ <<>> \o s = s /\ s \o <<>> = s
  BY SeqMonotonic, ConcatEmptySeq DEF Raw
<1>3. kind' = kind
  BY ExecutionTyped
\* What is late, when the attempt is not over.
<1>4. exec.pc # "ended" => OnlyMarkers
  BY DEF CommandInvariant
<1>5. CASE MarkRunning
  <2>1. /\ exec.pc = "begin" /\ exec'.pc = "running" /\ exec'.attempt = exec.attempt
        /\ said' = output' /\ output' \in Outputs /\ UNCHANGED <<inflight, late, file>>
    BY <1>1, <1>5 DEF MarkRunning, ExecAt
  <2>2. output' \in Seq(Bytes)
    BY <2>1, LogConstants
  <2>3. inflight = <<>> /\ (exec.attempt = 0 => file = <<>>)
    BY <2>1 DEF CommandInvariant
  <2>4. said' = <<>> \o (inflight' \o output')
    BY <1>2, <2>1, <2>2, <2>3
  <2>5. EndsIn(file, <<>>)'
    <3>1. EndsIn(file', <<>>)
      BY <1>1, <2>1, EndsInNothing
    <3> QED
      BY <3>1 DEF EndsIn, Own, FromTheEnd
  <2>6. Copied'
    BY <1>2, <2>1, <2>3, <2>4, <2>5 DEF Copied
  <2>7. OnlyMarkers'
    BY <1>4, <2>1 DEF OnlyMarkers
  <2> QED
    BY <2>1, <2>6, <2>7 DEF CommandInvariant, Over
<1>6. CASE NotStarted
  <2>1. exec'.pc = "ended" /\ exec'.end = "not_started"
    BY <1>1, <1>6 DEF NotStarted, Completes
  <2> QED
    BY <2>1 DEF CommandInvariant, ByItself
<1>7. CASE ChildExits
  <2>1. /\ exec.pc = "running" /\ exec'.pc = "exited" /\ exec'.attempt = exec.attempt
        /\ UNCHANGED <<output, said, inflight, late, file>>
    BY <1>1, <1>7 DEF ChildExits, ExecAt
  <2>2. Copied'
    BY <2>1 DEF CommandInvariant, Copied, EndsIn, Own, FromTheEnd
  <2>3. OnlyMarkers'
    BY <1>4, <2>1 DEF OnlyMarkers
  <2> QED
    BY <2>1, <2>2, <2>3 DEF CommandInvariant, Over
<1>8. CASE Exit
  <2>1. PICK s \in {"success", "failed"}, end \in {"exit", "signal"} : Completes(s, end)
    BY <1>8 DEF Exit
  <2>2. /\ exec.pc = "exited" /\ output = <<>> /\ inflight = <<>> /\ inflight' = <<>>
        /\ late' = late /\ said' = said /\ file' = file
    BY <1>8 DEF Exit, ExecAt, AllCopied, LateWith
  <2>3. exec'.pc \in {"backoff", "ended"} /\ exec'.attempt = exec.attempt
    BY <1>1, <2>1 DEF Completes
  <2>4. PICK w \in Seq(Bytes) : /\ said = w \o (inflight \o output)
                                /\ EndsIn(file, w)
                                /\ exec.attempt = 0 => file = w
    BY <2>2 DEF CommandInvariant, Copied
  <2>5. said = w
    BY <1>2, <2>2, <2>4
  <2>6. Arrived'
    BY <2>2, <2>3, <2>4, <2>5 DEF Arrived, EndsIn, Own, FromTheEnd
  <2>7. OnlyMarkers'
    BY <1>4, <2>2, <2>3 DEF OnlyMarkers
  <2> QED
    BY <2>3, <2>6, <2>7 DEF CommandInvariant
<1>9. CASE TimesOut
  <2>1. exec'.pc = "ended" /\ exec'.end = "timeout"
    BY <1>1, <1>9 DEF TimesOut, Completes
  <2> QED
    BY <2>1 DEF CommandInvariant, ByItself
<1>10. CASE Respond \/ ReadBody
  BY <1>10 DEF Respond, ReadBody, ExecAt, PhaseInvariant
<1>11. CASE AppendRetryMarker
  <2>1. /\ exec.pc = "backoff" /\ exec'.pc = "marked" /\ exec'.attempt = exec.attempt
        /\ exec'.end = exec.end /\ late' = Append(late, Marker)
        /\ UNCHANGED <<said, inflight, file>>
    BY <1>1, <1>11 DEF AppendRetryMarker, ExecAt
  <2>2. Arrived
    BY <2>1 DEF CommandInvariant, PhaseInvariant, Over, ByItself
  <2>3. Arrived'
    BY <2>1, <2>2 DEF Arrived, EndsIn, Own, FromTheEnd
  <2>4. late' \in Seq({Marker})
    BY <1>4, <2>1, AppendProperties DEF OnlyMarkers
  <2>5. OnlyMarkers'
    BY <2>1, <2>4 DEF OnlyMarkers
  <2> QED
    BY <2>1, <2>3, <2>5 DEF CommandInvariant
<1>12. CASE ResetToPending
  <2>1. /\ exec.pc = "marked" /\ exec'.pc = "begin" /\ exec'.attempt = exec.attempt + 1
        /\ exec'.end = exec.end /\ UNCHANGED <<late, inflight>>
    BY <1>1, <1>12 DEF ResetToPending, ExecAt
  <2>2. exec'.attempt # 0
    BY <1>1, <2>1
  <2>3. inflight = <<>>
    BY <2>1 DEF CommandInvariant, PhaseInvariant, Over, ByItself, Arrived
  <2>4. OnlyMarkers'
    BY <1>4, <2>1, <2>2 DEF OnlyMarkers
  <2> QED
    BY <2>1, <2>2, <2>3, <2>4 DEF CommandInvariant, Over
<1>13. CASE Copy
  <2>1. /\ inflight = <<>> /\ UNCHANGED <<exec, said, late, file>>
        /\ exec.pc \in {"running", "exited"}
    BY <1>13 DEF Copy
  <2>2. inflight' \o output' = output
    <3>1. PICK n \in 1..Min({PipeBytes, Len(output)}) :
            inflight' = SubSeq(output, 1, n) /\ output' = SubSeq(output, n + 1, Len(output))
      BY <1>13 DEF Copy
    <3>2. n \in 0..Len(output)
      <4>1. PipeBytes \in Nat /\ Len(output) \in Nat
        BY <1>1, LogConstants, LenProperties
      <4> DEFINE m == Min({PipeBytes, Len(output)})
      <4>2. m \in Nat /\ m = IF PipeBytes <= Len(output) THEN PipeBytes ELSE Len(output)
        BY <4>1, MinOfTwo
      <4>3. n \in 1..m
        BY <3>1
      <4> HIDE DEF m
      <4> QED
        BY <4>1, <4>2, <4>3
    <3> QED
      BY <1>1, <3>1, <3>2, CutInTwo
  <2>3. inflight \o output = output
    BY <1>1, <1>2, <2>1
  <2>4. Copied'
    BY <2>1, <2>2, <2>3 DEF CommandInvariant, Copied, EndsIn, Own, FromTheEnd
  <2>5. OnlyMarkers'
    BY <1>4, <2>1 DEF OnlyMarkers
  <2> QED
    BY <2>1, <2>4, <2>5 DEF CommandInvariant, Over
<1>14. CASE Land
  <2>1. /\ inflight # <<>> /\ file' = file \o inflight /\ inflight' = <<>>
        /\ UNCHANGED <<exec, output, said, late>>
    BY <1>14 DEF Land
  <2>2. OnlyMarkers => OnlyMarkers'
    BY <2>1 DEF OnlyMarkers
  <2>3. CASE exec.pc \in {"running", "exited"}
    <3>1. PICK w \in Seq(Bytes) : /\ said = w \o (inflight \o output)
                                  /\ EndsIn(file, w)
                                  /\ exec.attempt = 0 => file = w
      BY <2>3 DEF CommandInvariant, Copied
    <3>2. /\ w \o inflight \in Seq(Bytes)
          /\ w \in Seq(Raw) /\ inflight \in Seq(Raw) /\ output \in Seq(Raw)
      BY <1>1, <1>2, ConcatProperties
    <3>a. PICK v \in Seq(Bytes) : v = w \o inflight
      BY <3>2
    <3>3. EndsIn(file', v)
      BY <1>1, <2>1, <3>1, <3>a, EndsInGrows
    <3>4. said = v \o output
      BY <3>1, <3>2, <3>a, Associative
    <3>5. exec.attempt = 0 => file' = v
      BY <2>1, <3>1, <3>a
    <3>6. said' = v \o (inflight' \o output')
      BY <1>1, <1>2, <2>1, <3>4
    <3>7. EndsIn(file, v)'
      BY <3>3 DEF EndsIn, Own, FromTheEnd
    <3>8. Copied'
      BY <2>1, <3>5, <3>6, <3>7 DEF Copied
    <3>9. exec'.pc \in {"running", "exited"} /\ OnlyMarkers'
      BY <1>4, <2>1, <2>2, <2>3
    <3> QED
      BY <3>8, <3>9 DEF CommandInvariant, Over
  <2>4. CASE exec.pc \in {"body", "begin"}
    BY <2>1, <2>4 DEF CommandInvariant, PhaseInvariant
  <2>5. CASE Over
    BY <2>1, <2>2, <2>5 DEF CommandInvariant, Over, ByItself, Arrived
  <2> QED
    BY <1>1, <2>3, <2>4, <2>5 DEF Over, ExecPCs
<1>15. CASE LandLate
  <2>1. UNCHANGED <<exec, output, said, inflight>>
    BY <1>15 DEF LandLate
  <2>2. CASE exec.pc = "ended" /\ ~ByItself
    BY <2>1, <2>2 DEF CommandInvariant, ByItself
  <2>3. CASE exec.pc = "ended" => ByItself
    <3>1. /\ late' \in Seq({Marker}) /\ file' = file \o Marker
          /\ ~(exec.attempt = 0 /\ exec.pc # "marked")
          /\ \A w : EndsIn(file, w) => EndsIn(file', w)
      BY <1>15, <2>3, MarkerLands
    <3>2. \A w : EndsIn(file', w) <=> EndsIn(file, w)'
      BY DEF EndsIn, Own, FromTheEnd
    <3>3. OnlyMarkers'
      BY <2>1, <3>1 DEF OnlyMarkers
    <3>4. CASE exec.pc \in {"running", "exited"}
      <4>1. PICK w \in Seq(Bytes) : said = w \o (inflight \o output) /\ EndsIn(file, w)
        BY <3>4 DEF CommandInvariant, Copied
      <4>2. Copied'
        BY <2>1, <3>1, <3>2, <3>4, <4>1 DEF Copied
      <4> QED
        BY <2>1, <3>3, <3>4, <4>2 DEF CommandInvariant, Over
    <3>5. CASE exec.pc \in {"begin", "body"}
      BY <2>1, <3>1, <3>3, <3>5 DEF CommandInvariant, Over
    <3>6. CASE Over
      <4>1. Over' /\ (ByItself' <=> ByItself) /\ exec'.pc \notin {"begin", "running", "exited"}
        BY <2>1, <3>6 DEF Over, ByItself
      <4>2. ByItself => Arrived'
        <5> SUFFICES ASSUME ByItself PROVE Arrived'
          OBVIOUS
        <5>1. inflight = <<>> /\ EndsIn(file, said)
          BY <3>6 DEF CommandInvariant, Arrived
        <5>2. EndsIn(file, said)'
          BY <2>1, <3>1, <3>2, <5>1
        <5> QED
          BY <2>1, <3>1, <5>1, <5>2 DEF Arrived
      <4> QED
        BY <3>3, <4>1, <4>2 DEF CommandInvariant
    <3> QED
      BY <1>1, <3>4, <3>5, <3>6 DEF Over, ExecPCs
  <2> QED
    BY <2>2, <2>3
<1> QED
  BY <1>5, <1>6, <1>7, <1>8, <1>9, <1>10, <1>11, <1>12, <1>13, <1>14, <1>15 DEF Execute

----
(***************************************************************************)
(* The theorems.                                                           *)
(***************************************************************************)
\* Only who is told at the end of an execution is told that it succeeded or
\* failed, as long as there is no retry.
ToldInvariant ==
  exec.attempt = 0 /\ reader.told \in {"success", "failed"} => Over

StreamInvariant ==
  /\ TypeInvariant /\ ReaderInvariant /\ PhaseInvariant /\ CopyInvariant
  /\ ToldInvariant /\ AllIsShownWhenDone

LEMMA InitStream == Init => StreamInvariant
<1> SUFFICES ASSUME Init PROVE StreamInvariant
  OBVIOUS
<1>1. /\ exec = [pc |-> "begin", attempt |-> 0, end |-> "none"] /\ status = "pending"
      /\ output = <<>> /\ said = <<>> /\ inflight = <<>> /\ late = <<>> /\ file = <<>>
      /\ reader = NoReader /\ masking \in Maskings
      /\ log \in {"stdout", "stderr"} /\ kind \in {"command", "http"}
  BY DEF Init
<1>2. Len(<<>>) = 0 /\ \A T : <<>> \in Seq(T)
  BY EmptySeq
<1>3. 0 \in 0..MaxRetries /\ 0 \in Nat
  BY LogConstants
<1>4. TypeInvariant
  <2>1. reader \in ReaderStates /\ reader.offset = 0
    BY <1>1, <1>2, <1>3 DEF ReaderStates, NoReader, ReaderPCs, Text
  <2>2. exec \in [pc : ExecPCs, attempt : 0..MaxRetries,
                  end : {"none", "exit", "signal", "not_started", "timeout"}]
    BY <1>1, <1>3 DEF ExecPCs
  <2>3. exec.pc = "begin" /\ status \in Statuses
    BY <1>1 DEF Statuses
  <2> QED
    BY <1>1, <1>2, <2>1, <2>2, <2>3 DEF TypeInvariant
<1>5. reader.pc = "absent" /\ reader.told = "none" /\ ReaderInvariant
  BY <1>1 DEF ReaderInvariant, NoReader
<1>6. exec.pc = "begin" /\ PhaseInvariant /\ ~Over
  BY <1>1 DEF PhaseInvariant, Over
<1>7. CopyInvariant
  BY <1>1, <1>2, <1>6 DEF CopyInvariant, CommandInvariant, OnlyMarkers
<1> QED
  BY <1>4, <1>5, <1>6, <1>7 DEF StreamInvariant, ToldInvariant, AllIsShownWhenDone

\* Who has been told how an execution ended sees it change no more.
LEMMA ExecutionSteps ==
  ASSUME StreamInvariant, Execute \/ Copy \/ ReadBody \/ Land \/ LandLate
  PROVE  StreamInvariant'
<1>1. TypeInvariant' /\ FileGrows /\ UNCHANGED <<masking, log, kind, reader>>
  BY ExecutionTyped DEF StreamInvariant
<1>2. ReaderInvariant'
  BY <1>1, FileGrowsReaderStays DEF StreamInvariant
<1>3. PhaseInvariant'
  BY PhaseSteps DEF StreamInvariant
<1>4. CopyInvariant'
  BY <1>1, CommandSteps DEF StreamInvariant, CopyInvariant
<1>5. exec \in [pc : ExecPCs, attempt : 0..MaxRetries,
                end : {"none", "exit", "signal", "not_started", "timeout"}]
      /\ MaxRetries \in Nat
  BY LogConstants DEF StreamInvariant, TypeInvariant
<1>6. \/ exec'.attempt = exec.attempt
      \/ exec'.attempt = exec.attempt + 1 /\ exec.pc = "marked"
  <2>1. CASE Copy \/ Land \/ LandLate
    BY <2>1 DEF Copy, Land, LandLate
  <2>2. ASSUME NEW s, NEW end, Completes(s, end) PROVE exec'.attempt = exec.attempt
    BY <1>5, <2>2 DEF Completes
  <2>3. CASE NotStarted \/ TimesOut
    BY <2>2, <2>3 DEF NotStarted, TimesOut
  <2>4. CASE Exit
    BY <2>2, <2>4 DEF Exit
  <2>5. CASE MarkRunning \/ ChildExits
    BY <1>5, <2>5 DEF MarkRunning, ChildExits
  <2>6. CASE Respond \/ ReadBody \/ AppendRetryMarker
    BY <1>5, <2>6 DEF Respond, ReadBody, AppendRetryMarker
  <2>7. CASE ResetToPending
    BY <1>5, <2>7 DEF ResetToPending, ExecAt
  <2> QED
    BY <2>1, <2>3, <2>4, <2>5, <2>6, <2>7 DEF Execute
<1>7. exec'.attempt = 0 => exec.attempt = 0
  BY <1>5, <1>6
\* What may happen once it is over.
<1>8. ASSUME Over
      PROVE  \/ UNCHANGED <<exec, said>>
             \/ exec'.pc = "marked"
             \/ exec'.attempt = exec.attempt + 1
  BY <1>5, <1>8 DEF Over, Execute, MarkRunning, NotStarted, ChildExits, Exit, TimesOut, Respond,
     AppendRetryMarker, ResetToPending, Copy, ReadBody, Land, LandLate, ExecAt
<1>9. ToldInvariant'
  <2> SUFFICES ASSUME exec'.attempt = 0, reader'.told \in {"success", "failed"} PROVE Over'
    BY DEF ToldInvariant
  <2>1. Over /\ exec.attempt = 0
    BY <1>1, <1>7 DEF StreamInvariant, ToldInvariant
  <2> QED
    BY <1>8, <2>1 DEF Over
<1>10. AllIsShownWhenDone'
  <2> SUFFICES ASSUME /\ reader'.pc \in {"done", "shown"} /\ reader'.told \in {"success", "failed"}
                      /\ ~reader'.lost /\ kind' = "command"
                      /\ exec'.attempt = 0 /\ exec'.pc \in {"backoff", "ended"}
                      /\ exec'.end \in {"exit", "signal"}
               PROVE  reader'.sent = ShowWhole(said)'
    BY DEF AllIsShownWhenDone
  <2>1. Over /\ exec.attempt = 0
    BY <1>1, <1>7 DEF StreamInvariant, ToldInvariant
  <2>2. UNCHANGED <<exec, said>>
    BY <1>8, <2>1
  <2>3. reader.sent = ShowWhole(said)
    BY <1>1, <2>2 DEF StreamInvariant, AllIsShownWhenDone
  <2> QED
    BY <1>1, <2>2, <2>3 DEF ShowWhole, MaskSecrets
<1> QED
  BY <1>1, <1>2, <1>3, <1>4, <1>9, <1>10 DEF StreamInvariant

LEMMA CopyStays ==
  ASSUME OthersStay, CopyInvariant
  PROVE  CopyInvariant'
<1>1. UNCHANGED <<kind, exec, output, said, inflight, late, file>>
  BY DEF OthersStay
<1>2. \A w : EndsIn(file, w) => EndsIn(file, w)'
  BY <1>1 DEF EndsIn, Own, FromTheEnd
<1>3. Copied => Copied'
  BY <1>1, <1>2 DEF Copied
<1>4. EndsIn(file, said) => EndsIn(file, said)'
  BY <1>1 DEF EndsIn, Own, FromTheEnd
<1>5. Arrived => Arrived'
  BY <1>1, <1>4 DEF Arrived
<1> QED
  BY <1>1, <1>3, <1>5 DEF CopyInvariant, CommandInvariant, OnlyMarkers, Over, ByItself

LEMMA ReadingSteps ==
  ASSUME StreamInvariant, OpenPage \/ Connect \/ Read \/ Reload
  PROVE  StreamInvariant'
<1>1. /\ TypeInvariant' /\ ReaderInvariant' /\ OthersStay
      /\ reader'.told \in {reader.told, status, "none"}
      /\ reader'.pc \in {"done", "shown"} /\ ~reader'.lost => reader'.sent = ShowWhole(file)
  BY ReaderSteps DEF StreamInvariant
<1>2. UNCHANGED <<masking, log, kind, status, exec, output, said, inflight, late, file>>
  BY <1>1 DEF OthersStay
<1>3. PhaseInvariant'
  BY <1>2 DEF StreamInvariant, PhaseInvariant, Over, IsTerminal
<1>4. CopyInvariant'
  BY <1>1, CopyStays DEF StreamInvariant
<1>5. exec.pc \in ExecPCs
  BY DEF StreamInvariant, TypeInvariant
<1>6. status \in {"success", "failed"} => Over
  BY <1>5 DEF StreamInvariant, PhaseInvariant, Over, ExecPCs
<1>7. ToldInvariant'
  BY <1>1, <1>2, <1>6 DEF StreamInvariant, ToldInvariant, Over
<1>8. AllIsShownWhenDone'
  <2> SUFFICES ASSUME /\ reader'.pc \in {"done", "shown"}
                      /\ ~reader'.lost /\ kind = "command"
                      /\ exec.attempt = 0 /\ exec.pc \in {"backoff", "ended"}
                      /\ exec.end \in {"exit", "signal"}
               PROVE  reader'.sent = ShowWhole(said)'
    BY <1>2 DEF AllIsShownWhenDone
  <2>1. file = said
    BY DEF StreamInvariant, CopyInvariant, CommandInvariant, Arrived, Over, ByItself
  <2>2. reader'.sent = ShowWhole(said)
    BY <1>1, <2>1
  <2> QED
    BY <1>2, <2>2 DEF ShowWhole, MaskSecrets
<1> QED
  BY <1>1, <1>3, <1>4, <1>7, <1>8 DEF StreamInvariant

LEMMA NextStream == StreamInvariant /\ [Next]_vars => StreamInvariant'
<1> SUFFICES ASSUME StreamInvariant, [Next]_vars PROVE StreamInvariant'
  OBVIOUS
<1>1. CASE Execute \/ Copy \/ ReadBody \/ Land \/ LandLate
  BY <1>1, ExecutionSteps
<1>2. CASE OpenPage \/ Connect \/ Read \/ Reload
  BY <1>2, ReadingSteps
<1>3. CASE UNCHANGED vars
  <2>1. OthersStay /\ reader' = reader
    BY <1>3 DEF vars, OthersStay
  <2>2. TypeInvariant'
    BY <2>1 DEF OthersStay, StreamInvariant, TypeInvariant, RetriesLeft
  <2>3. ReaderInvariant'
    <3>1. file' = file \o <<>> /\ <<>> \in Seq(Raw) /\ masking' = masking
      BY <2>1, ConcatEmptySeq DEF OthersStay, StreamInvariant, TypeInvariant
    <3> QED
      BY <2>1, <3>1, FileGrowsReaderStays DEF StreamInvariant, FileGrows
  <2>4. PhaseInvariant'
    BY <2>1 DEF OthersStay, StreamInvariant, PhaseInvariant, Over, IsTerminal
  <2>5. CopyInvariant'
    BY <2>1, CopyStays DEF StreamInvariant
  <2>6. ToldInvariant'
    BY <2>1 DEF OthersStay, StreamInvariant, ToldInvariant, Over
  <2>7. ShowWhole(said)' = ShowWhole(said)
    BY <2>1 DEF OthersStay, ShowWhole, MaskSecrets
  <2>8. AllIsShownWhenDone'
    BY <2>1, <2>7 DEF OthersStay, StreamInvariant, AllIsShownWhenDone
  <2> QED
    BY <2>2, <2>3, <2>4, <2>5, <2>6, <2>8 DEF StreamInvariant
<1> QED
  BY <1>1, <1>2, <1>3 DEF Next

LEMMA StreamInvariantHolds == Spec => []StreamInvariant
<1>1. Init => StreamInvariant
  BY InitStream
<1>2. StreamInvariant /\ [Next]_vars => StreamInvariant'
  BY NextStream
<1> QED
  BY <1>1, <1>2, PTL DEF Spec

\* Every variable keeps its type, and the reader is never ahead of the file
\* (LogTail, run_with_retries).
THEOREM LogTypeCorrect == Spec => []TypeOK
<1>1. StreamInvariant => TypeOK
  <2> SUFFICES ASSUME StreamInvariant PROVE TypeOK
    OBVIOUS
  <2>1. TypeInvariant
    BY DEF StreamInvariant
  <2>2. /\ Seq(Bytes) \subseteq Text /\ Seq(Raw) \subseteq Text
    <3>1. Bytes \subseteq Bytes \cup Added /\ Raw \subseteq Bytes \cup Added
      BY DEF Raw, Added
    <3>2. /\ \A s \in Seq(Bytes) : s \in Seq(Bytes \cup Added)
          /\ \A s \in Seq(Raw) : s \in Seq(Bytes \cup Added)
      BY <3>1, SeqMonotonic
    <3> QED
      BY <3>2 DEF Text
  <2>3. late \in Seq(Text)
    <3>1. late \in Seq(Seq(Raw))
      BY <2>1 DEF TypeInvariant
    <3> QED
      BY <2>2, <3>1, SeqMonotonic
  <2>4. reader.offset \in 0..Len(file)
    BY <2>1, LenProperties DEF TypeInvariant, ReaderStates
  <2>5. reader \in [pc : ReaderPCs, offset : 0..Len(file), buffer : Text,
                    sent : Text, lost : BOOLEAN, told : Statuses \cup {"none"}]
    BY <2>1, <2>2, <2>4 DEF TypeInvariant, ReaderStates
  <2> QED
    BY <2>1, <2>2, <2>3, <2>5 DEF TypeInvariant, TypeOK
<1> QED
  BY <1>1, StreamInvariantHolds, PTL

\* Wherever the reads of the log file cut it, what the stream has sent and
\* what the masker holds are masked as the whole is (LogStreamMasker::push,
\* flush, safe_emit_prefix_len).
THEOREM StreamSendsMasked == Spec => []SentIsMasked
<1>1. StreamInvariant => SentIsMasked
  <2> SUFFICES ASSUME StreamInvariant, reader.pc \notin {"page", "shown"}, ~reader.lost, ~Deferred
               PROVE  reader.sent \o Show(reader.buffer) = Show(SubSeq(file, 1, reader.offset))
    BY DEF SentIsMasked
  <2>1. /\ TypeInvariant /\ ReaderInvariant /\ masking \in Maskings /\ reader.buffer \in Seq(Raw)
        /\ reader.pc \in ReaderPCs /\ reader.sent \in Text
    BY DEF StreamInvariant, TypeInvariant, ReaderStates
  <2>2. /\ Show(<<>>) = <<>> /\ \A s : SubSeq(s, 1, 0) = <<>>
        /\ <<>> \o <<>> = <<>> /\ reader.sent \o <<>> = reader.sent
    BY <2>1, NothingShown, ConcatEmptySeq, EmptySeq DEF Text
  <2>3. CASE reader.pc \in {"absent", "wait", "whole"}
    BY <2>1, <2>2, <2>3 DEF ReaderInvariant
  <2>4. CASE reader.pc \in {"poll", "check", "drain"}
    <3>1. PICK e \in Seq(Raw) : /\ reader.sent = Show(e) /\ Clean(e)
                                /\ e \o reader.buffer = SubSeq(file, 1, reader.offset)
      BY <2>1, <2>4 DEF ReaderInvariant, Streamed
    <3> QED
      BY <2>1, <3>1, ShowOfConcat
  <2>5. CASE reader.pc = "done"
    BY <2>1, <2>2, <2>5 DEF ReaderInvariant
  <2> QED
    BY <2>1, <2>3, <2>4, <2>5 DEF ReaderPCs
<1> QED
  BY <1>1, StreamInvariantHolds, PTL

\* No reader of a log is shown a secret or what a pattern matches, by the
\* stream or by the page (mask_and_escape, LogStreamMasker, execution_detail).
THEOREM SecretsStayHidden == Spec => []NothingSecretIsShown
<1>1. StreamInvariant => NothingSecretIsShown
  <2> SUFFICES ASSUME StreamInvariant,
                      NEW word \in ToSet(masking.secrets \o masking.patterns),
                      NEW i \in DOMAIN reader.sent
               PROVE  ~OccursAt(HtmlEscape(word), reader.sent, i)
    BY DEF NothingSecretIsShown
  <2>1. /\ TypeInvariant /\ ReaderInvariant /\ masking \in Maskings /\ reader.pc \in ReaderPCs
    BY DEF StreamInvariant, TypeInvariant, ReaderStates
  <2>2. reader.sent # <<>>
    <3>1. DOMAIN <<>> = 1..0
      BY EmptySeq, LenProperties
    <3> QED
      BY <3>1
  <2>3. \E text \in Seq(Raw) : reader.sent = ShowWhole(text)
    <3>1. CASE reader.pc \in {"poll", "check", "drain"}
      BY <2>1, <3>1, ShowIs DEF ReaderInvariant, Streamed
    <3>2. CASE reader.pc \in {"done", "shown"}
      BY <2>1, <3>2 DEF ReaderInvariant
    <3> QED
      BY <2>1, <2>2, <3>1, <3>2 DEF ReaderInvariant, ReaderPCs
  <2> QED
    BY <2>1, <2>3, ShownIsMasked
<1> QED
  BY <1>1, StreamInvariantHolds, PTL

\* Before an exit's status is stored, all that the attempt wrote to its pipe
\* is in the log file, whatever earlier attempts left to land (run_shell's
\* and run_script's join, mark_completed, append_retry_marker).
THEOREM OutputComesFirst == Spec => []OutputBeforeStatus
<1>1. StreamInvariant => OutputBeforeStatus
  <2> SUFFICES ASSUME StreamInvariant, kind = "command", IsTerminal, exec.end \in {"exit", "signal"}
               PROVE  EndsIn(file, said)
    BY DEF OutputBeforeStatus
  <2>1. exec.pc \in ExecPCs
    BY DEF StreamInvariant, TypeInvariant
  <2>2. Over
    BY <2>1 DEF StreamInvariant, PhaseInvariant, IsTerminal, Over, ExecPCs
  <2> QED
    BY <2>2 DEF StreamInvariant, CopyInvariant, CommandInvariant, Arrived, ByItself
<1> QED
  BY <1>1, StreamInvariantHolds, PTL

\* The end of a stream, and a page opened after the end, show all of what a
\* command that ended by itself wrote (log_stream's last reads, run_shell).
THEOREM AllIsShown == Spec => []AllIsShownWhenDone
<1>1. StreamInvariant => AllIsShownWhenDone
  BY DEF StreamInvariant
<1> QED
  BY <1>1, StreamInvariantHolds, PTL

=============================================================================
