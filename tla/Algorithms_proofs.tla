-------------------------- MODULE Algorithms_proofs --------------------------
(***************************************************************************)
(* The ten properties of the algorithms, for transcripts, conversations,   *)
(* tables and rankings of any size.  Most rest on what Ordered does: a     *)
(* ranking, an excerpt and a compaction are places of a list in an order.  *)
(* The sorts are handled by their orders, never by induction over lists;   *)
(* where a least element is needed LeastNat gives it.                      *)
(***************************************************************************)
EXTENDS Algorithms, FiniteSetTheorems, SequenceTheorems, WellFoundedInduction, TLAPS

\* A set of naturals that is not empty has a least one.
LEMMA LeastNat ==
    ASSUME NEW S \in SUBSET Nat, S # {}
    PROVE  \E n \in S : \A m \in S : n <= m
<1> DEFINE Below(m) == 1..m
           T == {Below(m) : m \in S}
           F == FiniteSubsetsOf(Nat)
<1>1. \A m \in S : Below(m) \in F
  <2> TAKE m \in S
  <2>1. m \in Int /\ 1 \in Int
    OBVIOUS
  <2>2. IsFiniteSet(Below(m))
    BY <2>1, FS_Interval
  <2>3. Below(m) \in SUBSET Nat
    OBVIOUS
  <2> QED
    BY <2>2, <2>3 DEF FiniteSubsetsOf
<1>2. T \subseteq F
  BY <1>1
<1>3. T # {}
  OBVIOUS
<1>4. IsWellFoundedOn(StrictSubsetOrdering(Nat), F)
  BY FS_StrictSubsetOrderingWellFounded
<1> HIDE DEF T, F
<1>5. \E x \in T : \A y \in T : ~(<<y, x>> \in StrictSubsetOrdering(Nat))
  BY <1>2, <1>3, <1>4, WFMin
<1>6. PICK n \in S : \A m \in S : ~(<<Below(m), Below(n)>> \in StrictSubsetOrdering(Nat))
  BY <1>5 DEF T
<1>7. \A m \in S : n <= m
  <2> SUFFICES ASSUME NEW m \in S, m < n PROVE FALSE
    OBVIOUS
  <2>1. Below(m) \subseteq Below(n) /\ n \in Below(n) /\ n \notin Below(m)
    OBVIOUS
  <2>2. <<Below(m), Below(n)>> \in StrictSubsetOrdering(Nat)
    BY <2>1 DEF StrictSubsetOrdering
  <2> QED
    BY <1>6, <2>2
<1> QED
  BY <1>7

\* Min and Max of a set of naturals, the latter bounded, are what they say.
LEMMA MinIs ==
    ASSUME NEW S \in SUBSET Nat, S # {}
    PROVE  Min(S) \in S /\ \A m \in S : Min(S) <= m
BY LeastNat DEF Min

\* Max of a bounded set of naturals is its greatest.
LEMMA MaxIs ==
    ASSUME NEW b \in Nat, NEW S \in SUBSET 0..b, S # {}
    PROVE  Max(S) \in S /\ \A m \in S : m <= Max(S)
<1> DEFINE T == {b - m : m \in S}
<1>1. T \in SUBSET Nat /\ T # {}
  <2>1. \A m \in S : b - m \in Nat
    OBVIOUS
  <2>2. PICK m \in S : TRUE
    OBVIOUS
  <2> QED
    BY <2>1, <2>2
<1> HIDE DEF T
<1>2. PICK t \in T : \A u \in T : t <= u
  BY <1>1, LeastNat
<1>3. PICK n \in S : t = b - n
  BY <1>2 DEF T
<1>4. \A m \in S : n >= m
  <2> TAKE m \in S
  <2>1. b - m \in T
    BY DEF T
  <2> QED
    BY <1>2, <1>3, <2>1
<1>5. Max(S) \in S /\ \A m \in S : Max(S) >= m
  BY <1>4 DEF Max
<1> QED
  BY <1>5

-----------------------------------------------------------------------------
\* A strict order that puts any two places one before the other.
StrictOrder(before, places) ==
    /\ \A a \in places : <<a, a>> \notin before
    /\ \A a, b, c \in places : <<a, b>> \in before /\ <<b, c>> \in before => <<a, c>> \in before
    /\ \A a, b \in places : a = b \/ <<a, b>> \in before \/ <<b, a>> \in before

\* Ordered puts a finite set, all of it and each place once, into the order it is given.
LEMMA OrderedIs ==
    ASSUME NEW S, IsFiniteSet(S), NEW R, StrictOrder(R, S)
    PROVE  /\ Cardinality(S) \in Nat
           /\ Ordered(S, R) \in [1..Cardinality(S) -> S]
           /\ \A i, j \in 1..Cardinality(S) : i < j <=> <<Ordered(S, R)[i], Ordered(S, R)[j]>> \in R
           /\ \A p \in S : \E i \in 1..Cardinality(S) : Ordered(S, R)[i] = p
<1> DEFINE N == Cardinality(S)
           under(p) == {q \in S : <<q, p>> \in R}
           rank(p) == Cardinality(under(p))
           pick(i) == CHOOSE p \in S : rank(p) = i - 1
           L == [i \in 1..N |-> pick(i)]
<1>1. N \in Nat
  BY FS_CardinalityType
<1>2. \A p \in S : IsFiniteSet(under(p))
  BY FS_Subset
<1>0. \A p \in S : rank(p) \in 0..N - 1
  <2> TAKE p \in S
  <2>1. under(p) \in SUBSET S /\ p \notin under(p)
    BY DEF StrictOrder
  <2>2. IsFiniteSet(under(p)) /\ rank(p) <= N /\ (N = rank(p) => S = under(p))
    BY <2>1, FS_Subset
  <2>3. rank(p) \in Nat
    BY <2>2, FS_CardinalityType
  <2>4. rank(p) # N
    BY <2>1, <2>2
  <2> HIDE DEF rank, N
  <2> QED
    BY <1>1, <2>2, <2>3, <2>4
<1>10. \A p \in S : rank(p) \in Nat /\ rank(p) + 1 \in 1..N
  <2> HIDE DEF rank, N
  <2> QED
    BY <1>0, <1>1
<1>3. ASSUME NEW p \in S, NEW q \in S, <<p, q>> \in R PROVE rank(p) < rank(q)
  <2>1. under(p) \in SUBSET under(q)
    BY <1>3 DEF StrictOrder
  <2>2. p \in under(q) /\ p \notin under(p)
    BY <1>3 DEF StrictOrder
  <2>3. rank(p) <= rank(q) /\ (rank(q) = rank(p) => under(q) = under(p))
    BY <1>2, <2>1, FS_Subset
  <2>4. rank(p) # rank(q)
    BY <2>2, <2>3
  <2>5. rank(p) \in Nat /\ rank(q) \in Nat
    BY <1>1, <1>10
  <2> HIDE DEF rank
  <2> QED
    BY <2>3, <2>4, <2>5
<1>4. \A p, q \in S : rank(p) = rank(q) => p = q
  <2> SUFFICES ASSUME NEW p \in S, NEW q \in S, rank(p) = rank(q), p # q PROVE FALSE
    OBVIOUS
  <2>1. <<p, q>> \in R \/ <<q, p>> \in R
    BY DEF StrictOrder
  <2>2. rank(p) \in Nat
    BY <1>1, <1>10
  <2>3. rank(p) < rank(q) \/ rank(q) < rank(p)
    BY <1>3, <2>1
  <2> HIDE DEF rank
  <2> QED
    BY <2>2, <2>3
<1>5. \A i \in 1..N : \E p \in S : rank(p) = i - 1
  <2> DEFINE f == [p \in S |-> rank(p) + 1]
  <2>1. f \in [S -> 1..N]
    BY <1>10
  <2>2. \A p, q \in S : f[p] = f[q] => p = q
    <3>1. \A p \in S : rank(p) \in Nat
      BY <1>1, <1>10
    <3> HIDE DEF rank
    <3> QED
      BY <1>4, <3>1
  <2>3. f \in Injection(S, 1..N)
    BY <2>1, <2>2 DEF Injection, IsInjective
  <2>4. IsFiniteSet(1..N) /\ Cardinality(1..N) = N
    BY <1>1, FS_Interval
  <2>5. f \in Surjection(S, 1..N)
    BY <2>3, <2>4, FS_Injection
  <2>6. \A i \in 1..N : \E p \in S : f[p] = i
    BY <2>5 DEF Surjection
  <2> HIDE DEF rank, N
  <2> QED
    BY <1>1, <1>10, <2>6
<1>6. \A i \in 1..N : L[i] \in S /\ rank(L[i]) = i - 1
  <2> TAKE i \in 1..N
  <2> HIDE DEF rank, N
  <2>1. pick(i) \in S /\ rank(pick(i)) = i - 1
    BY <1>5
  <2> HIDE DEF pick
  <2> QED
    BY <2>1
<1>7. L \in [1..N -> S]
  <2>1. \A i \in 1..N : pick(i) \in S
    BY <1>6
  <2> HIDE DEF pick, N
  <2> QED
    BY <2>1
<1>8. \A i, j \in 1..N : i < j <=> <<L[i], L[j]>> \in R
  <2> TAKE i, j \in 1..N
  <2> HIDE DEF rank, L, N
  <2>1. i < j <=> rank(L[i]) < rank(L[j])
    BY <1>1, <1>6
  <2>2. <<L[i], L[j]>> \in R => rank(L[i]) < rank(L[j])
    BY <1>3, <1>6
  <2>3. <<L[j], L[i]>> \in R => rank(L[j]) < rank(L[i])
    BY <1>3, <1>6
  <2>4. L[i] = L[j] \/ <<L[i], L[j]>> \in R \/ <<L[j], L[i]>> \in R
    BY <1>6 DEF StrictOrder
  <2>5. rank(L[i]) = i - 1 /\ rank(L[j]) = j - 1
    BY <1>6
  <2> QED
    BY <1>1, <2>1, <2>2, <2>3, <2>4, <2>5
<1>9. \A p \in S : \E i \in 1..N : L[i] = p
  <2> TAKE p \in S
  <2> HIDE DEF rank, L, N
  <2>1. rank(p) + 1 \in 1..N
    BY <1>1, <1>10
  <2>2. L[rank(p) + 1] \in S /\ rank(L[rank(p) + 1]) = rank(p)
    BY <1>1, <1>10, <1>6, <2>1
  <2> QED
    BY <1>4, <2>1, <2>2
<1>11. L = Ordered(S, R)
  BY DEF Ordered
<1> HIDE DEF L
<1> QED
  BY <1>1, <1>7, <1>8, <1>9, <1>11

\* A function on 1..n is a list of length n ...
LEMMA ListIs ==
    ASSUME NEW T, NEW n \in Nat, NEW list \in [1..n -> T]
    PROVE  list \in Seq(T) /\ Len(list) = n
OBVIOUS

\* ... and a list is such a function.
LEMMA ListPlaces ==
    ASSUME NEW T, NEW list \in Seq(T)
    PROVE  /\ Len(list) \in Nat /\ DOMAIN list = 1..Len(list)
           /\ list \in [1..Len(list) -> T]
           /\ IsFiniteSet(1..Len(list)) /\ Cardinality(1..Len(list)) = Len(list)
<1>1. Len(list) \in Nat /\ DOMAIN list = 1..Len(list) /\ list \in [1..Len(list) -> T]
  BY LenProperties
<1>2. IsFiniteSet(1..Len(list)) /\ Cardinality(1..Len(list)) = Len(list)
  <2> DEFINE n == Len(list)
  <2>1. n \in Int /\ 1 \in Int /\ n - 1 + 1 = n /\ n >= 0
    BY <1>1
  <2> HIDE DEF n
  <2>2. IsFiniteSet(1..n)
    BY ONLY <2>1, FS_Interval
  <2>3. Cardinality(1..n) = n
    BY ONLY <2>1, FS_Interval
  <2> QED
    BY <2>2, <2>3 DEF n
<1> QED
  BY <1>1, <1>2

\* list[:n] has the first n elements, or all if there are fewer.
LEMMA FirstOfIs ==
    ASSUME NEW T, NEW list \in Seq(T), NEW n \in Nat
    PROVE  /\ FirstOf(list, n) \in Seq(T)
           /\ Len(FirstOf(list, n)) = IF n < Len(list) THEN n ELSE Len(list)
           /\ \A i \in 1..Len(FirstOf(list, n)) : FirstOf(list, n)[i] = list[i]
<1> DEFINE m == IF n < Len(list) THEN n ELSE Len(list)
<1>1. Len(list) \in Nat
  BY ListPlaces
<1>2. m \in Nat /\ m \in Int /\ 1 \in Int /\ m <= Len(list)
  BY <1>1
<1>3. FirstOf(list, n) = SubSeq(list, 1, m)
  BY DEF FirstOf
<1> HIDE DEF m
<1>4. \A i \in 1..m : list[i] \in T
  BY <1>1, <1>2, ElementOfSeq
<1>5. /\ SubSeq(list, 1, m) \in Seq(T)
      /\ Len(SubSeq(list, 1, m)) = IF 1 <= m THEN m - 1 + 1 ELSE 0
      /\ \A i \in 1..m - 1 + 1 : SubSeq(list, 1, m)[i] = list[1 + i - 1]
  BY <1>2, <1>4, SubSeqProperties
<1>6. Len(SubSeq(list, 1, m)) = m
  BY <1>2, <1>5
<1>7. \A i \in 1..m : SubSeq(list, 1, m)[i] = list[i]
  <2> TAKE i \in 1..m
  <2>1. i \in 1..m - 1 + 1 /\ 1 + i - 1 = i
    BY <1>2
  <2> QED
    BY <1>5, <2>1
<1> QED
  BY <1>3, <1>5, <1>6, <1>7 DEF m

\* InPlace gives a set of naturals from the least on.
LEMMA InPlaceIs ==
    ASSUME NEW places \in SUBSET Nat, IsFiniteSet(places)
    PROVE  /\ Cardinality(places) \in Nat
           /\ InPlace(places) \in [1..Cardinality(places) -> places]
           /\ \A i, j \in 1..Cardinality(places) : i < j <=> InPlace(places)[i] < InPlace(places)[j]
           /\ \A p \in places : \E i \in 1..Cardinality(places) : InPlace(places)[i] = p
<1> DEFINE R == {pair \in places \X places : pair[1] < pair[2]}
           N == Cardinality(places)
           L == InPlace(places)
<1>1. \A a, b \in places : <<a, b>> \in R <=> a < b
  OBVIOUS
<1>0. L = Ordered(places, R)
  BY DEF InPlace
<1> HIDE DEF R, N, L
<1>2. StrictOrder(R, places)
  <2>1. \A a, b, c \in places : ~(a < a) /\ (a < b /\ b < c => a < c) /\ (a = b \/ a < b \/ b < a)
    OBVIOUS
  <2> QED
    BY <1>1, <2>1 DEF StrictOrder
<1>3. /\ N \in Nat /\ L \in [1..N -> places]
      /\ \A i, j \in 1..N : i < j <=> <<L[i], L[j]>> \in R
      /\ \A p \in places : \E i \in 1..N : L[i] = p
  BY <1>0, <1>2, OrderedIs DEF N
<1>4. \A i, j \in 1..N : i < j <=> L[i] < L[j]
  BY <1>1, <1>3
<1> QED
  BY <1>3, <1>4 DEF N, L

\* At(list, places) is what stands at the places, from the first to the last.
LEMMA AtIs ==
    ASSUME NEW T, NEW list \in Seq(T), NEW places \in SUBSET (DOMAIN list)
    PROVE  LET n == Cardinality(places)
               o == InPlace(places)
           IN  /\ n \in Nat /\ o \in [1..n -> places]
               /\ \A i, j \in 1..n : i < j <=> o[i] < o[j]
               /\ \A p \in places : \E i \in 1..n : o[i] = p
               /\ At(list, places) \in [1..n -> T]
               /\ \A i \in 1..n : At(list, places)[i] = list[o[i]]
<1> DEFINE n == Cardinality(places)
           o == InPlace(places)
<1>1. DOMAIN list = 1..Len(list) /\ Len(list) \in Nat /\ list \in [1..Len(list) -> T]
  BY ListPlaces
<1>2. IsFiniteSet(places) /\ places \in SUBSET Nat
  BY <1>1, ListPlaces, FS_Subset
<1>3. /\ n \in Nat /\ o \in [1..n -> places]
      /\ \A i, j \in 1..n : i < j <=> o[i] < o[j]
      /\ \A p \in places : \E i \in 1..n : o[i] = p
  BY <1>2, InPlaceIs
<1>4. At(list, places) = [i \in DOMAIN o |-> list[o[i]]]
  BY DEF At
<1> HIDE DEF n, o
<1>5. DOMAIN o = 1..n /\ \A i \in 1..n : list[o[i]] \in T
  BY <1>1, <1>3
<1>6. At(list, places) \in [1..n -> T] /\ \A i \in 1..n : At(list, places)[i] = list[o[i]]
  BY <1>4, <1>5
<1> QED
  BY <1>3, <1>6 DEF n, o

\* An order that may leave places equal.
WeakOrder(higher, places) ==
    /\ \A a, b \in places : <<a, b>> \in higher => <<b, a>> \notin higher
    /\ \A a, b, c \in places : <<a, c>> \in higher => <<a, b>> \in higher \/ <<b, c>> \in higher

\* A weak order, broken by place, is a strict order.
LEMMA BeforeIs ==
    ASSUME NEW places \in SUBSET Nat, NEW higher, WeakOrder(higher, places)
    PROVE  /\ StrictOrder(Before(places, higher), places)
           /\ \A a, b \in places : <<a, b>> \in Before(places, higher) <=>
                 <<a, b>> \in higher \/ (<<b, a>> \notin higher /\ a < b)
<1> DEFINE B == Before(places, higher)
<1>1. \A a, b \in places : <<a, b>> \in B <=> <<a, b>> \in higher \/ (<<b, a>> \notin higher /\ a < b)
  BY DEF Before
<1> HIDE DEF B
<1>2. \A a \in places : <<a, a>> \notin B
  BY <1>1 DEF WeakOrder
<1>3. ASSUME NEW a \in places, NEW b \in places, NEW c \in places, <<a, b>> \in B, <<b, c>> \in B
      PROVE  <<a, c>> \in B
  <2>1. <<b, a>> \notin higher /\ <<c, b>> \notin higher
    BY <1>1, <1>3 DEF WeakOrder
  <2>2. <<c, a>> \notin higher
    BY <2>1 DEF WeakOrder
  <2>3. CASE <<a, b>> \in higher \/ <<b, c>> \in higher
    <3>1. <<a, c>> \in higher
      BY <2>1, <2>3 DEF WeakOrder
    <3> QED
      BY <1>1, <3>1
  <2>4. CASE a < b /\ b < c
    <3>1. a < c
      BY <2>4
    <3> QED
      BY <1>1, <2>2, <3>1
  <2> QED
    BY <1>1, <1>3, <2>3, <2>4
<1>4. \A a, b \in places : a = b \/ <<a, b>> \in B \/ <<b, a>> \in B
  <2> TAKE a, b \in places
  <2>1. a = b \/ a < b \/ b < a
    OBVIOUS
  <2> QED
    BY <1>1, <2>1
<1>5. StrictOrder(B, places)
  BY <1>2, <1>3, <1>4 DEF StrictOrder
<1> QED
  BY <1>1, <1>5 DEF B

\* The places of a list from where SortedDown takes its items.
Sorting(list, higher) == Ordered(DOMAIN list, Before(DOMAIN list, higher))

\* SortedDown takes every place of the list once, higher ones first, and equals as they stand.
LEMMA SortedDownIs ==
    ASSUME NEW T, NEW list \in Seq(T), NEW higher, WeakOrder(higher, DOMAIN list)
    PROVE  LET o == Sorting(list, higher)
           IN  /\ o \in [1..Len(list) -> 1..Len(list)]
               /\ \A i, j \in 1..Len(list) : o[i] = o[j] => i = j
               /\ \A p \in 1..Len(list) : \E i \in 1..Len(list) : o[i] = p
               /\ \A i, j \in 1..Len(list) : i < j =>
                     /\ <<o[j], o[i]>> \notin higher
                     /\ <<o[i], o[j]>> \in higher \/ o[i] < o[j]
               /\ SortedDown(list, higher) \in [1..Len(list) -> T]
               /\ \A i \in 1..Len(list) : SortedDown(list, higher)[i] = list[o[i]]
<1> DEFINE n == Len(list)
           D == DOMAIN list
           B == Before(D, higher)
           o == Ordered(D, B)
           L == SortedDown(list, higher)
<1>1. n \in Nat /\ D = 1..n /\ list \in [1..n -> T] /\ IsFiniteSet(D) /\ Cardinality(D) = n
  BY ListPlaces
<1>2. L = [i \in DOMAIN o |-> list[o[i]]]
  BY DEF SortedDown
<1>3. StrictOrder(B, D) /\ \A a, b \in D : <<a, b>> \in B <=>
                              <<a, b>> \in higher \/ (<<b, a>> \notin higher /\ a < b)
  <2>1. D \in SUBSET Nat
    BY <1>1
  <2> HIDE DEF D
  <2> QED
    BY <2>1, BeforeIs DEF D
<1>0. WeakOrder(higher, D)
  OBVIOUS
<1> HIDE DEF n, D, B
<1>4. /\ o \in [1..n -> D]
      /\ \A i, j \in 1..n : i < j <=> <<o[i], o[j]>> \in B
      /\ \A p \in D : \E i \in 1..n : o[i] = p
  <2>1. IsFiniteSet(D) /\ StrictOrder(B, D)
    BY <1>1, <1>3
  <2> HIDE DEF o
  <2>2. /\ o \in [1..Cardinality(D) -> D]
        /\ \A i, j \in 1..Cardinality(D) : i < j <=> <<o[i], o[j]>> \in B
        /\ \A p \in D : \E i \in 1..Cardinality(D) : o[i] = p
    BY <2>1, OrderedIs DEF o
  <2> QED
    BY <1>1, <2>2
<1> HIDE DEF o, L
<1>5. o \in [1..n -> 1..n] /\ \A p \in 1..n : \E i \in 1..n : o[i] = p
  BY <1>1, <1>4
<1>6. \A i, j \in 1..n : o[i] = o[j] => i = j
  <2> SUFFICES ASSUME NEW i \in 1..n, NEW j \in 1..n, o[i] = o[j], i # j PROVE FALSE
    OBVIOUS
  <2>1. i < j \/ j < i
    BY <1>1
  <2>2. <<o[i], o[i]>> \in B
    BY <1>4, <2>1
  <2>3. o[i] \in D
    BY <1>4
  <2> QED
    BY <1>3, <2>2, <2>3 DEF StrictOrder
<1>7. \A i, j \in 1..n : i < j => <<o[j], o[i]>> \notin higher /\ (<<o[i], o[j]>> \in higher \/ o[i] < o[j])
  <2> SUFFICES ASSUME NEW i \in 1..n, NEW j \in 1..n, i < j
               PROVE  <<o[j], o[i]>> \notin higher /\ (<<o[i], o[j]>> \in higher \/ o[i] < o[j])
    OBVIOUS
  <2>1. <<o[i], o[j]>> \in B /\ o[i] \in D /\ o[j] \in D
    BY <1>4
  <2> QED
    BY <1>0, <1>3, <2>1 DEF WeakOrder
<1>8. L \in [1..n -> T] /\ \A i \in 1..n : L[i] = list[o[i]]
  BY <1>1, <1>2, <1>5
<1>9. o = Sorting(list, higher)
  BY DEF Sorting, o, B, D
<1> QED
  BY <1>5, <1>6, <1>7, <1>8, <1>9 DEF n, L

\* To have a higher key is a weak order.
LEMMA AboveIs ==
    ASSUME NEW S, NEW key \in [S -> Nat]
    PROVE  /\ WeakOrder(Above(key), S)
           /\ \A a, b \in S : <<a, b>> \in Above(key) <=> key[a] > key[b]
<1>1. \A a, b \in S : <<a, b>> \in Above(key) <=> key[a] > key[b]
  BY DEF Above
<1>2. \A a \in S : key[a] \in Nat
  OBVIOUS
<1> QED
  BY <1>1, <1>2 DEF WeakOrder

-----------------------------------------------------------------------------
\* Each action names the function it calls.
LEMMA Names ==
    /\ ChunkTranscript => call' \in {"chunk", "chunking"}
    /\ NextChunk => call' \in {"chunk", "chunking"}
    /\ ReadOn => call' = "excerpt"
    /\ Compact => call' = "compact"
    /\ BillCall => call' = "bill"
    /\ RrfFuse => call' = "fuse"
    /\ SearchSemantic => call' = "semantic"
    /\ SearchHybrid => call' = "hybrid"
    /\ Rerank => call' = "rerank"
    /\ EvaluateRetrieval => call' = "evaluate"
    /\ CountVideos => call' = "count"
<1>1. ChunkTranscript => call' \in {"chunk", "chunking"}
  BY DEF ChunkTranscript, Returns
<1>2. NextChunk => call' \in {"chunk", "chunking"}
  BY DEF NextChunk
<1>3. ReadOn => call' = "excerpt"
  BY DEF ReadOn, Returns
<1>4. Compact => call' = "compact"
  BY DEF Compact, Returns
<1>5. BillCall => call' = "bill"
  BY DEF BillCall, Returns
<1>6. RrfFuse => call' = "fuse"
  BY DEF RrfFuse, Returns
<1>7. SearchSemantic => call' = "semantic"
  BY DEF SearchSemantic, Returns
<1>8. SearchHybrid => call' = "hybrid"
  BY DEF SearchHybrid, Returns
<1>9. Rerank => call' = "rerank"
  BY DEF Rerank, Returns
<1>10. EvaluateRetrieval => call' = "evaluate"
  BY DEF EvaluateRetrieval, Returns
<1>11. CountVideos => call' = "count"
  BY DEF CountVideos, Returns
<1> QED
  BY <1>1, <1>2, <1>3, <1>4, <1>5, <1>6, <1>7, <1>8, <1>9, <1>10, <1>11

\* A step is a call or a turn of chunk_transcript.
LEMMA Steps ==
    ASSUME Next
    PROVE  ChunkTranscript \/ NextChunk \/ ReadOn \/ Compact \/ BillCall \/ RrfFuse
              \/ SearchSemantic \/ SearchHybrid \/ Rerank \/ EvaluateRetrieval \/ CountVideos
BY DEF Next

\* Every token is paid once, at the rate of its class (compute_cost_usd).
THEOREM TokensBilledOnce == Spec => []BilledOnce
<1>1. Init => BilledOnce
  BY DEF Init, BilledOnce
<1>2. BilledOnce /\ [Next]_vars => BilledOnce'
  <2>1. BillCall => BilledOnce'
    <3> SUFFICES ASSUME NEW fresh \in 0..MaxUsage, NEW read \in 0..MaxUsage,
                        NEW written \in 0..MaxUsage, NEW output \in 0..MaxUsage,
                        given' = [fresh |-> fresh, read |-> read, written |-> written, output |-> output],
                        result' = Bill(fresh + read + written, read, written, output)
                 PROVE  BilledOnce'
      BY DEF BillCall, Returns
    <3>1. fresh \in Nat /\ read \in Nat /\ written \in Nat
      OBVIOUS
    <3>2. (IF fresh + read + written > read + written
           THEN fresh + read + written - read - written ELSE 0) = fresh
      BY <3>1
    <3>3. result' = 20 * fresh + 2 * read + 25 * written + 100 * output
      BY <3>2 DEF Bill
    <3>4. given'.fresh = fresh /\ given'.read = read /\ given'.written = written /\ given'.output = output
      OBVIOUS
    <3> QED
      BY <3>3, <3>4 DEF BilledOnce
  <2>2. UNCHANGED vars => (BilledOnce => BilledOnce')
    BY DEF vars, BilledOnce
  <2>3. Next /\ ~BillCall => call' # "bill"
    BY Names, Steps
  <2> QED
    BY <2>1, <2>2, <2>3 DEF BilledOnce
<1> QED
  BY <1>1, <1>2, PTL DEF Spec

-----------------------------------------------------------------------------
\* What the tables of the feed hold.
LEMMA LibraryIs ==
    ASSUME NEW lib \in Libraries
    PROVE  /\ lib.channel \in [FeedVideos -> FeedChannels]
           /\ lib.states \in [FeedVideos -> States \cup {Null}]
           /\ lib.filed \in SUBSET (FeedChannels \X FeedCategories)
           /\ lib.recent = FeedVideos
BY DEF Libraries

\* A feed of one state is the videos in that state whose channel is in the category.
LEMMA FeedOf ==
    ASSUME NEW lib, NEW category, NEW state
    PROVE  \A v : v \in ListFeed(lib, category, {state}, TRUE) <=>
              /\ v \in FeedVideos /\ StateOf(lib, v) = state
              /\ category = Null \/ <<lib.channel[v], category>> \in lib.filed
BY DEF ListFeed

\* feed_counts' total is the size of the whole feed.
LEMMA TotalOf ==
    ASSUME NEW lib, NEW state
    PROVE  FeedCounts(lib, state).total = Cardinality(ListFeed(lib, Null, {state}, TRUE))
<1>1. FeedCounts(lib, state).total = Cardinality({v \in FeedVideos : StateOf(lib, v) = state})
  BY DEF FeedCounts
<1>2. {v \in FeedVideos : StateOf(lib, v) = state} = ListFeed(lib, Null, {state}, TRUE)
  BY FeedOf
<1> QED
  BY <1>1, <1>2

\* feed_counts' number for a category is the size of its feed.
LEMMA BadgeOf ==
    ASSUME NEW lib \in Libraries, NEW state, NEW category \in FeedCategories
    PROVE  LET by == FeedCounts(lib, state).by_category
           IN  (IF category \in DOMAIN by THEN by[category] ELSE 0) =
                  Cardinality(ListFeed(lib, category, {state}, TRUE))
<1> DEFINE joined == {row \in lib.filed \X FeedVideos :
                         lib.channel[row[2]] = row[1][1] /\ StateOf(lib, row[2]) = state}
           named == {row[1][2] : row \in joined}
           counted(c) == {row[2] : row \in {r \in joined : r[1][2] = c}}
           by == FeedCounts(lib, state).by_category
           feed == ListFeed(lib, category, {state}, TRUE)
<1>0. category # Null
  BY FeedAssumption
<1>1. by = [c \in named |-> Cardinality(counted(c))]
  BY DEF FeedCounts
<1>2. feed = {v \in FeedVideos : StateOf(lib, v) = state /\ <<lib.channel[v], category>> \in lib.filed}
  BY <1>0, FeedOf
<1>3. lib.filed \in SUBSET (FeedChannels \X FeedCategories)
  BY LibraryIs
<1> HIDE DEF by, feed
<1>4. \A v \in feed : <<<<lib.channel[v], category>>, v>> \in joined
  BY <1>2
<1>5. ASSUME NEW row \in joined, row[1][2] = category PROVE row[2] \in feed
  <2>1. row[1] \in lib.filed /\ row[2] \in FeedVideos /\ lib.channel[row[2]] = row[1][1]
        /\ StateOf(lib, row[2]) = state
    OBVIOUS
  <2>2. row[1] = <<row[1][1], row[1][2]>>
    BY <1>3, <2>1
  <2> QED
    BY <1>2, <1>5, <2>1, <2>2
<1> HIDE DEF joined
<1>6. counted(category) = feed
  <2>1. counted(category) \subseteq feed
    BY <1>5
  <2>2. ASSUME NEW v \in feed PROVE v \in counted(category)
    <3> DEFINE row == <<<<lib.channel[v], category>>, v>>
    <3>1. row \in joined /\ row[1][2] = category /\ row[2] = v
      BY <1>4
    <3> HIDE DEF row
    <3> QED
      BY <3>1
  <2> QED
    BY <2>1, <2>2
<1> HIDE DEF named, counted
<1>7. ASSUME category \in named
      PROVE  (IF category \in DOMAIN by THEN by[category] ELSE 0) = Cardinality(feed)
  BY <1>1, <1>6, <1>7
<1>8. ASSUME category \notin named
      PROVE  (IF category \in DOMAIN by THEN by[category] ELSE 0) = Cardinality(feed)
  <2>1. feed = {}
    <3> SUFFICES ASSUME NEW v \in feed PROVE FALSE
      OBVIOUS
    <3> DEFINE row == <<<<lib.channel[v], category>>, v>>
    <3>1. row \in joined /\ row[1][2] = category
      BY <1>4
    <3> HIDE DEF row
    <3> QED
      BY <1>8, <3>1 DEF named
  <2>2. Cardinality(feed) = 0
    BY <2>1, FS_EmptySet
  <2> QED
    BY <1>1, <1>8, <2>2
<1> QED
  BY <1>7, <1>8 DEF by, feed

\* list_categories' number of new videos is the size of the category's feed.
LEMMA TabOf ==
    ASSUME NEW lib \in Libraries, NEW category \in FeedCategories
    PROVE  ListCategories(lib)[category].new = Cardinality(ListFeed(lib, category, {"new"}, TRUE))
<1> DEFINE filed(k) == {c \in FeedChannels : <<c, k>> \in lib.filed}
           channelsOf(k) == IF filed(k) = {} THEN {Null} ELSE filed(k)
           own(c) == {v \in FeedVideos : lib.channel[v] = c}
           videosOf(c) == IF own(c) = {} THEN {Null} ELSE own(c)
           joined(k) == UNION {{<<c, v>> : v \in videosOf(c)} : c \in channelsOf(k)}
           isNew(row) == row[2] = Null \/ StateOf(lib, row[2]) = "new"
           new(k) == {row[2] : row \in {r \in joined(k) : isNew(r)}} \ {Null}
           feed == ListFeed(lib, category, {"new"}, TRUE)
<1>0. category # Null /\ Null \notin FeedVideos /\ Null \notin FeedChannels
  BY FeedAssumption
<1>1. ListCategories(lib)[category].new = Cardinality(new(category))
  BY DEF ListCategories
<1>2. feed = {v \in FeedVideos : StateOf(lib, v) = "new" /\ <<lib.channel[v], category>> \in lib.filed}
  BY <1>0, FeedOf
<1> HIDE DEF feed
<1>3. ASSUME NEW v \in feed PROVE v \in new(category)
  <2> DEFINE c == lib.channel[v]
             row == <<c, v>>
  <2>1. v \in FeedVideos /\ c \in FeedChannels /\ c \in filed(category)
    BY <1>2, LibraryIs
  <2>2. c \in channelsOf(category) /\ v \in videosOf(c)
    BY <2>1
  <2> HIDE DEF c, videosOf, channelsOf
  <2>3. row \in joined(category)
    BY <2>2
  <2>4. row[2] = v /\ v # Null /\ isNew(row)
    BY <1>0, <1>2, <2>1
  <2> HIDE DEF row, joined, isNew
  <2> QED
    BY <2>3, <2>4
<1>4. ASSUME NEW v \in new(category) PROVE v \in feed
  <2>1. PICK row \in joined(category) : isNew(row) /\ v = row[2] /\ v # Null
    OBVIOUS
  <2>2. PICK c \in channelsOf(category) : \E w \in videosOf(c) : row = <<c, w>>
    <3> HIDE DEF channelsOf, videosOf, isNew
    <3> QED
      OBVIOUS
  <2>3. v \in videosOf(c) /\ row = <<c, v>>
    BY <2>1, <2>2
  <2>4. v \in FeedVideos /\ lib.channel[v] = c
    BY <2>1, <2>3
  <2>5. c \in FeedChannels
    BY <2>4, LibraryIs
  <2>6. <<c, category>> \in lib.filed
    BY <1>0, <2>2, <2>5
  <2>7. StateOf(lib, v) = "new"
    BY <2>1
  <2> QED
    BY <1>2, <2>4, <2>6, <2>7
<1> HIDE DEF new
<1>5. new(category) = feed
  BY <1>3, <1>4
<1> QED
  BY <1>1, <1>5 DEF feed

\* The videos watch_stats counts are those of the watched feed.
LEMMA WatchedOf ==
    ASSUME NEW lib \in Libraries
    PROVE  /\ WatchStats(lib).watched = FeedCounts(lib, "watched").total
           /\ {v \in {w \in lib.recent : lib.states[w] # Null} : lib.states[v] = "watched"} =
                 {v \in FeedVideos : StateOf(lib, v) = "watched"}
<1>1. {v \in {w \in lib.recent : lib.states[w] # Null} : lib.states[v] = "watched"} =
         {v \in FeedVideos : StateOf(lib, v) = "watched"}
  <2>1. Null # "watched" /\ lib.recent = FeedVideos
    BY FeedAssumption, LibraryIs DEF States
  <2>2. \A v \in FeedVideos : StateOf(lib, v) = "watched" <=> lib.states[v] = "watched"
    BY <2>1 DEF StateOf
  <2> QED
    BY <2>1, <2>2
<1>2. WatchStats(lib).watched = Cardinality({v \in {w \in lib.recent : lib.states[w] # Null} : lib.states[v] = "watched"})
  BY DEF WatchStats
<1>3. FeedCounts(lib, "watched").total = Cardinality({v \in FeedVideos : StateOf(lib, v) = "watched"})
  BY DEF FeedCounts
<1> QED
  BY <1>1, <1>2, <1>3

\* watch_stats' number for a category is the size of its watched feed.
LEMMA StatsOf ==
    ASSUME NEW lib \in Libraries, NEW category \in FeedCategories
    PROVE  LET by == WatchStats(lib).by_category
           IN  (IF category \in DOMAIN by THEN by[category] ELSE 0) =
                  Cardinality(ListFeed(lib, category, {"watched"}, TRUE))
<1> DEFINE rows == {w \in lib.recent : lib.states[w] # Null}
           watched == {v \in rows : lib.states[v] = "watched"}
           joined == {row \in watched \X lib.filed : lib.channel[row[1]] = row[2][1]}
           named == {row[2][2] : row \in joined}
           counted(c) == {row \in joined : row[2][2] = c}
           by == WatchStats(lib).by_category
           feed == ListFeed(lib, category, {"watched"}, TRUE)
           row(v) == <<v, <<lib.channel[v], category>>>>
           f == [v \in feed |-> row(v)]
<1>0. category # Null
  BY FeedAssumption
<1>1. by = [c \in named |-> Cardinality(counted(c))]
  BY DEF WatchStats
<1>2. feed = {v \in watched : <<lib.channel[v], category>> \in lib.filed}
  <2>1. watched = {v \in FeedVideos : StateOf(lib, v) = "watched"}
    BY WatchedOf
  <2>2. \A v : v \in feed <=> /\ v \in FeedVideos /\ StateOf(lib, v) = "watched"
                             /\ <<lib.channel[v], category>> \in lib.filed
    BY <1>0, FeedOf
  <2> HIDE DEF watched, feed
  <2> QED
    BY <2>1, <2>2
<1>3. lib.filed \in SUBSET (FeedChannels \X FeedCategories) /\ watched \subseteq FeedVideos
  BY LibraryIs
<1> HIDE DEF by, feed, watched
<1>4. \A v \in feed : row(v) \in counted(category)
  BY <1>2
<1>5. ASSUME NEW r \in counted(category) PROVE r[1] \in feed /\ r = row(r[1])
  <2>1. r[1] \in watched /\ r[2] \in lib.filed /\ r = <<r[1], r[2]>> /\ lib.channel[r[1]] = r[2][1]
        /\ r[2][2] = category
    OBVIOUS
  <2>2. r[2] = <<r[2][1], r[2][2]>>
    BY <1>3, <2>1
  <2> QED
    BY <1>2, <2>1, <2>2
<1>6. \A v, w \in feed : row(v) = row(w) => v = w
  OBVIOUS
<1>7. IsFiniteSet(feed)
  <2>1. feed \in SUBSET FeedVideos
    BY <1>2, <1>3
  <2> QED
    BY <2>1, FS_Subset, FeedAssumption
<1> HIDE DEF row
<1>8. Cardinality(feed) = Cardinality(counted(category))
  <2> HIDE DEF counted
  <2>1. f \in [feed -> counted(category)]
    BY <1>4
  <2>2. \A v, w \in feed : f[v] = f[w] => v = w
    BY <1>6
  <2>3. \A r \in counted(category) : \E v \in feed : f[v] = r
    BY <1>5
  <2>4. f \in Surjection(feed, counted(category)) /\ f \in Injection(feed, counted(category))
    BY <2>1, <2>2, <2>3 DEF Surjection, Injection, IsInjective
  <2> HIDE DEF f
  <2> QED
    BY <1>7, <2>4, FS_Surjection
<1> HIDE DEF named, counted
<1>9. ASSUME category \in named
      PROVE  (IF category \in DOMAIN by THEN by[category] ELSE 0) = Cardinality(feed)
  BY <1>1, <1>8, <1>9
<1>10. ASSUME category \notin named
       PROVE  (IF category \in DOMAIN by THEN by[category] ELSE 0) = Cardinality(feed)
  <2>1. counted(category) = {}
    BY <1>10 DEF counted, named
  <2>2. Cardinality(counted(category)) = 0
    BY <2>1, FS_EmptySet
  <2> QED
    BY <1>1, <1>8, <1>10, <2>2
<1> QED
  BY <1>9, <1>10 DEF by, feed

\* The four queries over videos and states agree on how many videos are new and how
\* many are watched, in all and in every category (feed_counts, list_categories,
\* list_feed, get_watch_stats).
THEOREM QueriesAgree == Spec => []CountsAgree
<1>1. Init => CountsAgree
  BY DEF Init, CountsAgree
<1>2. CountsAgree /\ [Next]_vars => CountsAgree'
  <2>1. CountVideos => CountsAgree'
    <3> SUFFICES ASSUME NEW lib \in Libraries, given' = lib,
                        result' = [badges |-> FeedCounts(lib, "new"), watched |-> FeedCounts(lib, "watched"),
                                   tabs |-> ListCategories(lib), stats |-> WatchStats(lib)]
                 PROVE  CountsAgree'
      BY DEF CountVideos, Returns
    <3>1. /\ result'.badges = FeedCounts(lib, "new") /\ result'.watched = FeedCounts(lib, "watched")
          /\ result'.tabs = ListCategories(lib) /\ result'.stats = WatchStats(lib)
      OBVIOUS
    <3>2. result'.badges.total = Cardinality(ListFeed(lib, Null, {"new"}, TRUE))
      BY <3>1, TotalOf
    <3>3. result'.stats.watched = result'.watched.total
      BY <3>1, WatchedOf
    <3> QED
      BY <3>1, <3>2, <3>3, BadgeOf, TabOf, StatsOf DEF CountsAgree
  <2>2. UNCHANGED vars => (CountsAgree => CountsAgree')
    BY DEF vars, CountsAgree
  <2>3. Next /\ ~CountVideos => call' # "count"
    BY Names, Steps
  <2> QED
    BY <2>1, <2>2, <2>3 DEF CountsAgree
<1> QED
  BY <1>1, <1>2, PTL DEF Spec

-----------------------------------------------------------------------------
\* A list without repetitions.
Distinct(list) == \A i, j \in 1..Len(list) : list[i] = list[j] => i = j

\* IsInjective and Range, of a list.
LEMMA DistinctIs ==
    ASSUME NEW T, NEW list \in Seq(T)
    PROVE  /\ IsInjective(list) <=> Distinct(list)
           /\ Range(list) = {list[i] : i \in 1..Len(list)}
BY ListPlaces DEF IsInjective, Distinct, Range

\* Contains finds an element, and Rank its place.
LEMMA ContainsIs ==
    ASSUME NEW T, NEW list \in Seq(T), NEW v
    PROVE  /\ Contains(list, v) <=> v \in Range(list)
           /\ Contains(list, v) => Rank(list, v) \in 1..Len(list) /\ list[Rank(list, v)] = v
           /\ ~Contains(list, v) => Rank(list, v) = 0
<1>1. DOMAIN list = 1..Len(list) /\ Range(list) = {list[i] : i \in 1..Len(list)}
  BY ListPlaces, DistinctIs
<1>2. Contains(list, v) <=> \E i \in 1..Len(list) : list[i] = v
  BY DEF Contains
<1>3. Rank(list, v) = IF Contains(list, v) THEN CHOOSE n \in 1..Len(list) : list[n] = v ELSE 0
  BY <1>1 DEF Rank
<1>4. Contains(list, v) => Rank(list, v) \in 1..Len(list) /\ list[Rank(list, v)] = v
  BY <1>2, <1>3
<1> QED
  BY <1>1, <1>2, <1>3, <1>4

\* The lists a search may be given have no repetitions.
LEMMA ListsAre ==
    ASSUME NEW longest \in Nat, NEW list \in Lists(longest)
    PROVE  list \in Seq(Videos) /\ Len(list) \in 0..longest /\ Distinct(list)
<1>1. PICK n \in 0..longest : list \in [1..n -> Videos]
  BY DEF Lists
<1>2. IsInjective(list)
  BY DEF Lists
<1>3. n \in Nat
  BY <1>1
<1>4. list \in Seq(Videos) /\ Len(list) = n
  BY <1>1, <1>3, ListIs
<1> QED
  BY <1>2, <1>4, DistinctIs

\* Hits are lists of videos without repetitions, at most Pool long.
LEMMA HitsAre ==
    ASSUME NEW hits \in Hits
    PROVE  hits \in Seq(Videos) /\ Len(hits) \in 0..Pool /\ Distinct(hits)
BY ListsAre, RetrievalAssumption DEF Hits

\* What is taken out of a list without repetitions has none.
LEMMA AtDistinct ==
    ASSUME NEW T, NEW list \in Seq(T), Distinct(list), NEW places \in SUBSET (DOMAIN list)
    PROVE  /\ At(list, places) \in Seq(T)
           /\ Distinct(At(list, places))
           /\ Range(At(list, places)) = {list[p] : p \in places}
<1> DEFINE n == Cardinality(places)
           o == InPlace(places)
<1>1. /\ n \in Nat /\ o \in [1..n -> places]
      /\ \A i, j \in 1..n : i < j <=> o[i] < o[j]
      /\ \A p \in places : \E i \in 1..n : o[i] = p
      /\ At(list, places) \in [1..n -> T]
      /\ \A i \in 1..n : At(list, places)[i] = list[o[i]]
  BY AtIs
<1> HIDE DEF n, o
<1>2. At(list, places) \in Seq(T) /\ Len(At(list, places)) = n
  BY <1>1, ListIs
<1>3. \A i \in 1..n : o[i] \in 1..Len(list) /\ o[i] \in Nat /\ o[i] \in places
  <2>1. places \subseteq 1..Len(list) /\ Len(list) \in Nat
    BY ListPlaces
  <2> QED
    BY <1>1, <2>1
<1> DEFINE L == At(list, places)
<1> HIDE DEF L
<1>4. \A i, j \in 1..n : L[i] = L[j] => i = j
  <2> SUFFICES ASSUME NEW i \in 1..n, NEW j \in 1..n, L[i] = L[j] PROVE i = j
    OBVIOUS
  <2>1. o[i] = o[j]
    BY <1>1, <1>3 DEF L, Distinct
  <2>2. ~(i < j) /\ ~(j < i)
    BY <1>1, <1>3, <2>1
  <2> QED
    BY <1>1, <2>2
<1>5. {L[i] : i \in 1..n} = {list[p] : p \in places}
  <2>1. \A i \in 1..n : L[i] = list[o[i]] /\ o[i] \in places
    BY <1>1, <1>3 DEF L
  <2>2. \A p \in places : \E i \in 1..n : L[i] = list[p]
    BY <1>1 DEF L
  <2> QED
    BY <2>1, <2>2
<1>6. Range(L) = {L[i] : i \in 1..n}
  BY <1>2, DistinctIs DEF L
<1> QED
  BY <1>2, <1>4, <1>5, <1>6 DEF L, Distinct

\* Cutting a list leaves no repetitions and nothing new.
LEMMA FirstOfDistinct ==
    ASSUME NEW T, NEW list \in Seq(T), Distinct(list), NEW n \in Nat
    PROVE  /\ Distinct(FirstOf(list, n))
           /\ Range(FirstOf(list, n)) \subseteq Range(list)
<1> DEFINE F == FirstOf(list, n)
<1>1. F \in Seq(T) /\ Len(F) \in Nat /\ Len(list) \in Nat /\ Len(F) <= Len(list)
      /\ \A i \in 1..Len(F) : F[i] = list[i]
  BY FirstOfIs, ListPlaces
<1> HIDE DEF F
<1>2. \A i \in 1..Len(F) : i \in 1..Len(list)
  BY <1>1
<1>3. Distinct(F)
  BY <1>1, <1>2 DEF Distinct
<1>4. Range(F) = {F[i] : i \in 1..Len(F)} /\ Range(list) = {list[i] : i \in 1..Len(list)}
  BY <1>1, DistinctIs
<1>5. Range(F) \subseteq Range(list)
  BY <1>1, <1>2, <1>4
<1> QED
  BY <1>3, <1>5 DEF F

\* Sorting a list without repetitions.
LEMMA SortedDownDistinct ==
    ASSUME NEW T, NEW list \in Seq(T), Distinct(list), NEW higher, WeakOrder(higher, DOMAIN list)
    PROVE  /\ SortedDown(list, higher) \in Seq(T) /\ Len(SortedDown(list, higher)) = Len(list)
           /\ Distinct(SortedDown(list, higher))
           /\ Range(SortedDown(list, higher)) = Range(list)
<1> DEFINE n == Len(list)
           L == SortedDown(list, higher)
<1> DEFINE o == Sorting(list, higher)
<1>1. /\ o \in [1..n -> 1..n]
      /\ \A i, j \in 1..n : o[i] = o[j] => i = j
      /\ \A p \in 1..n : \E i \in 1..n : o[i] = p
      /\ L \in [1..n -> T]
      /\ \A i \in 1..n : L[i] = list[o[i]]
  <2>1. WeakOrder(higher, DOMAIN list)
    OBVIOUS
  <2> QED
    BY ONLY <2>1, list \in Seq(T), SortedDownIs
<1> HIDE DEF o
<1>10. \A i, j \in 1..n : o[i] = o[j] => i = j
  BY <1>1
<1>11. \A p \in 1..n : \E i \in 1..n : o[i] = p
  BY <1>1
<1>2. n \in Nat
  BY ListPlaces
<1>3. Range(list) = {list[i] : i \in 1..n}
  BY DistinctIs
<1>4. \A i, j \in 1..n : list[i] = list[j] => i = j
  BY DEF Distinct
<1> HIDE DEF n, L
<1>5. L \in Seq(T) /\ Len(L) = n
  BY <1>1, <1>2, ListIs
<1>9. \A i \in 1..n : L[i] = list[o[i]] /\ o[i] \in 1..n
  BY <1>1
<1>6. \A i, j \in 1..n : L[i] = L[j] => i = j
  BY <1>4, <1>9, <1>10
<1>7. {L[i] : i \in 1..n} = {list[i] : i \in 1..n}
  <2>1. \A p \in 1..n : \E i \in 1..n : L[i] = list[p]
    BY <1>9, <1>11
  <2>2. {L[i] : i \in 1..n} \subseteq {list[i] : i \in 1..n}
    BY <1>9
  <2>3. \A p \in 1..n : list[p] \in {L[i] : i \in 1..n}
    BY <2>1
  <2> QED
    BY <2>2, <2>3
<1>8. Range(L) = {L[i] : i \in 1..n}
  BY <1>5, DistinctIs
<1> QED
  BY <1>3, <1>5, <1>6, <1>7, <1>8 DEF n, L, Distinct

-----------------------------------------------------------------------------
\* A chunk of the index, and the videos that have one.
Chunk == [video : Videos, score : 0..MaxScore]

\* Rows are chunks of videos with similarities.
LEMMA RowsAre ==
    ASSUME NEW rows \in Rows
    PROVE  /\ rows \in Seq(Chunk) /\ Len(rows) \in Nat /\ DOMAIN rows = 1..Len(rows)
           /\ \A r \in 1..Len(rows) : rows[r].video \in Videos /\ rows[r].score \in 0..MaxScore
           /\ MaxScore \in Nat
<1>1. PICK n \in 0..MaxChunks : rows \in [1..n -> Chunk]
  BY DEF Rows, Chunk
<1>2. rows \in Seq(Chunk)
  <2>1. n \in Nat
    OBVIOUS
  <2> QED
    BY <1>1, <2>1, ListIs
<1>3. Len(rows) \in Nat /\ DOMAIN rows = 1..Len(rows) /\ rows \in [1..Len(rows) -> Chunk]
  BY <1>2, ListPlaces
<1>4. \A r \in 1..Len(rows) : rows[r] \in Chunk
  BY <1>3
<1>5. \A c \in Chunk : c.video \in Videos /\ c.score \in 0..MaxScore
  BY DEF Chunk
<1>6. MaxScore \in Nat
  BY AlgorithmsAssumption
<1> QED
  BY <1>2, <1>3, <1>4, <1>5, <1>6

VideosOf(rows) == {rows[r].video : r \in DOMAIN rows}

\* The best chunk of a video is its own, and none of its chunks is more like the query.
LEMMA BestIs ==
    ASSUME NEW rows \in Rows, NEW v \in VideosOf(rows)
    PROVE  /\ Best(rows, v) \in DOMAIN rows /\ rows[Best(rows, v)].video = v
           /\ \A r \in DOMAIN rows : rows[r].video = v => rows[r].score <= rows[Best(rows, v)].score
<1> DEFINE own == {n \in DOMAIN rows : rows[n].video = v}
           scores == {rows[n].score : n \in own}
           best == {n \in own : \A m \in own : rows[m].score <= rows[n].score}
<1>1. DOMAIN rows \subseteq Nat /\ MaxScore \in Nat /\ \A r \in DOMAIN rows : rows[r].score \in 0..MaxScore
  BY RowsAre
<1>2. scores \in SUBSET 0..MaxScore /\ scores # {}
  <2>1. PICK r \in DOMAIN rows : rows[r].video = v
    BY DEF VideosOf
  <2>2. rows[r].score \in scores
    BY <2>1
  <2> QED
    BY <1>1, <2>2
<1>3. best # {}
  <2> HIDE DEF scores
  <2>1. Max(scores) \in scores /\ \A s \in scores : s <= Max(scores)
    BY <1>1, <1>2, MaxIs
  <2>2. PICK n \in own : rows[n].score = Max(scores)
    BY <2>1 DEF scores
  <2>3. \A m \in own : rows[m].score \in scores
    BY DEF scores
  <2>4. \A m \in own : rows[m].score <= rows[n].score
    BY <2>1, <2>2, <2>3
  <2> QED
    BY <2>4
<1>4. best \in SUBSET Nat
  BY <1>1
<1>5. Best(rows, v) = Min(best)
  BY DEF Best
<1>6. Min(best) \in best
  <2> HIDE DEF best
  <2> QED
    BY <1>3, <1>4, MinIs
<1>7. \A r \in DOMAIN rows : rows[r].video = v => r \in own
  OBVIOUS
<1>8. Best(rows, v) \in own /\ \A m \in own : rows[m].score <= rows[Best(rows, v)].score
  BY <1>5, <1>6
<1> QED
  BY <1>7, <1>8

\* The dict's keys are the videos that have chunks, each once.
LEMMA SeenIs ==
    ASSUME NEW rows \in Rows
    PROVE  /\ Seen(rows) \in Seq(Videos) /\ Distinct(Seen(rows))
           /\ Range(Seen(rows)) = VideosOf(rows)
<1> DEFINE list == [n \in DOMAIN rows |-> rows[n].video]
           first == {n \in DOMAIN rows : \A m \in 1..n - 1 : rows[m].video # rows[n].video}
           N == Cardinality(first)
           o == InPlace(first)
           L == At(list, first)
<1>1. DOMAIN rows = 1..Len(rows) /\ Len(rows) \in Nat /\ \A r \in DOMAIN rows : rows[r].video \in Videos
  BY RowsAre
<1>2. list \in Seq(Videos) /\ Len(list) = Len(rows) /\ \A r \in DOMAIN rows : list[r] = rows[r].video
  <2>1. list \in [1..Len(rows) -> Videos]
    BY <1>1
  <2>2. \A r \in DOMAIN rows : list[r] = rows[r].video
    OBVIOUS
  <2> HIDE DEF list
  <2> QED
    BY <1>1, <2>1, <2>2, ListIs
<1>3. Seen(rows) = L
  BY DEF Seen
<1>4. first \in SUBSET (DOMAIN list)
  OBVIOUS
<1>5. \A a, b \in first : rows[a].video = rows[b].video => a = b
  <2> SUFFICES ASSUME NEW a \in first, NEW b \in first, rows[a].video = rows[b].video, a # b PROVE FALSE
    OBVIOUS
  <2>1. a \in 1..Len(rows) /\ b \in 1..Len(rows)
    BY <1>1
  <2>2. a \in 1..b - 1 \/ b \in 1..a - 1
    BY <1>1, <2>1
  <2> QED
    BY <2>2
<1>6. \A r \in DOMAIN rows : \E n \in first : rows[n].video = rows[r].video
  <2> TAKE r \in DOMAIN rows
  <2> DEFINE S == {n \in DOMAIN rows : rows[n].video = rows[r].video}
  <2>1. S \in SUBSET Nat /\ S # {}
    BY <1>1
  <2>2. PICK n \in S : \A m \in S : n <= m
    <3> HIDE DEF S
    <3> QED
      BY <2>1, LeastNat
  <2>3. \A m \in 1..n - 1 : rows[m].video # rows[n].video
    <3> SUFFICES ASSUME NEW m \in 1..n - 1, rows[m].video = rows[n].video PROVE FALSE
      OBVIOUS
    <3>1. m \in DOMAIN rows /\ m < n
      BY <1>1
    <3>2. m \in S
      BY <3>1
    <3> QED
      BY <1>1, <2>2, <3>1, <3>2
  <2> QED
    BY <2>3
<1> HIDE DEF list, first
<1>7. /\ N \in Nat /\ o \in [1..N -> first]
      /\ \A i, j \in 1..N : i < j <=> o[i] < o[j]
      /\ \A p \in first : \E i \in 1..N : o[i] = p
      /\ L \in [1..N -> Videos]
      /\ \A i \in 1..N : L[i] = list[o[i]]
  BY <1>2, <1>4, AtIs
<1> HIDE DEF N, o, L
<1>8. L \in Seq(Videos) /\ Len(L) = N
  BY <1>7, ListIs
<1>9. \A i \in 1..N : o[i] \in first /\ o[i] \in Nat /\ o[i] \in DOMAIN rows /\ L[i] = rows[o[i]].video
  BY <1>1, <1>2, <1>7 DEF first
<1>10. \A i, j \in 1..N : L[i] = L[j] => i = j
  <2> SUFFICES ASSUME NEW i \in 1..N, NEW j \in 1..N, L[i] = L[j] PROVE i = j
    OBVIOUS
  <2>1. o[i] = o[j] /\ o[i] \in Nat
    BY <1>5, <1>9
  <2>2. ~(i < j) /\ ~(j < i)
    BY <1>7, <2>1
  <2> QED
    BY <1>7, <2>2
<1>11. {L[i] : i \in 1..N} = VideosOf(rows)
  <2>1. {L[i] : i \in 1..N} \subseteq VideosOf(rows)
    BY <1>9 DEF VideosOf
  <2>2. ASSUME NEW r \in DOMAIN rows PROVE rows[r].video \in {L[i] : i \in 1..N}
    <3>1. PICK n \in first : rows[n].video = rows[r].video
      BY <1>6
    <3>2. PICK i \in 1..N : o[i] = n
      BY <1>7
    <3> QED
      BY <1>9, <3>1, <3>2
  <2> QED
    BY <2>1, <2>2 DEF VideosOf
<1>12. Distinct(L)
  BY <1>8, <1>10 DEF Distinct
<1>13. Range(L) = {L[i] : i \in 1..N}
  BY <1>8, DistinctIs
<1> QED
  BY <1>3, <1>8, <1>11, <1>12, <1>13

\* Likeliest has these videos in the order of their best chunks.
LEMMA LikeliestIs ==
    ASSUME NEW rows \in Rows
    PROVE  /\ Likeliest(rows) \in Seq(Videos) /\ Distinct(Likeliest(rows))
           /\ Range(Likeliest(rows)) = VideosOf(rows) /\ Len(Likeliest(rows)) = Len(Seen(rows))
           /\ \A i, j \in 1..Len(Likeliest(rows)) :
                 i < j => rows[Best(rows, Likeliest(rows)[i])].score >= rows[Best(rows, Likeliest(rows)[j])].score
<1> DEFINE seen == Seen(rows)
           n == Len(seen)
           of(v) == rows[Best(rows, v)].score
           key == [m \in DOMAIN seen |-> of(seen[m])]
           L == Likeliest(rows)
<1>1. seen \in Seq(Videos) /\ Distinct(seen) /\ Range(seen) = VideosOf(rows)
  BY SeenIs
<1>2. n \in Nat /\ DOMAIN seen = 1..n /\ \A m \in 1..n : seen[m] \in VideosOf(rows)
  <2>1. n \in Nat /\ DOMAIN seen = 1..n
    BY <1>1, ListPlaces
  <2>2. \A m \in 1..n : seen[m] \in Range(seen)
    BY <2>1 DEF Range
  <2> QED
    BY <1>1, <2>1, <2>2
<1>3. \A v \in VideosOf(rows) : of(v) \in Nat
  <2> TAKE v \in VideosOf(rows)
  <2>1. Best(rows, v) \in 1..Len(rows)
    BY BestIs, RowsAre
  <2>2. of(v) \in 0..MaxScore /\ MaxScore \in Nat
    BY <2>1, RowsAre
  <2> HIDE DEF of
  <2> QED
    BY <2>2
<1>4. L = SortedDown(seen, Above(key))
  BY DEF Likeliest
<1> HIDE DEF seen, of, L
<1>5. key \in [DOMAIN seen -> Nat] /\ \A m \in 1..n : key[m] = of(seen[m])
  BY <1>2, <1>3
<1> HIDE DEF key, n
<1>6. /\ WeakOrder(Above(key), DOMAIN seen)
      /\ \A a, b \in DOMAIN seen : <<a, b>> \in Above(key) <=> key[a] > key[b]
  BY <1>5, AboveIs
<1>7. L \in Seq(Videos) /\ Distinct(L) /\ Range(L) = Range(seen) /\ Len(L) = n
  BY <1>1, <1>4, <1>6, SortedDownDistinct DEF n
<1> DEFINE o == Sorting(seen, Above(key))
<1>8. /\ o \in [1..n -> 1..n]
      /\ \A i, j \in 1..n : i < j => <<o[j], o[i]>> \notin Above(key)
      /\ \A i \in 1..n : L[i] = seen[o[i]]
  <2>1. seen \in Seq(Videos)
    BY <1>1
  <2>2. WeakOrder(Above(key), DOMAIN seen)
    BY <1>6
  <2>3. o \in [1..Len(seen) -> 1..Len(seen)]
    BY ONLY <2>1, <2>2, SortedDownIs
  <2>4. \A i, j \in 1..Len(seen) : i < j => <<o[j], o[i]>> \notin Above(key)
    BY ONLY <2>1, <2>2, SortedDownIs
  <2>5. \A i \in 1..Len(seen) : SortedDown(seen, Above(key))[i] = seen[o[i]]
    BY ONLY <2>1, <2>2, SortedDownIs
  <2> HIDE DEF o
  <2> QED
    BY <1>4, <2>3, <2>4, <2>5 DEF n
<1> HIDE DEF o
<1>9. ASSUME NEW i \in 1..n, NEW j \in 1..n, i < j PROVE of(L[i]) >= of(L[j])
  <2>1. o[i] \in 1..n /\ o[j] \in 1..n
    BY <1>8
  <2>2. ~(key[o[j]] > key[o[i]])
    BY <1>2, <1>6, <1>8, <1>9, <2>1
  <2>3. key[o[j]] \in Nat /\ key[o[i]] \in Nat
    BY <1>2, <1>5, <2>1
  <2>4. key[o[j]] = of(L[j]) /\ key[o[i]] = of(L[i])
    BY <1>5, <1>8, <2>1
  <2> QED
    BY <2>2, <2>3, <2>4
<1> QED
  BY <1>1, <1>7, <1>9 DEF L, seen, of, n

-----------------------------------------------------------------------------
\* The videos of the items of search_semantic.
Kept(rows, stored, limit) ==
    LET top == FirstOf(Likeliest(rows), limit)
    IN  At(top, {n \in DOMAIN top : top[n] \in stored})

\* Of the first limit of them those remain that are stored, in order.
LEMMA KeptIs ==
    ASSUME NEW rows \in Rows, NEW stored \in SUBSET Videos, NEW limit \in Nat
    PROVE  LET there == Kept(rows, stored, limit)
               L == Likeliest(rows)
           IN  /\ there \in Seq(Videos) /\ Distinct(there)
               /\ Range(there) \subseteq stored \cap VideosOf(rows)
               /\ \A i \in 1..Len(L) : i <= limit /\ L[i] \in stored => L[i] \in Range(there)
               /\ \A i, j \in 1..Len(there) : i < j =>
                     rows[Best(rows, there[i])].score >= rows[Best(rows, there[j])].score
<1> DEFINE there == Kept(rows, stored, limit)
           L == Likeliest(rows)
           top == FirstOf(L, limit)
           places == {n \in DOMAIN top : top[n] \in stored}
           N == Cardinality(places)
           o == InPlace(places)
           of(v) == rows[Best(rows, v)].score
<1>1. /\ L \in Seq(Videos) /\ Distinct(L) /\ Range(L) = VideosOf(rows)
      /\ \A i, j \in 1..Len(L) : i < j => of(L[i]) >= of(L[j])
  BY LikeliestIs
<1>2. there = At(top, places)
  BY DEF Kept
<1> HIDE DEF there, L, of
<1>3. /\ top \in Seq(Videos) /\ Len(top) = (IF limit < Len(L) THEN limit ELSE Len(L))
      /\ \A i \in 1..Len(top) : top[i] = L[i]
      /\ Distinct(top) /\ Range(top) \subseteq Range(L)
  BY <1>1, FirstOfIs, FirstOfDistinct
<1> HIDE DEF top
<1>4. Len(top) \in Nat /\ Len(L) \in Nat /\ DOMAIN top = 1..Len(top) /\ Range(top) = {top[i] : i \in 1..Len(top)}
  BY <1>1, <1>3, ListPlaces, DistinctIs
<1>5. places \in SUBSET (DOMAIN top)
  OBVIOUS
<1>6. there \in Seq(Videos) /\ Distinct(there) /\ Range(there) = {top[p] : p \in places}
  BY <1>2, <1>3, <1>5, AtDistinct
<1>7. Range(there) \subseteq stored \cap VideosOf(rows)
  <2>1. \A p \in places : top[p] \in stored /\ top[p] \in Range(top)
    BY <1>4
  <2> QED
    BY <1>1, <1>3, <1>6, <2>1
<1>8. \A i \in 1..Len(L) : i <= limit /\ L[i] \in stored => L[i] \in Range(there)
  <2> SUFFICES ASSUME NEW i \in 1..Len(L), i <= limit, L[i] \in stored PROVE L[i] \in Range(there)
    OBVIOUS
  <2>1. i \in 1..Len(top)
    BY <1>3, <1>4
  <2>2. top[i] = L[i] /\ i \in places
    BY <1>3, <1>4, <2>1
  <2> QED
    BY <1>6, <2>2
<1>9. /\ N \in Nat /\ o \in [1..N -> places]
      /\ \A i, j \in 1..N : i < j <=> o[i] < o[j]
      /\ there \in [1..N -> Videos]
      /\ \A i \in 1..N : there[i] = top[o[i]]
  <2>1. top \in Seq(Videos)
    BY <1>3
  <2> HIDE DEF places
  <2> QED
    BY ONLY <1>2, <1>5, <2>1, AtIs
<1>10. Len(there) = N
  BY <1>9, ListIs
<1> HIDE DEF N, o
<1>11. ASSUME NEW i \in 1..N, NEW j \in 1..N, i < j PROVE of(there[i]) >= of(there[j])
  <2>1. o[i] \in 1..Len(top) /\ o[j] \in 1..Len(top) /\ o[i] < o[j]
    BY <1>4, <1>5, <1>9, <1>11
  <2>2. o[i] \in 1..Len(L) /\ o[j] \in 1..Len(L)
    BY <1>3, <1>4, <2>1
  <2>3. there[i] = L[o[i]] /\ there[j] = L[o[j]]
    BY <1>3, <1>9, <2>1
  <2> QED
    BY <1>1, <2>1, <2>2, <2>3
<1> QED
  BY <1>6, <1>7, <1>8, <1>10, <1>11 DEF there, L, of

\* The hits of search_semantic are these videos with their best chunks.
LEMMA SemanticIs ==
    ASSUME NEW rows \in Rows, NEW stored \in SUBSET Videos, NEW limit \in Nat
    PROVE  LET items == Semantic(rows, stored, limit)
               there == Kept(rows, stored, limit)
           IN  /\ DOMAIN items = 1..Len(there) /\ Len(items) = Len(there)
               /\ [n \in DOMAIN items |-> items[n].video] = there
               /\ \A n \in 1..Len(there) :
                     /\ items[n].video = there[n] /\ items[n].chunk = Best(rows, there[n])
                     /\ there[n] \in VideosOf(rows) /\ there[n] \in stored
<1> DEFINE items == Semantic(rows, stored, limit)
           there == Kept(rows, stored, limit)
           item(n) == [video |-> there[n], chunk |-> Best(rows, there[n])]
<1>1. items = [n \in DOMAIN there |-> item(n)]
  BY DEF Semantic, Kept
<1>2. there \in Seq(Videos) /\ Range(there) \subseteq stored \cap VideosOf(rows)
  BY KeptIs
<1> HIDE DEF items, there
<1>3. DOMAIN there = 1..Len(there) /\ Len(there) \in Nat /\ there \in [1..Len(there) -> Videos]
      /\ \A n \in 1..Len(there) : there[n] \in Range(there)
  BY <1>2, ListPlaces DEF Range
<1>4. \A n \in 1..Len(there) : items[n].video = there[n] /\ items[n].chunk = Best(rows, there[n])
  BY <1>1, <1>3
<1>5. DOMAIN items = 1..Len(there)
  BY <1>1, <1>3
<1>6. Len(items) = Len(there)
  <2> DEFINE V == {item(n) : n \in 1..Len(there)}
  <2>1. \A n \in 1..Len(there) : item(n) \in V
    OBVIOUS
  <2> HIDE DEF item, V
  <2>2. items \in [1..Len(there) -> V]
    BY <1>1, <1>3, <2>1
  <2> QED
    BY <1>3, <2>2, ListIs
<1>7. [n \in DOMAIN items |-> items[n].video] = there
  BY <1>3, <1>4, <1>5
<1> QED
  BY <1>2, <1>3, <1>4, <1>5, <1>6, <1>7 DEF items, there

\* n different elements of a set are no more than the set has.
LEMMA CountFrom ==
    ASSUME NEW T, NEW list \in Seq(T), Distinct(list), NEW n \in Nat, n <= Len(list),
           NEW S, IsFiniteSet(S), \A i \in 1..n : list[i] \in S
    PROVE  n <= Cardinality(S) /\ Cardinality(S) \in Nat
<1> DEFINE f == [i \in 1..n |-> list[i]]
<1>1. Len(list) \in Nat
  BY ListPlaces
<1>2. \A i, j \in 1..n : list[i] = list[j] => i = j
  <2>1. \A i \in 1..n : i \in 1..Len(list)
    BY <1>1
  <2> QED
    BY <2>1 DEF Distinct
<1>3. f \in Injection(1..n, S)
  BY <1>2 DEF Injection, IsInjective
<1>4. Cardinality(1..n) = n
  BY FS_Interval
<1> HIDE DEF f
<1>5. Cardinality(1..n) <= Cardinality(S)
  BY <1>3, FS_Injection
<1> QED
  BY <1>4, <1>5, FS_CardinalityType

\* A hit of the semantic search stands with the chunk most like the query, hits come in
\* the order of those chunks, and a stored video that is missing was beaten or equalled
\* by as many as the limit allows (search_semantic).
THEOREM BestChunkShown == Spec => []SemanticBestChunk
<1>1. Init => SemanticBestChunk
  BY DEF Init, SemanticBestChunk
<1>2. SemanticBestChunk /\ [Next]_vars => SemanticBestChunk'
  <2>1. SearchSemantic => SemanticBestChunk'
    <3> SUFFICES ASSUME NEW rows \in Rows, NEW stored \in SUBSET Videos, NEW limit \in 1..MaxLimit,
                        given' = [rows |-> rows, stored |-> stored, limit |-> limit],
                        result' = Semantic(rows, stored, limit)
                 PROVE  SemanticBestChunk'
      BY DEF SearchSemantic, Returns
    <3> DEFINE items == Semantic(rows, stored, limit)
               there == Kept(rows, stored, limit)
               L == Likeliest(rows)
               of(v) == rows[Best(rows, v)].score
    <3>1. given'.rows = rows /\ given'.stored = stored /\ given'.limit = limit /\ result' = items
      OBVIOUS
    <3>2. limit \in Nat
      OBVIOUS
    <3>3. /\ there \in Seq(Videos) /\ Distinct(there)
          /\ Range(there) \subseteq stored \cap VideosOf(rows)
          /\ \A i \in 1..Len(L) : i <= limit /\ L[i] \in stored => L[i] \in Range(there)
          /\ \A i, j \in 1..Len(there) : i < j => of(there[i]) >= of(there[j])
      BY <3>2, KeptIs
    <3>4. /\ DOMAIN items = 1..Len(there)
          /\ [n \in DOMAIN items |-> items[n].video] = there
          /\ \A n \in 1..Len(there) :
                items[n].video = there[n] /\ items[n].chunk = Best(rows, there[n]) /\ there[n] \in VideosOf(rows)
      BY <3>2, SemanticIs
    <3>5. /\ L \in Seq(Videos) /\ Distinct(L) /\ Range(L) = VideosOf(rows)
          /\ \A i, j \in 1..Len(L) : i < j => of(L[i]) >= of(L[j])
      BY LikeliestIs
    <3>6. IsInjective(there)
      BY <3>3, DistinctIs
    <3> HIDE DEF items, there, L
    <3>7. \A n \in DOMAIN items :
             /\ rows[items[n].chunk].video = items[n].video
             /\ \A r \in DOMAIN rows : rows[r].video = items[n].video => rows[r].score <= rows[items[n].chunk].score
      BY <3>4, BestIs
    <3>8. \A m, n \in DOMAIN items : m < n => rows[items[m].chunk].score >= rows[items[n].chunk].score
      BY <3>3, <3>4
    <3>9. ASSUME NEW r \in DOMAIN rows, rows[r].video \in stored \ Range(there)
          PROVE  Cardinality({rows[q].video : q \in {p \in DOMAIN rows : rows[p].score >= rows[r].score}}) > limit
      <4> DEFINE better == {p \in DOMAIN rows : rows[p].score >= rows[r].score}
                 S == {rows[q].video : q \in better}
                 v == rows[r].video
      <4>1. v \in VideosOf(rows)
        BY DEF VideosOf
      <4>2. Len(L) \in Nat /\ Range(L) = {L[i] : i \in 1..Len(L)}
        BY <3>5, ListPlaces, DistinctIs
      <4>3. PICK i \in 1..Len(L) : L[i] = v
        BY <3>5, <4>1, <4>2
      <4>4. i > limit
        BY <3>2, <3>3, <3>9, <4>2, <4>3
      <4>5. DOMAIN rows = 1..Len(rows) /\ \A p \in DOMAIN rows : rows[p].score \in Nat /\ rows[p].video \in Videos
        BY RowsAre
      <4>6. rows[r].score <= of(v)
        BY <4>1, BestIs
      <4>7. ASSUME NEW j \in 1..i PROVE L[j] \in S
        <5>1. j \in 1..Len(L) /\ (j = i \/ j < i)
          BY <4>2
        <5>2. L[j] \in VideosOf(rows)
          BY <3>5, <4>2, <5>1
        <5>3. Best(rows, L[j]) \in DOMAIN rows /\ rows[Best(rows, L[j])].video = L[j]
          BY <5>2, BestIs
        <5>4. of(L[j]) >= of(v)
          <6>1. CASE j = i
            <7>1. of(L[j]) \in Nat
              BY <4>5, <5>3
            <7> QED
              BY <4>3, <6>1, <7>1
          <6>2. CASE j < i
            BY <3>5, <4>3, <5>1, <6>2
          <6> QED
            BY <5>1, <6>1, <6>2
        <5>5. of(L[j]) \in Nat /\ of(v) \in Nat /\ rows[r].score \in Nat
          <6>1. Best(rows, v) \in DOMAIN rows
            BY <4>1, BestIs
          <6> QED
            BY <4>5, <5>3, <6>1
        <5>6. of(L[j]) >= rows[r].score
          BY <4>6, <5>4, <5>5
        <5> QED
          BY <5>3, <5>6
      <4>8. IsFiniteSet(S)
        <5>1. S \in SUBSET Videos
          BY <4>5
        <5> HIDE DEF S
        <5> QED
          BY <5>1, FS_Subset, RetrievalAssumption
      <4> HIDE DEF S
      <4>9. i <= Cardinality(S) /\ Cardinality(S) \in Nat
        <5>1. i \in Nat /\ i <= Len(L)
          BY <4>2
        <5> QED
          BY <3>5, <4>7, <4>8, <5>1, CountFrom
      <4>10. Cardinality(S) > limit
        BY <3>2, <4>2, <4>4, <4>9
      <4> QED
        BY <4>10 DEF S
    <3>10. Range(there) \subseteq stored
      BY <3>3
    <3>11. [n \in DOMAIN result' |-> result'[n].video] = there
      BY <3>1, <3>4
    <3> HIDE DEF of
    <3> QED
      BY <3>1, <3>6, <3>7, <3>8, <3>9, <3>10, <3>11 DEF SemanticBestChunk
  <2>2. UNCHANGED vars => (SemanticBestChunk => SemanticBestChunk')
    BY DEF vars, SemanticBestChunk
  <2>3. Next /\ ~SearchSemantic => call' # "semantic"
    BY Names, Steps
  <2> QED
    BY <2>1, <2>2, <2>3 DEF SemanticBestChunk
<1> QED
  BY <1>1, <1>2, PTL DEF Spec

-----------------------------------------------------------------------------
\* Multiplication is monotone ...
LEMMA TimesGrows ==
    ASSUME NEW a \in Nat, NEW b \in Nat, NEW c \in Nat, a <= b
    PROVE  a * c <= b * c /\ a * c \in Nat /\ b * c \in Nat /\ a * c = c * a
OBVIOUS

\* ... and can be cancelled.
LEMMA TimesCancels ==
    ASSUME NEW a \in Nat, NEW b \in Nat, NEW c \in Nat, c > 0, a * c <= b * c
    PROVE  a <= b
OBVIOUS

FractionSet == [over : Nat \ {0}, under : Nat \ {0}]

\* To exceed, as a fraction, is a weak order.
LEMMA ExceedsIs ==
    ASSUME NEW a \in FractionSet, NEW b \in FractionSet, NEW c \in FractionSet
    PROVE  /\ Exceeds(a, b) => ~Exceeds(b, a)
           /\ Exceeds(a, c) => Exceeds(a, b) \/ Exceeds(b, c)
<1> DEFINE x == a.over  u == a.under
           y == b.over  v == b.under
           z == c.over  w == c.under
<1>1. x \in Nat /\ u \in Nat /\ y \in Nat /\ v \in Nat /\ z \in Nat /\ w \in Nat /\ u > 0 /\ v > 0 /\ w > 0
  BY DEF FractionSet
<1>2. /\ Exceeds(a, b) <=> x * v > y * u
      /\ Exceeds(b, a) <=> y * u > x * v
      /\ Exceeds(a, c) <=> x * w > z * u
      /\ Exceeds(b, c) <=> y * w > z * v
  BY DEF Exceeds
<1> HIDE DEF x, u, y, v, z, w
<1>3. x * v > y * u => ~(y * u > x * v)
  BY <1>1
<1>4. ASSUME x * v <= y * u, y * w <= z * v PROVE x * w <= z * u
  <2>1. (x * v) * w <= (y * u) * w
    BY <1>1, <1>4, TimesGrows
  <2>2. (y * w) * u <= (z * v) * u
    BY <1>1, <1>4, TimesGrows
  <2>3. (y * u) * w = (y * w) * u
    BY <1>1
  <2>4. (x * v) * w <= (z * v) * u
    BY <1>1, <2>1, <2>2, <2>3
  <2>5. (x * v) * w = (x * w) * v /\ (z * v) * u = (z * u) * v
    BY <1>1
  <2>6. (x * w) * v <= (z * u) * v
    BY <2>4, <2>5
  <2> QED
    BY <1>1, <2>6, TimesCancels
<1>5. x * w \in Nat /\ z * u \in Nat /\ x * v \in Nat /\ y * u \in Nat /\ y * w \in Nat /\ z * v \in Nat
  BY <1>1
<1>6. x * w > z * u => x * v > y * u \/ y * w > z * v
  <2> SUFFICES ASSUME x * w > z * u, ~(x * v > y * u), ~(y * w > z * v) PROVE FALSE
    OBVIOUS
  <2>1. x * v <= y * u /\ y * w <= z * v
    BY <1>5
  <2>2. x * w <= z * u
    BY <1>4, <2>1
  <2> QED
    BY <1>5, <2>2
<1> QED
  BY <1>2, <1>3, <1>6

\* A score is a fraction with positive parts.
LEMMA FractionIs ==
    ASSUME NEW i \in Nat, NEW j \in Nat
    PROVE  /\ Fraction(i, j) \in FractionSet
           /\ i = 0 => Fraction(i, j) = [over |-> 1, under |-> K + j]
           /\ j = 0 => Fraction(i, j) = [over |-> 1, under |-> K + i]
           /\ i # 0 /\ j # 0 => Fraction(i, j) = [over |-> (K + i) + (K + j), under |-> (K + i) * (K + j)]
<1>1. K \in Nat /\ K > 0
  BY RetrievalAssumption
<1>2. K + i \in Nat \ {0} /\ K + j \in Nat \ {0} /\ (K + i) * (K + j) \in Nat \ {0}
      /\ (K + i) + (K + j) \in Nat \ {0}
  BY <1>1
<1>3. i = 0 => Fraction(i, j) = [over |-> 1, under |-> K + j]
  BY DEF Fraction
<1>4. j = 0 => Fraction(i, j) = [over |-> 1, under |-> K + i]
  BY DEF Fraction
<1>5. i # 0 /\ j # 0 => Fraction(i, j) = [over |-> (K + i) + (K + j), under |-> (K + i) * (K + j)]
  BY DEF Fraction
<1>6. Fraction(i, j) \in FractionSet
  BY <1>2, <1>3, <1>4, <1>5 DEF FractionSet
<1> QED
  BY <1>3, <1>4, <1>5, <1>6

\* Two ranks in the pool outweigh any one rank.
LEMMA TwoOutweighOne ==
    ASSUME NEW i \in 1..Pool, NEW j \in 1..Pool, NEW m \in 1..Pool
    PROVE  /\ Exceeds(Fraction(i, j), Fraction(m, 0))
           /\ Exceeds(Fraction(i, j), Fraction(0, m))
<1> DEFINE a == K + i
           b == K + j
           c == K + m
<1>1. K \in Nat /\ K > 0 /\ Pool \in Nat /\ K > Pool - 2
  BY RetrievalAssumption
<1>2. a \in Nat /\ b \in Nat /\ c \in Nat /\ a > 0 /\ a <= 2 * K + 1 /\ b <= 2 * K + 1 /\ c >= K + 1
  BY <1>1
<1> HIDE DEF a, b, c
<1>3. a * b <= (2 * K + 1) * b /\ b * a <= (2 * K + 1) * a /\ b * a = a * b
  BY <1>1, <1>2, TimesGrows
<1>4. 2 * (a * b) <= (2 * K + 1) * b + (2 * K + 1) * a
  BY <1>1, <1>2, <1>3
<1>5. (2 * K + 1) * b + (2 * K + 1) * a = (2 * K + 1) * (a + b)
  BY <1>1, <1>2
<1>6. (2 * K + 1) * (a + b) < (2 * K + 2) * (a + b)
  BY <1>1, <1>2
<1>7. (2 * K + 2) * (a + b) = 2 * ((K + 1) * (a + b))
  BY <1>1, <1>2
<1>8. (K + 1) * (a + b) <= c * (a + b) /\ c * (a + b) = (a + b) * c
  BY <1>1, <1>2, TimesGrows
<1>9. (a + b) * c > 1 * (a * b)
  <2>1. a * b \in Nat /\ (a + b) * c \in Nat /\ (K + 1) * (a + b) \in Nat
        /\ (2 * K + 1) * (a + b) \in Nat
    BY <1>1, <1>2
  <2>2. 2 * (a * b) < 2 * ((K + 1) * (a + b))
    BY <1>4, <1>5, <1>6, <1>7, <2>1
  <2>3. a * b < (K + 1) * (a + b)
    BY <2>1, <2>2
  <2> QED
    BY <1>8, <2>1, <2>3
<1>10. i \in Nat /\ j \in Nat /\ m \in Nat /\ i # 0 /\ j # 0
  BY <1>1
<1>11. /\ Fraction(i, j) = [over |-> a + b, under |-> a * b]
       /\ Fraction(m, 0) = [over |-> 1, under |-> c]
       /\ Fraction(0, m) = [over |-> 1, under |-> c]
  BY <1>10, FractionIs DEF a, b, c
<1> QED
  BY <1>9, <1>11 DEF Exceeds

\* The fusion's dict has every hit of either search, once.
LEMMA FoundIs ==
    ASSUME NEW keyword \in Seq(Videos), Distinct(keyword), NEW semantic \in Seq(Videos), Distinct(semantic)
    PROVE  /\ Found(keyword, semantic) \in Seq(Videos) /\ Distinct(Found(keyword, semantic))
           /\ Range(Found(keyword, semantic)) = Range(keyword) \cup Range(semantic)
<1> DEFINE places == {n \in DOMAIN semantic : ~Contains(keyword, semantic[n])}
           only == At(semantic, places)
           F == Found(keyword, semantic)
           k == Len(keyword)
           m == Len(only)
<1>1. only \in Seq(Videos) /\ Distinct(only) /\ Range(only) = {semantic[p] : p \in places}
  <2>1. places \in SUBSET (DOMAIN semantic)
    OBVIOUS
  <2> HIDE DEF places
  <2> QED
    BY <2>1, AtDistinct
<1>2. F = keyword \o only
  BY DEF Found
<1>3. DOMAIN semantic = 1..Len(semantic) /\ Range(semantic) = {semantic[i] : i \in 1..Len(semantic)}
      /\ Range(keyword) = {keyword[i] : i \in 1..k} /\ Range(only) = {only[i] : i \in 1..m}
      /\ k \in Nat /\ m \in Nat
  <2> HIDE DEF only
  <2>1. DOMAIN semantic = 1..Len(semantic) /\ k \in Nat
    BY ListPlaces
  <2>2. Range(semantic) = {semantic[i] : i \in 1..Len(semantic)} /\ Range(keyword) = {keyword[i] : i \in 1..k}
    BY DistinctIs
  <2>3. only \in Seq(Videos)
    BY <1>1
  <2>4. m \in Nat
    BY ONLY <2>3, ListPlaces
  <2>5. Range(only) = {only[i] : i \in 1..m}
    BY ONLY <2>3, DistinctIs
  <2> QED
    BY <2>1, <2>2, <2>4, <2>5
<1>4. Range(only) = Range(semantic) \ Range(keyword)
  <2>1. \A p \in DOMAIN semantic : p \in places <=> semantic[p] \notin Range(keyword)
    BY ContainsIs
  <2> HIDE DEF places
  <2>2. places \subseteq DOMAIN semantic
    BY DEF places
  <2>3. {semantic[p] : p \in places} = Range(semantic) \ Range(keyword)
    BY <1>3, <2>1, <2>2
  <2> QED
    BY <1>1, <2>3
<1> HIDE DEF places, only, F
<1>5. /\ F \in Seq(Videos) /\ Len(F) = k + m
      /\ \A i \in 1..k + m : F[i] = IF i <= k THEN keyword[i] ELSE only[i - k]
  BY <1>1, <1>2, ConcatProperties DEF k, m
<1>6. \A i \in 1..k : F[i] = keyword[i] /\ F[i] \in Range(keyword)
  BY <1>3, <1>5
<1>7. \A i \in 1..m : F[k + i] = only[i] /\ F[k + i] \in Range(only)
  <2> TAKE i \in 1..m
  <2>1. k + i \in 1..k + m /\ ~(k + i <= k) /\ k + i - k = i
    BY <1>3
  <2> QED
    BY <1>3, <1>5, <2>1
<1> HIDE DEF k, m
<1>8. \A i \in 1..k + m : (i \in 1..k) \/ (i - k \in 1..m /\ k + (i - k) = i /\ i \notin 1..k)
  BY <1>3
<1>9. ASSUME NEW i \in 1..k + m, NEW j \in 1..k + m, F[i] = F[j] PROVE i = j
  <2>1. CASE i \in 1..k /\ j \in 1..k
    BY <1>6, <1>9, <2>1 DEF Distinct, k
  <2>2. CASE i \in 1..k /\ j \notin 1..k
    BY <1>4, <1>6, <1>7, <1>8, <1>9, <2>2
  <2>3. CASE i \notin 1..k /\ j \in 1..k
    BY <1>4, <1>6, <1>7, <1>8, <1>9, <2>3
  <2>4. CASE i \notin 1..k /\ j \notin 1..k
    <3>1. i - k \in 1..m /\ j - k \in 1..m /\ k + (i - k) = i /\ k + (j - k) = j
      BY <1>8, <2>4
    <3>2. only[i - k] = only[j - k]
      BY <1>7, <1>9, <3>1
    <3>3. i - k = j - k
      BY <1>1, <3>1, <3>2 DEF Distinct, m
    <3> QED
      BY <3>1, <3>3
  <2> QED
    BY <2>1, <2>2, <2>3, <2>4
<1>10. {F[i] : i \in 1..k + m} = Range(keyword) \cup Range(only)
  <2>1. {F[i] : i \in 1..k + m} \subseteq Range(keyword) \cup Range(only)
    BY <1>6, <1>7, <1>8
  <2>2. \A i \in 1..k : keyword[i] \in {F[j] : j \in 1..k + m}
    BY <1>3, <1>6
  <2>3. \A i \in 1..m : only[i] \in {F[j] : j \in 1..k + m}
    <3> TAKE i \in 1..m
    <3>1. k + i \in 1..k + m
      BY <1>3
    <3> QED
      BY <1>7, <3>1
  <2> QED
    BY <1>3, <2>1, <2>2, <2>3
<1>11. Range(F) = {F[i] : i \in 1..k + m}
  BY <1>5, DistinctIs
<1>12. Range(F) = Range(keyword) \cup Range(semantic)
  BY <1>4, <1>10, <1>11
<1>13. Distinct(F)
  BY <1>5, <1>9 DEF Distinct
<1> QED
  BY <1>5, <1>12, <1>13 DEF F

\* A rank in a list of hits.
LEMMA RankIs ==
    ASSUME NEW hits \in Seq(Videos), NEW v
    PROVE  /\ Rank(hits, v) \in 0..Len(hits) /\ Rank(hits, v) \in Nat
           /\ v \in Range(hits) <=> Rank(hits, v) # 0
           /\ Contains(hits, v) <=> v \in Range(hits)
<1>1. Len(hits) \in Nat
  BY ListPlaces
<1>2. CASE Contains(hits, v)
  <2>1. Rank(hits, v) \in 1..Len(hits) /\ v \in Range(hits)
    BY <1>2, ContainsIs
  <2> QED
    BY <1>1, <1>2, <2>1
<1>3. CASE ~Contains(hits, v)
  <2>1. Rank(hits, v) = 0 /\ v \notin Range(hits)
    BY <1>3, ContainsIs
  <2> QED
    BY <1>1, <1>3, <2>1
<1> QED
  BY <1>2, <1>3

\* The fusion has these videos, none before one with a higher score.
LEMMA FusedIs ==
    ASSUME NEW keyword \in Seq(Videos), Distinct(keyword), NEW semantic \in Seq(Videos), Distinct(semantic)
    PROVE  LET F == Fused(keyword, semantic)
           IN  /\ F \in Seq(Videos) /\ Distinct(F)
               /\ Range(F) = Range(keyword) \cup Range(semantic)
               /\ \A i, j \in 1..Len(F) :
                     i < j => ~Exceeds(Score(keyword, semantic, F[j]), Score(keyword, semantic, F[i]))
<1> DEFINE found == Found(keyword, semantic)
           n == Len(found)
           of(v) == Score(keyword, semantic, v)
           score == [m \in DOMAIN found |-> of(found[m])]
           higher == {pair \in (DOMAIN found) \X (DOMAIN found) : Exceeds(score[pair[1]], score[pair[2]])}
           F == Fused(keyword, semantic)
<1>1. found \in Seq(Videos) /\ Distinct(found) /\ Range(found) = Range(keyword) \cup Range(semantic)
  BY FoundIs
<1>2. n \in Nat /\ DOMAIN found = 1..n
  BY <1>1, ListPlaces
<1>3. F = SortedDown(found, higher)
  BY DEF Fused
<1>4. \A v : of(v) \in FractionSet
  <2> TAKE v
  <2>1. Rank(keyword, v) \in Nat /\ Rank(semantic, v) \in Nat
    BY RankIs
  <2> QED
    BY <2>1, FractionIs DEF Score
<1> HIDE DEF found, n, of, F
<1>5. \A m \in 1..n : score[m] = of(found[m]) /\ score[m] \in FractionSet
  BY <1>2, <1>4
<1> HIDE DEF score
<1>6. \A a, b \in 1..n : <<a, b>> \in higher <=> Exceeds(score[a], score[b])
  BY <1>2
<1> HIDE DEF higher
<1>7. WeakOrder(higher, DOMAIN found)
  <2>1. \A a, b \in 1..n : <<a, b>> \in higher => <<b, a>> \notin higher
    BY <1>5, <1>6, ExceedsIs
  <2>2. \A a, b, c \in 1..n : <<a, c>> \in higher => <<a, b>> \in higher \/ <<b, c>> \in higher
    BY <1>5, <1>6, ExceedsIs
  <2> QED
    BY <1>2, <2>1, <2>2 DEF WeakOrder
<1>8. F \in Seq(Videos) /\ Distinct(F) /\ Range(F) = Range(found) /\ Len(F) = n
  BY <1>1, <1>3, <1>7, SortedDownDistinct DEF n
<1> DEFINE o == Sorting(found, higher)
<1>9. /\ o \in [1..n -> 1..n]
      /\ \A i, j \in 1..n : i < j => <<o[j], o[i]>> \notin higher
      /\ \A i \in 1..n : F[i] = found[o[i]]
  <2>1. found \in Seq(Videos)
    BY <1>1
  <2>2. /\ o \in [1..Len(found) -> 1..Len(found)]
        /\ \A i, j \in 1..Len(found) : i < j =>
              <<o[j], o[i]>> \notin higher /\ (<<o[i], o[j]>> \in higher \/ o[i] < o[j])
        /\ \A i \in 1..Len(found) : SortedDown(found, higher)[i] = found[o[i]]
    BY ONLY <1>7, <2>1, SortedDownIs
  <2> QED
    BY ONLY <1>3, <2>2 DEF n
<1> HIDE DEF o
<1>10. ASSUME NEW i \in 1..n, NEW j \in 1..n, i < j PROVE ~Exceeds(of(F[j]), of(F[i]))
  <2>1. o[i] \in 1..n /\ o[j] \in 1..n
    BY <1>9
  <2>2. ~Exceeds(score[o[j]], score[o[i]])
    BY <1>6, <1>9, <1>10, <2>1
  <2>3. score[o[j]] = of(F[j]) /\ score[o[i]] = of(F[i])
    BY <1>5, <1>9, <2>1
  <2> QED
    BY <2>2, <2>3
<1> QED
  BY <1>1, <1>8, <1>10 DEF F, found, of

\* A video both searches find comes before every video only one of them finds,
\* whatever their ranks (rrf_fuse, with k large enough for the pool).
THEOREM BothBeforeOne == Spec => []BothBeatOne
<1>1. Init => BothBeatOne
  BY DEF Init, BothBeatOne
<1>2. BothBeatOne /\ [Next]_vars => BothBeatOne'
  <2>1. RrfFuse => BothBeatOne'
    <3> SUFFICES ASSUME NEW keyword \in Hits, NEW semantic \in Hits,
                        given' = [keyword |-> keyword, semantic |-> semantic],
                        result' = Fused(keyword, semantic)
                 PROVE  BothBeatOne'
      BY DEF RrfFuse, Returns
    <3> DEFINE F == Fused(keyword, semantic)
               both(n) == Contains(keyword, F[n]) /\ Contains(semantic, F[n])
               of(n) == Score(keyword, semantic, F[n])
               i(n) == Rank(keyword, F[n])
               j(n) == Rank(semantic, F[n])
    <3>1. given'.keyword = keyword /\ given'.semantic = semantic /\ result' = F
      OBVIOUS
    <3>2. /\ keyword \in Seq(Videos) /\ Distinct(keyword) /\ Len(keyword) \in 0..Pool
          /\ semantic \in Seq(Videos) /\ Distinct(semantic) /\ Len(semantic) \in 0..Pool
      BY HitsAre
    <3>3. /\ F \in Seq(Videos) /\ Range(F) = Range(keyword) \cup Range(semantic)
          /\ \A m, n \in 1..Len(F) : m < n => ~Exceeds(of(n), of(m))
      BY <3>2, FusedIs
    <3>4. DOMAIN F = 1..Len(F) /\ Len(F) \in Nat /\ \A n \in 1..Len(F) : F[n] \in Range(F)
      BY <3>3, ListPlaces DEF Range
    <3> HIDE DEF F
    <3>5. ASSUME NEW n \in 1..Len(F)
          PROVE  /\ i(n) \in 0..Pool /\ j(n) \in 0..Pool /\ (i(n) # 0 \/ j(n) # 0)
                 /\ both(n) <=> i(n) # 0 /\ j(n) # 0
                 /\ of(n) = Fraction(i(n), j(n))
      <4>1. i(n) \in 0..Len(keyword) /\ j(n) \in 0..Len(semantic)
            /\ (Contains(keyword, F[n]) <=> i(n) # 0) /\ (Contains(semantic, F[n]) <=> j(n) # 0)
            /\ (F[n] \in Range(keyword) <=> i(n) # 0) /\ (F[n] \in Range(semantic) <=> j(n) # 0)
        BY <3>2, RankIs
      <4>2. of(n) = Fraction(i(n), j(n))
        BY DEF Score
      <4>3. F[n] \in Range(keyword) \/ F[n] \in Range(semantic)
        BY <3>3, <3>4
      <4>4. Pool \in Nat
        BY RetrievalAssumption
      <4> HIDE DEF i, j, of
      <4>5. i(n) \in 0..Pool /\ j(n) \in 0..Pool
        BY <3>2, <4>1, <4>4
      <4> QED
        BY <4>1, <4>2, <4>3, <4>5
    <3> HIDE DEF both, i, j, of
    <3>6. ASSUME NEW a \in 1..Len(F), NEW b \in 1..Len(F), both(a), ~both(b) PROVE a < b
      <4>1. i(a) \in 1..Pool /\ j(a) \in 1..Pool
        BY <3>5, <3>6
      <4>2. (i(b) = 0 /\ j(b) \in 1..Pool) \/ (j(b) = 0 /\ i(b) \in 1..Pool)
        BY <3>5, <3>6
      <4>3. Exceeds(of(a), of(b))
        BY <3>5, <4>1, <4>2, TwoOutweighOne
      <4>4. ~(b < a)
        BY <3>3, <4>3
      <4>5. a # b
        BY <3>6
      <4> QED
        BY <3>4, <4>4, <4>5
    <3>7. \A a, b \in DOMAIN F : both(a) /\ ~both(b) => a < b
      BY <3>4, <3>6
    <3> QED
      BY <3>1, <3>7 DEF BothBeatOne, both
  <2>2. UNCHANGED vars => (BothBeatOne => BothBeatOne')
    BY DEF vars, BothBeatOne
  <2>3. Next /\ ~RrfFuse => call' # "fuse"
    BY Names, Steps
  <2> QED
    BY <2>1, <2>2, <2>3 DEF BothBeatOne
<1> QED
  BY <1>1, <1>2, PTL DEF Spec

-----------------------------------------------------------------------------
\* matched says which searches have found a video.
LEMMA MatchedIs ==
    ASSUME NEW keyword \in Seq(Videos), NEW semantic \in Seq(Videos),
           NEW v \in Range(keyword) \cup Range(semantic)
    PROVE  /\ Matched(keyword, semantic, v) = "hybrid" <=> v \in Range(keyword) /\ v \in Range(semantic)
           /\ Matched(keyword, semantic, v) = "keyword" <=> v \notin Range(semantic)
           /\ Matched(keyword, semantic, v) = "semantic" <=> v \notin Range(keyword)
<1>1. /\ Contains(keyword, v) <=> v \in Range(keyword)
      /\ Contains(semantic, v) <=> v \in Range(semantic)
  BY RankIs
<1>2. CASE v \in Range(keyword) /\ v \in Range(semantic)
  BY <1>1, <1>2 DEF Matched
<1>3. CASE v \notin Range(keyword)
  BY <1>1, <1>3 DEF Matched
<1>4. CASE v \notin Range(semantic)
  BY <1>1, <1>4 DEF Matched
<1> QED
  BY <1>2, <1>3, <1>4

\* The items of the hybrid search over those of the semantic search.
LEMMA HybridIs ==
    ASSUME NEW keyword \in Hits, NEW rows \in Rows, NEW pool \in Nat, NEW limit \in Nat
    PROVE  LET there == Kept(rows, Videos, pool)
               top == FirstOf(Fused(keyword, there), limit)
               H == Hybrid(keyword, Semantic(rows, Videos, pool), limit)
           IN  /\ top \in Seq(Videos) /\ Distinct(top)
               /\ Range(top) \subseteq Range(keyword) \cup Range(there)
               /\ DOMAIN H = 1..Len(top)
               /\ \A n \in 1..Len(top) :
                     /\ H[n].video = top[n]
                     /\ H[n].matched = Matched(keyword, there, top[n])
                     /\ H[n].chunk = IF top[n] \in Range(there) THEN Best(rows, top[n]) ELSE 0
<1> DEFINE there == Kept(rows, Videos, pool)
           items == Semantic(rows, Videos, pool)
           F == Fused(keyword, there)
           top == FirstOf(F, limit)
           chunk(v) == IF Contains(there, v) THEN items[Rank(there, v)].chunk ELSE 0
           item(n) == [video |-> top[n], matched |-> Matched(keyword, there, top[n]), chunk |-> chunk(top[n])]
           H == Hybrid(keyword, items, limit)
<1>0. Videos \in SUBSET Videos
  OBVIOUS
<1>1. there \in Seq(Videos) /\ Distinct(there)
  BY <1>0, KeptIs
<1>2. /\ [n \in DOMAIN items |-> items[n].video] = there
      /\ \A n \in 1..Len(there) : items[n].chunk = Best(rows, there[n])
  BY <1>0, SemanticIs
<1>3. H = [n \in DOMAIN top |-> item(n)]
  BY <1>2 DEF Hybrid
<1>4. keyword \in Seq(Videos) /\ Distinct(keyword)
  BY HitsAre
<1> HIDE DEF there, items, H
<1>5. F \in Seq(Videos) /\ Distinct(F) /\ Range(F) = Range(keyword) \cup Range(there)
  BY <1>1, <1>4, FusedIs
<1> HIDE DEF F
<1>6. top \in Seq(Videos) /\ Distinct(top) /\ Range(top) \subseteq Range(F)
  BY <1>5, FirstOfIs, FirstOfDistinct
<1> HIDE DEF top
<1>7. DOMAIN top = 1..Len(top)
  BY <1>6, ListPlaces
<1>8. \A v : chunk(v) = IF v \in Range(there) THEN Best(rows, v) ELSE 0
  <2> TAKE v
  <2>1. /\ Contains(there, v) <=> v \in Range(there)
        /\ Contains(there, v) => Rank(there, v) \in 1..Len(there) /\ there[Rank(there, v)] = v
    BY <1>1, ContainsIs
  <2> QED
    BY <1>2, <2>1
<1> HIDE DEF chunk
<1>9. DOMAIN H = 1..Len(top) /\ \A n \in 1..Len(top) :
         H[n].video = top[n] /\ H[n].matched = Matched(keyword, there, top[n]) /\ H[n].chunk = chunk(top[n])
  BY <1>3, <1>7
<1> QED
  BY <1>5, <1>6, <1>8, <1>9 DEF there, items, H, top, F

\* An item of the hybrid search says truly which searches found it, and its excerpt is of
\* a chunk of its own video (search_hybrid).
THEOREM ItemsTellTruth == Spec => []HybridTellsTruth
<1>1. Init => HybridTellsTruth
  BY DEF Init, HybridTellsTruth
<1>2. HybridTellsTruth /\ [Next]_vars => HybridTellsTruth'
  <2>1. SearchHybrid => HybridTellsTruth'
    <3> SUFFICES ASSUME NEW keyword \in Hits, NEW rows \in Rows, NEW limit \in 1..MaxLimit,
                        given' = [keyword |-> keyword, rows |-> rows],
                        result' = Hybrid(keyword, Semantic(rows, Videos, Pool), limit)
                 PROVE  HybridTellsTruth'
      BY DEF SearchHybrid, Returns
    <3> DEFINE H == Hybrid(keyword, Semantic(rows, Videos, Pool), limit)
               there == Kept(rows, Videos, Pool)
               top == FirstOf(Fused(keyword, there), limit)
               L == Likeliest(rows)
               seen == Range(Seen(rows))
    <3>1. given'.keyword = keyword /\ given'.rows = rows /\ result' = H
      OBVIOUS
    <3>2. limit \in Nat /\ Pool \in Nat /\ Videos \in SUBSET Videos
      BY RetrievalAssumption
    <3>3. keyword \in Seq(Videos)
      BY HitsAre
    <3>4. /\ there \in Seq(Videos) /\ Range(there) \subseteq VideosOf(rows)
          /\ \A i \in 1..Len(L) : i <= Pool /\ L[i] \in Videos => L[i] \in Range(there)
      BY <3>2, KeptIs
    <3>5. /\ top \in Seq(Videos) /\ Range(top) \subseteq Range(keyword) \cup Range(there)
          /\ DOMAIN H = 1..Len(top)
          /\ \A n \in 1..Len(top) :
                /\ H[n].video = top[n] /\ H[n].matched = Matched(keyword, there, top[n])
                /\ H[n].chunk = IF top[n] \in Range(there) THEN Best(rows, top[n]) ELSE 0
      BY <3>2, HybridIs
    <3>6. L \in Seq(Videos) /\ Distinct(L) /\ Range(L) = VideosOf(rows)
      BY LikeliestIs
    <3>7. seen = VideosOf(rows)
      BY SeenIs
    <3> HIDE DEF H, there, top, L, seen
    <3>8. ASSUME NEW n \in DOMAIN H
          PROVE  LET item == H[n]
                     likened == item.video \in {rows[r].video : r \in DOMAIN rows}
                 IN  /\ item.chunk = 0 \/ rows[item.chunk].video = item.video
                     /\ item.matched = "hybrid" <=> Contains(keyword, item.video) /\ item.chunk # 0
                     /\ item.matched = "keyword" => ~likened \/ Cardinality(seen) > Pool
                     /\ item.matched = "semantic" => ~Contains(keyword, item.video)
      <4> DEFINE v == top[n]
      <4>1. v \in Range(keyword) \cup Range(there)
        BY <3>5, ListPlaces DEF Range
      <4>2. /\ H[n].video = v /\ H[n].matched = Matched(keyword, there, v)
            /\ H[n].chunk = IF v \in Range(there) THEN Best(rows, v) ELSE 0
        BY <3>5
      <4> HIDE DEF v
      <4>3. v \in VideosOf(rows) => Best(rows, v) \in DOMAIN rows /\ rows[Best(rows, v)].video = v
        BY BestIs
      <4>4. \A r \in DOMAIN rows : r # 0
        BY RowsAre
      <4>5. H[n].chunk = 0 \/ rows[H[n].chunk].video = H[n].video
        BY <3>4, <4>2, <4>3
      <4>6. H[n].chunk # 0 <=> v \in Range(there)
        BY <3>4, <4>2, <4>3, <4>4
      <4>7. /\ H[n].matched = "hybrid" <=> v \in Range(keyword) /\ v \in Range(there)
            /\ H[n].matched = "keyword" <=> v \notin Range(there)
            /\ H[n].matched = "semantic" <=> v \notin Range(keyword)
        BY <3>3, <3>4, <4>1, <4>2, MatchedIs
      <4>8. Contains(keyword, v) <=> v \in Range(keyword)
        BY <3>3, RankIs
      <4>9. ASSUME H[n].matched = "keyword", v \in VideosOf(rows) PROVE Cardinality(seen) > Pool
        <5>1. v \notin Range(there)
          BY <4>7, <4>9
        <5>2. Len(L) \in Nat /\ Range(L) = {L[i] : i \in 1..Len(L)} /\ L \in [1..Len(L) -> Videos]
          BY <3>6, ListPlaces, DistinctIs
        <5>3. PICK i \in 1..Len(L) : L[i] = v
          BY <3>6, <4>9, <5>2
        <5>4. i > Pool
          BY <3>2, <3>4, <5>1, <5>2, <5>3
        <5>5. seen \in SUBSET Videos /\ IsFiniteSet(seen)
          <6>1. seen \in SUBSET Videos
            BY <3>6, <3>7, <5>2
          <6> QED
            BY <6>1, FS_Subset, RetrievalAssumption
        <5>6. \A j \in 1..i : L[j] \in seen
          <6>1. \A j \in 1..i : j \in 1..Len(L)
            BY <5>2
          <6> QED
            BY <3>6, <3>7, <5>2, <6>1
        <5>7. i <= Cardinality(seen) /\ Cardinality(seen) \in Nat
          <6>1. i \in Nat /\ i <= Len(L)
            BY <5>2
          <6> QED
            BY <3>6, <5>5, <5>6, <6>1, CountFrom
        <5> QED
          BY <3>2, <5>2, <5>4, <5>7
      <4> QED
        BY <4>2, <4>5, <4>6, <4>7, <4>8, <4>9 DEF VideosOf
    <3> QED
      BY <3>1, <3>8 DEF HybridTellsTruth, seen
  <2>2. UNCHANGED vars => (HybridTellsTruth => HybridTellsTruth')
    BY DEF vars, HybridTellsTruth
  <2>3. Next /\ ~SearchHybrid => call' # "hybrid"
    BY Names, Steps
  <2> QED
    BY <2>1, <2>2, <2>3 DEF HybridTellsTruth
<1> QED
  BY <1>1, <1>2, PTL DEF Spec

-----------------------------------------------------------------------------
\* The lesser of two numbers.
LEMMA MinOfTwo ==
    ASSUME NEW a \in Nat, NEW b \in Nat
    PROVE  Min({a, b}) = IF a < b THEN a ELSE b
<1>1. {a, b} \in SUBSET Nat /\ {a, b} # {}
  OBVIOUS
<1>2. Min({a, b}) \in {a, b} /\ \A m \in {a, b} : Min({a, b}) <= m
  BY <1>1, MinIs
<1>3. (Min({a, b}) = a \/ Min({a, b}) = b) /\ Min({a, b}) <= a /\ Min({a, b}) <= b
  BY <1>2
<1> QED
  BY <1>3

\* What a reranking sorts by.
Keys(pool, scores) == [n \in DOMAIN pool |-> IF n - 1 \in DOMAIN scores THEN 1 + scores[n - 1] ELSE 0]

\* The keys a reranking sorts by are numbers.
LEMMA KeysAre ==
    ASSUME NEW pool \in Seq(Videos), NEW of \in SUBSET Nat, NEW scores \in [of -> Nat]
    PROVE  /\ Keys(pool, scores) \in [DOMAIN pool -> Nat]
           /\ \A n \in DOMAIN pool : Keys(pool, scores)[n] = IF n - 1 \in of THEN 1 + scores[n - 1] ELSE 0
           /\ \A i \in of : scores[i] \in Nat
<1>2. \A i \in of : scores[i] \in Nat
  OBVIOUS
<1>3. \A n \in DOMAIN pool : (IF n - 1 \in of THEN 1 + scores[n - 1] ELSE 0) \in Nat
  BY <1>2
<1>4. DOMAIN scores = of
  OBVIOUS
<1> QED
  BY <1>2, <1>3, <1>4 DEF Keys

\* A reranking is the pool, all of it, sorted by keys and then by place, and cut.
LEMMA RerankedIs ==
    ASSUME NEW candidates \in Seq(Videos), Distinct(candidates), NEW of \in SUBSET Nat,
           NEW scores \in [of -> Nat]
    PROVE  LET pool == FirstOf(candidates, MaxCandidates)
               key == Keys(pool, scores)
               L == SortedDown(pool, Above(key))
               o == Sorting(pool, Above(key))
           IN  /\ pool \in Seq(Videos) /\ Distinct(pool) /\ DOMAIN pool = 1..Len(pool) /\ Len(pool) \in Nat
               /\ L \in Seq(Videos) /\ Distinct(L) /\ Len(L) = Len(pool) /\ Range(L) = Range(pool)
               /\ o \in [1..Len(pool) -> 1..Len(pool)]
               /\ \A i \in 1..Len(pool) : L[i] = pool[o[i]]
               /\ \A p \in 1..Len(pool) : \E i \in 1..Len(pool) : o[i] = p
               /\ \A i, j \in 1..Len(pool) : i < j =>
                     ~(key[o[j]] > key[o[i]]) /\ (key[o[i]] > key[o[j]] \/ o[i] < o[j])
               /\ \A topK : Reranked(candidates, scores, topK) = FirstOf(L, topK)
<1> DEFINE pool == FirstOf(candidates, MaxCandidates)
           key == Keys(pool, scores)
           L == SortedDown(pool, Above(key))
           o == Sorting(pool, Above(key))
<1>1. pool \in Seq(Videos) /\ Distinct(pool)
  BY FirstOfIs, FirstOfDistinct, RetrievalAssumption
<1>2. \A topK : Reranked(candidates, scores, topK) = FirstOf(L, topK)
  BY DEF Reranked, Keys
<1> HIDE DEF pool
<1>3. DOMAIN pool = 1..Len(pool) /\ Len(pool) \in Nat
  BY <1>1, ListPlaces
<1>4. key \in [DOMAIN pool -> Nat]
  BY <1>1, KeysAre
<1> HIDE DEF key
<1>5. /\ WeakOrder(Above(key), DOMAIN pool)
      /\ \A a, b \in DOMAIN pool : <<a, b>> \in Above(key) <=> key[a] > key[b]
  BY <1>4, AboveIs
<1>6. L \in Seq(Videos) /\ Distinct(L) /\ Len(L) = Len(pool) /\ Range(L) = Range(pool)
  BY <1>1, <1>5, SortedDownDistinct
<1>7. /\ o \in [1..Len(pool) -> 1..Len(pool)]
      /\ \A p \in 1..Len(pool) : \E i \in 1..Len(pool) : o[i] = p
      /\ \A i, j \in 1..Len(pool) : i < j =>
            <<o[j], o[i]>> \notin Above(key) /\ (<<o[i], o[j]>> \in Above(key) \/ o[i] < o[j])
      /\ \A i \in 1..Len(pool) : L[i] = pool[o[i]]
  <2>1. pool \in Seq(Videos)
    BY <1>1
  <2> QED
    BY ONLY <1>5, <2>1, SortedDownIs
<1> HIDE DEF o, L
<1>8. \A i \in 1..Len(pool) : o[i] \in DOMAIN pool
  BY <1>3, <1>7
<1>9. \A i, j \in 1..Len(pool) : i < j => ~(key[o[j]] > key[o[i]]) /\ (key[o[i]] > key[o[j]] \/ o[i] < o[j])
  BY <1>5, <1>7, <1>8
<1> QED
  BY <1>1, <1>2, <1>3, <1>6, <1>7, <1>9 DEF pool, key, L, o

\* Reranking changes the order and nothing else, follows the scores, puts last what has
\* none, and keeps the fusion's order where they do not decide (rerank).
THEOREM RerankingKeeps == Spec => []RerankKeepsCandidates
<1>1. Init => RerankKeepsCandidates
  BY DEF Init, RerankKeepsCandidates
<1>2. RerankKeepsCandidates /\ [Next]_vars => RerankKeepsCandidates'
  <2>1. Rerank => RerankKeepsCandidates'
    <3> SUFFICES ASSUME NEW candidates \in Lists(MaxCandidates + 1), NEW of \in SUBSET (0..MaxCandidates),
                        NEW scores \in [of -> 0..MaxScore], NEW topK \in 1..MaxCandidates,
                        given' = [candidates |-> candidates, scores |-> scores, topK |-> topK],
                        result' = Reranked(candidates, scores, topK)
                 PROVE  RerankKeepsCandidates'
      BY DEF Rerank, Returns
    <3> DEFINE pool == FirstOf(candidates, MaxCandidates)
               n == Len(pool)
               key == Keys(pool, scores)
               L == SortedDown(pool, Above(key))
               o == Sorting(pool, Above(key))
               R == FirstOf(L, topK)
               index(v) == Rank(pool, v) - 1
               scored(v) == index(v) \in DOMAIN scores
               beats(v, w) == Beats(scores, index(v), index(w))
    <3>1. MaxCandidates \in Nat /\ MaxCandidates + 1 \in Nat /\ topK \in Nat
      BY RetrievalAssumption
    <3>2. candidates \in Seq(Videos) /\ Distinct(candidates) /\ of \in SUBSET Nat /\ scores \in [of -> Nat]
      <4>1. 0..MaxScore \subseteq Nat
        OBVIOUS
      <4>2. scores \in [of -> Nat]
        BY <4>1
      <4> QED
        BY <3>1, <4>2, ListsAre
    <3>3. given'.candidates = candidates /\ given'.scores = scores /\ given'.topK = topK /\ result' = R
      <4>1. result' = R
        BY DEF Reranked, Keys
      <4>2. given'.candidates = candidates /\ given'.scores = scores /\ given'.topK = topK
        OBVIOUS
      <4> QED
        BY <4>1, <4>2
    <3>4. /\ pool \in Seq(Videos) /\ Distinct(pool) /\ DOMAIN pool = 1..n /\ n \in Nat
          /\ L \in Seq(Videos) /\ Distinct(L) /\ Len(L) = n /\ Range(L) = Range(pool)
          /\ o \in [1..n -> 1..n]
          /\ \A i \in 1..n : L[i] = pool[o[i]]
          /\ \A p \in 1..n : \E i \in 1..n : o[i] = p
          /\ \A i, j \in 1..n : i < j => ~(key[o[j]] > key[o[i]]) /\ (key[o[i]] > key[o[j]] \/ o[i] < o[j])
      <4>1. scores \in [of -> Nat]
        BY <3>2
      <4>2. candidates \in Seq(Videos) /\ Distinct(candidates) /\ of \in SUBSET Nat
        BY <3>2
      <4>3. /\ pool \in Seq(Videos) /\ Distinct(pool) /\ DOMAIN pool = 1..n /\ n \in Nat
        BY ONLY <4>1, <4>2, RerankedIs
      <4>4. L \in Seq(Videos) /\ Distinct(L) /\ Len(L) = n /\ Range(L) = Range(pool)
        <5>1. L \in Seq(Videos) /\ Distinct(L)
          BY ONLY <4>1, <4>2, RerankedIs
        <5>2. Len(L) = n /\ Range(L) = Range(pool)
          BY ONLY <4>1, <4>2, RerankedIs
        <5> QED
          BY <5>1, <5>2
      <4>5. o \in [1..n -> 1..n] /\ \A i \in 1..n : L[i] = pool[o[i]]
        BY ONLY <4>1, <4>2, RerankedIs
      <4>6. \A p \in 1..n : \E i \in 1..n : o[i] = p
        BY ONLY <4>1, <4>2, RerankedIs
      <4>7. \A i, j \in 1..n : i < j => ~(key[o[j]] > key[o[i]]) /\ (key[o[i]] > key[o[j]] \/ o[i] < o[j])
        BY ONLY <4>1, <4>2, RerankedIs
      <4> QED
        BY <4>3, <4>4, <4>5, <4>6, <4>7
    <3>5. /\ key \in [DOMAIN pool -> Nat]
          /\ \A p \in DOMAIN pool : key[p] = IF p - 1 \in of THEN 1 + scores[p - 1] ELSE 0
          /\ \A i \in of : scores[i] \in Nat
      <4>1. scores \in [of -> Nat] /\ pool \in Seq(Videos) /\ of \in SUBSET Nat
        BY <3>2, <3>4
      <4> HIDE DEF pool
      <4> QED
        BY ONLY <4>1, KeysAre
    <3>6. DOMAIN scores = of
      OBVIOUS
    <3> HIDE DEF L, o, key, n
    <3>7. /\ R \in Seq(Videos) /\ Len(R) = (IF topK < n THEN topK ELSE n)
          /\ \A i \in 1..Len(R) : R[i] = L[i]
          /\ Distinct(R) /\ Range(R) \subseteq Range(pool)
      <4>1. topK \in Nat /\ L \in Seq(Videos) /\ Distinct(L) /\ Len(L) = n /\ Range(L) = Range(pool)
        BY <3>1, <3>4
      <4>2. /\ R \in Seq(Videos) /\ Len(R) = (IF topK < n THEN topK ELSE n)
            /\ \A i \in 1..Len(R) : R[i] = L[i]
        BY ONLY <4>1, FirstOfIs
      <4>3. Distinct(R) /\ Range(R) \subseteq Range(pool)
        BY ONLY <4>1, FirstOfDistinct
      <4> QED
        BY <4>2, <4>3
    <3> HIDE DEF R, pool
    <3>8. IsInjective(R) /\ DOMAIN R = 1..Len(R) /\ Len(R) \in Nat /\ Len(R) <= n
      BY <3>1, <3>4, <3>7, DistinctIs, ListPlaces
    <3>9. Len(R) = Min({topK, Len(pool)})
      <4>1. n \in Nat
        BY <3>4
      <4>2. Min({topK, n}) = IF topK < n THEN topK ELSE n
        BY ONLY <3>1, <4>1, MinOfTwo
      <4> QED
        BY <3>7, <4>2 DEF n
    <3>10. \A p \in 1..n : Rank(pool, pool[p]) = p
      <4> TAKE p \in 1..n
      <4>1. Contains(pool, pool[p])
        BY DEF Contains, n
      <4>2. Rank(pool, pool[p]) \in 1..n /\ pool[Rank(pool, pool[p])] = pool[p]
        BY <3>4, <4>1, ContainsIs DEF n
      <4> QED
        BY <3>4, <4>2 DEF Distinct, n
    <3>11. ASSUME NEW m \in DOMAIN R, NEW w \in Range(pool) \ {R[i] : i \in 1..m} PROVE beats(R[m], w)
      <4>1. m \in 1..n /\ R[m] = pool[o[m]] /\ o[m] \in 1..n
        <5>1. m \in 1..Len(R)
          BY <3>8
        <5>2. n \in Nat
          BY <3>4
        <5>3. m \in 1..n
          BY <3>8, <5>1, <5>2
        <5>4. R[m] = L[m]
          BY <3>7, <5>1
        <5>5. L[m] = pool[o[m]] /\ o[m] \in 1..n
          BY <3>4, <5>3
        <5> QED
          BY <5>3, <5>4, <5>5
      <4>2. PICK p \in 1..n : w = pool[p]
        <5>1. pool \in Seq(Videos)
          BY <3>4
        <5>2. Range(pool) = {pool[i] : i \in 1..n}
          BY <5>1, DistinctIs DEF n
        <5> QED
          BY <5>2
      <4>3. PICK j \in 1..n : o[j] = p
        BY <3>4
      <4>4. j > m
        <5> SUFFICES ASSUME j <= m PROVE FALSE
          BY <3>4, <4>1
        <5>1. j \in 1..m /\ j \in 1..Len(R)
          BY <3>8, <4>1
        <5>2. R[j] = pool[p]
          BY <3>4, <3>7, <4>3, <5>1
        <5> QED
          BY <3>11, <4>2, <5>1, <5>2
      <4> DEFINE a == o[m]
      <4>5. ~(key[p] > key[a]) /\ (key[a] > key[p] \/ a < p)
        BY <3>4, <4>1, <4>3, <4>4
      <4>6. index(R[m]) = a - 1 /\ index(w) = p - 1
        BY <3>10, <4>1, <4>2
      <4>7. a \in DOMAIN pool /\ p \in DOMAIN pool /\ a \in Nat /\ p \in Nat
        BY <3>4, <4>1
      <4> HIDE DEF a, index
      <4>8. /\ key[a] = IF scored(R[m]) THEN 1 + scores[index(R[m])] ELSE 0
            /\ key[p] = IF scored(w) THEN 1 + scores[index(w)] ELSE 0
            /\ scored(R[m]) => scores[index(R[m])] \in Nat
            /\ scored(w) => scores[index(w)] \in Nat
        BY <3>5, <3>6, <4>6, <4>7
      <4>9. CASE scored(R[m]) /\ scored(w) /\ scores[index(R[m])] # scores[index(w)]
        <5>1. scores[index(R[m])] > scores[index(w)]
          BY <4>5, <4>8, <4>9
        <5> QED
          BY <4>9, <5>1 DEF Beats
      <4>10. CASE scored(R[m]) # scored(w)
        <5>1. scored(R[m])
          BY <4>5, <4>8, <4>10
        <5> QED
          BY <4>10, <5>1 DEF Beats
      <4>11. CASE ~(scored(R[m]) # scored(w)) /\ ~(scored(R[m]) /\ scored(w) /\ scores[index(R[m])] # scores[index(w)])
        <5>1. key[a] = key[p] /\ key[a] \in Nat
          BY <4>8, <4>11
        <5>2. a < p
          BY <4>5, <5>1
        <5>3. index(R[m]) < index(w)
          BY <4>6, <4>7, <5>2
        <5> QED
          BY <4>11, <5>3 DEF Beats
      <4> QED
        BY <4>9, <4>10, <4>11
    <3>12. \A m \in DOMAIN R : \A w \in Range(pool) \ {R[i] : i \in 1..m} : beats(R[m], w)
      BY <3>11
    <3> HIDE DEF beats
    <3> QED
      BY <3>3, <3>7, <3>8, <3>9, <3>12 DEF RerankKeepsCandidates, pool, beats
  <2>2. UNCHANGED vars => (RerankKeepsCandidates => RerankKeepsCandidates')
    <3> SUFFICES ASSUME UNCHANGED vars, RerankKeepsCandidates PROVE RerankKeepsCandidates'
      OBVIOUS
    <3>1. call' = call /\ given' = given /\ result' = result
      BY DEF vars
    <3> QED
      BY <3>1 DEF RerankKeepsCandidates
  <2>3. Next /\ ~Rerank => call' # "rerank"
    BY Names, Steps
  <2> QED
    BY <2>1, <2>2, <2>3 DEF RerankKeepsCandidates
<1> QED
  BY <1>1, <1>2, PTL DEF Spec

-----------------------------------------------------------------------------
\* Taking all places of a list gives the list.
LEMMA AtAll ==
    ASSUME NEW T, NEW list \in Seq(T)
    PROVE  At(list, DOMAIN list) = list
<1> DEFINE D == DOMAIN list
           n == Len(list)
           o == InPlace(D)
           L == At(list, D)
<1>1. D = 1..n /\ n \in Nat /\ list \in [1..n -> T] /\ Cardinality(D) = n
  BY ListPlaces
<1>2. D \in SUBSET (DOMAIN list)
  OBVIOUS
<1> HIDE DEF D, n
<1>3. /\ o \in [1..Cardinality(D) -> D]
      /\ \A i, j \in 1..Cardinality(D) : i < j <=> o[i] < o[j]
      /\ \A p \in D : \E i \in 1..Cardinality(D) : o[i] = p
      /\ L \in [1..Cardinality(D) -> T]
      /\ \A i \in 1..Cardinality(D) : L[i] = list[o[i]]
  BY <1>2, AtIs
<1> HIDE DEF o, L
<1>4. /\ \A i \in 1..n : o[i] \in 1..n
      /\ \A i, j \in 1..n : i < j <=> o[i] < o[j]
      /\ \A p \in 1..n : \E i \in 1..n : o[i] = p
      /\ L \in [1..n -> T]
      /\ \A i \in 1..n : L[i] = list[o[i]]
  BY <1>1, <1>3
<1>5. \A i \in 1..n : o[i] = i
  <2> DEFINE S == {i \in 1..n : o[i] # i}
  <2> SUFFICES ASSUME S # {} PROVE FALSE
    OBVIOUS
  <2>1. S \in SUBSET Nat
    BY <1>1
  <2>2. PICK i \in S : \A j \in S : i <= j
    <3> HIDE DEF S
    <3> QED
      BY <2>1, LeastNat
  <2>3. i \in 1..n /\ o[i] # i /\ o[i] \in 1..n
    BY <1>4
  <2>4. \A j \in 1..n : j < i => o[j] = j
    BY <1>1, <2>2
  <2>5. PICK j \in 1..n : o[j] = i
    BY <1>4, <2>3
  <2>6. CASE j < i
    BY <1>1, <2>4, <2>5, <2>6
  <2>7. CASE j = i
    BY <2>3, <2>5, <2>7
  <2>8. CASE i < j
    <3>1. o[i] < i
      BY <1>4, <2>3, <2>5, <2>8
    <3>2. o[o[i]] = o[i]
      BY <2>3, <2>4, <3>1
    <3>3. o[o[i]] < o[i]
      BY <1>4, <2>3, <3>1
    <3> QED
      BY <1>1, <2>3, <3>2, <3>3
  <2> QED
    BY <1>1, <2>3, <2>6, <2>7, <2>8
<1>6. L = list
  <2>1. \A i \in 1..n : L[i] = list[i]
    BY <1>4, <1>5
  <2> QED
    BY <1>1, <1>4, <2>1
<1> QED
  BY <1>6 DEF L, D

\* Where no video has been deleted all remain.
LEMMA KeptAll ==
    ASSUME NEW rows \in Rows, NEW k \in Nat
    PROVE  Kept(rows, Videos, k) = FirstOf(Likeliest(rows), k)
<1> DEFINE top == FirstOf(Likeliest(rows), k)
           all == {n \in DOMAIN top : top[n] \in Videos}
<1>1. top \in Seq(Videos)
  BY LikeliestIs, FirstOfIs
<1>2. Kept(rows, Videos, k) = At(top, all)
  BY DEF Kept
<1> HIDE DEF top
<1>3. DOMAIN top = 1..Len(top) /\ \A n \in 1..Len(top) : top[n] \in Videos
  BY <1>1, ListPlaces, ElementOfSeq
<1>4. all = DOMAIN top
  BY <1>3
<1> HIDE DEF all
<1> QED
  BY <1>1, <1>2, <1>4, AtAll DEF top

\* A list cut at k has no hit that the list cut at k + 1 has not, and the same first one.
LEMMA Evaluated ==
    ASSUME NEW L \in Seq(Videos), Distinct(L), NEW relevant \in SUBSET Videos, NEW k \in Nat
    PROVE  LET at == Evaluate(relevant, FirstOf(L, k))
               after == Evaluate(relevant, FirstOf(L, k + 1))
           IN  /\ at.hits <= Cardinality(relevant) /\ at.rank <= k
               /\ at.rank > 0 <=> at.hits > 0
               /\ after.hits >= at.hits
               /\ at.rank > 0 => after.rank = at.rank
<1> DEFINE F == FirstOf(L, k)
           G == FirstOf(L, k + 1)
           fr == {n \in DOMAIN F : F[n] \in relevant}
           gr == {n \in DOMAIN G : G[n] \in relevant}
<1>1. k + 1 \in Nat /\ Len(L) \in Nat
  BY ListPlaces
<1>2. /\ F \in Seq(Videos) /\ Len(F) = (IF k < Len(L) THEN k ELSE Len(L))
      /\ \A i \in 1..Len(F) : F[i] = L[i]
  BY FirstOfIs
<1>3. /\ G \in Seq(Videos) /\ Len(G) = (IF k + 1 < Len(L) THEN k + 1 ELSE Len(L))
      /\ \A i \in 1..Len(G) : G[i] = L[i]
  BY <1>1, FirstOfIs
<1>4. /\ Evaluate(relevant, F) = [hits |-> Cardinality(fr), rank |-> IF fr = {} THEN 0 ELSE Min(fr)]
      /\ Evaluate(relevant, G) = [hits |-> Cardinality(gr), rank |-> IF gr = {} THEN 0 ELSE Min(gr)]
  BY DEF Evaluate
<1>5. Distinct(F)
  BY FirstOfDistinct
<1> HIDE DEF F, G
<1>6. DOMAIN F = 1..Len(F) /\ DOMAIN G = 1..Len(G)
  BY <1>2, <1>3, ListPlaces
<1>7. Len(F) \in Nat /\ Len(G) \in Nat /\ Len(F) <= k /\ Len(F) <= Len(G)
  BY <1>1, <1>2, <1>3
<1>8. \A n \in 1..Len(G) : n \in gr <=> L[n] \in relevant
  BY <1>3, <1>6
<1>9. \A n \in 1..Len(F) : n \in 1..Len(G) /\ (n \in fr <=> n \in gr)
  BY <1>2, <1>6, <1>7, <1>8
<1>10. fr \subseteq 1..Len(F) /\ gr \subseteq 1..Len(G)
  BY <1>6
<1>11. IsFiniteSet(1..Len(G)) /\ IsFiniteSet(relevant)
  <2>1. IsFiniteSet(1..Len(G))
    BY <1>7, FS_Interval
  <2>2. IsFiniteSet(Videos) /\ relevant \in SUBSET Videos
    BY RetrievalAssumption
  <2>3. IsFiniteSet(relevant)
    BY ONLY <2>2, FS_Subset
  <2> QED
    BY <2>1, <2>3
<1>12. Cardinality(fr) <= Cardinality(relevant)
  <2> DEFINE f == [n \in fr |-> F[n]]
  <2>1. f \in Injection(fr, relevant)
    BY <1>5, <1>10 DEF Injection, IsInjective, Distinct
  <2> HIDE DEF f, fr
  <2> QED
    BY <1>11, <2>1, FS_Injection
<1> HIDE DEF fr, gr
<1>13. fr \in SUBSET gr /\ IsFiniteSet(gr) /\ IsFiniteSet(fr)
  <2>1. fr \in SUBSET gr
    BY <1>9, <1>10
  <2>2. gr \in SUBSET (1..Len(G))
    BY <1>10
  <2>3. IsFiniteSet(gr)
    BY <1>11, <2>2, FS_Subset
  <2> QED
    BY <2>1, <2>3, FS_Subset
<1>14. Cardinality(fr) <= Cardinality(gr) /\ Cardinality(fr) \in Nat /\ Cardinality(gr) \in Nat
  BY <1>13, FS_Subset, FS_CardinalityType
<1>15. fr = {} <=> Cardinality(fr) = 0
  BY <1>13, FS_EmptySet
<1>16. fr # {} => Min(fr) \in fr /\ \A n \in fr : Min(fr) <= n
  <2>1. fr \in SUBSET Nat
    BY <1>7, <1>10
  <2> QED
    BY <2>1, MinIs
<1>17. gr # {} => Min(gr) \in gr /\ \A n \in gr : Min(gr) <= n
  <2>1. gr \in SUBSET Nat
    BY <1>7, <1>10
  <2> QED
    BY <2>1, MinIs
<1>18. fr # {} => Min(fr) \in 1..Len(F) /\ gr # {} /\ Min(gr) = Min(fr)
  <2> SUFFICES ASSUME fr # {} PROVE Min(fr) \in 1..Len(F) /\ gr # {} /\ Min(gr) = Min(fr)
    OBVIOUS
  <2>1. Min(fr) \in 1..Len(F) /\ Min(fr) \in gr
    BY <1>10, <1>13, <1>16
  <2>2. Min(gr) <= Min(fr) /\ Min(gr) \in 1..Len(G) /\ Min(gr) \in gr
    BY <1>10, <1>17, <2>1
  <2>3. Min(gr) \in 1..Len(F)
    BY <1>7, <2>1, <2>2
  <2>4. Min(gr) \in fr
    BY <1>9, <2>2, <2>3
  <2>5. Min(fr) <= Min(gr)
    BY <1>16, <2>4
  <2> QED
    BY <1>7, <2>1, <2>2, <2>5
<1> DEFINE a == Evaluate(relevant, F)
           b == Evaluate(relevant, G)
<1>19. /\ a.hits = Cardinality(fr) /\ a.rank = IF fr = {} THEN 0 ELSE Min(fr)
       /\ b.hits = Cardinality(gr) /\ b.rank = IF gr = {} THEN 0 ELSE Min(gr)
  BY <1>4
<1> HIDE DEF a, b
<1>20. a.hits <= Cardinality(relevant) /\ a.rank <= k
  BY <1>7, <1>12, <1>18, <1>19
<1>21. a.rank > 0 <=> a.hits > 0
  BY <1>7, <1>14, <1>15, <1>18, <1>19
<1>22. b.hits >= a.hits
  BY <1>14, <1>19
<1>23. a.rank > 0 => b.rank = a.rank
  BY <1>18, <1>19
<1> QED
  BY <1>20, <1>21, <1>22, <1>23 DEF a, b, F, G

\* Each of the four searches cut at k is one list cut at k.
LEMMA SearchesCut ==
    ASSUME NEW keyword \in Hits, NEW rows \in Rows, NEW k \in Nat
    PROVE  LET there == Kept(rows, Videos, Pool)
               fused == Fused(keyword, there)
               candidates == FirstOf(fused, MaxCandidates)
               scores == [i \in {1} |-> 1]
               pool == FirstOf(candidates, MaxCandidates)
               reranked == SortedDown(pool, Above(Keys(pool, scores)))
               S == Searches(keyword, rows, scores, k)
           IN  /\ DOMAIN S = {"L0", "L1", "hybrid", "rerank"}
               /\ S["L0"] = FirstOf(keyword, k)
               /\ S["L1"] = FirstOf(Likeliest(rows), k)
               /\ S["hybrid"] = FirstOf(fused, k)
               /\ S["rerank"] = FirstOf(reranked, k)
               /\ fused \in Seq(Videos) /\ Distinct(fused)
               /\ reranked \in Seq(Videos) /\ Distinct(reranked)
<1> DEFINE there == Kept(rows, Videos, Pool)
           fused == Fused(keyword, there)
           candidates == FirstOf(fused, MaxCandidates)
           scores == [i \in {1} |-> 1]
           pool == FirstOf(candidates, MaxCandidates)
           reranked == SortedDown(pool, Above(Keys(pool, scores)))
           S == Searches(keyword, rows, scores, k)
           semantic(n) == Semantic(rows, Videos, n)
           hybrid(n) == Hybrid(keyword, semantic(Pool), n)
<1>1. /\ DOMAIN S = {"L0", "L1", "hybrid", "rerank"}
      /\ S["L0"] = FirstOf(keyword, k)
      /\ S["L1"] = VideosIn(semantic(k))
      /\ S["hybrid"] = VideosIn(hybrid(k))
      /\ S["rerank"] = Reranked(VideosIn(hybrid(MaxCandidates)), scores, k)
  BY DEF Searches
<1>2. Pool \in Nat /\ MaxCandidates \in Nat /\ Videos \in SUBSET Videos
  BY RetrievalAssumption
<1>3. keyword \in Seq(Videos) /\ Distinct(keyword) /\ there \in Seq(Videos) /\ Distinct(there)
  BY <1>2, HitsAre, KeptIs
<1>4. fused \in Seq(Videos) /\ Distinct(fused)
  BY <1>3, FusedIs
<1>5. VideosIn(semantic(k)) = FirstOf(Likeliest(rows), k)
  <2>1. [n \in DOMAIN semantic(k) |-> semantic(k)[n].video] = Kept(rows, Videos, k)
    BY <1>2, SemanticIs
  <2> QED
    BY <2>1, KeptAll DEF VideosIn
<1>6. ASSUME NEW n \in Nat PROVE VideosIn(hybrid(n)) = FirstOf(fused, n)
  <2> DEFINE H == hybrid(n)
             top == FirstOf(fused, n)
  <2>1. /\ top \in Seq(Videos) /\ DOMAIN H = 1..Len(top)
        /\ \A i \in 1..Len(top) : H[i].video = top[i]
    BY <1>2, HybridIs
  <2> HIDE DEF H, top
  <2>2. top \in [1..Len(top) -> Videos]
    BY <2>1, ListPlaces
  <2>3. [i \in DOMAIN H |-> H[i].video] = top
    BY <2>1, <2>2
  <2> QED
    BY <2>3 DEF VideosIn, H, top
<1>7. candidates \in Seq(Videos) /\ Distinct(candidates)
  BY <1>2, <1>4, FirstOfIs, FirstOfDistinct
<1>8. S["rerank"] = Reranked(candidates, scores, k)
  BY <1>1, <1>2, <1>6
<1>9. scores \in [{1} -> Nat] /\ {1} \in SUBSET Nat
  OBVIOUS
<1>10. /\ reranked \in Seq(Videos) /\ Distinct(reranked)
       /\ Reranked(candidates, scores, k) = FirstOf(reranked, k)
  <2>1. candidates \in Seq(Videos)
    BY <1>7
  <2>2. Distinct(candidates)
    BY <1>7
  <2>3. {1} \in SUBSET Nat
    BY <1>9
  <2>4. scores \in [{1} -> Nat]
    BY <1>9
  <2> HIDE DEF candidates, scores
  <2>5. reranked \in Seq(Videos) /\ Distinct(reranked)
    BY ONLY <2>1, <2>2, <2>3, <2>4, RerankedIs
  <2>6. \A topK : Reranked(candidates, scores, topK) = FirstOf(reranked, topK)
    BY ONLY <2>1, <2>2, <2>3, <2>4, RerankedIs
  <2> QED
    BY <2>5, <2>6
<1> HIDE DEF S, fused, reranked, candidates, scores, semantic, hybrid
<1> QED
  BY <1>1, <1>4, <1>5, <1>6, <1>8, <1>10 DEF S, fused, reranked, candidates, scores

\* With a larger k no hit is lost and no first hit moves; recall and rank are what they
\* claim to be, for each search (evaluate_retrieval).
THEOREM RecallIsHonest == Spec => []RecallHonest
<1>1. Init => RecallHonest
  BY DEF Init, RecallHonest
<1>2. RecallHonest /\ [Next]_vars => RecallHonest'
  <2>1. EvaluateRetrieval => RecallHonest'
    <3> DEFINE scores == [i \in {1} |-> 1]
               found(keyword, rows, cut) == Searches(keyword, rows, scores, cut)
               results(keyword, rows, relevant, cut) ==
                  [mode \in DOMAIN found(keyword, rows, cut) |->
                      Evaluate(relevant, found(keyword, rows, cut)[mode])]
    <3> SUFFICES ASSUME NEW keyword \in Hits, NEW rows \in Rows, NEW relevant \in SUBSET Videos, NEW k \in 1..MaxLimit,
                        given' = [relevant |-> relevant, k |-> k],
                        result' = [at |-> results(keyword, rows, relevant, k),
                                   after |-> results(keyword, rows, relevant, k + 1)]
                 PROVE  RecallHonest'
      BY DEF EvaluateRetrieval, Returns
    <3> DEFINE at == results(keyword, rows, relevant, k)
               after == results(keyword, rows, relevant, k + 1)
               Modes == {"L0", "L1", "hybrid", "rerank"}
    <3>1. given'.relevant = relevant /\ given'.k = k /\ result'.at = at /\ result'.after = after
      OBVIOUS
    <3>2. k \in Nat /\ k + 1 \in Nat
      OBVIOUS
    <3> DEFINE F(cut) == found(keyword, rows, cut)
    <3>3. DOMAIN F(k) = Modes /\ DOMAIN F(k + 1) = Modes
      BY <3>2, SearchesCut
    <3>4. \A mode \in Modes : \E L \in Seq(Videos) :
             Distinct(L) /\ F(k)[mode] = FirstOf(L, k) /\ F(k + 1)[mode] = FirstOf(L, k + 1)
      <4> DEFINE there == Kept(rows, Videos, Pool)
                 fused == Fused(keyword, there)
                 candidates == FirstOf(fused, MaxCandidates)
                 pool == FirstOf(candidates, MaxCandidates)
                 reranked == SortedDown(pool, Above(Keys(pool, scores)))
      <4>1. /\ F(k)["L0"] = FirstOf(keyword, k) /\ F(k)["L1"] = FirstOf(Likeliest(rows), k)
            /\ F(k)["hybrid"] = FirstOf(fused, k) /\ F(k)["rerank"] = FirstOf(reranked, k)
            /\ fused \in Seq(Videos) /\ Distinct(fused)
            /\ reranked \in Seq(Videos) /\ Distinct(reranked)
        BY <3>2, SearchesCut
      <4>2. /\ F(k + 1)["L0"] = FirstOf(keyword, k + 1) /\ F(k + 1)["L1"] = FirstOf(Likeliest(rows), k + 1)
            /\ F(k + 1)["hybrid"] = FirstOf(fused, k + 1) /\ F(k + 1)["rerank"] = FirstOf(reranked, k + 1)
        BY <3>2, SearchesCut
      <4>3. keyword \in Seq(Videos) /\ Distinct(keyword) /\ Likeliest(rows) \in Seq(Videos) /\ Distinct(Likeliest(rows))
        BY HitsAre, LikeliestIs
      <4> HIDE DEF F, fused, reranked
      <4> QED
        BY <4>1, <4>2, <4>3
    <3>5. /\ DOMAIN at = Modes
          /\ \A mode \in Modes : at[mode] = Evaluate(relevant, F(k)[mode])
                                 /\ after[mode] = Evaluate(relevant, F(k + 1)[mode])
      <4>1. at = [mode \in DOMAIN F(k) |-> Evaluate(relevant, F(k)[mode])]
            /\ after = [mode \in DOMAIN F(k + 1) |-> Evaluate(relevant, F(k + 1)[mode])]
        OBVIOUS
      <4> HIDE DEF at, after, F
      <4> QED
        BY <3>3, <4>1
    <3> HIDE DEF at, after, F, Modes
    <3>6. ASSUME NEW mode \in DOMAIN at
          PROVE  /\ at[mode].hits <= Cardinality(relevant) /\ at[mode].rank <= k
                 /\ at[mode].rank > 0 <=> at[mode].hits > 0
                 /\ after[mode].hits >= at[mode].hits
                 /\ at[mode].rank > 0 => after[mode].rank = at[mode].rank
      <4>1. PICK L \in Seq(Videos) :
               Distinct(L) /\ F(k)[mode] = FirstOf(L, k) /\ F(k + 1)[mode] = FirstOf(L, k + 1)
        BY <3>4, <3>5
      <4>2. at[mode] = Evaluate(relevant, FirstOf(L, k)) /\ after[mode] = Evaluate(relevant, FirstOf(L, k + 1))
        BY <3>5, <4>1
      <4> QED
        BY <3>2, <4>1, <4>2, Evaluated
    <3> QED
      BY <3>1, <3>6 DEF RecallHonest
  <2>2. UNCHANGED vars => (RecallHonest => RecallHonest')
    BY DEF vars, RecallHonest
  <2>3. Next /\ ~EvaluateRetrieval => call' # "evaluate"
    BY Names, Steps
  <2> QED
    BY <2>1, <2>2, <2>3 DEF RecallHonest
<1> QED
  BY <1>1, <1>2, PTL DEF Spec

-----------------------------------------------------------------------------
\* Behind the m-th of n places, in their order, lie n - m of them.
LEMMA PlacesBehind ==
    ASSUME NEW places \in SUBSET Nat, IsFiniteSet(places), NEW m \in 1..Cardinality(places)
    PROVE  Cardinality({q \in places : q > InPlace(places)[m]}) = Cardinality(places) - m
<1> DEFINE n == Cardinality(places)
           o == InPlace(places)
           behind == {q \in places : q > o[m]}
           f == [i \in m + 1..n |-> o[i]]
<1>1. /\ n \in Nat /\ o \in [1..n -> places]
      /\ \A i, j \in 1..n : i < j <=> o[i] < o[j]
      /\ \A p \in places : \E i \in 1..n : o[i] = p
  BY InPlaceIs
<1>2. m \in 1..n
  OBVIOUS
<1> HIDE DEF n, o
<1>3. \A i \in 1..n : o[i] \in places /\ o[i] \in Nat
  BY <1>1
<1>4. \A i \in m + 1..n : i \in 1..n /\ o[i] \in behind
  BY <1>1, <1>2, <1>3
<1>5. \A p \in behind : \E i \in m + 1..n : o[i] = p
  <2> TAKE p \in behind
  <2>1. PICK i \in 1..n : o[i] = p
    BY <1>1
  <2>2. o[m] < o[i]
    BY <1>2, <1>3, <2>1
  <2>3. i \in m + 1..n
    BY <1>1, <1>2, <2>2
  <2> QED
    BY <2>1, <2>3
<1>6. \A i, j \in m + 1..n : o[i] = o[j] => i = j
  <2> SUFFICES ASSUME NEW i \in m + 1..n, NEW j \in m + 1..n, o[i] = o[j], i # j PROVE FALSE
    OBVIOUS
  <2>1. i \in 1..n /\ j \in 1..n /\ (i < j \/ j < i)
    BY <1>1, <1>2
  <2> QED
    BY <1>1, <1>3, <2>1
<1>7. f \in Bijection(m + 1..n, behind)
  <2>1. f \in [m + 1..n -> behind]
    BY <1>4
  <2> QED
    BY <1>5, <1>6, <2>1 DEF Bijection, Injection, Surjection, IsInjective
<1>8. IsFiniteSet(m + 1..n) /\ Cardinality(m + 1..n) = n - m
  BY <1>1, <1>2, FS_Interval
<1> HIDE DEF behind, f
<1>9. ExistsBijection(m + 1..n, behind)
  BY <1>7 DEF ExistsBijection
<1>10. Cardinality(behind) = n - m
  BY <1>8, <1>9, FS_Bijection
<1> QED
  BY <1>10 DEF behind, n, o

Messages == {"other", "tool", "cut"}

\* compact_node leaves the last KeepRecent tool results alone, shortens the others and
\* leaves every message in its place.
LEMMA CompactedIs ==
    ASSUME NEW messages \in Seq(Messages)
    PROVE  LET C == Compacted(messages)
               places(list) == {m \in DOMAIN list : IsTool(list[m])}
               tools == At(C, places(C))
               before == At(messages, places(messages))
               n == Len(tools)
           IN  /\ C \in Seq(Messages) /\ Len(C) = Len(messages)
               /\ \A m \in DOMAIN messages : ~IsTool(messages[m]) <=> ~IsTool(C[m])
               /\ \A m \in 1..n : IF m + KeepRecent <= n THEN tools[m] = "cut"
                                                         ELSE tools[m] = before[m]
<1> DEFINE N == Len(messages)
           P == {m \in DOMAIN messages : IsTool(messages[m])}
           C == Compacted(messages)
           PC == {m \in DOMAIN C : IsTool(C[m])}
           behind(p) == {q \in P : q > p}
           n == Cardinality(P)
           o == InPlace(P)
<1>1. DOMAIN messages = 1..N /\ N \in Nat /\ messages \in [1..N -> Messages]
  BY ListPlaces
<1>2. P \in SUBSET (1..N) /\ P \in SUBSET Nat /\ IsFiniteSet(P)
  <2>1. P \in SUBSET (1..N)
    BY <1>1
  <2> QED
    BY <1>1, <2>1, ListPlaces, FS_Subset
<1>3. C = [m \in 1..N |-> IF m \in P /\ Cardinality(behind(m)) >= KeepRecent
                          THEN Shorten(messages[m]) ELSE messages[m]]
  BY <1>1 DEF Compacted
<1>4. \A m \in 1..N : m \in P <=> messages[m] \in {"tool", "cut"}
  BY <1>1 DEF IsTool, Messages
<1> HIDE DEF P, C, behind, N
<1>5. \A m \in 1..N : messages[m] \in {"tool", "cut"} => Shorten(messages[m]) = "cut"
  BY DEF Shorten, Marked, Summary
<1>6. /\ C \in [1..N -> Messages]
      /\ \A m \in 1..N : m \notin P => C[m] = messages[m]
      /\ \A m \in P : C[m] = IF Cardinality(behind(m)) >= KeepRecent THEN "cut" ELSE messages[m]
  <2>1. \A m \in 1..N : (IF m \in P /\ Cardinality(behind(m)) >= KeepRecent
                         THEN Shorten(messages[m]) ELSE messages[m]) \in Messages
    BY <1>1, <1>4, <1>5 DEF Messages
  <2>2. \A m \in P : m \in 1..N /\ messages[m] \in {"tool", "cut"}
    BY <1>2, <1>4
  <2> QED
    BY <1>3, <1>5, <2>1, <2>2
<1>7. C \in Seq(Messages) /\ Len(C) = N /\ DOMAIN C = 1..N
  BY <1>1, <1>6, ListIs
<1>8. \A m \in 1..N : IsTool(messages[m]) <=> IsTool(C[m])
  <2>1. \A m \in P : C[m] \in {"tool", "cut"}
    BY <1>2, <1>4, <1>6
  <2> QED
    BY <1>1, <1>4, <1>6, <2>1 DEF IsTool, Messages
<1>9. PC = P
  BY <1>1, <1>7, <1>8 DEF P
<1>10. /\ n \in Nat /\ o \in [1..n -> P]
       /\ At(C, P) \in [1..n -> Messages] /\ \A i \in 1..n : At(C, P)[i] = C[o[i]]
       /\ At(messages, P) \in [1..n -> Messages] /\ \A i \in 1..n : At(messages, P)[i] = messages[o[i]]
  <2>1. P \in SUBSET (DOMAIN C) /\ P \in SUBSET (DOMAIN messages)
    BY <1>1, <1>2, <1>7
  <2> HIDE DEF n, o
  <2>2. n \in Nat /\ o \in [1..n -> P]
    BY <2>1, AtIs DEF n, o
  <2>3. At(C, P) \in [1..n -> Messages] /\ \A i \in 1..n : At(C, P)[i] = C[o[i]]
    BY <1>7, <2>1, AtIs DEF n, o
  <2>4. At(messages, P) \in [1..n -> Messages] /\ \A i \in 1..n : At(messages, P)[i] = messages[o[i]]
    BY <2>1, AtIs DEF n, o
  <2> QED
    BY <2>2, <2>3, <2>4
<1>11. Len(At(C, P)) = n
  BY <1>10, ListIs
<1>12. \A m \in 1..n : Cardinality(behind(o[m])) = n - m
  BY <1>2, PlacesBehind DEF behind
<1> HIDE DEF n, o
<1>13. ASSUME NEW m \in 1..n
       PROVE  IF m + KeepRecent <= n THEN At(C, P)[m] = "cut" ELSE At(C, P)[m] = At(messages, P)[m]
  <2>1. o[m] \in P /\ At(C, P)[m] = C[o[m]] /\ At(messages, P)[m] = messages[o[m]]
    BY <1>10
  <2>2. C[o[m]] = IF n - m >= KeepRecent THEN "cut" ELSE messages[o[m]]
    BY <1>6, <1>12, <2>1
  <2>3. n - m >= KeepRecent <=> m + KeepRecent <= n
    <3>1. KeepRecent \in Nat
      BY AlgorithmsAssumption
    <3> QED
      BY <1>10, <3>1
  <2> QED
    BY <2>1, <2>2, <2>3
<1>14. \A m \in DOMAIN messages : ~IsTool(messages[m]) <=> ~IsTool(C[m])
  BY <1>1, <1>8
<1> DEFINE T == At(C, PC)
           B == At(messages, P)
<1>15. /\ Len(T) = n
       /\ \A m \in 1..n : IF m + KeepRecent <= n THEN T[m] = "cut" ELSE T[m] = B[m]
  BY <1>9, <1>11, <1>13
<1> HIDE DEF T, B, PC
<1>16. \A m \in 1..Len(T) : IF m + KeepRecent <= Len(T) THEN T[m] = "cut" ELSE T[m] = B[m]
  BY <1>15
<1> QED
  BY <1>7, <1>14, <1>16 DEF T, B, PC, P, C, N

\* The last KeepRecent tool results are as they were, all older ones have been summarized
\* once and everything else is in its place, also in a conversation that has been compacted
\* before (compact_node).
THEOREM CompactionKeeps == Spec => []CompactKeepsRecent
<1>1. Init => CompactKeepsRecent
  BY DEF Init, CompactKeepsRecent
<1>2. CompactKeepsRecent /\ [Next]_vars => CompactKeepsRecent'
  <2>1. Compact => CompactKeepsRecent'
    <3> SUFFICES ASSUME NEW n \in 0..MaxMessages, NEW messages \in [1..n -> {"other", "tool"}],
                        NEW m \in 0..n, NEW conversation,
                        conversation = Compacted(SubSeq(messages, 1, m)) \o SubSeq(messages, m + 1, n),
                        given' = conversation, result' = Compacted(conversation)
                 PROVE  CompactKeepsRecent'
      BY DEF Compact, Returns
    <3>1. n \in Nat /\ m \in Int /\ n \in Int /\ m + 1 \in Int /\ 1 \in Int
      BY AlgorithmsAssumption
    <3>2. \A i \in 1..n : messages[i] \in Messages
      BY DEF Messages
    <3>3. SubSeq(messages, 1, m) \in Seq(Messages)
      <4>1. \A i \in 1..m : messages[i] \in Messages
        BY <3>1, <3>2
      <4> QED
        BY <3>1, <4>1, SubSeqProperties
    <3>4. SubSeq(messages, m + 1, n) \in Seq(Messages)
      <4>1. \A i \in m + 1..n : messages[i] \in Messages
        BY <3>1, <3>2
      <4> QED
        BY <3>1, <4>1, SubSeqProperties
    <3>5. Compacted(SubSeq(messages, 1, m)) \in Seq(Messages)
      <4> DEFINE head == SubSeq(messages, 1, m)
      <4>1. head \in Seq(Messages)
        BY <3>3
      <4> HIDE DEF head
      <4>2. Compacted(head) \in Seq(Messages)
        BY ONLY <4>1, CompactedIs
      <4> QED
        BY <4>2 DEF head
    <3>6. conversation \in Seq(Messages)
      BY <3>4, <3>5, ConcatProperties
    <3> DEFINE places(list) == {p \in DOMAIN list : IsTool(list[p])}
               C == Compacted(conversation)
               tools == At(C, places(C))
               before == At(conversation, places(conversation))
    <3>7. Len(C) = Len(conversation)
      BY ONLY <3>6, CompactedIs
    <3>8. \A p \in DOMAIN conversation : ~IsTool(conversation[p]) <=> ~IsTool(C[p])
      BY ONLY <3>6, CompactedIs
    <3>9. \A p \in 1..Len(tools) : IF p + KeepRecent <= Len(tools) THEN tools[p] = "cut"
                                                                  ELSE tools[p] = before[p]
      BY ONLY <3>6, CompactedIs
    <3>10. given' = conversation /\ result' = C
      OBVIOUS
    <3> HIDE DEF C
    <3> QED
      BY ONLY <3>7, <3>8, <3>9, <3>10 DEF CompactKeepsRecent
  <2>2. UNCHANGED vars => (CompactKeepsRecent => CompactKeepsRecent')
    BY DEF vars, CompactKeepsRecent
  <2>3. Next /\ ~Compact => call' # "compact"
    BY Names, Steps
  <2> QED
    BY <2>1, <2>2, <2>3 DEF CompactKeepsRecent
<1> QED
  BY <1>1, <1>2, PTL DEF Spec

-----------------------------------------------------------------------------
\* a lies from (a \div w) windows of w on, and before one more.
LEMMA DivisionIs ==
    ASSUME NEW a \in Nat, NEW w \in Nat, w > 0
    PROVE  a \div w \in Nat /\ (a \div w) * w <= a /\ a < (a \div w) * w + w
OBVIOUS

\* The page of a moment s, when pages of a window each follow one another from a to t.
LEMMA PageIs ==
    ASSUME NEW a \in Nat, NEW s \in Nat, NEW t \in Nat, a <= s, s <= t,
           NEW w \in Nat, w > 0
    PROVE  /\ 1 + (t - a) \div w \in Nat /\ 1 + (t - a) \div w >= 1
           /\ 1 + (s - a) \div w \in 1..1 + (t - a) \div w
           /\ a + ((1 + (s - a) \div w) - 1) * w <= s
           /\ s < a + ((1 + (s - a) \div w) - 1) * w + w
<1> DEFINE q == (s - a) \div w
           r == (t - a) \div w
<1>1. s - a \in Nat /\ t - a \in Nat /\ s - a <= t - a
  OBVIOUS
<1>2. q \in Nat /\ q * w <= s - a /\ s - a < q * w + w
  BY <1>1, DivisionIs
<1>3. r \in Nat /\ t - a < r * w + w
  BY <1>1, DivisionIs
<1> HIDE DEF q, r
<1>4. q * w \in Nat /\ r * w \in Nat
  BY <1>2, <1>3, TimesGrows
<1>5. q <= r
  <2> SUFFICES ASSUME r + 1 <= q PROVE FALSE
    BY <1>2, <1>3
  <2>1. (r + 1) * w <= q * w
    BY <1>2, <1>3, TimesGrows
  <2>2. (r + 1) * w = r * w + w
    BY <1>3
  <2> QED
    BY <1>1, <1>2, <1>3, <1>4, <2>1, <2>2
<1>6. 1 + q \in 1..1 + r /\ (1 + q) - 1 = q /\ 1 + r \in Nat
  BY <1>2, <1>3, <1>5
<1>7. a + q * w <= s /\ s < a + q * w + w
  BY <1>2, <1>4
<1> QED
  BY <1>3, <1>6, <1>7 DEF q, r

\* A later page begins where the one before ends, or after.
LEMMA LaterPage ==
    ASSUME NEW one \in Nat, NEW two \in Nat, one >= 1, one < two, NEW w \in Nat
    PROVE  (one - 1) * w + w <= (two - 1) * w
<1>1. one \in Nat /\ two - 1 \in Nat /\ one <= two - 1
  OBVIOUS
<1>2. one * w <= (two - 1) * w
  BY <1>1, TimesGrows
<1>3. one * w = (one - 1) * w + w
  OBVIOUS
<1> QED
  BY <1>2, <1>3

\* The segments that start in a window.
Window(starts, from, window) == {m \in DOMAIN starts : from <= starts[m] /\ starts[m] < from + window}

\* An excerpt is the segments of its window in their order.
LEMMA ExcerptIs ==
    ASSUME NEW n \in Nat, NEW starts \in [1..n -> Nat], NEW from \in Nat, NEW window \in Nat
    PROVE  /\ Range(Excerpt(starts, from, window)) = Window(starts, from, window)
           /\ \A i, j \in DOMAIN Excerpt(starts, from, window) :
                 i < j => Excerpt(starts, from, window)[i] < Excerpt(starts, from, window)[j]
<1> DEFINE W == Window(starts, from, window)
           o == InPlace(W)
           N == Cardinality(W)
<1>1. o = Excerpt(starts, from, window)
  BY DEF Excerpt, Window
<1>2. W \in SUBSET (1..n)
  BY DEF Window
<1>3. IsFiniteSet(1..n)
  BY FS_Interval
<1>4. W \in SUBSET Nat /\ IsFiniteSet(W)
  BY <1>2, <1>3, FS_Subset
<1> HIDE DEF W
<1>5. /\ o \in [1..N -> W]
      /\ \A i, j \in 1..N : i < j <=> o[i] < o[j]
      /\ \A p \in W : \E i \in 1..N : o[i] = p
  BY <1>4, InPlaceIs
<1> HIDE DEF o, N
<1>6. Range(o) = W
  BY <1>5 DEF Range
<1>7. \A i, j \in DOMAIN o : i < j => o[i] < o[j]
  BY <1>5
<1> QED
  BY <1>1, <1>6, <1>7 DEF W

\* The windows after each other hold every segment from where they begin, and segments
\* of later windows come later.
LEMMA WindowsTile ==
    ASSUME NEW n \in Nat, NEW starts \in [1..n -> Nat], NEW first \in 1..n,
           \A l, m \in 1..n : l < m => starts[l] <= starts[m],
           NEW window \in Nat, window > 0
    PROVE  LET pages == 1 + (starts[n] - starts[first]) \div window
               W(page) == Window(starts, starts[first] + (page - 1) * window, window)
           IN  /\ pages \in Nat /\ pages >= 1
               /\ \A page \in 1..pages : starts[first] + (page - 1) * window \in Nat
               /\ UNION {W(page) : page \in 1..pages} = {m \in 1..n : starts[m] >= starts[first]}
               /\ first \in W(1)
               /\ \A one, two \in 1..pages : one < two => \A l \in W(one), m \in W(two) : l < m
<1> DEFINE a == starts[first]
           pages == 1 + (starts[n] - a) \div window
           from(page) == a + (page - 1) * window
           W(page) == Window(starts, from(page), window)
<1>1. a \in Nat /\ first \in 1..n /\ \A m \in 1..n : starts[m] \in Nat
  OBVIOUS
<1>2. n \in 1..n /\ starts[n] \in Nat /\ \A m \in 1..n : starts[m] <= starts[n]
  <2>1. n \in 1..n
    OBVIOUS
  <2>2. \A m \in 1..n : m < n \/ m = n
    OBVIOUS
  <2>3. \A m \in 1..n : starts[m] <= starts[n]
    BY <1>1, <2>1, <2>2
  <2> QED
    BY <1>1, <2>1, <2>3
<1>3. pages \in Nat /\ pages >= 1
  <2>1. a <= starts[n]
    BY <1>1, <1>2
  <2> HIDE DEF a
  <2> QED
    BY <1>1, <1>2, <2>1, PageIs
<1>4. \A page \in 1..pages : (page - 1) * window \in Nat /\ from(page) \in Nat
  <2> TAKE page \in 1..pages
  <2> HIDE DEF pages, a
  <2>1. page - 1 \in Nat
    BY <1>3
  <2>2. (page - 1) * window \in Nat
    BY <2>1, TimesGrows
  <2> QED
    BY <1>1, <2>2
<1>5. \A page, m : m \in W(page) <=> m \in 1..n /\ from(page) <= starts[m] /\ starts[m] < from(page) + window
  BY DEF Window
<1>6. \A m \in 1..n : starts[m] >= a => \E page \in 1..pages : m \in W(page)
  <2> TAKE m \in 1..n
  <2> HAVE starts[m] >= a
  <2> DEFINE page == 1 + (starts[m] - a) \div window
  <2>1. a <= starts[m] /\ starts[m] <= starts[n] /\ starts[m] \in Nat
    BY <1>1, <1>2
  <2>2. page \in 1..pages /\ from(page) <= starts[m] /\ starts[m] < from(page) + window
    <3> DEFINE s == starts[m]
               t == starts[n]
    <3>1. a \in Nat /\ s \in Nat /\ t \in Nat /\ a <= s /\ s <= t
      BY <1>1, <1>2, <2>1
    <3> HIDE DEF a, s, t
    <3>2. 1 + (s - a) \div window \in 1..1 + (t - a) \div window
      BY <3>1, PageIs
    <3>3. /\ a + ((1 + (s - a) \div window) - 1) * window <= s
          /\ s < a + ((1 + (s - a) \div window) - 1) * window + window
      BY <3>1, PageIs
    <3>4. page \in 1..pages
      BY ONLY <3>2 DEF s, t, page, pages
    <3>5. from(page) <= starts[m]
      BY ONLY <3>3 DEF s, page, from
    <3>6. starts[m] < from(page) + window
      BY ONLY <3>3 DEF s, page, from
    <3> QED
      BY <3>4, <3>5, <3>6
  <2> HIDE DEF page, pages, from, W
  <2>3. m \in W(page)
    BY <1>5, <2>2
  <2> QED
    BY <2>2, <2>3
<1>7. first \in W(1)
  <2> HIDE DEF pages, W
  <2>1. from(1) = a
    <3> HIDE DEF a
    <3>1. (1 - 1) * window = 0
      OBVIOUS
    <3> QED
      BY <1>1, <3>1
  <2>2. a <= starts[first] /\ starts[first] < a + window
    BY <1>1
  <2> HIDE DEF from
  <2> QED
    BY <1>1, <1>5, <2>1, <2>2
<1>8. ASSUME NEW one \in 1..pages, NEW two \in 1..pages, one < two, NEW l \in W(one), NEW m \in W(two)
      PROVE  l < m
  <2>1. one \in Nat /\ two \in Nat /\ one >= 1
    BY <1>3
  <2>2. (one - 1) * window + window <= (two - 1) * window
    BY <1>8, <2>1, LaterPage
  <2>3. (two - 1) * window \in Nat /\ (one - 1) * window \in Nat
    BY <1>4
  <2>4. l \in 1..n /\ m \in 1..n /\ starts[l] < from(one) + window /\ from(two) <= starts[m]
    BY <1>5, <1>8
  <2>5. from(one) + window <= from(two) /\ from(one) \in Nat /\ from(two) \in Nat
    <3> DEFINE x == (one - 1) * window
               y == (two - 1) * window
    <3>1. x \in Nat /\ y \in Nat /\ x + window <= y
      BY <2>2, <2>3
    <3> HIDE DEF x, y, a
    <3>2. a + x + window <= a + y /\ a + x \in Nat /\ a + y \in Nat
      BY <1>1, <3>1
    <3> QED
      BY <3>2 DEF x, y
  <2> HIDE DEF from, W, pages, a
  <2>6. starts[l] < starts[m]
    BY <1>1, <2>4, <2>5
  <2>7. ~(m < l) /\ m # l
    BY <1>1, <2>4, <2>6
  <2> QED
    BY <2>4, <2>7
<1>9. \A page \in 1..pages, m \in 1..n : m \in W(page) => starts[m] >= a
  <2> TAKE page \in 1..pages, m \in 1..n
  <2> HAVE m \in W(page)
  <2> DEFINE x == (page - 1) * window
  <2>1. a + x <= starts[m] /\ x \in Nat
    BY <1>4, <1>5
  <2> HIDE DEF x, a, W
  <2> QED
    BY <1>1, <2>1
<1> HIDE DEF W, pages, a
<1>10. UNION {W(page) : page \in 1..pages} = {m \in 1..n : starts[m] >= a}
  BY <1>5, <1>6, <1>9
<1> QED
  BY <1>3, <1>4, <1>7, <1>8, <1>10 DEF W, pages, a

\* Who reads on from the chunk a search points to reads its first segment on the first
\* page and from there on every segment once and in order (get_transcript_excerpt).
THEOREM ReadingOnTiles == Spec => []ExcerptsTile
<1>1. Init => ExcerptsTile
  BY DEF Init, ExcerptsTile
<1>2. ExcerptsTile /\ [Next]_vars => ExcerptsTile'
  <2>1. ReadOn => ExcerptsTile'
    <3> SUFFICES ASSUME NEW n \in 1..MaxSegments, NEW starts \in [1..n -> 0..MaxTime],
                        \A l, m \in 1..n : l < m => starts[l] <= starts[m],
                        NEW first \in 1..n, NEW window \in 1..MaxTime,
                        given' = [starts |-> starts, first |-> first],
                        result' = [page \in 1..1 + (starts[n] - starts[first]) \div window |->
                                     Excerpt(starts, starts[first] + (page - 1) * window, window)]
                 PROVE  ExcerptsTile'
      BY DEF ReadOn, Returns
    <3> DEFINE pages == 1 + (starts[n] - starts[first]) \div window
               from(page) == starts[first] + (page - 1) * window
               W(page) == Window(starts, from(page), window)
               X(page) == Excerpt(starts, from(page), window)
    <3>1. n \in Nat /\ window \in Nat /\ window > 0 /\ starts \in [1..n -> Nat]
      <4>1. MaxSegments \in Nat /\ MaxTime \in Nat
        BY AlgorithmsAssumption
      <4>2. n \in Nat /\ window \in Nat /\ window > 0
        BY <4>1
      <4>3. 0..MaxTime \subseteq Nat
        BY <4>1
      <4> QED
        BY <4>2, <4>3
    <3>2. /\ pages \in Nat /\ pages >= 1
          /\ \A page \in 1..pages : from(page) \in Nat
          /\ UNION {W(page) : page \in 1..pages} = {m \in 1..n : starts[m] >= starts[first]}
          /\ first \in W(1)
          /\ \A one, two \in 1..pages : one < two => \A l \in W(one), m \in W(two) : l < m
      BY <3>1, WindowsTile
    <3>3. \A page \in 1..pages : /\ Range(X(page)) = W(page)
                                 /\ \A i, j \in DOMAIN X(page) : i < j => X(page)[i] < X(page)[j]
      <4> HIDE DEF pages, from
      <4> QED
        BY <3>1, <3>2, ExcerptIs
    <3>4. result' = [page \in 1..pages |-> X(page)]
      OBVIOUS
    <3>5. given'.starts = starts /\ given'.first = first /\ DOMAIN starts = 1..n
      OBVIOUS
    <3> HIDE DEF pages, from, W, X
    <3>6. 1 \in 1..pages /\ DOMAIN result' = 1..pages /\ \A page \in 1..pages : result'[page] = X(page)
      <4>1. 1 \in 1..pages
        BY <3>2
      <4>2. DOMAIN result' = 1..pages
        BY <3>4
      <4>3. \A page \in 1..pages : result'[page] = X(page)
        BY <3>4
      <4> QED
        BY <4>1, <4>2, <4>3
    <3>7. \A page \in 1..pages : Range(result'[page]) = W(page)
      <4> TAKE page \in 1..pages
      <4>1. result'[page] = X(page) /\ Range(X(page)) = W(page)
        BY <3>3, <3>6
      <4> QED
        BY <4>1
    <3>8. UNION {Range(result'[page]) : page \in DOMAIN result'} = {m \in 1..n : starts[m] >= starts[first]}
      <4>1. {Range(result'[page]) : page \in 1..pages} = {W(page) : page \in 1..pages}
        BY <3>7
      <4>2. UNION {Range(result'[page]) : page \in 1..pages} = UNION {W(page) : page \in 1..pages}
        BY <4>1
      <4> QED
        BY <3>2, <3>6, <4>2
    <3>9. first \in Range(result'[1])
      BY <3>2, <3>6, <3>7
    <3>10. \A page \in DOMAIN result' : \A i, j \in DOMAIN result'[page] :
             i < j => result'[page][i] < result'[page][j]
      <4> TAKE page \in DOMAIN result'
      <4>0. page \in 1..pages
        BY <3>6
      <4>1. result'[page] = X(page)
        BY <3>6, <4>0
      <4>2. \A i, j \in DOMAIN X(page) : i < j => X(page)[i] < X(page)[j]
        BY <3>3, <4>0
      <4> QED
        BY <4>1, <4>2
    <3>11. \A one, two \in DOMAIN result' :
             one < two => \A l \in Range(result'[one]), m \in Range(result'[two]) : l < m
      <4> TAKE one, two \in DOMAIN result'
      <4> HAVE one < two
      <4>0. one \in 1..pages /\ two \in 1..pages
        BY <3>6
      <4>1. Range(result'[one]) = W(one) /\ Range(result'[two]) = W(two)
        BY <3>7, <4>0
      <4>2. \A l \in W(one), m \in W(two) : l < m
        BY <3>2, <4>0
      <4> QED
        BY <4>1, <4>2
    <3> QED
      BY <3>5, <3>8, <3>9, <3>10, <3>11 DEF ExcerptsTile
  <2>2. UNCHANGED vars => (ExcerptsTile => ExcerptsTile')
    BY DEF vars, ExcerptsTile
  <2>3. Next /\ ~ReadOn => call' # "excerpt"
    BY Names, Steps
  <2> QED
    BY <2>1, <2>2, <2>3 DEF ExcerptsTile
<1> QED
  BY <1>1, <1>2, PTL DEF Spec

-----------------------------------------------------------------------------
ChunkRanges == [first : Nat, last : Nat]

\* The parts of ChunksCover, of what chunk_transcript was given and its chunks so far.
Starts(chunks) == chunks # <<>> => chunks[1].first = 1

Ended(g, chunks) == Len(g.tokens) = 0 \/ (chunks # <<>> /\ chunks[Len(chunks)].last = Len(g.tokens))

Piece(g, this) ==
    /\ 1 <= this.first /\ this.first <= this.last /\ this.last <= Len(g.tokens)
    /\ TokensOf(g.tokens, this.first..this.last) >= g.target \/ this.last = Len(g.tokens)

Joint(g, this, next) ==
    /\ this.last < Len(g.tokens)
    /\ this.first < next /\ next <= this.last + 1
    /\ TokensOf(g.tokens, next..this.last) >= g.overlap \/ next = this.first + 1
    /\ next <= this.last => ~(TokensOf(g.tokens, next + 1..this.last) >= g.overlap)

Pieces(g, chunks) == \A c \in DOMAIN chunks : Piece(g, chunks[c])

Joints(g, chunks) == \A c \in 1..Len(chunks) - 1 : Joint(g, chunks[c], chunks[c + 1].first)

\* ChunksCover is the conjunction of these parts.
LEMMA ChunksCoverParts ==
    ChunksCover <=> (call \in {"chunking", "chunk"} =>
                        /\ Starts(result)
                        /\ call = "chunk" <=> Ended(given, result)
                        /\ Pieces(given, result) /\ Joints(given, result))
BY DEF ChunksCover, Starts, Ended, Pieces, Joints, Piece, Joint

\* What the loop of chunk_transcript works on has its types.
ChunkTypes ==
    call \in {"chunking", "chunk"} => given.tokens \in Seq(Nat) /\ result \in Seq(ChunkRanges)

\* A chunk ends at the last segment or where it has target tokens.
LEMMA ChunkEndIs ==
    ASSUME NEW g, g.tokens \in Seq(Nat), NEW first \in Nat, 1 <= first, first <= Len(g.tokens)
    PROVE  LET last == ChunkEnd(g.tokens, first, g.target)
           IN  last \in Nat /\ Piece(g, [first |-> first, last |-> last])
<1> DEFINE n == Len(g.tokens)
           S == {k \in first..n : k = n \/ TokensOf(g.tokens, first..k) >= g.target}
<1>1. n \in Nat /\ first <= n
  BY ListPlaces
<1>2. Min(S) = ChunkEnd(g.tokens, first, g.target)
  BY DEF ChunkEnd
<1>3. S \in SUBSET Nat /\ n \in S
  BY <1>1
<1>4. \A k \in S : k \in first..n /\ (k = n \/ TokensOf(g.tokens, first..k) >= g.target)
  OBVIOUS
<1> HIDE DEF n, S
<1>5. Min(S) \in S
  BY <1>3, MinIs
<1> DEFINE last == Min(S)
<1>6. last \in first..n /\ (last = n \/ TokensOf(g.tokens, first..last) >= g.target)
  BY <1>4, <1>5
<1> HIDE DEF last
<1>7. last \in Nat /\ first <= last /\ last <= n
  BY <1>1, <1>6
<1>8. Piece(g, [first |-> first, last |-> last])
  BY <1>6, <1>7 DEF Piece, n
<1> QED
  BY <1>2, <1>7, <1>8 DEF last

\* The next chunk repeats overlap tokens of one that is not the last, or all but its
\* first segment, and no segment more than that takes.
LEMMA NextStartIs ==
    ASSUME NEW g, g.tokens \in Seq(Nat), NEW this \in ChunkRanges, Piece(g, this),
           this.last < Len(g.tokens)
    PROVE  LET next == NextStart(g.tokens, this.first, this.last, g.overlap)
           IN  next \in Nat /\ 1 <= next /\ next <= Len(g.tokens) /\ Joint(g, this, next)
<1> DEFINE n == Len(g.tokens)
           f == this.first
           l == this.last
           repeats(k) == TokensOf(g.tokens, k..l) >= g.overlap
           S == {k \in f + 1..l + 1 : k = f + 1 \/ repeats(k)}
           next == NextStart(g.tokens, f, l, g.overlap)
<1>1. n \in Nat /\ f \in Nat /\ l \in Nat /\ 1 <= f /\ f <= l /\ l < n
  BY ListPlaces DEF ChunkRanges, Piece
<1>2. next = Max(S)
  BY DEF NextStart
<1> HIDE DEF repeats, next, n, f, l
<1>3. l + 1 \in Nat /\ S \in SUBSET (0..l + 1) /\ f + 1 \in S
  BY <1>1
<1>4. /\ \A k \in S : k \in f + 1..l + 1 /\ (k = f + 1 \/ repeats(k))
      /\ \A k \in f + 1..l + 1 : repeats(k) => k \in S
  OBVIOUS
<1> HIDE DEF S
<1>5. next \in S /\ \A k \in S : k <= next
  BY <1>2, <1>3, MaxIs
<1>6. next \in Nat /\ f + 1 <= next /\ next <= l + 1 /\ (next = f + 1 \/ repeats(next))
  BY <1>1, <1>4, <1>5
<1>7. next <= l => ~repeats(next + 1)
  <2> SUFFICES ASSUME next <= l, repeats(next + 1) PROVE FALSE
    OBVIOUS
  <2>1. next + 1 \in f + 1..l + 1
    BY <1>1, <1>6
  <2>2. next + 1 <= next
    BY <1>4, <1>5, <2>1
  <2> QED
    BY <1>6, <2>2
<1>8. l < n /\ f < next /\ next <= l + 1 /\ (repeats(next) \/ next = f + 1)
  BY <1>1, <1>6
<1>9. Joint(g, this, next)
  BY <1>7, <1>8 DEF Joint, n, f, l, repeats
<1>10. 1 <= next /\ next <= n
  BY <1>1, <1>6
<1> QED
  BY <1>6, <1>9, <1>10 DEF next, n, f, l

\* A list to which a chunk is appended that is a piece and joins the one before.
LEMMA ChunkAppended ==
    ASSUME NEW g, NEW chunks \in Seq(ChunkRanges), NEW next \in ChunkRanges,
           Pieces(g, chunks), Joints(g, chunks), Piece(g, next),
           chunks # <<>> => Joint(g, chunks[Len(chunks)], next.first)
    PROVE  /\ Append(chunks, next) \in Seq(ChunkRanges) /\ Append(chunks, next) # <<>>
           /\ Append(chunks, next)[Len(Append(chunks, next))] = next
           /\ chunks # <<>> => Append(chunks, next)[1] = chunks[1]
           /\ chunks = <<>> => Append(chunks, next)[1] = next
           /\ Pieces(g, Append(chunks, next)) /\ Joints(g, Append(chunks, next))
<1> DEFINE m == Len(chunks)
           longer == Append(chunks, next)
<1>1. m \in Nat /\ DOMAIN chunks = 1..m /\ (m = 0 <=> chunks = <<>>)
  BY ListPlaces, EmptySeq
<1>2. /\ longer \in Seq(ChunkRanges) /\ longer # <<>> /\ Len(longer) = m + 1
      /\ \A i \in 1..m : longer[i] = chunks[i]
      /\ longer[m + 1] = next
  BY AppendProperties
<1>3. DOMAIN longer = 1..m + 1
  BY <1>2, ListPlaces
<1> HIDE DEF longer, m
<1>4. Pieces(g, longer)
  <2> SUFFICES ASSUME NEW c \in 1..m + 1 PROVE Piece(g, longer[c])
    BY <1>3 DEF Pieces
  <2>1. c \in 1..m \/ c = m + 1
    BY <1>1
  <2> QED
    BY <1>1, <1>2, <2>1 DEF Pieces
<1>5. Joints(g, longer)
  <2> SUFFICES ASSUME NEW c \in 1..m PROVE Joint(g, longer[c], longer[c + 1].first)
    <3>1. Len(longer) - 1 = m
      BY <1>1, <1>2
    <3> QED
      BY <3>1 DEF Joints
  <2>1. CASE c = m
    <3>1. chunks # <<>> /\ longer[c] = chunks[m] /\ longer[c + 1] = next
      BY <1>1, <1>2, <2>1
    <3> QED
      BY <3>1 DEF m
  <2>2. CASE c # m
    <3>1. c \in 1..m - 1 /\ c + 1 \in 1..m
      BY <1>1, <2>2
    <3>2. longer[c] = chunks[c] /\ longer[c + 1] = chunks[c + 1]
      BY <1>2, <3>1
    <3>3. Joint(g, chunks[c], chunks[c + 1].first)
      BY <3>1 DEF Joints, m
    <3> QED
      BY <3>2, <3>3
  <2> QED
    BY <2>1, <2>2
<1>6. longer[Len(longer)] = next
  BY <1>2
<1>7. (chunks # <<>> => longer[1] = chunks[1]) /\ (chunks = <<>> => longer[1] = next)
  <2>1. CASE m = 0
    BY <1>1, <1>2, <2>1
  <2>2. CASE m # 0
    <3>1. 1 \in 1..m
      BY <1>1, <2>2
    <3> QED
      BY <1>1, <1>2, <2>2, <3>1
  <2> QED
    BY <2>1, <2>2
<1> QED
  BY <1>2, <1>4, <1>5, <1>6, <1>7 DEF longer

\* While chunk_transcript runs its chunks leave no gap and each starts later than the one
\* before; at its end they cover the transcript, and neighbours share what they are to.
THEOREM ChunksCoverTranscript == Spec => []ChunksCover
<1> DEFINE IInv == ChunkTypes /\ ChunksCover
<1>1. Init => IInv
  BY DEF Init, ChunkTypes, ChunksCover
<1>2. IInv /\ [Next]_vars => IInv'
  <2> SUFFICES ASSUME IInv, [Next]_vars PROVE IInv'
    OBVIOUS
  <2>1. CASE ChunkTranscript
    <3> SUFFICES ASSUME NEW n \in 0..MaxSegments, NEW tokens \in [1..n -> 1..MaxTokens],
                        NEW target, NEW overlap,
                        call' = IF n = 0 THEN "chunk" ELSE "chunking",
                        given' = [tokens |-> tokens, target |-> target, overlap |-> overlap],
                        result' = <<>>
                 PROVE  IInv'
      BY <2>1 DEF ChunkTranscript, Returns
    <3>1. tokens \in Seq(Nat) /\ Len(tokens) = n /\ given'.tokens = tokens
      <4>1. n \in Nat /\ tokens \in [1..n -> Nat]
        BY AlgorithmsAssumption
      <4> QED
        BY <4>1, ListIs
    <3>2. ChunkTypes'
      BY <3>1, EmptySeq DEF ChunkTypes
    <3>3. DOMAIN <<>> = {} /\ 1..Len(<<>>) - 1 = {}
      OBVIOUS
    <3>4. Starts(result)' /\ Pieces(given, result)' /\ Joints(given, result)'
      BY <3>3 DEF Starts, Pieces, Joints
    <3>5. (call = "chunk")' <=> Ended(given, result)'
      BY <3>1 DEF Ended
    <3>6. ChunksCover'
      BY <3>4, <3>5, ChunksCoverParts, PTL
    <3> QED
      BY <3>2, <3>6
  <2>2. CASE NextChunk
    <3> DEFINE n == Len(given.tokens)
               prior == result[Len(result)]
               first == IF result = <<>> THEN 1
                        ELSE NextStart(given.tokens, prior.first, prior.last, given.overlap)
               last == ChunkEnd(given.tokens, first, given.target)
               next == [first |-> first, last |-> last]
    <3>1. /\ call = "chunking" /\ result' = Append(result, next) /\ given' = given
          /\ call' = IF last = n THEN "chunk" ELSE "chunking"
      BY <2>2 DEF NextChunk
    <3>2. /\ given.tokens \in Seq(Nat) /\ result \in Seq(ChunkRanges)
          /\ Starts(result) /\ ~Ended(given, result) /\ Pieces(given, result) /\ Joints(given, result)
      BY <3>1, ChunksCoverParts DEF ChunkTypes
    <3>3. n \in Nat /\ n # 0
      BY <3>2, ListPlaces DEF Ended
    <3>4. result # <<>> => /\ prior \in ChunkRanges /\ Piece(given, prior) /\ prior.last < n
      <4> SUFFICES ASSUME result # <<>> PROVE prior \in ChunkRanges /\ Piece(given, prior) /\ prior.last < n
        OBVIOUS
      <4>1. Len(result) \in 1..Len(result) /\ DOMAIN result = 1..Len(result)
        BY <3>2, ListPlaces, EmptySeq
      <4>2. prior \in ChunkRanges
        BY <3>2, <4>1, ElementOfSeq
      <4>3. Piece(given, prior)
        BY <3>2, <4>1 DEF Pieces
      <4>4. prior.last # n
        BY <3>2 DEF Ended
      <4> HIDE DEF prior
      <4>5. prior.last \in Nat /\ prior.last <= n
        BY <4>2, <4>3 DEF Piece, ChunkRanges
      <4> QED
        BY <3>3, <4>2, <4>3, <4>4, <4>5
    <3> HIDE DEF prior
    <3>5. /\ first \in Nat /\ 1 <= first /\ first <= n
          /\ result # <<>> => Joint(given, prior, first)
      BY <3>2, <3>3, <3>4, NextStartIs
    <3>6. (result = <<>> => first = 1)
      OBVIOUS
    <3> HIDE DEF first
    <3>7. last \in Nat /\ Piece(given, next)
      BY <3>2, <3>5, ChunkEndIs
    <3> HIDE DEF last
    <3>8. next \in ChunkRanges /\ next.first = first /\ next.last = last
      BY <3>5, <3>7 DEF ChunkRanges
    <3> HIDE DEF next
    <3>9. /\ Append(result, next) \in Seq(ChunkRanges) /\ Append(result, next) # <<>>
          /\ Append(result, next)[Len(Append(result, next))] = next
          /\ result # <<>> => Append(result, next)[1] = result[1]
          /\ result = <<>> => Append(result, next)[1] = next
          /\ Pieces(given, Append(result, next)) /\ Joints(given, Append(result, next))
      <4>1. result # <<>> => Joint(given, result[Len(result)], next.first)
        BY <3>5, <3>8 DEF prior
      <4> QED
        BY <3>2, <3>7, <3>8, <4>1, ChunkAppended
    <3>10. ChunkTypes'
      BY <3>1, <3>2, <3>9 DEF ChunkTypes
    <3>11. Pieces(given, result)' /\ Joints(given, result)'
      BY <3>1, <3>9
    <3>12. Starts(result)'
      <4>1. Append(result, next)[1].first = 1
        BY <3>2, <3>6, <3>8, <3>9 DEF Starts
      <4> QED
        BY <3>1, <4>1 DEF Starts
    <3>13. (call = "chunk")' <=> Ended(given, result)'
      <4>1. Ended(given, Append(result, next)) <=> last = n
        BY <3>3, <3>8, <3>9 DEF Ended
      <4>2. (call' = "chunk") <=> last = n
        BY <3>1
      <4> QED
        BY <3>1, <4>1, <4>2
    <3>14. ChunksCover'
      BY <3>11, <3>12, <3>13, ChunksCoverParts, PTL
    <3> QED
      BY <3>10, <3>14
  <2>3. CASE UNCHANGED vars
    BY <2>3 DEF vars, ChunkTypes, ChunksCover
  <2>4. CASE Next /\ ~ChunkTranscript /\ ~NextChunk
    <3>1. call' \notin {"chunk", "chunking"}
      BY <2>4, Names, Steps
    <3> QED
      BY <3>1 DEF ChunkTypes, ChunksCover
  <2> QED
    BY <2>1, <2>2, <2>3, <2>4
<1>3. IInv => ChunksCover
  OBVIOUS
<1> QED
  BY <1>1, <1>2, <1>3, PTL DEF Spec
=============================================================================
