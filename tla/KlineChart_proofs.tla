------------------------- MODULE KlineChart_proofs -------------------------
(***************************************************************************)
(* The chart of the bot page shows the data it is given: proofs about      *)
(* KlineChart.                                                             *)
(*                                                                         *)
(* First the algorithm: the bisection of snapToNearestCandle finds the     *)
(* first candle that is not before a trade, and the candle it settles on   *)
(* is a nearest one.  A recursive function is a CHOOSE, so that some       *)
(* function satisfies the recursion has to be proved first; that it then   *)
(* finds what it should is shown on a smallest window in which it would    *)
(* not.  Then the state: its types (Typed), and what the chart shows       *)
(* whenever no effect is due (Shows), which every step but Draw leaves     *)
(* alone or makes due.                                                     *)
(***************************************************************************)
EXTENDS KlineChart, FiniteSetTheorems, WellFoundedInduction, TLAPS

-----------------------------------------------------------------------------
(* Numbers. *)

\* A set of numbers that has a member has a least one, which is its Min.
LEMMA MinIsLeast ==
    ASSUME NEW S \in SUBSET Nat, S # {}
    PROVE  Min(S) \in S /\ \A x \in S : Min(S) <= x
<1> DEFINE R == {p \in Nat \X Nat : p[1] < p[2]}
<1>1. IsWellFoundedOn(R, Nat)
  BY NatLessThanWellFounded, Zenon DEF OpToRel
<1> HIDE DEF R
<1>2. PICK m \in S : \A x \in S : ~ (<<x, m>> \in R)
  BY <1>1, WFMin
<1>3. \A x \in S : m <= x
  <2> TAKE x \in S
  <2>1. <<x, m>> \notin R
    BY <1>2
  <2> QED
    BY <2>1 DEF R
<1>4. \E l \in S : \A x \in S : l <= x
  BY <1>3
<1> QED
  BY <1>4 DEF Min

\* A bounded one has a greatest, which is its Max.
LEMMA MaxIsGreatest ==
    ASSUME NEW n \in Nat, NEW S \in SUBSET (0..n), S # {}
    PROVE  Max(S) \in S /\ \A x \in S : x <= Max(S)
<1> DEFINE below == {n - x : x \in S}
<1>1. below \in SUBSET Nat /\ below # {}
  <2>1. \A x \in S : n - x \in Nat /\ n - x \in below
    OBVIOUS
  <2> QED
    BY <2>1
<1>2. PICK x \in S : Min(below) = n - x
  BY <1>1, MinIsLeast
<1>3. \A y \in S : y <= x
  <2> TAKE y \in S
  <2>1. \A z \in below : Min(below) <= z
    BY <1>1, MinIsLeast
  <2>2. n - x <= n - y
    BY <1>2, <2>1
  <2> QED
    BY <2>2
<1>4. \A y \in S : x >= y
  BY <1>3
<1>5. Max(S) \in S /\ \A y \in S : Max(S) >= y
  BY <1>4 DEF Max
<1> QED
  BY <1>5

\* Some sets of candle starts in order: the rank of a start tells its place.
LEMMA IndexedIsSorted ==
    ASSUME NEW S \in SUBSET Nat, IsFiniteSet(S)
    PROVE  /\ Indexed(S) \in [1..Cardinality(S) -> S]
           /\ \A i, j \in 1..Cardinality(S) : i < j => Indexed(S)[i] < Indexed(S)[j]
           /\ \A t \in S : \E i \in 1..Cardinality(S) : Indexed(S)[i] = t
<1> DEFINE n == Cardinality(S)
           upto(t) == {u \in S : u <= t}
           rank == [t \in S |-> Cardinality(upto(t))]
<1>1. n \in Nat
  BY FS_CardinalityType
<1>2. \A t \in S : rank[t] \in 1..n
  <2> TAKE t \in S
  <2>1. upto(t) \in SUBSET S /\ t \in upto(t)
    OBVIOUS
  <2>2. IsFiniteSet(upto(t)) /\ Cardinality(upto(t)) <= n
    BY <2>1, FS_Subset
  <2>3. Cardinality(upto(t)) # 0
    BY <2>1, <2>2, FS_EmptySet
  <2>4. Cardinality(upto(t)) \in Nat
    BY <2>2, FS_CardinalityType
  <2> QED
    BY <1>1, <2>2, <2>3, <2>4
<1>3. \A t, u \in S : t < u => rank[t] < rank[u]
  <2> SUFFICES ASSUME NEW t \in S, NEW u \in S, t < u
               PROVE  rank[t] < rank[u]
    OBVIOUS
  <2>1. \A v \in S : v <= t => v <= u
    OBVIOUS
  <2>2. upto(t) \in SUBSET upto(u) /\ upto(u) \in SUBSET S
    BY <2>1
  <2>3. u \in upto(u) /\ u \notin upto(t)
    OBVIOUS
  <2>4. IsFiniteSet(upto(u))
    BY <2>2, FS_Subset
  <2>5. Cardinality(upto(t)) <= Cardinality(upto(u)) /\ Cardinality(upto(t)) # Cardinality(upto(u))
    BY <2>2, <2>3, <2>4, FS_Subset
  <2>6. rank[t] <= rank[u] /\ rank[t] # rank[u]
    BY <2>5
  <2> QED
    BY <1>2, <2>6
<1> HIDE DEF rank
<1>4. rank \in [S -> 1..n]
  BY <1>2 DEF rank
<1>5. \A t, u \in S : rank[t] = rank[u] => t = u
  <2> SUFFICES ASSUME NEW t \in S, NEW u \in S, t # u
               PROVE  rank[t] # rank[u]
    OBVIOUS
  <2>1. rank[t] \in Nat /\ rank[u] \in Nat
    BY <1>1, <1>2
  <2>2. t < u \/ u < t
    OBVIOUS
  <2> QED
    BY <1>3, <2>1, <2>2
<1>6. rank \in Injection(S, 1..n)
  BY <1>4, <1>5 DEF Injection, IsInjective
<1>7. IsFiniteSet(1..n) /\ Cardinality(1..n) = n
  BY <1>1, FS_Interval
<1>8. rank \in Surjection(S, 1..n)
  BY <1>6, <1>7, FS_Injection
<1>9. \A i \in 1..n : \E t \in S : rank[t] = i
  BY <1>8 DEF Surjection
<1> DEFINE f == [i \in 1..n |-> CHOOSE t \in S : rank[t] = i]
<1>10. \A i \in 1..n : f[i] \in S /\ rank[f[i]] = i
  BY <1>9
<1>11. f \in [1..n -> S]
  BY <1>10
<1> HIDE DEF f
<1>12. \A i, j \in 1..n : i < j => f[i] < f[j]
  <2> SUFFICES ASSUME NEW i \in 1..n, NEW j \in 1..n, i < j, ~ (f[i] < f[j])
               PROVE  FALSE
    OBVIOUS
  <2>1. f[i] \in S /\ f[j] \in S /\ f[i] \in Nat /\ f[j] \in Nat
    BY <1>10
  <2>2. CASE f[i] = f[j]
    BY <1>10, <2>2
  <2>3. CASE f[j] < f[i]
    <3>1. rank[f[j]] < rank[f[i]]
      BY <1>3, <2>1, <2>3
    <3> QED
      BY <1>10, <3>1
  <2> QED
    BY <2>1, <2>2, <2>3
<1> DEFINE g == Indexed(S)
<1>13. g \in [1..n -> S] /\ \A i, j \in 1..n : i < j => g[i] < g[j]
  BY <1>11, <1>12 DEF Indexed
<1> HIDE DEF g
<1>14. \A i, j \in 1..n : g[i] = g[j] => i = j
  <2> SUFFICES ASSUME NEW i \in 1..n, NEW j \in 1..n, g[i] = g[j], i # j
               PROVE  FALSE
    OBVIOUS
  <2>1. g[i] \in Nat /\ g[j] \in Nat
    BY <1>13
  <2>2. i < j \/ j < i
    BY <1>1
  <2>3. g[i] < g[j] \/ g[j] < g[i]
    BY <1>13, <2>2
  <2> QED
    BY <2>1, <2>3
<1>15. g \in Injection(1..n, S)
  BY <1>13, <1>14 DEF Injection, IsInjective
<1>16. g \in Surjection(1..n, S)
  BY <1>7, <1>15, FS_Injection
<1>17. \A t \in S : \E i \in 1..n : g[i] = t
  BY <1>16 DEF Surjection
<1> QED
  BY <1>13, <1>17 DEF g

-----------------------------------------------------------------------------
(* The bisection. *)

\* What find[w] of Bisect is, of itself.
Halve(find, at, target, w) ==
    LET mid == (w[1] + w[2]) \div 2
    IN IF w[1] >= w[2] THEN w[1]
       ELSE IF at[mid] < target THEN find[<<mid + 1, w[2]>>] ELSE find[<<w[1], mid>>]

\* The place i is the first of lo..hi that is not before the target, or hi.
IsFirst(i, at, target, lo, hi) ==
    /\ i \in lo..hi
    /\ \A k \in lo..(i - 1) : at[k] < target
    /\ i = hi \/ target <= at[i]

\* There is one such place in every window, and no other.
LEMMA FirstExists ==
    ASSUME NEW n \in Nat \ {0}, NEW at \in [1..n -> Nat], NEW target \in Nat,
           NEW lo \in 1..n, NEW hi \in lo..n
    PROVE  \E i \in lo..hi : IsFirst(i, at, target, lo, hi)
<1> DEFINE late == {i \in lo..hi : i = hi \/ target <= at[i]}
<1>1. late \in SUBSET Nat /\ hi \in late
  OBVIOUS
<1> HIDE DEF late
<1>2. Min(late) \in late /\ \A x \in late : Min(late) <= x
  BY <1>1, MinIsLeast
<1>3. PICK i \in late : \A x \in late : i <= x
  BY <1>2
<1>4. \A k \in lo..(i - 1) : at[k] < target
  <2> SUFFICES ASSUME NEW k \in lo..(i - 1), ~ (at[k] < target)
               PROVE  FALSE
    OBVIOUS
  <2>1. i \in lo..hi
    BY DEF late
  <2>2. k \in lo..hi /\ k \in 1..n /\ k < i
    BY <2>1
  <2>3. target <= at[k]
    BY <2>2
  <2>4. k \in late
    BY <2>2, <2>3 DEF late
  <2> QED
    BY <1>3, <2>2, <2>4, <2>1
<1> QED
  BY <1>4 DEF IsFirst, late

LEMMA FirstIsUnique ==
    ASSUME NEW n \in Nat \ {0}, NEW at \in [1..n -> Nat], NEW target \in Nat,
           NEW lo \in 1..n, NEW hi \in lo..n, NEW i, NEW j,
           IsFirst(i, at, target, lo, hi), IsFirst(j, at, target, lo, hi)
    PROVE  i = j
<1>1. i \in lo..hi /\ j \in lo..hi
  BY DEF IsFirst
<1>2. CASE i < j
  <2>1. at[i] < target /\ i # hi
    BY <1>1, <1>2 DEF IsFirst
  <2>2. at[i] \in Nat
    BY <1>1
  <2> QED
    BY <2>1, <2>2 DEF IsFirst
<1>3. CASE j < i
  <2>1. at[j] < target /\ j # hi
    BY <1>1, <1>3 DEF IsFirst
  <2>2. at[j] \in Nat
    BY <1>1
  <2> QED
    BY <2>1, <2>2 DEF IsFirst
<1> QED
  BY <1>1, <1>2, <1>3

\* Halving the window of sorted times keeps the place it is looked for.
LEMMA HalvingKeepsFirst ==
    ASSUME NEW n \in Nat \ {0}, NEW at \in [1..n -> Nat], NEW target \in Nat,
           \A i, k \in 1..n : i < k => at[i] < at[k],
           NEW lo \in 1..n, NEW hi \in 1..n, lo < hi,
           NEW mid, mid = (lo + hi) \div 2
    PROVE  /\ mid \in lo..(hi - 1)
           /\ \A i \in Nat : at[mid] < target /\ IsFirst(i, at, target, mid + 1, hi)
                            => IsFirst(i, at, target, lo, hi)
           /\ \A i \in Nat : ~ (at[mid] < target) /\ IsFirst(i, at, target, lo, mid)
                            => IsFirst(i, at, target, lo, hi)
<1>1. mid \in lo..(hi - 1)
  OBVIOUS
<1>2. ASSUME NEW i \in Nat, at[mid] < target, IsFirst(i, at, target, mid + 1, hi)
      PROVE  IsFirst(i, at, target, lo, hi)
  <2>1. i \in (mid + 1)..hi /\ i \in lo..hi
    BY <1>1, <1>2 DEF IsFirst
  <2>2. ASSUME NEW k \in lo..(i - 1)
        PROVE  at[k] < target
    <3>1. k \in 1..n /\ at[k] \in Nat /\ at[mid] \in Nat
      BY <1>1, <2>1
    <3>2. CASE k <= mid
      <4>1. at[k] <= at[mid]
        BY <1>1, <3>1, <3>2
      <4> QED
        BY <1>2, <3>1, <4>1
    <3>3. CASE ~ (k <= mid)
      <4>1. k \in (mid + 1)..(i - 1)
        BY <1>1, <3>1, <3>3
      <4> QED
        BY <1>2, <4>1 DEF IsFirst
    <3> QED
      BY <3>2, <3>3
  <2> QED
    BY <1>2, <2>1, <2>2 DEF IsFirst
<1>3. ASSUME NEW i \in Nat, ~ (at[mid] < target), IsFirst(i, at, target, lo, mid)
      PROVE  IsFirst(i, at, target, lo, hi)
  <2>1. i \in lo..mid /\ i \in lo..hi
    BY <1>1, <1>3 DEF IsFirst
  <2>2. mid \in 1..n
    BY <1>1
  <2>3. at[mid] \in Nat
    BY <2>2
  <2>4. target <= at[mid]
    BY <1>3, <2>3
  <2>5. i = hi \/ target <= at[i]
    BY <1>3, <2>4 DEF IsFirst
  <2> QED
    BY <1>3, <2>1, <2>5 DEF IsFirst
<1> QED
  BY <1>1, <1>2, <1>3

\* The bisection ends: a function with the recursion of find exists.
LEMMA HalvingIsDefined ==
    ASSUME NEW n \in Nat \ {0}, NEW at \in [1..n -> Nat], NEW target \in Nat,
           \A i, k \in 1..n : i < k => at[i] < at[k]
    PROVE  \E find : find = [w \in (1..n) \X (1..n) |-> Halve(find, at, target, w)]
<1> DEFINE first(lo, hi) == CHOOSE i : IsFirst(i, at, target, lo, hi)
           find == [w \in (1..n) \X (1..n) |->
                      IF w[1] >= w[2] THEN w[1] ELSE first(w[1], w[2])]
<1>1. ASSUME NEW lo \in 1..n, NEW hi \in lo..n
      PROVE  find[<<lo, hi>>] \in Nat /\ IsFirst(find[<<lo, hi>>], at, target, lo, hi)
  <2>1. CASE lo = hi
    <3>1. find[<<lo, hi>>] = lo
      BY <2>1
    <3> QED
      BY <2>1, <3>1 DEF IsFirst
  <2>2. CASE lo < hi
    <3>1. \E i : IsFirst(i, at, target, lo, hi)
      BY FirstExists
    <3>2. IsFirst(first(lo, hi), at, target, lo, hi)
      BY <3>1
    <3>3. find[<<lo, hi>>] = first(lo, hi)
      BY <2>2
    <3> HIDE DEF find, first
    <3>4. first(lo, hi) \in Nat
      BY <3>2 DEF IsFirst
    <3> QED
      BY <3>2, <3>3, <3>4
  <2> QED
    BY <2>1, <2>2
<1>2. \A lo, hi \in 1..n : lo >= hi => find[<<lo, hi>>] = lo
  OBVIOUS
<1>3. find = [w \in (1..n) \X (1..n) |-> find[w]]
  OBVIOUS
<1> HIDE DEF find
<1>4. ASSUME NEW lo \in 1..n, NEW hi \in 1..n
      PROVE  find[<<lo, hi>>] = Halve(find, at, target, <<lo, hi>>)
  <2>1. CASE lo >= hi
    BY <1>2, <2>1 DEF Halve
  <2>2. CASE lo < hi
    <3> DEFINE mid == (lo + hi) \div 2
               more == mid + 1
               half == IF at[mid] < target THEN find[<<mid + 1, hi>>] ELSE find[<<lo, mid>>]
    <3>1. mid \in lo..(hi - 1)
      BY <2>2
    <3>2. Halve(find, at, target, <<lo, hi>>) = half
      BY <2>2 DEF Halve
    <3>3. more \in 1..n /\ hi \in more..n /\ mid \in lo..n
      BY <3>1
    <3> HIDE DEF mid, more
    <3>4. find[<<more, hi>>] \in Nat /\ IsFirst(find[<<more, hi>>], at, target, more, hi)
      BY <3>3, <1>1
    <3>5. /\ find[<<mid + 1, hi>>] \in Nat
          /\ IsFirst(find[<<mid + 1, hi>>], at, target, mid + 1, hi)
      BY <3>4 DEF more
    <3>6. find[<<lo, mid>>] \in Nat /\ IsFirst(find[<<lo, mid>>], at, target, lo, mid)
      BY <3>3, <1>1
    <3>7. mid = (lo + hi) \div 2
      BY DEF mid
    <3>8. IsFirst(half, at, target, lo, hi)
      BY <2>2, <3>5, <3>6, <3>7, HalvingKeepsFirst
    <3>9. IsFirst(find[<<lo, hi>>], at, target, lo, hi)
      BY <2>2, <1>1
    <3> HIDE DEF half
    <3>10. hi \in lo..n
      BY <2>2
    <3>11. find[<<lo, hi>>] = half
      BY <3>8, <3>9, <3>10, FirstIsUnique
    <3> QED
      BY <3>2, <3>11
  <2> QED
    BY <2>1, <2>2
<1>5. \A w \in (1..n) \X (1..n) : find[w] = Halve(find, at, target, w)
  <2> TAKE w \in (1..n) \X (1..n)
  <2>1. PICK lo \in 1..n, hi \in 1..n : w = <<lo, hi>>
    OBVIOUS
  <2> QED
    BY <1>4, <2>1
<1> QED
  BY <1>3, <1>5

\* It finds the first time that is not before the target: a shortest window in
\* which it would not has a half in which it would not.
LEMMA BisectFindsFirst ==
    ASSUME NEW n \in Nat \ {0}, NEW at \in [1..n -> Nat], NEW target \in Nat,
           \A i, k \in 1..n : i < k => at[i] < at[k]
    PROVE  IsFirst(Bisect(at, n, target), at, target, 1, n)
<1> DEFINE find == CHOOSE f : f = [w \in (1..n) \X (1..n) |-> Halve(f, at, target, w)]
<1>1. find = [w \in (1..n) \X (1..n) |-> Halve(find, at, target, w)]
  BY HalvingIsDefined
<1>2. Bisect(at, n, target) = find[<<1, n>>]
  BY DEF Bisect, Halve
<1> HIDE DEF find
<1>3. \A lo, hi \in 1..n : find[<<lo, hi>>] = Halve(find, at, target, <<lo, hi>>)
  BY <1>1
<1> DEFINE wrong == {w \in (1..n) \X (1..n) :
                       w[1] <= w[2] /\ ~ IsFirst(find[w], at, target, w[1], w[2])}
           sizes == {w[2] - w[1] : w \in wrong}
<1>4. wrong = {}
  <2> SUFFICES ASSUME wrong # {}
               PROVE  FALSE
    OBVIOUS
  <2>1. \A w \in wrong : w[2] - w[1] \in Nat /\ w[2] - w[1] \in sizes
    <3> TAKE w \in wrong
    <3>1. w[1] \in 1..n /\ w[2] \in 1..n /\ w[1] <= w[2]
      OBVIOUS
    <3>2. w[2] - w[1] \in sizes
      OBVIOUS
    <3> HIDE DEF wrong, sizes
    <3>3. w[2] - w[1] \in Nat
      BY <3>1
    <3> QED
      BY <3>2, <3>3
  <2>2. sizes \in SUBSET Nat /\ sizes # {}
    BY <2>1
  <2>3. Min(sizes) \in sizes /\ \A d \in sizes : Min(sizes) <= d
    BY <2>2, MinIsLeast
  <2>4. PICK w \in wrong : Min(sizes) = w[2] - w[1]
    BY <2>3
  <2>5. PICK lo \in 1..n, hi \in 1..n : w = <<lo, hi>>
    OBVIOUS
  <2>6. lo <= hi /\ ~ IsFirst(find[<<lo, hi>>], at, target, lo, hi)
    BY <2>5
  <2>7. ASSUME NEW l \in 1..n, NEW h \in 1..n, l <= h, h - l < hi - lo
        PROVE  IsFirst(find[<<l, h>>], at, target, l, h)
    <3> SUFFICES ASSUME ~ IsFirst(find[<<l, h>>], at, target, l, h)
                 PROVE  FALSE
      OBVIOUS
    <3>1. <<l, h>> \in wrong
      BY <2>7
    <3>2. h - l \in sizes
      BY <2>1, <3>1
    <3>3. hi - lo <= h - l
      BY <2>3, <2>4, <2>5, <3>2
    <3> QED
      BY <2>7, <3>3
  <2> HIDE DEF wrong, sizes
  <2>8. CASE lo = hi
    <3>1. Halve(find, at, target, <<lo, hi>>) = lo
      BY <2>8 DEF Halve
    <3>2. find[<<lo, hi>>] = lo
      BY <1>3, <3>1
    <3> QED
      BY <2>6, <2>8, <3>2 DEF IsFirst
  <2>9. CASE lo < hi
    <3> DEFINE mid == (lo + hi) \div 2
    <3>1. mid \in lo..(hi - 1)
      BY <2>9
    <3>2. find[<<lo, hi>>] = IF at[mid] < target THEN find[<<mid + 1, hi>>] ELSE find[<<lo, mid>>]
      BY <1>3, <2>9 DEF Halve
    <3> DEFINE more == mid + 1
    <3>3. /\ more \in 1..n /\ more <= hi /\ hi - more < hi - lo
          /\ mid \in 1..n /\ lo <= mid /\ mid - lo < hi - lo
      BY <2>9, <3>1
    <3> HIDE DEF more
    <3>4. IsFirst(find[<<more, hi>>], at, target, more, hi)
      BY <3>3, <2>7
    <3>5. IsFirst(find[<<mid + 1, hi>>], at, target, mid + 1, hi)
      BY <3>4 DEF more
    <3>6. IsFirst(find[<<lo, mid>>], at, target, lo, mid)
      BY <3>3, <2>7
    <3> HIDE DEF mid
    <3>7. find[<<mid + 1, hi>>] \in Nat /\ find[<<lo, mid>>] \in Nat
      <4>1. find[<<mid + 1, hi>>] \in (mid + 1)..hi /\ find[<<lo, mid>>] \in lo..mid
        BY <3>5, <3>6 DEF IsFirst
      <4>2. (mid + 1)..hi \subseteq Nat /\ lo..mid \subseteq Nat
        BY <3>1
      <4> QED
        BY <4>1, <4>2, Zenon
    <3>8. mid = (lo + hi) \div 2
      BY DEF mid
    <3>9. IsFirst(find[<<lo, hi>>], at, target, lo, hi)
      BY <2>9, <3>2, <3>5, <3>6, <3>7, <3>8, HalvingKeepsFirst
    <3> QED
      BY <2>6, <3>9
  <2> QED
    BY <2>6, <2>8, <2>9
<1>5. <<1, n>> \in (1..n) \X (1..n)
  OBVIOUS
<1>6. IsFirst(find[<<1, n>>], at, target, 1, n)
  BY <1>4, <1>5
<1> QED
  BY <1>2, <1>6

\* How far two times are from each other.
Distance(t, u) == IF t < u THEN u - t ELSE t - u

\* Of the time at the place found and the one before it, the one Snap takes.
Nearer(at, lo, target) ==
    IF lo > 1 /\ target - at[lo - 1] <= at[lo] - target THEN at[lo - 1] ELSE at[lo]

\* The place found, or the one before it, holds a time no other is nearer than.
LEMMA NeighboursAreNearest ==
    ASSUME NEW n \in Nat \ {0}, NEW at \in [1..n -> Nat], NEW target \in Nat,
           \A i, k \in 1..n : i < k => at[i] < at[k],
           NEW lo, IsFirst(lo, at, target, 1, n)
    PROVE  LET t == Nearer(at, lo, target)
           IN /\ \E i \in 1..n : t = at[i]
              /\ \A k \in 1..n : Distance(t, target) <= Distance(at[k], target)
<1> DEFINE t == Nearer(at, lo, target)
<1>1. t = IF lo > 1 /\ target - at[lo - 1] <= at[lo] - target THEN at[lo - 1] ELSE at[lo]
  BY DEF Nearer
<1> HIDE DEF t
<1>2. lo \in 1..n
  BY DEF IsFirst
<1>3. PICK i \in 1..n : /\ t = at[i]
                        /\ i = lo \/ i = lo - 1
  <2>1. CASE lo > 1 /\ target - at[lo - 1] <= at[lo] - target
    <3>1. lo - 1 \in 1..n
      BY <1>2, <2>1
    <3> QED
      BY <1>1, <2>1, <3>1
  <2>2. CASE ~ (lo > 1 /\ target - at[lo - 1] <= at[lo] - target)
    BY <1>2, <1>1, <2>2
  <2> QED
    BY <2>1, <2>2
<1>4. ASSUME NEW k \in 1..n
      PROVE  Distance(t, target) <= Distance(at[k], target)
  <2>1. at[lo] \in Nat /\ at[k] \in Nat /\ t \in Nat
    BY <1>2, <1>3
  <2>2. CASE k >= lo
    <3>1. at[lo] <= at[k]
      BY <1>2, <2>1, <2>2
    <3>2. CASE target <= at[lo]
      <4>1. CASE t = at[lo]
        BY <2>1, <3>1, <3>2, <4>1 DEF Distance
      <4>2. CASE lo > 1 /\ target - at[lo - 1] <= at[lo] - target
        <5>1. lo - 1 \in 1..n /\ lo - 1 < lo
          BY <1>2, <4>2
        <5>2. at[lo - 1] \in Nat /\ (lo - 1 \in 1..n => at[lo - 1] < at[lo])
          BY <1>2, <5>1
        <5>3. t = at[lo - 1] /\ (target - t) <= at[lo] - target
          BY <1>1, <4>2
        <5>4. t \in Nat /\ t < at[lo]
          BY <5>1, <5>2, <5>3
        <5>5. Distance(t, target) = target - t \/ Distance(t, target) = t - target
          BY DEF Distance
        <5>6. t - target <= at[lo] - target
          BY <2>1, <5>4
        <5>7. Distance(t, target) <= at[lo] - target
          BY <5>3, <5>5, <5>6
        <5>8. Distance(at[k], target) = at[k] - target
          BY <2>1, <3>1, <3>2 DEF Distance
        <5>9. Distance(t, target) \in Nat
          BY <2>1 DEF Distance
        <5> QED
          BY <2>1, <3>1, <5>7, <5>8, <5>9
      <4> QED
        BY <1>1, <4>1, <4>2
    <3>3. CASE ~ (target <= at[lo])
      <4>1. lo = n
        BY <3>3 DEF IsFirst
      <4>2. k = lo
        BY <1>2, <2>2, <4>1
      <4>3. t = at[lo]
        <5> SUFFICES ASSUME lo > 1, target - at[lo - 1] <= at[lo] - target
                     PROVE  FALSE
          BY <1>1
        <5>1. lo - 1 \in 1..n /\ lo - 1 < lo
          BY <1>2
        <5>2. at[lo - 1] \in Nat /\ at[lo - 1] < at[lo]
          BY <1>2, <5>1
        <5> QED
          BY <2>1, <3>3, <5>2
      <4> QED
        BY <4>2, <4>3, <2>1 DEF Distance
    <3> QED
      BY <3>2, <3>3
  <2>3. CASE k < lo
    <3>1. lo > 1 /\ lo - 1 \in 1..n /\ lo - 1 < lo /\ k \in 1..(lo - 1)
      BY <1>2, <2>3
    <3>2. at[lo - 1] \in Nat /\ at[lo - 1] < at[lo]
      BY <1>2, <3>1
    <3>3. at[lo - 1] < target /\ at[k] < target
      BY <3>1 DEF IsFirst
    <3>4. at[k] <= at[lo - 1]
      <4>1. CASE k = lo - 1
        BY <2>1, <4>1
      <4>2. CASE k < lo - 1
        BY <2>1, <3>1, <3>2, <4>2
      <4> QED
        BY <3>1, <4>1, <4>2
    <3>5. CASE target - at[lo - 1] <= at[lo] - target
      <4>1. t = at[lo - 1]
        BY <1>1, <3>1, <3>5
      <4>2. Distance(t, target) = target - t
        BY <2>1, <3>3, <4>1 DEF Distance
      <4>3. Distance(at[k], target) = target - at[k]
        BY <2>1, <3>3 DEF Distance
      <4> QED
        BY <2>1, <3>4, <4>1, <4>2, <4>3
    <3>6. CASE ~ (target - at[lo - 1] <= at[lo] - target)
      <4>1. t = at[lo]
        BY <1>1, <3>6
      <4>2. t - target < target - at[lo - 1] /\ at[lo - 1] < t
        BY <2>1, <3>2, <3>6, <4>1
      <4>3. Distance(t, target) \in {target - t, t - target}
        BY DEF Distance
      <4>4. Distance(at[k], target) = target - at[k]
        BY <2>1, <3>3 DEF Distance
      <4>5. target - t <= target - at[k] /\ t - target <= target - at[k]
        BY <2>1, <3>2, <3>4, <4>2
      <4> QED
        BY <4>3, <4>4, <4>5
    <3> QED
      BY <3>5, <3>6
  <2> QED
    BY <1>2, <2>2, <2>3
<1> QED
  BY <1>3, <1>4 DEF t

\* snapToNearestCandle: a candle when one is near enough, and then a nearest.
LEMMA SnapIsNearest ==
    ASSUME NEW S \in SUBSET (Nat \ {0}), IsFiniteSet(S), S # {}, NEW target \in Nat
    PROVE  LET best == Min({Distance(t, target) : t \in S})
           IN IF best > SnapLimit THEN Snap(target, S) = -1
              ELSE Snap(target, S) \in S /\ Distance(Snap(target, S), target) = best
<1> DEFINE n == Cardinality(S)
           at == Indexed(S)
           lo == Bisect(at, n, target)
           t == Nearer(at, lo, target)
           far == {Distance(u, target) : u \in S}
<1>1. n \in Nat \ {0}
  BY FS_CardinalityType, FS_EmptySet
<1>2. Snap(target, S) = IF Distance(t, target) > SnapLimit THEN -1 ELSE t
  BY DEF Snap, Distance, Nearer
<1> HIDE DEF n, at
<1>3. /\ at \in [1..n -> S]
      /\ \A i, k \in 1..n : i < k => at[i] < at[k]
      /\ \A u \in S : \E i \in 1..n : at[i] = u
  BY IndexedIsSorted DEF n, at
<1>4. at \in [1..n -> Nat]
  BY <1>3
<1>5. IsFirst(lo, at, target, 1, n)
  BY <1>1, <1>3, <1>4, BisectFindsFirst
<1> HIDE DEF lo
<1>6. /\ \E i \in 1..n : t = at[i]
      /\ \A k \in 1..n : Distance(t, target) <= Distance(at[k], target)
  BY <1>1, <1>3, <1>4, <1>5, NeighboursAreNearest
<1> HIDE DEF t
<1>7. t \in S /\ \A u \in S : Distance(t, target) <= Distance(u, target)
  BY <1>3, <1>6
<1>8. \A u \in S : Distance(u, target) \in Nat /\ Distance(u, target) \in far
  BY DEF Distance
<1>9. far \in SUBSET Nat /\ far # {}
  BY <1>8
<1>10. Min(far) = Distance(t, target)
  <2>1. Min(far) \in far /\ \A x \in far : Min(far) <= x
    BY <1>9, MinIsLeast
  <2>2. PICK u \in S : Min(far) = Distance(u, target)
    BY <2>1
  <2>3. Min(far) <= Distance(t, target) /\ Distance(t, target) <= Min(far)
    BY <1>7, <1>8, <2>1, <2>2
  <2> QED
    BY <1>7, <1>8, <2>2, <2>3
<1> QED
  BY <1>2, <1>7, <1>10

-----------------------------------------------------------------------------
(* Type correctness. *)

\* What the hook remembers of times has passed: the earliest candle, the end of
\* the page asked for, the time a query was answered at.
Remembered ==
    /\ earliest <= now /\ loading.before <= now
    /\ \A k \in Intervals : flight[k] <= now

Typed == TypeOK /\ Remembered

\* The times are finitely many, and those before one of them are times.
LEMMA TimesFacts ==
    /\ Times \in SUBSET (Nat \ {0}) /\ IsFiniteSet(Times) /\ Cardinality(Times) = MaxTime
    /\ \A at \in Times : at \in Nat /\ 1 <= at /\ at <= MaxTime
    /\ \A at \in Times : \A t \in 1..at : t \in Times
<1>1. IsFiniteSet(Times) /\ Cardinality(Times) = MaxTime
  BY WidthsAssumption, FS_Interval DEF Times
<1> QED
  BY <1>1, WidthsAssumption DEF Times

\* The times of a series are finitely many, and at most as many as there are.
LEMMA SeriesIsFinite ==
    ASSUME NEW f, NEW S, IsSeries(f, S)
    PROVE  /\ DOMAIN f \in SUBSET Times /\ DOMAIN f \in SUBSET (Nat \ {0})
           /\ IsFiniteSet(DOMAIN f) /\ Cardinality(DOMAIN f) \in 0..MaxTime
<1>1. DOMAIN f \in SUBSET Times
  BY DEF IsSeries
<1>2. IsFiniteSet(DOMAIN f) /\ Cardinality(DOMAIN f) <= MaxTime
  BY <1>1, TimesFacts, FS_Subset
<1>3. Cardinality(DOMAIN f) \in Nat
  BY <1>2, FS_CardinalityType
<1> QED
  BY <1>1, <1>2, <1>3, WidthsAssumption DEF Times

\* The last time of a series that has one.
LEMMA LastOfSeries ==
    ASSUME NEW f, NEW S, IsSeries(f, S), DOMAIN f # {}
    PROVE  /\ Max(DOMAIN f) \in DOMAIN f /\ Max(DOMAIN f) \in Nat
           /\ \A t \in DOMAIN f : t <= Max(DOMAIN f)
<1>1. DOMAIN f \in SUBSET (0..MaxTime)
  BY SeriesIsFinite DEF Times
<1>2. MaxTime \in Nat
  BY WidthsAssumption
<1> DEFINE times == DOMAIN f
<1> HIDE DEF times
<1>3. times \in SUBSET (0..MaxTime) /\ times # {}
  BY <1>1 DEF times
<1>4. Max(times) \in times /\ \A t \in times : t <= Max(times)
  BY <1>2, <1>3, MaxIsGreatest
<1>5. Max(times) \in 0..MaxTime
  BY <1>3, <1>4, Zenon
<1>6. Max(times) \in Nat
  BY <1>5
<1> QED
  BY <1>4, <1>6 DEF times

\* A bar that has begun has between one tick and all that have been.
LEMMA CandleAtType ==
    ASSUME NEW w \in Intervals \cup {FeedInterval}, NEW at \in Times, NEW t \in 1..at
    PROVE  CandleAt(w, t, at) \in Candle
<1>1. w \in Nat \ {0} /\ at - t + 1 \in 1..MaxTime
  BY WidthsAssumption DEF Times
<1>2. {w, at - t + 1} \in SUBSET Nat /\ {w, at - t + 1} # {}
  BY <1>1
<1>3. Min({w, at - t + 1}) \in {w, at - t + 1} /\ Min({w, at - t + 1}) <= at - t + 1
  BY <1>2, MinIsLeast
<1>4. Min({w, at - t + 1}) \in 1..MaxTime
  BY <1>1, <1>3, WidthsAssumption
<1> QED
  BY <1>4 DEF CandleAt, Candle

\* An answer of the exchange is a series of candles that start by the time asked for.
LEMMA FetchType ==
    ASSUME NEW w \in Intervals, NEW at \in Times, NEW upto \in 0..at
    PROVE  /\ IsSeries(Fetch(w, upto, at), Candle)
           /\ DOMAIN Fetch(w, upto, at) \in SUBSET (1..upto)
<1> DEFINE starts == {t \in 1..upto : Bar(w, t) = t}
           newest == {t \in starts : Cardinality({u \in starts : u > t}) < Limit}
<1>1. Fetch(w, upto, at) = [t \in newest |-> CandleAt(w, t, at)]
  BY DEF Fetch
<1>2. newest \in SUBSET (1..upto)
  OBVIOUS
<1> HIDE DEF newest
<1>3. DOMAIN Fetch(w, upto, at) \in SUBSET (1..upto)
  BY <1>1, <1>2
<1>4. ASSUME NEW t \in DOMAIN Fetch(w, upto, at)
      PROVE  t \in Times /\ t \in 1..at /\ Fetch(w, upto, at)[t] = CandleAt(w, t, at)
  <2>1. t \in 1..upto /\ t \in newest
    BY <1>1, <1>3
  <2>2. t \in 1..at
    BY <2>1, TimesFacts
  <2> QED
    BY <1>1, <2>1, <2>2, TimesFacts
<1> QED
  BY <1>3, <1>4, CandleAtType DEF IsSeries

\* Two series merged are a series.
LEMMA WithType ==
    ASSUME NEW f, NEW g, NEW S, IsSeries(f, S), IsSeries(g, S)
    PROVE  IsSeries(With(f, g), S)
  BY DEF With, IsSeries

\* The candle the relay pushes.
LEMMA PushedType ==
    ASSUME NEW at \in Times
    PROVE  /\ Bar(FeedInterval, at) \in 1..at /\ Bar(FeedInterval, at) \in Times
           /\ CandleAt(FeedInterval, Bar(FeedInterval, at), at) \in Candle
<1>1. (at - 1) % FeedInterval \in 0..(at - 1)
  BY WidthsAssumption DEF Times
<1>2. Bar(FeedInterval, at) \in 1..at
  BY <1>1 DEF Bar, Times
<1>3. Bar(FeedInterval, at) \in Times
  BY <1>2, TimesFacts
<1> QED
  BY <1>2, <1>3, CandleAtType

\* Markers stand at times.
LEMMA MarksType ==
    ASSUME NEW f, NEW S, IsSeries(f, S), DOMAIN f # {}
    PROVE  Marks(DOMAIN f) \in SUBSET (Trades \X (Trades \cup Times))
<1>1. ASSUME NEW t \in Trades
      PROVE  Snap(t, DOMAIN f) \in Times \cup {-1}
  BY SnapIsNearest, SeriesIsFinite, WidthsAssumption
<1> QED
  BY <1>1 DEF Marks

\* What is drawn is a series of candles, each stamped with an interval.
Drawn == [c : Candle, key : Intervals]

\* All candles drawn, or the last over those drawn before, are such a series.
LEMMA DrawCandlesType ==
    ASSUME TypeOK, DOMAIN Candles # {}, NEW had, NEW count
    PROVE  IsSeries(DrawCandles(had, count), Drawn)
<1>1. IsSeries(Candles, Candle) /\ interval \in Intervals /\ IsSeries(drawn, Drawn)
  BY DEF TypeOK, Candles, Drawn
<1>2. IsSeries(Stamp(Candles), Drawn)
  BY <1>1 DEF Stamp, IsSeries, Drawn
<1>3. Max(DOMAIN Candles) \in DOMAIN Candles
  BY <1>1, LastOfSeries
<1> DEFINE newest == [t \in {Max(DOMAIN Candles)} |-> Stamp(Candles)[t]]
<1>4. IsSeries(newest, Drawn)
  BY <1>1, <1>2, <1>3 DEF IsSeries, Stamp
<1>5. IsSeries(With(drawn, newest), Drawn)
  BY <1>1, <1>4, WithType
<1> QED
  BY <1>2, <1>5 DEF DrawCandles

LEMMA InitTyped == Init => Typed
<1> SUFFICES ASSUME Init
             PROVE  Typed
  OBVIOUS
<1>1. IsSeries(Empty, Candle) /\ IsSeries(Empty, [c : Candle, key : Intervals])
  BY DEF Empty, IsSeries
<1>2. /\ cache = [k \in Intervals |-> Empty]
      /\ flight = [k \in Intervals |-> IF k = FirstInterval THEN Asked ELSE Idle]
      /\ now \in Times /\ loading = NoLoad /\ earliest = 0
  BY WidthsAssumption DEF Init, Times
<1>3. DOMAIN cache = Intervals /\ \A k \in Intervals : IsSeries(cache[k], Candle)
  BY <1>1, <1>2
<1>4. flight \in [Intervals -> {Idle, Asked} \cup Times]
  BY <1>2
<1>5. Remembered
  BY <1>2 DEF Remembered, NoLoad, Idle, Asked, Times
<1>6. IsSeries(wsCandles, Candle) /\ IsSeries(drawn, [c : Candle, key : Intervals])
  BY <1>1 DEF Init
<1>7. /\ interval \in Intervals /\ prevKey \in Intervals /\ prevCount \in 0..MaxTime
      /\ clicks \in 0..MaxClicks /\ failures \in 0..MaxFailures
  BY WidthsAssumption DEF Init
<1>8. news \in BOOLEAN /\ due \in BOOLEAN /\ hadData \in BOOLEAN
  BY DEF Init
<1>9. marks \subseteq Trades \X (Trades \cup Times)
  BY DEF Init
<1>10. /\ aged \subseteq Intervals /\ enabled \subseteq Periods
       /\ DOMAIN series \subseteq Periods
       /\ \A p \in DOMAIN series : DOMAIN series[p] \subseteq Times
  BY DEF Init, Empty
<1> QED
  BY <1>2, <1>3, <1>4, <1>5, <1>6, <1>7, <1>8, <1>9, <1>10 DEF Typed, TypeOK

\* A type that an interval's new data has is one the cache keeps.
LEMMA CacheType ==
    ASSUME DOMAIN cache = Intervals, \A k \in Intervals : IsSeries(cache[k], Candle),
           NEW i \in Intervals, NEW f, IsSeries(f, Candle),
           cache' = [cache EXCEPT ![i] = f]
    PROVE  DOMAIN cache' = Intervals /\ \A k \in Intervals : IsSeries(cache'[k], Candle)
  OBVIOUS

LEMMA ManagerAnswersTyped ==
    ASSUME Typed, NEW k \in Intervals, ManagerAnswers(k)
    PROVE  Typed'
<1>1. now \in Times /\ flight \in [Intervals -> {Idle, Asked} \cup Times]
  BY DEF Typed, TypeOK
<1>2. flight' = [flight EXCEPT ![k] = now] /\ now' = now
  BY DEF ManagerAnswers
<1>3. flight' \in [Intervals -> {Idle, Asked} \cup Times]
  BY <1>1, <1>2
<1>4. \A i \in Intervals : flight'[i] <= now'
  BY <1>1, <1>2, TimesFacts DEF Typed, Remembered
<1> QED
  BY <1>3, <1>4 DEF ManagerAnswers, Typed, TypeOK, Remembered, chart

LEMMA QueryAnswersTyped ==
    ASSUME Typed, NEW k \in Intervals, QueryAnswers(k)
    PROVE  Typed'
<1> DEFINE klines == Fetch(k, flight[k], flight[k])
<1>1. /\ now \in Times /\ flight \in [Intervals -> {Idle, Asked} \cup Times]
      /\ flight[k] \in Times /\ flight[k] <= now /\ earliest \in {0} \cup Times /\ earliest <= now
  BY DEF Typed, TypeOK, Remembered, QueryAnswers
<1>2. flight[k] \in Nat /\ now \in Nat
  BY <1>1, TimesFacts
<1>3. flight[k] \in Nat /\ now \in Nat /\ flight[k] \in 0..flight[k]
  BY <1>2
<1>4. IsSeries(klines, Candle) /\ DOMAIN klines \in SUBSET (1..flight[k])
  BY <1>1, <1>3, FetchType
<1>5. /\ wsCandles' = klines /\ earliest' = EarliestOf(klines)
      /\ cache' = [cache EXCEPT ![k] = klines] /\ flight' = [flight EXCEPT ![k] = Idle]
      /\ now' = now /\ due' = (k = interval) /\ aged' = aged \ {k}
  BY DEF QueryAnswers, SetData
<1> HIDE DEF klines
<1>6. EarliestOf(klines) \in {0} \cup Times /\ EarliestOf(klines) <= now
  <2>1. CASE DOMAIN klines = {}
    BY <1>1, <2>1 DEF EarliestOf
  <2>2. CASE DOMAIN klines # {}
    <3>1. DOMAIN klines \in SUBSET Nat
      BY <1>4
    <3>2. Min(DOMAIN klines) \in DOMAIN klines
      BY <2>2, <3>1, MinIsLeast
    <3>3. Min(DOMAIN klines) \in 1..flight[k]
      BY <1>4, <3>2
    <3>4. Min(DOMAIN klines) \in Times
      BY <1>1, <3>3, TimesFacts
    <3>5. Min(DOMAIN klines) <= now
      BY <1>1, <1>3, <3>3
    <3> QED
      BY <2>2, <3>4, <3>5 DEF EarliestOf
  <2> QED
    BY <2>1, <2>2
<1>7. DOMAIN cache' = Intervals /\ \A i \in Intervals : IsSeries(cache'[i], Candle)
  BY <1>4, <1>5, CacheType DEF Typed, TypeOK
<1>8. flight' \in [Intervals -> {Idle, Asked} \cup Times]
  BY <1>1, <1>5
<1>9. \A i \in Intervals : flight'[i] <= now'
  BY <1>1, <1>5, TimesFacts DEF Typed, Remembered, Idle
<1>10. due' \in BOOLEAN
  BY <1>5
<1> QED
  BY <1>4, <1>5, <1>6, <1>7, <1>8, <1>9, <1>10
     DEF QueryAnswers, Typed, TypeOK, Remembered, chart

LEMMA QueryFailsTyped ==
    ASSUME Typed, NEW k \in Intervals, QueryFails(k)
    PROVE  Typed'
<1>1. flight \in [Intervals -> {Idle, Asked} \cup Times] /\ failures \in 0..MaxFailures
  BY DEF Typed, TypeOK
<1>2. /\ flight' = [flight EXCEPT ![k] = Idle] /\ now' = now
      /\ failures < MaxFailures /\ failures' = failures + 1
  BY DEF QueryFails
<1>3. flight' \in [Intervals -> {Idle, Asked} \cup Times]
  BY <1>1, <1>2
<1>4. now \in Nat
  BY TimesFacts DEF Typed, TypeOK
<1>5. \A i \in Intervals : flight'[i] <= now'
  BY <1>1, <1>2, <1>4 DEF Typed, Remembered, Idle
<1>6. failures' \in 0..MaxFailures
  BY <1>1, <1>2, WidthsAssumption
<1> QED
  BY <1>3, <1>5, <1>6 DEF QueryFails, Typed, TypeOK, Remembered, chart

LEMMA LoadEarlierTyped ==
    ASSUME Typed, LoadEarlier
    PROVE  Typed'
<1>1. earliest \in Times /\ interval \in Intervals /\ earliest <= now /\ clicks \in 0..MaxClicks
  BY DEF Typed, TypeOK, Remembered, LoadEarlier
<1>2. /\ loading' = [key |-> interval, before |-> earliest] /\ now' = now
      /\ clicks < MaxClicks /\ clicks' = clicks + 1
  BY DEF LoadEarlier
<1>3. loading' \in [key : Intervals, before : Times] /\ loading'.before <= now'
  BY <1>1, <1>2
<1>4. clicks' \in 0..MaxClicks
  BY <1>1, <1>2, WidthsAssumption
<1> QED
  BY <1>3, <1>4 DEF LoadEarlier, Typed, TypeOK, Remembered, chart

LEMMA NoLoadTyped == now \in Times => NoLoad.before <= now
  BY TimesFacts DEF NoLoad

LEMMA EarlierAnswersTyped ==
    ASSUME Typed, EarlierAnswers
    PROVE  Typed'
<1> DEFINE older == Fetch(loading.key, loading.before - 1, now)
           merged == With(wsCandles, older)
<1>1. /\ now \in Times /\ loading \in [key : Intervals, before : Times] /\ loading.before <= now
  BY DEF Typed, TypeOK, Remembered, EarlierAnswers
<1>2. loading.key \in Intervals /\ loading.before - 1 \in 0..now
  <2>1. loading.key \in Intervals /\ loading.before \in Times
    BY <1>1
  <2>2. loading.before \in Nat /\ 1 <= loading.before /\ now \in Nat
    BY <1>1, <2>1, TimesFacts
  <2> QED
    BY <1>1, <2>1, <2>2
<1>3. IsSeries(older, Candle) /\ DOMAIN older \in SUBSET (1..(loading.before - 1))
  BY <1>1, <1>2, FetchType
<1>4. IsSeries(merged, Candle)
  BY <1>3, WithType DEF Typed, TypeOK
<1>5. /\ loading' = NoLoad /\ now' = now
      /\ \/ UNCHANGED <<wsCandles, earliest, cache, aged, due>>
         \/ /\ DOMAIN older # {} /\ wsCandles' = merged
            /\ earliest' = Min(DOMAIN older)
            /\ cache' = [cache EXCEPT ![loading.key] = merged]
            /\ aged' = aged \ {loading.key}
            /\ due' = (loading.key = interval)
  BY DEF EarlierAnswers, SetData
<1> HIDE DEF older, merged
<1>6. loading'.before <= now'
  BY <1>1, <1>5, NoLoadTyped
<1>7. CASE UNCHANGED <<wsCandles, earliest, cache, aged, due>>
  BY <1>5, <1>6, <1>7 DEF EarlierAnswers, Typed, TypeOK, Remembered, chart
<1>8. CASE /\ DOMAIN older # {} /\ wsCandles' = merged
           /\ earliest' = Min(DOMAIN older)
           /\ cache' = [cache EXCEPT ![loading.key] = merged]
           /\ aged' = aged \ {loading.key}
           /\ due' = (loading.key = interval)
  <2>1. DOMAIN older \in SUBSET Nat
    BY <1>3
  <2>2. Min(DOMAIN older) \in DOMAIN older
    BY <1>8, <2>1, MinIsLeast
  <2>3. Min(DOMAIN older) \in 1..now
    BY <1>1, <1>2, <1>3, <2>2, TimesFacts
  <2>4. earliest' \in Times /\ earliest' <= now'
    BY <1>1, <1>5, <1>8, <2>3, TimesFacts
  <2>5. DOMAIN cache' = Intervals /\ \A i \in Intervals : IsSeries(cache'[i], Candle)
    BY <1>2, <1>4, <1>8, CacheType DEF Typed, TypeOK
  <2>6. due' \in BOOLEAN
    BY <1>8
  <2>7. IsSeries(wsCandles', Candle)
    BY <1>4, <1>8
  <2> QED
    BY <1>5, <1>6, <2>4, <2>5, <2>6, <2>7 DEF EarlierAnswers, Typed, TypeOK, Remembered, chart
<1> QED
  BY <1>5, <1>7, <1>8

LEMMA EarlierFailsTyped ==
    ASSUME Typed, EarlierFails
    PROVE  Typed'
<1>1. failures' \in 0..MaxFailures
  BY WidthsAssumption DEF Typed, TypeOK, EarlierFails
<1>2. loading' = NoLoad /\ now' = now /\ now \in Times
  BY DEF Typed, TypeOK, EarlierFails
<1>3. loading'.before <= now'
  BY <1>2, NoLoadTyped
<1> QED
  BY <1>1, <1>2, <1>3 DEF EarlierFails, Typed, TypeOK, Remembered, chart

LEMMA HandleWSMessageTyped ==
    ASSUME Typed, HandleWSMessage
    PROVE  Typed'
<1> DEFINE t == Bar(FeedInterval, now)
           c == CandleAt(FeedInterval, t, now)
           seen == With(wsCandles, [u \in {t} |-> c])
           here == [Candles EXCEPT ![t] = c]
<1>1. /\ now \in Times /\ interval \in Intervals
      /\ IsSeries(wsCandles, Candle) /\ IsSeries(Candles, Candle)
  BY DEF Typed, TypeOK, Candles
<1>2. t \in Times /\ c \in Candle
  BY <1>1, PushedType
<1>3. /\ news' = FALSE /\ wsCandles' = seen /\ due' = (cache'[interval] # cache[interval])
      /\ \/ SetData(interval, seen) \/ SetData(interval, here)
         \/ SetData(interval, Candles) \/ UNCHANGED <<cache, aged>>
  BY DEF HandleWSMessage
<1> HIDE DEF t, c
<1>4. IsSeries([u \in {t} |-> c], Candle)
  BY <1>2 DEF IsSeries
<1>5. IsSeries(seen, Candle)
  BY <1>1, <1>4, WithType
<1>6. IsSeries(here, Candle)
  BY <1>1, <1>2 DEF IsSeries
<1> HIDE DEF seen, here
<1>7. DOMAIN cache' = Intervals /\ \A k \in Intervals : IsSeries(cache'[k], Candle)
  BY <1>1, <1>3, <1>5, <1>6, CacheType DEF Typed, TypeOK, SetData
<1>8. /\ due' \in BOOLEAN /\ news' \in BOOLEAN /\ IsSeries(wsCandles', Candle)
      /\ aged' \subseteq Intervals
  BY <1>3, <1>5 DEF Typed, TypeOK, SetData
<1> QED
  BY <1>7, <1>8 DEF HandleWSMessage, Typed, TypeOK, Remembered, chart

\* A request is made or not: the requests on their way keep their types.
LEMMA AskedTyped ==
    ASSUME Typed, NEW k \in Intervals, now' = now,
           flight' = flight \/ flight' = [flight EXCEPT ![k] = Asked]
    PROVE  /\ flight' \in [Intervals -> {Idle, Asked} \cup Times]
           /\ \A i \in Intervals : flight'[i] <= now'
<1>1. flight \in [Intervals -> {Idle, Asked} \cup Times] /\ now \in Nat
  BY TimesFacts DEF Typed, TypeOK
<1> QED
  BY <1>1 DEF Typed, Remembered, Asked

LEMMA ChangeIntervalTyped ==
    ASSUME Typed, ChangeInterval
    PROVE  Typed'
<1>1. PICK k \in Intervals \ {interval} : interval' = k /\ flight' = Observed(k)
  BY DEF ChangeInterval
<1>2. flight' = flight \/ flight' = [flight EXCEPT ![k] = Asked]
  BY <1>1 DEF Observed
<1>3. now' = now /\ due' = TRUE /\ clicks' \in 0..MaxClicks
  BY WidthsAssumption DEF ChangeInterval, Typed, TypeOK
<1>4. /\ flight' \in [Intervals -> {Idle, Asked} \cup Times]
      /\ \A i \in Intervals : flight'[i] <= now'
  BY <1>2, <1>3, AskedTyped
<1> QED
  BY <1>1, <1>3, <1>4 DEF ChangeInterval, Typed, TypeOK, Remembered, chart

LEMMA WindowFocusTyped ==
    ASSUME Typed, WindowFocus
    PROVE  Typed'
<1>1. interval \in Intervals
  BY DEF Typed, TypeOK
<1>2. flight' = [flight EXCEPT ![interval] = Asked] /\ now' = now
  BY DEF WindowFocus
<1>3. /\ flight' \in [Intervals -> {Idle, Asked} \cup Times]
      /\ \A i \in Intervals : flight'[i] <= now'
  BY <1>1, <1>2, AskedTyped
<1> QED
  BY <1>3 DEF WindowFocus, Typed, TypeOK, Remembered, chart

LEMMA AgesTyped ==
    ASSUME Typed, NEW k \in Intervals, Ages(k)
    PROVE  Typed'
  BY DEF Ages, Typed, TypeOK, Remembered, chart

LEMMA ToggleIndicatorTyped ==
    ASSUME Typed, ToggleIndicator
    PROVE  Typed'
<1>1. enabled' \subseteq Periods /\ clicks' \in 0..MaxClicks /\ due' = TRUE
  BY WidthsAssumption DEF ToggleIndicator, Typed, TypeOK
<1> QED
  BY <1>1 DEF ToggleIndicator, Typed, TypeOK, Remembered, hook, chart

\* The series are of indicators on offer, at the times of candles.
LEMMA SeriesTyped ==
    ASSUME TypeOK, series' = SeriesOf(IndicatorLines(Candles))
    PROVE  /\ DOMAIN series' \subseteq Periods
           /\ \A p \in DOMAIN series' : DOMAIN series'[p] \subseteq Times
<1> DEFINE lines == IndicatorLines(Candles)
           set == {p \in DOMAIN lines : DOMAIN lines[p] # {}}
<1>1. DOMAIN lines \subseteq Periods
  BY DEF IndicatorLines, TypeOK
<1>2. \A p \in DOMAIN lines : DOMAIN lines[p] \subseteq Times
  BY DEF IndicatorLines, SMA, TypeOK, Candles, IsSeries
<1> HIDE DEF lines
<1>3. series' = [p \in set \cup (DOMAIN series \cap DOMAIN lines) |->
                   IF p \in set THEN lines[p] ELSE series[p]]
  BY DEF SeriesOf, lines
<1> QED
  BY <1>1, <1>2, <1>3 DEF TypeOK

LEMMA DrawTyped ==
    ASSUME Typed, Draw
    PROVE  Typed'
<1> DEFINE had == hadData /\ prevKey = interval
           count == IF prevKey = interval THEN prevCount ELSE 0
<1>1. IsSeries(Candles, Candle) /\ interval \in Intervals
  BY DEF Typed, TypeOK, Candles
<1>2. /\ due' = FALSE /\ prevKey' = interval
      /\ UNCHANGED <<now, news, hook, enabled, clicks, failures>>
      /\ DOMAIN series' \subseteq Periods
      /\ \A p \in DOMAIN series' : DOMAIN series'[p] \subseteq Times
  BY SeriesTyped DEF Draw, Typed
<1>3. CASE DOMAIN Candles = {}
  <2>1. prevCount' = 0 /\ hadData' = FALSE /\ UNCHANGED <<drawn, marks>>
    BY <1>3 DEF Draw
  <2>2. prevCount' \in 0..MaxTime
    BY <2>1, WidthsAssumption
  <2> QED
    BY <1>1, <1>2, <2>1, <2>2 DEF Typed, TypeOK, Remembered, hook
<1>4. CASE DOMAIN Candles # {}
  <2>1. /\ prevCount' = Cardinality(DOMAIN Candles) /\ hadData' = TRUE
        /\ drawn' = DrawCandles(had, count)
        /\ marks' = Marks(DOMAIN Candles)
    BY <1>4 DEF Draw
  <2>2. prevCount' \in 0..MaxTime
    BY <1>1, <2>1, SeriesIsFinite
  <2>3. IsSeries(drawn', Drawn)
    BY <1>4, <2>1, DrawCandlesType DEF Typed
  <2>4. marks' \in SUBSET (Trades \X (Trades \cup Times))
    BY <1>1, <1>4, <2>1, MarksType
  <2> QED
    BY <1>1, <1>2, <2>1, <2>2, <2>3, <2>4 DEF Typed, TypeOK, Remembered, hook, Drawn
<1> QED
  BY <1>3, <1>4

LEMMA TickTyped ==
    ASSUME Typed, Tick
    PROVE  Typed'
<1>1. now \in Times /\ news \in BOOLEAN /\ now < MaxTime /\ now' = now + 1 /\ news' = news
  BY DEF Tick, Typed, TypeOK
<1>2. now' \in Times
  BY <1>1, WidthsAssumption DEF Times
<1>3. news' \in BOOLEAN
  BY <1>1
<1>4. now' \in Times /\ now <= now' /\ now \in Nat /\ news' \in BOOLEAN
  BY <1>1, <1>2, <1>3, TimesFacts
<1>5. UNCHANGED <<hook, due, enabled, chart, clicks, failures>>
  BY DEF Tick
<1>6. Remembered'
  <2>1. earliest' \in Int /\ earliest' <= now
    BY <1>5, TimesFacts DEF Typed, TypeOK, Remembered, hook
  <2>2. loading'.before \in Int /\ loading'.before <= now
    BY <1>5, TimesFacts DEF Typed, TypeOK, Remembered, hook, NoLoad
  <2>3. \A k \in Intervals : flight'[k] \in Int /\ flight'[k] <= now
    BY <1>5, TimesFacts DEF Typed, TypeOK, Remembered, hook, Idle, Asked
  <2> QED
    BY <1>4, <2>1, <2>2, <2>3, TimesFacts DEF Remembered
<1> QED
  BY <1>4, <1>5, <1>6 DEF Typed, TypeOK, hook, chart

LEMMA PushTyped ==
    ASSUME Typed, Push
    PROVE  Typed'
  BY DEF Push, Typed, TypeOK, Remembered, hook, chart

LEMMA StepTyped ==
    ASSUME Typed, [Next]_vars
    PROVE  Typed'
<1>1. CASE UNCHANGED vars
  BY <1>1 DEF vars, hook, chart, Typed, TypeOK, Remembered
<1>2. CASE Next
  BY <1>2, ManagerAnswersTyped, QueryAnswersTyped, QueryFailsTyped, LoadEarlierTyped,
     EarlierAnswersTyped, EarlierFailsTyped, HandleWSMessageTyped, ChangeIntervalTyped,
     WindowFocusTyped, AgesTyped, ToggleIndicatorTyped, DrawTyped, TickTyped, PushTyped DEF Next
<1> QED
  BY <1>1, <1>2

\* The state of the hook and of the chart keeps its types, and the times the hook
\* remembers (the earliest candle, the end of the page asked for, the time a
\* query was answered at) have passed.
THEOREM TypeCorrect == Spec => [](TypeOK /\ Remembered)
<1>1. Typed /\ [Next]_vars => Typed'
  BY StepTyped
<1>2. Typed => TypeOK /\ Remembered
  BY DEF Typed
<1> QED
  BY InitTyped, <1>1, <1>2, PTL DEF Spec

-----------------------------------------------------------------------------
(* What the chart shows. *)

\* Candles once drawn are of the key they were drawn for; when no effect is due
\* the chart was last drawn for the data as it is.
Shows ==
    /\ hadData => \A t \in DOMAIN drawn : drawn[t].key = prevKey
    /\ ~due => /\ prevKey = interval
               /\ LinesFollowData
               /\ DOMAIN Candles # {} => hadData /\ marks = Marks(DOMAIN Candles) /\ LastCandleDrawn

\* There is an average as soon as there are as many candles as its period.
LEMMA AverageExists ==
    ASSUME NEW f, NEW S, IsSeries(f, S), NEW p \in Nat \ {0}
    PROVE  DOMAIN SMA(f, p) # {} <=> Cardinality(DOMAIN f) >= p
<1> DEFINE upto(t) == {u \in DOMAIN f : u <= t}
<1>1. DOMAIN SMA(f, p) = {u \in DOMAIN f : Cardinality(upto(u)) >= p}
  BY DEF SMA
<1>2. /\ DOMAIN f \in SUBSET (Nat \ {0}) /\ IsFiniteSet(DOMAIN f)
      /\ Cardinality(DOMAIN f) \in Nat
  BY SeriesIsFinite, FS_CardinalityType
<1>3. ASSUME NEW t \in DOMAIN f
      PROVE  Cardinality(upto(t)) \in Nat /\ Cardinality(upto(t)) <= Cardinality(DOMAIN f)
  <2>1. upto(t) \in SUBSET DOMAIN f
    OBVIOUS
  <2>2. IsFiniteSet(upto(t)) /\ Cardinality(upto(t)) <= Cardinality(DOMAIN f)
    BY <1>2, <2>1, FS_Subset
  <2> QED
    BY <2>2, FS_CardinalityType
<1>4. ASSUME Cardinality(DOMAIN f) >= p
      PROVE  \E t \in DOMAIN f : Cardinality(upto(t)) >= p
  <2>1. DOMAIN f # {}
    <3>1. Cardinality(DOMAIN f) # 0
      BY <1>2, <1>4
    <3> QED
      BY <3>1, FS_EmptySet
  <2>2. Max(DOMAIN f) \in DOMAIN f /\ \A t \in DOMAIN f : t <= Max(DOMAIN f)
    BY <2>1, LastOfSeries
  <2>3. upto(Max(DOMAIN f)) = DOMAIN f
    BY <2>2
  <2> QED
    BY <1>4, <2>2, <2>3
<1>5. ASSUME NEW t \in DOMAIN f, Cardinality(upto(t)) >= p
      PROVE  Cardinality(DOMAIN f) >= p
  BY <1>2, <1>3, <1>5
<1> QED
  BY <1>1, <1>4, <1>5

LEMMA InitShows == Init => Shows
<1> SUFFICES ASSUME Init
             PROVE  Shows
  OBVIOUS
<1>1. Candles = Empty
  BY WidthsAssumption DEF Init, Candles
<1>2. DOMAIN Candles = {}
  BY <1>1 DEF Empty
<1>3. LinesFollowData
  BY DEF Init, LinesFollowData, Empty
<1> QED
  BY <1>2, <1>3 DEF Init, Shows

\* A step that is no drawing either leaves the rendered data and the chart alone
\* or makes the effects due.
LEMMA OnlyDrawingDraws ==
    ASSUME Typed, [Next]_vars, ~ Draw
    PROVE  /\ UNCHANGED chart
           /\ ~due' => ~due /\ UNCHANGED <<interval, enabled, Candles>>
<1> USE DEF Candles, chart
<1>1. DOMAIN cache = Intervals /\ interval \in Intervals
  BY DEF Typed, TypeOK
<1>2. CASE UNCHANGED vars
  BY <1>2 DEF vars, hook
<1>3. CASE \E k \in Intervals : ManagerAnswers(k) \/ QueryFails(k) \/ Ages(k)
  BY <1>3 DEF ManagerAnswers, QueryFails, Ages
<1>4. CASE \E k \in Intervals : QueryAnswers(k)
  <2>1. PICK k \in Intervals : QueryAnswers(k)
    BY <1>4
  <2>2. /\ ~due /\ due' = (k = interval) /\ UNCHANGED <<interval, enabled, chart>>
        /\ cache' = [cache EXCEPT ![k] = Fetch(k, flight[k], flight[k])]
    BY <2>1 DEF QueryAnswers, SetData
  <2>3. k # interval => cache'[interval] = cache[interval]
    BY <1>1, <2>2
  <2> QED
    BY <2>2, <2>3
<1>5. CASE LoadEarlier \/ EarlierFails \/ WindowFocus
  BY <1>5 DEF LoadEarlier, EarlierFails, WindowFocus
<1>6. CASE EarlierAnswers
  <2> DEFINE older == Fetch(loading.key, loading.before - 1, now)
  <2>1. /\ ~due /\ UNCHANGED <<interval, enabled, chart>>
        /\ \/ UNCHANGED <<cache, due>>
           \/ /\ cache' = [cache EXCEPT ![loading.key] = With(wsCandles, older)]
              /\ due' = (loading.key = interval)
    BY <1>6 DEF EarlierAnswers, SetData
  <2> QED
    BY <1>1, <2>1
<1>7. CASE HandleWSMessage
  BY <1>7 DEF HandleWSMessage
<1>8. CASE ChangeInterval \/ ToggleIndicator
  BY <1>8 DEF ChangeInterval, ToggleIndicator
<1>9. CASE Tick \/ Push
  BY <1>9 DEF Tick, Push, hook
<1> QED
  BY <1>2, <1>3, <1>4, <1>5, <1>6, <1>7, <1>8, <1>9 DEF Next

\* Whichever way the candles are drawn, the last one drawn is the last of the data.
LEMMA DrawingDrawsLast ==
    ASSUME TypeOK, DOMAIN Candles # {}, NEW had, NEW count,
           NEW shown, shown = DrawCandles(had, count)
    PROVE  shown[Max(DOMAIN shown)] = Stamp(Candles)[Max(DOMAIN Candles)]
<1> DEFINE last == Max(DOMAIN Candles)
           newest == [t \in {last} |-> Stamp(Candles)[t]]
<1>1. IsSeries(Candles, Candle) /\ IsSeries(drawn, Drawn)
  BY DEF TypeOK, Candles, Drawn
<1>2. DOMAIN Stamp(Candles) = DOMAIN Candles
  BY DEF Stamp
<1>3. CASE shown = Stamp(Candles)
  BY <1>2, <1>3
<1>4. CASE shown = With(drawn, newest) /\ ~ (last < Max(DOMAIN drawn))
  <2>1. last \in DOMAIN Candles /\ last \in Nat
    BY <1>1, LastOfSeries
  <2> HIDE DEF last
  <2>2. DOMAIN shown = DOMAIN drawn \cup {last} /\ shown[last] = Stamp(Candles)[last]
    BY <1>4 DEF With
  <2>3. ASSUME NEW t \in DOMAIN drawn
        PROVE  t <= last
    <3>1. t \in Nat /\ t <= Max(DOMAIN drawn) /\ Max(DOMAIN drawn) \in Nat
      BY <1>1, LastOfSeries, SeriesIsFinite
    <3> QED
      BY <1>4, <2>1, <3>1
  <2>4. DOMAIN shown \in SUBSET (0..MaxTime) /\ last \in DOMAIN shown
    BY <1>1, <2>1, <2>2, SeriesIsFinite DEF Times
  <2>5. Max(DOMAIN shown) \in DOMAIN shown /\ last <= Max(DOMAIN shown)
    BY <2>4, MaxIsGreatest, WidthsAssumption
  <2>6. Max(DOMAIN shown) = last
    BY <2>1, <2>2, <2>3, <2>4, <2>5
  <2> QED
    BY <2>2, <2>6 DEF last
<1> QED
  BY <1>3, <1>4 DEF DrawCandles

\* After a drawing all candles are of the interval drawn for: those left from
\* before were too, when only the last is drawn.
LEMMA DrawingLeavesNone ==
    ASSUME Typed, Shows, DOMAIN Candles # {}, NEW count,
           NEW shown, shown = DrawCandles(hadData /\ prevKey = interval, count)
    PROVE  \A t \in DOMAIN shown : shown[t].key = interval
<1> DEFINE newest == [t \in {Max(DOMAIN Candles)} |-> Stamp(Candles)[t]]
<1>1. \A t \in DOMAIN Candles : Stamp(Candles)[t].key = interval
  BY DEF Stamp
<1>2. DOMAIN Stamp(Candles) = DOMAIN Candles
  BY DEF Stamp
<1>3. CASE shown = Stamp(Candles)
  BY <1>1, <1>2, <1>3
<1>4. CASE shown = With(drawn, newest) /\ hadData /\ prevKey = interval
  <2>1. \A t \in DOMAIN drawn : drawn[t].key = interval
    BY <1>4 DEF Shows
  <2>2. Max(DOMAIN Candles) \in DOMAIN Candles
    BY LastOfSeries DEF Typed, TypeOK, Candles
  <2>3. \A t \in DOMAIN newest : newest[t].key = interval
    BY <1>1, <2>2
  <2> QED
    BY <1>4, <2>1, <2>3 DEF With
<1> QED
  BY <1>3, <1>4 DEF DrawCandles

\* The lines the page hands over all have a point, so the chart keeps no series
\* of older candles.
LEMMA DrawnLines ==
    ASSUME TypeOK, series' = SeriesOf(IndicatorLines(Candles)), UNCHANGED <<enabled, Candles>>
    PROVE  LinesFollowData'
<1> DEFINE lines == IndicatorLines(Candles)
           set == {p \in DOMAIN lines : DOMAIN lines[p] # {}}
           many == {p \in enabled : Cardinality(DOMAIN Candles) >= p}
<1>1. enabled \subseteq Nat \ {0} /\ IsSeries(Candles, Candle)
  BY WidthsAssumption DEF TypeOK, Candles
<1>2. \A p \in enabled : DOMAIN SMA(Candles, p) # {} <=> Cardinality(DOMAIN Candles) >= p
  BY <1>1, AverageExists
<1>3. DOMAIN lines = many /\ \A p \in many : lines[p] = SMA(Candles, p)
  BY <1>2 DEF IndicatorLines
<1> HIDE DEF lines
<1>4. set = many
  BY <1>2, <1>3
<1>5. series' = [p \in set \cup (DOMAIN series \cap DOMAIN lines) |->
                   IF p \in set THEN lines[p] ELSE series[p]]
  BY DEF SeriesOf, lines
<1> HIDE DEF set
<1>6. DOMAIN series' = many /\ \A p \in many : series'[p] = SMA(Candles, p)
  BY <1>3, <1>4, <1>5
<1>7. \A p : (SMA(Candles, p))' = SMA(Candles, p)
  OBVIOUS
<1> QED
  BY <1>6, <1>7 DEF LinesFollowData

LEMMA DrawShows ==
    ASSUME Typed, Shows, Draw
    PROVE  Shows'
<1> DEFINE had == hadData /\ prevKey = interval
           count == IF prevKey = interval THEN prevCount ELSE 0
<1>1. /\ due' = FALSE /\ prevKey' = interval /\ UNCHANGED <<interval, enabled, cache>>
      /\ series' = SeriesOf(IndicatorLines(Candles))
  BY DEF Draw, hook
<1>2. UNCHANGED Candles /\ (Stamp(Candles))' = Stamp(Candles)
  BY <1>1 DEF Candles, Stamp
<1>3. LinesFollowData'
  BY <1>1, <1>2, DrawnLines DEF Typed
<1>4. CASE DOMAIN Candles = {}
  <2>1. hadData' = FALSE
    BY <1>4 DEF Draw
  <2> QED
    BY <1>1, <1>2, <1>3, <1>4, <2>1 DEF Shows
<1>5. CASE DOMAIN Candles # {}
  <2>1. /\ hadData' = TRUE /\ drawn' = DrawCandles(had, count)
        /\ marks' = Marks(DOMAIN Candles)
    BY <1>5 DEF Draw
  <2>2. drawn'[Max(DOMAIN drawn')] = Stamp(Candles)[Max(DOMAIN Candles)]
    BY <1>5, <2>1, DrawingDrawsLast DEF Typed
  <2>3. \A t \in DOMAIN drawn' : drawn'[t].key = interval
    BY <1>5, <2>1, DrawingLeavesNone
  <2>4. LastCandleDrawn'
    BY <1>2, <2>2 DEF LastCandleDrawn
  <2> QED
    BY <1>1, <1>2, <1>3, <2>1, <2>3, <2>4 DEF Shows
<1> QED
  BY <1>4, <1>5

LEMMA StepShows ==
    ASSUME Typed, Shows, [Next]_vars
    PROVE  Shows'
<1>1. CASE Draw
  BY <1>1, DrawShows
<1>2. CASE ~ Draw
  <2>1. /\ UNCHANGED chart
        /\ ~due' => ~due /\ UNCHANGED <<interval, enabled, Candles>>
    BY <1>2, OnlyDrawingDraws
  <2>2. ~due' => UNCHANGED Stamp(Candles)
    BY <2>1 DEF Stamp
  <2>3. ~due' /\ LastCandleDrawn => LastCandleDrawn'
    BY <2>1, <2>2 DEF LastCandleDrawn, chart
  <2>4. ~due' /\ LinesFollowData => LinesFollowData'
    <3>1. UNCHANGED Candles => \A p : (SMA(Candles, p))' = SMA(Candles, p)
      OBVIOUS
    <3> QED
      BY <2>1, <3>1 DEF LinesFollowData, chart
  <2> QED
    BY <2>1, <2>3, <2>4 DEF Shows, chart
<1> QED
  BY <1>1, <1>2

\* The markers were made of the data as it is, each by one bisection.
LEMMA MarkersAreNearest == Typed /\ Shows => MarkersOnNearest
<1> SUFFICES ASSUME Typed, Shows, ~due, DOMAIN Candles # {}, NEW m \in marks
             PROVE  LET dist(t) == IF t < m[1] THEN m[1] - t ELSE t - m[1]
                        best == Min({dist(t) : t \in DOMAIN Candles})
                    IN IF best > SnapLimit THEN m[2] = m[1]
                       ELSE m[2] \in DOMAIN Candles /\ dist(m[2]) = best
  BY DEF MarkersOnNearest
<1>1. PICK t \in Trades : m = <<t, IF Snap(t, DOMAIN Candles) = -1 THEN t
                                  ELSE Snap(t, DOMAIN Candles)>>
  BY DEF Shows, Marks
<1> DEFINE best == Min({Distance(u, t) : u \in DOMAIN Candles})
<1>2. /\ DOMAIN Candles \in SUBSET (Nat \ {0}) /\ IsFiniteSet(DOMAIN Candles)
      /\ t \in Nat
  BY SeriesIsFinite, WidthsAssumption DEF Typed, TypeOK, Candles
<1>3. IF best > SnapLimit THEN Snap(t, DOMAIN Candles) = -1
      ELSE /\ Snap(t, DOMAIN Candles) \in DOMAIN Candles
           /\ Distance(Snap(t, DOMAIN Candles), t) = best
  BY <1>2, SnapIsNearest
<1>4. m[1] = t /\ m[2] = IF Snap(t, DOMAIN Candles) = -1 THEN t ELSE Snap(t, DOMAIN Candles)
  BY <1>1
<1> HIDE DEF best
<1>5. IF best > SnapLimit THEN m[2] = m[1]
      ELSE m[2] \in DOMAIN Candles /\ Distance(m[2], m[1]) = best
  BY <1>2, <1>3, <1>4
<1> QED
  BY <1>4, <1>5 DEF Distance, best

\* In every state the chart shows what it was last drawn for.
LEMMA AlwaysShows == Spec => [](Typed /\ Shows)
<1>1. Init => Typed /\ Shows
  BY InitTyped, InitShows
<1>2. Typed /\ Shows /\ [Next]_vars => (Typed /\ Shows)'
  BY StepTyped, StepShows
<1> QED
  BY <1>1, <1>2, PTL DEF Spec

\* The price read off the chart is the close of the last candle of the data.
THEOREM LastCandleIsDrawn == Spec => []LastCandleDrawn
<1>1. Typed /\ Shows => LastCandleDrawn
  BY DEF Shows, LastCandleDrawn
<1> QED
  BY <1>1, AlwaysShows, PTL

\* No candle of another interval is left on the chart.
THEOREM NothingIsLeftOver == Spec => []NoLeftovers
<1>1. Typed /\ Shows => NoLeftovers
  BY DEF Shows, NoLeftovers
<1> QED
  BY <1>1, AlwaysShows, PTL

\* The bisection of snapToNearestCandle puts every marker on a nearest candle.
THEOREM MarkersStandOnNearest == Spec => []MarkersOnNearest
  BY MarkersAreNearest, AlwaysShows, PTL

\* The chart's series are those of the indicators switched on that have enough
\* candles, each the average of the candles shown: none is kept of older ones.
THEOREM LinesAreOfTheData == Spec => []LinesFollowData
<1>1. Typed /\ Shows => LinesFollowData
  BY DEF Shows, LinesFollowData
<1> QED
  BY <1>1, AlwaysShows, PTL
=============================================================================
