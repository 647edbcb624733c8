------------------------ MODULE BacktestScreen_proofs ------------------------
(***************************************************************************)
(* What the backtest panel would send belongs together, and the chart it   *)
(* shows tells the whole of the finished job it belongs to: proofs about   *)
(* BacktestScreen.                                                         *)
(*                                                                         *)
(* First the orders: the members of a finite set, put in the order of a    *)
(* relation, are all there, each once.  Then the bisection, which is the   *)
(* one of KlineChart over times before 1970 too; it is proved the same way *)
(* (KlineChart_proofs).  Then the state: what every edit keeps of the form *)
(* (PanelFits), and what a chart that is shown rests on (ChartIsOfJob).    *)
(***************************************************************************)
EXTENDS BacktestScreen, FunctionTheorems, FiniteSetTheorems, WellFoundedInduction, TLAPS

-----------------------------------------------------------------------------
(* Order. *)

\* A set of numbers that has a member has a least one, which is its Min.
LEMMA MinIsLeast ==
    ASSUME NEW S \in SUBSET Nat, S # {}
    PROVE  Min(S) \in S /\ \A x \in S : Min(S) <= x
<1> DEFINE R == {p \in Nat \X Nat : p[1] < p[2]}
<1>1. IsWellFoundedOn(R, Nat)
  BY NatLessThanWellFounded, Zenon DEF OpToRel
<1> HIDE DEF R
<1>2. PICK m \in S : \A x \in S : ~ (<<x, m>> \in R)
  BY <1>1, WFMin
<1>3. \A x \in S : m <= x
  <2> TAKE x \in S
  <2>1. <<x, m>> \notin R
    BY <1>2
  <2> QED
    BY <2>1 DEF R
<1>4. \E l \in S : \A x \in S : l <= x
  BY <1>3
<1> QED
  BY <1>4 DEF Min

IsOrder(R, S) ==
    /\ \A a, b, c \in S : <<a, b>> \in R /\ <<b, c>> \in R => <<a, c>> \in R
    /\ \A a \in S : <<a, a>> \notin R
    /\ \A a, b \in S : a = b \/ <<a, b>> \in R \/ <<b, a>> \in R

\* The members of a finite set in a strict total order: each has the place its
\* rank tells, the number of those before it.
LEMMA InOrderLists ==
    ASSUME NEW S, IsFiniteSet(S), NEW R, IsOrder(R, S)
    PROVE  /\ InOrder(S, R) \in [1..Cardinality(S) -> S]
           /\ \A i, j \in 1..Cardinality(S) :
                i < j => <<InOrder(S, R)[i], InOrder(S, R)[j]>> \in R
           /\ \A i, j \in 1..Cardinality(S) : InOrder(S, R)[i] = InOrder(S, R)[j] => i = j
           /\ \A a \in S : \E i \in 1..Cardinality(S) : InOrder(S, R)[i] = a
<1> DEFINE n == Cardinality(S)
           under(a) == {b \in S : <<b, a>> \in R}
           count == [a \in S |-> Cardinality(under(a))]
           place == [a \in S |-> count[a] + 1]
<1>1. n \in Nat
  BY FS_CardinalityType
<1>2. \A a \in S : IsFiniteSet(under(a)) /\ count[a] \in 0..(n - 1)
  <2> TAKE a \in S
  <2>1. under(a) \in SUBSET S /\ a \notin under(a)
    BY DEF IsOrder
  <2>2. IsFiniteSet(under(a)) /\ Cardinality(under(a)) <= n /\ Cardinality(under(a)) # n
    BY <2>1, FS_Subset
  <2>3. Cardinality(under(a)) \in Nat
    BY <2>2, FS_CardinalityType
  <2>4. Cardinality(under(a)) \in 0..(n - 1)
    BY <1>1, <2>2, <2>3
  <2> QED
    BY <2>2, <2>4
<1>3. ASSUME NEW a \in S, NEW b \in S, <<a, b>> \in R
      PROVE  count[a] < count[b]
  <2>1. under(a) \in SUBSET under(b)
    BY <1>3 DEF IsOrder
  <2>2. a \in under(b) /\ a \notin under(a)
    BY <1>3 DEF IsOrder
  <2>3. /\ Cardinality(under(a)) <= Cardinality(under(b))
        /\ Cardinality(under(a)) # Cardinality(under(b))
    BY <1>2, <2>1, <2>2, FS_Subset
  <2>4. count[a] <= count[b] /\ count[a] # count[b]
    BY <2>3
  <2>5. count[a] \in 0..(n - 1) /\ count[b] \in 0..(n - 1)
    BY <1>2
  <2> HIDE DEF count, n
  <2> QED
    BY <1>1, <2>4, <2>5
<1>4. \A a \in S : count[a] = Cardinality(under(a))
  OBVIOUS
<1> HIDE DEF count
<1>5. /\ \A a \in S : place[a] \in 1..n
      /\ \A a, b \in S : <<a, b>> \in R => place[a] < place[b]
      /\ \A a \in S, i \in 1..n : count[a] = i - 1 <=> place[a] = i
  <2>1. \A a \in S : place[a] = count[a] + 1 /\ count[a] \in 0..(n - 1)
    BY <1>2
  <2> HIDE DEF place, n
  <2>2. \A a \in S : place[a] \in 1..n
    BY <1>1, <2>1
  <2>3. \A a, b \in S : <<a, b>> \in R => place[a] < place[b]
    BY <1>3, <2>1
  <2>4. \A a \in S, i \in 1..n : count[a] = i - 1 <=> place[a] = i
    BY <1>1, <2>1
  <2> QED
    BY <2>2, <2>3, <2>4
<1>6. InOrder(S, R) = [i \in 1..n |-> CHOOSE a \in S : Cardinality(under(a)) = i - 1]
  BY DEF InOrder
<1> DEFINE f == InOrder(S, R)
<1> HIDE DEF place, f
<1>7. place \in [S -> 1..n]
  BY <1>5 DEF place
<1>8. \A a, b \in S : place[a] = place[b] => a = b
  <2> SUFFICES ASSUME NEW a \in S, NEW b \in S, a # b
               PROVE  place[a] # place[b]
    OBVIOUS
  <2>1. place[a] \in Nat /\ place[b] \in Nat
    BY <1>1, <1>5
  <2>2. <<a, b>> \in R \/ <<b, a>> \in R
    BY DEF IsOrder
  <2> QED
    BY <1>5, <2>1, <2>2
<1>9. place \in Injection(S, 1..n)
  BY <1>7, <1>8 DEF Injection, IsInjective
<1>10. IsFiniteSet(1..n) /\ Cardinality(1..n) = n
  BY <1>1, FS_Interval
<1>11. place \in Surjection(S, 1..n)
  BY <1>9, <1>10, FS_Injection
<1>12. \A i \in 1..n : \E a \in S : place[a] = i
  BY <1>11 DEF Surjection
<1>13. \A i \in 1..n : f[i] \in S /\ place[f[i]] = i
  <2> TAKE i \in 1..n
  <2>1. \E a \in S : Cardinality(under(a)) = i - 1
    <3>1. PICK a \in S : place[a] = i
      BY <1>12
    <3>2. Cardinality(under(a)) = i - 1
      BY <1>4, <1>5, <3>1
    <3> QED
      BY <3>2
  <2>2. f[i] \in S /\ Cardinality(under(f[i])) = i - 1
    BY <1>6, <2>1 DEF f
  <2> QED
    BY <1>4, <1>5, <2>2
<1>14. f \in [1..n -> S]
  BY <1>6, <1>13 DEF f
<1>15. \A i, j \in 1..n : i < j => <<f[i], f[j]>> \in R
  <2> SUFFICES ASSUME NEW i \in 1..n, NEW j \in 1..n, i < j, <<f[i], f[j]>> \notin R
               PROVE  FALSE
    OBVIOUS
  <2>1. f[i] \in S /\ f[j] \in S /\ place[f[i]] = i /\ place[f[j]] = j
    BY <1>13
  <2>2. f[i] = f[j] \/ <<f[j], f[i]>> \in R
    BY <2>1 DEF IsOrder
  <2>3. i = j \/ j < i
    BY <1>5, <2>1, <2>2
  <2> QED
    BY <2>3
<1>16. \A i, j \in 1..n : f[i] = f[j] => i = j
  BY <1>13
<1>17. \A a \in S : \E i \in 1..n : f[i] = a
  <2> TAKE a \in S
  <2>1. place[a] \in 1..n
    BY <1>5
  <2>2. f[place[a]] \in S /\ place[f[place[a]]] = place[a]
    BY <1>13, <2>1
  <2> QED
    BY <1>8, <2>1, <2>2
<1> QED
  BY <1>14, <1>15, <1>16, <1>17 DEF f

LEMMA IncreasingLists ==
    ASSUME NEW S \in SUBSET Int, IsFiniteSet(S)
    PROVE  LET f == InOrder(S, Increasing(S))
           IN /\ f \in [1..Cardinality(S) -> S]
              /\ \A i, j \in 1..Cardinality(S) : i < j => f[i] < f[j]
              /\ \A a \in S : \E i \in 1..Cardinality(S) : f[i] = a
<1> DEFINE R == Increasing(S)
<1>1. \A a, b \in S : <<a, b>> \in R <=> a < b
  BY DEF Increasing
<1> HIDE DEF R
<1>2. IsOrder(R, S)
  BY <1>1 DEF IsOrder
<1>3. /\ InOrder(S, R) \in [1..Cardinality(S) -> S]
      /\ \A i, j \in 1..Cardinality(S) :
           i < j => <<InOrder(S, R)[i], InOrder(S, R)[j]>> \in R
      /\ \A i, j \in 1..Cardinality(S) : InOrder(S, R)[i] = InOrder(S, R)[j] => i = j
      /\ \A a \in S : \E i \in 1..Cardinality(S) : InOrder(S, R)[i] = a
  BY <1>2, InOrderLists
<1> DEFINE f == InOrder(S, R)
<1> HIDE DEF f
<1>4. ASSUME NEW i \in 1..Cardinality(S), NEW j \in 1..Cardinality(S), i < j
      PROVE  f[i] < f[j]
  <2>1. f[i] \in S /\ f[j] \in S /\ <<f[i], f[j]>> \in R
    BY <1>3, <1>4 DEF f
  <2> QED
    BY <1>1, <2>1
<1> QED
  BY <1>3, <1>4 DEF f, R

-----------------------------------------------------------------------------
(* The bisection. *)

\* What find[w] of Bisect is, of itself.
Halve(find, at, target, w) ==
    LET mid == (w[1] + w[2]) \div 2
    IN IF w[1] >= w[2] THEN w[1]
       ELSE IF at[mid] < target THEN find[<<mid + 1, w[2]>>] ELSE find[<<w[1], mid>>]

\* The place i is the first of lo..hi that is not before the target, or hi.
IsFirst(i, at, target, lo, hi) ==
    /\ i \in lo..hi
    /\ \A k \in lo..(i - 1) : at[k] < target
    /\ i = hi \/ target <= at[i]

\* There is one such place in every window, and no other.
LEMMA FirstExists ==
    ASSUME NEW n \in Nat \ {0}, NEW at \in [1..n -> Int], NEW target \in Int,
           NEW lo \in 1..n, NEW hi \in lo..n
    PROVE  \E i \in lo..hi : IsFirst(i, at, target, lo, hi)
<1> DEFINE late == {i \in lo..hi : i = hi \/ target <= at[i]}
<1>1. late \in SUBSET Nat /\ hi \in late
  OBVIOUS
<1> HIDE DEF late
<1>2. Min(late) \in late /\ \A x \in late : Min(late) <= x
  BY <1>1, MinIsLeast
<1>3. PICK i \in late : \A x \in late : i <= x
  BY <1>2
<1>4. \A k \in lo..(i - 1) : at[k] < target
  <2> SUFFICES ASSUME NEW k \in lo..(i - 1), ~ (at[k] < target)
               PROVE  FALSE
    OBVIOUS
  <2>1. i \in lo..hi
    BY DEF late
  <2>2. k \in lo..hi /\ k \in 1..n /\ k < i
    BY <2>1
  <2>3. target <= at[k]
    BY <2>2
  <2>4. k \in late
    BY <2>2, <2>3 DEF late
  <2> QED
    BY <1>3, <2>2, <2>4, <2>1
<1> QED
  BY <1>4 DEF IsFirst, late

LEMMA FirstIsUnique ==
    ASSUME NEW n \in Nat \ {0}, NEW at \in [1..n -> Int], NEW target \in Int,
           NEW lo \in 1..n, NEW hi \in lo..n, NEW i, NEW j,
           IsFirst(i, at, target, lo, hi), IsFirst(j, at, target, lo, hi)
    PROVE  i = j
<1>1. i \in lo..hi /\ j \in lo..hi
  BY DEF IsFirst
<1>2. CASE i < j
  <2>1. at[i] < target /\ i # hi
    BY <1>1, <1>2 DEF IsFirst
  <2>2. at[i] \in Int
    BY <1>1
  <2> QED
    BY <2>1, <2>2 DEF IsFirst
<1>3. CASE j < i
  <2>1. at[j] < target /\ j # hi
    BY <1>1, <1>3 DEF IsFirst
  <2>2. at[j] \in Int
    BY <1>1
  <2> QED
    BY <2>1, <2>2 DEF IsFirst
<1> QED
  BY <1>1, <1>2, <1>3

\* Halving the window of sorted times keeps the place it is looked for.
LEMMA HalvingKeepsFirst ==
    ASSUME NEW n \in Nat \ {0}, NEW at \in [1..n -> Int], NEW target \in Int,
           \A i, k \in 1..n : i < k => at[i] < at[k],
           NEW lo \in 1..n, NEW hi \in 1..n, lo < hi,
           NEW mid, mid = (lo + hi) \div 2
    PROVE  /\ mid \in lo..(hi - 1)
           /\ \A i \in Nat : at[mid] < target /\ IsFirst(i, at, target, mid + 1, hi)
                            => IsFirst(i, at, target, lo, hi)
           /\ \A i \in Nat : ~ (at[mid] < target) /\ IsFirst(i, at, target, lo, mid)
                            => IsFirst(i, at, target, lo, hi)
<1>1. mid \in lo..(hi - 1)
  OBVIOUS
<1>2. ASSUME NEW i \in Nat, at[mid] < target, IsFirst(i, at, target, mid + 1, hi)
      PROVE  IsFirst(i, at, target, lo, hi)
  <2>1. i \in (mid + 1)..hi /\ i \in lo..hi
    BY <1>1, <1>2 DEF IsFirst
  <2>2. ASSUME NEW k \in lo..(i - 1)
        PROVE  at[k] < target
    <3>1. k \in 1..n /\ at[k] \in Int /\ at[mid] \in Int
      BY <1>1, <2>1
    <3>2. CASE k <= mid
      <4>1. at[k] <= at[mid]
        BY <1>1, <3>1, <3>2
      <4> QED
        BY <1>2, <3>1, <4>1
    <3>3. CASE ~ (k <= mid)
      <4>1. k \in (mid + 1)..(i - 1)
        BY <1>1, <3>1, <3>3
      <4> QED
        BY <1>2, <4>1 DEF IsFirst
    <3> QED
      BY <3>2, <3>3
  <2> QED
    BY <1>2, <2>1, <2>2 DEF IsFirst
<1>3. ASSUME NEW i \in Nat, ~ (at[mid] < target), IsFirst(i, at, target, lo, mid)
      PROVE  IsFirst(i, at, target, lo, hi)
  <2>1. i \in lo..mid /\ i \in lo..hi
    BY <1>1, <1>3 DEF IsFirst
  <2>2. mid \in 1..n
    BY <1>1
  <2>3. at[mid] \in Int
    BY <2>2
  <2>4. target <= at[mid]
    BY <1>3, <2>3
  <2>5. i = hi \/ target <= at[i]
    BY <1>3, <2>4 DEF IsFirst
  <2> QED
    BY <1>3, <2>1, <2>5 DEF IsFirst
<1> QED
  BY <1>1, <1>2, <1>3

\* The bisection ends: a function with the recursion of find exists.
LEMMA HalvingIsDefined ==
    ASSUME NEW n \in Nat \ {0}, NEW at \in [1..n -> Int], NEW target \in Int,
           \A i, k \in 1..n : i < k => at[i] < at[k]
    PROVE  \E find : find = [w \in (1..n) \X (1..n) |-> Halve(find, at, target, w)]
<1> DEFINE first(lo, hi) == CHOOSE i : IsFirst(i, at, target, lo, hi)
           find == [w \in (1..n) \X (1..n) |->
                      IF w[1] >= w[2] THEN w[1] ELSE first(w[1], w[2])]
<1>1. ASSUME NEW lo \in 1..n, NEW hi \in lo..n
      PROVE  find[<<lo, hi>>] \in Nat /\ IsFirst(find[<<lo, hi>>], at, target, lo, hi)
  <2>1. CASE lo = hi
    <3>1. find[<<lo, hi>>] = lo
      BY <2>1
    <3> QED
      BY <2>1, <3>1 DEF IsFirst
  <2>2. CASE lo < hi
    <3>1. \E i : IsFirst(i, at, target, lo, hi)
      BY FirstExists
    <3>2. IsFirst(first(lo, hi), at, target, lo, hi)
      BY <3>1
    <3>3. find[<<lo, hi>>] = first(lo, hi)
      BY <2>2
    <3> HIDE DEF find, first
    <3>4. first(lo, hi) \in Nat
      BY <3>2 DEF IsFirst
    <3> QED
      BY <3>2, <3>3, <3>4
  <2> QED
    BY <2>1, <2>2
<1>2. \A lo, hi \in 1..n : lo >= hi => find[<<lo, hi>>] = lo
  OBVIOUS
<1>3. find = [w \in (1..n) \X (1..n) |-> find[w]]
  OBVIOUS
<1> HIDE DEF find
<1>4. ASSUME NEW lo \in 1..n, NEW hi \in 1..n
      PROVE  find[<<lo, hi>>] = Halve(find, at, target, <<lo, hi>>)
  <2>1. CASE lo >= hi
    BY <1>2, <2>1 DEF Halve
  <2>2. CASE lo < hi
    <3> DEFINE mid == (lo + hi) \div 2
               more == mid + 1
               half == IF at[mid] < target THEN find[<<mid + 1, hi>>] ELSE find[<<lo, mid>>]
    <3>1. mid \in lo..(hi - 1)
      BY <2>2
    <3>2. Halve(find, at, target, <<lo, hi>>) = half
      BY <2>2 DEF Halve
    <3>3. more \in 1..n /\ hi \in more..n /\ mid \in lo..n
      BY <3>1
    <3> HIDE DEF mid, more
    <3>4. find[<<more, hi>>] \in Nat /\ IsFirst(find[<<more, hi>>], at, target, more, hi)
      BY <3>3, <1>1
    <3>5. /\ find[<<mid + 1, hi>>] \in Nat
          /\ IsFirst(find[<<mid + 1, hi>>], at, target, mid + 1, hi)
      BY <3>4 DEF more
    <3>6. find[<<lo, mid>>] \in Nat /\ IsFirst(find[<<lo, mid>>], at, target, lo, mid)
      BY <3>3, <1>1
    <3>7. mid = (lo + hi) \div 2
      BY DEF mid
    <3>8. IsFirst(half, at, target, lo, hi)
      BY <2>2, <3>5, <3>6, <3>7, HalvingKeepsFirst
    <3>9. IsFirst(find[<<lo, hi>>], at, target, lo, hi)
      BY <2>2, <1>1
    <3> HIDE DEF half
    <3>10. hi \in lo..n
      BY <2>2
    <3>11. find[<<lo, hi>>] = half
      BY <3>8, <3>9, <3>10, FirstIsUnique
    <3> QED
      BY <3>2, <3>11
  <2> QED
    BY <2>1, <2>2
<1>5. \A w \in (1..n) \X (1..n) : find[w] = Halve(find, at, target, w)
  <2> TAKE w \in (1..n) \X (1..n)
  <2>1. PICK lo \in 1..n, hi \in 1..n : w = <<lo, hi>>
    OBVIOUS
  <2> QED
    BY <1>4, <2>1
<1> QED
  BY <1>3, <1>5

\* It finds the first time that is not before the target: a shortest window in
\* which it would not has a half in which it would not.
LEMMA BisectFindsFirst ==
    ASSUME NEW n \in Nat \ {0}, NEW at \in [1..n -> Int], NEW target \in Int,
           \A i, k \in 1..n : i < k => at[i] < at[k]
    PROVE  IsFirst(Bisect(at, n, target), at, target, 1, n)
<1> DEFINE find == CHOOSE f : f = [w \in (1..n) \X (1..n) |-> Halve(f, at, target, w)]
<1>1. find = [w \in (1..n) \X (1..n) |-> Halve(find, at, target, w)]
  BY HalvingIsDefined
<1>2. Bisect(at, n, target) = find[<<1, n>>]
  BY DEF Bisect, Halve
<1> HIDE DEF find
<1>3. \A lo, hi \in 1..n : find[<<lo, hi>>] = Halve(find, at, target, <<lo, hi>>)
  BY <1>1
<1> DEFINE wrong == {w \in (1..n) \X (1..n) :
                       w[1] <= w[2] /\ ~ IsFirst(find[w], at, target, w[1], w[2])}
           sizes == {w[2] - w[1] : w \in wrong}
<1>4. wrong = {}
  <2> SUFFICES ASSUME wrong # {}
               PROVE  FALSE
    OBVIOUS
  <2>1. \A w \in wrong : w[2] - w[1] \in Nat /\ w[2] - w[1] \in sizes
    <3> TAKE w \in wrong
    <3>1. w[1] \in 1..n /\ w[2] \in 1..n /\ w[1] <= w[2]
      OBVIOUS
    <3>2. w[2] - w[1] \in sizes
      OBVIOUS
    <3> HIDE DEF wrong, sizes
    <3>3. w[2] - w[1] \in Nat
      BY <3>1
    <3> QED
      BY <3>2, <3>3
  <2>2. sizes \in SUBSET Nat /\ sizes # {}
    BY <2>1
  <2>3. Min(sizes) \in sizes /\ \A d \in sizes : Min(sizes) <= d
    BY <2>2, MinIsLeast
  <2>4. PICK w \in wrong : Min(sizes) = w[2] - w[1]
    BY <2>3
  <2>5. PICK lo \in 1..n, hi \in 1..n : w = <<lo, hi>>
    OBVIOUS
  <2>6. lo <= hi /\ ~ IsFirst(find[<<lo, hi>>], at, target, lo, hi)
    BY <2>5
  <2>7. ASSUME NEW l \in 1..n, NEW h \in 1..n, l <= h, h - l < hi - lo
        PROVE  IsFirst(find[<<l, h>>], at, target, l, h)
    <3> SUFFICES ASSUME ~ IsFirst(find[<<l, h>>], at, target, l, h)
                 PROVE  FALSE
      OBVIOUS
    <3>1. <<l, h>> \in wrong
      BY <2>7
    <3>2. h - l \in sizes
      BY <2>1, <3>1
    <3>3. hi - lo <= h - l
      BY <2>3, <2>4, <2>5, <3>2
    <3> QED
      BY <2>7, <3>3
  <2> HIDE DEF wrong, sizes
  <2>8. CASE lo = hi
    <3>1. Halve(find, at, target, <<lo, hi>>) = lo
      BY <2>8 DEF Halve
    <3>2. find[<<lo, hi>>] = lo
      BY <1>3, <3>1
    <3> QED
      BY <2>6, <2>8, <3>2 DEF IsFirst
  <2>9. CASE lo < hi
    <3> DEFINE mid == (lo + hi) \div 2
    <3>1. mid \in lo..(hi - 1)
      BY <2>9
    <3>2. find[<<lo, hi>>] = IF at[mid] < target THEN find[<<mid + 1, hi>>] ELSE find[<<lo, mid>>]
      BY <1>3, <2>9 DEF Halve
    <3> DEFINE more == mid + 1
    <3>3. /\ more \in 1..n /\ more <= hi /\ hi - more < hi - lo
          /\ mid \in 1..n /\ lo <= mid /\ mid - lo < hi - lo
      BY <2>9, <3>1
    <3> HIDE DEF more
    <3>4. IsFirst(find[<<more, hi>>], at, target, more, hi)
      BY <3>3, <2>7
    <3>5. IsFirst(find[<<mid + 1, hi>>], at, target, mid + 1, hi)
      BY <3>4 DEF more
    <3>6. IsFirst(find[<<lo, mid>>], at, target, lo, mid)
      BY <3>3, <2>7
    <3> HIDE DEF mid
    <3>7. find[<<mid + 1, hi>>] \in Nat /\ find[<<lo, mid>>] \in Nat
      <4>1. find[<<mid + 1, hi>>] \in (mid + 1)..hi /\ find[<<lo, mid>>] \in lo..mid
        BY <3>5, <3>6 DEF IsFirst
      <4>2. (mid + 1)..hi \subseteq Nat /\ lo..mid \subseteq Nat
        BY <3>1
      <4> QED
        BY <4>1, <4>2, Zenon
    <3>8. mid = (lo + hi) \div 2
      BY DEF mid
    <3>9. IsFirst(find[<<lo, hi>>], at, target, lo, hi)
      BY <2>9, <3>2, <3>5, <3>6, <3>7, <3>8, HalvingKeepsFirst
    <3> QED
      BY <2>6, <3>9
  <2> QED
    BY <2>6, <2>8, <2>9
<1>5. <<1, n>> \in (1..n) \X (1..n)
  OBVIOUS
<1>6. IsFirst(find[<<1, n>>], at, target, 1, n)
  BY <1>4, <1>5
<1> QED
  BY <1>2, <1>6

\* How far two times are from each other.
Distance(t, u) == IF t < u THEN u - t ELSE t - u

\* Of the time at the place found and the one before it, the one Snap takes.
Nearer(at, lo, target) ==
    IF lo > 1 /\ target - at[lo - 1] <= at[lo] - target THEN at[lo - 1] ELSE at[lo]

\* The place found, or the one before it, holds a time no other is nearer than.
LEMMA NeighboursAreNearest ==
    ASSUME NEW n \in Nat \ {0}, NEW at \in [1..n -> Int], NEW target \in Int,
           \A i, k \in 1..n : i < k => at[i] < at[k],
           NEW lo, IsFirst(lo, at, target, 1, n)
    PROVE  LET t == Nearer(at, lo, target)
           IN /\ \E i \in 1..n : t = at[i]
              /\ \A k \in 1..n : Distance(t, target) <= Distance(at[k], target)
<1> DEFINE t == Nearer(at, lo, target)
<1>1. t = IF lo > 1 /\ target - at[lo - 1] <= at[lo] - target THEN at[lo - 1] ELSE at[lo]
  BY DEF Nearer
<1> HIDE DEF t
<1>2. lo \in 1..n
  BY DEF IsFirst
<1>3. PICK i \in 1..n : /\ t = at[i]
                        /\ i = lo \/ i = lo - 1
  <2>1. CASE lo > 1 /\ target - at[lo - 1] <= at[lo] - target
    <3>1. lo - 1 \in 1..n
      BY <1>2, <2>1
    <3> QED
      BY <1>1, <2>1, <3>1
  <2>2. CASE ~ (lo > 1 /\ target - at[lo - 1] <= at[lo] - target)
    BY <1>2, <1>1, <2>2
  <2> QED
    BY <2>1, <2>2
<1>4. ASSUME NEW k \in 1..n
      PROVE  Distance(t, target) <= Distance(at[k], target)
  <2>1. at[lo] \in Int /\ at[k] \in Int /\ t \in Int
    BY <1>2, <1>3
  <2>2. CASE k >= lo
    <3>1. at[lo] <= at[k]
      BY <1>2, <2>1, <2>2
    <3>2. CASE target <= at[lo]
      <4>1. CASE t = at[lo]
        BY <2>1, <3>1, <3>2, <4>1 DEF Distance
      <4>2. CASE lo > 1 /\ target - at[lo - 1] <= at[lo] - target
        <5>1. lo - 1 \in 1..n /\ lo - 1 < lo
          BY <1>2, <4>2
        <5>2. at[lo - 1] \in Int /\ (lo - 1 \in 1..n => at[lo - 1] < at[lo])
          BY <1>2, <5>1
        <5>3. t = at[lo - 1] /\ (target - t) <= at[lo] - target
          BY <1>1, <4>2
        <5>4. t \in Int /\ t < at[lo]
          BY <5>1, <5>2, <5>3
        <5>5. Distance(t, target) = target - t \/ Distance(t, target) = t - target
          BY DEF Distance
        <5>6. t - target <= at[lo] - target
          BY <2>1, <5>4
        <5>7. Distance(t, target) <= at[lo] - target
          BY <5>3, <5>5, <5>6
        <5>8. Distance(at[k], target) = at[k] - target
          BY <2>1, <3>1, <3>2 DEF Distance
        <5>9. Distance(t, target) \in Nat
          BY <2>1 DEF Distance
        <5> QED
          BY <2>1, <3>1, <5>7, <5>8, <5>9
      <4> QED
        BY <1>1, <4>1, <4>2
    <3>3. CASE ~ (target <= at[lo])
      <4>1. lo = n
        BY <3>3 DEF IsFirst
      <4>2. k = lo
        BY <1>2, <2>2, <4>1
      <4>3. t = at[lo]
        <5> SUFFICES ASSUME lo > 1, target - at[lo - 1] <= at[lo] - target
                     PROVE  FALSE
          BY <1>1
        <5>1. lo - 1 \in 1..n /\ lo - 1 < lo
          BY <1>2
        <5>2. at[lo - 1] \in Int /\ at[lo - 1] < at[lo]
          BY <1>2, <5>1
        <5> QED
          BY <2>1, <3>3, <5>2
      <4> QED
        BY <4>2, <4>3, <2>1 DEF Distance
    <3> QED
      BY <3>2, <3>3
  <2>3. CASE k < lo
    <3>1. lo > 1 /\ lo - 1 \in 1..n /\ lo - 1 < lo /\ k \in 1..(lo - 1)
      BY <1>2, <2>3
    <3>2. at[lo - 1] \in Int /\ at[lo - 1] < at[lo]
      BY <1>2, <3>1
    <3>3. at[lo - 1] < target /\ at[k] < target
      BY <3>1 DEF IsFirst
    <3>4. at[k] <= at[lo - 1]
      <4>1. CASE k = lo - 1
        BY <2>1, <4>1
      <4>2. CASE k < lo - 1
        BY <2>1, <3>1, <3>2, <4>2
      <4> QED
        BY <3>1, <4>1, <4>2
    <3>5. CASE target - at[lo - 1] <= at[lo] - target
      <4>1. t = at[lo - 1]
        BY <1>1, <3>1, <3>5
      <4>2. Distance(t, target) = target - t
        BY <2>1, <3>3, <4>1 DEF Distance
      <4>3. Distance(at[k], target) = target - at[k]
        BY <2>1, <3>3 DEF Distance
      <4> QED
        BY <2>1, <3>4, <4>1, <4>2, <4>3
    <3>6. CASE ~ (target - at[lo - 1] <= at[lo] - target)
      <4>1. t = at[lo]
        BY <1>1, <3>6
      <4>2. t - target < target - at[lo - 1] /\ at[lo - 1] < t
        BY <2>1, <3>2, <3>6, <4>1
      <4>3. Distance(t, target) \in {target - t, t - target}
        BY DEF Distance
      <4>4. Distance(at[k], target) = target - at[k]
        BY <2>1, <3>3 DEF Distance
      <4>5. target - t <= target - at[k] /\ t - target <= target - at[k]
        BY <2>1, <3>2, <3>4, <4>2
      <4> QED
        BY <4>3, <4>4, <4>5
    <3> QED
      BY <3>5, <3>6
  <2> QED
    BY <1>2, <2>2, <2>3
<1> QED
  BY <1>3, <1>4 DEF t

\* snapToCandle finds a candle no other is nearer than.
LEMMA SnapIsNearest ==
    ASSUME NEW times \in SUBSET Int, IsFiniteSet(times), times # {}, NEW target \in Int
    PROVE  /\ Snap(target, times) \in times
           /\ \A t \in times : Distance(Snap(target, times), target) <= Distance(t, target)
<1> DEFINE n == Cardinality(times)
           at == InOrder(times, Increasing(times))
           lo == Bisect(at, n, target)
           t == Nearer(at, lo, target)
<1>1. n \in Nat \ {0}
  BY FS_CardinalityType, FS_EmptySet
<1>2. Snap(target, times) = t
  BY DEF Snap, Nearer
<1> HIDE DEF n, at
<1>3. /\ at \in [1..n -> times]
      /\ \A i, k \in 1..n : i < k => at[i] < at[k]
      /\ \A u \in times : \E i \in 1..n : at[i] = u
  BY IncreasingLists DEF n, at
<1>4. at \in [1..n -> Int]
  BY <1>3
<1>5. IsFirst(lo, at, target, 1, n)
  BY <1>1, <1>3, <1>4, BisectFindsFirst
<1> HIDE DEF lo
<1>6. /\ \E i \in 1..n : t = at[i]
      /\ \A k \in 1..n : Distance(t, target) <= Distance(at[k], target)
  BY <1>1, <1>3, <1>4, <1>5, NeighboursAreNearest
<1> HIDE DEF t
<1> QED
  BY <1>2, <1>3, <1>6

-----------------------------------------------------------------------------
(* The markers. *)

\* What ChartTellsTheJob says of the markers of a file on candles.
TellsAll(markers, file, times) ==
    LET rows == [i \in DOMAIN markers |-> markers[i].row]
    IN /\ \A row \in Range(file) :
            Cardinality({i \in DOMAIN rows : rows[i] = row}) =
            IF row.ok THEN Cardinality({i \in DOMAIN file : file[i] = row}) ELSE 0
       /\ Range(rows) \subseteq Range(file)
       /\ \A i, k \in DOMAIN rows : i < k => rows[i].time <= rows[k].time
       /\ \A i \in DOMAIN rows : \A t \in times :
            Distance(rows[i].time, markers[i].at) <= Distance(rows[i].time, t)

\* The places of a file, and those of the rows that hold.
LEMMA FilePlaces ==
    ASSUME NEW file \in Seq([time : Int, ok : BOOLEAN])
    PROVE  /\ Len(file) \in Nat /\ DOMAIN file = 1..Len(file)
           /\ \A p \in DOMAIN file : p \in Nat /\ file[p].time \in Int /\ file[p].ok \in BOOLEAN
           /\ ParseOrders(file) \subseteq DOMAIN file
           /\ \A p \in DOMAIN file : p \in ParseOrders(file) <=> file[p].ok
<1> DEFINE Rows == [time : Int, ok : BOOLEAN]
<1>1. file \in Seq(Rows)
  OBVIOUS
<1> HIDE DEF Rows
<1>2. Len(file) \in Nat /\ DOMAIN file = 1..Len(file) /\ \A p \in DOMAIN file : file[p] \in Rows
  BY <1>1
<1>3. \A p \in DOMAIN file : p \in Nat
  BY <1>2
<1> USE DEF Rows
<1>4. \A p \in DOMAIN file : file[p].time \in Int /\ file[p].ok \in BOOLEAN
  BY <1>2
<1> QED
  BY <1>2, <1>3, <1>4 DEF ParseOrders

\* The rows that hold in the order of their times, the earlier place first.
LEMMA EarlierLists ==
    ASSUME NEW file \in Seq([time : Int, ok : BOOLEAN])
    PROVE  LET places == InOrder(ParseOrders(file), Earlier(file))
               n == Cardinality(ParseOrders(file))
           IN /\ n \in Nat
              /\ places \in [1..n -> ParseOrders(file)]
              /\ \A i, k \in 1..n : i < k => file[places[i]].time <= file[places[k]].time
              /\ \A i, k \in 1..n : places[i] = places[k] => i = k
              /\ \A p \in ParseOrders(file) : \E i \in 1..n : places[i] = p
<1> DEFINE S == ParseOrders(file)
           R == Earlier(file)
           n == Cardinality(S)
           places == InOrder(S, R)
<1>1. S \in SUBSET (1..Len(file)) /\ \A p \in S : p \in Nat /\ file[p].time \in Int
  BY FilePlaces
<1>2. IsFiniteSet(S) /\ n \in Nat
  <2>1. Len(file) \in Nat
    OBVIOUS
  <2>2. IsFiniteSet(1..Len(file))
    BY <2>1, FS_Interval
  <2>3. IsFiniteSet(S)
    BY <1>1, <2>2, FS_Subset
  <2> QED
    BY <2>3, FS_CardinalityType
<1> DEFINE time == [p \in S |-> file[p].time]
<1>3. /\ \A a \in S : a \in Nat /\ time[a] \in Int
      /\ \A a, b \in S : <<a, b>> \in R <=> \/ time[a] < time[b]
                                            \/ time[a] = time[b] /\ a < b
  BY <1>1 DEF Earlier
<1> HIDE DEF S, R, time
<1>4. IsOrder(R, S)
  <2>1. ASSUME NEW a \in S, NEW b \in S, NEW c \in S, <<a, b>> \in R, <<b, c>> \in R
        PROVE  <<a, c>> \in R
    <3>1. /\ time[a] \in Int /\ time[b] \in Int /\ time[c] \in Int
          /\ a \in Nat /\ b \in Nat /\ c \in Nat
      BY <1>3
    <3>2. /\ time[a] < time[b] \/ (time[a] = time[b] /\ a < b)
          /\ time[b] < time[c] \/ (time[b] = time[c] /\ b < c)
      BY <1>3, <2>1
    <3>3. time[a] < time[c] \/ (time[a] = time[c] /\ a < c)
      BY <3>1, <3>2
    <3> QED
      BY <1>3, <3>3
  <2>2. ASSUME NEW a \in S
        PROVE  <<a, a>> \notin R
    BY <1>3
  <2>3. ASSUME NEW a \in S, NEW b \in S
        PROVE  a = b \/ <<a, b>> \in R \/ <<b, a>> \in R
    <3>1. time[a] \in Int /\ time[b] \in Int /\ a \in Nat /\ b \in Nat
      BY <1>3
    <3>2. \/ a = b
          \/ time[a] < time[b] \/ (time[a] = time[b] /\ a < b)
          \/ time[b] < time[a] \/ (time[b] = time[a] /\ b < a)
      BY <3>1
    <3> QED
      BY <1>3, <3>2
  <2> QED
    BY <2>1, <2>2, <2>3 DEF IsOrder
<1>5. /\ InOrder(S, R) \in [1..Cardinality(S) -> S]
      /\ \A i, j \in 1..Cardinality(S) : i < j => <<InOrder(S, R)[i], InOrder(S, R)[j]>> \in R
      /\ \A i, j \in 1..Cardinality(S) : InOrder(S, R)[i] = InOrder(S, R)[j] => i = j
      /\ \A a \in S : \E i \in 1..Cardinality(S) : InOrder(S, R)[i] = a
  BY <1>2, <1>4, InOrderLists
<1> HIDE DEF places, n
<1>6. ASSUME NEW i \in 1..n, NEW k \in 1..n, i < k
      PROVE  file[places[i]].time <= file[places[k]].time
  <2>1. places[i] \in S /\ places[k] \in S /\ <<places[i], places[k]>> \in R
    BY <1>5, <1>6 DEF places, n
  <2>2. time[places[i]] <= time[places[k]]
    BY <1>3, <2>1
  <2> QED
    BY <2>1, <2>2 DEF time
<1> QED
  BY <1>2, <1>5, <1>6 DEF places, n, S, R

\* Each row that holds has as many markers as the file has it, the others none;
\* they are in order of time, each on a candle no other is nearer than.
LEMMA MarkersTell ==
    ASSUME NEW file \in Seq([time : Int, ok : BOOLEAN]),
           NEW times \in SUBSET Int, IsFiniteSet(times), times # {}
    PROVE  TellsAll(Markers(file, times), file, times)
<1> DEFINE S == ParseOrders(file)
           n == Cardinality(S)
           places == InOrder(S, Earlier(file))
           markers == Markers(file, times)
           rows == [i \in DOMAIN markers |-> markers[i].row]
<1>1. /\ n \in Nat
      /\ places \in [1..n -> S]
      /\ \A i, k \in 1..n : i < k => file[places[i]].time <= file[places[k]].time
      /\ \A i, k \in 1..n : places[i] = places[k] => i = k
      /\ \A p \in S : \E i \in 1..n : places[i] = p
  BY EarlierLists
<1>2. /\ Len(file) \in Nat /\ DOMAIN file = 1..Len(file)
      /\ \A p \in DOMAIN file : p \in Nat /\ file[p].time \in Int /\ file[p].ok \in BOOLEAN
      /\ S \subseteq DOMAIN file
      /\ \A p \in DOMAIN file : p \in S <=> file[p].ok
  BY FilePlaces
<1>3. markers = [i \in DOMAIN places |-> [row |-> file[places[i]],
                                          at |-> Snap(file[places[i]].time, times)]]
  BY DEF Markers
<1> HIDE DEF S, n, places, markers
<1>4. /\ DOMAIN markers = 1..n
      /\ \A i \in 1..n : markers[i].row = file[places[i]]
      /\ \A i \in 1..n : markers[i].at = Snap(file[places[i]].time, times)
  BY <1>1, <1>3
<1>5. DOMAIN rows = 1..n /\ \A i \in 1..n : rows[i] = file[places[i]]
  BY <1>4
<1> HIDE DEF rows
<1>6. ASSUME NEW row \in Range(file)
      PROVE  Cardinality({i \in DOMAIN rows : rows[i] = row}) =
             IF row.ok THEN Cardinality({i \in DOMAIN file : file[i] = row}) ELSE 0
  <2> DEFINE shown == {i \in DOMAIN rows : rows[i] = row}
             held == {i \in DOMAIN file : file[i] = row}
  <2>1. shown = {i \in 1..n : file[places[i]] = row}
    BY <1>5
  <2>2. row.ok \in BOOLEAN
    BY <1>2 DEF Range
  <2> HIDE DEF shown
  <2>3. CASE row.ok
    <3> DEFINE g == [i \in shown |-> places[i]]
    <3>1. \A i \in shown : i \in 1..n /\ places[i] \in held
      BY <1>1, <1>2, <2>1
    <3>2. \A p \in held : p \in S
      BY <1>2, <2>3
    <3>3. \A p \in held : \E i \in shown : places[i] = p
      <4> TAKE p \in held
      <4>1. PICK i \in 1..n : places[i] = p
        BY <1>1, <3>2
      <4>2. i \in shown
        BY <2>1, <4>1
      <4> QED
        BY <4>1, <4>2
    <3>4. \A i, k \in shown : places[i] = places[k] => i = k
      BY <1>1, <3>1
    <3> HIDE DEF held
    <3>5. g \in [shown -> held] /\ \A i \in shown : g[i] = places[i]
      BY <3>1
    <3> HIDE DEF g
    <3>6. g \in Bijection(shown, held)
      <4>1. \A a, b \in shown : g[a] = g[b] => a = b
        BY <3>4, <3>5
      <4>2. \A t \in held : \E s \in shown : g[s] = t
        BY <3>3, <3>5
      <4> QED
        BY <3>5, <4>1, <4>2, Fun_IsBij
    <3>7. ExistsBijection(shown, held)
      BY <3>6 DEF ExistsBijection
    <3>8. IsFiniteSet(shown)
      <4>1. shown \in SUBSET (1..n)
        BY <2>1
      <4>2. IsFiniteSet(1..n)
        BY <1>1, FS_Interval
      <4> QED
        BY <4>1, <4>2, FS_Subset
    <3>9. Cardinality(held) = Cardinality(shown)
      BY <3>7, <3>8, FS_Bijection
    <3> QED
      BY <2>3, <3>9 DEF shown, held
  <2>4. CASE ~ row.ok
    <3>1. \A i \in 1..n : file[places[i]] # row
      <4> TAKE i \in 1..n
      <4>1. file[places[i]].ok
        BY <1>1, <1>2
      <4> QED
        BY <2>4, <4>1
    <3>2. shown = {}
      BY <2>1, <3>1
    <3>3. Cardinality(shown) = 0
      BY <3>2, FS_EmptySet
    <3> QED
      BY <2>4, <3>3 DEF shown
  <2> QED
    BY <2>2, <2>3, <2>4
<1>7. Range(rows) \subseteq Range(file)
  BY <1>1, <1>2, <1>5 DEF Range
<1>8. ASSUME NEW i \in DOMAIN rows, NEW k \in DOMAIN rows, i < k
      PROVE  rows[i].time <= rows[k].time
  BY <1>1, <1>5, <1>8, SMTT(30)
<1>9. ASSUME NEW i \in DOMAIN rows, NEW t \in times
      PROVE  Distance(rows[i].time, markers[i].at) <= Distance(rows[i].time, t)
  <2> DEFINE time == rows[i].time
             at == markers[i].at
  <2>1. time \in Int /\ at = Snap(time, times)
    BY <1>1, <1>2, <1>4, <1>5
  <2> HIDE DEF time, at
  <2>2. at \in times /\ \A u \in times : Distance(at, time) <= Distance(u, time)
    BY <2>1, SnapIsNearest
  <2>3. at \in Int /\ t \in Int
    BY <2>2
  <2>4. Distance(at, time) = Distance(time, at) /\ Distance(t, time) = Distance(time, t)
    BY <2>1, <2>3 DEF Distance
  <2>5. Distance(time, at) <= Distance(time, t)
    BY <2>2, <2>4
  <2> QED
    BY <2>5 DEF time, at
<1> QED
  BY <1>6, <1>7, <1>8, <1>9 DEF TellsAll, rows, markers

-----------------------------------------------------------------------------
(* The inductive invariant. *)

\* The manager has the jobs submitted; the panel shows, asks for and waits for
\* none but those.
JobsNumbered ==
    /\ submitted \in 0..MaxJobs
    /\ status \in [JobIds -> Manager!Statuses]
    /\ answers \subseteq 1..submitted
    /\ active # None => active \in 1..submitted
    /\ flight => active \in 1..submitted

\* There is a chart once the data of the job shown say it is completed, as it
\* stays until it is forgotten.  A chart that is drawn is of that job: its markers
\* are those of a file and of candles the manager has answered with.
ChartIsOfJob ==
    /\ chart.st # "off" =>
         /\ data = "completed"
         /\ active \in 1..submitted
         /\ status[active] \in {"completed", "absent"}
    /\ chart.st = "drawn" =>
         /\ chart.job = active
         /\ chart.file \in Files \cup {<<>>}
         /\ chart.times \in Candles /\ chart.times # {}
         /\ chart.markers = Markers(chart.file, chart.times)

\* A configuration of a strategy for an exchange: at the places of its fields, and
\* with bounds the user has entered or that come from a price there.
Fits(config, s, x, loaded) ==
    /\ DOMAIN config \subseteq {Home(f) : f \in Fields(s, loaded)} \cup
                               {Flat(f) : f \in Fields(s, loaded)}
    /\ \A p \in DOMAIN config :
          p[2] \in BoundKeys => config[p] \in Range(MarketsOf[x]) \cup Values

PanelFits ==
    /\ registry \in BOOLEAN /\ None \notin priced
    /\ DOMAIN panel = {"strategy", "exchange", "raw", "config"}
    /\ panel.strategy \in Strategies /\ panel.exchange \in Exchanges
    /\ Fits(panel.config, panel.strategy, panel.exchange, registry)

-----------------------------------------------------------------------------
(* The chart. *)

LEMMA NumbersInit == Init => JobsNumbered /\ ChartIsOfJob
<1> SUFFICES ASSUME Init PROVE JobsNumbered /\ ChartIsOfJob
  OBVIOUS
<1>1. submitted \in 0..MaxJobs
  BY ScreenAssumption DEF Init
<1>2. status \in [JobIds -> Manager!Statuses]
  BY DEF Init, Manager!Init, Manager!Statuses
<1>3. answers = {} /\ ~(active # None) /\ ~flight /\ chart.st = "off"
  BY DEF Init
<1> QED
  BY <1>1, <1>2, <1>3 DEF JobsNumbered, ChartIsOfJob

\* A job that is finished stays so, or is forgotten.
LEMMA StatusMoves ==
    ASSUME status \in [JobIds -> Manager!Statuses],
           \/ JobMoves \/ ManagerRestarts \/ JobForgotten
    PROVE  /\ status' \in [JobIds -> Manager!Statuses]
           /\ \A j \in JobIds : status[j] \in {"completed", "absent"}
                                => status'[j] \in {"completed", "absent"}
<1> USE DEF Manager!Statuses, Manager!Unfinished, Manager!Terminal
<1>1. CASE JobMoves
  <2>1. PICK j \in JobIds : Manager!Advance(j) \/ Manager!Fail(j) \/ Manager!Complete(j)
    BY <1>1 DEF JobMoves
  <2>2. CASE Manager!Advance(j)
    BY <2>2 DEF Manager!Advance
  <2>3. CASE Manager!Fail(j)
    BY <2>3 DEF Manager!Fail
  <2>4. CASE Manager!Complete(j)
    BY <2>4 DEF Manager!Complete
  <2> QED
    BY <2>1, <2>2, <2>3, <2>4
<1>2. CASE ManagerRestarts
  BY <1>2 DEF ManagerRestarts, Manager!Interrupt
<1>3. CASE JobForgotten
  BY <1>3 DEF JobForgotten, Manager!Prune
<1> QED
  BY <1>1, <1>2, <1>3

\* What leaves the jobs, the polling and the chart as they are.
Elsewhere ==
    /\ answers' \subseteq answers
    /\ UNCHANGED <<status, submitted, active, data, flight, chart>>

LEMMA ElsewhereKeeps ==
    JobsNumbered /\ ChartIsOfJob /\ Elsewhere => JobsNumbered' /\ ChartIsOfJob'
  BY DEF JobsNumbered, ChartIsOfJob, Elsewhere

LEMMA MostIsElsewhere ==
    \/ HandleStrategyChange \/ ChooseExchange \/ HandleSymbolChange \/ EditField
    \/ SubmitFails \/ HandleDownload \/ DownloadEnds
    \/ RegistryArrives \/ SymbolsArrive \/ TickerArrives \/ UNCHANGED vars
    => Elsewhere
<1> USE DEF Elsewhere, known, jobs, poll, sent
<1>1. ASSUME NEW p, Edit(p)
      PROVE  Elsewhere
  BY <1>1 DEF Edit
<1>2. HandleStrategyChange \/ ChooseExchange \/ HandleSymbolChange \/ EditField => Elsewhere
  BY <1>1 DEF HandleStrategyChange, ChooseExchange, HandleSymbolChange, EditField
<1>3. SubmitFails => Elsewhere
  BY DEF SubmitFails
<1>4. HandleDownload \/ DownloadEnds => Elsewhere
  BY DEF HandleDownload, DownloadEnds
<1>5. RegistryArrives \/ SymbolsArrive \/ TickerArrives => Elsewhere
  BY DEF RegistryArrives, SymbolsArrive, TickerArrives
<1>6. UNCHANGED vars => Elsewhere
  BY DEF vars
<1> QED
  BY <1>2, <1>3, <1>4, <1>5, <1>6

LEMMA ChartStep == JobsNumbered /\ ChartIsOfJob /\ [Next]_vars => JobsNumbered' /\ ChartIsOfJob'
<1> SUFFICES ASSUME JobsNumbered, ChartIsOfJob, [Next]_vars
             PROVE  JobsNumbered' /\ ChartIsOfJob'
  OBVIOUS
<1> USE DEF known, jobs, poll, sent
<1>1. /\ submitted \in 0..MaxJobs /\ MaxJobs \in Nat
      /\ status \in [JobIds -> Manager!Statuses]
      /\ answers \subseteq 1..submitted
      /\ active # None => active \in 1..submitted
      /\ flight => active \in 1..submitted
      /\ 1..submitted \subseteq JobIds
  BY ScreenAssumption DEF JobsNumbered, JobIds
<1>2. CASE Elsewhere
  BY <1>2, ElsewhereKeeps
<1>3. CASE HandleSubmit
  <2>1. UNCHANGED <<active, data, flight, chart>>
    BY <1>3 DEF HandleSubmit
  <2>2. CASE UNCHANGED <<answers, jobs>>
    BY <2>1, <2>2, ElsewhereKeeps DEF Elsewhere
  <2>3. CASE /\ submitted < MaxJobs
             /\ submitted' = submitted + 1
             /\ Manager!Submit(submitted + 1)
             /\ answers' = answers \cup {submitted + 1}
    <3>1. submitted' \in 0..MaxJobs /\ submitted + 1 \in JobIds
      BY <1>1, <2>3 DEF JobIds
    <3>2. answers' \subseteq 1..submitted' /\ 1..submitted \subseteq 1..submitted'
      BY <1>1, <2>3
    <3>3. /\ status' \in [JobIds -> Manager!Statuses]
          /\ \A j \in JobIds : j # submitted + 1 => status'[j] = status[j]
      BY <1>1, <2>3, <3>1
      DEF Manager!Submit, Manager!Statuses, Manager!Unfinished, Manager!Terminal
    <3>4. \A j \in 1..submitted : status'[j] = status[j]
      BY <1>1, <3>3
    <3>5. JobsNumbered'
      BY <1>1, <2>1, <3>1, <3>2, <3>3 DEF JobsNumbered
    <3>6. ChartIsOfJob'
      BY <2>1, <3>2, <3>4 DEF ChartIsOfJob
    <3> QED
      BY <3>5, <3>6
  <2> QED
    BY <1>3, <2>2, <2>3 DEF HandleSubmit
<1>4. CASE SubmitAnswered
  <2>1. /\ answers' \subseteq answers /\ active' \in answers
        /\ chart' = [st |-> "off"] /\ UNCHANGED <<status, submitted>>
    BY <1>4 DEF SubmitAnswered
  <2>2. chart'.st = "off"
    BY <2>1
  <2> QED
    BY <1>1, <2>1, <2>2 DEF JobsNumbered, ChartIsOfJob
<1>5. CASE HandleRerun \/ Leave
  <2>1. /\ answers' \subseteq answers /\ active' = None /\ flight' = FALSE
        /\ chart' = [st |-> "off"] /\ UNCHANGED <<status, submitted>>
    BY <1>5 DEF HandleRerun, Leave, Idle
  <2>2. chart'.st = "off"
    BY <2>1
  <2> QED
    BY <1>1, <2>1, <2>2 DEF JobsNumbered, ChartIsOfJob
<1>6. CASE PollTick \/ WindowFocus
  <2>1. active # None /\ UNCHANGED <<status, submitted, answers, active, data, chart>>
    BY <1>6 DEF PollTick, WindowFocus
  <2> QED
    BY <1>1, <2>1 DEF JobsNumbered, ChartIsOfJob
<1>7. CASE PollAnswered
  <2>1. /\ flight /\ status[active] # "absent" /\ flight' = FALSE
        /\ data' = status[active]
        /\ chart' = IF data # "completed" /\ data' = "completed" THEN [st |-> "loading"] ELSE chart
        /\ UNCHANGED <<status, submitted, answers, active>>
    BY <1>7 DEF PollAnswered
  <2>2. JobsNumbered'
    BY <1>1, <2>1 DEF JobsNumbered
  <2>3. CASE data # "completed" /\ data' = "completed"
    <3>1. chart'.st = "loading"
      BY <2>1, <2>3
    <3> QED
      BY <1>1, <2>1, <2>2, <2>3, <3>1 DEF ChartIsOfJob
  <2>4. CASE ~(data # "completed" /\ data' = "completed")
    <3>1. chart' = chart
      BY <2>1, <2>4
    <3>2. chart.st # "off" => data' = "completed"
      BY <2>1 DEF ChartIsOfJob
    <3> QED
      BY <2>1, <2>2, <3>1, <3>2 DEF ChartIsOfJob
  <2> QED
    BY <2>3, <2>4
<1>8. CASE PollFails
  <2>1. flight' = FALSE /\ UNCHANGED <<status, submitted, answers, active, data, chart>>
    BY <1>8 DEF PollFails
  <2> QED
    BY <1>1, <2>1 DEF JobsNumbered, ChartIsOfJob
<1>9. CASE Load
  <2>1. chart.st = "loading" /\ UNCHANGED <<status, submitted, answers, active, data, flight>>
    BY <1>9 DEF Load
  <2>2. PICK times \in Candles \cup {{}}, file \in Files \cup {<<>>} :
           chart' = IF times = {} THEN [st |-> "hidden"]
                    ELSE [st |-> "drawn", job |-> active, file |-> file, times |-> times,
                          markers |-> Markers(file, times)]
    BY <1>9 DEF Load
  <2>3. JobsNumbered'
    BY <2>1 DEF JobsNumbered
  <2>4. /\ data' = "completed" /\ active' \in 1..submitted'
        /\ status'[active'] \in {"completed", "absent"}
    BY <2>1 DEF ChartIsOfJob
  <2>5. CASE times = {}
    <3>1. chart'.st = "hidden"
      BY <2>2, <2>5
    <3> QED
      BY <2>3, <2>4, <3>1 DEF ChartIsOfJob
  <2>6. CASE times # {}
    <3>1. /\ chart'.job = active' /\ chart'.file = file /\ chart'.times = times
          /\ chart'.markers = Markers(file, times)
      BY <2>1, <2>2, <2>6
    <3> QED
      BY <2>3, <2>4, <2>6, <3>1 DEF ChartIsOfJob
  <2> QED
    BY <2>5, <2>6
<1>10. CASE JobMoves \/ ManagerRestarts \/ JobForgotten
  <2>1. UNCHANGED <<submitted, answers, active, data, flight, chart>>
    BY <1>10 DEF JobMoves, ManagerRestarts, JobForgotten
  <2>2. /\ status' \in [JobIds -> Manager!Statuses]
        /\ \A j \in JobIds : status[j] \in {"completed", "absent"}
                             => status'[j] \in {"completed", "absent"}
    BY <1>1, <1>10, StatusMoves
  <2>3. JobsNumbered'
    BY <2>1, <2>2 DEF JobsNumbered
  <2>4. ChartIsOfJob'
    BY <1>1, <2>1, <2>2 DEF ChartIsOfJob
  <2> QED
    BY <2>3, <2>4
<1> QED
  BY <1>2, <1>3, <1>4, <1>5, <1>6, <1>7, <1>8, <1>9, <1>10, MostIsElsewhere DEF Next

\* A chart that is drawn tells the whole of the job it is of.
LEMMA ChartTells == JobsNumbered /\ ChartIsOfJob => ChartTellsTheJob
<1> SUFFICES ASSUME ChartIsOfJob, chart.st = "drawn"
             PROVE  ChartTellsTheJob
  BY DEF ChartTellsTheJob
<1>1. /\ active = chart.job /\ data = "completed"
      /\ chart.file \in Files \cup {<<>>}
      /\ chart.times \in Candles /\ chart.times # {}
      /\ chart.markers = Markers(chart.file, chart.times)
  BY DEF ChartIsOfJob
<1>2. chart.file \in Seq([time : Int, ok : BOOLEAN])
  <2> DEFINE Rows == [time : Int, ok : BOOLEAN]
  <2>1. Files \subseteq Seq(Rows)
    BY ScreenAssumption
  <2> HIDE DEF Rows
  <2>2. <<>> \in Seq(Rows)
    OBVIOUS
  <2>3. chart.file \in Seq(Rows)
    BY <1>1, <2>1, <2>2, Zenon
  <2> QED
    BY <2>3 DEF Rows
<1>3. chart.times \in SUBSET Int /\ IsFiniteSet(chart.times)
  BY <1>1, ScreenAssumption
<1> DEFINE file == chart.file
           times == chart.times
<1> HIDE DEF file, times
<1>4. TellsAll(Markers(file, times), file, times)
  BY <1>1, <1>2, <1>3, MarkersTell DEF file, times
<1>5. TellsAll(chart.markers, chart.file, chart.times)
  BY <1>1, <1>4 DEF file, times
<1> QED
  BY <1>1, <1>5 DEF TellsAll, ChartTellsTheJob, Distance

\* The chart belongs to the job shown, which is completed, and tells all its fills:
\* every row once, in order of time, on a candle no other is nearer than.
THEOREM ChartIsTrue == Spec => []ChartTellsTheJob
<1>1. Init => JobsNumbered /\ ChartIsOfJob
  BY NumbersInit
<1>2. JobsNumbered /\ ChartIsOfJob /\ [Next]_vars => (JobsNumbered /\ ChartIsOfJob)'
  BY ChartStep
<1>3. JobsNumbered /\ ChartIsOfJob => ChartTellsTheJob
  BY ChartTells
<1> QED
  BY <1>1, <1>2, <1>3, PTL DEF Spec

-----------------------------------------------------------------------------
(* The verdict. *)

\* What is shown of a job that has ended is what its status is, unless the job
\* has been forgotten since.
VerdictStands ==
    data \in Manager!Terminal => /\ active \in 1..submitted
                                 /\ status[active] \in {data, "absent"}

\* A job that has ended keeps its verdict until it is forgotten, and a forgotten one
\* gets none.
LEMMA VerdictMoves ==
    ASSUME status \in [JobIds -> Manager!Statuses],
           \/ JobMoves \/ ManagerRestarts \/ JobForgotten,
           NEW v \in Manager!Terminal, NEW j \in JobIds, status[j] \in {v, "absent"}
    PROVE  status'[j] \in {v, "absent"}
<1> USE DEF Manager!Statuses, Manager!Unfinished, Manager!Terminal
<1>1. CASE JobMoves
  <2>1. PICK i \in JobIds : Manager!Advance(i) \/ Manager!Fail(i) \/ Manager!Complete(i)
    BY <1>1 DEF JobMoves
  <2>2. i # j /\ status'[j] = status[j]
    BY <2>1 DEF Manager!Advance, Manager!Fail, Manager!Complete
  <2> QED
    BY <2>2
<1>2. CASE ManagerRestarts
  BY <1>2 DEF ManagerRestarts, Manager!Interrupt
<1>3. CASE JobForgotten
  BY <1>3 DEF JobForgotten, Manager!Prune
<1> QED
  BY <1>1, <1>2, <1>3

LEMMA VerdictStep ==
    JobsNumbered /\ VerdictStands /\ [Next]_vars => VerdictStands'
<1> SUFFICES ASSUME JobsNumbered, VerdictStands, [Next]_vars
             PROVE  VerdictStands'
  OBVIOUS
<1> USE DEF known, jobs, poll, sent
<1>1. /\ submitted \in 0..MaxJobs /\ MaxJobs \in Nat
      /\ status \in [JobIds -> Manager!Statuses]
      /\ flight => active \in 1..submitted
      /\ 1..submitted \subseteq JobIds
  BY ScreenAssumption DEF JobsNumbered, JobIds
<1>2. CASE Elsewhere
  BY <1>2 DEF Elsewhere, VerdictStands
<1>3. CASE HandleSubmit
  <2>1. UNCHANGED <<active, data>>
    BY <1>3 DEF HandleSubmit
  <2>2. CASE UNCHANGED jobs
    BY <2>1, <2>2 DEF VerdictStands
  <2>3. CASE submitted' = submitted + 1 /\ Manager!Submit(submitted + 1)
    <3>1. \A j \in 1..submitted : status'[j] = status[j]
      BY <1>1, <2>3 DEF Manager!Submit
    <3>2. 1..submitted \subseteq 1..submitted'
      BY <1>1, <2>3
    <3> QED
      BY <2>1, <3>1, <3>2 DEF VerdictStands
  <2> QED
    BY <1>3, <2>2, <2>3 DEF HandleSubmit
<1>4. CASE SubmitAnswered \/ HandleRerun \/ Leave
  <2>1. data' = None
    BY <1>4 DEF SubmitAnswered, HandleRerun, Leave, Idle
  <2>2. None \notin Manager!Terminal
    BY NoneAssumption DEF Manager!Statuses
  <2> QED
    BY <2>1, <2>2 DEF VerdictStands, Manager!Terminal
<1>5. CASE PollTick \/ WindowFocus \/ PollFails \/ Load
  <2>1. UNCHANGED <<status, submitted, active, data>>
    BY <1>5 DEF PollTick, WindowFocus, PollFails, Load
  <2> QED
    BY <2>1 DEF VerdictStands
<1>6. CASE PollAnswered
  <2>1. flight /\ data' = status[active] /\ UNCHANGED <<status, submitted, active>>
    BY <1>6 DEF PollAnswered
  <2> QED
    BY <1>1, <2>1 DEF VerdictStands
<1>7. CASE JobMoves \/ ManagerRestarts \/ JobForgotten
  <2>1. UNCHANGED <<submitted, active, data>>
    BY <1>7 DEF JobMoves, ManagerRestarts, JobForgotten
  <2>2. ASSUME data \in Manager!Terminal
        PROVE  status'[active] \in {data, "absent"}
    <3>1. active \in JobIds /\ status[active] \in {data, "absent"}
      BY <1>1, <2>2 DEF VerdictStands
    <3> QED
      BY <1>1, <1>7, <2>2, <3>1, VerdictMoves
  <2> QED
    BY <2>1, <2>2 DEF VerdictStands, Manager!Terminal
<1> QED
  BY <1>2, <1>3, <1>4, <1>5, <1>6, <1>7, MostIsElsewhere DEF Next

\* The screen stops polling at "completed" and "failed" (refetchInterval of
\* useBacktestJob), and rightly: whatever restarts, refusals, second submissions and
\* late answers come after, the manager tells no other verdict of the job shown.
THEOREM VerdictIsFinal == Spec => []VerdictStands
<1>1. Init => JobsNumbered /\ ChartIsOfJob /\ VerdictStands
  <2>1. Init => data = None
    BY DEF Init
  <2>2. None \notin Manager!Terminal
    BY NoneAssumption DEF Manager!Statuses
  <2> QED
    BY <2>1, <2>2, NumbersInit DEF VerdictStands
<1>2. JobsNumbered /\ ChartIsOfJob /\ [Next]_vars => (JobsNumbered /\ ChartIsOfJob)'
  BY ChartStep
<1>3. JobsNumbered /\ VerdictStands /\ [Next]_vars => VerdictStands'
  BY VerdictStep
<1> QED
  BY <1>1, <1>2, <1>3, PTL DEF Spec

-----------------------------------------------------------------------------
(* The form. *)

\* Both places of a field end in its key.
LEMMA Places ==
    \A f : /\ Home(f)[1] = f.parent /\ Home(f)[2] = f.key /\ Flat(f)[2] = f.key
           /\ ~Nested(f) => Flat(f) = Home(f) /\ Home(f) = <<"", f.key>>
<1> TAKE f
<1> DEFINE a == f.parent
           b == f.key
<1> HIDE DEF a, b
<1>1. Append(<<a, b>>, "plain")[2] = b
  OBVIOUS
<1>2. Home(f) = <<a, b>>
  BY DEF Home, a, b
<1>3. Home(f)[1] = a /\ Home(f)[2] = b
  BY <1>2
<1>4. Plain(Home(f))[2] = b
  BY <1>1, <1>2 DEF Plain
<1>5. Flat(f)[2] = b
  BY <1>3, <1>4 DEF Flat
<1> QED
  BY <1>2, <1>3, <1>5 DEF Flat, Nested, a, b

\* The rows of the registry.
LEMMA RowFacts ==
    ASSUME NEW s \in Strategies, NEW loaded \in BOOLEAN
    PROVE  /\ \A f \in Fields(s, loaded) : f.type \in Types /\ f.default \in Values
           /\ \A f \in Fields(s, loaded) : f.key \in BoundKeys => ~Nested(f) /\ f.type = "number"
           /\ HasGridBounds(s, loaded) => BoundKeys \subseteq {f.key : f \in Fields(s, loaded)}
<1>1. CASE loaded
  <2>1. \A f \in Fields(s, TRUE) : IsField(f)
    BY SchemaAssumption DEF IsSchema, Fields
  <2>2. loaded = TRUE
    BY <1>1
  <2> QED
    BY <2>1, <2>2, ScreenAssumption DEF IsField
<1>2. CASE ~loaded
  <2>1. Fields(s, loaded) = {}
    BY <1>2 DEF Fields
  <2> QED
    BY <2>1 DEF HasGridBounds
<1> QED
  BY <1>1, <1>2

LEMMA DefaultsFit ==
    ASSUME NEW s \in Strategies, NEW x, NEW loaded \in BOOLEAN
    PROVE  Fits(GetStrategyDefaults(s, loaded), s, x, loaded)
<1> DEFINE config == GetStrategyDefaults(s, loaded)
           homes == {Home(f) : f \in Fields(s, loaded)}
<1>1. DOMAIN config = homes
  BY DEF GetStrategyDefaults
<1>2. ASSUME NEW p \in homes
      PROVE  config[p] \in Values
  <2>1. PICK f \in Fields(s, loaded) : Home(f) = p
    OBVIOUS
  <2> DEFINE g == CHOOSE h \in Fields(s, loaded) : Home(h) = p
  <2>2. g \in Fields(s, loaded)
    BY <2>1
  <2>3. config[p] = g.default
    BY DEF GetStrategyDefaults
  <2> HIDE DEF g
  <2> QED
    BY <2>2, <2>3, RowFacts
<1> HIDE DEF config
<1> DEFINE flats == {Flat(f) : f \in Fields(s, loaded)}
           bounds == Range(MarketsOf[x]) \cup Values
<1> HIDE DEF homes, flats
<1>3. DOMAIN config \subseteq homes \cup flats
  BY <1>1
<1>4. \A p \in DOMAIN config : config[p] \in bounds
  BY <1>1, <1>2
<1> HIDE DEF bounds
<1> QED
  BY <1>3, <1>4 DEF Fits, config, homes, flats, bounds

LEMMA PutFits ==
    ASSUME NEW s, NEW x, NEW loaded, NEW config, Fits(config, s, x, loaded), NEW q, NEW v,
           q \in {Home(f) : f \in Fields(s, loaded)} \cup {Flat(f) : f \in Fields(s, loaded)},
           v \in Range(MarketsOf[x]) \cup Values
    PROVE  Fits(Put(config, q, v), s, x, loaded)
<1> DEFINE put == Put(config, q, v)
           bounds == Range(MarketsOf[x]) \cup Values
           places == {Home(f) : f \in Fields(s, loaded)} \cup {Flat(f) : f \in Fields(s, loaded)}
<1>1. /\ DOMAIN put = DOMAIN config \cup {q}
      /\ \A p \in DOMAIN put : put[p] = IF p = q THEN v ELSE config[p]
  BY DEF Put
<1>2. DOMAIN config \subseteq places /\ q \in places
  BY DEF Fits
<1>3. \A p \in DOMAIN config : p[2] \in BoundKeys => config[p] \in bounds
  BY DEF Fits
<1> HIDE DEF put, bounds, places
<1>4. DOMAIN put \subseteq places
  BY <1>1, <1>2
<1>5. v \in bounds
  BY DEF bounds
<1>6. \A p \in DOMAIN put : p[2] \in BoundKeys => put[p] \in bounds
  BY <1>1, <1>3, <1>5
<1> QED
  BY <1>4, <1>6 DEF Fits, put, bounds, places

\* The symbols offered are listed at the exchange, and so is the one chosen.
LEMMA SymbolIsListed ==
    ASSUME panel.exchange \in Exchanges
    PROVE  Symbol = None \/ Symbol \in Range(MarketsOf[panel.exchange]) \cap ValidPairs
<1> DEFINE all == IF panel.exchange \in listed THEN MarketsOf[panel.exchange] ELSE <<>>
           kept == {i \in DOMAIN all : all[i] \in ValidPairs}
           places == InOrder(kept, Increasing(kept))
           n == Cardinality(kept)
           listing == Range(MarketsOf[panel.exchange])
<1>1. FilteredSymbols = [i \in DOMAIN places |-> all[places[i]]]
  BY DEF FilteredSymbols
<1>2. \E m \in Nat : DOMAIN all = 1..m
  <2>1. MarketsOf[panel.exchange] \in Seq(listing)
    BY ScreenAssumption
  <2> HIDE DEF listing
  <2>2. Len(MarketsOf[panel.exchange]) \in Nat
    BY <2>1
  <2>3. DOMAIN MarketsOf[panel.exchange] = 1..Len(MarketsOf[panel.exchange])
    BY <2>1
  <2>4. DOMAIN <<>> = 1..0
    OBVIOUS
  <2> QED
    BY <2>2, <2>3, <2>4
<1>3. \A i \in DOMAIN all : all[i] \in listing
  <2>1. \A i \in DOMAIN MarketsOf[panel.exchange] : MarketsOf[panel.exchange][i] \in listing
    BY DEF Range
  <2>2. DOMAIN <<>> = {}
    OBVIOUS
  <2> HIDE DEF listing
  <2> QED
    BY <2>1, <2>2
<1> HIDE DEF all, listing
<1>4. kept \in SUBSET Int /\ IsFiniteSet(kept) /\ n \in Nat
  <2>1. PICK m \in Nat : DOMAIN all = 1..m
    BY <1>2
  <2>2. kept \in SUBSET (1..m)
    BY <2>1
  <2>3. IsFiniteSet(1..m)
    BY FS_Interval
  <2>4. IsFiniteSet(kept)
    BY <2>2, <2>3, FS_Subset
  <2> QED
    BY <2>2, <2>4, FS_CardinalityType
<1>5. \A i \in kept : all[i] \in listing \cap ValidPairs
  BY <1>3
<1> HIDE DEF kept
<1>6. places \in [1..n -> kept]
  BY <1>4, IncreasingLists
<1> HIDE DEF places, n
<1>7. /\ DOMAIN FilteredSymbols = 1..n
      /\ \A i \in 1..n : FilteredSymbols[i] \in listing \cap ValidPairs
  BY <1>1, <1>5, <1>6
<1>8. Range(FilteredSymbols) \subseteq listing \cap ValidPairs
  BY <1>7 DEF Range
<1>9. Range(FilteredSymbols) # {} => FilteredSymbols[1] \in listing \cap ValidPairs
  <2> SUFFICES ASSUME Range(FilteredSymbols) # {}
               PROVE  1 \in 1..n
    BY <1>7
  <2>1. \E i : i \in 1..n
    BY <1>7 DEF Range
  <2> QED
    BY <1>4, <2>1 DEF n
<1> QED
  BY <1>8, <1>9 DEF Symbol, listing

\* The computed bounds belong to the exchange, too.
LEMMA EffectiveFits ==
    ASSUME PanelFits
    PROVE  Fits(EffectiveConfig, panel.strategy, panel.exchange, registry)
<1> DEFINE s == panel.strategy
           x == panel.exchange
<1>1. /\ registry \in BOOLEAN /\ None \notin priced /\ s \in Strategies /\ x \in Exchanges
      /\ Fits(panel.config, s, x, registry)
  BY DEF PanelFits
<1>2. CASE Symbol \in priced /\ HasGridBounds(s, registry)
  <2> DEFINE places == {Home(f) : f \in Fields(s, registry)} \cup
                       {Flat(f) : f \in Fields(s, registry)}
  <2>1. Symbol \in Range(MarketsOf[x]) \cup Values
    BY <1>1, <1>2, SymbolIsListed
  <2>2. \A key \in BoundKeys : <<"", key>> \in places
    <3> TAKE key \in BoundKeys
    <3>1. PICK f \in Fields(s, registry) : f.key = key
      BY <1>1, <1>2, RowFacts
    <3>2. ~Nested(f)
      BY <1>1, <3>1, RowFacts
    <3>3. Home(f) = <<"", key>>
      BY <3>1, <3>2, Places
    <3> QED
      BY <3>1, <3>3
  <2>3. <<"", "upperPrice">> \in places /\ <<"", "lowerPrice">> \in places
    BY <2>2 DEF BoundKeys
  <2> DEFINE once == Put(panel.config, <<"", "upperPrice">>, Symbol)
  <2>4. Fits(once, s, x, registry)
    BY <1>1, <2>1, <2>3, PutFits
  <2> HIDE DEF once
  <2>5. Fits(Put(once, <<"", "lowerPrice">>, Symbol), s, x, registry)
    BY <2>1, <2>3, <2>4, PutFits
  <2>6. EffectiveConfig = Put(once, <<"", "lowerPrice">>, Symbol)
    BY <1>2 DEF EffectiveConfig, once
  <2> QED
    BY <2>5, <2>6
<1>3. CASE ~(Symbol \in priced /\ HasGridBounds(s, registry))
  BY <1>1, <1>3 DEF EffectiveConfig
<1> QED
  BY <1>2, <1>3

LEMMA EnsureFits ==
    ASSUME NEW s \in Strategies, NEW x, NEW loaded \in BOOLEAN, NEW config,
           Fits(config, s, x, loaded)
    PROVE  Fits(EnsureTypes(s, loaded, config), s, x, loaded)
<1> DEFINE fields == Fields(s, loaded)
           booleans == {Flat(f) : f \in {g \in fields : g.type = "boolean"}}
           emptied == {Flat(f) : f \in {g \in fields : g.type = "number"
                                                       /\ At(config, Flat(g)) = "empty"}}
           ensured == EnsureTypes(s, loaded, config)
<1>1. /\ DOMAIN ensured = (DOMAIN config \ emptied) \cup booleans
      /\ \A p \in DOMAIN ensured :
           p \notin booleans => p \in DOMAIN config /\ ensured[p] = config[p]
  BY DEF EnsureTypes
<1>2. \A p \in booleans : p[2] \notin BoundKeys
  <2> TAKE p \in booleans
  <2>1. PICK f \in fields : f.type = "boolean" /\ p = Flat(f)
    OBVIOUS
  <2>2. f.key \notin BoundKeys
    BY <2>1, RowFacts
  <2>3. p[2] = f.key
    BY <2>1, Places
  <2> QED
    BY <2>2, <2>3
<1>3. booleans \subseteq {Flat(f) : f \in fields}
  OBVIOUS
<1> HIDE DEF ensured, emptied, booleans
<1> DEFINE homes == {Home(f) : f \in fields}
           flats == {Flat(f) : f \in fields}
           bounds == Range(MarketsOf[x]) \cup Values
<1>4. DOMAIN config \subseteq homes \cup flats
  BY DEF Fits
<1>5. \A p \in DOMAIN config : p[2] \in BoundKeys => config[p] \in bounds
  BY DEF Fits
<1> HIDE DEF homes, flats, bounds
<1>6. DOMAIN ensured \subseteq homes \cup flats
  BY <1>1, <1>3, <1>4 DEF flats
<1>7. \A p \in DOMAIN ensured : p[2] \in BoundKeys => ensured[p] \in bounds
  BY <1>1, <1>2, <1>5
<1> QED
  BY <1>6, <1>7 DEF Fits, ensured, homes, flats, bounds

LEMMA EntriesAreValues == \A f : f.type \in Types => Entries(f) \subseteq Values
  BY DEF Entries, Types, Values

LEMMA FormInit == Init => PanelFits
<1> SUFFICES ASSUME Init PROVE PanelFits
  OBVIOUS
<1>1. registry = FALSE /\ None \notin priced /\ panel = NewPanel
  BY DEF Init
<1>2. /\ DOMAIN panel = {"strategy", "exchange", "raw", "config"}
      /\ panel.strategy = FirstStrategy /\ panel.exchange = FirstExchange
      /\ panel.config = GetStrategyDefaults(FirstStrategy, FALSE)
  BY <1>1 DEF NewPanel
<1>3. Fits(GetStrategyDefaults(FirstStrategy, FALSE), FirstStrategy, FirstExchange, FALSE)
  BY DefaultsFit, ScreenAssumption
<1> QED
  BY <1>1, <1>2, <1>3, ScreenAssumption DEF PanelFits

LEMMA FormStep == PanelFits /\ [Next]_vars => PanelFits'
<1> SUFFICES ASSUME PanelFits, [Next]_vars
             PROVE  PanelFits'
  OBVIOUS
<1> USE DEF known
<1>1. /\ registry \in BOOLEAN /\ None \notin priced
      /\ DOMAIN panel = {"strategy", "exchange", "raw", "config"}
      /\ panel.strategy \in Strategies /\ panel.exchange \in Exchanges
      /\ Fits(panel.config, panel.strategy, panel.exchange, registry)
  BY DEF PanelFits
<1>2. CASE UNCHANGED <<registry, panel>> /\ None \notin priced'
  BY <1>2, <1>1 DEF PanelFits
<1>3. ASSUME NEW p, Edit(p), DOMAIN p = DOMAIN panel,
             p.strategy \in Strategies, p.exchange \in Exchanges,
             Fits(p.config, p.strategy, p.exchange, registry)
      PROVE  PanelFits'
  <2>1. panel' = p /\ UNCHANGED <<registry, priced>>
    BY <1>3 DEF Edit
  <2> QED
    BY <1>1, <1>3, <2>1 DEF PanelFits
<1>4. CASE HandleStrategyChange
  <2>1. PICK s \in Offered(registry, TRUE, TRUE) :
           Edit([panel EXCEPT !.strategy = s, !.config = GetStrategyDefaults(s, registry)])
    BY <1>4 DEF HandleStrategyChange
  <2>2. s \in Strategies
    BY DEF Offered
  <2> DEFINE p == [panel EXCEPT !.strategy = s, !.config = GetStrategyDefaults(s, registry)]
  <2>3. /\ DOMAIN p = DOMAIN panel /\ p.strategy = s /\ p.exchange = panel.exchange
        /\ p.config = GetStrategyDefaults(s, registry)
    BY <1>1
  <2>4. Fits(GetStrategyDefaults(s, registry), s, panel.exchange, registry)
    BY <1>1, <2>2, DefaultsFit
  <2>5. Edit(p)
    BY <2>1
  <2> HIDE DEF p
  <2> QED
    BY <1>1, <1>3, <2>2, <2>3, <2>4, <2>5
<1>5. CASE ChooseExchange
  <2>1. PICK x \in Exchanges : Edit(ExchangeChosen(x))
    BY <1>5 DEF ChooseExchange
  <2> DEFINE p == ExchangeChosen(x)
  <2>2. /\ DOMAIN p = DOMAIN panel /\ p.strategy = panel.strategy /\ p.exchange = x
        /\ p.config = GetStrategyDefaults(panel.strategy, registry)
    BY <1>1 DEF ExchangeChosen
  <2>3. Fits(GetStrategyDefaults(panel.strategy, registry), panel.strategy, x, registry)
    BY <1>1, DefaultsFit
  <2> HIDE DEF p
  <2> QED
    BY <1>1, <1>3, <2>1, <2>2, <2>3 DEF p
<1>6. CASE HandleSymbolChange
  <2>1. PICK m : Edit([panel EXCEPT !.raw = m])
    BY <1>6 DEF HandleSymbolChange
  <2> DEFINE p == [panel EXCEPT !.raw = m]
  <2>2. /\ DOMAIN p = DOMAIN panel /\ p.strategy = panel.strategy
        /\ p.exchange = panel.exchange /\ p.config = panel.config
    BY <1>1
  <2> HIDE DEF p
  <2> QED
    BY <1>1, <1>3, <2>1, <2>2 DEF p
<1>7. CASE EditField
  <2>1. PICK f \in Fields(panel.strategy, registry) : \E v \in Entries(f) :
           Edit([panel EXCEPT !.config = HandleChange(EffectiveConfig, f, v)])
    BY <1>7 DEF EditField
  <2>2. PICK v \in Entries(f) :
           Edit([panel EXCEPT !.config = HandleChange(EffectiveConfig, f, v)])
    BY <2>1
  <2>3. v \in Values
    BY <1>1, <2>1, RowFacts, EntriesAreValues
  <2> DEFINE changed == HandleChange(EffectiveConfig, f, v)
             p == [panel EXCEPT !.config = changed]
  <2>4. Fits(changed, panel.strategy, panel.exchange, registry)
    <3>1. Fits(EffectiveConfig, panel.strategy, panel.exchange, registry)
      BY EffectiveFits
    <3>2. Flat(f) \in {Home(g) : g \in Fields(panel.strategy, registry)} \cup
                      {Flat(g) : g \in Fields(panel.strategy, registry)}
      BY <2>1
    <3>3. v \in Range(MarketsOf[panel.exchange]) \cup Values
      BY <2>3
    <3>4. Fits(Put(EffectiveConfig, Flat(f), v), panel.strategy, panel.exchange, registry)
      BY <3>1, <3>2, <3>3, PutFits
    <3> QED
      BY <3>4 DEF HandleChange
  <2>5. Edit(p)
    BY <2>2
  <2> HIDE DEF changed
  <2>6. /\ DOMAIN p = DOMAIN panel /\ p.strategy = panel.strategy
        /\ p.exchange = panel.exchange /\ p.config = changed
    BY <1>1
  <2> HIDE DEF p
  <2> QED
    BY <1>1, <1>3, <2>4, <2>5, <2>6
<1>8. CASE Leave
  <2>1. panel' = NewPanel /\ UNCHANGED <<registry, priced>>
    BY <1>8 DEF Leave
  <2>2. /\ DOMAIN panel' = {"strategy", "exchange", "raw", "config"}
        /\ panel'.strategy = FirstStrategy /\ panel'.exchange = FirstExchange
        /\ panel'.config = GetStrategyDefaults(FirstStrategy, FALSE)
    BY <2>1 DEF NewPanel
  <2>3. Fits(GetStrategyDefaults(FirstStrategy, FALSE), FirstStrategy, FirstExchange, registry)
    <3>1. DOMAIN GetStrategyDefaults(FirstStrategy, FALSE) = {}
      BY DEF GetStrategyDefaults, Fields
    <3> QED
      BY <3>1 DEF Fits
  <2> QED
    BY <1>1, <2>1, <2>2, <2>3, ScreenAssumption DEF PanelFits
<1>9. CASE RegistryArrives
  <2>1. registry = FALSE /\ registry' = TRUE /\ UNCHANGED <<priced, panel>>
    BY <1>1, <1>9 DEF RegistryArrives
  <2>2. DOMAIN panel.config = {}
    BY <1>1, <2>1 DEF Fits, Fields
  <2>3. Fits(panel.config, panel.strategy, panel.exchange, TRUE)
    BY <2>2 DEF Fits
  <2> QED
    BY <1>1, <2>1, <2>3 DEF PanelFits
<1>10. CASE TickerArrives
  <2>1. None \notin priced' /\ UNCHANGED <<registry, panel>>
    BY <1>1, <1>10 DEF TickerArrives
  <2> QED
    BY <1>2, <2>1
<1>11. CASE \/ HandleSubmit \/ SubmitAnswered \/ SubmitFails \/ HandleRerun
            \/ PollTick \/ PollAnswered \/ PollFails \/ WindowFocus
            \/ HandleDownload \/ DownloadEnds \/ Load
            \/ SymbolsArrive \/ JobMoves \/ ManagerRestarts \/ JobForgotten
  <2>1. UNCHANGED <<registry, priced, panel>>
    BY <1>11 DEF HandleSubmit, SubmitAnswered, SubmitFails, HandleRerun,
                 PollTick, PollAnswered, PollFails, WindowFocus,
                 HandleDownload, DownloadEnds, Load,
                 SymbolsArrive, JobMoves, ManagerRestarts, JobForgotten
  <2> QED
    BY <1>1, <1>2, <2>1
<1>12. CASE UNCHANGED vars
  BY <1>1, <1>2, <1>12 DEF vars
<1> QED
  BY <1>4, <1>5, <1>6, <1>7, <1>8, <1>9, <1>10, <1>11, <1>12 DEF Next

LEMMA PanelRequests == PanelFits => RequestFits
<1> SUFFICES ASSUME PanelFits PROVE RequestFits
  OBVIOUS
<1> DEFINE config == EnsureTypes(panel.strategy, registry, EffectiveConfig)
<1>1. Request.config = config /\ Request.symbol = Symbol
  BY DEF Request
<1>2. Fits(config, panel.strategy, panel.exchange, registry)
  BY EffectiveFits, EnsureFits DEF PanelFits
<1>3. Symbol \in {None} \cup (Range(MarketsOf[panel.exchange]) \cap ValidPairs)
  BY SymbolIsListed DEF PanelFits
<1> HIDE DEF config
<1> QED
  BY <1>1, <1>2, <1>3 DEF RequestFits, Fits

\* The request the form would send now holds what belongs together: parameters of its
\* own strategy, a symbol its exchange lists, and price bounds computed at that
\* exchange, whatever was chosen before and whatever is still loading.
THEOREM RequestAlwaysFits == Spec => []RequestFits
<1>1. Init => PanelFits
  BY FormInit
<1>2. PanelFits /\ [Next]_vars => PanelFits'
  BY FormStep
<1>3. PanelFits => RequestFits
  BY PanelRequests
<1> QED
  BY <1>1, <1>2, <1>3, PTL DEF Spec

=============================================================================
