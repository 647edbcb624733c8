------------------------- MODULE TradeLedger_proofs -------------------------
(***************************************************************************)
(* What the dashboard tells of a user's fills is right, for every table of *)
(* fills, any number of bots, symbols and instants, and any prices.        *)
(*                                                                         *)
(* Of the state only the table's shape has to be kept (TableOK): the rows  *)
(* are numbered and in time order.  The rest is about the functions of it, *)
(* each a fold over rows, a sum or an order.  The first part says what     *)
(* these are, step by step; induction takes the set that is to hold every  *)
(* number or every part of a set, since a schema with an operator cannot   *)
(* be instantiated.  Then, each with what it rests on:                     *)
(*   - matching: the queue of items, unfolded (Flat), is the stock of      *)
(*     units after every fill;                                             *)
(*   - curves: the last point tells the fold's sum after every row, and    *)
(*     the sums per day, per symbol and per fill are sums of the same;     *)
(*   - tags: sorted by time and walked backwards within an instant, the    *)
(*     newest rows are the fills in their own order;                       *)
(*   - cards: on each market the summary adds up what the cards tell;      *)
(*   - worth: what was paid is invested in an open position or realized    *)
(*     (MoneyIsKept), and the latest rows hold the open positions.         *)
(***************************************************************************)
EXTENDS BotSummary, FunctionTheorems, FiniteSetTheorems, SequenceTheorems,
        WellFoundedInduction, TLAPS

-----------------------------------------------------------------------------
(* Induction, over a set that is to hold every number or every part. *)

\* What holds of 0 and, with any number below n, of the next, holds up to n.
LEMMA InductionUpTo ==
    ASSUME NEW n \in Nat, NEW P, 0 \in P, \A i \in 0..(n - 1) : i \in P => i + 1 \in P
    PROVE  0..n \subseteq P
<1> DEFINE Bad == (0..n) \ P
           R == OpToRel(<, Nat)
<1>1. SUFFICES ASSUME Bad # {} PROVE FALSE
  OBVIOUS
<1>2. IsWellFoundedOn(R, Nat)
  BY NatLessThanWellFounded
<1>3. Bad \subseteq Nat
  OBVIOUS
<1>4. PICK x \in Bad : \A y \in Bad : ~(<<y, x>> \in R)
  BY <1>1, <1>2, <1>3, WFMin
<1>5. \A y \in Bad : ~(y < x)
  <2> TAKE y \in Bad
  <2>1. <<y, x>> \notin R
    BY <1>4
  <2>2. y \in Nat /\ x \in Nat
    BY <1>3
  <2> QED
    BY <2>1, <2>2 DEF OpToRel
<1>6. x # 0 /\ x \in 0..n
  BY <1>4
<1>7. x - 1 \notin Bad
  BY <1>5, <1>6
<1>8. x - 1 \in P
  BY <1>7, <1>6
<1>9. (x - 1) + 1 \in P
  BY <1>6, <1>8
<1>10. (x - 1) + 1 = x
  BY <1>6
<1> QED
  BY <1>4, <1>9, <1>10

\* What holds of a set once it holds of it less any member, and of the empty
\* one, holds of every finite set.
LEMMA Shrinking ==
    ASSUME NEW S, IsFiniteSet(S), NEW P, {} \in P,
           \A T \in SUBSET S : T # {} /\ (\A x \in T : T \ {x} \in P) => T \in P
    PROVE  \A T \in SUBSET S : T \in P
<1> DEFINE n == Cardinality(S)
           Q == {k \in 0..n : \A T \in SUBSET S : Cardinality(T) = k => T \in P}
<1>1. n \in Nat
  BY FS_CardinalityType
<1>2. \A T \in SUBSET S : IsFiniteSet(T) /\ Cardinality(T) \in 0..n
  <2> TAKE T \in SUBSET S
  <2>1. IsFiniteSet(T) /\ Cardinality(T) <= n
    BY FS_Subset
  <2>2. Cardinality(T) \in Nat
    BY <2>1, FS_CardinalityType
  <2> QED
    BY <1>1, <2>1, <2>2
<1>3. 0 \in Q
  <2>1. \A T \in SUBSET S : Cardinality(T) = 0 => T = {}
    BY <1>2, FS_EmptySet
  <2>2. \A T \in SUBSET S : Cardinality(T) = 0 => T \in P
    BY <2>1
  <2>3. 0 \in 0..n
    BY <1>1
  <2> QED
    BY <2>2, <2>3
<1>4. ASSUME NEW i \in 0..(n - 1), i \in Q
      PROVE  i + 1 \in Q
  <2>1. SUFFICES ASSUME NEW T \in SUBSET S, Cardinality(T) = i + 1
                 PROVE  T \in P
    BY <1>1
  <2>2. T # {}
    <3>1. i + 1 # 0
      BY <1>1
    <3>2. Cardinality({}) = 0
      BY FS_EmptySet
    <3> QED
      BY <2>1, <3>1, <3>2
  <2>3. ASSUME NEW x \in T
        PROVE  T \ {x} \in P
    <3>1. Cardinality(T \ {x}) = (i + 1) - 1
      BY <1>2, <2>1, FS_RemoveElement
    <3>2. Cardinality(T \ {x}) = i
      BY <3>1
    <3> QED
      BY <1>4, <3>2
  <2> QED
    BY <2>2, <2>3
<1> HIDE DEF Q
<1>5. 0..n \subseteq Q
  BY <1>1, <1>3, <1>4, InductionUpTo
<1> QED
  BY <1>2, <1>5 DEF Q

\* What holds of the empty set and stays true when a member comes, holds of
\* every finite set.
LEMMA Growing ==
    ASSUME NEW S, IsFiniteSet(S), NEW P, {} \in P,
           \A T \in SUBSET S : \A x \in S : x \notin T /\ T \in P => T \cup {x} \in P
    PROVE  S \in P
<1>1. ASSUME NEW T \in SUBSET S, T # {}, \A x \in T : T \ {x} \in P
      PROVE  T \in P
  <2>1. PICK x \in T : TRUE
    BY <1>1
  <2>2. (T \ {x}) \cup {x} = T
    OBVIOUS
  <2> QED
    BY <1>1, <2>2
<1> QED
  BY <1>1, Shrinking

-----------------------------------------------------------------------------
(* Recursion over the parts of a finite set. *)

IsRecursion(S, X, base, pick, step) ==
    /\ IsFiniteSet(S) /\ base \in X /\ step \in [X \X S -> X]
    /\ pick \in [(SUBSET S) \ {{}} -> S] /\ \A T \in (SUBSET S) \ {{}} : pick[T] \in T

IsTable(S, X, base, pick, step, g) ==
    /\ g \in [SUBSET S -> X]
    /\ \A T \in SUBSET S :
         g[T] = IF T = {} THEN base ELSE step[<<g[T \ {pick[T]}], pick[T]>>]

\* A function of the parts of a finite set, given by its value at the empty one
\* and a step for the member taken out, exists.
LEMMA PartsRecursion ==
    ASSUME NEW S, NEW X, NEW base, NEW pick, NEW step, IsRecursion(S, X, base, pick, step)
    PROVE  \E g : IsTable(S, X, base, pick, step, g)
<1>0. /\ IsFiniteSet(S) /\ base \in X /\ step \in [X \X S -> X]
      /\ pick \in [(SUBSET S) \ {{}} -> S] /\ \A T \in (SUBSET S) \ {{}} : pick[T] \in T
  BY DEF IsRecursion
<1> DEFINE n == Cardinality(S)
           Small(k) == {T \in SUBSET S : Cardinality(T) <= k}
           Q == {k \in 0..n : \E g \in [Small(k) -> X] :
                   \A T \in Small(k) :
                      g[T] = IF T = {} THEN base ELSE step[<<g[T \ {pick[T]}], pick[T]>>]}
<1>1. n \in Nat
  BY <1>0, FS_CardinalityType
<1>2. \A T \in SUBSET S : Cardinality(T) \in Nat /\ Cardinality(T) <= n
  <2> TAKE T \in SUBSET S
  <2>1. IsFiniteSet(T) /\ Cardinality(T) <= n
    BY <1>0, FS_Subset
  <2> QED
    BY <2>1, FS_CardinalityType
<1>3. \A T \in SUBSET S : T = {} <=> Cardinality(T) = 0
  <2> TAKE T \in SUBSET S
  <2>1. IsFiniteSet(T)
    BY <1>0, FS_Subset
  <2> QED
    BY <2>1, FS_EmptySet
<1>4. \A T \in (SUBSET S) \ {{}} : Cardinality(T \ {pick[T]}) = Cardinality(T) - 1
  <2> TAKE T \in (SUBSET S) \ {{}}
  <2>1. IsFiniteSet(T)
    BY <1>0, FS_Subset
  <2> QED
    BY <1>0, <2>1, FS_RemoveElement
<1>5. 0 \in Q
  <2> DEFINE g == [T \in Small(0) |-> base]
  <2>1. \A T \in Small(0) : T = {}
    BY <1>2, <1>3
  <2>2. g \in [Small(0) -> X]
    BY <1>0
  <2>3. \A T \in Small(0) :
           g[T] = IF T = {} THEN base ELSE step[<<g[T \ {pick[T]}], pick[T]>>]
    BY <2>1
  <2>4. 0 \in 0..n
    BY <1>1
  <2> HIDE DEF g, Small
  <2> QED
    BY <2>2, <2>3, <2>4
<1>6. ASSUME NEW i \in 0..(n - 1), i \in Q
      PROVE  i + 1 \in Q
  <2>1. PICK g \in [Small(i) -> X] :
           \A T \in Small(i) :
              g[T] = IF T = {} THEN base ELSE step[<<g[T \ {pick[T]}], pick[T]>>]
    BY <1>6
  <2> DEFINE h == [T \in Small(i + 1) |->
                     IF T \in Small(i) THEN g[T] ELSE step[<<g[T \ {pick[T]}], pick[T]>>]]
  <2>2. i \in Nat /\ i + 1 \in 0..n
    BY <1>1
  <2>3. \A T \in Small(i + 1) : T # {} => T \ {pick[T]} \in Small(i)
    BY <1>2, <1>4, <2>2
  <2>4. \A T \in Small(i + 1) : T \notin Small(i) => T # {}
    BY <1>3, <2>2
  <2>5. Small(i) \subseteq Small(i + 1)
    BY <1>2, <2>2
  <2> HIDE DEF Small
  <2>6. h \in [Small(i + 1) -> X]
    <3>1. ASSUME NEW T \in Small(i + 1), T \notin Small(i)
          PROVE  step[<<g[T \ {pick[T]}], pick[T]>>] \in X
      <4>1. T # {} /\ T \in SUBSET S
        BY <2>4, <3>1 DEF Small
      <4>2. T \ {pick[T]} \in Small(i)
        BY <2>3, <4>1
      <4>3. g[T \ {pick[T]}] \in X /\ pick[T] \in S
        BY <1>0, <4>1, <4>2
      <4> QED
        BY <1>0, <4>3
    <3> QED
      BY <3>1
  <2>7. ASSUME NEW T \in Small(i + 1)
        PROVE  h[T] = IF T = {} THEN base ELSE step[<<h[T \ {pick[T]}], pick[T]>>]
    <3>1. CASE T = {}
      <4>1. T \in Small(i)
        BY <2>4, <3>1
      <4>2. g[T] = base
        BY <2>1, <3>1, <4>1
      <4> QED
        BY <3>1, <4>1, <4>2
    <3>2. CASE T # {}
      <4>1. T \ {pick[T]} \in Small(i)
        BY <2>3, <3>2
      <4>2. h[T \ {pick[T]}] = g[T \ {pick[T]}]
        BY <2>5, <4>1
      <4>3. h[T] = step[<<g[T \ {pick[T]}], pick[T]>>]
        BY <2>1, <3>2
      <4> QED
        BY <3>2, <4>2, <4>3
    <3> QED
      BY <3>1, <3>2
  <2> HIDE DEF h
  <2> QED
    BY <2>2, <2>6, <2>7
<1> HIDE DEF Q
<1>7. n \in Q
  <2>1. 0..n \subseteq Q
    BY <1>1, <1>5, <1>6, InductionUpTo
  <2> QED
    BY <1>1, <2>1
<1>8. Small(n) = SUBSET S
  BY <1>2
<1> QED
  BY <1>7, <1>8 DEF Q, IsTable

-----------------------------------------------------------------------------
(* Sums. *)

\* A sum over the parts of a finite set, any member taken out first.
LEMMA SumRecursion ==
    ASSUME NEW S, IsFiniteSet(S), NEW f \in [S -> Int]
    PROVE  /\ SumFunctionOnSet(f, {}) = 0
           /\ \A T \in SUBSET S : SumFunctionOnSet(f, T) \in Int
           /\ \A T \in SUBSET S : \A x \in T :
                SumFunctionOnSet(f, T) = f[x] + SumFunctionOnSet(f, T \ {x})
<1> DEFINE pick == [T \in (SUBSET S) \ {{}} |-> CHOOSE x \in T : TRUE]
           step == [p \in Int \X S |-> f[p[2]] + p[1]]
<1>1. \A T \in (SUBSET S) \ {{}} : pick[T] \in T
  OBVIOUS
<1>2. pick \in [(SUBSET S) \ {{}} -> S]
  BY <1>1
<1>3. step \in [Int \X S -> Int]
  <2>1. \A p \in Int \X S : f[p[2]] + p[1] \in Int
    <3> TAKE p \in Int \X S
    <3>1. p[1] \in Int /\ p[2] \in S
      OBVIOUS
    <3>2. f[p[2]] \in Int
      BY <3>1
    <3> QED
      BY <3>1, <3>2
  <2> QED
    BY <2>1
<1>4. \A a \in Int, x \in S : step[<<a, x>>] = f[x] + a
  OBVIOUS
<1>5. \A T \in (SUBSET S) \ {{}} : pick[T] = CHOOSE x \in T : TRUE
  OBVIOUS
<1> HIDE DEF pick, step
<1>6. PICK g \in [SUBSET S -> Int] :
         \A T \in SUBSET S :
            g[T] = IF T = {} THEN 0 ELSE step[<<g[T \ {pick[T]}], pick[T]>>]
  <2> DEFINE zero == 0
             X == Int
  <2>1. zero \in X /\ step \in [X \X S -> X]
    BY <1>3
  <2> HIDE DEF zero, X
  <2>2. IsRecursion(S, X, zero, pick, step)
    BY <1>1, <1>2, <2>1 DEF IsRecursion
  <2>3. PICK g : IsTable(S, X, zero, pick, step, g)
    BY <2>2, PartsRecursion
  <2> QED
    BY <2>3 DEF IsTable, zero, X
<1>7. g[{}] = 0
  BY <1>6
<1>8. \A T \in SUBSET S : T # {} => g[T] = f[pick[T]] + g[T \ {pick[T]}]
  <2> TAKE T \in SUBSET S
  <2> HAVE T # {}
  <2>1. pick[T] \in S /\ T \ {pick[T]} \in SUBSET S
    BY <1>2
  <2>2. g[T \ {pick[T]}] \in Int
    BY <2>1
  <2> QED
    BY <1>4, <1>6, <2>1, <2>2
<1>9. \A T \in SUBSET S : \A x \in T : g[T] = f[x] + g[T \ {x}]
  <2> DEFINE P == {T \in SUBSET S : \A x \in T : g[T] = f[x] + g[T \ {x}]}
  <2>1. {} \in P
    OBVIOUS
  <2>2. ASSUME NEW T \in SUBSET S, T # {}, \A x \in T : T \ {x} \in P
        PROVE  T \in P
    <3> SUFFICES ASSUME NEW x \in T
                 PROVE  g[T] = f[x] + g[T \ {x}]
      OBVIOUS
    <3> DEFINE y == pick[T]
    <3>1. y \in T /\ g[T] = f[y] + g[T \ {y}]
      BY <1>1, <1>8, <2>2
    <3> HIDE DEF y
    <3>2. CASE x = y
      BY <3>1, <3>2
    <3>3. CASE x # y
      <4>1. T \ {y} \in P /\ T \ {x} \in P
        BY <2>2, <3>1
      <4>2. x \in T \ {y} /\ y \in T \ {x}
        BY <3>1, <3>3
      <4>3. g[T \ {y}] = f[x] + g[(T \ {y}) \ {x}]
        BY <4>1, <4>2
      <4>4. g[T \ {x}] = f[y] + g[(T \ {x}) \ {y}]
        BY <4>1, <4>2
      <4>5. (T \ {y}) \ {x} = (T \ {x}) \ {y}
        OBVIOUS
      <4>6. (T \ {x}) \ {y} \in SUBSET S /\ x \in S /\ y \in S
        BY <3>1
      <4>7. g[(T \ {x}) \ {y}] \in Int /\ f[x] \in Int /\ f[y] \in Int
        BY <4>6
      <4> DEFINE rest == g[(T \ {x}) \ {y}]
      <4>8. g[T \ {y}] = f[x] + rest /\ g[T \ {x}] = f[y] + rest /\ rest \in Int
        BY <4>3, <4>4, <4>5, <4>7
      <4>9. g[T] = f[y] + g[T \ {y}]
        BY <3>1
      <4> HIDE DEF rest
      <4> QED
        BY <4>7, <4>8, <4>9
    <3> QED
      BY <3>2, <3>3
  <2> HIDE DEF P
  <2>3. \A T \in SUBSET S : T \in P
    BY <2>1, <2>2, Shrinking
  <2> QED
    BY <2>3 DEF P
<1>10. ASSUME NEW T \in SUBSET S
       PROVE  SumFunctionOnSet(f, T) = g[T]
  <2> DEFINE Body(h) == [s \in SUBSET T |->
                 IF s = {} THEN 0
                 ELSE f[CHOOSE x \in s : TRUE] + h[s \ {CHOOSE x \in s : TRUE}]]
             k == CHOOSE h : h = Body(h)
  <2>1. SumFunctionOnSet(f, T) = k[T]
    BY DEF SumFunctionOnSet, FoldFunctionOnSet, MapThenFoldSet
  <2> DEFINE r == [s \in SUBSET T |-> g[s]]
  <2>2. r = Body(r)
    <3>1. ASSUME NEW s \in SUBSET T
          PROVE  r[s] = IF s = {} THEN 0
                 ELSE f[CHOOSE x \in s : TRUE] + r[s \ {CHOOSE x \in s : TRUE}]
      <4>1. CASE s = {}
        BY <1>7, <4>1
      <4>2. CASE s # {}
        <5>1. s \in (SUBSET S) \ {{}}
          BY <4>2
        <5>2. pick[s] = CHOOSE x \in s : TRUE
          BY <1>5, <5>1
        <5>3. s \ {pick[s]} \in SUBSET T
          OBVIOUS
        <5>4. g[s] = f[pick[s]] + g[s \ {pick[s]}]
          BY <1>8, <5>1
        <5>5. r[s] = f[pick[s]] + r[s \ {pick[s]}]
          BY <5>3, <5>4
        <5> QED
          BY <4>2, <5>2, <5>5
      <4> QED
        BY <4>1, <4>2
    <3> QED
      BY <3>1
  <2>3. k = Body(k)
    <3> HIDE DEF Body, r
    <3>1. \E h : h = Body(h)
      BY <2>2
    <3> QED
      BY <3>1
  <2>4. k[{}] = 0
    BY <2>3
  <2>5. \A s \in SUBSET T : s # {} => k[s] = f[pick[s]] + k[s \ {pick[s]}]
    <3> TAKE s \in SUBSET T
    <3> HAVE s # {}
    <3>1. s \in (SUBSET S) \ {{}}
      OBVIOUS
    <3>2. pick[s] = CHOOSE x \in s : TRUE
      BY <1>5, <3>1
    <3>3. k[s] = Body(k)[s]
      BY <2>3
    <3> HIDE DEF k
    <3>4. Body(k)[s] = f[CHOOSE x \in s : TRUE] + k[s \ {CHOOSE x \in s : TRUE}]
      OBVIOUS
    <3> QED
      BY <3>2, <3>3, <3>4
  <2> HIDE DEF k
  <2> DEFINE P == {s \in SUBSET T : k[s] = g[s]}
  <2>6. {} \in P
    BY <1>7, <2>4
  <2>7. ASSUME NEW s \in SUBSET T, s # {}, \A x \in s : s \ {x} \in P
        PROVE  s \in P
    <3>1. s \in (SUBSET S) \ {{}}
      BY <2>7
    <3>2. pick[s] \in s
      BY <1>1, <3>1
    <3>3. k[s \ {pick[s]}] = g[s \ {pick[s]}]
      BY <2>7, <3>2
    <3>4. k[s] = f[pick[s]] + k[s \ {pick[s]}]
      BY <2>5, <2>7
    <3>5. g[s] = f[pick[s]] + g[s \ {pick[s]}]
      BY <1>8, <3>1
    <3> QED
      BY <3>3, <3>4, <3>5
  <2>8. IsFiniteSet(T)
    BY FS_Subset
  <2> HIDE DEF P
  <2>9. \A s \in SUBSET T : s \in P
    BY <2>6, <2>7, <2>8, Shrinking
  <2>10. T \in P
    BY <2>9
  <2> QED
    BY <2>1, <2>10 DEF P, k
<1>11. \A T \in SUBSET S : \A x \in T : T \ {x} \in SUBSET S
  OBVIOUS
<1>12. {} \in SUBSET S
  OBVIOUS
<1>13. \A T \in SUBSET S : \A x \in T :
         SumFunctionOnSet(f, T) = f[x] + SumFunctionOnSet(f, T \ {x})
  BY <1>9, <1>10, <1>11
<1>14. \A T \in SUBSET S : SumFunctionOnSet(f, T) \in Int
  BY <1>10
<1> QED
  BY <1>7, <1>10, <1>12, <1>13, <1>14

\* Sums of the same terms.
LEMMA SumSame ==
    ASSUME NEW S, IsFiniteSet(S), NEW f \in [S -> Int],
           NEW R, IsFiniteSet(R), NEW h \in [R -> Int],
           NEW T \in SUBSET S, T \subseteq R, \A x \in T : f[x] = h[x]
    PROVE  SumFunctionOnSet(f, T) = SumFunctionOnSet(h, T)
<1> DEFINE P == {A \in SUBSET T : SumFunctionOnSet(f, A) = SumFunctionOnSet(h, A)}
<1>1. {} \in P
  <2>1. SumFunctionOnSet(f, {}) = 0 /\ SumFunctionOnSet(h, {}) = 0
    BY SumRecursion
  <2> QED
    BY <2>1
<1>2. ASSUME NEW A \in SUBSET T, A # {}, \A x \in A : A \ {x} \in P
      PROVE  A \in P
  <2>1. PICK x \in A : TRUE
    BY <1>2
  <2>2. A \in SUBSET S /\ A \in SUBSET R
    OBVIOUS
  <2>3. SumFunctionOnSet(f, A) = f[x] + SumFunctionOnSet(f, A \ {x})
    BY <2>2, SumRecursion
  <2>4. SumFunctionOnSet(h, A) = h[x] + SumFunctionOnSet(h, A \ {x})
    BY <2>2, SumRecursion
  <2>5. A \ {x} \in P
    BY <1>2
  <2>6. SumFunctionOnSet(f, A \ {x}) = SumFunctionOnSet(h, A \ {x})
    BY <2>5
  <2>7. f[x] = h[x]
    OBVIOUS
  <2> QED
    BY <2>3, <2>4, <2>6, <2>7
<1>3. IsFiniteSet(T)
  BY FS_Subset
<1> HIDE DEF P
<1>4. \A A \in SUBSET T : A \in P
  BY <1>1, <1>2, <1>3, Shrinking
<1>5. T \in P
  BY <1>4
<1> QED
  BY <1>5 DEF P

\* A sum over one name for each term is the sum over another.
LEMMA SumRenamed ==
    ASSUME NEW S, IsFiniteSet(S), NEW R, IsFiniteSet(R), NEW f \in [R -> Int],
           NEW b \in [S -> R], \A x, y \in S : b[x] = b[y] => x = y, NEW T \in SUBSET S
    PROVE  SumFunctionOnSet([x \in S |-> f[b[x]]], T) = SumFunctionOnSet(f, {b[x] : x \in T})
<1> DEFINE h == [x \in S |-> f[b[x]]]
           P == {A \in SUBSET T :
                   SumFunctionOnSet(h, A) = SumFunctionOnSet(f, {b[x] : x \in A})}
<1>1. h \in [S -> Int] /\ \A x \in S : h[x] = f[b[x]]
  OBVIOUS
<1> HIDE DEF h
<1>2. {} \in P
  <2>1. SumFunctionOnSet(f, {}) = 0 /\ SumFunctionOnSet(h, {}) = 0
    BY <1>1, SumRecursion
  <2>2. {b[x] : x \in {}} = {}
    OBVIOUS
  <2> QED
    BY <2>1, <2>2
<1>3. ASSUME NEW A \in SUBSET T, A # {}, \A x \in A : A \ {x} \in P
      PROVE  A \in P
  <2>1. PICK x \in A : TRUE
    BY <1>3
  <2>2. A \in SUBSET S /\ {b[y] : y \in A} \in SUBSET R /\ b[x] \in {b[y] : y \in A}
    OBVIOUS
  <2>3. SumFunctionOnSet(h, A) = h[x] + SumFunctionOnSet(h, A \ {x})
    BY <1>1, <2>2, SumRecursion
  <2>4. SumFunctionOnSet(f, {b[y] : y \in A})
          = f[b[x]] + SumFunctionOnSet(f, {b[y] : y \in A} \ {b[x]})
    BY <2>2, SumRecursion
  <2>5. {b[y] : y \in A} \ {b[x]} = {b[y] : y \in A \ {x}}
    OBVIOUS
  <2>6. A \ {x} \in P
    BY <1>3
  <2>7. SumFunctionOnSet(h, A \ {x}) = SumFunctionOnSet(f, {b[y] : y \in A \ {x}})
    BY <2>6
  <2>8. h[x] = f[b[x]]
    BY <1>1
  <2>9. SumFunctionOnSet(h, A) = SumFunctionOnSet(f, {b[y] : y \in A})
    BY <2>3, <2>4, <2>5, <2>7, <2>8
  <2> QED
    BY <2>9
<1>4. IsFiniteSet(T)
  BY FS_Subset
<1> HIDE DEF P
<1>5. \A A \in SUBSET T : A \in P
  BY <1>2, <1>3, <1>4, Shrinking
<1>6. T \in P
  BY <1>5
<1> QED
  BY <1>6 DEF P, h

\* The sum of two functions' sum.
LEMMA SumPlus ==
    ASSUME NEW S, IsFiniteSet(S), NEW f \in [S -> Int], NEW g \in [S -> Int]
    PROVE  SumFunctionOnSet([x \in S |-> f[x] + g[x]], S)
             = SumFunctionOnSet(f, S) + SumFunctionOnSet(g, S)
<1> DEFINE h == [x \in S |-> f[x] + g[x]]
           P == {A \in SUBSET S : SumFunctionOnSet(h, A)
                                    = SumFunctionOnSet(f, A) + SumFunctionOnSet(g, A)}
<1>1. h \in [S -> Int] /\ \A x \in S : h[x] = f[x] + g[x]
  OBVIOUS
<1> HIDE DEF h
<1>2. {} \in P
  <2>1. /\ SumFunctionOnSet(f, {}) = 0 /\ SumFunctionOnSet(h, {}) = 0
        /\ SumFunctionOnSet(g, {}) = 0
    BY <1>1, SumRecursion
  <2> QED
    BY <2>1
<1>3. ASSUME NEW A \in SUBSET S, A # {}, \A x \in A : A \ {x} \in P
      PROVE  A \in P
  <2>1. PICK x \in A : TRUE
    BY <1>3
  <2> DEFINE B == A \ {x}
  <2>2. SumFunctionOnSet(h, A) = h[x] + SumFunctionOnSet(h, B)
    BY <1>1, SumRecursion
  <2>3. SumFunctionOnSet(f, A) = f[x] + SumFunctionOnSet(f, B)
    BY SumRecursion
  <2>4. SumFunctionOnSet(g, A) = g[x] + SumFunctionOnSet(g, B)
    BY SumRecursion
  <2>5. SumFunctionOnSet(h, B) = SumFunctionOnSet(f, B) + SumFunctionOnSet(g, B)
    BY <1>3
  <2>6. h[x] = f[x] + g[x] /\ f[x] \in Int /\ g[x] \in Int
    BY <1>1
  <2>7. SumFunctionOnSet(f, B) \in Int /\ SumFunctionOnSet(g, B) \in Int
    BY SumRecursion
  <2> HIDE DEF B
  <2>8. SumFunctionOnSet(h, A) = SumFunctionOnSet(f, A) + SumFunctionOnSet(g, A)
    BY <2>2, <2>3, <2>4, <2>5, <2>6, <2>7
  <2> QED
    BY <2>8
<1> HIDE DEF P
<1>4. \A A \in SUBSET S : A \in P
  BY <1>2, <1>3, Shrinking
<1>5. S \in P
  BY <1>4
<1> QED
  BY <1>5 DEF P, h

\* The sum of two functions' difference.
LEMMA SumMinus ==
    ASSUME NEW S, IsFiniteSet(S), NEW f \in [S -> Int], NEW g \in [S -> Int]
    PROVE  SumFunctionOnSet([x \in S |-> f[x] - g[x]], S)
             = SumFunctionOnSet(f, S) - SumFunctionOnSet(g, S)
<1> DEFINE h == [x \in S |-> f[x] - g[x]]
           k == [x \in S |-> h[x] + g[x]]
<1>1. h \in [S -> Int] /\ \A x \in S : h[x] = f[x] - g[x]
  OBVIOUS
<1> HIDE DEF h
<1>2. k \in [S -> Int] /\ \A x \in S : k[x] = h[x] + g[x]
  BY <1>1
<1>3. SumFunctionOnSet(k, S) = SumFunctionOnSet(h, S) + SumFunctionOnSet(g, S)
  BY <1>1, SumPlus
<1> HIDE DEF k
<1>4. \A x \in S : f[x] = k[x]
  <2> TAKE x \in S
  <2>1. f[x] \in Int /\ g[x] \in Int
    OBVIOUS
  <2> QED
    BY <1>1, <1>2, <2>1
<1>5. SumFunctionOnSet(f, S) = SumFunctionOnSet(k, S)
  BY <1>2, <1>4, SumSame
<1>6. SumFunctionOnSet(h, S) \in Int /\ SumFunctionOnSet(g, S) \in Int
  BY <1>1, SumRecursion
<1>7. SumFunctionOnSet(h, S) = SumFunctionOnSet(f, S) - SumFunctionOnSet(g, S)
  BY <1>3, <1>5, <1>6
<1> QED
  BY <1>7 DEF h

\* A sum by the kinds its terms are of.
LEMMA SumByKind ==
    ASSUME NEW S, IsFiniteSet(S), NEW f \in [S -> Int],
           NEW K, IsFiniteSet(K), NEW kind \in [S -> K]
    PROVE  SumFunctionOnSet(f, S)
             = SumFunctionOnSet([k \in K |-> SumFunctionOnSet(f, {x \in S : kind[x] = k})], K)
<1> DEFINE part(A) == [k \in K |-> SumFunctionOnSet(f, {x \in A : kind[x] = k})]
           P == {A \in SUBSET S : SumFunctionOnSet(f, A) = SumFunctionOnSet(part(A), K)}
<1>1. \A A \in SUBSET S : part(A) \in [K -> Int]
  BY SumRecursion
<1>2. {} \in P
  <2> DEFINE Q == {L \in SUBSET K : SumFunctionOnSet(part({}), L) = 0}
  <2>1. part({}) \in [K -> Int]
    BY <1>1
  <2>2. {} \in Q
    BY <2>1, SumRecursion
  <2>3. ASSUME NEW L \in SUBSET K, L # {}, \A k \in L : L \ {k} \in Q
        PROVE  L \in Q
    <3>1. PICK k \in L : TRUE
      BY <2>3
    <3>2. SumFunctionOnSet(part({}), L) = part({})[k] + SumFunctionOnSet(part({}), L \ {k})
      BY <2>1, SumRecursion
    <3>3. part({})[k] = 0
      <4>1. {x \in {} : kind[x] = k} = {}
        OBVIOUS
      <4>2. part({})[k] = SumFunctionOnSet(f, {x \in {} : kind[x] = k})
        OBVIOUS
      <4> QED
        BY <4>1, <4>2, SumRecursion
    <3>4. SumFunctionOnSet(part({}), L \ {k}) = 0
      BY <2>3
    <3>5. SumFunctionOnSet(part({}), L) = 0
      BY <3>2, <3>3, <3>4
    <3> QED
      BY <3>5
  <2> HIDE DEF Q
  <2>4. \A L \in SUBSET K : L \in Q
    BY <2>2, <2>3, Shrinking
  <2>5. K \in Q
    BY <2>4
  <2>6. SumFunctionOnSet(part({}), K) = 0
    BY <2>5 DEF Q
  <2>7. SumFunctionOnSet(f, {}) = 0
    BY SumRecursion
  <2> HIDE DEF part
  <2> QED
    BY <2>6, <2>7
<1>3. ASSUME NEW A \in SUBSET S, A # {}, \A x \in A : A \ {x} \in P
      PROVE  A \in P
  <2>1. PICK x \in A : TRUE
    BY <1>3
  <2> DEFINE B == A \ {x}
             k == kind[x]
             a == part(A)
             b == part(B)
  <2>2. a \in [K -> Int] /\ b \in [K -> Int] /\ k \in K /\ x \in S
    BY <1>1
  <2>3. \A l \in K : l # k => a[l] = b[l]
    <3> TAKE l \in K
    <3> HAVE l # k
    <3>1. {y \in A : kind[y] = l} = {y \in B : kind[y] = l}
      OBVIOUS
    <3> QED
      BY <3>1
  <2>4. a[k] = f[x] + b[k]
    <3> DEFINE Mine == {y \in A : kind[y] = k}
    <3>1. x \in Mine /\ Mine \in SUBSET S
      BY <2>1
    <3>2. Mine \ {x} = {y \in B : kind[y] = k}
      OBVIOUS
    <3>3. SumFunctionOnSet(f, Mine) = f[x] + SumFunctionOnSet(f, Mine \ {x})
      BY <3>1, SumRecursion
    <3>4. a[k] = SumFunctionOnSet(f, Mine)
      BY <2>2
    <3>5. b[k] = SumFunctionOnSet(f, {y \in B : kind[y] = k})
      BY <2>2
    <3> HIDE DEF Mine, a, b, k, B
    <3> QED
      BY <3>2, <3>3, <3>4, <3>5
  <2>5. SumFunctionOnSet(f, A) = f[x] + SumFunctionOnSet(f, B)
    BY SumRecursion
  <2>6. SumFunctionOnSet(f, B) = SumFunctionOnSet(b, K)
    BY <1>3
  <2> HIDE DEF a, b, k
  <2>7. SumFunctionOnSet(a, K) = a[k] + SumFunctionOnSet(a, K \ {k})
    BY <2>2, SumRecursion
  <2>8. SumFunctionOnSet(b, K) = b[k] + SumFunctionOnSet(b, K \ {k})
    BY <2>2, SumRecursion
  <2>9. SumFunctionOnSet(a, K \ {k}) = SumFunctionOnSet(b, K \ {k})
    <3>1. \A l \in K \ {k} : a[l] = b[l]
      BY <2>3
    <3>2. K \ {k} \in SUBSET K /\ K \ {k} \subseteq K
      OBVIOUS
    <3> QED
      BY <2>2, <3>1, <3>2, SumSame
  <2>10. SumFunctionOnSet(a, K \ {k}) \in Int /\ b[k] \in Int /\ f[x] \in Int
    <3>1. K \ {k} \in SUBSET K
      OBVIOUS
    <3> QED
      BY <2>2, <3>1, SumRecursion
  <2>11. SumFunctionOnSet(f, A) = SumFunctionOnSet(a, K)
    BY <2>4, <2>5, <2>6, <2>7, <2>8, <2>9, <2>10
  <2> QED
    BY <2>11 DEF a
<1> HIDE DEF P
<1>4. \A A \in SUBSET S : A \in P
  BY <1>2, <1>3, Shrinking
<1>5. S \in P
  BY <1>4
<1> QED
  BY <1>5 DEF P

\* A sum over pairs, by either side first.
LEMMA SumBothWays ==
    ASSUME NEW S, IsFiniteSet(S), NEW R, IsFiniteSet(R), NEW f \in [S \X R -> Int]
    PROVE  SumFunctionOnSet([x \in S |-> SumFunctionOnSet([y \in R |-> f[<<x, y>>]], R)], S)
             = SumFunctionOnSet([y \in R |-> SumFunctionOnSet([x \in S |-> f[<<x, y>>]], S)], R)
<1> DEFINE row(x) == [y \in R |-> f[<<x, y>>]]
           column(y) == [x \in S |-> f[<<x, y>>]]
           byRow == [x \in S |-> SumFunctionOnSet(row(x), R)]
           upTo(A) == [y \in R |-> SumFunctionOnSet(column(y), A)]
           P == {A \in SUBSET S : SumFunctionOnSet(byRow, A) = SumFunctionOnSet(upTo(A), R)}
<1>1. /\ \A x \in S : row(x) \in [R -> Int]
      /\ \A y \in R : column(y) \in [S -> Int]
  OBVIOUS
<1>2. R \in SUBSET R
  OBVIOUS
<1>3. byRow \in [S -> Int] /\ \A x \in S : byRow[x] = SumFunctionOnSet(row(x), R)
  <2>1. \A x \in S : SumFunctionOnSet(row(x), R) \in Int
    BY <1>1, <1>2, SumRecursion
  <2> HIDE DEF row
  <2> QED
    BY <2>1
<1>4. \A A \in SUBSET S : /\ upTo(A) \in [R -> Int]
                          /\ \A y \in R : upTo(A)[y] = SumFunctionOnSet(column(y), A)
  <2> TAKE A \in SUBSET S
  <2>1. \A y \in R : SumFunctionOnSet(column(y), A) \in Int
    BY <1>1, SumRecursion
  <2> HIDE DEF column
  <2> QED
    BY <2>1
<1>5. \A x \in S, y \in R : row(x)[y] = f[<<x, y>>] /\ column(y)[x] = f[<<x, y>>]
  OBVIOUS
<1> HIDE DEF row, column, byRow, upTo
<1>6. {} \in P
  <2> DEFINE Q == {L \in SUBSET R : SumFunctionOnSet(upTo({}), L) = 0}
  <2>1. upTo({}) \in [R -> Int]
    BY <1>4
  <2>2. {} \in Q
    BY <2>1, SumRecursion
  <2>3. ASSUME NEW L \in SUBSET R, L # {}, \A y \in L : L \ {y} \in Q
        PROVE  L \in Q
    <3>1. PICK y \in L : TRUE
      BY <2>3
    <3>2. SumFunctionOnSet(upTo({}), L) = upTo({})[y] + SumFunctionOnSet(upTo({}), L \ {y})
      BY <2>1, SumRecursion
    <3>3. upTo({})[y] = 0
      <4>1. upTo({})[y] = SumFunctionOnSet(column(y), {})
        BY <1>4
      <4> QED
        BY <1>1, <4>1, SumRecursion
    <3>4. SumFunctionOnSet(upTo({}), L \ {y}) = 0
      BY <2>3
    <3>5. SumFunctionOnSet(upTo({}), L) = 0
      BY <3>2, <3>3, <3>4
    <3> QED
      BY <3>5
  <2> HIDE DEF Q
  <2>4. \A L \in SUBSET R : L \in Q
    BY <2>2, <2>3, Shrinking
  <2>5. R \in Q
    BY <1>2, <2>4
  <2>6. SumFunctionOnSet(upTo({}), R) = 0
    BY <2>5 DEF Q
  <2>7. SumFunctionOnSet(byRow, {}) = 0
    BY <1>3, SumRecursion
  <2> QED
    BY <2>6, <2>7
<1>7. ASSUME NEW A \in SUBSET S, A # {}, \A x \in A : A \ {x} \in P
      PROVE  A \in P
  <2>1. PICK x \in A : TRUE
    BY <1>7
  <2> DEFINE B == A \ {x}
             sum == [y \in R |-> row(x)[y] + upTo(B)[y]]
  <2>2. /\ B \in SUBSET S /\ x \in S /\ row(x) \in [R -> Int]
        /\ upTo(A) \in [R -> Int] /\ upTo(B) \in [R -> Int]
    BY <1>1, <1>4
  <2>3. SumFunctionOnSet(byRow, A) = byRow[x] + SumFunctionOnSet(byRow, B)
    BY <1>3, SumRecursion
  <2>4. SumFunctionOnSet(byRow, B) = SumFunctionOnSet(upTo(B), R)
    BY <1>7
  <2>5. \A y \in R : upTo(A)[y] = row(x)[y] + upTo(B)[y]
    <3> TAKE y \in R
    <3>1. SumFunctionOnSet(column(y), A) = column(y)[x] + SumFunctionOnSet(column(y), B)
      BY <1>1, SumRecursion, SMTT(30)
    <3>2. upTo(A)[y] = SumFunctionOnSet(column(y), A)
      BY <1>4
    <3>3. upTo(B)[y] = SumFunctionOnSet(column(y), B)
      BY <1>4, <2>2
    <3>4. column(y)[x] = row(x)[y]
      BY <1>5, <2>2
    <3> QED
      BY <3>1, <3>2, <3>3, <3>4
  <2>6. sum \in [R -> Int] /\ \A y \in R : sum[y] = upTo(A)[y]
    BY <2>2, <2>5
  <2>7. SumFunctionOnSet(sum, R) = SumFunctionOnSet(row(x), R) + SumFunctionOnSet(upTo(B), R)
    BY <2>2, SumPlus
  <2>8. SumFunctionOnSet(sum, R) = SumFunctionOnSet(upTo(A), R)
    <3> HIDE DEF sum
    <3> QED
      BY <1>2, <2>2, <2>6, SumSame
  <2>9. byRow[x] = SumFunctionOnSet(row(x), R)
    BY <1>3, <2>2
  <2> HIDE DEF B, sum
  <2>10. SumFunctionOnSet(byRow, A) = SumFunctionOnSet(upTo(A), R)
    BY <2>3, <2>4, <2>7, <2>8, <2>9
  <2> QED
    BY <2>10
<1> HIDE DEF P
<1>8. \A A \in SUBSET S : A \in P
  BY <1>6, <1>7, Shrinking
<1>9. S \in P
  BY <1>8
<1> QED
  BY <1>9 DEF P, byRow, upTo, row, column

-----------------------------------------------------------------------------
(* Folds. *)

\* The largest of the numbers up to i, which a fold takes out first.
LEMMA UpTo ==
    ASSUME NEW i \in Nat \ {0}
    PROVE  Max(1..i) = i /\ (1..i) \ {i} = 1..(i - 1) /\ i \in 1..i
<1>1. i \in 1..i /\ \A y \in 1..i : i >= y
  OBVIOUS
<1>2. \A x \in 1..i : (\A y \in 1..i : x >= y) => x = i
  BY <1>1
<1>3. Max(1..i) = i
  BY <1>1, <1>2 DEF Max
<1>4. (1..i) \ {i} = 1..(i - 1)
  OBVIOUS
<1> QED
  BY <1>1, <1>3, <1>4

\* A part of 1..n has a largest member.
LEMMA MaxIsMost ==
    ASSUME NEW n \in Nat, NEW T \in SUBSET (1..n), T # {}
    PROVE  Max(T) \in T /\ \A y \in T : Max(T) >= y
<1> DEFINE P == {i \in 0..n : \A A \in SUBSET (1..i) :
                    A # {} => \E x \in A : \A y \in A : x >= y}
<1>1. 0 \in P
  <2>1. 1..0 = {} /\ 0 \in 0..n
    OBVIOUS
  <2>2. \A A \in SUBSET (1..0) : A # {} => \E x \in A : \A y \in A : x >= y
    BY <2>1
  <2> QED
    BY <2>1, <2>2
<1>2. ASSUME NEW i \in 0..(n - 1), i \in P
      PROVE  i + 1 \in P
  <2>1. SUFFICES ASSUME NEW A \in SUBSET (1..(i + 1)), A # {}
                 PROVE  \E x \in A : \A y \in A : x >= y
    OBVIOUS
  <2>2. CASE i + 1 \in A
    BY <2>2
  <2>3. CASE i + 1 \notin A
    <3>1. A \in SUBSET (1..i)
      BY <2>3
    <3> QED
      BY <1>2, <2>1, <3>1
  <2> QED
    BY <2>2, <2>3
<1> HIDE DEF P
<1>3. 0..n \subseteq P
  BY <1>1, <1>2, InductionUpTo
<1>4. n \in P
  BY <1>3
<1>5. \E x \in T : \A y \in T : x >= y
  BY <1>4 DEF P
<1> QED
  BY <1>5 DEF Max

IsFold(n, X, base, step) == n \in Nat /\ base \in X /\ step \in [X \X (1..n) -> X]

IsFoldTable(n, X, base, step, g) ==
    /\ g \in [SUBSET (1..n) -> X]
    /\ \A T \in SUBSET (1..n) :
         g[T] = IF T = {} THEN base ELSE step[<<g[T \ {Max(T)}], Max(T)>>]

\* What FoldLeft looks for exists.
LEMMA FoldTable ==
    ASSUME NEW n, NEW X, NEW base, NEW step, IsFold(n, X, base, step)
    PROVE  \E g : IsFoldTable(n, X, base, step, g)
<1> DEFINE S == 1..n
           pick == [T \in (SUBSET S) \ {{}} |-> Max(T)]
<1>1. n \in Nat /\ base \in X /\ step \in [X \X S -> X]
  BY DEF IsFold
<1>2. \A T \in (SUBSET S) \ {{}} : Max(T) \in T
  BY <1>1, MaxIsMost
<1>3. IsFiniteSet(S)
  BY <1>1, FS_Interval
<1>4. \A T \in (SUBSET S) \ {{}} : pick[T] = Max(T)
  OBVIOUS
<1>5. pick \in [(SUBSET S) \ {{}} -> S]
  <2>1. \A T \in (SUBSET S) \ {{}} : Max(T) \in S
    BY <1>2
  <2> HIDE DEF S
  <2> QED
    BY <2>1
<1> HIDE DEF S, pick
<1>6. IsRecursion(S, X, base, pick, step)
  BY <1>1, <1>2, <1>3, <1>4, <1>5 DEF IsRecursion
<1>7. PICK g : IsTable(S, X, base, pick, step, g)
  BY <1>6, PartsRecursion
<1>8. g \in [SUBSET S -> X]
  BY <1>7 DEF IsTable
<1>9. \A T \in SUBSET S :
        g[T] = IF T = {} THEN base ELSE step[<<g[T \ {Max(T)}], Max(T)>>]
  <2> TAKE T \in SUBSET S
  <2>1. g[T] = IF T = {} THEN base ELSE step[<<g[T \ {pick[T]}], pick[T]>>]
    BY <1>7 DEF IsTable
  <2>2. T # {} => pick[T] = Max(T)
    BY <1>4
  <2> QED
    BY <2>1, <2>2
<1> QED
  BY <1>8, <1>9 DEF IsFoldTable, S

IsFolded(n, X, base, step, k) ==
    /\ k[{}] = base
    /\ \A T \in SUBSET (1..n) :
         T # {} /\ k[T \ {Max(T)}] \in X => k[T] = step[<<k[T \ {Max(T)}], Max(T)>>]

IsTrace(n, X, base, step, t, end) ==
    /\ t \in [0..n -> X] /\ t[0] = base
    /\ \A i \in 1..n : t[i] = step[<<t[i - 1], i>>]
    /\ t[n] = end

\* Whatever it finds goes through the steps one after the other.
LEMMA FoldTrace ==
    ASSUME NEW n, NEW X, NEW base, NEW step, IsFold(n, X, base, step),
           NEW k, IsFolded(n, X, base, step, k)
    PROVE  \E t : IsTrace(n, X, base, step, t, k[1..n])
<1> DEFINE t == [i \in 0..n |-> k[1..i]]
           P == {i \in 0..n : k[1..i] \in X}
<1>1. n \in Nat /\ base \in X /\ step \in [X \X (1..n) -> X]
  BY DEF IsFold
<1>2. 1..0 = {} /\ 0 \in 0..n
  BY <1>1
<1>3. \A i \in 1..n : k[1..(i - 1)] \in X => k[1..i] = step[<<k[1..(i - 1)], i>>]
  <2> TAKE i \in 1..n
  <2> HAVE k[1..(i - 1)] \in X
  <2>1. i \in Nat \ {0}
    BY <1>1
  <2>2. Max(1..i) = i /\ (1..i) \ {i} = 1..(i - 1) /\ i \in 1..i
    BY <2>1, UpTo
  <2>3. 1..i \in SUBSET (1..n) /\ 1..i # {}
    <3>1. \A x \in 1..i : x \in 1..n
      BY <1>1
    <3> QED
      BY <2>2, <3>1
  <2>4. k[(1..i) \ {Max(1..i)}] \in X
    BY <2>2
  <2>5. k[1..i] = step[<<k[(1..i) \ {Max(1..i)}], Max(1..i)>>]
    BY <2>3, <2>4 DEF IsFolded
  <2> QED
    BY <2>2, <2>5
<1>4. 0 \in P
  BY <1>1, <1>2 DEF IsFolded
<1>5. ASSUME NEW i \in 0..(n - 1), i \in P
      PROVE  i + 1 \in P
  <2>1. i + 1 \in 1..n /\ (i + 1) - 1 = i /\ i + 1 \in 0..n
    BY <1>1
  <2>2. k[1..i] \in X
    BY <1>5
  <2>3. k[1..(i + 1)] = step[<<k[1..i], i + 1>>]
    BY <1>3, <2>1, <2>2
  <2>4. step[<<k[1..i], i + 1>>] \in X
    BY <1>1, <2>1, <2>2
  <2> QED
    BY <2>1, <2>3, <2>4
<1> HIDE DEF P
<1>6. 0..n \subseteq P
  BY <1>1, <1>4, <1>5, InductionUpTo
<1>7. \A i \in 0..n : k[1..i] \in X
  BY <1>6 DEF P
<1>8. t \in [0..n -> X]
  BY <1>7
<1>9. t[0] = base
  BY <1>2 DEF IsFolded
<1>10. \A i \in 1..n : t[i] = step[<<t[i - 1], i>>]
  <2> TAKE i \in 1..n
  <2>1. i \in 0..n /\ i - 1 \in 0..n
    BY <1>1
  <2>2. t[i] = k[1..i] /\ t[i - 1] = k[1..(i - 1)]
    BY <2>1
  <2>3. k[1..(i - 1)] \in X
    BY <1>7, <2>1
  <2> HIDE DEF t
  <2> QED
    BY <1>3, <2>2, <2>3
<1>11. t[n] = k[1..n]
  BY <1>1
<1> HIDE DEF t
<1>12. IsTrace(n, X, base, step, t, k[1..n])
  BY <1>8, <1>9, <1>10, <1>11 DEF IsTrace
<1> QED
  BY <1>12

-----------------------------------------------------------------------------
(* The queue. *)

Item == [price : Nat, qty : Nat \ {0}]
Matching == [left : Seq(Item), cost : Nat, remaining : Nat]

LEMMA MatchItemType ==
    ASSUME NEW m \in Matching, NEW item \in Item
    PROVE  MatchItem(m, item) \in Matching
<1> DEFINE Items == Seq(Item)
<1>1. /\ m.left \in Items /\ m.cost \in Nat /\ m.remaining \in Nat
      /\ m = [left |-> m.left, cost |-> m.cost, remaining |-> m.remaining]
  BY DEF Matching
<1>2. /\ item.price \in Nat /\ item.qty \in Nat \ {0}
      /\ item = [price |-> item.price, qty |-> item.qty]
  BY DEF Item
<1>3. Append(m.left, item) \in Items
  BY <1>1
<1>4. item.qty * item.price \in Nat /\ m.remaining * item.price \in Nat
  BY <1>1, <1>2
<1>5. m.cost + item.qty * item.price \in Nat /\ m.cost + m.remaining * item.price \in Nat
  BY <1>1, <1>4
<1>6. item.qty <= m.remaining => m.remaining - item.qty \in Nat
  BY <1>1, <1>2
<1>7. ~ (item.qty <= m.remaining) => item.qty - m.remaining \in Nat \ {0}
  BY <1>1, <1>2
<1> HIDE DEF Items
<1>8. CASE m.remaining = 0
  <2>1. MatchItem(m, item) = [left |-> Append(m.left, item), cost |-> m.cost,
                              remaining |-> m.remaining]
    BY <1>1, <1>8 DEF MatchItem
  <2> QED
    BY <2>1, <1>1, <1>3 DEF Matching, Items
<1>9. CASE m.remaining # 0 /\ item.qty <= m.remaining
  <2>1. MatchItem(m, item) = [left |-> m.left, cost |-> m.cost + item.qty * item.price,
                              remaining |-> m.remaining - item.qty]
    BY <1>1, <1>9 DEF MatchItem
  <2> QED
    BY <2>1, <1>1, <1>5, <1>6, <1>9 DEF Matching, Items
<1>10. CASE m.remaining # 0 /\ ~ (item.qty <= m.remaining)
  <2> DEFINE rest == [price |-> item.price, qty |-> item.qty - m.remaining]
  <2>1. MatchItem(m, item) = [left |-> <<rest>>, cost |-> m.cost + m.remaining * item.price,
                              remaining |-> 0]
    BY <1>1, <1>2, <1>10 DEF MatchItem
  <2>2. rest \in Item
    BY <1>2, <1>7, <1>10 DEF Item
  <2> HIDE DEF rest
  <2>3. <<rest>> \in Items
    BY <2>2 DEF Items
  <2> QED
    BY <2>1, <2>3, <1>5 DEF Matching, Items
<1> QED
  BY <1>8, <1>9, <1>10

\* A match goes through the queue item by item.
LEMMA MatchTrace ==
    ASSUME NEW queue \in Seq(Item), NEW qty \in Nat
    PROVE  \E t \in [0..Len(queue) -> Matching] :
              /\ t[0] = Unmatched(qty)
              /\ \A i \in 1..Len(queue) : t[i] = MatchItem(t[i - 1], queue[i])
              /\ t[Len(queue)] = Match(queue, qty)
<1> DEFINE n == Len(queue)
           D == 1..n
           base == Unmatched(qty)
           step == [p \in Matching \X D |-> MatchItem(p[1], queue[p[2]])]
           Body(h) == [s \in SUBSET D |->
                         IF s = {} THEN base ELSE MatchItem(h[s \ {Max(s)}], queue[Max(s)])]
           k == CHOOSE h : h = Body(h)
<1>1. n \in Nat /\ DOMAIN queue = D /\ \A i \in D : queue[i] \in Item
  OBVIOUS
<1>2. Match(queue, qty) = k[D]
  BY <1>1 DEF Match, FoldLeft, MapThenFoldSet
<1>3. base \in Matching
  BY DEF Matching, Unmatched
<1>4. /\ step \in [Matching \X D -> Matching]
      /\ \A a \in Matching, i \in D : step[<<a, i>>] = MatchItem(a, queue[i])
  <2>1. \A p \in Matching \X D : MatchItem(p[1], queue[p[2]]) \in Matching
    BY <1>1, MatchItemType
  <2> QED
    BY <2>1
<1> HIDE DEF step, base, n
<1>5. IsFold(n, Matching, base, step)
  BY <1>1, <1>3, <1>4 DEF IsFold
<1>6. PICK g : IsFoldTable(n, Matching, base, step, g)
  BY <1>5, FoldTable
<1>7. g = Body(g)
  <2>1. g \in [SUBSET D -> Matching]
    BY <1>6 DEF IsFoldTable
  <2>2. ASSUME NEW s \in SUBSET D
        PROVE  g[s] = IF s = {} THEN base ELSE MatchItem(g[s \ {Max(s)}], queue[Max(s)])
    <3>1. g[s] = IF s = {} THEN base ELSE step[<<g[s \ {Max(s)}], Max(s)>>]
      BY <1>6 DEF IsFoldTable
    <3>2. CASE s # {}
      <4>1. Max(s) \in D
        BY <1>1, <3>2, MaxIsMost
      <4>2. g[s \ {Max(s)}] \in Matching
        BY <2>1
      <4> QED
        BY <1>4, <3>1, <4>1, <4>2
    <3> QED
      BY <3>1, <3>2
  <2> QED
    BY <2>1, <2>2
<1>8. k = Body(k)
  <2> HIDE DEF Body
  <2>1. \E h : h = Body(h)
    BY <1>7
  <2> QED
    BY <2>1
<1>9. k[{}] = base
  BY <1>8
<1>10. \A s \in SUBSET D :
         s # {} /\ k[s \ {Max(s)}] \in Matching => k[s] = step[<<k[s \ {Max(s)}], Max(s)>>]
  <2> TAKE s \in SUBSET D
  <2> HAVE s # {} /\ k[s \ {Max(s)}] \in Matching
  <2>1. k[s] = Body(k)[s]
    BY <1>8
  <2> HIDE DEF k
  <2>2. Body(k)[s] = MatchItem(k[s \ {Max(s)}], queue[Max(s)])
    OBVIOUS
  <2>3. Max(s) \in D
    BY <1>1, MaxIsMost
  <2> QED
    BY <1>4, <2>1, <2>2, <2>3
<1> HIDE DEF k
<1>11. IsFolded(n, Matching, base, step, k)
  BY <1>9, <1>10 DEF IsFolded
<1>12. PICK t : IsTrace(n, Matching, base, step, t, k[D])
  BY <1>5, <1>11, FoldTrace
<1>13. t \in [0..n -> Matching] /\ t[0] = base /\ t[n] = k[D]
  BY <1>12 DEF IsTrace
<1>14. \A i \in D : t[i] = MatchItem(t[i - 1], queue[i])
  <2> TAKE i \in D
  <2>1. t[i] = step[<<t[i - 1], i>>]
    BY <1>12 DEF IsTrace
  <2>2. t[i - 1] \in Matching
    BY <1>1, <1>13
  <2> QED
    BY <1>4, <2>1, <2>2
<1> QED
  BY <1>2, <1>13, <1>14 DEF base, n

-----------------------------------------------------------------------------
(* Order. *)

IsOrder(R, S) ==
    /\ \A a, b, c \in S : <<a, b>> \in R /\ <<b, c>> \in R => <<a, c>> \in R
    /\ \A a \in S : <<a, a>> \notin R
    /\ \A a, b \in S : a = b \/ <<a, b>> \in R \/ <<b, a>> \in R

\* The members of a finite set in a strict total order: each has the place its
\* rank tells, the number of those before it.
LEMMA InOrderLists ==
    ASSUME NEW S, IsFiniteSet(S), NEW R, IsOrder(R, S)
    PROVE  /\ InOrder(S, R) \in [1..Cardinality(S) -> S]
           /\ \A i, j \in 1..Cardinality(S) :
                i < j => <<InOrder(S, R)[i], InOrder(S, R)[j]>> \in R
           /\ \A i, j \in 1..Cardinality(S) : InOrder(S, R)[i] = InOrder(S, R)[j] => i = j
           /\ \A a \in S : \E i \in 1..Cardinality(S) : InOrder(S, R)[i] = a
<1> DEFINE n == Cardinality(S)
           under(a) == {b \in S : <<b, a>> \in R}
           count == [a \in S |-> Cardinality(under(a))]
           place == [a \in S |-> count[a] + 1]
<1>1. n \in Nat
  BY FS_CardinalityType
<1>2. \A a \in S : IsFiniteSet(under(a)) /\ count[a] \in 0..(n - 1)
  <2> TAKE a \in S
  <2>1. under(a) \in SUBSET S /\ a \notin under(a)
    BY DEF IsOrder
  <2>2. IsFiniteSet(under(a)) /\ Cardinality(under(a)) <= n /\ Cardinality(under(a)) # n
    BY <2>1, FS_Subset
  <2>3. Cardinality(under(a)) \in Nat
    BY <2>2, FS_CardinalityType
  <2>4. Cardinality(under(a)) \in 0..(n - 1)
    BY <1>1, <2>2, <2>3
  <2> QED
    BY <2>2, <2>4
<1>3. ASSUME NEW a \in S, NEW b \in S, <<a, b>> \in R
      PROVE  count[a] < count[b]
  <2>1. under(a) \in SUBSET under(b)
    BY <1>3 DEF IsOrder
  <2>2. a \in under(b) /\ a \notin under(a)
    BY <1>3 DEF IsOrder
  <2>3. /\ Cardinality(under(a)) <= Cardinality(under(b))
        /\ Cardinality(under(a)) # Cardinality(under(b))
    BY <1>2, <2>1, <2>2, FS_Subset
  <2>4. count[a] <= count[b] /\ count[a] # count[b]
    BY <2>3
  <2>5. count[a] \in 0..(n - 1) /\ count[b] \in 0..(n - 1)
    BY <1>2
  <2> HIDE DEF count, n
  <2> QED
    BY <1>1, <2>4, <2>5
<1>4. \A a \in S : count[a] = Cardinality(under(a))
  OBVIOUS
<1> HIDE DEF count
<1>5. /\ \A a \in S : place[a] \in 1..n
      /\ \A a, b \in S : <<a, b>> \in R => place[a] < place[b]
      /\ \A a \in S, i \in 1..n : count[a] = i - 1 <=> place[a] = i
  <2>1. \A a \in S : place[a] = count[a] + 1 /\ count[a] \in 0..(n - 1)
    BY <1>2
  <2> HIDE DEF place, n
  <2>2. \A a \in S : place[a] \in 1..n
    BY <1>1, <2>1
  <2>3. \A a, b \in S : <<a, b>> \in R => place[a] < place[b]
    BY <1>3, <2>1
  <2>4. \A a \in S, i \in 1..n : count[a] = i - 1 <=> place[a] = i
    BY <1>1, <2>1
  <2> QED
    BY <2>2, <2>3, <2>4
<1>6. InOrder(S, R) = [i \in 1..n |-> CHOOSE a \in S : Cardinality(under(a)) = i - 1]
  BY DEF InOrder
<1> DEFINE f == InOrder(S, R)
<1> HIDE DEF place, f
<1>7. place \in [S -> 1..n]
  BY <1>5 DEF place
<1>8. \A a, b \in S : place[a] = place[b] => a = b
  <2> SUFFICES ASSUME NEW a \in S, NEW b \in S, a # b
               PROVE  place[a] # place[b]
    OBVIOUS
  <2>1. place[a] \in Nat /\ place[b] \in Nat
    BY <1>1, <1>5
  <2>2. <<a, b>> \in R \/ <<b, a>> \in R
    BY DEF IsOrder
  <2> QED
    BY <1>5, <2>1, <2>2
<1>9. place \in Injection(S, 1..n)
  BY <1>7, <1>8 DEF Injection, IsInjective
<1>10. IsFiniteSet(1..n) /\ Cardinality(1..n) = n
  BY <1>1, FS_Interval
<1>11. place \in Surjection(S, 1..n)
  BY <1>9, <1>10, FS_Injection
<1>12. \A i \in 1..n : \E a \in S : place[a] = i
  BY <1>11 DEF Surjection
<1>13. \A i \in 1..n : f[i] \in S /\ place[f[i]] = i
  <2> TAKE i \in 1..n
  <2>1. \E a \in S : Cardinality(under(a)) = i - 1
    <3>1. PICK a \in S : place[a] = i
      BY <1>12
    <3>2. Cardinality(under(a)) = i - 1
      BY <1>4, <1>5, <3>1
    <3> QED
      BY <3>2
  <2>2. f[i] \in S /\ Cardinality(under(f[i])) = i - 1
    BY <1>6, <2>1 DEF f
  <2> QED
    BY <1>4, <1>5, <2>2
<1>14. f \in [1..n -> S]
  BY <1>6, <1>13 DEF f
<1>15. \A i, j \in 1..n : i < j => <<f[i], f[j]>> \in R
  <2> SUFFICES ASSUME NEW i \in 1..n, NEW j \in 1..n, i < j, <<f[i], f[j]>> \notin R
               PROVE  FALSE
    OBVIOUS
  <2>1. f[i] \in S /\ f[j] \in S /\ place[f[i]] = i /\ place[f[j]] = j
    BY <1>13
  <2>2. f[i] = f[j] \/ <<f[j], f[i]>> \in R
    BY <2>1 DEF IsOrder
  <2>3. i = j \/ j < i
    BY <1>5, <2>1, <2>2
  <2> QED
    BY <2>3
<1>16. \A i, j \in 1..n : f[i] = f[j] => i = j
  BY <1>13
<1>17. \A a \in S : \E i \in 1..n : f[i] = a
  <2> TAKE a \in S
  <2>1. place[a] \in 1..n
    BY <1>5
  <2>2. f[place[a]] \in S /\ place[f[place[a]]] = place[a]
    BY <1>13, <2>1
  <2> QED
    BY <1>8, <2>1, <2>2
<1> QED
  BY <1>14, <1>15, <1>16, <1>17 DEF f

\* Numbers in increasing order: every one of them, each larger than the last.
LEMMA IncreasingLists ==
    ASSUME NEW S \in SUBSET Int, IsFiniteSet(S)
    PROVE  LET f == InOrder(S, Increasing(S))
           IN /\ f \in [1..Cardinality(S) -> S]
              /\ \A i, j \in 1..Cardinality(S) : i < j => f[i] < f[j]
              /\ \A a \in S : \E i \in 1..Cardinality(S) : f[i] = a
<1> DEFINE R == Increasing(S)
<1>1. \A a, b \in S : <<a, b>> \in R <=> a < b
  BY DEF Increasing
<1> HIDE DEF R
<1>2. IsOrder(R, S)
  BY <1>1 DEF IsOrder
<1>3. /\ InOrder(S, R) \in [1..Cardinality(S) -> S]
      /\ \A i, j \in 1..Cardinality(S) :
           i < j => <<InOrder(S, R)[i], InOrder(S, R)[j]>> \in R
      /\ \A i, j \in 1..Cardinality(S) : InOrder(S, R)[i] = InOrder(S, R)[j] => i = j
      /\ \A a \in S : \E i \in 1..Cardinality(S) : InOrder(S, R)[i] = a
  BY <1>2, InOrderLists
<1> DEFINE f == InOrder(S, R)
<1> HIDE DEF f
<1>4. ASSUME NEW i \in 1..Cardinality(S), NEW j \in 1..Cardinality(S), i < j
      PROVE  f[i] < f[j]
  <2>1. f[i] \in S /\ f[j] \in S /\ <<f[i], f[j]>> \in R
    BY <1>3, <1>4 DEF f
  <2> QED
    BY <1>1, <2>1
<1> QED
  BY <1>3, <1>4 DEF f, R

\* The rows at some places, in the order of the places.
LEMMA PickedRows ==
    ASSUME NEW X, NEW rows \in Seq(X), NEW places \in SUBSET (1..Len(rows))
    PROVE  \E at \in [1..Cardinality(places) -> places] :
              /\ Cardinality(places) \in Nat
              /\ Picked(rows, places) = [k \in 1..Cardinality(places) |-> rows[at[k]]]
              /\ \A i, j \in 1..Cardinality(places) : i < j => at[i] < at[j]
              /\ \A p \in places : \E i \in 1..Cardinality(places) : at[i] = p
<1> DEFINE n == Cardinality(places)
           at == InOrder(places, Increasing(places))
<1>1. IsFiniteSet(places) /\ n \in Nat
  <2>1. IsFiniteSet(1..Len(rows))
    BY FS_Interval
  <2>2. IsFiniteSet(places)
    BY <2>1, FS_Subset
  <2> QED
    BY <2>2, FS_CardinalityType
<1>2. places \in SUBSET Int
  OBVIOUS
<1>3. /\ at \in [1..n -> places]
      /\ \A i, j \in 1..n : i < j => at[i] < at[j]
      /\ \A p \in places : \E i \in 1..n : at[i] = p
  BY <1>1, <1>2, IncreasingLists
<1>4. DOMAIN at = 1..n
  BY <1>3
<1>5. Picked(rows, places) = [k \in 1..n |-> rows[at[k]]]
  BY <1>4 DEF Picked
<1> HIDE DEF at, n
<1> QED
  BY <1>1, <1>3, <1>5 DEF n

\* The rows at some places are as many as the places.
LEMMA PickedType ==
    ASSUME NEW X, NEW rows \in Seq(X), NEW places \in SUBSET (1..Len(rows))
    PROVE  Picked(rows, places) \in Seq(X) /\ Len(Picked(rows, places)) = Cardinality(places)
<1> DEFINE n == Cardinality(places)
<1>1. PICK at \in [1..n -> places] :
         n \in Nat /\ Picked(rows, places) = [k \in 1..n |-> rows[at[k]]]
  BY PickedRows
<1> HIDE DEF n
<1>2. \A k \in 1..n : rows[at[k]] \in X
  <2> TAKE k \in 1..n
  <2>1. at[k] \in 1..Len(rows)
    OBVIOUS
  <2> QED
    BY <2>1
<1> QED
  BY <1>1, <1>2 DEF n

-----------------------------------------------------------------------------
(* The table. *)

Rows == [n : Nat, at : Nat, bot : Bots, symbol : Symbols, side : Sides, bucket : Buckets,
         qty : Nat \ {0}, price : Nat, fee : Nat, feeIn : Currencies, ghost : BOOLEAN]

\* The invariant: the table holds rows, numbered, in the order of their times.
Table(rows) ==
    /\ rows \in Seq(Rows) /\ Len(rows) <= MaxFills
    /\ \A i \in 1..Len(rows) : rows[i].n = i
    /\ \A i, j \in 1..Len(rows) : i <= j => rows[i].at <= rows[j].at

TableOK == Table(trades)

\* A table without rows.
LEMMA InitHolds == Init => TableOK
<1> DEFINE T == Seq(Rows)
<1>1. <<>> \in T /\ Len(<<>>) = 0
  OBVIOUS
<1>2. 0 <= MaxFills
  BY LedgerAssumption
<1> HIDE DEF T
<1> QED
  BY <1>1, <1>2 DEF Init, Table, T, TableOK

\* A fill is written behind the rows there are, at their last instant or the next.
LEMMA StepHolds == TableOK /\ [Next]_vars => TableOK'
<1> SUFFICES ASSUME Table(trades), [Next]_vars
             PROVE  Table(trades')
  BY DEF TableOK
<1>1. CASE UNCHANGED vars
  BY <1>1 DEF vars
<1>2. CASE Next
  <2>1. Len(trades) < MaxFills
    BY <1>2 DEF Next, Trade
  <2>2. PICK f \in Fills, later \in {0, 1} :
          trades' = Append(trades,
            [n |-> Len(trades) + 1,
             at |-> IF trades = <<>> THEN 1 ELSE Last(trades).at + later,
             bot |-> f.bot, symbol |-> f.symbol, side |-> f.side, bucket |-> f.bucket,
             qty |-> f.qty, price |-> f.price, fee |-> f.fee, feeIn |-> f.feeIn,
             ghost |-> f.ghost])
    BY <1>2 DEF Next, Trade
  <2> DEFINE len == Len(trades)
             at == IF trades = <<>> THEN 1 ELSE Last(trades).at + later
             row == [n |-> len + 1, at |-> at,
                     bot |-> f.bot, symbol |-> f.symbol, side |-> f.side, bucket |-> f.bucket,
                     qty |-> f.qty, price |-> f.price, fee |-> f.fee, feeIn |-> f.feeIn,
                     ghost |-> f.ghost]
             T == Seq(Rows)
  <2>3. /\ trades \in T /\ len \in Nat /\ \A i \in 1..len : trades[i] \in Rows
    BY DEF Table
  <2>4. \A i \in 1..len : trades[i].at \in Nat
    BY <2>3 DEF Rows
  <2>5. len # 0 => trades # <<>> /\ Last(trades) = trades[len] /\ len \in 1..len
    BY <2>3 DEF Last
  <2>6. trades = <<>> => len = 0
    OBVIOUS
  <2>7. at \in Nat
    BY <2>3, <2>4, <2>5
  <2>8. \A i \in 1..len : trades[i].at <= at
    <3> TAKE i \in 1..len
    <3>1. len # 0
      BY <2>3
    <3>2. trades[i].at <= trades[len].at
      BY <2>3, <2>5, <3>1 DEF Table
    <3>3. trades[len].at \in Nat /\ trades[i].at \in Nat
      BY <2>4, <2>5, <3>1
    <3>4. at = trades[len].at + later
      BY <2>5, <3>1
    <3> HIDE DEF at, len
    <3> QED
      BY <3>2, <3>3, <3>4
  <2> HIDE DEF at
  <2>9. row \in Rows
    <3>1. f.bot \in Bots /\ f.symbol \in Symbols
      BY DEF Bots, Symbols
    <3>2. /\ f.side \in Sides /\ f.bucket \in Buckets /\ f.feeIn \in Currencies
          /\ f.qty \in Nat \ {0} /\ f.price \in Nat /\ f.fee \in Nat /\ f.ghost \in BOOLEAN
      BY FillsAssumption
    <3>3. len + 1 \in Nat
      BY <2>3
    <3> HIDE DEF len
    <3> QED
      BY <2>7, <3>1, <3>2, <3>3 DEF Rows
  <2>10. row.n = len + 1 /\ row.at = at
    OBVIOUS
  <2>11. trades' = Append(trades, row)
    BY <2>2 DEF at
  <2> HIDE DEF row, T
  <2>12. trades' \in Seq(Rows) /\ Len(trades') = len + 1
    BY <2>3, <2>9, <2>11 DEF T
  <2>13. \A i \in 1..(len + 1) : trades'[i] = IF i <= len THEN trades[i] ELSE row
    BY <2>3, <2>11 DEF T
  <2>14. Len(trades') <= MaxFills
    BY <2>1, <2>3, <2>12, LedgerAssumption
  <2>15. \A i \in 1..Len(trades') : trades'[i].n = i
    <3> TAKE i \in 1..Len(trades')
    <3>1. i \in 1..(len + 1)
      BY <2>12
    <3>2. CASE i <= len
      <4>1. i \in 1..len /\ trades'[i] = trades[i]
        BY <2>3, <2>13, <3>1, <3>2
      <4> QED
        BY <4>1 DEF Table
    <3>3. CASE ~ (i <= len)
      <4>1. i = len + 1
        BY <2>3, <3>1, <3>3
      <4>2. trades'[i] = row
        BY <2>13, <3>1, <3>3
      <4> QED
        BY <2>10, <4>1, <4>2
    <3> QED
      BY <3>2, <3>3
  <2>16. \A i, j \in 1..Len(trades') : i <= j => trades'[i].at <= trades'[j].at
    <3> SUFFICES ASSUME NEW i \in 1..(len + 1), NEW j \in 1..(len + 1), i <= j
                 PROVE  trades'[i].at <= trades'[j].at
      BY <2>12
    <3>1. CASE j <= len
      <4>1. i \in 1..len /\ j \in 1..len
        BY <2>3, <3>1
      <4>2. trades'[i] = trades[i] /\ trades'[j] = trades[j]
        BY <2>13, <3>1, <4>1
      <4> QED
        BY <4>1, <4>2 DEF Table
    <3>2. CASE ~ (j <= len) /\ i <= len
      <4>1. i \in 1..len
        BY <2>3, <3>2
      <4>2. trades'[i] = trades[i] /\ trades'[j] = row
        BY <2>13, <3>2
      <4> QED
        BY <2>8, <2>10, <4>1, <4>2
    <3>3. CASE ~ (i <= len)
      <4>1. ~ (j <= len)
        BY <2>3, <3>3
      <4>2. trades'[i] = row /\ trades'[j] = row
        BY <2>13, <3>3, <4>1
      <4> QED
        BY <2>7, <2>10, <4>2
    <3> QED
      BY <3>1, <3>2, <3>3
  <2> QED
    BY <2>12, <2>14, <2>15, <2>16 DEF Table
<1> QED
  BY <1>1, <1>2

\* The table is what the page takes it for.
THEOREM TableHolds == Spec => []TableOK
BY InitHolds, StepHolds, PTL DEF Spec

\* A function that never falls from one number to the next never falls.
LEMMA Ascends ==
    ASSUME NEW n \in Nat, NEW off \in [0..n -> Int],
           \A i \in 1..n : off[i - 1] <= off[i]
    PROVE  \A i, j \in 0..n : i <= j => off[i] <= off[j]
<1> DEFINE P == {j \in 0..n : \A i \in 0..j : off[i] <= off[j]}
<1>1. 0 \in P
  <2>1. 0 \in 0..n /\ off[0] \in Int
    OBVIOUS
  <2> QED
    BY <2>1
<1>2. ASSUME NEW j \in 0..(n - 1), j \in P
      PROVE  j + 1 \in P
  <2>1. j + 1 \in 1..n /\ j + 1 \in 0..n /\ (j + 1) - 1 = j /\ j \in 0..n
    OBVIOUS
  <2>2. off[j] <= off[j + 1]
    BY <2>1
  <2>3. ASSUME NEW i \in 0..(j + 1)
        PROVE  off[i] <= off[j + 1]
    <3>1. i \in 0..n
      BY <2>1
    <3>2. off[i] \in Int /\ off[j] \in Int /\ off[j + 1] \in Int
      BY <2>1, <3>1
    <3>3. CASE i = j + 1
      BY <3>2, <3>3
    <3>4. CASE i # j + 1
      <4>1. i \in 0..j
        BY <2>1, <3>4
      <4>2. off[i] <= off[j]
        BY <1>2, <4>1
      <4> QED
        BY <2>2, <3>2, <4>2
    <3> QED
      BY <3>3, <3>4
  <2> QED
    BY <2>1, <2>3
<1> HIDE DEF P
<1>3. 0..n \subseteq P
  BY <1>1, <1>2, InductionUpTo
<1> QED
  BY <1>3 DEF P

\* Any member's value can be taken out of a sum.
LEMMA SumStep ==
    ASSUME NEW S, IsFiniteSet(S), NEW f \in [S -> Int], NEW T \in SUBSET S, NEW x \in T
    PROVE  SumFunctionOnSet(f, T) = f[x] + SumFunctionOnSet(f, T \ {x})
  BY SumRecursion

\* Sums up to k, one value after the other; the set 1..n under a name of its own.
LEMMA SumUpTo ==
    ASSUME NEW n \in Nat, NEW S, S = 1..n, IsFiniteSet(S), NEW f \in [S -> Int]
    PROVE  /\ SumFunctionOnSet(f, 1..0) = 0
           /\ \A k \in 0..n : SumFunctionOnSet(f, 1..k) \in Int
           /\ \A k \in 1..n :
                SumFunctionOnSet(f, 1..k) = SumFunctionOnSet(f, 1..(k - 1)) + f[k]
<1>1. 1..0 = {}
  OBVIOUS
<1>2. \A k \in 0..n : 1..k \in SUBSET S
  OBVIOUS
<1>3. \A k \in 1..n : k \in 1..k /\ (1..k) \ {k} = 1..(k - 1) /\ k \in S /\ k \in 0..n
  OBVIOUS
<1>4. SumFunctionOnSet(f, {}) = 0
  BY SumRecursion
<1>5. ASSUME NEW k \in 0..n
      PROVE  SumFunctionOnSet(f, 1..k) \in Int
  <2>1. 1..k \in SUBSET S
    BY <1>2
  <2> QED
    BY <2>1, SumRecursion
<1>6. ASSUME NEW k \in 1..n
      PROVE  SumFunctionOnSet(f, 1..k) = SumFunctionOnSet(f, 1..(k - 1)) + f[k]
  <2>1. k \in 1..k /\ (1..k) \ {k} = 1..(k - 1) /\ k \in S /\ 1..k \in SUBSET S
    BY <1>2, <1>3
  <2>2. SumFunctionOnSet(f, 1..k) = f[k] + SumFunctionOnSet(f, (1..k) \ {k})
    BY <2>1, SumStep, SMTT(30)
  <2>3. k - 1 \in 0..n
    OBVIOUS
  <2>4. SumFunctionOnSet(f, 1..(k - 1)) \in Int /\ f[k] \in Int
    BY <1>5, <2>1, <2>3
  <2>5. SumFunctionOnSet(f, 1..k) = f[k] + SumFunctionOnSet(f, 1..(k - 1))
    <3>1. (1..k) \ {k} = 1..(k - 1)
      BY <2>1
    <3> QED
      BY <2>2, <3>1, Zenon
  <2> QED
    BY <2>4, <2>5
<1> QED
  BY <1>1, <1>4, <1>5, <1>6

\* Sums up to k, one value after the other.
LEMMA PrefixSum ==
    ASSUME NEW n \in Nat, NEW f \in [1..n -> Int]
    PROVE  /\ SumFunctionOnSet(f, 1..0) = 0
           /\ \A k \in 0..n : SumFunctionOnSet(f, 1..k) \in Int
           /\ \A k \in 1..n :
                SumFunctionOnSet(f, 1..k) = SumFunctionOnSet(f, 1..(k - 1)) + f[k]
<1>1. IsFiniteSet(1..n)
  BY FS_Interval
<1> QED
  BY <1>1, SumUpTo

\* What the first k units cost.
Paid(stock, k) == SumFunctionOnSet(stock, 1..k)

\* What k units of the stock cost, one unit after the other.
LEMMA PaidNext ==
    ASSUME NEW stock \in Seq(Nat)
    PROVE  /\ Paid(stock, 0) = 0
           /\ \A k \in 0..Len(stock) : Paid(stock, k) \in Int
           /\ \A k \in 1..Len(stock) : Paid(stock, k) = Paid(stock, k - 1) + stock[k]
<1>1. Len(stock) \in Nat /\ stock \in [1..Len(stock) -> Int]
  <2>1. Len(stock) \in Nat /\ \A k \in 1..Len(stock) : stock[k] \in Int
    OBVIOUS
  <2>2. stock = [k \in 1..Len(stock) |-> stock[k]]
    OBVIOUS
  <2> QED
    BY <2>1, <2>2
<1> QED
  BY <1>1, PrefixSum DEF Paid

\* Units of one price cost the price each.
LEMMA PaidAlike ==
    ASSUME NEW stock \in Seq(Nat), NEW price \in Nat,
           NEW b \in 0..Len(stock), NEW a \in 0..b,
           \A k \in (a + 1)..b : stock[k] = price
    PROVE  Paid(stock, b) = Paid(stock, a) + (b - a) * price
<1> DEFINE P == {i \in 0..(b - a) : Paid(stock, a + i) = Paid(stock, a) + i * price}
<1>0. Len(stock) \in Nat /\ a \in Nat /\ b \in Nat /\ a <= b /\ b <= Len(stock) /\ b - a \in Nat
  OBVIOUS
<1>1. 0 \in P
  <2>1. a + 0 = a /\ 0 * price = 0 /\ 0 \in 0..(b - a)
    BY <1>0
  <2>2. Paid(stock, a) \in Int
    BY <1>0, PaidNext
  <2>3. Paid(stock, a + 0) = Paid(stock, a) + 0 * price
    BY <2>1, <2>2
  <2> QED
    BY <2>1, <2>3
<1>2. ASSUME NEW i \in 0..((b - a) - 1), i \in P
      PROVE  i + 1 \in P
  <2>1. /\ i + 1 \in 0..(b - a) /\ a + (i + 1) \in (a + 1)..b /\ a + (i + 1) \in 1..Len(stock)
        /\ (a + (i + 1)) - 1 = a + i /\ a \in 0..Len(stock)
    BY <1>0
  <2>2. Paid(stock, a + (i + 1)) = Paid(stock, a + i) + stock[a + (i + 1)]
    BY <2>1, PaidNext
  <2>3. stock[a + (i + 1)] = price
    BY <2>1
  <2>4. Paid(stock, a + i) = Paid(stock, a) + i * price
    BY <1>2
  <2>5. (i + 1) * price = i * price + price
    BY <1>0
  <2>6. Paid(stock, a) \in Int /\ i * price \in Int
    BY <2>1, PaidNext
  <2>7. Paid(stock, a + (i + 1)) = Paid(stock, a) + (i + 1) * price
    BY <2>2, <2>3, <2>4, <2>5, <2>6
  <2> QED
    BY <2>1, <2>7
<1> HIDE DEF P
<1>3. 0..(b - a) \subseteq P
  BY <1>0, <1>1, <1>2, InductionUpTo
<1>4. b - a \in 0..(b - a) /\ a + (b - a) = b
  BY <1>0
<1>5. b - a \in P
  BY <1>3, <1>4
<1> QED
  BY <1>4, <1>5 DEF P

\* The queue's items tell the price of every unit held, in order.
IsFlat(queue, stock, off) ==
    /\ off \in [0..Len(queue) -> Nat] /\ off[0] = 0 /\ off[Len(queue)] = Len(stock)
    /\ \A i \in 1..Len(queue) :
         /\ off[i] = off[i - 1] + queue[i].qty
         /\ \A k \in (off[i - 1] + 1)..off[i] : stock[k] = queue[i].price

Flat(queue, stock) == \E off : IsFlat(queue, stock, off)

\* An empty queue stands for an empty stock.
LEMMA FlatEmpty == Flat(<<>>, <<>>)
<1> DEFINE off == [i \in 0..0 |-> 0]
<1>1. Len(<<>>) = 0 /\ off \in [0..0 -> Nat] /\ off[0] = 0 /\ 1..0 = {}
  OBVIOUS
<1> HIDE DEF off
<1>2. IsFlat(<<>>, <<>>, off)
  BY <1>1 DEF IsFlat
<1> QED
  BY <1>2 DEF Flat

\* A purchase put at the end of the queue stands for its units at the end of the stock.
LEMMA FlatAppend ==
    ASSUME NEW queue \in Seq(Item), NEW stock \in Seq(Nat), Flat(queue, stock),
           NEW item \in Item, NEW more \in Seq(Nat), Len(more) = Len(stock) + item.qty,
           \A k \in 1..Len(stock) : more[k] = stock[k],
           \A k \in (Len(stock) + 1)..Len(more) : more[k] = item.price
    PROVE  Flat(Append(queue, item), more)
<1> DEFINE n == Len(queue)
           s == Len(stock)
           q == Append(queue, item)
<1>1. PICK off \in [0..n -> Nat] :
         /\ off[0] = 0 /\ off[n] = s
         /\ \A i \in 1..n : /\ off[i] = off[i - 1] + queue[i].qty
                            /\ \A k \in (off[i - 1] + 1)..off[i] : stock[k] = queue[i].price
  BY DEF Flat, IsFlat
<1>2. /\ n \in Nat /\ s \in Nat /\ item.qty \in Nat
      /\ Len(q) = n + 1 /\ q[n + 1] = item /\ \A i \in 1..n : q[i] = queue[i]
  BY DEF Item
<1>2a. \A i \in 1..n : queue[i].qty \in Nat
  <2>1. \A i \in 1..n : queue[i] \in Item
    OBVIOUS
  <2> QED
    BY <2>1 DEF Item
<1> HIDE DEF n, s, q
<1>3. \A i, j \in 0..n : i <= j => off[i] <= off[j]
  <2>1. \A i \in 1..n : off[i - 1] <= off[i]
    <3> TAKE i \in 1..n
    <3>1. i \in 0..n /\ i - 1 \in 0..n
      BY <1>2
    <3>2. off[i - 1] \in Nat /\ queue[i].qty \in Nat
      BY <1>2a, <3>1
    <3> QED
      BY <1>1, <3>2, SMTT(30)
  <2>2. off \in [0..n -> Int]
    OBVIOUS
  <2> QED
    BY <1>2, <2>1, <2>2, Ascends
<1> DEFINE wide == [i \in 0..(n + 1) |-> IF i = n + 1 THEN s + item.qty ELSE off[i]]
<1>4. wide \in [0..(n + 1) -> Nat]
  <2>1. \A i \in 0..(n + 1) : i # n + 1 => i \in 0..n
    BY <1>2
  <2>2. s + item.qty \in Nat
    BY <1>2
  <2> QED
    BY <2>1, <2>2
<1>5. wide[n + 1] = s + item.qty /\ n + 1 \in 0..(n + 1)
  BY <1>2
<1>6. \A i \in 0..n : wide[i] = off[i] /\ i \in 0..(n + 1) /\ off[i] \in Nat
  BY <1>2
<1> HIDE DEF wide
<1>7. ASSUME NEW i \in 1..(n + 1)
      PROVE  /\ wide[i] = wide[i - 1] + q[i].qty
             /\ \A k \in (wide[i - 1] + 1)..wide[i] : more[k] = q[i].price
  <2>1. CASE i = n + 1
    <3>1. i - 1 = n /\ n \in 0..n
      BY <1>2, <2>1
    <3>2. wide[i - 1] = s /\ wide[i] = s + item.qty /\ q[i] = item
      BY <1>1, <1>2, <1>5, <1>6, <2>1, <3>1
    <3>3. \A k \in (s + 1)..(s + item.qty) : more[k] = item.price
      BY DEF s
    <3> QED
      BY <3>2, <3>3
  <2>2. CASE i # n + 1
    <3>1. i \in 1..n /\ i \in 0..n /\ i - 1 \in 0..n /\ n \in 0..n
      BY <1>2, <2>2
    <3>2. wide[i - 1] = off[i - 1] /\ wide[i] = off[i] /\ q[i] = queue[i]
      BY <1>2, <1>6, <3>1
    <3>3. off[i] <= s /\ off[i] \in Nat /\ off[i - 1] \in Nat
      <4>1. i <= n
        BY <3>1
      <4> QED
        BY <1>1, <1>3, <1>6, <3>1, <4>1
    <3>4. \A k \in (off[i - 1] + 1)..off[i] : more[k] = stock[k]
      <4> TAKE k \in (off[i - 1] + 1)..off[i]
      <4>1. k \in 1..s
        BY <1>2, <3>3
      <4> QED
        BY <4>1 DEF s
    <3> QED
      BY <1>1, <3>1, <3>2, <3>4
  <2> QED
    BY <2>1, <2>2
<1>8. wide[0] = 0
  <2>1. 0 \in 0..n
    BY <1>2
  <2> QED
    BY <1>1, <1>6, <2>1
<1>9. wide[n + 1] = Len(more)
  BY <1>5 DEF s
<1>10. IsFlat(q, more, wide)
  BY <1>2, <1>4, <1>7, <1>8, <1>9 DEF IsFlat
<1> QED
  BY <1>10 DEF Flat, q

\* The elements of a part of a sequence.
LEMMA Section ==
    ASSUME NEW X, NEW s \in Seq(X), NEW b \in 0..Len(s), NEW a \in 0..b
    PROVE  /\ SubSeq(s, a + 1, b) \in Seq(X) /\ Len(SubSeq(s, a + 1, b)) = b - a
           /\ \A k \in 1..(b - a) : SubSeq(s, a + 1, b)[k] = s[a + k]
<1>1. Len(s) \in Nat /\ a \in Nat /\ b \in Nat /\ a <= b /\ b <= Len(s)
  OBVIOUS
<1>2. a + 1 \in Int /\ b \in Int /\ b - (a + 1) + 1 = b - a
  BY <1>1
<1>3. \A i \in (a + 1)..b : s[i] \in X
  <2> TAKE i \in (a + 1)..b
  <2>1. i \in 1..Len(s)
    BY <1>1
  <2> QED
    BY <2>1
<1>4. /\ SubSeq(s, a + 1, b) \in Seq(X)
      /\ Len(SubSeq(s, a + 1, b)) = IF a + 1 <= b THEN b - (a + 1) + 1 ELSE 0
      /\ \A i \in 1..(b - (a + 1) + 1) : SubSeq(s, a + 1, b)[i] = s[(a + 1) + i - 1]
  BY <1>2, <1>3, SubSeqProperties
<1>5. Len(SubSeq(s, a + 1, b)) = b - a
  BY <1>1, <1>4
<1>6. \A k \in 1..(b - a) : SubSeq(s, a + 1, b)[k] = s[a + k]
  <2> TAKE k \in 1..(b - a)
  <2>1. SubSeq(s, a + 1, b)[k] = s[(a + 1) + k - 1]
    BY <1>2, <1>4
  <2>2. (a + 1) + k - 1 = a + k
    BY <1>1
  <2> QED
    BY <2>1, <2>2
<1> QED
  BY <1>4, <1>5, <1>6

AtMost(a, b) == IF a <= b THEN a ELSE b

\* A match takes its units from the front of the stock, at their own prices, and
\* what it leaves is the rest of the stock.
LEMMA MatchIsFlat ==
    ASSUME NEW queue \in Seq(Item), NEW stock \in Seq(Nat), Flat(queue, stock), NEW qty \in Nat
    PROVE  LET sold == AtMost(qty, Len(stock))
           IN /\ Match(queue, qty) \in Matching
              /\ Match(queue, qty).remaining = qty - sold
              /\ Match(queue, qty).cost = Paid(stock, sold)
              /\ Flat(Match(queue, qty).left, SubSeq(stock, sold + 1, Len(stock)))
<1> DEFINE n == Len(queue)
           s == Len(stock)
<1>1. PICK off : IsFlat(queue, stock, off)
  BY DEF Flat
<1>2. /\ off \in [0..n -> Nat] /\ off[0] = 0 /\ off[n] = s
      /\ \A i \in 1..n : /\ off[i] = off[i - 1] + queue[i].qty
                         /\ \A k \in (off[i - 1] + 1)..off[i] : stock[k] = queue[i].price
  BY <1>1 DEF IsFlat
<1>3. PICK t \in [0..n -> Matching] :
         /\ t[0] = Unmatched(qty)
         /\ \A i \in 1..n : t[i] = MatchItem(t[i - 1], queue[i])
         /\ t[n] = Match(queue, qty)
  BY MatchTrace
<1>4. n \in Nat /\ s \in Nat /\ \A i \in 1..n : queue[i] \in Item
  OBVIOUS
<1> HIDE DEF n, s
<1>5. \A i, j \in 0..n : i <= j => off[i] <= off[j]
  <2>1. \A i \in 1..n : off[i - 1] <= off[i]
    <3> TAKE i \in 1..n
    <3>1. i - 1 \in 0..n
      BY <1>4
    <3>2. off[i - 1] \in Nat /\ queue[i].qty \in Nat
      BY <1>2, <1>4, <3>1 DEF Item
    <3> QED
      BY <1>2, <3>2
  <2>2. off \in [0..n -> Int]
    BY <1>2
  <2> QED
    BY <1>4, <2>1, <2>2, Ascends
<1>6. \A i \in 0..n : off[i] \in 0..s
  <2> TAKE i \in 0..n
  <2>1. n \in 0..n /\ i <= n /\ off[i] \in Nat
    BY <1>2, <1>4
  <2>2. off[i] <= s
    BY <1>2, <1>5, <2>1
  <2> QED
    BY <1>4, <2>1, <2>2
<1> DEFINE used(i) == AtMost(qty, off[i])
           P == {i \in 0..n : /\ t[i].remaining = qty - used(i)
                              /\ t[i].cost = Paid(stock, used(i))
                              /\ Flat(t[i].left, SubSeq(stock, used(i) + 1, off[i]))}
<1>7. 0 \in P
  <2>1. used(0) = 0 /\ 0 \in 0..n /\ qty - 0 = qty
    BY <1>2, <1>4 DEF AtMost
  <2>2. t[0].left = <<>> /\ t[0].cost = 0 /\ t[0].remaining = qty
    BY <1>3 DEF Unmatched
  <2>3. SubSeq(stock, 0 + 1, 0) = <<>>
    BY SubSeqEmpty
  <2> HIDE DEF used
  <2> QED
    BY <1>2, <2>1, <2>2, <2>3, FlatEmpty, PaidNext
<1>8. ASSUME NEW i \in 0..(n - 1), i \in P
      PROVE  i + 1 \in P
  <2> DEFINE j == i + 1
             item == queue[j]
             a == off[i]
             b == off[j]
             m == t[i]
  <2>1. j \in 1..n /\ j \in 0..n /\ i \in 0..n /\ j - 1 = i
    BY <1>4
  <2>2. /\ item \in Item /\ item.price \in Nat /\ item.qty \in Nat \ {0}
        /\ b = a + item.qty /\ \A k \in (a + 1)..b : stock[k] = item.price
    <3>1. item \in Item
      BY <1>4, <2>1
    <3>2. item.price \in Nat /\ item.qty \in Nat \ {0}
      BY <3>1 DEF Item
    <3> QED
      BY <1>2, <2>1, <3>1, <3>2
  <2>3. a \in Nat /\ b \in Nat /\ a \in 0..s /\ b \in 0..s /\ a < b
    <3>1. a \in 0..s /\ b \in 0..s
      BY <1>6, <2>1
    <3> HIDE DEF a, b, item, j
    <3> QED
      BY <1>4, <2>2, <3>1
  <2>4. t[j] = MatchItem(m, item) /\ m \in Matching
    BY <1>3, <2>1
  <2>5. /\ m.left \in Seq(Item) /\ m.cost \in Nat /\ m.remaining \in Nat
        /\ m = [left |-> m.left, cost |-> m.cost, remaining |-> m.remaining]
    BY <2>4 DEF Matching
  <2>6. /\ m.remaining = qty - used(i) /\ m.cost = Paid(stock, used(i))
        /\ Flat(m.left, SubSeq(stock, used(i) + 1, a))
    BY <1>8
  <2>7. used(i) = AtMost(qty, a) /\ used(j) = AtMost(qty, b)
    OBVIOUS
  <2> SUFFICES /\ t[j].remaining = qty - used(j)
               /\ t[j].cost = Paid(stock, used(j))
               /\ Flat(t[j].left, SubSeq(stock, used(j) + 1, b))
    BY <2>1
  <2> HIDE DEF j, item, a, b, m, used
  <2>8. CASE m.remaining = 0
    <3>1. qty <= a
      BY <2>3, <2>6, <2>7, <2>8 DEF AtMost
    <3>2. used(i) = qty /\ used(j) = qty /\ qty - qty = 0
      BY <2>3, <2>7, <3>1 DEF AtMost
    <3>3. t[j] = [left |-> Append(m.left, item), cost |-> m.cost, remaining |-> m.remaining]
      BY <2>4, <2>5, <2>8 DEF MatchItem
    <3> DEFINE x == SubSeq(stock, qty + 1, a)
               y == SubSeq(stock, qty + 1, b)
    <3>4. /\ x \in Seq(Nat) /\ Len(x) = a - qty
          /\ \A k \in 1..(a - qty) : x[k] = stock[qty + k]
      <4>1. qty \in 0..a /\ a \in 0..Len(stock)
        BY <2>3, <3>1 DEF s
      <4> QED
        BY <4>1, Section
    <3>5. /\ y \in Seq(Nat) /\ Len(y) = b - qty
          /\ \A k \in 1..(b - qty) : y[k] = stock[qty + k]
      <4>1. qty \in 0..b /\ b \in 0..Len(stock)
        BY <2>3, <3>1 DEF s
      <4> QED
        BY <4>1, Section
    <3> HIDE DEF x, y
    <3>6. Len(y) = Len(x) + item.qty
      BY <2>2, <2>3, <3>4, <3>5, SMTT(30)
    <3>7. \A k \in 1..Len(x) : y[k] = x[k]
      <4> TAKE k \in 1..Len(x)
      <4>1. k \in 1..(a - qty) /\ k \in 1..(b - qty)
        BY <2>3, <3>4
      <4> QED
        BY <3>4, <3>5, <4>1
    <3>8. \A k \in (Len(x) + 1)..Len(y) : y[k] = item.price
      <4> TAKE k \in (Len(x) + 1)..Len(y)
      <4>1. k \in 1..(b - qty) /\ qty + k \in (a + 1)..b
        BY <2>3, <3>1, <3>4, <3>5
      <4> QED
        BY <2>2, <3>5, <4>1
    <3>9. Flat(m.left, x)
      BY <2>6, <3>2 DEF x
    <3>10. Flat(Append(m.left, item), y)
      BY <2>2, <2>5, <3>4, <3>5, <3>6, <3>7, <3>8, <3>9, FlatAppend
    <3>11. t[j].left = Append(m.left, item) /\ t[j].cost = m.cost /\ t[j].remaining = 0
      BY <2>8, <3>3
    <3> QED
      BY <2>6, <3>2, <3>10, <3>11 DEF y
  <2>9. CASE m.remaining # 0 /\ item.qty <= m.remaining
    <3>1. used(i) = a /\ a < qty
      BY <2>3, <2>6, <2>7, <2>9 DEF AtMost
    <3>2. used(j) = b
      BY <2>2, <2>3, <2>6, <2>7, <2>9, <3>1 DEF AtMost
    <3>3. t[j] = [left |-> m.left, cost |-> m.cost + item.qty * item.price,
                  remaining |-> m.remaining - item.qty]
      BY <2>4, <2>5, <2>9 DEF MatchItem
    <3>4. t[j].remaining = qty - b
      BY <2>2, <2>3, <2>6, <3>1, <3>3
    <3>5. t[j].cost = Paid(stock, b)
      <4>1. b \in 0..Len(stock) /\ a \in 0..b
        BY <2>3 DEF s
      <4>2. Paid(stock, b) = Paid(stock, a) + (b - a) * item.price
        BY <2>2, <4>1, PaidAlike
      <4>3. b - a = item.qty
        BY <2>2, <2>3
      <4> QED
        BY <2>6, <3>1, <3>3, <4>2, <4>3
    <3>6. SubSeq(stock, a + 1, a) = <<>> /\ SubSeq(stock, b + 1, b) = <<>>
      <4>1. a + 1 \in Int /\ a \in Int /\ a < a + 1 /\ b + 1 \in Int /\ b \in Int /\ b < b + 1
        BY <2>3
      <4> QED
        BY <4>1, SubSeqEmpty
    <3>7. t[j].left = m.left
      BY <3>3
    <3> QED
      BY <2>6, <3>1, <3>2, <3>4, <3>5, <3>6, <3>7
  <2>10. CASE m.remaining # 0 /\ ~ (item.qty <= m.remaining)
    <3>1. used(i) = a /\ a < qty /\ m.remaining = qty - a
      BY <2>3, <2>6, <2>7, <2>10 DEF AtMost
    <3>2. used(j) = qty /\ qty < b /\ qty - qty = 0
      BY <2>2, <2>3, <2>7, <2>10, <3>1 DEF AtMost
    <3> DEFINE rest == [price |-> item.price, qty |-> item.qty - m.remaining]
    <3>3. t[j] = [left |-> <<rest>>, cost |-> m.cost + m.remaining * item.price,
                  remaining |-> 0]
      <4>1. item = [price |-> item.price, qty |-> item.qty]
        BY <2>2 DEF Item
      <4> QED
        BY <2>4, <2>5, <2>10, <4>1 DEF MatchItem
    <3>4. rest \in Item /\ rest.price = item.price /\ rest.qty = b - qty
      <4>1. item.qty - m.remaining = b - qty /\ b - qty \in Nat \ {0}
        BY <2>2, <2>3, <3>1, <3>2
      <4> QED
        BY <2>2, <4>1 DEF Item
    <3> HIDE DEF rest
    <3>5. t[j].cost = Paid(stock, qty)
      <4>1. qty \in 0..Len(stock) /\ a \in 0..qty
        BY <2>3, <3>1, <3>2 DEF s
      <4>2. \A k \in (a + 1)..qty : stock[k] = item.price
        <5> TAKE k \in (a + 1)..qty
        <5>1. k \in (a + 1)..b
          BY <2>3, <3>2
        <5> QED
          BY <2>2, <5>1
      <4>3. Paid(stock, qty) = Paid(stock, a) + (qty - a) * item.price
        BY <2>2, <4>1, <4>2, PaidAlike
      <4> QED
        BY <2>6, <3>1, <3>3, <4>3
    <3> DEFINE y == SubSeq(stock, qty + 1, b)
    <3>6. /\ y \in Seq(Nat) /\ Len(y) = b - qty
          /\ \A k \in 1..(b - qty) : y[k] = stock[qty + k]
      <4>1. qty \in 0..b /\ b \in 0..Len(stock)
        BY <2>3, <3>2 DEF s
      <4> QED
        BY <4>1, Section
    <3> HIDE DEF y
    <3>7. \A k \in 1..(b - qty) : y[k] = rest.price
      <4> TAKE k \in 1..(b - qty)
      <4>1. qty + k \in (a + 1)..b
        BY <2>3, <3>1
      <4> QED
        BY <2>2, <3>4, <3>6, <4>1
    <3>8. Flat(Append(<<>>, rest), y)
      <4>1. <<>> \in Seq(Item) /\ <<>> \in Seq(Nat) /\ Len(<<>>) = 0
        OBVIOUS
      <4>2. Len(y) = Len(<<>>) + rest.qty
        BY <2>3, <3>4, <3>6, <4>1
      <4>3. \A k \in 1..Len(<<>>) : y[k] = <<>>[k]
        BY <4>1
      <4>4. \A k \in (Len(<<>>) + 1)..Len(y) : y[k] = rest.price
        BY <3>6, <3>7, <4>1
      <4> QED
        BY <3>4, <3>6, <4>1, <4>2, <4>3, <4>4, FlatEmpty, FlatAppend
    <3>9. Append(<<>>, rest) = <<rest>>
      OBVIOUS
    <3>10. t[j].left = <<rest>> /\ t[j].remaining = 0
      BY <3>3
    <3> QED
      BY <3>2, <3>5, <3>8, <3>9, <3>10 DEF y
  <2> QED
    BY <2>8, <2>9, <2>10
<1> HIDE DEF P
<1>9. n \in P
  <2>1. 0..n \subseteq P
    BY <1>4, <1>7, <1>8, InductionUpTo
  <2> QED
    BY <1>4, <2>1
<1>10. used(n) = AtMost(qty, s) /\ t[n] \in Matching
  BY <1>2, <1>4
<1> QED
  BY <1>2, <1>3, <1>9, <1>10 DEF P, s

LEMMA PushType ==
    ASSUME NEW queue \in Seq(Item), NEW r \in Rows
    PROVE  Push(queue, r) \in Seq(Item)
<1> DEFINE Items == Seq(Item)
           item == [price |-> r.price, qty |-> r.qty]
<1>1. item \in Item
  BY DEF Item, Rows
<1> HIDE DEF item
<1>2. Append(queue, item) \in Seq(Item)
  BY <1>1
<1> QED
  BY <1>2 DEF Push, item

LEMMA MatchType ==
    ASSUME NEW queue \in Seq(Item), NEW qty \in Nat
    PROVE  Match(queue, qty) \in Matching
<1>1. PICK t \in [0..Len(queue) -> Matching] : t[Len(queue)] = Match(queue, qty)
  BY MatchTrace
<1>2. Len(queue) \in 0..Len(queue)
  OBVIOUS
<1> QED
  BY <1>1, <1>2

LEMMA MatchedCostType ==
    ASSUME NEW m \in Matching, NEW r \in Rows
    PROVE  MatchedCost(m, r) \in Nat
<1>1. m.cost \in Nat /\ m.remaining \in Nat
  BY DEF Matching
<1>2. r.price \in Nat
  BY DEF Rows
<1>3. m.remaining * r.price \in Nat
  BY <1>1, <1>2
<1> QED
  BY <1>1, <1>3 DEF MatchedCost

SymbolState == [queue : Seq(Item), realized : Int, fees : Int, open : Int, openCost : Int,
                wins : Int, losses : Int, byTrade : Seq(Int)]

SymbolStart == [queue |-> <<>>, realized |-> 0, fees |-> 0, open |-> 0, openCost |-> 0,
                wins |-> 0, losses |-> 0, byTrade |-> <<>>]

\* What a trade does to each of the figures.
LEMMA SymbolStepFields ==
    ASSUME NEW a \in SymbolState, NEW r \in Rows
    PROVE  LET m == Match(a.queue, r.qty)
               gain == r.price * r.qty - MatchedCost(m, r)
               b == SymbolStep(a, r)
           IN /\ b \in SymbolState
              /\ r.side = "BUY" =>
                   /\ b.queue = Push(a.queue, r) /\ b.realized = a.realized
                   /\ b.open = a.open + r.qty /\ b.byTrade = Append(a.byTrade, 0)
              /\ r.side # "BUY" =>
                   /\ b.queue = m.left /\ b.realized = a.realized + gain
                   /\ b.open = IF a.open - r.qty < 0 THEN 0 ELSE a.open - r.qty
                   /\ b.byTrade = Append(a.byTrade, gain)
              /\ b.fees = a.fees + r.fee
<1> DEFINE m == Match(a.queue, r.qty)
           spent == MatchedCost(m, r)
           gain == r.price * r.qty - spent
           open == a.open - r.qty
           Items == Seq(Item)
           Ints == Seq(Int)
<1>1. /\ a.queue \in Items /\ a.realized \in Int /\ a.fees \in Int /\ a.open \in Int
      /\ a.openCost \in Int /\ a.wins \in Int /\ a.losses \in Int /\ a.byTrade \in Ints
      /\ a = [queue |-> a.queue, realized |-> a.realized, fees |-> a.fees, open |-> a.open,
              openCost |-> a.openCost, wins |-> a.wins, losses |-> a.losses,
              byTrade |-> a.byTrade]
  BY DEF SymbolState
<1>2. r.price \in Nat /\ r.qty \in Nat /\ r.fee \in Nat
  BY DEF Rows
<1>3. m \in Matching
  BY <1>1, <1>2, MatchType
<1>4. m.left \in Items
  BY <1>3 DEF Matching
<1>5. spent \in Nat
  BY <1>3, MatchedCostType
<1>6. Push(a.queue, r) \in Items
  BY <1>1, PushType
<1>7. r.price * r.qty \in Nat /\ r.qty * r.price \in Nat
  BY <1>2
<1> HIDE DEF m, spent
<1>8. gain \in Int /\ a.realized + gain \in Int
  BY <1>1, <1>5, <1>7
<1>9. Append(a.byTrade, 0) \in Ints /\ Append(a.byTrade, gain) \in Ints
  BY <1>1, <1>8
<1>10. /\ a.fees + r.fee \in Int /\ a.open + r.qty \in Int /\ a.openCost + r.qty * r.price \in Int
       /\ open \in Int /\ a.openCost - spent \in Int /\ a.wins + 1 \in Int /\ a.losses + 1 \in Int
  <2>1. a.fees + r.fee \in Int /\ a.open + r.qty \in Int /\ open \in Int
    BY <1>1, <1>2, SMTT(30)
  <2>2. a.openCost + r.qty * r.price \in Int /\ a.openCost - spent \in Int
    BY <1>1, <1>5, <1>7
  <2>3. a.wins + 1 \in Int /\ a.losses + 1 \in Int
    BY <1>1
  <2> QED
    BY <2>1, <2>2, <2>3
<1> HIDE DEF Items, Ints, gain, open
<1>11. CASE r.side = "BUY"
  <2>1. SymbolStep(a, r)
          = [queue |-> Push(a.queue, r), realized |-> a.realized, fees |-> a.fees + r.fee,
             open |-> a.open + r.qty, openCost |-> a.openCost + r.qty * r.price,
             wins |-> a.wins, losses |-> a.losses, byTrade |-> Append(a.byTrade, 0)]
    BY <1>1, <1>11 DEF SymbolStep
  <2>2. SymbolStep(a, r) \in SymbolState
    BY <1>1, <1>6, <1>9, <1>10, <2>1 DEF SymbolState, Items, Ints
  <2> QED
    BY <1>11, <2>1, <2>2
<1>12. CASE r.side # "BUY"
  <2>1. SymbolStep(a, r)
          = [queue |-> m.left, realized |-> a.realized + gain, fees |-> a.fees + r.fee,
             open |-> IF open < 0 THEN 0 ELSE open, openCost |-> a.openCost - spent,
             wins |-> IF gain > 0 THEN a.wins + 1 ELSE a.wins,
             losses |-> IF gain < 0 THEN a.losses + 1 ELSE a.losses,
             byTrade |-> Append(a.byTrade, gain)]
    BY <1>1, <1>12 DEF SymbolStep, m, spent, gain, open
  <2>2. SymbolStep(a, r) \in SymbolState
    BY <1>1, <1>4, <1>8, <1>9, <1>10, <2>1 DEF SymbolState, Items, Ints
  <2> QED
    BY <1>12, <2>1, <2>2 DEF m, spent, gain, open
<1> QED
  BY <1>11, <1>12

LEMMA SymbolStartType == SymbolStart \in SymbolState
<1> DEFINE Items == Seq(Item)
           Ints == Seq(Int)
<1>1. <<>> \in Items /\ <<>> \in Ints
  OBVIOUS
<1> HIDE DEF Items, Ints
<1> QED
  BY <1>1 DEF SymbolStart, SymbolState, Items, Ints

\* The figures of one symbol come about trade by trade.
LEMMA SymbolTrace ==
    ASSUME NEW rows \in Seq(Rows)
    PROVE  \E t \in [0..Len(rows) -> SymbolState] :
              /\ t[0] = SymbolStart
              /\ \A i \in 1..Len(rows) : t[i] = SymbolStep(t[i - 1], rows[i])
              /\ t[Len(rows)] = SymbolPnL(rows)
<1> DEFINE n == Len(rows)
           D == 1..n
           base == SymbolStart
           step == [p \in SymbolState \X D |-> SymbolStep(p[1], rows[p[2]])]
           Body(h) == [s \in SUBSET D |->
                         IF s = {} THEN base ELSE SymbolStep(h[s \ {Max(s)}], rows[Max(s)])]
           k == CHOOSE h : h = Body(h)
<1>1. n \in Nat /\ DOMAIN rows = D /\ \A i \in D : rows[i] \in Rows
  OBVIOUS
<1>2. SymbolPnL(rows) = k[D]
  BY <1>1 DEF SymbolPnL, SymbolStart, FoldLeft, MapThenFoldSet
<1>3. base \in SymbolState
  BY SymbolStartType
<1>4. /\ step \in [SymbolState \X D -> SymbolState]
      /\ \A a \in SymbolState, i \in D : step[<<a, i>>] = SymbolStep(a, rows[i])
  <2>1. \A p \in SymbolState \X D : SymbolStep(p[1], rows[p[2]]) \in SymbolState
    BY <1>1, SymbolStepFields
  <2> QED
    BY <2>1
<1> HIDE DEF step, base, n
<1>5. IsFold(n, SymbolState, base, step)
  BY <1>1, <1>3, <1>4 DEF IsFold
<1>6. PICK g : IsFoldTable(n, SymbolState, base, step, g)
  BY <1>5, FoldTable
<1>7. g = Body(g)
  <2>1. g \in [SUBSET D -> SymbolState]
    BY <1>6 DEF IsFoldTable
  <2>2. ASSUME NEW s \in SUBSET D
        PROVE  g[s] = IF s = {} THEN base ELSE SymbolStep(g[s \ {Max(s)}], rows[Max(s)])
    <3>1. g[s] = IF s = {} THEN base ELSE step[<<g[s \ {Max(s)}], Max(s)>>]
      BY <1>6 DEF IsFoldTable
    <3>2. CASE s # {}
      <4>1. Max(s) \in D
        BY <1>1, <3>2, MaxIsMost
      <4>2. g[s \ {Max(s)}] \in SymbolState
        BY <2>1
      <4> QED
        BY <1>4, <3>1, <4>1, <4>2
    <3> QED
      BY <3>1, <3>2
  <2> QED
    BY <2>1, <2>2
<1>8. k = Body(k)
  <2> HIDE DEF Body
  <2>1. \E h : h = Body(h)
    BY <1>7
  <2> QED
    BY <2>1
<1>9. k[{}] = base
  BY <1>8
<1>10. \A s \in SUBSET D :
         s # {} /\ k[s \ {Max(s)}] \in SymbolState => k[s] = step[<<k[s \ {Max(s)}], Max(s)>>]
  <2> TAKE s \in SUBSET D
  <2> HAVE s # {} /\ k[s \ {Max(s)}] \in SymbolState
  <2>1. k[s] = Body(k)[s]
    BY <1>8
  <2> HIDE DEF k
  <2>2. Body(k)[s] = SymbolStep(k[s \ {Max(s)}], rows[Max(s)])
    OBVIOUS
  <2>3. Max(s) \in D
    BY <1>1, MaxIsMost
  <2> QED
    BY <1>4, <2>1, <2>2, <2>3
<1> HIDE DEF k
<1>11. IsFolded(n, SymbolState, base, step, k)
  BY <1>9, <1>10 DEF IsFolded
<1>12. PICK t : IsTrace(n, SymbolState, base, step, t, k[D])
  BY <1>5, <1>11, FoldTrace
<1>13. t \in [0..n -> SymbolState] /\ t[0] = base /\ t[n] = k[D]
  BY <1>12 DEF IsTrace
<1>14. \A i \in D : t[i] = SymbolStep(t[i - 1], rows[i])
  <2> TAKE i \in D
  <2>1. t[i] = step[<<t[i - 1], i>>]
    BY <1>12 DEF IsTrace
  <2>2. t[i - 1] \in SymbolState
    BY <1>1, <1>13
  <2> QED
    BY <1>4, <2>1, <2>2
<1> QED
  BY <1>2, <1>13, <1>14 DEF base, n

UnitState == [stock : Seq(Nat), realized : Int]

\* A fill unit by unit: a purchase adds units, a sale takes them from the front.
LEMMA UnitStepFields ==
    ASSUME NEW a \in UnitState, NEW r \in Rows
    PROVE  LET sold == AtMost(r.qty, Len(a.stock))
               b == UnitStep(a, r)
           IN /\ b \in UnitState
              /\ r.side = "BUY" =>
                   /\ b.stock = a.stock \o [k \in 1..r.qty |-> r.price]
                   /\ b.realized = a.realized
              /\ r.side # "BUY" =>
                   /\ b.stock = SubSeq(a.stock, sold + 1, Len(a.stock))
                   /\ b.realized = a.realized + (r.price * sold - Paid(a.stock, sold))
<1> DEFINE Stocks == Seq(Nat)
           len == Len(a.stock)
           sold == AtMost(r.qty, len)
           bought == [k \in 1..r.qty |-> r.price]
<1>1. /\ a.stock \in Stocks /\ a.realized \in Int
      /\ a = [stock |-> a.stock, realized |-> a.realized]
  BY DEF UnitState
<1>2. r.price \in Nat /\ r.qty \in Nat
  BY DEF Rows
<1>3. len \in Nat /\ sold \in 0..len /\ sold \in Nat /\ len \in 0..len
  BY <1>1, <1>2 DEF AtMost
<1>4. bought \in Stocks
  BY <1>2
<1>5. a.stock \o bought \in Stocks
  BY <1>1, <1>4, ConcatProperties
<1>6. SubSeq(a.stock, sold + 1, len) \in Stocks
  BY <1>1, <1>3, Section
<1>7. SumFunction([k \in 1..sold |-> r.price - a.stock[k]]) = r.price * sold - Paid(a.stock, sold)
  <2> DEFINE S == 1..sold
             f == [k \in S |-> r.price]
             g == [k \in S |-> a.stock[k]]
             h == [k \in S |-> f[k] - g[k]]
  <2>1. IsFiniteSet(S) /\ S \in SUBSET S
    BY <1>3, FS_Interval
  <2>2. \A k \in S : k \in 1..len /\ a.stock[k] \in Int
    BY <1>1, <1>3
  <2>3. /\ f \in [S -> Int] /\ g \in [S -> Int]
        /\ \A k \in S : f[k] = r.price /\ g[k] = a.stock[k]
    BY <1>2, <2>2
  <2>4. [k \in 1..sold |-> r.price - a.stock[k]] = h
    OBVIOUS
  <2>5. SumFunction(h) = SumFunctionOnSet(h, S)
    BY DEF SumFunction
  <2> HIDE DEF f, g
  <2>6. SumFunctionOnSet(h, S) = SumFunctionOnSet(f, S) - SumFunctionOnSet(g, S)
    BY <2>1, <2>3, SumMinus
  <2>7. SumFunctionOnSet(g, S) = Paid(a.stock, sold)
    <3> DEFINE W == 1..len
    <3>1. IsFiniteSet(W) /\ a.stock \in [W -> Int] /\ S \subseteq W
      <4>1. IsFiniteSet(W)
        BY <1>3, FS_Interval
      <4>1a. S \subseteq W
        BY <2>2
      <4>2. \A k \in W : a.stock[k] \in Int
        BY <1>1
      <4>3. a.stock = [k \in W |-> a.stock[k]]
        BY <1>1
      <4> HIDE DEF W
      <4> QED
        BY <4>1, <4>1a, <4>2, <4>3
    <3> HIDE DEF W, S
    <3>2. SumFunctionOnSet(g, S) = SumFunctionOnSet(a.stock, S)
      BY <2>1, <2>3, <3>1, SumSame
    <3> QED
      BY <3>2 DEF Paid, S
  <2>8. SumFunctionOnSet(f, S) = r.price * sold
    <3>1. f \in Seq(Nat) /\ Len(f) = sold
      BY <1>2, <1>3 DEF f
    <3>2. sold \in 0..Len(f) /\ 0 \in 0..sold /\ sold - 0 = sold
      BY <1>3, <3>1
    <3>3. \A k \in (0 + 1)..sold : f[k] = r.price
      BY <2>3
    <3>4. Paid(f, sold) = Paid(f, 0) + (sold - 0) * r.price
      BY <1>2, <3>1, <3>2, <3>3, PaidAlike
    <3>5. Paid(f, 0) = 0
      BY <3>1, PaidNext
    <3>6. Paid(f, sold) = r.price * sold
      BY <1>2, <1>3, <3>2, <3>4, <3>5
    <3> QED
      BY <3>6 DEF Paid
  <2> QED
    BY <2>4, <2>5, <2>6, <2>7, <2>8
<1>8. r.price * sold - Paid(a.stock, sold) \in Int
  <2>1. Paid(a.stock, sold) \in Int
    BY <1>1, <1>3, PaidNext
  <2>2. r.price * sold \in Int
    BY <1>2, <1>3
  <2> QED
    BY <2>1, <2>2
<1>9. CASE r.side = "BUY"
  <2>1. UnitStep(a, r) = [stock |-> a.stock \o bought, realized |-> a.realized]
    BY <1>1, <1>9 DEF UnitStep, BuyUnits
  <2> HIDE DEF bought, Stocks
  <2>2. UnitStep(a, r) \in UnitState
    BY <1>1, <1>5, <2>1 DEF UnitState, Stocks
  <2>3. UnitStep(a, r).stock = a.stock \o bought /\ UnitStep(a, r).realized = a.realized
    BY <2>1
  <2> QED
    BY <1>9, <2>2, <2>3 DEF bought
<1>10. CASE r.side # "BUY"
  <2>1. UnitStep(a, r)
          = [stock |-> SubSeq(a.stock, sold + 1, len),
             realized |-> a.realized + (r.price * sold - Paid(a.stock, sold))]
    BY <1>7, <1>10 DEF UnitStep, SellUnits, AtMost
  <2> HIDE DEF Stocks, sold, len
  <2>2. a.realized + (r.price * sold - Paid(a.stock, sold)) \in Int
    BY <1>1, <1>8
  <2>3. UnitStep(a, r) \in UnitState
    BY <1>6, <2>1, <2>2 DEF UnitState, Stocks
  <2>4. /\ UnitStep(a, r).stock = SubSeq(a.stock, sold + 1, len)
        /\ UnitStep(a, r).realized = a.realized + (r.price * sold - Paid(a.stock, sold))
    <3> DEFINE left == SubSeq(a.stock, sold + 1, len)
               sum == a.realized + (r.price * sold - Paid(a.stock, sold))
    <3>1. UnitStep(a, r) = [stock |-> left, realized |-> sum]
      BY <2>1
    <3> HIDE DEF left, sum
    <3>2. UnitStep(a, r).stock = left /\ UnitStep(a, r).realized = sum
      BY <3>1
    <3> QED
      BY <3>2 DEF left, sum
  <2> QED
    BY <1>10, <2>3, <2>4 DEF sold, len
<1> QED
  BY <1>9, <1>10

\* The same of the reference.
LEMMA UnitTrace ==
    ASSUME NEW rows \in Seq(Rows)
    PROVE  \E t \in [0..Len(rows) -> UnitState] :
              /\ t[0] = [stock |-> <<>>, realized |-> 0]
              /\ \A i \in 1..Len(rows) : t[i] = UnitStep(t[i - 1], rows[i])
              /\ t[Len(rows)] = UnitByUnit(rows)
<1> DEFINE n == Len(rows)
           D == 1..n
           base == [stock |-> <<>>, realized |-> 0]
           step == [p \in UnitState \X D |-> UnitStep(p[1], rows[p[2]])]
           Body(h) == [s \in SUBSET D |->
                         IF s = {} THEN base ELSE UnitStep(h[s \ {Max(s)}], rows[Max(s)])]
           k == CHOOSE h : h = Body(h)
<1>1. n \in Nat /\ DOMAIN rows = D /\ \A i \in D : rows[i] \in Rows
  OBVIOUS
<1>2. UnitByUnit(rows) = k[D]
  BY <1>1 DEF UnitByUnit, FoldLeft, MapThenFoldSet
<1>3. base \in UnitState
  BY DEF UnitState
<1>4. /\ step \in [UnitState \X D -> UnitState]
      /\ \A a \in UnitState, i \in D : step[<<a, i>>] = UnitStep(a, rows[i])
  <2>1. \A p \in UnitState \X D : UnitStep(p[1], rows[p[2]]) \in UnitState
    BY <1>1, UnitStepFields
  <2> QED
    BY <2>1
<1> HIDE DEF step, base, n
<1>5. IsFold(n, UnitState, base, step)
  BY <1>1, <1>3, <1>4 DEF IsFold
<1>6. PICK g : IsFoldTable(n, UnitState, base, step, g)
  BY <1>5, FoldTable
<1>7. g = Body(g)
  <2>1. g \in [SUBSET D -> UnitState]
    BY <1>6 DEF IsFoldTable
  <2>2. ASSUME NEW s \in SUBSET D
        PROVE  g[s] = IF s = {} THEN base ELSE UnitStep(g[s \ {Max(s)}], rows[Max(s)])
    <3>1. g[s] = IF s = {} THEN base ELSE step[<<g[s \ {Max(s)}], Max(s)>>]
      BY <1>6 DEF IsFoldTable
    <3>2. CASE s # {}
      <4>1. Max(s) \in D
        BY <1>1, <3>2, MaxIsMost
      <4>2. g[s \ {Max(s)}] \in UnitState
        BY <2>1
      <4> QED
        BY <1>4, <3>1, <4>1, <4>2
    <3> QED
      BY <3>1, <3>2
  <2> QED
    BY <2>1, <2>2
<1>8. k = Body(k)
  <2> HIDE DEF Body
  <2>1. \E h : h = Body(h)
    BY <1>7
  <2> QED
    BY <2>1
<1>9. k[{}] = base
  BY <1>8
<1>10. \A s \in SUBSET D :
         s # {} /\ k[s \ {Max(s)}] \in UnitState => k[s] = step[<<k[s \ {Max(s)}], Max(s)>>]
  <2> TAKE s \in SUBSET D
  <2> HAVE s # {} /\ k[s \ {Max(s)}] \in UnitState
  <2>1. k[s] = Body(k)[s]
    BY <1>8
  <2> HIDE DEF k
  <2>2. Body(k)[s] = UnitStep(k[s \ {Max(s)}], rows[Max(s)])
    OBVIOUS
  <2>3. Max(s) \in D
    BY <1>1, MaxIsMost
  <2> QED
    BY <1>4, <2>1, <2>2, <2>3
<1> HIDE DEF k
<1>11. IsFolded(n, UnitState, base, step, k)
  BY <1>9, <1>10 DEF IsFolded
<1>12. PICK t : IsTrace(n, UnitState, base, step, t, k[D])
  BY <1>5, <1>11, FoldTrace
<1>13. t \in [0..n -> UnitState] /\ t[0] = base /\ t[n] = k[D]
  BY <1>12 DEF IsTrace
<1>14. \A i \in D : t[i] = UnitStep(t[i - 1], rows[i])
  <2> TAKE i \in D
  <2>1. t[i] = step[<<t[i - 1], i>>]
    BY <1>12 DEF IsTrace
  <2>2. t[i - 1] \in UnitState
    BY <1>1, <1>13
  <2> QED
    BY <1>4, <2>1, <2>2
<1> QED
  BY <1>2, <1>13, <1>14 DEF base, n

\* The elements of two sequences joined.
LEMMA StockJoined ==
    ASSUME NEW s \in Seq(Nat), NEW t \in Seq(Nat)
    PROVE  /\ s \o t \in Seq(Nat) /\ Len(s \o t) = Len(s) + Len(t)
           /\ \A k \in 1..(Len(s) + Len(t)) :
                (s \o t)[k] = IF k <= Len(s) THEN s[k] ELSE t[k - Len(s)]
BY ConcatProperties

\* The queue stays the stock, item by item, and both realize the same.
LEMMA FifoOfRows ==
    ASSUME NEW rows \in Seq(Rows)
    PROVE  /\ SymbolPnL(rows).realized = UnitByUnit(rows).realized
           /\ SymbolPnL(rows).open = Len(UnitByUnit(rows).stock)
<1> DEFINE n == Len(rows)
<1>1. PICK p \in [0..n -> SymbolState] :
         /\ p[0] = SymbolStart
         /\ \A i \in 1..n : p[i] = SymbolStep(p[i - 1], rows[i])
         /\ p[n] = SymbolPnL(rows)
  BY SymbolTrace
<1>2. PICK u \in [0..n -> UnitState] :
         /\ u[0] = [stock |-> <<>>, realized |-> 0]
         /\ \A i \in 1..n : u[i] = UnitStep(u[i - 1], rows[i])
         /\ u[n] = UnitByUnit(rows)
  BY UnitTrace
<1>3. n \in Nat /\ \A i \in 1..n : rows[i] \in Rows
  OBVIOUS
<1> HIDE DEF n
<1> DEFINE P == {i \in 0..n : /\ p[i].realized = u[i].realized
                              /\ p[i].open = Len(u[i].stock)
                              /\ Flat(p[i].queue, u[i].stock)}
<1>4. 0 \in P
  <2>1. p[0].realized = 0 /\ p[0].open = 0 /\ p[0].queue = <<>>
    BY <1>1 DEF SymbolStart
  <2>2. u[0].realized = 0 /\ u[0].stock = <<>> /\ Len(<<>>) = 0 /\ 0 \in 0..n
    BY <1>2, <1>3
  <2> QED
    BY <2>1, <2>2, FlatEmpty
<1>5. ASSUME NEW i \in 0..(n - 1), i \in P
      PROVE  i + 1 \in P
  <2> DEFINE j == i + 1
             a == p[i]
             b == p[j]
             v == u[i]
             w == u[j]
             r == rows[j]
             sold == AtMost(r.qty, Len(v.stock))
             m == Match(a.queue, r.qty)
             gain == r.price * r.qty - MatchedCost(m, r)
  <2>1. j \in 1..n /\ j \in 0..n /\ j - 1 = i /\ i \in 0..n
    BY <1>3
  <2>2. a \in SymbolState /\ v \in UnitState /\ r \in Rows
    BY <1>1, <1>2, <1>3, <2>1
  <2>3. b = SymbolStep(a, r) /\ w = UnitStep(v, r)
    BY <1>1, <1>2, <2>1
  <2>4. a.realized = v.realized /\ a.open = Len(v.stock) /\ Flat(a.queue, v.stock)
    BY <1>5
  <2> SUFFICES b.realized = w.realized /\ b.open = Len(w.stock) /\ Flat(b.queue, w.stock)
    BY <2>1
  <2> HIDE DEF a, b, v, w, r, j, m, gain, sold
  <2>5. /\ r.side = "BUY" =>
              /\ b.queue = Push(a.queue, r) /\ b.realized = a.realized
              /\ b.open = a.open + r.qty
        /\ r.side # "BUY" =>
              /\ b.queue = m.left /\ b.realized = a.realized + gain
              /\ b.open = IF a.open - r.qty < 0 THEN 0 ELSE a.open - r.qty
    BY <2>2, <2>3, SymbolStepFields DEF m, gain
  <2>6. /\ r.side = "BUY" =>
             /\ w.stock = v.stock \o [k \in 1..r.qty |-> r.price]
             /\ w.realized = v.realized
        /\ r.side # "BUY" =>
             /\ w.stock = SubSeq(v.stock, sold + 1, Len(v.stock))
             /\ w.realized = v.realized + (r.price * sold - Paid(v.stock, sold))
    BY <2>2, <2>3, UnitStepFields DEF sold
  <2>7. r.qty \in Nat \ {0} /\ r.price \in Nat /\ a.queue \in Seq(Item) /\ v.stock \in Seq(Nat)
    BY <2>2 DEF Rows, SymbolState, UnitState
  <2>8. Len(v.stock) \in Nat
    BY <2>7
  <2>9. CASE r.side = "BUY"
    <3> DEFINE bought == [k \in 1..r.qty |-> r.price]
               item == [price |-> r.price, qty |-> r.qty]
               more == v.stock \o bought
               len == Len(v.stock)
    <3>1. bought \in Seq(Nat) /\ Len(bought) = r.qty /\ \A k \in 1..r.qty : bought[k] = r.price
      BY <2>7
    <3>2. item \in Item /\ item.qty = r.qty /\ item.price = r.price
      BY <2>7 DEF Item
    <3> HIDE DEF bought, item
    <3>3. /\ more \in Seq(Nat) /\ Len(more) = len + r.qty
          /\ \A k \in 1..(len + r.qty) : more[k] = IF k <= len THEN v.stock[k] ELSE bought[k - len]
      <4>1. /\ v.stock \o bought \in Seq(Nat)
            /\ Len(v.stock \o bought) = Len(v.stock) + Len(bought)
            /\ \A k \in 1..(Len(v.stock) + Len(bought)) :
                 (v.stock \o bought)[k]
                   = IF k <= Len(v.stock) THEN v.stock[k] ELSE bought[k - Len(v.stock)]
        BY <2>7, <3>1, StockJoined
      <4> HIDE DEF more
      <4>2. more = v.stock \o bought
        BY DEF more
      <4> QED
        BY <3>1, <4>1, <4>2
    <3> HIDE DEF more, len
    <3>4. \A k \in 1..len : more[k] = v.stock[k]
      <4> TAKE k \in 1..len
      <4>1. k \in 1..(len + r.qty) /\ k <= len
        BY <2>7, <2>8 DEF len
      <4> QED
        BY <3>3, <4>1
    <3>5. \A k \in (len + 1)..(len + r.qty) : more[k] = r.price
      <4> TAKE k \in (len + 1)..(len + r.qty)
      <4>1. k \in 1..(len + r.qty) /\ ~ (k <= len) /\ k - len \in 1..r.qty
        BY <2>7, <2>8 DEF len
      <4> QED
        BY <3>1, <3>3, <4>1
    <3>6. Flat(Append(a.queue, item), more)
      BY <2>4, <2>7, <3>2, <3>3, <3>4, <3>5, FlatAppend, ZenonT(30) DEF len
    <3>7. Push(a.queue, r) = Append(a.queue, item)
      BY DEF Push, item
    <3>8. w.stock = more
      BY <2>6, <2>9 DEF more, bought
    <3> QED
      BY <2>4, <2>5, <2>6, <2>9, <3>3, <3>6, <3>7, <3>8 DEF len
  <2>10. CASE r.side # "BUY"
    <3>1. /\ m \in Matching /\ m.remaining = r.qty - sold /\ m.cost = Paid(v.stock, sold)
          /\ Flat(m.left, SubSeq(v.stock, sold + 1, Len(v.stock)))
      BY <2>4, <2>7, MatchIsFlat DEF m, sold
    <3>2. sold \in 0..Len(v.stock) /\ sold \in Nat /\ Len(v.stock) \in 0..Len(v.stock)
      BY <2>7, <2>8 DEF sold, AtMost
    <3>3. Paid(v.stock, sold) \in Int
      BY <2>7, <3>2, PaidNext
    <3>4. gain = r.price * sold - Paid(v.stock, sold)
      <4>1. gain = r.price * r.qty - (Paid(v.stock, sold) + (r.qty - sold) * r.price)
        BY <3>1 DEF gain, MatchedCost
      <4>2. (r.qty - sold) * r.price = r.price * r.qty - r.price * sold
        BY <2>7, <3>2
      <4>3. r.price * r.qty \in Int /\ r.price * sold \in Int
        BY <2>7, <3>2
      <4> QED
        BY <3>3, <4>1, <4>2, <4>3
    <3>5. Len(SubSeq(v.stock, sold + 1, Len(v.stock))) = Len(v.stock) - sold
      BY <2>7, <3>2, Section
    <3>6. Len(v.stock) - sold = IF Len(v.stock) - r.qty < 0 THEN 0 ELSE Len(v.stock) - r.qty
      BY <2>7, <2>8 DEF sold, AtMost
    <3> QED
      BY <2>4, <2>5, <2>6, <2>10, <3>1, <3>4, <3>5, <3>6
  <2> QED
    BY <2>9, <2>10
<1> HIDE DEF P
<1>6. n \in P
  <2>1. 0..n \subseteq P
    BY <1>3, <1>4, <1>5, InductionUpTo
  <2> QED
    BY <1>3, <2>1
<1> QED
  BY <1>1, <1>2, <1>6 DEF P

\* What a query with a limit returns is a sequence of rows.
LEMMA NewestRows ==
    ASSUME NEW X, NEW rows \in Seq(X), NEW limit \in Nat
    PROVE  SupabaseTrades(rows, TRUE, limit) \in Seq(X)
<1> DEFINE b == IF Len(rows) < limit THEN Len(rows) ELSE limit
<1>1. b \in 0..Len(rows) /\ 0 \in 0..b /\ 0 + 1 = 1
  OBVIOUS
<1>2. SupabaseTrades(rows, TRUE, limit) = SubSeq(rows, 0 + 1, b)
  BY <1>1 DEF SupabaseTrades
<1> HIDE DEF b
<1> QED
  BY <1>1, <1>2, Section

LEMMA OfSymbolType ==
    ASSUME NEW rows \in Seq(Rows), NEW s
    PROVE  OfSymbol(rows, s) \in Seq(Rows)
<1> DEFINE places == {i \in DOMAIN rows : rows[i].symbol = s}
<1>1. places \in SUBSET (1..Len(rows))
  OBVIOUS
<1> HIDE DEF places
<1>2. Picked(rows, places) \in Seq(Rows)
  BY <1>1, PickedType
<1> QED
  BY <1>2 DEF OfSymbol, places

\* Profit is realized first in, first out, whatever the fills: the queue with its
\* partly used items tells what the units one by one would.
THEOREM FifoIsRight == Spec => []FifoIsUnitByUnit
<1>1. TableOK => FifoIsUnitByUnit
  <2> SUFFICES ASSUME TableOK, NEW s \in Symbols
               PROVE  LET rows == OfSymbol(SupabaseTrades(trades, TRUE, MaxFills), s)
                      IN /\ SymbolPnL(rows).realized = UnitByUnit(rows).realized
                         /\ SymbolPnL(rows).open = Len(UnitByUnit(rows).stock)
    BY DEF FifoIsUnitByUnit
  <2>1. trades \in Seq(Rows)
    BY DEF TableOK, Table
  <2>2. SupabaseTrades(trades, TRUE, MaxFills) \in Seq(Rows)
    BY <2>1, NewestRows, LedgerAssumption
  <2>3. OfSymbol(SupabaseTrades(trades, TRUE, MaxFills), s) \in Seq(Rows)
    BY <2>2, OfSymbolType
  <2> QED
    BY <2>3, FifoOfRows
<1> QED
  BY <1>1, TableHolds, PTL

-----------------------------------------------------------------------------
(* Curves. *)

Point == [time : Int, value : Int]

\* A curve drawn up to a time, at a value.
Drawn(curve, time, value) ==
    /\ curve \in Seq(Point) /\ curve # <<>>
    /\ Last(curve) = [time |-> time, value |-> value] /\ Ascending(curve)

\* The first point of a curve.
LEMMA ExtendStart ==
    ASSUME NEW time \in Int, NEW value \in Int
    PROVE  Drawn(Extend(<<>>, time, value), time, value)
<1> DEFINE p == [time |-> time, value |-> value]
           c == <<p>>
<1>1. p \in Point
  BY DEF Point
<1>2. Extend(<<>>, time, value) = Append(<<>>, p)
  BY DEF Extend
<1> HIDE DEF p
<1>3. Append(<<>>, p) = c /\ c \in Seq(Point) /\ Len(c) = 1 /\ c[1] = p /\ c # <<>>
  BY <1>1
<1> HIDE DEF c
<1>4. Last(c) = p
  BY <1>3 DEF Last
<1>5. Ascending(c)
  BY <1>3 DEF Ascending
<1> QED
  BY <1>2, <1>3, <1>4, <1>5 DEF Drawn, p

\* A later value goes behind the last, one of the same instant takes its place.
LEMMA ExtendDraws ==
    ASSUME NEW curve, NEW before \in Int, NEW old \in Int, Drawn(curve, before, old),
           NEW time \in Int, before <= time, NEW value \in Int
    PROVE  Drawn(Extend(curve, time, value), time, value)
<1> DEFINE p == [time |-> time, value |-> value]
           n == Len(curve)
<1>1. /\ curve \in Seq(Point) /\ curve # <<>> /\ Ascending(curve)
      /\ Last(curve).time = before
  BY DEF Drawn
<1>2. /\ n \in Nat \ {0} /\ n \in 1..n /\ Last(curve) = curve[n]
      /\ \A i \in 1..n : curve[i] \in Point
  BY <1>1 DEF Last
<1>3. p \in Point
  BY DEF Point
<1>4. \A i \in 1..n : curve[i].time \in Int
  BY <1>2 DEF Point
<1>5. \A i \in 1..(n - 1) : curve[i].time < curve[i + 1].time
  BY <1>1 DEF Ascending
<1>6. CASE Last(curve).time = time
  <2> DEFINE c == [curve EXCEPT ![n] = p]
  <2>1. Extend(curve, time, value) = [curve EXCEPT ![n].value = value]
    BY <1>1, <1>6 DEF Extend
  <2>2. [curve EXCEPT ![n].value = value] = c
    <3>1. curve[n] = [time |-> time, value |-> curve[n].value]
      BY <1>2, <1>6 DEF Point
    <3>2. [curve[n] EXCEPT !.value = value] = p
      BY <3>1
    <3> HIDE DEF p
    <3> QED
      BY <1>1, <1>2, <3>2
  <2> HIDE DEF p
  <2>3. /\ c \in Seq(Point) /\ Len(c) = n
        /\ \A i \in 1..n : c[i] = IF i = n THEN p ELSE curve[i]
    BY <1>1, <1>2, <1>3, ExceptSeq
  <2> HIDE DEF c
  <2>4. c # <<>> /\ Last(c) = p
    BY <1>2, <2>3 DEF Last
  <2>5. Ascending(c)
    <3> SUFFICES ASSUME NEW i \in 1..(n - 1)
                 PROVE  c[i].time < c[i + 1].time
      BY <2>3 DEF Ascending
    <3>1. i \in 1..n /\ i + 1 \in 1..n /\ i # n
      BY <1>2
    <3>2. c[i] = curve[i]
      BY <2>3, <3>1
    <3>3. c[i + 1].time = curve[i + 1].time
      BY <1>2, <1>6, <2>3, <3>1 DEF p
    <3> QED
      BY <1>5, <3>2, <3>3
  <2> QED
    BY <2>1, <2>2, <2>3, <2>4, <2>5 DEF Drawn, p
<1>7. CASE Last(curve).time # time
  <2> DEFINE c == Append(curve, p)
  <2>1. Extend(curve, time, value) = c
    BY <1>7 DEF Extend
  <2> HIDE DEF p
  <2>2. /\ c \in Seq(Point) /\ Len(c) = n + 1 /\ c[n + 1] = p
        /\ \A i \in 1..n : c[i] = curve[i]
    BY <1>1, <1>2, <1>3
  <2> HIDE DEF c
  <2>3. c # <<>> /\ Last(c) = p
    BY <1>2, <2>2 DEF Last
  <2>4. Ascending(c)
    <3> SUFFICES ASSUME NEW i \in 1..n
                 PROVE  c[i].time < c[i + 1].time
      BY <1>2, <2>2 DEF Ascending
    <3>1. CASE i = n
      <4>1. c[i].time = before /\ c[i + 1].time = time
        BY <1>1, <1>2, <2>2, <3>1 DEF p
      <4> QED
        BY <1>1, <1>7, <4>1
    <3>2. CASE i # n
      <4>1. i \in 1..(n - 1) /\ i + 1 \in 1..n
        BY <1>2, <3>2
      <4>2. c[i] = curve[i] /\ c[i + 1] = curve[i + 1]
        BY <2>2, <4>1
      <4> QED
        BY <1>5, <4>1, <4>2
    <3> QED
      BY <3>1, <3>2
  <2> QED
    BY <2>1, <2>2, <2>3, <2>4 DEF Drawn, p
<1> QED
  BY <1>6, <1>7

LEMMA DayType ==
    ASSUME NEW t \in Int
    PROVE  Day(t) \in Int
<1>1. t - 1 \in Int /\ DayLength \in Nat \ {0}
  BY LedgerAssumption
<1> QED
  BY <1>1 DEF Day

\* A later instant is on no earlier day.
LEMMA LaterDay ==
    ASSUME NEW t \in Int, NEW u \in Int, t <= u
    PROVE  Day(t) <= Day(u)
<1> DEFINE d == DayLength
           a == t - 1
           b == u - 1
           p == a \div d
           q == b \div d
<1>1. d \in Nat \ {0} /\ a \in Int /\ b \in Int /\ a <= b
  BY LedgerAssumption
<1>2. p \in Int /\ q \in Int
  BY <1>1
<1>3. d * p <= a /\ b < d * q + d
  <2>1. a % d \in Nat /\ a = d * p + (a % d)
    BY <1>1
  <2>2. b % d \in Nat /\ b % d < d /\ b = d * q + (b % d)
    BY <1>1
  <2>3. d * p \in Int /\ d * q \in Int
    BY <1>1, <1>2
  <2> HIDE DEF a, b, p, q, d
  <2>4. d * p <= a
    BY <1>1, <2>1, <2>3
  <2>5. b < d * q + d
    BY <1>1, <2>2, <2>3
  <2> QED
    BY <2>4, <2>5
<1> HIDE DEF a, b, p, q, d
<1>4. p <= q
  <2> SUFFICES ASSUME q + 1 <= p
               PROVE  FALSE
    BY <1>2
  <2>1. d * (q + 1) <= d * p
    BY <1>1, <1>2
  <2>2. d * (q + 1) = d * q + d
    BY <1>1, <1>2
  <2>3. d * p \in Int /\ d * q \in Int
    BY <1>1, <1>2
  <2> QED
    BY <1>1, <1>3, <2>1, <2>2, <2>3
<1> QED
  BY <1>4 DEF Day, p, q, a, b, d

-----------------------------------------------------------------------------
(* The bot's rows. *)

Position == [base : Int, cost : Int, profit : Int]

LEMMA BookStepType ==
    ASSUME NEW b \in Position, NEW r \in Rows
    PROVE  BookStep(b, r) \in Position
<1> DEFINE q == Signed(r)
           grows == b.base * q >= 0
           held == Abs(b.base)
           closed == IF r.qty <= held THEN r.qty ELSE held
           share == IF closed = held THEN b.cost ELSE closed * (b.cost \div held)
           cost == IF grows THEN b.cost + r.qty * r.price
                   ELSE b.cost - share + (r.qty - closed) * r.price
           profit == IF grows THEN 0
                     ELSE IF b.base > 0 THEN closed * r.price - share
                     ELSE share - closed * r.price
<1>1. b.base \in Int /\ b.cost \in Int
  BY DEF Position
<1>2. r.qty \in Nat /\ r.price \in Nat
  BY DEF Rows
<1>3. q \in Int
  BY <1>2 DEF Signed
<1>4. held \in Nat
  BY <1>1 DEF Abs
<1> HIDE DEF held
<1>5. closed \in Nat /\ (closed # held => held \in Nat \ {0})
  BY <1>2, <1>4
<1> HIDE DEF closed
<1>6. share \in Int
  <2>1. CASE closed = held
    BY <1>1, <2>1
  <2>2. CASE closed # held
    <3>1. b.cost \div held \in Int
      BY <1>1, <1>5, <2>2
    <3> DEFINE a == b.cost \div held
    <3> HIDE DEF a
    <3>2. closed * a \in Int
      BY <1>5, <3>1 DEF a
    <3> QED
      BY <2>2, <3>2 DEF a
  <2> QED
    BY <2>1, <2>2
<1> HIDE DEF q, share, grows
<1>7. b.base + q \in Int
  BY <1>1, <1>3
<1>8. /\ r.qty * r.price \in Int /\ closed * r.price \in Int
      /\ (r.qty - closed) * r.price \in Int
  BY <1>2, <1>5
<1>9. cost \in Int
  BY <1>1, <1>6, <1>8
<1>10. profit \in Int
  BY <1>6, <1>8
<1>11. BookStep(b, r) = [base |-> b.base + q, cost |-> cost, profit |-> profit]
  BY DEF BookStep, q, grows, held, closed, share
<1> HIDE DEF cost, profit
<1> QED
  BY <1>7, <1>9, <1>10, <1>11 DEF Position

\* A position comes about fill by fill.
LEMMA BookTrace ==
    ASSUME NEW rows \in Seq(Rows)
    PROVE  \E t \in [0..Len(rows) -> Position] :
              /\ t[0] = [base |-> 0, cost |-> 0, profit |-> 0]
              /\ \A i \in 1..Len(rows) : t[i] = BookStep(t[i - 1], rows[i])
              /\ t[Len(rows)] = Book(rows)
<1> DEFINE n == Len(rows)
           D == 1..n
           base == [base |-> 0, cost |-> 0, profit |-> 0]
           step == [p \in Position \X D |-> BookStep(p[1], rows[p[2]])]
           Body(h) == [s \in SUBSET D |->
                         IF s = {} THEN base ELSE BookStep(h[s \ {Max(s)}], rows[Max(s)])]
           k == CHOOSE h : h = Body(h)
<1>1. n \in Nat /\ DOMAIN rows = D /\ \A i \in D : rows[i] \in Rows
  OBVIOUS
<1>2. Book(rows) = k[D]
  BY <1>1 DEF Book, FoldLeft, MapThenFoldSet
<1>3. base \in Position
  BY DEF Position
<1>4. /\ step \in [Position \X D -> Position]
      /\ \A a \in Position, i \in D : step[<<a, i>>] = BookStep(a, rows[i])
  <2>1. \A p \in Position \X D : BookStep(p[1], rows[p[2]]) \in Position
    BY <1>1, BookStepType
  <2> QED
    BY <2>1
<1> HIDE DEF step, base, n
<1>5. IsFold(n, Position, base, step)
  BY <1>1, <1>3, <1>4 DEF IsFold
<1>6. PICK g : IsFoldTable(n, Position, base, step, g)
  BY <1>5, FoldTable
<1>7. g = Body(g)
  <2>1. g \in [SUBSET D -> Position]
    BY <1>6 DEF IsFoldTable
  <2>2. ASSUME NEW s \in SUBSET D
        PROVE  g[s] = IF s = {} THEN base ELSE BookStep(g[s \ {Max(s)}], rows[Max(s)])
    <3>1. g[s] = IF s = {} THEN base ELSE step[<<g[s \ {Max(s)}], Max(s)>>]
      BY <1>6 DEF IsFoldTable
    <3>2. CASE s # {}
      <4>1. Max(s) \in D
        BY <1>1, <3>2, MaxIsMost
      <4>2. g[s \ {Max(s)}] \in Position
        BY <2>1
      <4> QED
        BY <1>4, <3>1, <4>1, <4>2
    <3> QED
      BY <3>1, <3>2
  <2> QED
    BY <2>1, <2>2
<1>8. k = Body(k)
  <2> HIDE DEF Body
  <2>1. \E h : h = Body(h)
    BY <1>7
  <2> QED
    BY <2>1
<1>9. k[{}] = base
  BY <1>8
<1>10. \A s \in SUBSET D :
         s # {} /\ k[s \ {Max(s)}] \in Position => k[s] = step[<<k[s \ {Max(s)}], Max(s)>>]
  <2> TAKE s \in SUBSET D
  <2> HAVE s # {} /\ k[s \ {Max(s)}] \in Position
  <2>1. k[s] = Body(k)[s]
    BY <1>8
  <2> HIDE DEF k
  <2>2. Body(k)[s] = BookStep(k[s \ {Max(s)}], rows[Max(s)])
    OBVIOUS
  <2>3. Max(s) \in D
    BY <1>1, MaxIsMost
  <2> QED
    BY <1>4, <2>1, <2>2, <2>3
<1> HIDE DEF k
<1>11. IsFolded(n, Position, base, step, k)
  BY <1>9, <1>10 DEF IsFolded
<1>12. PICK t : IsTrace(n, Position, base, step, t, k[D])
  BY <1>5, <1>11, FoldTrace
<1>13. t \in [0..n -> Position] /\ t[0] = base /\ t[n] = k[D]
  BY <1>12 DEF IsTrace
<1>14. \A i \in D : t[i] = BookStep(t[i - 1], rows[i])
  <2> TAKE i \in D
  <2>1. t[i] = step[<<t[i - 1], i>>]
    BY <1>12 DEF IsTrace
  <2>2. t[i - 1] \in Position
    BY <1>1, <1>13
  <2> QED
    BY <1>4, <2>1, <2>2
<1> QED
  BY <1>2, <1>13, <1>14 DEF base, n

LEMMA BookType ==
    ASSUME NEW rows \in Seq(Rows)
    PROVE  Book(rows) \in Position
<1>1. PICK t \in [0..Len(rows) -> Position] : t[Len(rows)] = Book(rows)
  BY BookTrace
<1>2. Len(rows) \in 0..Len(rows)
  OBVIOUS
<1> QED
  BY <1>1, <1>2

LEMMA BucketType ==
    ASSUME NEW fills \in Seq(Rows), NEW i \in 1..Len(fills)
    PROVE  BucketAfter(fills, i) \in Position
<1> DEFINE places == {k \in 1..i : fills[k].bucket = fills[i].bucket}
<1>1. places \in SUBSET (1..Len(fills))
  OBVIOUS
<1> HIDE DEF places
<1>2. Picked(fills, places) \in Seq(Rows)
  BY <1>1, PickedType
<1>3. Book(Picked(fills, places)) \in Position
  BY <1>2, BookType
<1> QED
  BY <1>3 DEF BucketAfter, places

LEMMA ExtendType ==
    ASSUME NEW curve \in Seq(Point), NEW time \in Int, NEW value \in Int
    PROVE  Extend(curve, time, value) \in Seq(Point)
<1> DEFINE p == [time |-> time, value |-> value]
           n == Len(curve)
<1>1. p \in Point
  BY DEF Point
<1>2. Append(curve, p) \in Seq(Point)
  <2> HIDE DEF p
  <2> QED
    BY <1>1
<1>3. ASSUME curve # <<>>
      PROVE  [curve EXCEPT ![n].value = value] \in Seq(Point)
  <2>1. n \in 1..n /\ curve[n] \in Point
    BY <1>3
  <2> DEFINE q == [curve[n] EXCEPT !.value = value]
  <2>2. q \in Point
    BY <2>1 DEF Point
  <2>3. [curve EXCEPT ![n].value = value] = [curve EXCEPT ![n] = q]
    BY <2>1
  <2> HIDE DEF q
  <2>4. [curve EXCEPT ![n] = q] \in Seq(Point)
    BY <2>1, <2>2, ExceptSeq
  <2> QED
    BY <2>3, <2>4
<1> QED
  BY <1>2, <1>3 DEF Extend

Profit == [at : Int, net : Int]

ProfitState == [net : Int, grossProfit : Int, grossLoss : Int, profitCount : Int,
                lossCount : Int, totalTrades : Int, curve : Seq(Point), daily : Seq(Point)]

ProfitStart == [net |-> 0, grossProfit |-> 0, grossLoss |-> 0, profitCount |-> 0,
                lossCount |-> 0, totalTrades |-> 0, curve |-> <<>>, daily |-> <<>>]

LEMMA ProfitStartType == ProfitStart \in ProfitState
<1> DEFINE Points == Seq(Point)
<1>1. <<>> \in Points
  OBVIOUS
<1> HIDE DEF Points
<1> QED
  BY <1>1 DEF ProfitStart, ProfitState, Points

\* One row of the profits table, field by field.
LEMMA ProfitStepFields ==
    ASSUME NEW a \in ProfitState, NEW r \in Profit
    PROVE  LET b == ProfitStep(a, r)
           IN /\ b \in ProfitState /\ b.net = a.net + r.net
              /\ b.grossProfit + b.grossLoss = a.grossProfit + a.grossLoss + r.net
              /\ b.totalTrades = a.totalTrades + 1
              /\ b.curve = Extend(a.curve, r.at, a.net + r.net)
              /\ b.daily = Extend(a.daily, Day(r.at), a.net + r.net)
<1> DEFINE Points == Seq(Point)
           net == a.net + r.net
           curve == Extend(a.curve, r.at, net)
           daily == Extend(a.daily, Day(r.at), net)
           up == IF r.net > 0 THEN a.grossProfit + r.net ELSE a.grossProfit
           down == IF r.net < 0 THEN a.grossLoss + r.net ELSE a.grossLoss
           wins == IF r.net > 0 THEN a.profitCount + 1 ELSE a.profitCount
           losses == IF r.net < 0 THEN a.lossCount + 1 ELSE a.lossCount
<1>1. /\ a.net \in Int /\ a.grossProfit \in Int /\ a.grossLoss \in Int
      /\ a.profitCount \in Int /\ a.lossCount \in Int /\ a.totalTrades \in Int
      /\ a.curve \in Points /\ a.daily \in Points
  BY DEF ProfitState
<1>2. r.at \in Int /\ r.net \in Int
  BY DEF Profit
<1>3. net \in Int /\ Day(r.at) \in Int
  <2>1. net \in Int
    BY <1>1, <1>2
  <2>2. Day(r.at) \in Int
    BY <1>2, DayType
  <2> QED
    BY <2>1, <2>2
<1> HIDE DEF net
<1>4. curve \in Points /\ daily \in Points
  BY <1>1, <1>2, <1>3, ExtendType
<1>5. /\ up \in Int /\ down \in Int /\ wins \in Int /\ losses \in Int
      /\ a.totalTrades + 1 \in Int
  BY <1>1, <1>2, SMTT(30)
<1>6. up + down = a.grossProfit + a.grossLoss + r.net
  BY <1>1, <1>2
<1>7. ProfitStep(a, r)
        = [net |-> net, grossProfit |-> up, grossLoss |-> down, profitCount |-> wins,
           lossCount |-> losses, totalTrades |-> a.totalTrades + 1,
           curve |-> curve, daily |-> daily]
  BY DEF ProfitStep, net
<1> HIDE DEF Points, curve, daily, up, down, wins, losses
<1>8. ProfitStep(a, r) \in ProfitState
  BY <1>3, <1>4, <1>5, <1>7 DEF ProfitState, Points
<1>9. /\ ProfitStep(a, r).net = net /\ ProfitStep(a, r).grossProfit = up
      /\ ProfitStep(a, r).grossLoss = down
      /\ ProfitStep(a, r).curve = curve /\ ProfitStep(a, r).daily = daily
  BY <1>7
<1>10. ProfitStep(a, r).totalTrades = a.totalTrades + 1
  BY <1>7
<1>11. ProfitStep(a, r).grossProfit + ProfitStep(a, r).grossLoss
         = a.grossProfit + a.grossLoss + r.net
  BY <1>6, <1>9
<1> QED
  BY <1>8, <1>9, <1>10, <1>11 DEF net, curve, daily

\* The aggregate comes about row by row.
LEMMA ProfitTrace ==
    ASSUME NEW rows \in Seq(Profit)
    PROVE  \E t \in [0..Len(rows) -> ProfitState] :
              /\ t[0] = ProfitStart
              /\ \A i \in 1..Len(rows) : t[i] = ProfitStep(t[i - 1], rows[i])
              /\ t[Len(rows)] = AggregateProfits(rows)
<1> DEFINE n == Len(rows)
           D == 1..n
           base == ProfitStart
           step == [p \in ProfitState \X D |-> ProfitStep(p[1], rows[p[2]])]
           Body(h) == [s \in SUBSET D |->
                         IF s = {} THEN base ELSE ProfitStep(h[s \ {Max(s)}], rows[Max(s)])]
           k == CHOOSE h : h = Body(h)
<1>1. n \in Nat /\ DOMAIN rows = D /\ \A i \in D : rows[i] \in Profit
  OBVIOUS
<1>2. AggregateProfits(rows) = k[D]
  BY <1>1 DEF AggregateProfits, ProfitStart, FoldLeft, MapThenFoldSet
<1>3. base \in ProfitState
  BY ProfitStartType
<1>4. /\ step \in [ProfitState \X D -> ProfitState]
      /\ \A a \in ProfitState, i \in D : step[<<a, i>>] = ProfitStep(a, rows[i])
  <2>1. \A p \in ProfitState \X D : ProfitStep(p[1], rows[p[2]]) \in ProfitState
    BY <1>1, ProfitStepFields
  <2> QED
    BY <2>1
<1> HIDE DEF step, base, n
<1>5. IsFold(n, ProfitState, base, step)
  BY <1>1, <1>3, <1>4 DEF IsFold
<1>6. PICK g : IsFoldTable(n, ProfitState, base, step, g)
  BY <1>5, FoldTable
<1>7. g = Body(g)
  <2>1. g \in [SUBSET D -> ProfitState]
    BY <1>6 DEF IsFoldTable
  <2>2. ASSUME NEW s \in SUBSET D
        PROVE  g[s] = IF s = {} THEN base ELSE ProfitStep(g[s \ {Max(s)}], rows[Max(s)])
    <3>1. g[s] = IF s = {} THEN base ELSE step[<<g[s \ {Max(s)}], Max(s)>>]
      BY <1>6 DEF IsFoldTable
    <3>2. CASE s # {}
      <4>1. Max(s) \in D
        BY <1>1, <3>2, MaxIsMost
      <4>2. g[s \ {Max(s)}] \in ProfitState
        BY <2>1
      <4> QED
        BY <1>4, <3>1, <4>1, <4>2
    <3> QED
      BY <3>1, <3>2
  <2> QED
    BY <2>1, <2>2
<1>8. k = Body(k)
  <2> HIDE DEF Body
  <2>1. \E h : h = Body(h)
    BY <1>7
  <2> QED
    BY <2>1
<1>9. k[{}] = base
  BY <1>8
<1>10. \A s \in SUBSET D :
         s # {} /\ k[s \ {Max(s)}] \in ProfitState => k[s] = step[<<k[s \ {Max(s)}], Max(s)>>]
  <2> TAKE s \in SUBSET D
  <2> HAVE s # {} /\ k[s \ {Max(s)}] \in ProfitState
  <2>1. k[s] = Body(k)[s]
    BY <1>8
  <2> HIDE DEF k
  <2>2. Body(k)[s] = ProfitStep(k[s \ {Max(s)}], rows[Max(s)])
    OBVIOUS
  <2>3. Max(s) \in D
    BY <1>1, MaxIsMost
  <2> QED
    BY <1>4, <2>1, <2>2, <2>3
<1> HIDE DEF k
<1>11. IsFolded(n, ProfitState, base, step, k)
  BY <1>9, <1>10 DEF IsFolded
<1>12. PICK t : IsTrace(n, ProfitState, base, step, t, k[D])
  BY <1>5, <1>11, FoldTrace
<1>13. t \in [0..n -> ProfitState] /\ t[0] = base /\ t[n] = k[D]
  BY <1>12 DEF IsTrace
<1>14. \A i \in D : t[i] = ProfitStep(t[i - 1], rows[i])
  <2> TAKE i \in D
  <2>1. t[i] = step[<<t[i - 1], i>>]
    BY <1>12 DEF IsTrace
  <2>2. t[i - 1] \in ProfitState
    BY <1>1, <1>13
  <2> QED
    BY <1>4, <2>1, <2>2
<1> QED
  BY <1>2, <1>13, <1>14 DEF base, n

InTime(rows) == \A i, j \in 1..Len(rows) : i <= j => rows[i].at <= rows[j].at

\* A curve drawn up to a value ends at it, and its times ascend.
LEMMA DrawnTells ==
    ASSUME NEW curve, NEW time, NEW value, Drawn(curve, time, value)
    PROVE  Ascending(curve) /\ EndOf(curve) = value
BY DEF Drawn, EndOf

\* A curve without points ends at nothing.
LEMMA EmptyTells == Ascending(<<>>) /\ EndOf(<<>>) = 0
<1>1. Len(<<>>) = 0 /\ 1..(0 - 1) = {}
  OBVIOUS
<1> QED
  BY <1>1 DEF Ascending, EndOf

\* The totals of the profits table and its two curves agree, for rows in time order.
LEMMA ProfitsTell ==
    ASSUME NEW rows \in Seq(Profit), InTime(rows)
    PROVE  LET p == AggregateProfits(rows)
           IN /\ EndOf(p.curve) = p.net /\ EndOf(p.daily) = p.net
              /\ Ascending(p.curve) /\ Ascending(p.daily)
              /\ p.grossProfit + p.grossLoss = p.net
<1> DEFINE n == Len(rows)
<1>1. PICK t \in [0..n -> ProfitState] :
         /\ t[0] = ProfitStart
         /\ \A i \in 1..n : t[i] = ProfitStep(t[i - 1], rows[i])
         /\ t[n] = AggregateProfits(rows)
  BY ProfitTrace
<1>2. n \in Nat /\ \A i \in 1..n : rows[i] \in Profit
  OBVIOUS
<1> DEFINE Told(i) == IF i = 0 THEN t[i].curve = <<>> /\ t[i].daily = <<>> /\ t[i].net = 0
                      ELSE /\ Drawn(t[i].curve, rows[i].at, t[i].net)
                           /\ Drawn(t[i].daily, Day(rows[i].at), t[i].net)
           P == {i \in 0..n : t[i].grossProfit + t[i].grossLoss = t[i].net /\ Told(i)}
<1> HIDE DEF n
<1>3. 0 \in P
  BY <1>1, <1>2 DEF ProfitStart
<1>4. ASSUME NEW i \in 0..(n - 1), i \in P
      PROVE  i + 1 \in P
  <2> DEFINE j == i + 1
             a == t[i]
             b == t[j]
             r == rows[j]
  <2>1. j \in 1..n /\ j \in 0..n /\ j - 1 = i /\ i \in 0..n /\ j # 0
    BY <1>2
  <2>2. a \in ProfitState /\ r \in Profit /\ b = ProfitStep(a, r) /\ b \in ProfitState
    BY <1>1, <1>2, <2>1
  <2>3. /\ b.net = a.net + r.net
        /\ b.grossProfit + b.grossLoss = a.grossProfit + a.grossLoss + r.net
        /\ b.curve = Extend(a.curve, r.at, a.net + r.net)
        /\ b.daily = Extend(a.daily, Day(r.at), a.net + r.net)
    <3> HIDE DEF a, b, r, j, Told, P
    <3> QED
      BY <2>2, ProfitStepFields
  <2>4. /\ a.net \in Int /\ r.net \in Int /\ r.at \in Int /\ b.net \in Int /\ Day(r.at) \in Int
        /\ a.grossProfit \in Int /\ a.grossLoss \in Int
    BY <2>2, DayType DEF ProfitState, Profit
  <2>5. a.grossProfit + a.grossLoss = a.net /\ Told(i)
    BY <1>4
  <2>6. Drawn(b.curve, r.at, b.net) /\ Drawn(b.daily, Day(r.at), b.net)
    <3>1. CASE i = 0
      <4>1. a.curve = <<>> /\ a.daily = <<>>
        BY <2>5, <3>1
      <4> HIDE DEF a, b, r
      <4> QED
        BY <2>3, <2>4, <4>1, ExtendStart
    <3>2. CASE i # 0
      <4> DEFINE o == rows[i]
      <4>1. Drawn(a.curve, o.at, a.net) /\ Drawn(a.daily, Day(o.at), a.net)
        BY <2>5, <3>2
      <4>2. i \in 1..n /\ i <= j
        BY <2>1, <3>2
      <4>3. o.at <= r.at
        BY <2>1, <4>2 DEF InTime, n
      <4>4. o.at \in Int /\ Day(o.at) \in Int
        BY <1>2, <4>2, DayType DEF Profit
      <4> HIDE DEF a, b, r, o, Told, j
      <4>5. Day(o.at) <= Day(r.at)
        BY <2>4, <4>3, <4>4, LaterDay
      <4>6. Drawn(Extend(a.curve, r.at, b.net), r.at, b.net)
        BY <2>4, <4>1, <4>3, <4>4, ExtendDraws
      <4>7. Drawn(Extend(a.daily, Day(r.at), b.net), Day(r.at), b.net)
        BY <2>4, <4>1, <4>4, <4>5, ExtendDraws
      <4> QED
        BY <2>3, <4>6, <4>7
    <3> QED
      BY <3>1, <3>2
  <2>7. b.grossProfit + b.grossLoss = b.net
    BY <2>3, <2>4, <2>5
  <2> QED
    BY <2>1, <2>6, <2>7
<1>5. n \in P
  <2> HIDE DEF P
  <2>1. 0..n \subseteq P
    BY <1>2, <1>3, <1>4, InductionUpTo
  <2> QED
    BY <1>2, <2>1
<1>6. Told(n) /\ t[n].grossProfit + t[n].grossLoss = t[n].net
  BY <1>5
<1> DEFINE p == t[n]
<1>7. EndOf(p.curve) = p.net /\ EndOf(p.daily) = p.net /\ Ascending(p.curve) /\ Ascending(p.daily)
  <2>1. CASE n = 0
    BY <1>6, <2>1, EmptyTells
  <2>2. CASE n # 0
    <3>1. Drawn(p.curve, rows[n].at, p.net) /\ Drawn(p.daily, Day(rows[n].at), p.net)
      BY <1>6, <2>2
    <3> HIDE DEF p, Told
    <3> QED
      BY <3>1, DrawnTells
  <2> QED
    BY <2>1, <2>2
<1> QED
  BY <1>1, <1>6, <1>7

\* Rows picked from rows in time order are in time order.
LEMMA PickedInTime ==
    ASSUME NEW rows \in Seq(Rows), InTime(rows), NEW places \in SUBSET (1..Len(rows))
    PROVE  InTime(Picked(rows, places))
<1> DEFINE n == Cardinality(places)
<1>1. PICK at \in [1..n -> places] :
         /\ n \in Nat /\ Picked(rows, places) = [k \in 1..n |-> rows[at[k]]]
         /\ \A i, j \in 1..n : i < j => at[i] < at[j]
  BY PickedRows
<1>2. Len(Picked(rows, places)) = n
  BY PickedType
<1> HIDE DEF n
<1> SUFFICES ASSUME NEW i \in 1..n, NEW j \in 1..n, i <= j
             PROVE  rows[at[i]].at <= rows[at[j]].at
  BY <1>1, <1>2 DEF InTime
<1>3. at[i] \in 1..Len(rows) /\ at[j] \in 1..Len(rows)
  OBVIOUS
<1>4. at[i] <= at[j]
  <2>1. CASE i = j
    BY <1>3, <2>1
  <2>2. CASE i # j
    <3>1. i < j
      BY <2>2
    <3>2. at[i] < at[j]
      BY <1>1, <3>1
    <3> QED
      BY <1>3, <3>2
  <2> QED
    BY <2>1, <2>2
<1> QED
  BY <1>3, <1>4 DEF InTime

\* The newest rows turned round are the last ones, in their order.
LEMMA NewestTurned ==
    ASSUME NEW X, NEW rows \in Seq(X), NEW limit \in Nat
    PROVE  LET turned == Reverse(SupabaseTrades(rows, FALSE, limit))
               m == AtMost(limit, Len(rows))
           IN turned = [i \in 1..m |-> rows[Len(rows) - m + i]]
<1> DEFINE n == Len(rows)
           back == Reverse(rows)
           m == AtMost(limit, n)
           first == SubSeq(back, 0 + 1, m)
<1>1. n \in Nat /\ m \in 0..n /\ 0 \in 0..m /\ m - 0 = m
  BY DEF AtMost
<1>2. back \in Seq(X) /\ Len(back) = n /\ \A i \in 1..n : back[i] = rows[n - i + 1]
  BY DEF Reverse
<1>3. SupabaseTrades(rows, FALSE, limit) = first
  <2>1. (IF n < limit THEN n ELSE limit) = m /\ 0 + 1 = 1
    BY <1>1 DEF AtMost
  <2> QED
    BY <1>2, <2>1 DEF SupabaseTrades
<1> HIDE DEF back, m, n
<1>4. /\ first \in Seq(X) /\ Len(first) = m
      /\ \A k \in 1..m : first[k] = back[k]
  <2>1. m \in 0..Len(back) /\ 0 \in 0..m /\ m - 0 = m /\ \A k \in 1..m : 0 + k = k
    BY <1>1, <1>2
  <2>2. /\ first \in Seq(X) /\ Len(first) = m - 0
        /\ \A k \in 1..(m - 0) : first[k] = back[0 + k]
    BY <1>2, <2>1, Section
  <2> QED
    BY <2>1, <2>2
<1> HIDE DEF first
<1>5. Reverse(first) = [i \in 1..m |-> first[(m - i) + 1]]
  BY <1>4 DEF Reverse
<1>6. \A i \in 1..m : first[(m - i) + 1] = rows[n - m + i]
  <2> TAKE i \in 1..m
  <2>1. (m - i) + 1 \in 1..m /\ (m - i) + 1 \in 1..n /\ n - ((m - i) + 1) + 1 = n - m + i
    BY <1>1
  <2> QED
    BY <1>2, <1>4, <2>1
<1> QED
  BY <1>3, <1>5, <1>6 DEF m, n

\* The newest profit rows, turned round, are in time order.
LEMMA ProfitsOfFills ==
    ASSUME NEW fills \in Seq(Rows), InTime(fills)
    PROVE  LET rows == Reverse(SupabaseTrades(ProfitRows(fills), FALSE, ProfitLimit))
           IN rows \in Seq(Profit) /\ InTime(rows)
<1> DEFINE all == ProfitRows(fills)
           n == Len(fills)
           m == AtMost(ProfitLimit, n)
           rows == [i \in 1..m |-> all[n - m + i]]
<1>1. n \in Nat /\ DOMAIN fills = 1..n /\ \A i \in 1..n : fills[i] \in Rows
  OBVIOUS
<1>2. \A i \in 1..n : ProfitRow(fills, i) \in Profit /\ ProfitRow(fills, i).at = fills[i].at
  <2> TAKE i \in 1..n
  <2>1. BucketAfter(fills, i).profit \in Int
    BY BucketType DEF Position
  <2>2. fills[i].at \in Int /\ fills[i].fee \in Int
    BY <1>1, SMTT(30) DEF Rows
  <2>3. BucketAfter(fills, i).profit - fills[i].fee \in Int
    BY <2>1, <2>2
  <2> QED
    BY <2>2, <2>3 DEF ProfitRow, Profit
<1>3. /\ all \in Seq(Profit) /\ Len(all) = n
      /\ \A i \in 1..n : all[i] \in Profit /\ all[i].at = fills[i].at
  BY <1>1, <1>2 DEF ProfitRows
<1> HIDE DEF all
<1>4. ProfitLimit \in Nat /\ m \in 0..n
  BY <1>1, LedgerAssumption DEF AtMost
<1>5. Reverse(SupabaseTrades(all, FALSE, ProfitLimit)) = rows
  <2>1. Reverse(SupabaseTrades(all, FALSE, ProfitLimit))
          = [i \in 1..AtMost(ProfitLimit, Len(all)) |->
               all[Len(all) - AtMost(ProfitLimit, Len(all)) + i]]
    BY <1>3, <1>4, NewestTurned
  <2> QED
    BY <1>3, <2>1
<1> HIDE DEF n, m
<1>6. \A i \in 1..m : n - m + i \in 1..n /\ rows[i] = all[n - m + i]
  BY <1>1, <1>4
<1>7. rows \in Seq(Profit) /\ Len(rows) = m
  BY <1>3, <1>4, <1>6
<1> HIDE DEF rows
<1>8. InTime(rows)
  <2> SUFFICES ASSUME NEW i \in 1..m, NEW j \in 1..m, i <= j
               PROVE  rows[i].at <= rows[j].at
    BY <1>7 DEF InTime
  <2>1. rows[i].at = fills[n - m + i].at /\ rows[j].at = fills[n - m + j].at
    BY <1>3, <1>6
  <2>2. n - m + i \in 1..n /\ n - m + j \in 1..n /\ n - m + i <= n - m + j
    BY <1>1, <1>4, <1>6
  <2> QED
    BY <2>1, <2>2 DEF InTime, n
<1> QED
  BY <1>5, <1>7, <1>8 DEF all

LEMMA OfType ==
    ASSUME TableOK, NEW b
    PROVE  Of(b) \in Seq(Rows) /\ InTime(Of(b))
<1> DEFINE places == {i \in DOMAIN trades : trades[i].bot = b}
<1>1. trades \in Seq(Rows) /\ InTime(trades)
  BY DEF TableOK, Table, InTime
<1>2. places \in SUBSET (1..Len(trades))
  BY <1>1
<1> HIDE DEF places
<1>3. Picked(trades, places) \in Seq(Rows) /\ InTime(Picked(trades, places))
  BY <1>1, <1>2, PickedType, PickedInTime
<1> QED
  BY <1>3 DEF Of, places

CurveState == [queue : Seq(Item), sum : Int, points : Seq(Point)]

CurveStart == [queue |-> <<>>, sum |-> 0, points |-> <<>>]

LEMMA CurveStartType == CurveStart \in CurveState
<1> DEFINE Items == Seq(Item)
           Points == Seq(Point)
<1>1. <<>> \in Items /\ <<>> \in Points
  OBVIOUS
<1> HIDE DEF Items, Points
<1> QED
  BY <1>1 DEF CurveStart, CurveState, Items, Points

LEMMA FeeType ==
    ASSUME NEW r \in Rows
    PROVE  FeeInQuote(r) \in Int
<1>1. r.fee \in Nat /\ r.price \in Nat
  BY DEF Rows
<1> QED
  BY <1>1 DEF FeeInQuote

\* One trade of the profit curve, field by field.
LEMMA CurveStepFields ==
    ASSUME NEW a \in CurveState, NEW r \in Rows
    PROVE  LET m == Match(a.queue, r.qty)
               gain == IF r.side = "BUY" THEN 0 ELSE r.price * r.qty - MatchedCost(m, r)
               b == CurveStep(a, r)
           IN /\ b \in CurveState
              /\ b.queue = IF r.side = "BUY" THEN Push(a.queue, r) ELSE m.left
              /\ b.sum = a.sum + gain - FeeInQuote(r)
              /\ b.points = Extend(a.points, r.at, a.sum + gain - FeeInQuote(r))
<1> DEFINE Items == Seq(Item)
           Points == Seq(Point)
           m == Match(a.queue, r.qty)
           spent == MatchedCost(m, r)
           gain == IF r.side = "BUY" THEN 0 ELSE r.price * r.qty - spent
           fee == FeeInQuote(r)
           sum == a.sum + gain - fee
           queue == IF r.side = "BUY" THEN Push(a.queue, r) ELSE m.left
           points == Extend(a.points, r.at, sum)
<1>1. a.queue \in Items /\ a.sum \in Int /\ a.points \in Points
  BY DEF CurveState
<1>2. r.at \in Int /\ r.qty \in Nat /\ r.price \in Nat
  BY DEF Rows
<1>3. m \in Matching
  BY <1>1, <1>2, MatchType
<1>4. m.left \in Items
  BY <1>3 DEF Matching
<1>5. spent \in Nat
  BY <1>3, MatchedCostType
<1>6. Push(a.queue, r) \in Items
  BY <1>1, PushType
<1>7. fee \in Int
  BY FeeType
<1>8. r.price * r.qty \in Int
  BY <1>2
<1> HIDE DEF m, spent, fee
<1>9. sum \in Int
  BY <1>1, <1>5, <1>7, <1>8
<1> HIDE DEF gain, sum
<1>10. points \in Points
  BY <1>1, <1>2, <1>9, ExtendType
<1>11. queue \in Items
  BY <1>4, <1>6
<1>12. CurveStep(a, r) = [queue |-> queue, sum |-> sum, points |-> points]
  BY DEF CurveStep, m, spent, gain, fee, sum
<1> HIDE DEF queue, points, Items, Points
<1>13. CurveStep(a, r) \in CurveState
  BY <1>9, <1>10, <1>11, <1>12 DEF CurveState, Items, Points
<1>14. /\ CurveStep(a, r).queue = queue /\ CurveStep(a, r).sum = sum
       /\ CurveStep(a, r).points = points
  BY <1>12
<1> QED
  BY <1>13, <1>14 DEF queue, points, sum, gain, fee, spent, m

\* The curve of a symbol comes about trade by trade.
LEMMA CurveTrace ==
    ASSUME NEW rows \in Seq(Rows)
    PROVE  \E t \in [0..Len(rows) -> CurveState] :
              /\ t[0] = CurveStart
              /\ \A i \in 1..Len(rows) : t[i] = CurveStep(t[i - 1], rows[i])
              /\ t[Len(rows)] = CurveWalk(rows)
<1> DEFINE n == Len(rows)
           D == 1..n
           base == CurveStart
           step == [p \in CurveState \X D |-> CurveStep(p[1], rows[p[2]])]
           Body(h) == [s \in SUBSET D |->
                         IF s = {} THEN base ELSE CurveStep(h[s \ {Max(s)}], rows[Max(s)])]
           k == CHOOSE h : h = Body(h)
<1>1. n \in Nat /\ DOMAIN rows = D /\ \A i \in D : rows[i] \in Rows
  OBVIOUS
<1>2. CurveWalk(rows) = k[D]
  BY <1>1 DEF CurveWalk, CurveStart, FoldLeft, MapThenFoldSet
<1>3. base \in CurveState
  BY CurveStartType
<1>4. /\ step \in [CurveState \X D -> CurveState]
      /\ \A a \in CurveState, i \in D : step[<<a, i>>] = CurveStep(a, rows[i])
  <2>1. \A p \in CurveState \X D : CurveStep(p[1], rows[p[2]]) \in CurveState
    BY <1>1, CurveStepFields
  <2> QED
    BY <2>1
<1> HIDE DEF step, base, n
<1>5. IsFold(n, CurveState, base, step)
  BY <1>1, <1>3, <1>4 DEF IsFold
<1>6. PICK g : IsFoldTable(n, CurveState, base, step, g)
  BY <1>5, FoldTable
<1>7. g = Body(g)
  <2>1. g \in [SUBSET D -> CurveState]
    BY <1>6 DEF IsFoldTable
  <2>2. ASSUME NEW s \in SUBSET D
        PROVE  g[s] = IF s = {} THEN base ELSE CurveStep(g[s \ {Max(s)}], rows[Max(s)])
    <3>1. g[s] = IF s = {} THEN base ELSE step[<<g[s \ {Max(s)}], Max(s)>>]
      BY <1>6 DEF IsFoldTable
    <3>2. CASE s # {}
      <4>1. Max(s) \in D
        BY <1>1, <3>2, MaxIsMost
      <4>2. g[s \ {Max(s)}] \in CurveState
        BY <2>1
      <4> QED
        BY <1>4, <3>1, <4>1, <4>2
    <3> QED
      BY <3>1, <3>2
  <2> QED
    BY <2>1, <2>2
<1>8. k = Body(k)
  <2> HIDE DEF Body
  <2>1. \E h : h = Body(h)
    BY <1>7
  <2> QED
    BY <2>1
<1>9. k[{}] = base
  BY <1>8
<1>10. \A s \in SUBSET D :
         s # {} /\ k[s \ {Max(s)}] \in CurveState => k[s] = step[<<k[s \ {Max(s)}], Max(s)>>]
  <2> TAKE s \in SUBSET D
  <2> HAVE s # {} /\ k[s \ {Max(s)}] \in CurveState
  <2>1. k[s] = Body(k)[s]
    BY <1>8
  <2> HIDE DEF k
  <2>2. Body(k)[s] = CurveStep(k[s \ {Max(s)}], rows[Max(s)])
    OBVIOUS
  <2>3. Max(s) \in D
    BY <1>1, MaxIsMost
  <2> QED
    BY <1>4, <2>1, <2>2, <2>3
<1> HIDE DEF k
<1>11. IsFolded(n, CurveState, base, step, k)
  BY <1>9, <1>10 DEF IsFolded
<1>12. PICK t : IsTrace(n, CurveState, base, step, t, k[D])
  BY <1>5, <1>11, FoldTrace
<1>13. t \in [0..n -> CurveState] /\ t[0] = base /\ t[n] = k[D]
  BY <1>12 DEF IsTrace
<1>14. \A i \in D : t[i] = CurveStep(t[i - 1], rows[i])
  <2> TAKE i \in D
  <2>1. t[i] = step[<<t[i - 1], i>>]
    BY <1>12 DEF IsTrace
  <2>2. t[i - 1] \in CurveState
    BY <1>1, <1>13
  <2> QED
    BY <1>4, <2>1, <2>2
<1> QED
  BY <1>2, <1>13, <1>14 DEF base, n

\* The curve ends at what its symbol realized less the fees: both walks keep the
\* same queue.
LEMMA CurveOfSymbol ==
    ASSUME NEW rows \in Seq(Rows), InTime(rows)
    PROVE  /\ EndOf(PnlCurve(rows)) + SumFunction([i \in DOMAIN rows |-> FeeInQuote(rows[i])])
                = SymbolPnL(rows).realized
           /\ Ascending(PnlCurve(rows))
<1> DEFINE n == Len(rows)
           fees == [i \in 1..n |-> FeeInQuote(rows[i])]
           paid(i) == SumFunctionOnSet(fees, 1..i)
<1>1. PICK p \in [0..n -> SymbolState] :
         /\ p[0] = SymbolStart
         /\ \A i \in 1..n : p[i] = SymbolStep(p[i - 1], rows[i])
         /\ p[n] = SymbolPnL(rows)
  BY SymbolTrace
<1>2. PICK c \in [0..n -> CurveState] :
         /\ c[0] = CurveStart
         /\ \A i \in 1..n : c[i] = CurveStep(c[i - 1], rows[i])
         /\ c[n] = CurveWalk(rows)
  BY CurveTrace
<1>3. n \in Nat /\ DOMAIN rows = 1..n /\ \A i \in 1..n : rows[i] \in Rows
  OBVIOUS
<1>4. fees \in [1..n -> Int] /\ \A i \in 1..n : fees[i] = FeeInQuote(rows[i])
  BY <1>3, FeeType
<1> HIDE DEF n, fees
<1>5. /\ paid(0) = 0 /\ \A i \in 0..n : paid(i) \in Int
      /\ \A i \in 1..n : paid(i) = paid(i - 1) + fees[i]
  BY <1>3, <1>4, PrefixSum
<1> DEFINE Told(i) == IF i = 0 THEN c[i].points = <<>> /\ c[i].sum = 0
                      ELSE Drawn(c[i].points, rows[i].at, c[i].sum)
           P == {i \in 0..n : /\ c[i].queue = p[i].queue
                              /\ c[i].sum + paid(i) = p[i].realized
                              /\ Told(i)}
<1> HIDE DEF paid
<1>6. 0 \in P
  <2>1. /\ c[0].queue = <<>> /\ c[0].sum = 0 /\ c[0].points = <<>>
        /\ p[0].queue = <<>> /\ p[0].realized = 0
    BY <1>1, <1>2 DEF CurveStart, SymbolStart
  <2>2. 0 \in 0..n
    BY <1>3
  <2> QED
    BY <1>5, <2>1, <2>2
<1>7. ASSUME NEW i \in 0..(n - 1), i \in P
      PROVE  i + 1 \in P
  <2> DEFINE j == i + 1
             a == c[i]
             b == c[j]
             v == p[i]
             w == p[j]
             r == rows[j]
             m == Match(a.queue, r.qty)
             spent == MatchedCost(m, r)
             gain == IF r.side = "BUY" THEN 0 ELSE r.price * r.qty - spent
             fee == FeeInQuote(r)
  <2>1. j \in 1..n /\ j \in 0..n /\ j - 1 = i /\ i \in 0..n /\ j # 0
    BY <1>3
  <2>2. /\ a \in CurveState /\ v \in SymbolState /\ r \in Rows /\ w \in SymbolState
        /\ b = CurveStep(a, r) /\ w = SymbolStep(v, r)
    BY <1>1, <1>2, <1>3, <2>1
  <2>3. a.queue = v.queue /\ a.sum + paid(i) = v.realized /\ Told(i)
    BY <1>7
  <2>4. paid(j) = paid(i) + fee /\ paid(i) \in Int /\ fee \in Int
    <3>1. paid(j) = paid(i) + fees[j] /\ paid(i) \in Int
      BY <1>5, <2>1
    <3>2. fees[j] = fee /\ fees[j] \in Int
      BY <1>4, <2>1
    <3> QED
      BY <3>1, <3>2
  <2>5. /\ b.queue = IF r.side = "BUY" THEN Push(a.queue, r) ELSE m.left
        /\ b.sum = a.sum + gain - fee
        /\ b.points = Extend(a.points, r.at, a.sum + gain - fee)
    <3> HIDE DEF a, b, v, w, r, j, P, Told
    <3> QED
      BY <2>2, CurveStepFields
  <2>6. /\ r.side = "BUY" => w.queue = Push(v.queue, r) /\ w.realized = v.realized
        /\ r.side # "BUY" => /\ w.queue = m.left
                             /\ w.realized = v.realized + (r.price * r.qty - spent)
    <3> HIDE DEF a, b, v, w, r, j, P, Told
    <3> QED
      BY <2>2, <2>3, SymbolStepFields
  <2>7. /\ a.sum \in Int /\ v.realized \in Int /\ gain \in Int /\ b.sum \in Int
        /\ r.at \in Int
    <3>1. a.sum \in Int /\ v.realized \in Int /\ a.queue \in Seq(Item)
      BY <2>2 DEF CurveState, SymbolState
    <3>2. r.at \in Int /\ r.qty \in Nat /\ r.price \in Nat
      BY <2>2, SMTT(30) DEF Rows
    <3>3. m \in Matching
      BY <3>1, <3>2, MatchType
    <3>4. spent \in Nat
      BY <2>2, <3>3, MatchedCostType
    <3> HIDE DEF a, b, v, r, m, spent, fee
    <3>5. gain \in Int
      BY <3>2, <3>4
    <3> QED
      BY <2>4, <2>5, <3>1, <3>2, <3>5, SMTT(30)
  <2>8. Told(j)
    <3> SUFFICES Drawn(b.points, r.at, b.sum)
      BY <2>1
    <3>1. CASE i = 0
      <4>1. a.points = <<>>
        BY <2>3, <3>1
      <4> HIDE DEF a, b, r, gain, fee
      <4> QED
        BY <2>5, <2>7, <4>1, ExtendStart
    <3>2. CASE i # 0
      <4> DEFINE o == rows[i]
      <4>1. Drawn(a.points, o.at, a.sum)
        BY <2>3, <3>2
      <4>2. i \in 1..n /\ i <= j
        BY <2>1, <3>2
      <4>3. o.at <= r.at
        BY <2>1, <4>2 DEF InTime, n
      <4>4. o.at \in Int
        BY <1>3, <4>2 DEF Rows
      <4> HIDE DEF a, b, r, o, Told, j, gain, fee
      <4> QED
        BY <2>5, <2>7, <4>1, <4>3, <4>4, ExtendDraws
    <3> QED
      BY <3>1, <3>2
  <2>9. b.queue = w.queue
    <3> HIDE DEF a, b, v, w, r, m, Told, P, gain, spent
    <3> QED
      BY <2>3, <2>5, <2>6
  <2>10. b.sum + paid(j) = w.realized
    <3>1. w.realized = v.realized + gain
      <4> HIDE DEF a, b, v, w, r, m, Told, P, spent
      <4>1. CASE r.side = "BUY"
        BY <2>6, <2>7, <4>1
      <4>2. CASE r.side # "BUY"
        BY <2>6, <4>2
      <4> QED
        BY <4>1, <4>2
    <3> HIDE DEF a, b, v, w, r, m, gain, fee, j
    <3> QED
      BY <2>3, <2>4, <2>5, <2>7, <3>1, SMTT(30)
  <2> QED
    BY <2>1, <2>8, <2>9, <2>10
<1>8. n \in P
  <2> HIDE DEF P
  <2>1. 0..n \subseteq P
    BY <1>3, <1>6, <1>7, InductionUpTo
  <2> QED
    BY <1>3, <2>1
<1>9. /\ c[n].sum + paid(n) = p[n].realized /\ Told(n)
  BY <1>8
<1>10. EndOf(c[n].points) = c[n].sum /\ Ascending(c[n].points)
  <2>1. CASE n = 0
    BY <1>9, <2>1, EmptyTells
  <2>2. CASE n # 0
    <3>1. Drawn(c[n].points, rows[n].at, c[n].sum)
      BY <1>9, <2>2
    <3> QED
      BY <3>1, DrawnTells
  <2> QED
    BY <2>1, <2>2
<1>11. SumFunction([i \in DOMAIN rows |-> FeeInQuote(rows[i])]) = paid(n)
  BY <1>3 DEF SumFunction, fees, paid
<1>12. PnlCurve(rows) = c[n].points
  BY <1>2 DEF PnlCurve
<1> QED
  BY <1>1, <1>9, <1>10, <1>11, <1>12

\* What a function makes of a finite set is finite.
LEMMA FiniteImage ==
    ASSUME NEW S, IsFiniteSet(S), NEW f, DOMAIN f = S
    PROVE  IsFiniteSet({f[x] : x \in S})
<1> DEFINE T == {f[x] : x \in S}
           g == [x \in S |-> f[x]]
<1>1. g \in Surjection(S, T)
  BY DEF Surjection
<1> HIDE DEF g, T
<1>2. IsFiniteSet(T)
  BY <1>1, FS_Surjection
<1> QED
  BY <1>2 DEF T

LEMMA FiniteSymbols == IsFiniteSet(Symbols)
<1> DEFINE f == [x \in Fills |-> x.symbol]
<1>1. DOMAIN f = Fills /\ IsFiniteSet(Fills)
  BY FillsAssumption
<1>2. Symbols = {f[x] : x \in Fills}
  BY DEF Symbols
<1> HIDE DEF f
<1> QED
  BY <1>1, <1>2, FiniteImage

\* A symbol's realized profit and fees are the sums of those of its trades.
LEMMA SymbolSums ==
    ASSUME NEW rows \in Seq(Rows)
    PROVE  LET p == SymbolPnL(rows)
           IN /\ p.byTrade \in [1..Len(rows) -> Int]
              /\ p.realized = SumFunctionOnSet(p.byTrade, 1..Len(rows))
              /\ p.fees = SumFunctionOnSet([i \in 1..Len(rows) |-> rows[i].fee], 1..Len(rows))
<1> DEFINE n == Len(rows)
           fee == [i \in 1..n |-> rows[i].fee]
<1>1. PICK p \in [0..n -> SymbolState] :
         /\ p[0] = SymbolStart
         /\ \A i \in 1..n : p[i] = SymbolStep(p[i - 1], rows[i])
         /\ p[n] = SymbolPnL(rows)
  BY SymbolTrace
<1> DEFINE gain == [i \in 1..n |-> p[i].realized - p[i - 1].realized]
           paid(i) == SumFunctionOnSet(fee, 1..i)
           made(i) == SumFunctionOnSet(gain, 1..i)
<1>2. n \in Nat /\ DOMAIN rows = 1..n /\ \A i \in 1..n : rows[i] \in Rows
  OBVIOUS
<1>3. fee \in [1..n -> Int] /\ \A i \in 1..n : fee[i] = rows[i].fee
  BY <1>2 DEF Rows
<1>4. \A i \in 0..n : /\ p[i] \in SymbolState /\ p[i].realized \in Int /\ p[i].fees \in Int
                      /\ p[i].byTrade \in Seq(Int)
  <2> TAKE i \in 0..n
  <2>1. p[i] \in SymbolState
    BY <1>1
  <2> HIDE DEF n
  <2> QED
    BY <2>1 DEF SymbolState
<1>5. /\ gain \in [1..n -> Int]
      /\ \A i \in 1..n : gain[i] = p[i].realized - p[i - 1].realized
  <2>1. ASSUME NEW i \in 1..n
        PROVE  p[i].realized - p[i - 1].realized \in Int
    <3>1. i \in 0..n /\ i - 1 \in 0..n
      BY <1>2
    <3> HIDE DEF n
    <3> QED
      BY <1>4, <3>1
  <2> QED
    BY <2>1
<1> HIDE DEF n, fee, gain
<1>6. /\ paid(0) = 0 /\ \A i \in 0..n : paid(i) \in Int
      /\ \A i \in 1..n : paid(i) = paid(i - 1) + fee[i]
  BY <1>2, <1>3, PrefixSum
<1>7. /\ made(0) = 0 /\ \A i \in 0..n : made(i) \in Int
      /\ \A i \in 1..n : made(i) = made(i - 1) + gain[i]
  BY <1>2, <1>5, PrefixSum
<1> HIDE DEF paid, made
<1> DEFINE P == {i \in 0..n : /\ p[i].realized = made(i) /\ p[i].fees = paid(i)
                              /\ Len(p[i].byTrade) = i
                              /\ \A k \in 1..i : p[i].byTrade[k] = gain[k]}
<1>8. 0 \in P
  <2>1. p[0].realized = 0 /\ p[0].fees = 0 /\ p[0].byTrade = <<>>
    BY <1>1 DEF SymbolStart
  <2>2. 0 \in 0..n /\ Len(<<>>) = 0 /\ 1..0 = {}
    BY <1>2
  <2> QED
    BY <1>6, <1>7, <2>1, <2>2
<1>9. ASSUME NEW i \in 0..(n - 1), i \in P
      PROVE  i + 1 \in P
  <2> DEFINE j == i + 1
             v == p[i]
             w == p[j]
             r == rows[j]
             g == gain[j]
  <2>1. j \in 1..n /\ j \in 0..n /\ j - 1 = i /\ i \in 0..n /\ i \in Nat
    BY <1>2
  <2>2. v \in SymbolState /\ r \in Rows /\ w = SymbolStep(v, r)
    BY <1>1, <1>2, <1>4, <2>1
  <2>3. /\ v.realized = made(i) /\ v.fees = paid(i) /\ Len(v.byTrade) = i
        /\ \A k \in 1..i : v.byTrade[k] = gain[k]
    BY <1>9
  <2>4. /\ v.realized \in Int /\ w.realized \in Int /\ v.byTrade \in Seq(Int)
        /\ g = w.realized - v.realized /\ fee[j] = r.fee /\ g \in Int
        /\ made(j) = made(i) + g /\ paid(j) = paid(i) + fee[j]
    BY <1>3, <1>4, <1>5, <1>6, <1>7, <2>1
  <2>5. w.byTrade = Append(v.byTrade, g) /\ w.fees = v.fees + r.fee
    <3> DEFINE m == Match(v.queue, r.qty)
               x == r.price * r.qty - MatchedCost(m, r)
    <3>1. /\ r.side = "BUY" => w.realized = v.realized /\ w.byTrade = Append(v.byTrade, 0)
          /\ r.side # "BUY" => w.realized = v.realized + x /\ w.byTrade = Append(v.byTrade, x)
          /\ w.fees = v.fees + r.fee
      <4> HIDE DEF v, w, r, g, j, P
      <4> QED
        BY <2>2, SymbolStepFields
    <3>2. x \in Int
      <4>1. v.queue \in Seq(Item)
        BY <2>2 DEF SymbolState
      <4>2. r.qty \in Nat /\ r.price \in Nat
        BY <2>2 DEF Rows
      <4>3. m \in Matching
        BY <4>1, <4>2, MatchType
      <4>4. MatchedCost(m, r) \in Nat
        BY <2>2, <4>3, MatchedCostType
      <4> HIDE DEF m, r
      <4> QED
        BY <4>2, <4>4
    <3> HIDE DEF v, w, r, g, x, j, P
    <3>3. CASE r.side = "BUY"
      <4>1. g = 0
        BY <2>4, <3>1, <3>3
      <4> QED
        BY <3>1, <3>3, <4>1
    <3>4. CASE r.side # "BUY"
      <4>1. w.realized = v.realized + x
        BY <3>1, <3>4
      <4>2. g = x
        BY <2>4, <3>2, <4>1
      <4> QED
        BY <3>1, <3>4, <4>2
    <3> QED
      BY <3>3, <3>4
  <2>6. w.realized = made(j)
    <3> HIDE DEF v, w, r, g, j, P
    <3> QED
      BY <2>3, <2>4
  <2>7. w.fees = paid(j)
    <3> HIDE DEF v, w, g, j, P
    <3> QED
      BY <2>3, <2>4, <2>5
  <2>8. Len(w.byTrade) = j /\ \A k \in 1..j : w.byTrade[k] = gain[k]
    <3> DEFINE old == v.byTrade
               new == w.byTrade
    <3>1. old \in Seq(Int) /\ g \in Int /\ new = Append(old, g) /\ Len(old) = i
      BY <2>3, <2>4, <2>5
    <3>2. \A k \in 1..i : old[k] = gain[k]
      BY <2>3
    <3> HIDE DEF old, new, v, w, g, P
    <3>3. Len(new) = j /\ new[j] = g /\ \A k \in 1..i : new[k] = old[k]
      BY <2>1, <3>1
    <3>4. g = gain[j]
      BY DEF g
    <3>5. \A k \in 1..j : k = j \/ k \in 1..i
      BY <2>1
    <3>6. Len(new) = j /\ \A k \in 1..j : new[k] = gain[k]
      BY <3>2, <3>3, <3>4, <3>5
    <3> QED
      BY <3>6 DEF new
  <2> QED
    BY <2>1, <2>6, <2>7, <2>8
<1>10. n \in P
  <2> HIDE DEF P
  <2>1. 0..n \subseteq P
    BY <1>2, <1>8, <1>9, InductionUpTo
  <2> QED
    BY <1>2, <2>1
<1>11. p[n].byTrade = gain
  <2> DEFINE s == p[n].byTrade
  <2>1. s \in Seq(Int) /\ Len(s) = n /\ \A k \in 1..n : s[k] = gain[k]
    BY <1>2, <1>4, <1>10
  <2> HIDE DEF s, P
  <2>2. s = [k \in 1..n |-> s[k]]
    BY <2>1
  <2>3. gain = [k \in 1..n |-> gain[k]]
    BY <1>5
  <2>4. s = gain
    BY <2>1, <2>2, <2>3
  <2> QED
    BY <2>4 DEF s
<1>12. p[n].realized = made(n) /\ p[n].fees = paid(n)
  BY <1>10
<1> QED
  BY <1>1, <1>5, <1>11, <1>12 DEF n, made, paid, fee

\* One function is another one's part, its places renamed.
IsRenamed(h, S, f, R, T, b) ==
    /\ IsFiniteSet(S) /\ IsFiniteSet(R) /\ f \in [R -> Int] /\ b \in [S -> R]
    /\ \A x, y \in S : b[x] = b[y] => x = y
    /\ h = [x \in S |-> f[b[x]]] /\ T = {b[x] : x \in S}

\* A sum over members that have been renamed is the same sum.
LEMMA SumMoved ==
    ASSUME NEW h, NEW S, NEW f, NEW R, NEW T, NEW b, IsRenamed(h, S, f, R, T, b)
    PROVE  SumFunctionOnSet(h, S) = SumFunctionOnSet(f, T)
<1>1. S \in SUBSET S
  OBVIOUS
<1>2. /\ IsFiniteSet(S) /\ IsFiniteSet(R) /\ f \in [R -> Int] /\ b \in [S -> R]
      /\ \A x, y \in S : b[x] = b[y] => x = y
  BY DEF IsRenamed
<1>3. SumFunctionOnSet([x \in S |-> f[b[x]]], S) = SumFunctionOnSet(f, {b[x] : x \in S})
  BY <1>1, <1>2, SumRenamed
<1> QED
  BY <1>3 DEF IsRenamed

\* The fees of a symbol's trades are a part of the fees of all.
LEMMA FeesOfSymbol ==
    ASSUME NEW rows \in Seq(Rows), NEW s
    PROVE  SymbolPnL(OfSymbol(rows, s)).fees
             = SumFunctionOnSet([i \in 1..Len(rows) |-> rows[i].fee],
                                {i \in 1..Len(rows) : rows[i].symbol = s})
<1> DEFINE n == Len(rows)
           fee == [i \in 1..n |-> rows[i].fee]
           places == {i \in 1..n : rows[i].symbol = s}
           own == OfSymbol(rows, s)
           m == Cardinality(places)
<1>1. n \in Nat /\ DOMAIN rows = 1..n /\ \A i \in 1..n : rows[i] \in Rows
  OBVIOUS
<1>2. fee \in [1..n -> Int] /\ \A i \in 1..n : fee[i] = rows[i].fee
  BY <1>1 DEF Rows
<1>3. own = Picked(rows, places)
  BY <1>1 DEF OfSymbol
<1>4. places \in SUBSET (1..Len(rows))
  OBVIOUS
<1> HIDE DEF places
<1>5. PICK at \in [1..m -> places] :
         /\ m \in Nat /\ Picked(rows, places) = [k \in 1..m |-> rows[at[k]]]
         /\ \A i, j \in 1..m : i < j => at[i] < at[j]
         /\ \A p \in places : \E i \in 1..m : at[i] = p
  BY <1>4, PickedRows
<1>6. own \in Seq(Rows) /\ Len(own) = m
  BY <1>3, <1>4, PickedType, OfSymbolType
<1>7. SymbolPnL(own).fees = SumFunctionOnSet([i \in 1..m |-> own[i].fee], 1..m)
  <2> HIDE DEF own, m
  <2> QED
    BY <1>6, SymbolSums
<1> HIDE DEF own, n, fee
<1>8. [i \in 1..m |-> own[i].fee] = [i \in 1..m |-> fee[at[i]]]
  <2>1. \A i \in 1..m : own[i].fee = fee[at[i]]
    <3> TAKE i \in 1..m
    <3>1. own[i] = rows[at[i]]
      BY <1>3, <1>5
    <3>2. at[i] \in 1..n
      BY <1>4, <1>5 DEF n
    <3> QED
      BY <1>2, <3>1, <3>2
  <2> QED
    BY <2>1
<1>9. \A i, j \in 1..m : at[i] = at[j] => i = j
  <2> SUFFICES ASSUME NEW i \in 1..m, NEW j \in 1..m, at[i] = at[j], i # j
               PROVE  FALSE
    OBVIOUS
  <2>1. i < j \/ j < i
    BY <1>5
  <2>2. at[i] \in Nat /\ at[j] \in Nat
    <3>1. places \subseteq Nat
      BY <1>4
    <3>2. at[i] \in places /\ at[j] \in places
      BY <1>5
    <3> QED
      BY <3>1, <3>2
  <2> QED
    BY <1>5, <2>1, <2>2
<1>10. {at[i] : i \in 1..m} = places
  BY <1>5
<1>11. IsFiniteSet(1..m) /\ IsFiniteSet(1..n) /\ at \in [1..m -> 1..n]
  <2>1. at \in [1..m -> 1..n]
    BY <1>4, <1>5 DEF n
  <2> QED
    BY <1>1, <1>5, <2>1, FS_Interval
<1> HIDE DEF m
<1>12. SumFunctionOnSet([i \in 1..m |-> own[i].fee], 1..m) = SumFunctionOnSet(fee, places)
  <2> DEFINE S == 1..m
             R == 1..n
             h == [i \in S |-> own[i].fee]
  <2>1. /\ IsFiniteSet(S) /\ IsFiniteSet(R) /\ fee \in [R -> Int]
        /\ at \in [S -> R] /\ \A x, y \in S : at[x] = at[y] => x = y
    BY <1>2, <1>9, <1>11
  <2>2. h = [x \in S |-> fee[at[x]]] /\ places = {at[x] : x \in S}
    BY <1>8, <1>10
  <2> HIDE DEF S, R, h
  <2>3. SumFunctionOnSet(h, S) = SumFunctionOnSet(fee, places)
    <3>1. IsRenamed(h, S, fee, R, places, at)
      BY <2>1, <2>2 DEF IsRenamed
    <3> QED
      BY <3>1, SumMoved
  <2> QED
    BY <2>3 DEF h, S
<1> QED
  BY <1>7, <1>12 DEF own, fee, places, n

\* The fees of the symbols add up to the fees of all trades.
LEMMA FeesAddUp ==
    ASSUME NEW rows \in Seq(Rows)
    PROVE  SumFunction([s \in Symbols |-> SymbolPnL(OfSymbol(rows, s)).fees])
             = SumFunctionOnSet([i \in 1..Len(rows) |-> rows[i].fee], 1..Len(rows))
<1> DEFINE S == 1..Len(rows)
           fee == [i \in S |-> rows[i].fee]
           kind == [i \in S |-> rows[i].symbol]
           part == [s \in Symbols |-> SumFunctionOnSet(fee, {i \in S : kind[i] = s})]
           own == [s \in Symbols |-> SymbolPnL(OfSymbol(rows, s)).fees]
<1>1. Len(rows) \in Nat /\ \A i \in S : rows[i] \in Rows
  OBVIOUS
<1>2. IsFiniteSet(S)
  BY <1>1, FS_Interval
<1>3. fee \in [S -> Int] /\ kind \in [S -> Symbols] /\ \A i \in S : kind[i] = rows[i].symbol
  <2>1. \A i \in S : rows[i].fee \in Int
    BY <1>1, SMTT(30) DEF Rows
  <2>2. \A i \in S : rows[i].symbol \in Symbols
    BY <1>1 DEF Rows
  <2> HIDE DEF S
  <2> QED
    BY <2>1, <2>2
<1>4. own = part
  <2>1. \A s \in Symbols : own[s] = part[s]
    <3> TAKE s \in Symbols
    <3>1. {i \in S : kind[i] = s} = {i \in S : rows[i].symbol = s}
      BY <1>3
    <3>2. SymbolPnL(OfSymbol(rows, s)).fees
            = SumFunctionOnSet(fee, {i \in S : rows[i].symbol = s})
      BY FeesOfSymbol
    <3> QED
      BY <3>1, <3>2
  <2> QED
    BY <2>1
<1>5. SumFunction(own) = SumFunctionOnSet(own, Symbols)
  BY DEF SumFunction
<1> HIDE DEF S, fee, kind, own
<1>6. SumFunctionOnSet(fee, S) = SumFunctionOnSet(part, Symbols)
  BY <1>2, <1>3, FiniteSymbols, SumByKind, SMTT(30)
<1> QED
  BY <1>4, <1>5, <1>6 DEF own, fee, S

\* The days of some trades.
DaysOf(rows) == {Day(rows[i].at) : i \in 1..Len(rows)}

LEMMA DaysOfType ==
    ASSUME NEW rows \in Seq(Rows)
    PROVE  DaysOf(rows) \in SUBSET Int /\ IsFiniteSet(DaysOf(rows))
<1> DEFINE S == 1..Len(rows)
           f == [i \in S |-> Day(rows[i].at)]
<1>1. Len(rows) \in Nat /\ \A i \in S : rows[i] \in Rows
  OBVIOUS
<1>2. \A i \in S : Day(rows[i].at) \in Int
  <2> TAKE i \in S
  <2>1. rows[i].at \in Int
    BY <1>1, SMTT(30) DEF Rows
  <2> QED
    BY <2>1, DayType
<1>3. IsFiniteSet(S) /\ DOMAIN f = S
  BY <1>1, FS_Interval
<1>4. DaysOf(rows) = {f[i] : i \in S}
  BY DEF DaysOf
<1> HIDE DEF S
<1>5. DaysOf(rows) \in SUBSET Int
  BY <1>2, <1>4
<1> HIDE DEF f
<1> QED
  BY <1>3, <1>4, <1>5, FiniteImage

\* The places of a function are of finitely many kinds; each kind has its sum.
SortedInto(f, S, kind, K, part) ==
    /\ IsFiniteSet(S) /\ IsFiniteSet(K) /\ f \in [S -> Int] /\ kind \in [S -> K]
    /\ part = [k \in K |-> SumFunctionOnSet(f, {x \in S : kind[x] = k})]

\* A sum over members sorted into kinds is the sum of the kinds' parts.
LEMMA SumSorted ==
    ASSUME NEW f, NEW S, NEW kind, NEW K, NEW part, SortedInto(f, S, kind, K, part)
    PROVE  SumFunctionOnSet(f, S) = SumFunctionOnSet(part, K)
<1>1. IsFiniteSet(S) /\ IsFiniteSet(K) /\ f \in [S -> Int] /\ kind \in [S -> K]
  BY DEF SortedInto
<1>2. SumFunctionOnSet(f, S)
        = SumFunctionOnSet([k \in K |-> SumFunctionOnSet(f, {x \in S : kind[x] = k})], K)
  BY <1>1, SumByKind
<1> QED
  BY <1>2 DEF SortedInto

\* What a symbol's trades realized by day adds up to what they realized.
LEMMA RealizedByDay ==
    ASSUME NEW rows \in Seq(Rows), NEW s
    PROVE  /\ \A d \in DaysOf(rows) : RealizedOn(rows, s, d) \in Int
           /\ SymbolPnL(OfSymbol(rows, s)).realized
                = SumFunctionOnSet([d \in DaysOf(rows) |-> RealizedOn(rows, s, d)], DaysOf(rows))
<1> DEFINE own == OfSymbol(rows, s)
           S == 1..Len(own)
           K == DaysOf(rows)
           f == SymbolPnL(own).byTrade
           kind == [i \in S |-> Day(own[i].at)]
           on == [d \in K |-> RealizedOn(rows, s, d)]
           part == [d \in K |-> SumFunctionOnSet(f, {i \in S : kind[i] = d})]
<1>1. own \in Seq(Rows)
  BY OfSymbolType
<1>2. /\ f \in [S -> Int] /\ SymbolPnL(own).realized = SumFunctionOnSet(f, S)
  <2> HIDE DEF own
  <2> QED
    BY <1>1, SymbolSums
<1>3. IsFiniteSet(S) /\ DOMAIN own = S
  <2>1. Len(own) \in Nat /\ DOMAIN own = S
    BY <1>1
  <2> QED
    BY <2>1, FS_Interval
<1>4. IsFiniteSet(K)
  BY DaysOfType
<1>5. \A i \in S : Day(own[i].at) \in K
  <2> DEFINE places == {i \in DOMAIN rows : rows[i].symbol = s}
             m == Cardinality(places)
  <2>1. places \in SUBSET (1..Len(rows))
    OBVIOUS
  <2>2. own = Picked(rows, places)
    BY DEF OfSymbol
  <2> HIDE DEF places, own, K
  <2>3. PICK at \in [1..m -> places] : Picked(rows, places) = [k \in 1..m |-> rows[at[k]]]
    BY <2>1, PickedRows
  <2>4. Len(own) = m
    BY <2>1, <2>2, PickedType
  <2> TAKE i \in S
  <2>5. i \in 1..m
    BY <2>4
  <2> HIDE DEF m
  <2>6. own[i] = rows[at[i]] /\ at[i] \in 1..Len(rows)
    BY <2>1, <2>2, <2>3, <2>5
  <2> QED
    BY <2>6 DEF K, DaysOf
<1> HIDE DEF S, K, f
<1>6. kind \in [S -> K] /\ \A i \in S : kind[i] = Day(own[i].at)
  BY <1>5
<1>7. \A d \in K : RealizedOn(rows, s, d) = SumFunctionOnSet(f, {i \in S : kind[i] = d})
  <2> TAKE d \in K
  <2>1. {i \in S : kind[i] = d} = {i \in S : Day(own[i].at) = d}
    BY <1>6
  <2> HIDE DEF kind
  <2>2. RealizedOn(rows, s, d) = SumFunctionOnSet(f, {i \in S : Day(own[i].at) = d})
    BY <1>3 DEF RealizedOn, f
  <2> QED
    BY <2>1, <2>2
<1>8. on = part
  BY <1>7
<1>9. \A d \in K : RealizedOn(rows, s, d) \in Int
  <2> HIDE DEF kind, own
  <2>1. \A T \in SUBSET S : SumFunctionOnSet(f, T) \in Int
    BY <1>2, <1>3, SumRecursion
  <2>2. \A d \in K : {i \in S : kind[i] = d} \in SUBSET S
    OBVIOUS
  <2> QED
    BY <1>7, <2>1, <2>2
<1> HIDE DEF kind, own
<1>10. SumFunctionOnSet(f, S) = SumFunctionOnSet(part, K)
  <2>1. SortedInto(f, S, kind, K, part)
    BY <1>2, <1>3, <1>4, <1>6 DEF SortedInto
  <2> QED
    BY <2>1, SumSorted
<1>11. SymbolPnL(own).realized = SumFunctionOnSet(on, K)
  BY <1>2, <1>8, <1>10
<1> HIDE DEF part
<1> QED
  BY <1>9, <1>11 DEF own, K

\* And so do the fees.
LEMMA FeesByDay ==
    ASSUME NEW rows \in Seq(Rows)
    PROVE  /\ \A d \in DaysOf(rows) : FeesOn(rows, d) \in Int
           /\ SumFunctionOnSet([i \in 1..Len(rows) |-> rows[i].fee], 1..Len(rows))
                = SumFunctionOnSet([d \in DaysOf(rows) |-> FeesOn(rows, d)], DaysOf(rows))
<1> DEFINE S == 1..Len(rows)
           K == DaysOf(rows)
           f == [i \in S |-> rows[i].fee]
           kind == [i \in S |-> Day(rows[i].at)]
           on == [d \in K |-> FeesOn(rows, d)]
           part == [d \in K |-> SumFunctionOnSet(f, {i \in S : kind[i] = d})]
<1>1. Len(rows) \in Nat /\ DOMAIN rows = S /\ \A i \in S : rows[i] \in Rows
  OBVIOUS
<1>2. f \in [S -> Int]
  <2>1. \A i \in S : rows[i].fee \in Int
    BY <1>1 DEF Rows
  <2> HIDE DEF S
  <2> QED
    BY <2>1
<1>3. IsFiniteSet(S) /\ IsFiniteSet(K)
  BY <1>1, FS_Interval, DaysOfType
<1>4. kind \in [S -> K] /\ \A i \in S : kind[i] = Day(rows[i].at)
  BY DEF DaysOf
<1>5. \A d \in K : FeesOn(rows, d) = SumFunctionOnSet(f, {i \in S : kind[i] = d})
  <2> TAKE d \in K
  <2> HIDE DEF K
  <2>1. {i \in S : kind[i] = d} = {i \in S : Day(rows[i].at) = d}
    BY <1>4
  <2> HIDE DEF kind
  <2>2. FeesOn(rows, d) = SumFunctionOnSet(f, {i \in S : Day(rows[i].at) = d})
    BY <1>1 DEF FeesOn
  <2> QED
    BY <2>1, <2>2
<1> HIDE DEF S, K, f
<1>6. on = part
  BY <1>5
<1>7. \A d \in K : FeesOn(rows, d) \in Int
  <2> HIDE DEF kind
  <2>1. \A T \in SUBSET S : SumFunctionOnSet(f, T) \in Int
    BY <1>2, <1>3, SumRecursion
  <2>2. \A d \in K : {i \in S : kind[i] = d} \in SUBSET S
    OBVIOUS
  <2> QED
    BY <1>5, <2>1, <2>2
<1> HIDE DEF kind
<1>8. SumFunctionOnSet(f, S) = SumFunctionOnSet(part, K)
  BY <1>2, <1>3, <1>4, SumByKind, SMTT(30)
<1> HIDE DEF part
<1> QED
  BY <1>6, <1>7, <1>8 DEF K, f, S

\* The entries of the days add up to what is realized less the fees.
LEMMA EntriesAddUp ==
    ASSUME NEW rows \in Seq(Rows)
    PROVE  /\ \A d \in DaysOf(rows) : Entry(rows, d) \in Int
           /\ PnLFromTrades(rows).realized - PnLFromTrades(rows).fees
                = SumFunctionOnSet([d \in DaysOf(rows) |-> Entry(rows, d)], DaysOf(rows))
<1> DEFINE D == DaysOf(rows)
           on == [p \in D \X Symbols |-> RealizedOn(rows, p[2], p[1])]
           ofDay == [d \in D |-> SumFunctionOnSet([s \in Symbols |-> on[<<d, s>>]], Symbols)]
           ofSymbol == [s \in Symbols |-> SumFunctionOnSet([d \in D |-> on[<<d, s>>]], D)]
           fees == [d \in D |-> FeesOn(rows, d)]
           entry == [d \in D |-> Entry(rows, d)]
           difference == [d \in D |-> ofDay[d] - fees[d]]
<1>1. IsFiniteSet(D) /\ IsFiniteSet(Symbols)
  BY DaysOfType, FiniteSymbols
<1>2. fees \in [D -> Int]
  BY FeesByDay
<1>3. on \in [D \X Symbols -> Int]
  <2>1. \A d \in D, s \in Symbols : RealizedOn(rows, s, d) \in Int
    BY RealizedByDay
  <2> HIDE DEF D
  <2> QED
    BY <2>1
<1> HIDE DEF D
<1>4. \A d \in D : [s \in Symbols |-> on[<<d, s>>]] = [s \in Symbols |-> RealizedOn(rows, s, d)]
  OBVIOUS
<1>5. \A s \in Symbols : [d \in D |-> on[<<d, s>>]] = [d \in D |-> RealizedOn(rows, s, d)]
  OBVIOUS
<1>6. ofSymbol = [s \in Symbols |-> SymbolPnL(OfSymbol(rows, s)).realized]
  <2>1. ASSUME NEW s \in Symbols
        PROVE  SumFunctionOnSet([d \in D |-> on[<<d, s>>]], D)
                 = SymbolPnL(OfSymbol(rows, s)).realized
    <3>1. SymbolPnL(OfSymbol(rows, s)).realized
            = SumFunctionOnSet([d \in D |-> RealizedOn(rows, s, d)], D)
      BY RealizedByDay DEF D
    <3> HIDE DEF on
    <3> QED
      BY <1>5, <3>1
  <2> HIDE DEF on
  <2> QED
    BY <2>1
<1>7. \A d \in D : Entry(rows, d) = ofDay[d] - fees[d]
  <2> TAKE d \in D
  <2>1. SumFunction([s \in Symbols |-> RealizedOn(rows, s, d)])
          = SumFunctionOnSet([s \in Symbols |-> RealizedOn(rows, s, d)], Symbols)
    BY DEF SumFunction
  <2> HIDE DEF on
  <2>2. ofDay[d] = SumFunctionOnSet([s \in Symbols |-> RealizedOn(rows, s, d)], Symbols)
    BY <1>4
  <2> HIDE DEF ofDay
  <2> QED
    BY <2>1, <2>2 DEF Entry
<1> HIDE DEF on
<1>8. ofDay \in [D -> Int]
  <2>1. ASSUME NEW d \in D
        PROVE  SumFunctionOnSet([s \in Symbols |-> on[<<d, s>>]], Symbols) \in Int
    <3> DEFINE row == [s \in Symbols |-> on[<<d, s>>]]
    <3>1. row \in [Symbols -> Int] /\ Symbols \in SUBSET Symbols
      BY <1>3
    <3> HIDE DEF row
    <3>2. SumFunctionOnSet(row, Symbols) \in Int
      BY <1>1, <3>1, SumRecursion
    <3> QED
      BY <3>2 DEF row
  <2> QED
    BY <2>1
<1>9. SumFunctionOnSet(ofDay, D) = SumFunctionOnSet(ofSymbol, Symbols)
  BY <1>1, <1>3, SumBothWays
<1> HIDE DEF ofDay, fees
<1>10. entry = difference
  BY <1>7
<1>11. SumFunctionOnSet(difference, D) = SumFunctionOnSet(ofDay, D) - SumFunctionOnSet(fees, D)
  BY <1>1, <1>2, <1>8, SumMinus
<1>12. \A d \in D : Entry(rows, d) \in Int
  BY <1>2, <1>7, <1>8
<1>13. PnLFromTrades(rows).realized = SumFunctionOnSet(ofSymbol, Symbols)
  BY <1>6 DEF PnLFromTrades, SumFunction
<1>14. PnLFromTrades(rows).fees = SumFunctionOnSet(fees, D)
  <2>1. PnLFromTrades(rows).fees
          = SumFunction([s \in Symbols |-> SymbolPnL(OfSymbol(rows, s)).fees])
    BY DEF PnLFromTrades
  <2> QED
    BY <2>1, FeesAddUp, FeesByDay DEF fees, D
<1> HIDE DEF ofSymbol, difference
<1>15. PnLFromTrades(rows).realized - PnLFromTrades(rows).fees = SumFunctionOnSet(entry, D)
  BY <1>9, <1>10, <1>11, <1>13, <1>14
<1> QED
  BY <1>12, <1>15 DEF D

\* The days come in order, each once.
LEMMA DaysListed ==
    ASSUME NEW rows \in Seq(Rows)
    PROVE  /\ Cardinality(DaysOf(rows)) \in Nat
           /\ Days(rows) \in [1..Cardinality(DaysOf(rows)) -> DaysOf(rows)]
           /\ \A i, j \in 1..Cardinality(DaysOf(rows)) : i < j => Days(rows)[i] < Days(rows)[j]
           /\ \A d \in DaysOf(rows) : \E i \in 1..Cardinality(DaysOf(rows)) : Days(rows)[i] = d
<1> DEFINE D == DaysOf(rows)
<1>1. D \in SUBSET Int /\ IsFiniteSet(D)
  BY DaysOfType
<1>2. Days(rows) = InOrder(D, Increasing(D))
  <2>1. DOMAIN rows = 1..Len(rows)
    OBVIOUS
  <2> QED
    BY <2>1 DEF Days, DaysOf
<1> HIDE DEF D
<1>3. Cardinality(D) \in Nat
  BY <1>1, FS_CardinalityType
<1>4. /\ Days(rows) \in [1..Cardinality(D) -> D]
      /\ \A i, j \in 1..Cardinality(D) : i < j => Days(rows)[i] < Days(rows)[j]
      /\ \A d \in D : \E i \in 1..Cardinality(D) : Days(rows)[i] = d
  BY <1>1, <1>2, IncreasingLists
<1> QED
  BY <1>3, <1>4 DEF D

\* A curve drawn point by point ends at its last point's value.
LEMMA CurveListed ==
    ASSUME NEW c \in Nat, NEW time \in [1..c -> Int], NEW value \in [1..c -> Int],
           \A i, j \in 1..c : i < j => time[i] < time[j]
    PROVE  LET curve == [k \in 1..c |-> [time |-> time[k], value |-> value[k]]]
           IN Ascending(curve) /\ EndOf(curve) = IF c = 0 THEN 0 ELSE value[c]
<1> DEFINE P == Point
           curve == [k \in 1..c |-> [time |-> time[k], value |-> value[k]]]
<1>1. \A k \in 1..c : /\ [time |-> time[k], value |-> value[k]] \in P
                      /\ [time |-> time[k], value |-> value[k]].time = time[k]
                      /\ [time |-> time[k], value |-> value[k]].value = value[k]
  BY DEF Point
<1> HIDE DEF P
<1>2. curve \in [1..c -> P] /\ \A k \in 1..c : /\ curve[k].time = time[k]
                                              /\ curve[k].value = value[k]
  BY <1>1
<1> HIDE DEF curve
<1>3. curve \in Seq(P) /\ Len(curve) = c
  BY <1>2
<1>4. Ascending(curve)
  <2> SUFFICES ASSUME NEW i \in 1..(c - 1)
               PROVE  curve[i].time < curve[i + 1].time
    BY <1>3 DEF Ascending
  <2>1. i \in 1..c /\ i + 1 \in 1..c /\ i < i + 1
    OBVIOUS
  <2> QED
    BY <1>2, <2>1
<1>5. EndOf(curve) = IF c = 0 THEN 0 ELSE value[c]
  <2>1. CASE c = 0
    <3>1. curve = <<>>
      BY <1>3, <2>1
    <3> QED
      BY <2>1, <3>1 DEF EndOf
  <2>2. CASE c # 0
    <3>1. curve # <<>> /\ c \in 1..c
      BY <1>3, <2>2
    <3>2. Last(curve) = curve[c]
      BY <1>3 DEF Last
    <3> QED
      BY <1>2, <2>2, <3>1, <3>2 DEF EndOf
  <2> QED
    BY <2>1, <2>2
<1> QED
  BY <1>4, <1>5 DEF curve

\* The report's curve ascends and ends at what was realized less the fees.
LEMMA ReportTells ==
    ASSUME NEW rows \in Seq(Rows)
    PROVE  LET report == PnLFromTrades(rows)
           IN /\ EndOf(report.curve) = report.realized - report.fees
              /\ Ascending(report.curve)
<1> DEFINE D == DaysOf(rows)
           c == Cardinality(D)
           days == Days(rows)
           entry == [d \in D |-> Entry(rows, d)]
           listed == [j \in 1..c |-> entry[days[j]]]
           value == [k \in 1..c |-> SumFunctionOnSet(listed, 1..k)]
           curve == [k \in 1..c |-> [time |-> days[k], value |-> value[k]]]
           total == PnLFromTrades(rows).realized - PnLFromTrades(rows).fees
<1>1. D \in SUBSET Int /\ IsFiniteSet(D)
  BY DaysOfType
<1>2. entry \in [D -> Int] /\ total = SumFunctionOnSet(entry, D)
  BY EntriesAddUp
<1>3. /\ c \in Nat /\ days \in [1..c -> D]
      /\ \A i, j \in 1..c : i < j => days[i] < days[j]
      /\ \A d \in D : \E i \in 1..c : days[i] = d
  BY DaysListed
<1>4. \A k \in 1..c : SumFunction([j \in 1..k |-> Entry(rows, days[j])]) = value[k]
  <2> HIDE DEF D, c, days
  <2> TAKE k \in 1..c
  <2> DEFINE f == [j \in 1..k |-> Entry(rows, days[j])]
             S == 1..k
             R == 1..c
  <2>1. \A j \in S : j \in R /\ f[j] = listed[j]
    BY <1>3
  <2>2. f \in [S -> Int] /\ listed \in [R -> Int]
    BY <1>2, <1>3
  <2>3. IsFiniteSet(S) /\ IsFiniteSet(R)
    BY <1>3, FS_Interval
  <2>4. SumFunction(f) = SumFunctionOnSet(f, S)
    BY DEF SumFunction
  <2>5. value[k] = SumFunctionOnSet(listed, S)
    OBVIOUS
  <2> HIDE DEF f, S, R, listed, value
  <2>6. SumFunctionOnSet(f, S) = SumFunctionOnSet(listed, S)
    <3>1. S \in SUBSET S /\ S \subseteq R
      BY <2>1
    <3>2. \A x \in S : f[x] = listed[x]
      BY <2>1
    <3> QED
      BY <2>2, <2>3, <3>1, <3>2, SumSame
  <2>7. SumFunction(f) = value[k]
    BY <2>4, <2>5, <2>6
  <2> QED
    BY <2>7 DEF f
<1>5. PnLFromTrades(rows).curve = curve
  <2>1. PnLFromTrades(rows).curve = DailyBreakdown(rows)
    BY DEF PnLFromTrades
  <2> HIDE DEF c, value
  <2>2. DOMAIN days = 1..c
    BY <1>3
  <2>3. DailyBreakdown(rows)
          = [k \in 1..c |->
               [time |-> days[k], value |-> SumFunction([j \in 1..k |-> Entry(rows, days[j])])]]
    BY <2>2 DEF DailyBreakdown
  <2> QED
    BY <1>4, <2>1, <2>3
<1> HIDE DEF D, c, days, entry
<1>6. listed \in [1..c -> Int]
  BY <1>2, <1>3
<1> HIDE DEF listed
<1>7. /\ SumFunctionOnSet(listed, 1..0) = 0
      /\ \A k \in 1..c : value[k] = SumFunctionOnSet(listed, 1..k)
      /\ \A k \in 0..c : SumFunctionOnSet(listed, 1..k) \in Int
  BY <1>3, <1>6, PrefixSum
<1>8. value \in [1..c -> Int] /\ days \in [1..c -> Int]
  <2>1. \A k \in 1..c : k \in 0..c
    OBVIOUS
  <2>2. \A k \in 1..c : SumFunctionOnSet(listed, 1..k) \in Int
    BY <1>7, <2>1
  <2>3. value \in [1..c -> Int]
    BY <2>2
  <2> HIDE DEF value
  <2> QED
    BY <1>1, <1>3, <2>3
<1> HIDE DEF value
<1>9. Ascending(curve) /\ EndOf(curve) = IF c = 0 THEN 0 ELSE value[c]
  BY <1>3, <1>8, CurveListed
<1>10. SumFunctionOnSet(listed, 1..c) = SumFunctionOnSet(entry, D)
  <2> DEFINE S == 1..c
  <2>1. IsFiniteSet(S)
    BY <1>3, FS_Interval
  <2>2. \A x, y \in S : days[x] = days[y] => x = y
    <3> SUFFICES ASSUME NEW x \in S, NEW y \in S, days[x] = days[y], x # y
                 PROVE  FALSE
      OBVIOUS
    <3>1. x < y \/ y < x
      BY <1>3
    <3>2. days[x] \in Int /\ days[y] \in Int
      BY <1>8
    <3> QED
      BY <1>3, <3>1, <3>2
  <2>3. D = {days[x] : x \in S}
    BY <1>3
  <2>4. listed = [x \in S |-> entry[days[x]]]
    BY DEF listed
  <2> HIDE DEF S
  <2>5. IsRenamed(listed, S, entry, D, D, days)
    BY <1>1, <1>2, <1>3, <2>1, <2>2, <2>3, <2>4 DEF IsRenamed, S
  <2>6. SumFunctionOnSet(listed, S) = SumFunctionOnSet(entry, D)
    BY <2>5, SumMoved
  <2> QED
    BY <2>6 DEF S
<1>11. EndOf(curve) = total
  <2>1. SumFunctionOnSet(listed, 1..c) = EndOf(curve)
    <3>1. CASE c = 0
      BY <1>7, <1>9, <3>1
    <3>2. CASE c # 0
      <4>1. c \in 1..c
        BY <1>3, <3>2
      <4> QED
        BY <1>7, <1>9, <3>2, <4>1
    <3> QED
      BY <3>1, <3>2
  <2> HIDE DEF total, curve
  <2> QED
    BY <1>2, <1>10, <2>1
<1> QED
  BY <1>5, <1>9, <1>11

\* Whatever the fills, the curves end at the totals beside them and ascend.
THEOREM CurvesAreRight == Spec => []CurvesAgree
<1>1. TableOK => CurvesAgree
  <2> SUFFICES ASSUME TableOK
               PROVE  CurvesAgree
    OBVIOUS
  <2>1. trades \in Seq(Rows) /\ InTime(trades)
    BY DEF TableOK, Table, InTime
  <2>2. /\ EndOf(PnLFromTrades(trades).curve)
             = PnLFromTrades(trades).realized - PnLFromTrades(trades).fees
        /\ Ascending(PnLFromTrades(trades).curve)
    BY <2>1, ReportTells
  <2>3. ASSUME NEW s \in Symbols
        PROVE  LET rows == OfSymbol(trades, s)
               IN /\ EndOf(PnlCurve(rows))
                       + SumFunction([i \in DOMAIN rows |-> FeeInQuote(rows[i])])
                       = SymbolPnL(rows).realized
                  /\ Ascending(PnlCurve(rows))
    <3> DEFINE places == {i \in DOMAIN trades : trades[i].symbol = s}
               own == OfSymbol(trades, s)
    <3>1. places \in SUBSET (1..Len(trades)) /\ own = Picked(trades, places)
      BY <2>1 DEF OfSymbol
    <3> HIDE DEF places, own
    <3>2. InTime(own)
      BY <2>1, <3>1, PickedInTime
    <3>3. own \in Seq(Rows)
      BY <2>1, OfSymbolType DEF own
    <3>4. /\ EndOf(PnlCurve(own)) + SumFunction([i \in DOMAIN own |-> FeeInQuote(own[i])])
               = SymbolPnL(own).realized
          /\ Ascending(PnlCurve(own))
      BY <3>2, <3>3, CurveOfSymbol
    <3> QED
      BY <3>4 DEF own
  <2>4. ASSUME NEW b \in Bots
        PROVE  LET p == PnLFromProfits(Of(b))
               IN /\ EndOf(p.curve) = p.net /\ EndOf(p.daily) = p.net
                  /\ Ascending(p.curve) /\ Ascending(p.daily)
                  /\ p.grossProfit + p.grossLoss = p.net
    <3> DEFINE fills == Of(b)
               rows == Reverse(SupabaseTrades(ProfitRows(fills), FALSE, ProfitLimit))
               p == AggregateProfits(rows)
    <3>1. fills \in Seq(Rows) /\ InTime(fills)
      BY OfType
    <3> HIDE DEF fills
    <3>2. rows \in Seq(Profit) /\ InTime(rows)
      BY <3>1, ProfitsOfFills
    <3> HIDE DEF rows
    <3>3. /\ EndOf(p.curve) = p.net /\ EndOf(p.daily) = p.net
          /\ Ascending(p.curve) /\ Ascending(p.daily)
          /\ p.grossProfit + p.grossLoss = p.net
      BY <3>2, ProfitsTell
    <3>4. PnLFromProfits(fills) = p
      BY DEF PnLFromProfits, rows
    <3> HIDE DEF p
    <3>5. PnLFromProfits(Of(b)) = p
      BY <3>4 DEF fills
    <3> QED
      BY <3>3, <3>5
  <2> QED
    BY <2>2, <2>3, <2>4 DEF CurvesAgree
<1> QED
  BY <1>1, TableHolds, PTL

-----------------------------------------------------------------------------
(* Tags: sorted by time and walked backwards within an instant, the newest  *)
(* rows are the fills in their own order.                                   *)

\* Numbers 1..n in increasing order are all in their places.
LEMMA IncreasingIsIdentity ==
    ASSUME NEW n \in Nat, NEW f \in [1..n -> 1..n],
           \A i, j \in 1..n : i < j => f[i] < f[j]
    PROVE  \A i \in 1..n : f[i] = i
<1> DEFINE off == [i \in 0..n |-> IF i = 0 THEN 0 ELSE f[i] - i]
<1>1. off \in [0..n -> Int]
  <2>1. \A i \in 0..n : i # 0 => i \in 1..n
    OBVIOUS
  <2>2. \A i \in 1..n : f[i] - i \in Int
    OBVIOUS
  <2> QED
    BY <2>1, <2>2
<1>2. off[0] = 0 /\ \A i \in 1..n : off[i] = f[i] - i /\ f[i] \in 1..n
  OBVIOUS
<1> HIDE DEF off
<1>3. \A i \in 1..n : off[i - 1] <= off[i]
  <2> TAKE i \in 1..n
  <2>1. off[i] = f[i] - i /\ f[i] \in 1..n
    BY <1>2
  <2>2. CASE i = 1
    <3>1. off[i - 1] = 0
      BY <1>2, <2>2
    <3> QED
      BY <2>1, <2>2, <3>1
  <2>3. CASE i # 1
    <3>1. i - 1 \in 1..n /\ i - 1 < i
      BY <2>3
    <3>2. f[i - 1] < f[i] /\ off[i - 1] = f[i - 1] - (i - 1) /\ f[i - 1] \in 1..n
      BY <1>2, <3>1
    <3> QED
      BY <2>1, <3>2, SMTT(30)
  <2> QED
    BY <2>2, <2>3
<1>4. \A i, j \in 0..n : i <= j => off[i] <= off[j]
  BY <1>1, <1>3, Ascends
<1> TAKE i \in 1..n
<1>5. 0 \in 0..n /\ i \in 0..n /\ n \in 0..n /\ 0 <= i /\ i <= n /\ n \in 1..n
  OBVIOUS
<1>6. off[0] <= off[i] /\ off[i] <= off[n]
  BY <1>4, <1>5
<1>7. off[n] = f[n] - n /\ f[n] \in 1..n /\ off[i] = f[i] - i /\ f[i] \in 1..n
  BY <1>2, <1>5
<1> DEFINE v == f[i]
           w == f[n]
           x == off[i]
           y == off[n]
<1>8. /\ 0 <= x /\ x <= y /\ y = w - n /\ x = v - i
      /\ v \in Nat /\ w \in Nat /\ w <= n /\ i \in Nat
  <2>1. off[0] = 0 /\ n \in Nat
    BY <1>2
  <2> QED
    BY <1>6, <1>7, <2>1, SMTT(30)
<1> HIDE DEF v, w, x, y
<1>9. v = i
  BY <1>8
<1> QED
  BY <1>9 DEF v

\* The two orders of rows.
InList(rows) ==
    {p \in (DOMAIN rows) \X (DOMAIN rows) : PrecedesInList(rows, p[1], p[2])}
InTurn(rows) ==
    {p \in (DOMAIN rows) \X (DOMAIN rows) : Precedes(rows, p[1], p[2])}

\* The list's order and the walk's order are orders of the places.
LEMMA OrdersOfRows ==
    ASSUME NEW rows \in Seq(Rows)
    PROVE  /\ IsOrder(InList(rows), 1..Len(rows)) /\ IsOrder(InTurn(rows), 1..Len(rows))
           /\ \A i, j \in 1..Len(rows) :
                /\ <<i, j>> \in InList(rows) <=> PrecedesInList(rows, i, j)
                /\ <<i, j>> \in InTurn(rows) <=> Precedes(rows, i, j)
<1> DEFINE S == 1..Len(rows)
<1>1. DOMAIN rows = S /\ \A i \in S : i \in Nat /\ rows[i] \in Rows
  OBVIOUS
<1>2. \A i \in S : rows[i].at \in Nat
  BY <1>1 DEF Rows
<1>3. \A i, j \in S : /\ <<i, j>> \in InList(rows) <=> PrecedesInList(rows, i, j)
                      /\ <<i, j>> \in InTurn(rows) <=> Precedes(rows, i, j)
  BY <1>1 DEF InList, InTurn
<1> HIDE DEF S
<1>4. \A i, j \in S :
        /\ <<i, j>> \in InList(rows)
             <=> rows[i].at < rows[j].at \/ (rows[i].at = rows[j].at /\ i < j)
        /\ <<i, j>> \in InTurn(rows)
             <=> rows[i].at < rows[j].at \/ (rows[i].at = rows[j].at /\ i > j)
  BY <1>3 DEF PrecedesInList, Precedes
<1> DEFINE at(i) == rows[i].at
           A == InList(rows)
           B == InTurn(rows)
<1>5. \A i, j \in S : <<i, j>> \in A <=> at(i) < at(j) \/ (at(i) = at(j) /\ i < j)
  BY <1>4
<1>6. \A i, j \in S : <<i, j>> \in B <=> at(i) < at(j) \/ (at(i) = at(j) /\ i > j)
  BY <1>4
<1>7. \A i \in S : at(i) \in Nat /\ i \in Nat
  BY <1>1, <1>2
<1> HIDE DEF at, A, B
<1>8. IsOrder(A, S)
  <2>1. \A a, b, c \in S : <<a, b>> \in A /\ <<b, c>> \in A => <<a, c>> \in A
    BY <1>5, <1>7
  <2>2. \A a \in S : <<a, a>> \notin A
    BY <1>5, <1>7
  <2>3. \A a, b \in S : a = b \/ <<a, b>> \in A \/ <<b, a>> \in A
    <3> TAKE a \in S, b \in S
    <3>1. at(a) \in Nat /\ at(b) \in Nat /\ a \in Nat /\ b \in Nat
      BY <1>7
    <3>2. a = b \/ a < b \/ a > b
      BY <3>1
    <3>3. at(a) = at(b) \/ at(a) < at(b) \/ at(b) < at(a)
      BY <3>1
    <3>4. /\ <<a, b>> \in A <=> at(a) < at(b) \/ (at(a) = at(b) /\ a < b)
          /\ <<b, a>> \in A <=> at(b) < at(a) \/ (at(b) = at(a) /\ b < a)
      BY <1>5
    <3> QED
      BY <3>1, <3>2, <3>3, <3>4
  <2> QED
    BY <2>1, <2>2, <2>3 DEF IsOrder
<1>9. IsOrder(B, S)
  <2>1. \A a, b, c \in S : <<a, b>> \in B /\ <<b, c>> \in B => <<a, c>> \in B
    BY <1>6, <1>7
  <2>2. \A a \in S : <<a, a>> \notin B
    BY <1>6, <1>7
  <2>3. \A a, b \in S : a = b \/ <<a, b>> \in B \/ <<b, a>> \in B
    <3> TAKE a \in S, b \in S
    <3>1. at(a) \in Nat /\ at(b) \in Nat /\ a \in Nat /\ b \in Nat
      BY <1>7
    <3>2. a = b \/ a < b \/ a > b
      BY <3>1
    <3>3. at(a) = at(b) \/ at(a) < at(b) \/ at(b) < at(a)
      BY <3>1
    <3>4. /\ <<a, b>> \in B <=> at(a) < at(b) \/ (at(a) = at(b) /\ a > b)
          /\ <<b, a>> \in B <=> at(b) < at(a) \/ (at(b) = at(a) /\ b > a)
      BY <1>6
    <3> QED
      BY <3>1, <3>2, <3>3, <3>4
  <2> QED
    BY <2>1, <2>2, <2>3 DEF IsOrder
<1> QED
  BY <1>3, <1>8, <1>9 DEF A, B, S

\* The newest rows, when the chart holds them all, are the fills turned round.
LEMMA NewestFirst ==
    ASSUME NEW X, NEW rows \in Seq(X), NEW limit \in Nat, Len(rows) <= limit
    PROVE  LET s == SupabaseTrades(rows, FALSE, limit)
           IN /\ s \in Seq(X) /\ Len(s) = Len(rows)
              /\ \A i \in 1..Len(rows) : s[i] = rows[Len(rows) + 1 - i]
<1> DEFINE n == Len(rows)
           r == Reverse(rows)
<1>1. n \in Nat
  OBVIOUS
<1>2. r \in Seq(X) /\ Len(r) = n /\ \A i \in 1..n : r[i] = rows[n + 1 - i]
  <2>1. r = [i \in 1..n |-> rows[n - i + 1]]
    BY DEF Reverse
  <2>2. \A i \in 1..n : n - i + 1 \in 1..n /\ n - i + 1 = n + 1 - i
    BY <1>1
  <2>3. \A i \in 1..n : rows[n - i + 1] \in X
    BY <2>2
  <2> HIDE DEF n, r
  <2>4. r \in [1..n -> X]
    BY <2>1, <2>3
  <2>5. r \in Seq(X) /\ Len(r) = n
    BY <1>1, <2>4
  <2> QED
    BY <2>1, <2>2, <2>5
<1> HIDE DEF r
<1>3. SupabaseTrades(rows, FALSE, limit) = SubSeq(r, 1, n)
  <2>1. SupabaseTrades(rows, FALSE, limit)
          = SubSeq(r, 1, IF Len(r) < limit THEN Len(r) ELSE limit)
    BY DEF SupabaseTrades, r
  <2>2. (IF Len(r) < limit THEN Len(r) ELSE limit) = n
    BY <1>1, <1>2
  <2> QED
    BY <2>1, <2>2
<1>4. SubSeq(r, 1, n) = r
  BY <1>1, <1>2
<1> QED
  BY <1>2, <1>3, <1>4

\* The walk over some rows, and the net position along it.
Turn(rows) == InOrder(1..Len(rows), InTurn(rows))
NetInTurn(rows, k) == SumFunction([j \in 1..k |-> Signed(rows[Turn(rows)[j]])])

\* What a total order lists are the numbers 1..n, each once.
LEMMA ListsAll ==
    ASSUME NEW n \in Nat, NEW R, IsOrder(R, 1..n)
    PROVE  /\ InOrder(1..n, R) \in [1..n -> 1..n]
           /\ \A i, j \in 1..n : i < j => <<InOrder(1..n, R)[i], InOrder(1..n, R)[j]>> \in R
           /\ \A i, j \in 1..n : InOrder(1..n, R)[i] = InOrder(1..n, R)[j] => i = j
           /\ \A a \in 1..n : \E i \in 1..n : InOrder(1..n, R)[i] = a
<1> DEFINE S == 1..n
<1>1. IsFiniteSet(S) /\ Cardinality(S) = n
  BY FS_Interval
<1> HIDE DEF S
<1>2. IsOrder(R, S)
  BY DEF S
<1>3. /\ InOrder(S, R) \in [1..Cardinality(S) -> S]
      /\ \A i, j \in 1..Cardinality(S) : i < j => <<InOrder(S, R)[i], InOrder(S, R)[j]>> \in R
      /\ \A i, j \in 1..Cardinality(S) : InOrder(S, R)[i] = InOrder(S, R)[j] => i = j
      /\ \A a \in S : \E i \in 1..Cardinality(S) : InOrder(S, R)[i] = a
  BY <1>1, <1>2, InOrderLists
<1> DEFINE f == InOrder(S, R)
<1> HIDE DEF f
<1>4. /\ f \in [1..n -> S]
      /\ \A i, j \in 1..n : i < j => <<f[i], f[j]>> \in R
      /\ \A i, j \in 1..n : f[i] = f[j] => i = j
      /\ \A a \in S : \E i \in 1..n : f[i] = a
  BY <1>1, <1>3 DEF f
<1> QED
  BY <1>4 DEF f, S

\* Each row has the tag of its turn.
LEMMA TagsInTurn ==
    ASSUME NEW rows \in Seq(Rows), NEW futures, NEW k \in 1..Len(rows)
    PROVE  Tags(rows, futures)[Turn(rows)[k]]
             = TagOf(futures, NetInTurn(rows, k - 1), NetInTurn(rows, k), rows[Turn(rows)[k]])
<1> DEFINE n == Len(rows)
           order == Turn(rows)
           net(i) == SumFunction([j \in 1..i |-> Signed(rows[order[j]])])
           tag(i) == TagOf(futures, net(i - 1), net(i), rows[order[i]])
<1>1. DOMAIN rows = 1..n /\ n \in Nat
  OBVIOUS
<1>2. order \in [1..n -> 1..n] /\ \A i, j \in 1..n : order[i] = order[j] => i = j
  <2>1. IsOrder(InTurn(rows), 1..n)
    BY OrdersOfRows
  <2> QED
    BY <1>1, <2>1, ListsAll DEF Turn
<1>3. order = InOrder(DOMAIN rows,
                      {p \in (DOMAIN rows) \X (DOMAIN rows) : Precedes(rows, p[1], p[2])})
  BY <1>1 DEF Turn, InTurn
<1> HIDE DEF order, n
<1>4. Tags(rows, futures) = [i \in DOMAIN rows |-> tag(CHOOSE j \in DOMAIN order : order[j] = i)]
  BY <1>3 DEF Tags
<1>5. order[k] \in DOMAIN rows /\ k \in DOMAIN order
  BY <1>1, <1>2 DEF n
<1>6. (CHOOSE j \in DOMAIN order : order[j] = order[k]) = k
  <2> DEFINE c == CHOOSE j \in DOMAIN order : order[j] = order[k]
  <2>1. c \in DOMAIN order /\ order[c] = order[k]
    BY <1>5
  <2> QED
    BY <1>2, <1>5, <2>1
<1> HIDE DEF tag
<1>7. Tags(rows, futures)[order[k]] = tag(CHOOSE j \in DOMAIN order : order[j] = order[k])
  BY <1>4, <1>5
<1>8. Tags(rows, futures)[order[k]] = tag(k)
  BY <1>6, <1>7
<1> QED
  BY <1>8 DEF tag, NetInTurn, order

\* The rows newest first, sorted by time, come in their turn as the fills came.
LEMMA TurnOfFills ==
    ASSUME NEW fills \in Seq(Rows), InTime(fills),
           NEW rows \in Seq(Rows), Len(rows) = Len(fills),
           \A i \in 1..Len(fills) : rows[i] = fills[Len(fills) + 1 - i],
           NEW sorted \in Seq(Rows), Len(sorted) = Len(fills),
           \A k \in 1..Len(fills) : sorted[k] = rows[InOrder(1..Len(fills), InList(rows))[k]]
    PROVE  \A k \in 1..Len(fills) : sorted[Turn(sorted)[k]] = fills[k]
<1> DEFINE n == Len(fills)
           o == InOrder(1..n, InList(rows))
           t == Turn(sorted)
           place == [k \in 1..n |-> n + 1 - o[t[k]]]
<1>1. n \in Nat
  OBVIOUS
<1>2. /\ o \in [1..n -> 1..n]
      /\ \A i, j \in 1..n : i < j => PrecedesInList(rows, o[i], o[j])
  <2>1. IsOrder(InList(rows), 1..n)
    BY OrdersOfRows
  <2>2. o \in [1..n -> 1..n] /\ \A i, j \in 1..n : i < j => <<o[i], o[j]>> \in InList(rows)
    BY <1>1, <2>1, ListsAll
  <2>3. \A i, j \in 1..n : <<i, j>> \in InList(rows) <=> PrecedesInList(rows, i, j)
    BY OrdersOfRows
  <2> HIDE DEF n, o
  <2> QED
    BY <2>2, <2>3
<1>3. /\ t \in [1..n -> 1..n]
      /\ \A i, j \in 1..n : i < j => Precedes(sorted, t[i], t[j])
  <2>1. IsOrder(InTurn(sorted), 1..n)
    BY OrdersOfRows
  <2>2. t \in [1..n -> 1..n] /\ \A i, j \in 1..n : i < j => <<t[i], t[j]>> \in InTurn(sorted)
    BY <1>1, <2>1, ListsAll DEF Turn
  <2>3. \A i, j \in 1..n : <<i, j>> \in InTurn(sorted) <=> Precedes(sorted, i, j)
    BY OrdersOfRows
  <2> HIDE DEF n, t
  <2> QED
    BY <2>2, <2>3
<1>4. \A k \in 1..n : sorted[k] = rows[o[k]] /\ rows[k] = fills[n + 1 - k]
  OBVIOUS
<1>5. \A i \in 1..n : fills[i].at \in Nat
  <2>1. \A i \in 1..n : fills[i] \in Rows
    OBVIOUS
  <2> QED
    BY <2>1 DEF Rows
<1>6. \A i, j \in 1..n : i <= j => fills[i].at <= fills[j].at
  BY DEF InTime
<1> HIDE DEF n, o, t
<1>7. /\ place \in [1..n -> 1..n]
      /\ \A k \in 1..n : /\ place[k] = n + 1 - o[t[k]] /\ o[t[k]] \in 1..n
                         /\ sorted[t[k]] = fills[place[k]]
  <2>1. ASSUME NEW k \in 1..n
        PROVE  o[t[k]] \in 1..n /\ n + 1 - o[t[k]] \in 1..n /\ t[k] \in 1..n
    <3>1. t[k] \in 1..n
      BY <1>3
    <3>2. o[t[k]] \in 1..n
      BY <1>2, <3>1
    <3> DEFINE z == o[t[k]]
    <3> HIDE DEF z
    <3>3. n + 1 - z \in 1..n
      BY <1>1, <3>2 DEF z
    <3> QED
      BY <3>1, <3>2, <3>3 DEF z
  <2>2. place \in [1..n -> 1..n] /\ \A k \in 1..n : place[k] = n + 1 - o[t[k]]
    BY <2>1
  <2> HIDE DEF place
  <2>3. \A k \in 1..n : sorted[t[k]] = fills[place[k]]
    <3> TAKE k \in 1..n
    <3> DEFINE a == t[k]
               x == o[a]
    <3>1. a \in 1..n /\ x \in 1..n /\ place[k] = n + 1 - x
      BY <2>1, <2>2
    <3> HIDE DEF a, x
    <3>2. sorted[a] = rows[o[a]]
      BY <1>4, <3>1
    <3>3. rows[x] = fills[n + 1 - x]
      BY <1>4, <3>1
    <3>4. sorted[a] = fills[place[k]]
      <4>1. rows[o[a]] = rows[x]
        BY DEF x
      <4>2. fills[n + 1 - x] = fills[place[k]]
        BY <3>1
      <4> QED
        BY <3>2, <3>3, <4>1, <4>2, Zenon
    <3> QED
      BY <3>4 DEF a
  <2> QED
    BY <2>1, <2>2, <2>3
<1> HIDE DEF place
<1>8. \A i, j \in 1..n : i < j => place[i] < place[j]
  <2> SUFFICES ASSUME NEW i \in 1..n, NEW j \in 1..n, i < j
               PROVE  place[i] < place[j]
    OBVIOUS
  <2> DEFINE a == t[i]
             b == t[j]
             x == o[a]
             y == o[b]
  <2>1. /\ a \in 1..n /\ b \in 1..n /\ x \in 1..n /\ y \in 1..n
        /\ place[i] = n + 1 - x /\ place[j] = n + 1 - y
        /\ place[i] \in 1..n /\ place[j] \in 1..n
    BY <1>3, <1>7
  <2>2. sorted[a] = fills[place[i]] /\ sorted[b] = fills[place[j]]
    BY <1>7
  <2>3. rows[x] = sorted[a] /\ rows[y] = sorted[b]
    BY <1>4, <2>1
  <2>4. Precedes(sorted, a, b) /\ (b < a => PrecedesInList(rows, y, x))
    BY <1>2, <1>3, <2>1
  <2> DEFINE u == fills[place[i]].at
             v == fills[place[j]].at
  <2>5. u \in Nat /\ v \in Nat /\ (place[j] <= place[i] => v <= u)
    BY <1>5, <1>6, <2>1
  <2>6. (u < v \/ (u = v /\ a > b)) /\ (b < a => v < u \/ (v = u /\ y < x))
    BY <2>2, <2>3, <2>4 DEF Precedes, PrecedesInList
  <2> DEFINE p == place[i]
             q == place[j]
  <2>7. p = n + 1 - x /\ q = n + 1 - y /\ (q <= p => v <= u)
    BY <2>1, <2>5
  <2> HIDE DEF u, v, a, b, x, y, p, q
  <2>8. a \in Nat /\ b \in Nat /\ x \in Nat /\ y \in Nat
    BY <2>1
  <2>9. CASE u < v
    BY <1>1, <2>5, <2>7, <2>8, <2>9 DEF p, q
  <2>10. CASE u = v /\ a > b
    <3>1. y < x
      BY <2>5, <2>6, <2>8, <2>10
    <3> QED
      BY <1>1, <2>7, <2>8, <3>1 DEF p, q
  <2> QED
    BY <2>6, <2>9, <2>10
<1>9. \A k \in 1..n : place[k] = k
  BY <1>1, <1>7, <1>8, IncreasingIsIdentity
<1>10. \A k \in 1..n : sorted[t[k]] = fills[k]
  BY <1>7, <1>9
<1> QED
  BY <1>10 DEF n, t

\* The tag a fill earned, and its marker.
Earned(fills, futures, i) ==
    TagOf(futures, NetAfter(fills, i - 1), NetAfter(fills, i), fills[i])

\* Rows sorted by time are tagged as the fills they hold, one by one.
LEMMA TagsOfSorted ==
    ASSUME NEW fills \in Seq(Rows), NEW sorted \in Seq(Rows), Len(sorted) = Len(fills),
           \A k \in 1..Len(fills) : sorted[Turn(sorted)[k]] = fills[k],
           NEW futures
    PROVE  \A k \in 1..Len(fills) :
              Tags(sorted, futures)[Turn(sorted)[k]] = Earned(fills, futures, k)
<1> DEFINE n == Len(fills)
           t == Turn(sorted)
<1>1. \A k \in 1..n : sorted[t[k]] = fills[k]
  OBVIOUS
<1>2. n \in Nat
  OBVIOUS
<1>3. \A k \in 1..n : Tags(sorted, futures)[t[k]]
        = TagOf(futures, NetInTurn(sorted, k - 1), NetInTurn(sorted, k), sorted[t[k]])
  <2> TAKE k \in 1..n
  <2>1. k \in 1..Len(sorted)
    OBVIOUS
  <2> QED
    BY <2>1, TagsInTurn, Zenon
<1> HIDE DEF n, t
<1>4. \A k \in 0..n : NetInTurn(sorted, k) = NetAfter(fills, k)
  <2> TAKE k \in 0..n
  <2>1. \A j \in 1..k : j \in 1..n
    BY <1>2
  <2>2. [j \in 1..k |-> Signed(sorted[t[j]])] = [j \in 1..k |-> Signed(fills[j])]
    BY <1>1, <2>1
  <2>3. SumFunction([j \in 1..k |-> Signed(sorted[t[j]])])
          = SumFunction([j \in 1..k |-> Signed(fills[j])])
    BY <2>2
  <2> QED
    BY <2>3 DEF NetInTurn, NetAfter, t
<1>5. \A k \in 1..n : k \in 0..n /\ k - 1 \in 0..n
  BY <1>2
<1>6. \A k \in 1..n : Tags(sorted, futures)[t[k]] = Earned(fills, futures, k)
  <2> TAKE k \in 1..n
  <2>1. /\ NetInTurn(sorted, k) = NetAfter(fills, k)
        /\ NetInTurn(sorted, k - 1) = NetAfter(fills, k - 1)
        /\ sorted[t[k]] = fills[k]
    BY <1>1, <1>4, <1>5
  <2>2. TagOf(futures, NetInTurn(sorted, k - 1), NetInTurn(sorted, k), sorted[t[k]])
          = TagOf(futures, NetAfter(fills, k - 1), NetAfter(fills, k), fills[k])
    BY <2>1
  <2> QED
    BY <1>3, <2>2 DEF Earned
<1> QED
  BY <1>6 DEF n, t

\* The markers are those of the fills.
LEMMA MarkersOfFills ==
    ASSUME NEW fills \in Seq(Rows), InTime(fills), Len(fills) <= ChartLimit, NEW futures
    PROVE  TradeMarkers(fills, futures)
             = {[n |-> fills[i].n, tag |-> Earned(fills, futures, i)] : i \in DOMAIN fills}
<1> DEFINE n == Len(fills)
           rows == SupabaseTrades(fills, FALSE, ChartLimit)
           o == InOrder(1..n, InList(rows))
           sorted == [k \in 1..n |-> rows[o[k]]]
           t == Turn(sorted)
           tags == Tags(sorted, futures)
<1>1. n \in Nat /\ DOMAIN fills = 1..n /\ ChartLimit \in Nat
  BY LedgerAssumption
<1>2. /\ rows \in Seq(Rows) /\ Len(rows) = n
      /\ \A i \in 1..n : rows[i] = fills[n + 1 - i]
  BY <1>1, NewestFirst
<1> HIDE DEF rows
<1>3. o \in [1..n -> 1..n] /\ DOMAIN rows = 1..n
  <2>1. IsOrder(InList(rows), 1..n)
    BY <1>2, OrdersOfRows
  <2>2. o \in [1..n -> 1..n]
    BY <1>1, <2>1, ListsAll
  <2> QED
    BY <1>2, <2>2
<1>4. sorted \in Seq(Rows) /\ Len(sorted) = n /\ \A k \in 1..n : sorted[k] = rows[o[k]]
  <2> HIDE DEF n, o
  <2>1. \A k \in 1..n : rows[o[k]] \in Rows
    BY <1>2, <1>3
  <2>2. sorted \in [1..n -> Rows]
    BY <2>1
  <2>3. \A k \in 1..n : sorted[k] = rows[o[k]]
    OBVIOUS
  <2> HIDE DEF sorted
  <2> QED
    BY <1>1, <2>2, <2>3
<1>5. TradeMarkers(fills, futures) = {[n |-> sorted[k].n, tag |-> tags[k]] : k \in 1..n}
  <2> DEFINE list == {p \in (DOMAIN rows) \X (DOMAIN rows) : PrecedesInList(rows, p[1], p[2])}
             order == InOrder(DOMAIN rows, list)
             s == [k \in DOMAIN rows |-> rows[order[k]]]
  <2>1. order = o
    BY <1>3 DEF InList
  <2>2. s = sorted
    BY <1>3, <2>1
  <2>3. DOMAIN s = 1..n
    BY <1>3
  <2>4. TradeMarkers(fills, futures)
          = {[n |-> s[k].n, tag |-> Tags(s, futures)[k]] : k \in DOMAIN s}
    BY DEF TradeMarkers, rows
  <2> HIDE DEF s, sorted
  <2> QED
    BY <2>2, <2>3, <2>4
<1>6. \A k \in 1..n : sorted[t[k]] = fills[k]
  <2> HIDE DEF sorted
  <2> QED
    BY <1>2, <1>4, TurnOfFills
<1> HIDE DEF sorted
<1>7. \A k \in 1..n : tags[t[k]] = Earned(fills, futures, k)
  BY <1>4, <1>6, TagsOfSorted
<1>8. t \in [1..n -> 1..n] /\ \A a \in 1..n : \E i \in 1..n : t[i] = a
  <2> DEFINE R == InTurn(sorted)
  <2>1. IsOrder(R, 1..n)
    BY <1>4, OrdersOfRows
  <2>2. t = InOrder(1..n, R)
    BY <1>4 DEF Turn
  <2> HIDE DEF R, t, n
  <2>3. /\ InOrder(1..n, R) \in [1..n -> 1..n]
        /\ \A a \in 1..n : \E i \in 1..n : InOrder(1..n, R)[i] = a
    BY <1>1, <2>1, ListsAll
  <2> QED
    BY <2>2, <2>3
<1> HIDE DEF n, t, tags
<1> DEFINE M(k) == [n |-> sorted[k].n, tag |-> tags[k]]
           E(i) == [n |-> fills[i].n, tag |-> Earned(fills, futures, i)]
<1>9. \A k \in 1..n : M(t[k]) = E(k)
  BY <1>6, <1>7
<1> HIDE DEF M, E
<1>10. {M(k) : k \in 1..n} = {E(i) : i \in 1..n}
  <2>1. \A k \in 1..n : t[k] \in 1..n
    BY <1>8
  <2>2. \A a \in 1..n : \E i \in 1..n : M(a) = E(i)
    BY <1>8, <1>9
  <2>3. \A i \in 1..n : \E a \in 1..n : M(a) = E(i)
    BY <1>9, <2>1
  <2> QED
    BY <2>2, <2>3
<1> QED
  BY <1>1, <1>5, <1>10 DEF M, E

\* Every marker has its fill's tag, whatever the fills, while the chart holds the
\* whole history.
THEOREM TagsAreRight == Spec => []TagsFollowFills
<1>1. TableOK => TagsFollowFills
  <2> SUFFICES ASSUME TableOK, NEW b \in Bots, Len(Of(b)) <= ChartLimit, NEW futures \in BOOLEAN
               PROVE  TradeMarkers(Of(b), futures)
                        = {[n |-> Of(b)[i].n,
                            tag |-> TagOf(futures, NetAfter(Of(b), i - 1), NetAfter(Of(b), i),
                                          Of(b)[i])] : i \in DOMAIN Of(b)}
    BY DEF TagsFollowFills
  <2>1. Of(b) \in Seq(Rows) /\ InTime(Of(b))
    BY OfType
  <2>2. TradeMarkers(Of(b), futures)
          = {[n |-> Of(b)[i].n, tag |-> Earned(Of(b), futures, i)] : i \in DOMAIN Of(b)}
    BY <2>1, MarkersOfFills
  <2> QED
    BY <2>2 DEF Earned
<1> QED
  BY <1>1, TableHolds, PTL

-----------------------------------------------------------------------------
(* The summary and the cards. *)

\* A part of 1..n has a least member.
LEMMA MinIsLeast ==
    ASSUME NEW n \in Nat, NEW T \in SUBSET (1..n), T # {}
    PROVE  Min(T) \in T /\ \A y \in T : Min(T) <= y
<1> DEFINE U == {n + 1 - i : i \in T}
<1>1. U \in SUBSET (1..n) /\ U # {}
  <2>1. \A i \in 1..n : n + 1 - i \in 1..n
    OBVIOUS
  <2>2. \A i \in T : n + 1 - i \in 1..n
    BY <2>1
  <2>3. PICK i \in T : TRUE
    OBVIOUS
  <2> QED
    BY <2>2, <2>3
<1> HIDE DEF U
<1>2. Max(U) \in U /\ \A y \in U : Max(U) >= y
  BY <1>1, MaxIsMost
<1>3. PICK x \in T : Max(U) = n + 1 - x
  BY <1>2 DEF U
<1>4. \A y \in T : n + 1 - y \in U
  BY DEF U
<1>5. \A y \in T : x <= y
  <2> TAKE y \in T
  <2>1. n + 1 - x >= n + 1 - y
    BY <1>2, <1>3, <1>4
  <2>2. x \in Nat /\ y \in Nat
    OBVIOUS
  <2> QED
    BY <2>1, <2>2
<1> QED
  BY <1>5 DEF Min

\* Lists put one after the other.
IsJoined(seqs, n, k) == \A i \in 1..n : k[i] = IF i = 1 THEN seqs[i] ELSE k[i - 1] \o seqs[i]

\* Sequences flattened are joined one after the other.
LEMMA FlattenSteps ==
    ASSUME NEW Y, NEW n \in Nat \ {0}, NEW seqs \in [1..n -> Seq(Y)]
    PROVE  \E k : IsJoined(seqs, n, k) /\ FlattenSeq(seqs) = k[n]
<1> DEFINE X == Seq(Y)
           D == 1..n
           step == [p \in X \X D |-> p[1] \o seqs[p[2]]]
           Body(h) == [i \in D |-> IF i = 1 THEN seqs[i] ELSE h[i - 1] \o seqs[i]]
           k == CHOOSE h : h = Body(h)
<1>1. Len(seqs) = n /\ Len(seqs) # 0 /\ n \in Nat /\ n \in D
  OBVIOUS
<1>2. FlattenSeq(seqs) = k[n]
  BY <1>1 DEF FlattenSeq
<1>3. \A a \in X, b \in X : a \o b \in X /\ (b # <<>> => a \o b # <<>>)
  OBVIOUS
<1>4. \A b \in X : <<>> \o b = b
  OBVIOUS
<1>5. <<>> \in X /\ seqs \in [D -> X]
  OBVIOUS
<1> HIDE DEF X, D
<1>6. /\ step \in [X \X D -> X]
      /\ \A a \in X, i \in D : step[<<a, i>>] = a \o seqs[i]
  BY <1>3, <1>5
<1> HIDE DEF step
<1>7. IsFold(n, X, <<>>, step)
  BY <1>1, <1>5, <1>6 DEF IsFold, D
<1>8. PICK g : IsFoldTable(n, X, <<>>, step, g)
  BY <1>7, FoldTable
<1> DEFINE h == [i \in D |-> g[1..i]]
<1>9. g \in [SUBSET D -> X] /\ g[{}] = <<>>
  BY <1>8 DEF IsFoldTable, D
<1>10. \A i \in D : g[1..i] = g[1..(i - 1)] \o seqs[i]
  <2> TAKE i \in D
  <2>1. i \in Nat \ {0} /\ 1..i \in SUBSET D /\ 1..(i - 1) \in SUBSET D /\ 1..i # {}
    <3>1. i \in 1..n /\ n \in Nat
      BY <1>1 DEF D
    <3>2. i \in Nat \ {0} /\ i \in 1..i
      BY <3>1
    <3>3. 1..i \subseteq 1..n
      BY <3>1
    <3>4. 1..(i - 1) \subseteq 1..n
      BY <3>1
    <3> QED
      BY <3>2, <3>3, <3>4 DEF D
  <2>2. Max(1..i) = i /\ (1..i) \ {i} = 1..(i - 1)
    BY <2>1, UpTo
  <2>3. g[1..i] = step[<<g[(1..i) \ {Max(1..i)}], Max(1..i)>>]
    <3>1. \A T \in SUBSET D :
            g[T] = IF T = {} THEN <<>> ELSE step[<<g[T \ {Max(T)}], Max(T)>>]
      BY <1>8 DEF IsFoldTable, D
    <3> QED
      BY <2>1, <3>1
  <2>4. g[1..i] = step[<<g[1..(i - 1)], i>>]
    BY <2>2, <2>3
  <2>5. g[1..(i - 1)] \in X
    BY <1>9, <2>1
  <2> QED
    BY <1>6, <2>4, <2>5
<1>11. h = Body(h)
  <2>1. ASSUME NEW i \in D
        PROVE  h[i] = IF i = 1 THEN seqs[i] ELSE h[i - 1] \o seqs[i]
    <3>1. CASE i = 1
      <4>1. 1..(i - 1) = {}
        BY <3>1
      <4>2. g[1..i] = <<>> \o seqs[i]
        BY <1>9, <1>10, <4>1
      <4>3. seqs[i] \in X
        BY <1>5
      <4> QED
        BY <1>4, <3>1, <4>2, <4>3
    <3>2. CASE i # 1
      <4>1. i - 1 \in D
        BY <3>2 DEF D
      <4> QED
        BY <1>10, <3>2, <4>1
    <3> QED
      BY <3>1, <3>2
  <2> QED
    BY <2>1
<1>12. k = Body(k)
  <2> HIDE DEF Body
  <2>1. \E f : f = Body(f)
    BY <1>11
  <2> QED
    BY <2>1
<1>13. \A i \in D : k[i] = IF i = 1 THEN seqs[i] ELSE k[i - 1] \o seqs[i]
  <2> TAKE i \in D
  <2>1. k[i] = Body(k)[i]
    BY <1>12
  <2> HIDE DEF k
  <2> QED
    BY <2>1
<1>14. IsJoined(seqs, n, k)
  <2> HIDE DEF k
  <2> QED
    BY <1>13 DEF IsJoined, D
<1> HIDE DEF k
<1> QED
  BY <1>2, <1>14

LEMMA FlattenType ==
    ASSUME NEW Y, NEW n \in Nat \ {0}, NEW seqs \in [1..n -> Seq(Y)],
           \A i \in 1..n : seqs[i] # <<>>
    PROVE  FlattenSeq(seqs) \in Seq(Y) /\ FlattenSeq(seqs) # <<>>
<1> DEFINE X == Seq(Y)
<1>1. \A a \in X, b \in X : a \o b \in X /\ (b # <<>> => a \o b # <<>>)
  OBVIOUS
<1>2. n \in Nat /\ \A i \in 1..n : seqs[i] \in X /\ seqs[i] # <<>>
  OBVIOUS
<1> HIDE DEF X
<1>3. PICK k : IsJoined(seqs, n, k) /\ FlattenSeq(seqs) = k[n]
  BY FlattenSteps
<1> DEFINE P == {i \in 0..n : i = 0 \/ (k[i] \in X /\ k[i] # <<>>)}
<1>4. 0 \in P
  BY <1>2
<1>5. ASSUME NEW i \in 0..(n - 1), i \in P
      PROVE  i + 1 \in P
  <2> DEFINE j == i + 1
  <2>1. j \in 1..n /\ j \in 0..n /\ j - 1 = i /\ (j = 1 <=> i = 0)
    BY <1>2
  <2>2. k[j] = IF j = 1 THEN seqs[j] ELSE k[i] \o seqs[j]
    BY <1>3, <2>1 DEF IsJoined
  <2>3. seqs[j] \in X /\ seqs[j] # <<>>
    BY <1>2, <2>1
  <2>4. i = 0 \/ (k[i] \in X /\ k[i] # <<>>)
    BY <1>5
  <2> HIDE DEF j
  <2>5. k[j] \in X /\ k[j] # <<>>
    BY <1>1, <2>1, <2>2, <2>3, <2>4
  <2> QED
    BY <2>1, <2>5 DEF j
<1>6. n \in P
  <2> HIDE DEF P
  <2>1. 0..n \subseteq P
    BY <1>2, <1>4, <1>5, InductionUpTo
  <2> QED
    BY <1>2, <2>1
<1> QED
  BY <1>3, <1>6 DEF X

\* The last list is the end of the whole, and the others are what is before it.
LEMMA FlattenEnds ==
    ASSUME NEW Y, NEW n \in Nat \ {0}, NEW seqs \in [1..n -> Seq(Y)],
           NEW Z, \A i \in 1..(n - 1) : seqs[i] \in Seq(Z)
    PROVE  \E front \in Seq(Z) : FlattenSeq(seqs) = front \o seqs[n]
<1> DEFINE X == Seq(Z)
<1>1. (\A a \in X, b \in X : a \o b \in X) /\ <<>> \in X
  OBVIOUS
<1>2. n \in Nat /\ n \in 1..n /\ \A i \in 1..(n - 1) : seqs[i] \in X
  OBVIOUS
<1>3. <<>> \o seqs[n] = seqs[n]
  BY <1>2
<1> HIDE DEF X
<1>4. PICK k : IsJoined(seqs, n, k) /\ FlattenSeq(seqs) = k[n]
  BY FlattenSteps
<1> DEFINE P == {i \in 0..(n - 1) : i = 0 \/ k[i] \in X}
<1>5. 0 \in P /\ n - 1 \in Nat
  BY <1>2
<1>6. ASSUME NEW i \in 0..((n - 1) - 1), i \in P
      PROVE  i + 1 \in P
  <2> DEFINE j == i + 1
  <2>1. /\ j \in 1..n /\ j \in 1..(n - 1) /\ j \in 0..(n - 1)
        /\ j - 1 = i /\ (j = 1 <=> i = 0)
    BY <1>2
  <2>2. k[j] = IF j = 1 THEN seqs[j] ELSE k[i] \o seqs[j]
    BY <1>4, <2>1 DEF IsJoined
  <2>3. seqs[j] \in X
    BY <1>2, <2>1
  <2>4. i = 0 \/ k[i] \in X
    BY <1>6
  <2> HIDE DEF j
  <2>5. k[j] \in X
    BY <1>1, <2>1, <2>2, <2>3, <2>4
  <2> QED
    BY <2>1, <2>5 DEF j
<1>7. n - 1 \in P
  <2> HIDE DEF P
  <2>1. 0..(n - 1) \subseteq P
    BY <1>5, <1>6, InductionUpTo
  <2>2. n - 1 \in 0..(n - 1)
    BY <1>5
  <2> QED
    BY <2>1, <2>2
<1> DEFINE front == IF n = 1 THEN <<>> ELSE k[n - 1]
<1>8. front \in X
  BY <1>1, <1>2, <1>7
<1>9. k[n] = IF n = 1 THEN seqs[n] ELSE k[n - 1] \o seqs[n]
  BY <1>2, <1>4 DEF IsJoined
<1>10. k[n] = front \o seqs[n]
  BY <1>3, <1>9
<1> QED
  BY <1>4, <1>8, <1>10 DEF X

Held == [base : Int, cost : Int, at : Nat]

LEMMA PositionRowsType ==
    ASSUME NEW fills \in Seq(Rows), NEW n \in 1..Len(fills)
    PROVE  PositionRows(fills, n) \in Seq(Held) /\ PositionRows(fills, n) # <<>>
<1> DEFINE Y == Held
           row(i) == [base |-> BookAfter(fills, i).base, cost |-> BookAfter(fills, i).cost,
                      at |-> fills[i].at]
           seqs == [i \in 1..n |->
                      IF fills[i].ghost THEN <<row(i), [row(i) EXCEPT !.base = 0]>>
                      ELSE <<row(i)>>]
<1>1. \A i \in 1..n : row(i) \in Y /\ [row(i) EXCEPT !.base = 0] \in Y
  <2> TAKE i \in 1..n
  <2>1. i \in 0..Len(fills) /\ 0 \in 0..i /\ 0 + 1 = 1 /\ fills[i] \in Rows
    OBVIOUS
  <2>2. SubSeq(fills, 0 + 1, i) \in Seq(Rows)
    BY <2>1, Section
  <2>3. SubSeq(fills, 1, i) \in Seq(Rows)
    BY <2>1, <2>2
  <2>4. BookAfter(fills, i) \in Position
    BY <2>3, BookType DEF BookAfter
  <2>5. BookAfter(fills, i).base \in Int /\ BookAfter(fills, i).cost \in Int
    BY <2>4 DEF Position
  <2>6. fills[i].at \in Nat
    BY <2>1 DEF Rows
  <2> QED
    BY <2>5, <2>6 DEF Held
<1>2. PositionRows(fills, n) = FlattenSeq(seqs)
  BY DEF PositionRows
<1>3. n \in Nat \ {0}
  OBVIOUS
<1> HIDE DEF Y, row
<1>4. \A i \in 1..n : seqs[i] \in Seq(Y) /\ seqs[i] # <<>>
  BY <1>1
<1>5. seqs \in [1..n -> Seq(Y)]
  BY <1>4
<1> HIDE DEF seqs
<1>6. FlattenSeq(seqs) \in Seq(Y) /\ FlattenSeq(seqs) # <<>>
  BY <1>3, <1>4, <1>5, FlattenType
<1> QED
  BY <1>2, <1>6 DEF Y

\* The latest position is a row of the table.
LEMMA LatestType ==
    ASSUME NEW Y, NEW rows \in Seq(Y), rows # <<>>
    PROVE  Latest(rows) \in Y
<1> DEFINE siblings == {i \in DOMAIN rows : rows[i].at = Head(rows).at /\ rows[i].base # 0}
<1>1. Len(rows) \in Nat /\ DOMAIN rows = 1..Len(rows) /\ Head(rows) \in Y
  OBVIOUS
<1>2. siblings \in SUBSET (1..Len(rows))
  BY <1>1
<1>3. Latest(rows)
        = IF Head(rows).base = 0 /\ siblings # {} THEN rows[Min(siblings)] ELSE Head(rows)
  BY DEF Latest
<1> HIDE DEF siblings
<1>4. siblings # {} => Min(siblings) \in 1..Len(rows)
  BY <1>1, <1>2, MinIsLeast
<1> QED
  BY <1>1, <1>3, <1>4

\* What a page can hold: finitely many open snapshots, at most one position.
Snapshot(r) == r.amount \in Int /\ r.cost \in Int /\ r.mark \in Nat

Holds(seen) ==
    /\ IsFiniteSet(seen.risks) /\ \A r \in seen.risks : Snapshot(r)
    /\ \A p, q \in seen.positions : p = q
    /\ \A p \in seen.positions : p.base \in Int /\ p.cost \in Int

LEMMA RisksType ==
    ASSUME NEW fills \in Seq(Rows), NEW n \in 0..Len(fills)
    PROVE  IsFiniteSet(OpenRisks(fills, n)) /\ \A r \in OpenRisks(fills, n) : Snapshot(r)
<1> DEFINE T == {j \in 1..n : \A k \in (j + 1)..n : fills[k].bucket # fills[j].bucket}
           f == [i \in T |-> FuturesRow(fills, i)]
<1>1. T \in SUBSET (1..n) /\ \A i \in T : i \in 1..Len(fills)
  OBVIOUS
<1>2. IsFiniteSet(T)
  <2>1. n \in Int /\ 1 \in Int
    OBVIOUS
  <2>2. IsFiniteSet(1..n)
    BY <2>1, FS_Interval
  <2> HIDE DEF T
  <2> QED
    BY <1>1, <2>2, FS_Subset
<1>3. OpenRisks(fills, n) \subseteq {f[i] : i \in T}
  <2>1. LatestRisks(fills, n) = {FuturesRow(fills, i) : i \in T}
    BY DEF LatestRisks
  <2> HIDE DEF T
  <2> QED
    BY <2>1 DEF OpenRisks
<1> HIDE DEF T
<1>4. IsFiniteSet({f[i] : i \in T})
  <2> HIDE DEF f
  <2>1. DOMAIN f = T
    BY DEF f
  <2> QED
    BY <1>2, <2>1, FiniteImage
<1>5. IsFiniteSet(OpenRisks(fills, n))
  BY <1>3, <1>4, FS_Subset
<1>6. \A i \in T : Snapshot(f[i])
  <2> TAKE i \in T
  <2>1. i \in 1..Len(fills) /\ fills[i] \in Rows
    BY <1>1
  <2>2. BucketAfter(fills, i) \in Position
    BY <2>1, BucketType
  <2>3. BucketAfter(fills, i).base \in Int /\ BucketAfter(fills, i).cost \in Int
    BY <2>2 DEF Position
  <2>4. fills[i].price \in Nat
    BY <2>1 DEF Rows
  <2>5. f[i] = FuturesRow(fills, i)
    OBVIOUS
  <2> HIDE DEF f
  <2> QED
    BY <2>3, <2>4, <2>5 DEF FuturesRow, Snapshot
<1> QED
  BY <1>3, <1>5, <1>6

LEMMA PositionsType ==
    ASSUME NEW fills \in Seq(Rows), NEW n \in 0..Len(fills)
    PROVE  /\ \A p, q \in OpenPositions(fills, n) : p = q
           /\ \A p \in OpenPositions(fills, n) : p.base \in Int /\ p.cost \in Int
<1>1. CASE n = 0
  BY <1>1 DEF OpenPositions
<1>2. CASE n # 0
  <2> DEFINE Y == Held
             rows == PositionRows(fills, n)
             back == Reverse(rows)
  <2>1. n \in 1..Len(fills)
    BY <1>2
  <2>2. rows \in Seq(Y) /\ rows # <<>>
    BY <2>1, PositionRowsType
  <2>3. OpenPositions(fills, n) = {p \in {Latest(back)} : p.base # 0}
    BY <1>2 DEF OpenPositions
  <2> HIDE DEF Y, rows
  <2>4. back \in Seq(Y) /\ back # <<>>
    <3>1. Len(rows) \in Nat \ {0}
      BY <2>2
    <3>2. back = [i \in 1..Len(rows) |-> rows[Len(rows) - i + 1]]
      BY DEF Reverse
    <3>3. \A i \in 1..Len(rows) : rows[Len(rows) - i + 1] \in Y
      <4> TAKE i \in 1..Len(rows)
      <4>1. Len(rows) - i + 1 \in 1..Len(rows)
        BY <3>1
      <4> QED
        BY <2>2, <4>1
    <3> HIDE DEF back
    <3>4. back \in [1..Len(rows) -> Y]
      BY <3>2, <3>3
    <3>5. back \in Seq(Y) /\ Len(back) = Len(rows)
      BY <3>1, <3>4
    <3> QED
      BY <3>1, <3>5
  <2> HIDE DEF back
  <2>5. Latest(back) \in Y
    BY <2>4, LatestType
  <2>6. Latest(back).base \in Int /\ Latest(back).cost \in Int
    BY <2>5 DEF Y, Held
  <2> QED
    BY <2>3, <2>6
<1> QED
  BY <1>1, <1>2

\* A view the page can hold is made of numbers.
LEMMA ViewsType ==
    ASSUME NEW fills \in Seq(Rows), NEW seen \in Views(fills)
    PROVE  Holds(seen)
<1> DEFINE n == Len(fills)
<1>1. n \in Nat /\ n \in 0..n
  OBVIOUS
<1>2. seen.risks = {} \/ \E i \in 0..n : seen.risks = OpenRisks(fills, i)
  BY <1>1 DEF Views
<1>3. \E i \in 0..n : seen.positions = OpenPositions(fills, i)
  BY <1>1 DEF Views
<1> HIDE DEF n
<1>4. IsFiniteSet(seen.risks) /\ \A r \in seen.risks : Snapshot(r)
  <2>1. CASE seen.risks = {}
    BY <2>1, FS_EmptySet
  <2>2. CASE \E i \in 0..n : seen.risks = OpenRisks(fills, i)
    BY <2>2, RisksType DEF n
  <2> QED
    BY <1>2, <2>1, <2>2
<1>5. /\ \A p, q \in seen.positions : p = q
      /\ \A p \in seen.positions : p.base \in Int /\ p.cost \in Int
  BY <1>3, PositionsType DEF n
<1> QED
  BY <1>4, <1>5 DEF Holds

LEMMA GainType ==
    ASSUME NEW amount \in Int, NEW cost \in Int, NEW price \in Nat
    PROVE  Gain(amount, cost, price) \in Int
<1>1. Abs(amount) \in Int
  BY DEF Abs
<1> QED
  BY <1>1 DEF Gain

\* A snapshot's gain is a number at any price.
LEMMA RealtimeType ==
    ASSUME NEW r, Snapshot(r), NEW price \in Nat
    PROVE  FuturesRealtime(r, price) \in Int
<1>1. r.amount \in Int /\ r.cost \in Int /\ (IF price > 0 THEN price ELSE r.mark) \in Nat
  BY DEF Snapshot
<1> QED
  BY <1>1, GainType DEF FuturesRealtime

\* The sum of one.
LEMMA SumOfOne ==
    ASSUME NEW x, NEW f \in [{x} -> Int]
    PROVE  SumFunction(f) = f[x]
<1> DEFINE S == {x}
<1>1. IsFiniteSet(S) /\ f \in [S -> Int] /\ S \in SUBSET S /\ x \in S /\ S \ {x} = {}
  BY FS_Singleton
<1>2. SumFunction(f) = SumFunctionOnSet(f, S)
  BY DEF SumFunction
<1> HIDE DEF S
<1>3. SumFunctionOnSet(f, {}) = 0
  BY <1>1, SumRecursion
<1>4. SumFunctionOnSet(f, S) = f[x] + SumFunctionOnSet(f, S \ {x})
  BY <1>1, SumStep
<1>5. f[x] \in Int
  BY <1>1
<1>6. SumFunctionOnSet(f, S) = f[x] + 0
  BY <1>1, <1>3, <1>4
<1> QED
  BY <1>2, <1>5, <1>6

\* On futures each card tells its own gain, and the summary the sum of them.
LEMMA FuturesMatch ==
    ASSUME NEW seen, Holds(seen), seen.risks # {}, NEW price \in Nat
    PROVE  Summary(seen, price)
             = SumFunction([c \in FuturesCards(seen, price) |-> c.gain])
<1> DEFINE S == seen.risks
           T == FuturesCards(seen, price)
           b == [r \in S |-> [of |-> r, gain |-> FuturesRealtime(r, price)]]
           h == [r \in S |-> FuturesRealtime(r, price)]
           f == [c \in T |-> c.gain]
<1>1. IsFiniteSet(S) /\ \A r \in S : FuturesRealtime(r, price) \in Int
  BY RealtimeType DEF Holds
<1>2. T = {b[r] : r \in S}
  BY DEF FuturesCards
<1>3. \A r \in S : b[r].of = r /\ b[r].gain = FuturesRealtime(r, price) /\ b[r] \in T
  BY <1>2
<1>4. IsFiniteSet(T)
  <2> HIDE DEF T, b
  <2>1. DOMAIN b = S
    BY DEF b
  <2> HIDE DEF S
  <2> QED
    BY <1>1, <1>2, <2>1, FiniteImage
<1>5. f \in [T -> Int]
  <2>1. \A c \in T : c.gain \in Int
    <3> HIDE DEF S, T, b
    <3> TAKE c \in T
    <3>1. PICK r \in S : c = b[r]
      BY <1>2
    <3>2. c.gain = FuturesRealtime(r, price)
      BY <1>3, <3>1
    <3>3. FuturesRealtime(r, price) \in Int
      BY <1>1
    <3> QED
      BY <3>2, <3>3
  <2> HIDE DEF T
  <2> QED
    BY <2>1
<1>6. b \in [S -> T]
  BY <1>3
<1>7. \A x, y \in S : b[x] = b[y] => x = y
  <2> HIDE DEF b, S, T
  <2> QED
    BY <1>3
<1>8. h = [x \in S |-> f[b[x]]]
  <2>1. \A x \in S : f[b[x]] = FuturesRealtime(x, price)
    <3> HIDE DEF b, S, T
    <3> QED
      BY <1>3
  <2> HIDE DEF f, b, S
  <2> QED
    BY <2>1
<1> HIDE DEF S, T, b, h, f
<1>9. IsRenamed(h, S, f, T, T, b)
  BY <1>1, <1>2, <1>4, <1>5, <1>6, <1>7, <1>8 DEF IsRenamed
<1>10. SumFunctionOnSet(h, S) = SumFunctionOnSet(f, T)
  BY <1>9, SumMoved
<1>11. SumFunction(h) = SumFunctionOnSet(h, S) /\ SumFunction(f) = SumFunctionOnSet(f, T)
  <2>1. DOMAIN h = S /\ DOMAIN f = T
    BY DEF h, f
  <2> QED
    BY <2>1 DEF SumFunction
<1>12. Summary(seen, price) = SumFunction(h)
  BY DEF Summary, h, S
<1>13. Summary(seen, price) = SumFunction(f)
  BY <1>10, <1>11, <1>12
<1> QED
  BY <1>13 DEF f, T

\* On spot there is one card at most, and it tells the position's gain.
LEMMA SpotMatches ==
    ASSUME NEW seen, Holds(seen), seen.risks = {}, NEW price \in Nat
    PROVE  /\ SpotCards(seen, price) # {} =>
                Summary(seen, price) = SumFunction([c \in SpotCards(seen, price) |-> c.gain])
           /\ \A s \in Strip(seen, price) : s.gain = Gain(s.of.base, s.of.cost, price)
<1> DEFINE U == UnrealizedPnL(seen.positions, price)
<1>1. Summary(seen, price) = U
  BY DEF Summary
<1>2. CASE seen.positions = {}
  <2>1. SpotCards(seen, price) = {} /\ Strip(seen, price) = {}
    BY <1>2 DEF SpotCards, Strip, SupabasePosition
  <2> QED
    BY <2>1
<1>3. CASE seen.positions # {}
  <2>1. PICK p \in seen.positions : TRUE
    BY <1>3
  <2>2. seen.positions = {p} /\ p.base \in Int /\ p.cost \in Int
    BY <2>1 DEF Holds
  <2> DEFINE g == Gain(p.base, p.cost, price)
             f == [q \in {p} |-> Gain(q.base, q.cost, price)]
             c == [of |-> p, gain |-> U]
  <2>3. g \in Int
    BY <2>2, GainType
  <2>4. f \in [{p} -> Int] /\ f[p] = g
    BY <2>3
  <2>5. U = IF price = 0 THEN 0 ELSE SumFunction(f)
    BY <2>2 DEF UnrealizedPnL
  <2>6. SumFunction(f) = g
    <3> HIDE DEF f, g
    <3> QED
      BY <2>4, SumOfOne
  <2> HIDE DEF f
  <2>7. U \in Int /\ (price # 0 => U = g)
    BY <2>3, <2>5, <2>6
  <2> HIDE DEF U
  <2>8. SpotCards(seen, price) = {c}
    BY <2>2 DEF SpotCards, U
  <2>9. SumFunction([x \in SpotCards(seen, price) |-> x.gain]) = U
    <3> DEFINE e == [x \in {c} |-> x.gain]
    <3>1. c.gain = U
      OBVIOUS
    <3> HIDE DEF c
    <3>2. e \in [{c} -> Int] /\ e[c] = U
      BY <2>7, <3>1
    <3>3. [x \in SpotCards(seen, price) |-> x.gain] = e
      BY <2>8
    <3> HIDE DEF e
    <3>4. SumFunction(e) = e[c]
      BY <3>2, SumOfOne
    <3> QED
      BY <3>2, <3>3, <3>4
  <2>10. ASSUME NEW s \in Strip(seen, price)
         PROVE  s.gain = Gain(s.of.base, s.of.cost, price)
    <3>1. price # 0 /\ Strip(seen, price) = {[of |-> p, gain |-> Summary(seen, price)]}
      BY <2>2, <2>10 DEF Strip, SupabasePosition
    <3>2. s.of = p /\ s.gain = U
      BY <1>1, <3>1
    <3> QED
      BY <2>7, <3>1, <3>2
  <2> QED
    BY <1>1, <2>9, <2>10
<1> QED
  BY <1>2, <1>3

\* Whichever of the queries lag behind, the cards add up to the summary.
THEOREM SummaryIsRight == Spec => []SummaryMatchesCards
<1>1. TableOK => SummaryMatchesCards
  <2> SUFFICES ASSUME TableOK, NEW b \in Bots, NEW seen \in Views(Of(b)), NEW price \in Closes
               PROVE  LET cards == Cards(seen, price)
                      IN /\ cards # {} =>
                              Summary(seen, price) = SumFunction([c \in cards |-> c.gain])
                         /\ ~IsFutures(seen) =>
                              \A s \in Strip(seen, price) :
                                 s.gain = Gain(s.of.base, s.of.cost, price)
    BY DEF SummaryMatchesCards
  <2> DEFINE fills == Of(b)
             cards == Cards(seen, price)
  <2>1. fills \in Seq(Rows) /\ price \in Nat
    BY OfType, ClosesAssumption
  <2>2. Holds(seen)
    <3> HIDE DEF fills
    <3>1. seen \in Views(fills)
      BY DEF fills
    <3> QED
      BY <2>1, <3>1, ViewsType
  <2> HIDE DEF fills
  <2>3. CASE IsFutures(seen)
    <3>1. cards = FuturesCards(seen, price)
      BY <2>3 DEF Cards
    <3>2. ASSUME cards # {}
          PROVE  Summary(seen, price) = SumFunction([c \in FuturesCards(seen, price) |-> c.gain])
      <4>1. seen.risks # {}
        BY <3>1, <3>2 DEF FuturesCards
      <4> HIDE DEF cards
      <4> QED
        BY <2>1, <2>2, <4>1, FuturesMatch
    <3> QED
      BY <2>3, <3>1, <3>2
  <2>4. CASE ~IsFutures(seen)
    <3>1. cards = SpotCards(seen, price) /\ seen.risks = {}
      BY <2>4 DEF Cards, IsFutures
    <3> HIDE DEF cards
    <3>2. /\ SpotCards(seen, price) # {} =>
               Summary(seen, price) = SumFunction([c \in SpotCards(seen, price) |-> c.gain])
          /\ \A s \in Strip(seen, price) : s.gain = Gain(s.of.base, s.of.cost, price)
      BY <2>1, <2>2, <3>1, SpotMatches
    <3> QED
      BY <3>1, <3>2 DEF cards
  <2> QED
    BY <2>3, <2>4
<1> QED
  BY <1>1, TableHolds, PTL

-----------------------------------------------------------------------------
(* The worth: what a fill pays or brings is in the position or realized. *)

\* What the units held have cost; units owed have brought it in.
Invested(b) == IF b.base > 0 THEN b.cost ELSE -b.cost
Settled(b) == b.base = 0 => b.cost = 0
Paying(r) == Signed(r) * r.price

\* The sign of a product with a fill's quantity.
LEMMA SignOf ==
    ASSUME NEW a \in Int, NEW n \in Nat \ {0}
    PROVE  (a * n >= 0 <=> a >= 0) /\ (a * (-n) >= 0 <=> a <= 0)
<1>1. CASE a >= 0
  <2>1. a * n >= 0
    BY <1>1
  <2>2. a * (-n) = -(a * n)
    OBVIOUS
  <2>3. a # 0 => a * n > 0
    BY <1>1
  <2> DEFINE m == a * n
  <2>4. m \in Int
    OBVIOUS
  <2> HIDE DEF m
  <2>5. a * (-n) = -m /\ m >= 0 /\ (a # 0 => m > 0)
    BY <2>1, <2>2, <2>3 DEF m
  <2>6. a = 0 => m = 0
    BY DEF m
  <2> QED
    BY <1>1, <2>4, <2>5, <2>6 DEF m
<1>2. CASE a < 0
  <2> DEFINE c == -a
             m == c * n
  <2>1. c \in Nat \ {0}
    BY <1>2
  <2>2. m \in Nat \ {0}
    BY <2>1
  <2>3. a * n = -m /\ a * (-n) = m
    BY <1>2
  <2> HIDE DEF m
  <2> QED
    BY <1>2, <2>2, <2>3
<1> QED
  BY <1>1, <1>2

\* One fill: the money it moves is in what is realized and what is invested.
LEMMA BookStepKeeps ==
    ASSUME NEW b \in Position, Settled(b), NEW r \in Rows
    PROVE  LET c == BookStep(b, r)
           IN /\ c.base = b.base + Signed(r) /\ Settled(c)
              /\ c.profit - Invested(c) = -Invested(b) - Paying(r)
<1> DEFINE n == r.qty
           price == r.price
           q == Signed(r)
           held == Abs(b.base)
           grows == b.base * q >= 0
           closed == IF n <= held THEN n ELSE held
           share == IF closed = held THEN b.cost ELSE closed * (b.cost \div held)
           rest == (n - closed) * price
           c == BookStep(b, r)
           m == n * price
           part == closed * price
           base == b.base
           cost == b.cost
<1>1. base \in Int /\ cost \in Int /\ (base = 0 => cost = 0)
  BY DEF Position, Settled
<1>2. n \in Nat \ {0} /\ price \in Nat /\ r.side \in Sides
  BY DEF Rows
<1>3. q = IF r.side = "BUY" THEN n ELSE -n
  BY DEF Signed
<1>4. Paying(r) = IF r.side = "BUY" THEN m ELSE -m
  <2>1. (-n) * price = -(n * price)
    BY <1>2
  <2> QED
    BY <1>3, <2>1 DEF Paying
<1>5. grows <=> IF r.side = "BUY" THEN base >= 0 ELSE base <= 0
  BY <1>1, <1>2, <1>3, SignOf
<1>6. /\ c.base = base + q
      /\ c.cost = IF grows THEN cost + m ELSE cost - share + rest
      /\ c.profit = IF grows THEN 0 ELSE IF base > 0 THEN part - share ELSE share - part
  BY DEF BookStep
<1>7. held = IF base < 0 THEN -base ELSE base
  BY DEF Abs
<1>8. m \in Nat /\ part + rest = m /\ part \in Int /\ rest \in Int
  <2>1. closed \in Int
    BY <1>1, <1>2, <1>7
  <2> HIDE DEF closed
  <2>2. closed * price + (n - closed) * price = n * price
    BY <1>2, <2>1
  <2> QED
    BY <1>2, <2>1, <2>2
<1>9. /\ closed = held => share = cost
      /\ closed = n => rest = 0
      /\ closed = IF n <= held THEN n ELSE held
  BY <1>2
<1>10. share \in Int
  <2>1. held \in Nat
    BY <1>1, <1>7
  <2>2. closed \in Int /\ (closed # held => held \in Nat \ {0})
    BY <1>2, <2>1
  <2> HIDE DEF held, closed
  <2>3. CASE closed = held
    BY <1>1, <2>3
  <2>4. CASE closed # held
    <3> DEFINE a == b.cost \div held
    <3>1. a \in Int
      BY <1>1, <2>2, <2>4
    <3> HIDE DEF a
    <3>2. closed * a \in Int
      BY <2>2, <3>1
    <3> QED
      BY <2>4, <3>2 DEF a
  <2> QED
    BY <2>3, <2>4
<1> DEFINE cb == c.base
           cc == c.cost
           cp == c.profit
<1>11. /\ cb = base + q
       /\ cc = IF grows THEN cost + m ELSE cost - share + rest
       /\ cp = IF grows THEN 0 ELSE IF base > 0 THEN part - share ELSE share - part
  BY <1>6
<1> DEFINE buy == r.side = "BUY"
<1>12. /\ grows <=> IF buy THEN base >= 0 ELSE base <= 0
       /\ q = IF buy THEN n ELSE -n
  BY <1>3, <1>5
<1> HIDE DEF n, price, q, held, grows, closed, share, rest, m, part, base, cost, cb, cc, cp, buy
<1>13. cb = 0 => cc = 0
  <2>1. CASE grows
    BY <1>1, <1>2, <1>11, <1>12, <2>1
  <2>2. CASE ~grows
    <3> SUFFICES ASSUME cb = 0 PROVE cc = 0
      OBVIOUS
    <3>1. n = held
      BY <1>1, <1>2, <1>7, <1>11, <1>12, <2>2
    <3>2. closed = held /\ closed = n
      BY <1>1, <1>2, <1>7, <1>9, <3>1
    <3>3. share = cost /\ rest = 0
      BY <1>9, <3>2
    <3> QED
      BY <1>1, <1>11, <2>2, <3>3
  <2> QED
    BY <2>1, <2>2
<1> DEFINE before == IF base > 0 THEN cost ELSE -cost
           after == IF cb > 0 THEN cc ELSE -cc
           paid == IF buy THEN m ELSE -m
<1>14. cp - after = -before - paid
  <2>1. CASE grows
    BY <1>1, <1>2, <1>8, <1>11, <1>12, <2>1
  <2>2. CASE ~grows /\ n < held
    <3>1. closed = n /\ rest = 0 /\ part = m
      BY <1>1, <1>2, <1>7, <1>8, <1>9, <2>2
    <3>2. IF buy THEN base < 0 /\ cb < 0 ELSE base > 0 /\ cb > 0
      BY <1>1, <1>2, <1>7, <1>11, <1>12, <2>2
    <3> QED
      BY <1>1, <1>8, <1>10, <1>11, <2>2, <3>1, <3>2
  <2>3. CASE ~grows /\ n >= held
    <3>1. closed = held /\ share = cost
      BY <1>1, <1>2, <1>7, <1>9, <2>3
    <3>2. cc = rest /\ (IF buy THEN base < 0 /\ cb >= 0 ELSE base > 0 /\ cb <= 0)
      BY <1>1, <1>2, <1>7, <1>8, <1>10, <1>11, <1>12, <2>3, <3>1
    <3>3. cb = 0 => rest = 0
      BY <1>13, <3>2
    <3> QED
      BY <1>1, <1>8, <1>10, <1>11, <2>3, <3>1, <3>2, <3>3
  <2>4. held \in Int
    BY <1>1, <1>7
  <2> QED
    BY <1>2, <2>1, <2>2, <2>3, <2>4
<1>15. Invested(b) = before /\ Invested(c) = after /\ Paying(r) = paid
  BY <1>4 DEF Invested, base, cost, cb, cc, buy, m
<1>16. Settled(c)
  BY <1>13 DEF Settled, cb, cc
<1> QED
  BY <1>11, <1>14, <1>15, <1>16 DEF cb, cp, base, q

\* A walk through one row more.
LEMMA BookNext ==
    ASSUME NEW rows \in Seq(Rows), NEW r \in Rows
    PROVE  Book(Append(rows, r)) = BookStep(Book(rows), r)
<1> DEFINE n == Len(rows)
           more == Append(rows, r)
           Step(a, x) == BookStep(a, x)
<1>1. /\ n \in Nat /\ more \in Seq(Rows) /\ Len(more) = n + 1 /\ more[n + 1] = r
      /\ \A i \in 1..n : more[i] = rows[i]
  OBVIOUS
<1> HIDE DEF n, more, Step
<1>2. PICK t \in [0..n -> Position] :
         /\ t[0] = [base |-> 0, cost |-> 0, profit |-> 0]
         /\ \A i \in 1..n : t[i] = Step(t[i - 1], rows[i])
         /\ t[n] = Book(rows)
  BY BookTrace DEF n, Step
<1>3. PICK u \in [0..(n + 1) -> Position] :
         /\ u[0] = [base |-> 0, cost |-> 0, profit |-> 0]
         /\ \A i \in 1..(n + 1) : u[i] = Step(u[i - 1], more[i])
         /\ u[n + 1] = Book(more)
  <2>1. PICK u \in [0..Len(more) -> Position] :
           /\ u[0] = [base |-> 0, cost |-> 0, profit |-> 0]
           /\ \A i \in 1..Len(more) : u[i] = BookStep(u[i - 1], more[i])
           /\ u[Len(more)] = Book(more)
    BY <1>1, BookTrace
  <2> QED
    BY <1>1, <2>1 DEF Step
<1> DEFINE P == {i \in 0..n : t[i] = u[i]}
<1>4. 0 \in P
  BY <1>1, <1>2, <1>3
<1>5. ASSUME NEW i \in 0..(n - 1), i \in P
      PROVE  i + 1 \in P
  <2> DEFINE j == i + 1
  <2>1. j \in 0..n /\ j \in 1..n /\ j \in 1..(n + 1) /\ j - 1 = i
    BY <1>1
  <2>2. t[i] = u[i]
    BY <1>5
  <2> HIDE DEF j
  <2>3. t[j] = Step(t[i], rows[j]) /\ u[j] = Step(u[i], more[j]) /\ more[j] = rows[j]
    BY <1>1, <1>2, <1>3, <2>1
  <2>4. t[j] = u[j]
    BY <2>2, <2>3
  <2> QED
    BY <2>1, <2>4 DEF j
<1>6. n \in P
  <2> HIDE DEF P
  <2>1. 0..n \subseteq P
    BY <1>1, <1>4, <1>5, InductionUpTo
  <2> QED
    BY <1>1, <2>1
<1>7. t[n] = u[n]
  BY <1>6
<1>8. u[n + 1] = Step(u[n], more[n + 1])
  <2>1. n + 1 \in 1..(n + 1) /\ (n + 1) - 1 = n
    BY <1>1
  <2> QED
    BY <1>3, <2>1
<1> QED
  BY <1>1, <1>2, <1>3, <1>7, <1>8 DEF more, Step

\* There is one way to list numbers in increasing order.
IsList(m, S, f) ==
    /\ m \in Nat /\ S \in SUBSET Nat
    /\ f \in [1..m -> S] /\ \A i, j \in 1..m : i < j => f[i] < f[j]
    /\ \A p \in S : \E i \in 1..m : f[i] = p

\* The list of a set in increasing order is unique.
LEMMA OneList ==
    ASSUME NEW m, NEW S, NEW f, NEW g, IsList(m, S, f), IsList(m, S, g)
    PROVE  f = g
<1>0. /\ m \in Nat /\ S \in SUBSET Nat /\ \A p \in S : \E i \in 1..m : f[i] = p
      /\ f \in [1..m -> S] /\ \A i, j \in 1..m : i < j => f[i] < f[j]
      /\ g \in [1..m -> S] /\ \A i, j \in 1..m : i < j => g[i] < g[j]
  BY DEF IsList
<1> DEFINE place == [i \in 1..m |-> CHOOSE j \in 1..m : f[j] = g[i]]
<1>1. \A i \in 1..m : place[i] \in 1..m /\ f[place[i]] = g[i]
  <2> TAKE i \in 1..m
  <2>1. g[i] \in S
    BY <1>0
  <2>2. \E j \in 1..m : f[j] = g[i]
    BY <1>0, <2>1
  <2> QED
    BY <2>2
<1>2. place \in [1..m -> 1..m]
  BY <1>1
<1> HIDE DEF place
<1>3. \A i, j \in 1..m : i < j => place[i] < place[j]
  <2> SUFFICES ASSUME NEW i \in 1..m, NEW j \in 1..m, i < j
               PROVE  place[i] < place[j]
    OBVIOUS
  <2> DEFINE p == place[i]
             q == place[j]
  <2>1. p \in 1..m /\ q \in 1..m /\ f[p] < f[q]
    <3>1. g[i] < g[j]
      BY <1>0
    <3> QED
      BY <1>1, <3>1
  <2> HIDE DEF p, q
  <2>2. f[p] \in Nat /\ f[q] \in Nat
    BY <1>0, <2>1
  <2>3. p = q \/ p < q \/ q < p
    BY <2>1
  <2>4. q < p => f[q] < f[p]
    BY <1>0, <2>1
  <2>5. p # q /\ ~(q < p)
    BY <2>1, <2>2, <2>4
  <2>6. p < q
    BY <2>3, <2>5
  <2> QED
    BY <2>6 DEF p, q
<1>4. \A i \in 1..m : place[i] = i
  BY <1>0, <1>2, <1>3, IncreasingIsIdentity
<1> QED
  BY <1>0, <1>1, <1>4

\* Rows picked from a longer part: the new one comes last.
LEMMA PickedNext ==
    ASSUME NEW rows \in Seq(Rows), NEW i \in 1..Len(rows), NEW places \in SUBSET (1..(i - 1))
    PROVE  Picked(rows, places \cup {i}) = Append(Picked(rows, places), rows[i])
<1> DEFINE more == places \cup {i}
           m == Cardinality(places)
           n == Cardinality(more)
           D == 1..Len(rows)
<1>1. Len(rows) \in Nat /\ i \in Nat /\ i \in D /\ \A k \in 1..Len(rows) : rows[k] \in Rows
  OBVIOUS
<1>2. /\ places \in SUBSET D /\ more \in SUBSET D /\ i \notin places
      /\ \A p \in places : p \in Nat /\ p < i
  OBVIOUS
<1>3. IsFiniteSet(places) /\ m \in Nat /\ n = m + 1
  <2>1. IsFiniteSet(D)
    BY <1>1, FS_Interval
  <2>2. IsFiniteSet(places)
    BY <1>2, <2>1, FS_Subset
  <2> QED
    BY <1>2, <2>2, FS_AddElement, FS_CardinalityType
<1> HIDE DEF m, n, more
<1>4. PICK at \in [1..m -> places] :
         /\ Picked(rows, places) = [k \in 1..m |-> rows[at[k]]]
         /\ \A j, k \in 1..m : j < k => at[j] < at[k]
         /\ \A p \in places : \E k \in 1..m : at[k] = p
  BY <1>2, PickedRows, SMTT(30) DEF m
<1>5. PICK to \in [1..n -> more] :
         /\ Picked(rows, more) = [k \in 1..n |-> rows[to[k]]]
         /\ \A j, k \in 1..n : j < k => to[j] < to[k]
         /\ \A p \in more : \E k \in 1..n : to[k] = p
  BY <1>2, PickedRows DEF n
<1> DEFINE on == [k \in 1..n |-> IF k <= m THEN at[k] ELSE i]
<1>6. \A k \in 1..n : on[k] \in more /\ on[k] \in Nat
  <2> TAKE k \in 1..n
  <2>1. CASE k <= m
    <3>1. k \in 1..m
      BY <1>3, <2>1
    <3>2. at[k] \in places
      BY <3>1
    <3> QED
      BY <1>2, <2>1, <3>2 DEF more
  <2>2. CASE ~(k <= m)
    BY <1>1, <2>2 DEF more
  <2> QED
    BY <2>1, <2>2
<1>7. on \in [1..n -> more]
  BY <1>6
<1>8. \A j, k \in 1..n : j < k => on[j] < on[k]
  <2> SUFFICES ASSUME NEW j \in 1..n, NEW k \in 1..n, j < k
               PROVE  on[j] < on[k]
    OBVIOUS
  <2>1. j \in 1..m /\ on[j] = at[j] /\ at[j] \in places
    <3>1. j <= m /\ j \in 1..m
      BY <1>3
    <3> QED
      BY <3>1
  <2>2. CASE k <= m
    <3>1. k \in 1..m /\ on[k] = at[k]
      BY <1>3, <2>2
    <3> QED
      BY <1>4, <2>1, <3>1
  <2>3. CASE ~(k <= m)
    <3>1. on[k] = i
      BY <2>3
    <3> QED
      BY <1>2, <2>1, <3>1
  <2> QED
    BY <2>2, <2>3
<1> HIDE DEF on
<1>9. to = on
  <2>1. more \in SUBSET Nat /\ n \in Nat
    BY <1>2, <1>3
  <2>2. IsList(n, more, to)
    BY <1>5, <2>1 DEF IsList
  <2>3. \A p \in more : \E k \in 1..n : on[k] = p
    <3> TAKE p \in more
    <3>1. CASE p = i
      <4>1. n \in 1..n /\ ~(n <= m)
        BY <1>3
      <4> QED
        BY <3>1, <4>1 DEF on
    <3>2. CASE p # i
      <4>1. p \in places
        BY <3>2 DEF more
      <4>2. PICK k \in 1..m : at[k] = p
        BY <1>4, <4>1
      <4>3. k \in 1..n /\ k <= m
        BY <1>3
      <4> QED
        BY <4>2, <4>3 DEF on
    <3> QED
      BY <3>1, <3>2
  <2>4. IsList(n, more, on)
    BY <1>7, <1>8, <2>1, <2>3 DEF IsList
  <2> QED
    BY <2>2, <2>4, OneList
<1> DEFINE old == Picked(rows, places)
           new == Picked(rows, more)
<1>10. /\ new = [k \in 1..(m + 1) |-> rows[on[k]]]
       /\ old = [k \in 1..m |-> rows[at[k]]]
       /\ old \in Seq(Rows) /\ Len(old) = m
  BY <1>2, <1>3, <1>4, <1>5, <1>9, PickedType DEF m
<1>11. \A k \in 1..m : rows[on[k]] = old[k]
  <2> TAKE k \in 1..m
  <2>1. k \in 1..n /\ k <= m
    BY <1>3
  <2>2. on[k] = at[k]
    BY <2>1 DEF on
  <2> QED
    BY <1>10, <2>2
<1>12. rows[on[m + 1]] = rows[i]
  <2>1. m + 1 \in 1..n /\ ~(m + 1 <= m)
    BY <1>3
  <2> QED
    BY <2>1 DEF on
<1> DEFINE both == Append(old, rows[i])
<1>13. /\ both = [k \in 1..(m + 1) |-> both[k]]
       /\ both[m + 1] = rows[i] /\ \A k \in 1..m : both[k] = old[k]
  <2>1. rows[i] \in Rows
    BY <1>1
  <2> HIDE DEF old
  <2> QED
    BY <1>3, <1>10, <2>1
<1> HIDE DEF old, new, both
<1>14. \A k \in 1..(m + 1) : rows[on[k]] = both[k]
  <2> TAKE k \in 1..(m + 1)
  <2>1. k \in 1..m \/ k = m + 1
    BY <1>3
  <2> QED
    BY <1>11, <1>12, <1>13, <2>1
<1>15. new = both
  <2>1. new = [k \in 1..(m + 1) |-> both[k]]
    BY <1>10, <1>14
  <2> QED
    BY <1>13, <2>1
<1> QED
  BY <1>15 DEF new, both, old, more

\* A bot's position in one bucket after some of its fills.
InBucket(fills, u, i) == Book(Picked(fills, {k \in 1..i : fills[k].bucket = u}))

Nothing == [base |-> 0, cost |-> 0, profit |-> 0]

\* No fills, no position.
LEMMA BookOfNone == Book(<<>>) = Nothing
<1> DEFINE rows == <<>>
<1>1. rows \in Seq(Rows) /\ Len(rows) = 0
  OBVIOUS
<1> HIDE DEF rows
<1>2. PICK t \in [0..Len(rows) -> Position] :
         /\ t[0] = [base |-> 0, cost |-> 0, profit |-> 0]
         /\ t[Len(rows)] = Book(rows)
  BY <1>1, BookTrace
<1> QED
  BY <1>1, <1>2 DEF Nothing, rows

LEMMA NothingType == Nothing \in Position /\ Settled(Nothing) /\ Nothing.base = 0
                     /\ Invested(Nothing) = 0
<1>1. Nothing.base = 0 /\ Nothing.cost = 0
  BY DEF Nothing
<1>2. Nothing \in Position
  BY DEF Nothing, Position
<1>3. Settled(Nothing)
  BY <1>1 DEF Settled
<1>4. Invested(Nothing) = -Nothing.cost
  <2>1. ~(Nothing.base > 0)
    BY <1>1
  <2> QED
    BY <2>1 DEF Invested
<1>5. Invested(Nothing) = 0
  <2> DEFINE x == Nothing.cost
             y == Invested(Nothing)
  <2>1. x \in Int /\ x = 0
    BY <1>1
  <2>2. y = -x
    BY <1>4
  <2>3. x \in Int
    BY <2>1
  <2> HIDE DEF x, y
  <2>4. y \in Int /\ y + x = 0
    BY <2>2, <2>3
  <2>5. y = 0
    BY <2>1, <2>4
  <2> QED
    BY <2>5 DEF y
<1> QED
  BY <1>1, <1>2, <1>3, <1>5

\* Before the first fill every bucket is empty.
LEMMA BucketStart ==
    ASSUME NEW fills \in Seq(Rows), NEW u
    PROVE  InBucket(fills, u, 0) = Nothing
<1> DEFINE places == {k \in 1..0 : fills[k].bucket = u}
<1>1. places = {} /\ places \in SUBSET (1..Len(fills))
  OBVIOUS
<1> HIDE DEF places
<1>2. Picked(fills, places) \in Seq(Rows) /\ Len(Picked(fills, places)) = Cardinality(places)
  BY <1>1, PickedType
<1>3. Cardinality(places) = 0
  BY <1>1, FS_EmptySet
<1>4. Picked(fills, places) = <<>>
  BY <1>2, <1>3
<1> QED
  BY <1>4, BookOfNone DEF InBucket, places

\* A fill moves its own bucket and no other.
LEMMA BucketNext ==
    ASSUME NEW fills \in Seq(Rows), NEW u, NEW i \in 1..Len(fills)
    PROVE  /\ fills[i].bucket = u =>
                InBucket(fills, u, i) = BookStep(InBucket(fills, u, i - 1), fills[i])
           /\ fills[i].bucket # u => InBucket(fills, u, i) = InBucket(fills, u, i - 1)
<1> DEFINE now == {k \in 1..i : fills[k].bucket = u}
           before == {k \in 1..(i - 1) : fills[k].bucket = u}
           rows == Picked(fills, before)
<1>1. before \in SUBSET (1..(i - 1)) /\ before \in SUBSET (1..Len(fills)) /\ fills[i] \in Rows
  OBVIOUS
<1>2. 1..i = (1..(i - 1)) \cup {i}
  OBVIOUS
<1>3. CASE fills[i].bucket = u
  <2>1. now = before \cup {i}
    BY <1>2, <1>3
  <2> HIDE DEF now, before
  <2>2. Picked(fills, now) = Append(rows, fills[i])
    BY <1>1, <2>1, PickedNext
  <2>3. rows \in Seq(Rows)
    BY <1>1, PickedType
  <2> HIDE DEF rows
  <2>4. Book(Append(rows, fills[i])) = BookStep(Book(rows), fills[i])
    BY <1>1, <2>3, BookNext
  <2> QED
    BY <1>3, <2>2, <2>4 DEF InBucket, now, before, rows
<1>4. CASE fills[i].bucket # u
  <2>1. now = before
    BY <1>2, <1>4
  <2> QED
    BY <1>4, <2>1 DEF InBucket
<1> QED
  BY <1>3, <1>4

LEMMA InBucketType ==
    ASSUME NEW fills \in Seq(Rows), NEW u, NEW i \in 0..Len(fills)
    PROVE  InBucket(fills, u, i) \in Position
<1> DEFINE places == {k \in 1..i : fills[k].bucket = u}
<1>1. places \in SUBSET (1..Len(fills))
  OBVIOUS
<1> HIDE DEF places
<1>2. Picked(fills, places) \in Seq(Rows)
  BY <1>1, PickedType
<1> QED
  BY <1>2, BookType DEF InBucket, places

\* The bot's whole position.
LEMMA WholeNext ==
    ASSUME NEW fills \in Seq(Rows)
    PROVE  /\ BookAfter(fills, 0) = Nothing
           /\ \A i \in 0..Len(fills) : BookAfter(fills, i) \in Position
           /\ \A i \in 1..Len(fills) :
                BookAfter(fills, i) = BookStep(BookAfter(fills, i - 1), fills[i])
<1> DEFINE first(i) == SubSeq(fills, 1, i)
<1>1. Len(fills) \in Nat /\ \A i \in 1..Len(fills) : fills[i] \in Rows
  OBVIOUS
<1>2. \A i \in 0..Len(fills) : /\ first(i) \in Seq(Rows) /\ Len(first(i)) = i
                               /\ \A k \in 1..i : first(i)[k] = fills[k]
  <2> TAKE i \in 0..Len(fills)
  <2>1. 0 \in 0..i /\ 0 + 1 = 1 /\ i - 0 = i /\ \A k \in 1..i : 0 + k = k
    OBVIOUS
  <2>2. /\ SubSeq(fills, 0 + 1, i) \in Seq(Rows) /\ Len(SubSeq(fills, 0 + 1, i)) = i - 0
        /\ \A k \in 1..(i - 0) : SubSeq(fills, 0 + 1, i)[k] = fills[0 + k]
    BY <2>1, Section
  <2> QED
    BY <2>1, <2>2
<1>3. first(0) = <<>>
  BY <1>1, <1>2
<1>4. BookAfter(fills, 0) = Nothing
  BY <1>3, BookOfNone DEF BookAfter
<1>5. \A i \in 0..Len(fills) : BookAfter(fills, i) \in Position
  BY <1>2, BookType DEF BookAfter
<1>6. ASSUME NEW i \in 1..Len(fills)
      PROVE  BookAfter(fills, i) = BookStep(BookAfter(fills, i - 1), fills[i])
  <2> DEFINE s == first(i - 1)
             t == first(i)
             x == fills[i]
  <2>1. i - 1 \in 0..Len(fills) /\ i \in 0..Len(fills) /\ i \in Nat
    BY <1>1
  <2>2. /\ s \in Seq(Rows) /\ Len(s) = i - 1 /\ \A k \in 1..(i - 1) : s[k] = fills[k]
        /\ t \in Seq(Rows) /\ Len(t) = i /\ \A k \in 1..i : t[k] = fills[k]
    BY <1>2, <2>1
  <2>3. x \in Rows
    BY <1>1
  <2> HIDE DEF s, t, x, first
  <2>4. t = Append(s, x)
    <3> DEFINE a == Append(s, x)
    <3>1. a \in Seq(Rows) /\ Len(a) = i /\ a[i] = x /\ \A k \in 1..(i - 1) : a[k] = s[k]
      BY <2>1, <2>2, <2>3
    <3> HIDE DEF a
    <3>2. \A k \in 1..i : k = i \/ k \in 1..(i - 1)
      BY <2>1
    <3>3. t[i] = x
      BY <2>1, <2>2 DEF x
    <3>4. \A k \in 1..i : t[k] = a[k]
      BY <2>2, <3>1, <3>2, <3>3
    <3>5. t = a
      BY <2>2, <3>1, <3>4
    <3> QED
      BY <3>5 DEF a
  <2>5. Book(Append(s, x)) = BookStep(Book(s), x)
    BY <2>2, <2>3, BookNext
  <2> QED
    BY <2>4, <2>5 DEF BookAfter, s, t, x, first
<1> QED
  BY <1>4, <1>5, <1>6

\* The net of the fills, one fill after the other.
LEMMA NetNext ==
    ASSUME NEW fills \in Seq(Rows)
    PROVE  /\ NetAfter(fills, 0) = 0
           /\ \A i \in 0..Len(fills) : NetAfter(fills, i) \in Int
           /\ \A i \in 1..Len(fills) :
                NetAfter(fills, i) = NetAfter(fills, i - 1) + Signed(fills[i])
<1> DEFINE n == Len(fills)
           f == [j \in 1..n |-> Signed(fills[j])]
<1>1. n \in Nat
  OBVIOUS
<1>2. f \in [1..n -> Int] /\ \A i \in 1..n : f[i] = Signed(fills[i])
  <2>1. \A i \in 1..n : Signed(fills[i]) \in Int
    <3> TAKE i \in 1..n
    <3>1. fills[i] \in Rows
      OBVIOUS
    <3>2. fills[i].qty \in Nat
      BY <3>1 DEF Rows
    <3> QED
      BY <3>2 DEF Signed
  <2> HIDE DEF n
  <2> QED
    BY <2>1
<1> HIDE DEF n, f
<1>3. \A i \in 0..n : NetAfter(fills, i) = SumFunctionOnSet(f, 1..i)
  <2> TAKE i \in 0..n
  <2> DEFINE g == [j \in 1..i |-> Signed(fills[j])]
             S == 1..i
             R == 1..n
  <2>1. S \subseteq R
    BY <1>1
  <2>2. \A j \in S : g[j] = f[j]
    BY <1>2, <2>1
  <2>3. g \in [S -> Int] /\ f \in [R -> Int]
    BY <1>2, <2>1, <2>2
  <2>4. IsFiniteSet(S) /\ IsFiniteSet(R) /\ S \in SUBSET S
    BY <1>1, FS_Interval
  <2>5. NetAfter(fills, i) = SumFunctionOnSet(g, S)
    BY DEF NetAfter, SumFunction
  <2> HIDE DEF g, S, R
  <2>6. SumFunctionOnSet(g, S) = SumFunctionOnSet(f, S)
    BY <2>1, <2>2, <2>3, <2>4, SumSame
  <2> QED
    BY <2>5, <2>6 DEF S
<1>4. /\ SumFunctionOnSet(f, 1..0) = 0
      /\ \A k \in 0..n : SumFunctionOnSet(f, 1..k) \in Int
      /\ \A k \in 1..n : SumFunctionOnSet(f, 1..k) = SumFunctionOnSet(f, 1..(k - 1)) + f[k]
  BY <1>1, <1>2, PrefixSum
<1>5. 0 \in 0..n /\ \A i \in 1..n : i \in 0..n /\ i - 1 \in 0..n
  BY <1>1
<1>6. \A i \in 1..n : NetAfter(fills, i) = NetAfter(fills, i - 1) + Signed(fills[i])
  <2> TAKE i \in 1..n
  <2>1. SumFunctionOnSet(f, 1..i) = SumFunctionOnSet(f, 1..(i - 1)) + f[i]
    BY <1>4
  <2>2. /\ NetAfter(fills, i) = SumFunctionOnSet(f, 1..i)
        /\ NetAfter(fills, i - 1) = SumFunctionOnSet(f, 1..(i - 1))
    BY <1>3, <1>5
  <2> QED
    BY <1>2, <2>1, <2>2
<1>7. NetAfter(fills, 0) = 0 /\ \A i \in 0..n : NetAfter(fills, i) \in Int
  BY <1>3, <1>4, <1>5
<1> QED
  BY <1>6, <1>7 DEF n

\* What is left of a bucket that is closed is nothing, after any of the fills.
LEMMA BucketSettled ==
    ASSUME NEW fills \in Seq(Rows), NEW u
    PROVE  \A i \in 0..Len(fills) : Settled(InBucket(fills, u, i))
<1> DEFINE n == Len(fills)
           P == {i \in 0..n : Settled(InBucket(fills, u, i))}
<1>1. n \in Nat
  OBVIOUS
<1>2. 0 \in P
  BY <1>1, BucketStart, NothingType
<1>3. ASSUME NEW i \in 0..(n - 1), i \in P
      PROVE  i + 1 \in P
  <2> DEFINE j == i + 1
  <2>1. j \in 1..n /\ j \in 0..n /\ j - 1 = i /\ i \in 0..n
    BY <1>1
  <2>2. fills[j] \in Rows
    BY <2>1
  <2>3. InBucket(fills, u, i) \in Position
    BY <2>1, InBucketType
  <2>4. Settled(InBucket(fills, u, i))
    BY <1>3
  <2>5. Settled(BookStep(InBucket(fills, u, i), fills[j]))
    BY <2>2, <2>3, <2>4, BookStepKeeps
  <2> HIDE DEF j
  <2>6. /\ fills[j].bucket = u =>
             InBucket(fills, u, j) = BookStep(InBucket(fills, u, j - 1), fills[j])
        /\ fills[j].bucket # u => InBucket(fills, u, j) = InBucket(fills, u, j - 1)
    BY <2>1, BucketNext
  <2>7. Settled(InBucket(fills, u, j))
    BY <2>1, <2>4, <2>5, <2>6
  <2> QED
    BY <2>1, <2>7 DEF j
<1> HIDE DEF P
<1>4. 0..n \subseteq P
  BY <1>1, <1>2, <1>3, InductionUpTo
<1> QED
  BY <1>4 DEF P

\* A bot that never filled anything but spot orders has its whole position in
\* the one bucket.
LEMMA SpotIsWhole ==
    ASSUME NEW fills \in Seq(Rows), OnSpot(fills)
    PROVE  \A i \in 0..Len(fills) : /\ InBucket(fills, "BOTH", i) = BookAfter(fills, i)
                                    /\ InBucket(fills, "LONG", i) = Nothing
                                    /\ InBucket(fills, "SHORT", i) = Nothing
<1> DEFINE n == Len(fills)
           Split(i) == /\ InBucket(fills, "BOTH", i) = BookAfter(fills, i)
                       /\ InBucket(fills, "LONG", i) = Nothing
                       /\ InBucket(fills, "SHORT", i) = Nothing
           P == {i \in 0..n : Split(i)}
<1>1. n \in Nat /\ DOMAIN fills = 1..n
  OBVIOUS
<1>2. 0 \in P
  BY <1>1, BucketStart, WholeNext
<1>3. ASSUME NEW i \in 0..(n - 1), i \in P
      PROVE  i + 1 \in P
  <2> DEFINE j == i + 1
  <2>1. j \in 1..n /\ j \in 0..n /\ j - 1 = i
    BY <1>1
  <2>2. fills[j].bucket = "BOTH"
    BY <1>1, <2>1 DEF OnSpot
  <2>3. Split(i)
    BY <1>3
  <2> HIDE DEF j
  <2>4. InBucket(fills, "BOTH", j) = BookStep(InBucket(fills, "BOTH", j - 1), fills[j])
    BY <2>1, <2>2, BucketNext
  <2>5. InBucket(fills, "LONG", j) = InBucket(fills, "LONG", j - 1)
    BY <2>1, <2>2, BucketNext
  <2>6. InBucket(fills, "SHORT", j) = InBucket(fills, "SHORT", j - 1)
    BY <2>1, <2>2, BucketNext
  <2>7. BookAfter(fills, j) = BookStep(BookAfter(fills, j - 1), fills[j])
    BY <2>1, WholeNext
  <2>8. Split(j)
    BY <2>1, <2>3, <2>4, <2>5, <2>6, <2>7
  <2> QED
    BY <2>1, <2>8 DEF j
<1> HIDE DEF P
<1>4. 0..n \subseteq P
  BY <1>1, <1>2, <1>3, InductionUpTo
<1> QED
  BY <1>4 DEF P

\* The base of the whole position is the net of the fills.
LEMMA WholeIsNet ==
    ASSUME NEW fills \in Seq(Rows)
    PROVE  \A i \in 0..Len(fills) : /\ BookAfter(fills, i).base = NetAfter(fills, i)
                                    /\ Settled(BookAfter(fills, i))
<1> DEFINE n == Len(fills)
           Nets(i) == BookAfter(fills, i).base = NetAfter(fills, i)
                      /\ Settled(BookAfter(fills, i))
           P == {i \in 0..n : Nets(i)}
<1>1. n \in Nat
  OBVIOUS
<1>2. 0 \in P
  BY <1>1, WholeNext, NetNext, NothingType
<1>3. ASSUME NEW i \in 0..(n - 1), i \in P
      PROVE  i + 1 \in P
  <2> DEFINE j == i + 1
  <2>1. j \in 1..n /\ j \in 0..n /\ j - 1 = i /\ i \in 0..n
    BY <1>1
  <2>2. fills[j] \in Rows
    BY <2>1
  <2>3. Nets(i)
    BY <1>3
  <2> HIDE DEF j
  <2>4. BookAfter(fills, j) = BookStep(BookAfter(fills, j - 1), fills[j])
        /\ BookAfter(fills, i) \in Position
    BY <2>1, WholeNext
  <2>5. NetAfter(fills, j) = NetAfter(fills, j - 1) + Signed(fills[j])
    BY <2>1, NetNext
  <2>6. /\ BookStep(BookAfter(fills, i), fills[j]).base
             = BookAfter(fills, i).base + Signed(fills[j])
        /\ Settled(BookStep(BookAfter(fills, i), fills[j]))
    BY <2>2, <2>3, <2>4, BookStepKeeps
  <2>7. Nets(j)
    BY <2>1, <2>3, <2>4, <2>5, <2>6
  <2> QED
    BY <2>1, <2>7 DEF j
<1> HIDE DEF P
<1>4. 0..n \subseteq P
  BY <1>1, <1>2, <1>3, InductionUpTo
<1> QED
  BY <1>4 DEF P

\* Buckets together: what they hold and what is invested in them.
HeldIn(fills, i) == InBucket(fills, "BOTH", i).base + InBucket(fills, "LONG", i).base
                    + InBucket(fills, "SHORT", i).base
InvestedIn(fills, i) ==
    Invested(InBucket(fills, "BOTH", i)) + Invested(InBucket(fills, "LONG", i))
    + Invested(InBucket(fills, "SHORT", i))

\* What is invested in a position is a number.
LEMMA InvestedType ==
    ASSUME NEW b \in Position
    PROVE  b.base \in Int /\ b.cost \in Int /\ b.profit \in Int /\ Invested(b) \in Int
<1>1. b.base \in Int /\ b.cost \in Int /\ b.profit \in Int
  BY DEF Position
<1> QED
  BY <1>1 DEF Invested

\* One of three terms changes.
LEMMA OneOfThree ==
    ASSUME NEW x \in Int, NEW y \in Int, NEW z \in Int, NEW w \in Int,
           NEW s \in Int, w = x + s
    PROVE  /\ w + y + z = (x + y + z) + s /\ y + w + z = (y + x + z) + s
           /\ y + z + w = (y + z + x) + s
  OBVIOUS

\* One fill: the bucket it belongs to realizes what is paid for it, less what
\* it puts into the position.
LEMMA HeldNext ==
    ASSUME NEW fills \in Seq(Rows), NEW i \in 1..Len(fills)
    PROVE  /\ HeldIn(fills, i) = HeldIn(fills, i - 1) + Signed(fills[i])
           /\ InvestedIn(fills, i)
                = InvestedIn(fills, i - 1) + (BucketAfter(fills, i).profit + Paying(fills[i]))
<1> DEFINE b(u) == InBucket(fills, u, i - 1)
           c(u) == InBucket(fills, u, i)
           r == fills[i]
           s == Signed(r)
           p == Paying(r)
           q == BucketAfter(fills, i).profit
<1>1. i - 1 \in 0..Len(fills) /\ i \in 0..Len(fills) /\ r \in Rows
  OBVIOUS
<1>2. s \in Int /\ p \in Int
  <2>1. r.qty \in Nat /\ r.price \in Nat
    BY <1>1 DEF Rows
  <2>2. s \in Int
    BY <2>1 DEF Signed
  <2> QED
    BY <2>1, <2>2 DEF Paying
<1>3. \A u : b(u) \in Position /\ c(u) \in Position
  BY <1>1, InBucketType
<1>4. \A u : Settled(b(u))
  BY <1>1, BucketSettled
<1>5. \A u : /\ b(u).base \in Int /\ c(u).base \in Int
             /\ Invested(b(u)) \in Int /\ Invested(c(u)) \in Int /\ c(u).profit \in Int
  BY <1>3, InvestedType
<1>6. \A u : r.bucket # u => c(u) = b(u)
  BY BucketNext
<1>7. \A u : r.bucket = u => c(u) = BookStep(b(u), r)
  BY BucketNext
<1>8. \A u : r.bucket = u => /\ c(u).base = b(u).base + s
                             /\ c(u).profit - Invested(c(u)) = -Invested(b(u)) - p
  BY <1>1, <1>3, <1>4, <1>7, BookStepKeeps
<1>9. \A u : r.bucket = u =>
          c(u).base = b(u).base + s /\ Invested(c(u)) = Invested(b(u)) + (c(u).profit + p)
  <2> TAKE u
  <2>1. SUFFICES ASSUME r.bucket = u
                 PROVE  /\ c(u).base = b(u).base + s
                        /\ Invested(c(u)) = Invested(b(u)) + (c(u).profit + p)
    OBVIOUS
  <2> DEFINE x == Invested(b(u))
             y == Invested(c(u))
             z == c(u).profit
             t == p
  <2>2. z - y = -x - t
    BY <1>8, <2>1
  <2>3. x \in Int /\ y \in Int /\ z \in Int /\ t \in Int
    BY <1>2, <1>5
  <2> HIDE DEF x, y, z, t
  <2>4. y = x + (z + t)
    BY <2>2, <2>3
  <2> QED
    BY <1>8, <2>1, <2>4 DEF x, y, z, t
<1>10. q = c(r.bucket).profit
  BY DEF BucketAfter, InBucket
<1>11. r.bucket \in {"BOTH", "LONG", "SHORT"}
  BY <1>1 DEF Rows, Buckets
<1>0. /\ HeldIn(fills, i) = c("BOTH").base + c("LONG").base + c("SHORT").base
      /\ HeldIn(fills, i - 1) = b("BOTH").base + b("LONG").base + b("SHORT").base
      /\ InvestedIn(fills, i)
           = Invested(c("BOTH")) + Invested(c("LONG")) + Invested(c("SHORT"))
      /\ InvestedIn(fills, i - 1)
           = Invested(b("BOTH")) + Invested(b("LONG")) + Invested(b("SHORT"))
  BY DEF HeldIn, InvestedIn
<1> DEFINE Moved == /\ HeldIn(fills, i) = HeldIn(fills, i - 1) + s
                    /\ InvestedIn(fills, i) = InvestedIn(fills, i - 1) + (q + p)
<1>12. CASE r.bucket = "BOTH"
  <2>1. c("LONG") = b("LONG") /\ c("SHORT") = b("SHORT")
    BY <1>6, <1>12
  <2>2. c("BOTH").base = b("BOTH").base + s
        /\ Invested(c("BOTH")) = Invested(b("BOTH")) + (q + p) /\ q \in Int /\ q + p \in Int
    BY <1>2, <1>5, <1>9, <1>10, <1>12
  <2> HIDE DEF q, s, p, r, b, c
  <2>3. /\ b("BOTH").base \in Int /\ b("LONG").base \in Int /\ b("SHORT").base \in Int
        /\ c("BOTH").base \in Int
    BY <1>5
  <2>4. /\ Invested(b("BOTH")) \in Int /\ Invested(b("LONG")) \in Int
        /\ Invested(b("SHORT")) \in Int /\ Invested(c("BOTH")) \in Int
    BY <1>5
  <2>5. HeldIn(fills, i) = HeldIn(fills, i - 1) + s
    BY <1>0, <1>2, <2>1, <2>2, <2>3, OneOfThree, SMTT(30)
  <2>6. InvestedIn(fills, i) = InvestedIn(fills, i - 1) + (q + p)
    BY <1>0, <1>2, <2>1, <2>2, <2>4, OneOfThree
  <2>7. Moved
    BY <2>5, <2>6
  <2> QED
    BY <2>7 DEF q, s, p, r
<1>13. CASE r.bucket = "LONG"
  <2>1. c("BOTH") = b("BOTH") /\ c("SHORT") = b("SHORT")
    BY <1>6, <1>13
  <2>2. c("LONG").base = b("LONG").base + s
        /\ Invested(c("LONG")) = Invested(b("LONG")) + (q + p) /\ q \in Int /\ q + p \in Int
    BY <1>2, <1>5, <1>9, <1>10, <1>13
  <2> HIDE DEF q, s, p, r, b, c
  <2>3. /\ b("LONG").base \in Int /\ b("BOTH").base \in Int /\ b("SHORT").base \in Int
        /\ c("LONG").base \in Int
    BY <1>5
  <2>4. /\ Invested(b("LONG")) \in Int /\ Invested(b("BOTH")) \in Int
        /\ Invested(b("SHORT")) \in Int /\ Invested(c("LONG")) \in Int
    BY <1>5
  <2>5. HeldIn(fills, i) = HeldIn(fills, i - 1) + s
    BY <1>0, <1>2, <2>1, <2>2, <2>3, OneOfThree, SMTT(30)
  <2>6. InvestedIn(fills, i) = InvestedIn(fills, i - 1) + (q + p)
    BY <1>0, <1>2, <2>1, <2>2, <2>4, OneOfThree
  <2>7. Moved
    BY <2>5, <2>6
  <2> QED
    BY <2>7 DEF q, s, p, r
<1>14. CASE r.bucket = "SHORT"
  <2>1. c("BOTH") = b("BOTH") /\ c("LONG") = b("LONG")
    BY <1>6, <1>14
  <2>2. c("SHORT").base = b("SHORT").base + s
        /\ Invested(c("SHORT")) = Invested(b("SHORT")) + (q + p) /\ q \in Int /\ q + p \in Int
    BY <1>2, <1>5, <1>9, <1>10, <1>14
  <2> HIDE DEF q, s, p, r, b, c
  <2>3. /\ b("SHORT").base \in Int /\ b("BOTH").base \in Int /\ b("LONG").base \in Int
        /\ c("SHORT").base \in Int
    BY <1>5
  <2>4. /\ Invested(b("SHORT")) \in Int /\ Invested(b("BOTH")) \in Int
        /\ Invested(b("LONG")) \in Int /\ Invested(c("SHORT")) \in Int
    BY <1>5
  <2>5. HeldIn(fills, i) = HeldIn(fills, i - 1) + s
    BY <1>0, <1>2, <2>1, <2>2, <2>3, OneOfThree
  <2>6. InvestedIn(fills, i) = InvestedIn(fills, i - 1) + (q + p)
    BY <1>0, <1>2, <2>1, <2>2, <2>4, OneOfThree
  <2>7. Moved
    BY <2>5, <2>6
  <2> QED
    BY <2>7 DEF q, s, p, r
<1> QED
  BY <1>11, <1>12, <1>13, <1>14

\* What the profit rows of the first fills add up to, and the money that moved.
RealizedBy(fills, i) ==
    SumFunctionOnSet([k \in 1..Len(fills) |-> ProfitRow(fills, k).net], 1..i)
PaidBy(fills, i) ==
    SumFunctionOnSet([k \in 1..Len(fills) |-> -Signed(fills[k]) * fills[k].price - fills[k].fee],
                     1..i)

\* The sign of a sale's payment.
LEMMA NegatedProduct == \A a, b \in Int : -a * b = -(a * b) /\ -a * b \in Int
  OBVIOUS

\* One step of two balances.
LEMMA BalanceStep ==
    ASSUME NEW r \in Int, NEW m \in Int, NEW w \in Int, NEW v \in Int,
           NEW q \in Int, NEW p \in Int, NEW f \in Int, r = m + w, v = w + (q + p)
    PROVE  r + (q - f) = (m + (-p - f)) + v
  OBVIOUS

\* After any of the fills: what the rows have realized is the money that moved
\* and what is invested still, and what is held is the net of the fills.
LEMMA MoneyIsKept ==
    ASSUME NEW fills \in Seq(Rows)
    PROVE  \A i \in 0..Len(fills) :
             /\ RealizedBy(fills, i) = PaidBy(fills, i) + InvestedIn(fills, i)
             /\ HeldIn(fills, i) = NetAfter(fills, i)
             /\ RealizedBy(fills, i) \in Int /\ PaidBy(fills, i) \in Int
             /\ InvestedIn(fills, i) \in Int
<1> DEFINE n == Len(fills)
           net == [k \in 1..n |-> ProfitRow(fills, k).net]
           paid == [k \in 1..n |-> -Signed(fills[k]) * fills[k].price - fills[k].fee]
<1>1. n \in Nat
  OBVIOUS
<1>2. \A k \in 1..n : /\ BucketAfter(fills, k).profit \in Int
                      /\ Signed(fills[k]) \in Int /\ Paying(fills[k]) \in Int
                      /\ fills[k].fee \in Int /\ fills[k].price \in Int
  <2> TAKE k \in 1..n
  <2>1. fills[k] \in Rows
    OBVIOUS
  <2>2. fills[k].qty \in Nat /\ fills[k].price \in Nat /\ fills[k].fee \in Nat
    BY <2>1 DEF Rows
  <2>3. Signed(fills[k]) \in Int
    BY <2>2 DEF Signed
  <2>4. Paying(fills[k]) \in Int
    BY <2>2, <2>3 DEF Paying
  <2>5. BucketAfter(fills, k).profit \in Int
    BY BucketType DEF Position
  <2> QED
    BY <2>2, <2>3, <2>4, <2>5
<1>3. net \in [1..n -> Int]
      /\ \A k \in 1..n : net[k] = BucketAfter(fills, k).profit - fills[k].fee
  <2>1. \A k \in 1..n : ProfitRow(fills, k).net = BucketAfter(fills, k).profit - fills[k].fee
    BY DEF ProfitRow
  <2>2. \A k \in 1..n : ProfitRow(fills, k).net \in Int
    <3> TAKE k \in 1..n
    <3> DEFINE x == BucketAfter(fills, k).profit
               y == fills[k].fee
    <3>1. x \in Int /\ y \in Int
      BY <1>2
    <3> HIDE DEF x, y
    <3>2. x - y \in Int
      BY <3>1
    <3> QED
      BY <2>1, <3>2 DEF x, y
  <2> HIDE DEF n
  <2> QED
    BY <2>1, <2>2
<1>4. paid \in [1..n -> Int]
      /\ \A k \in 1..n : paid[k] = -Paying(fills[k]) - fills[k].fee
  <2>1. \A k \in 1..n : /\ -Signed(fills[k]) * fills[k].price = -Paying(fills[k])
                        /\ -Signed(fills[k]) * fills[k].price \in Int
    BY <1>2, NegatedProduct DEF Paying
  <2>2. \A k \in 1..n : -Signed(fills[k]) * fills[k].price - fills[k].fee \in Int
    BY <1>2, <2>1
  <2> HIDE DEF n
  <2> QED
    BY <2>1, <2>2
<1>5. \A i \in 0..n : /\ RealizedBy(fills, i) = SumFunctionOnSet(net, 1..i)
                      /\ PaidBy(fills, i) = SumFunctionOnSet(paid, 1..i)
  BY DEF RealizedBy, PaidBy
<1> HIDE DEF net, paid
<1>6. /\ SumFunctionOnSet(net, 1..0) = 0
      /\ \A k \in 0..n : SumFunctionOnSet(net, 1..k) \in Int
      /\ \A k \in 1..n :
           SumFunctionOnSet(net, 1..k) = SumFunctionOnSet(net, 1..(k - 1)) + net[k]
  BY <1>1, <1>3, PrefixSum
<1>7. /\ SumFunctionOnSet(paid, 1..0) = 0
      /\ \A k \in 0..n : SumFunctionOnSet(paid, 1..k) \in Int
      /\ \A k \in 1..n :
           SumFunctionOnSet(paid, 1..k) = SumFunctionOnSet(paid, 1..(k - 1)) + paid[k]
  BY <1>1, <1>4, PrefixSum
<1>8. \A i \in 0..n : /\ RealizedBy(fills, i) \in Int /\ PaidBy(fills, i) \in Int
                      /\ InvestedIn(fills, i) \in Int /\ HeldIn(fills, i) \in Int
                      /\ NetAfter(fills, i) \in Int
  <2> TAKE i \in 0..n
  <2>1. \A u : InBucket(fills, u, i) \in Position
    BY InBucketType
  <2>2. \A u : /\ InBucket(fills, u, i).base \in Int
               /\ Invested(InBucket(fills, u, i)) \in Int
    BY <2>1, InvestedType
  <2>3. HeldIn(fills, i) \in Int
    BY <2>2 DEF HeldIn
  <2>4. InvestedIn(fills, i) \in Int
    BY <2>2 DEF InvestedIn
  <2> QED
    BY <1>5, <1>6, <1>7, <2>3, <2>4, NetNext
<1> DEFINE Kept(i) == /\ RealizedBy(fills, i) = PaidBy(fills, i) + InvestedIn(fills, i)
                      /\ HeldIn(fills, i) = NetAfter(fills, i)
           P == {i \in 0..n : Kept(i)}
<1>9. 0 \in P
  <2>1. \A u : InBucket(fills, u, 0) = Nothing
    BY BucketStart
  <2>2. InvestedIn(fills, 0) = 0
    BY <2>1, NothingType DEF InvestedIn
  <2>3. HeldIn(fills, 0) = 0
    BY <2>1, NothingType DEF HeldIn
  <2>4. 0 \in 0..n
    BY <1>1
  <2>5. RealizedBy(fills, 0) = 0 /\ PaidBy(fills, 0) = 0
    BY <1>5, <1>6, <1>7, <2>4
  <2>6. Kept(0)
    BY <2>2, <2>3, <2>5, NetNext
  <2> QED
    BY <2>4, <2>6
<1>10. ASSUME NEW i \in 0..(n - 1), i \in P
       PROVE  i + 1 \in P
  <2> DEFINE j == i + 1
             q == BucketAfter(fills, j).profit
             p == Paying(fills[j])
             f == fills[j].fee
  <2>1. j \in 1..n /\ j \in 0..n /\ j - 1 = i /\ i \in 0..n
    BY <1>1
  <2>2. Kept(i)
    BY <1>10
  <2> HIDE DEF j
  <2>3. q \in Int /\ p \in Int /\ f \in Int
    BY <1>2, <2>1
  <2>4. net[j] = q - f /\ paid[j] = -p - f
    BY <1>3, <1>4, <2>1
  <2>5. HeldIn(fills, j) = HeldIn(fills, i) + Signed(fills[j])
        /\ InvestedIn(fills, j) = InvestedIn(fills, i) + (q + p)
    BY <2>1, HeldNext
  <2> HIDE DEF q, p, f, n
  <2>6. NetAfter(fills, j) = NetAfter(fills, i) + Signed(fills[j])
    BY <2>1, NetNext DEF n
  <2>7. RealizedBy(fills, j) = RealizedBy(fills, i) + (q - f)
    BY <1>5, <1>6, <2>1, <2>4
  <2>8. PaidBy(fills, j) = PaidBy(fills, i) + (-p - f)
    BY <1>5, <1>7, <2>1, <2>4
  <2>9. RealizedBy(fills, i) + (q - f)
          = (PaidBy(fills, i) + (-p - f)) + InvestedIn(fills, j)
    BY <1>8, <2>1, <2>2, <2>3, <2>5, BalanceStep
  <2>10. Kept(j)
    BY <2>2, <2>5, <2>6, <2>7, <2>8, <2>9
  <2> QED
    BY <2>1, <2>10 DEF j
<1> HIDE DEF P
<1>11. 0..n \subseteq P
  BY <1>1, <1>9, <1>10, InductionUpTo
<1> QED
  BY <1>8, <1>11 DEF P

\* The profits table, as long as none of its rows is cut off.
LEMMA ProfitIsRealized ==
    ASSUME NEW fills \in Seq(Rows), InTime(fills), fills # <<>>, Len(fills) <= ProfitLimit
    PROVE  HasProfitsData(fills) /\ NetProfit(fills) = RealizedBy(fills, Len(fills))
<1> DEFINE n == Len(fills)
           all == ProfitRows(fills)
           rows == Reverse(SupabaseTrades(all, FALSE, ProfitLimit))
           net == [k \in 1..n |-> ProfitRow(fills, k).net]
<1>1. n \in Nat /\ n # 0 /\ DOMAIN fills = 1..n
  OBVIOUS
<1>0. ProfitLimit \in Nat /\ n <= ProfitLimit
  BY LedgerAssumption
<1>2. all = [k \in 1..n |-> ProfitRow(fills, k)]
  BY <1>1 DEF ProfitRows
<1>3. rows \in Seq(Profit)
  BY ProfitsOfFills
<1>4. /\ all \in Seq({ProfitRow(fills, k) : k \in 1..n}) /\ Len(all) = n
      /\ \A k \in 1..n : all[k] = ProfitRow(fills, k)
  BY <1>1, <1>2
<1>5. rows = [i \in 1..n |-> all[i]]
  <2>1. AtMost(ProfitLimit, n) = n /\ ProfitLimit \in Nat
    <3> HIDE DEF n
    <3>1. CASE ProfitLimit <= n
      <4>1. ProfitLimit = n
        BY <1>0, <1>1, <3>1
      <4> QED
        BY <1>0, <3>1, <4>1 DEF AtMost
    <3>2. CASE ~(ProfitLimit <= n)
      BY <1>0, <3>2 DEF AtMost
    <3> QED
      BY <3>1, <3>2
  <2>2. rows = [i \in 1..AtMost(ProfitLimit, Len(all)) |->
                  all[Len(all) - AtMost(ProfitLimit, Len(all)) + i]]
    <3> HIDE DEF all
    <3> QED
      BY <1>4, <2>1, NewestTurned
  <2>3. \A i \in 1..n : n - n + i = i
    BY <1>1
  <2> HIDE DEF all, rows, n
  <2>4. rows = [i \in 1..n |-> all[n - n + i]]
    BY <1>4, <2>1, <2>2
  <2> QED
    BY <2>3, <2>4
<1>6. Len(rows) = n /\ \A k \in 1..n : rows[k] = ProfitRow(fills, k)
  <2> HIDE DEF rows, all, n
  <2> QED
    BY <1>1, <1>4, <1>5
<1>7. AggregateProfits(rows) = PnLFromProfits(fills)
  BY DEF PnLFromProfits
<1> HIDE DEF rows
<1>8. \A k \in 1..n : rows[k] \in Profit /\ rows[k].net \in Int /\ rows[k].net = net[k]
  <2>1. \A k \in 1..n : rows[k] \in Profit
    BY <1>3, <1>6
  <2> QED
    BY <1>6, <2>1 DEF Profit
<1>9. net \in [1..n -> Int]
  BY <1>8
<1> HIDE DEF net, all
<1>10. /\ SumFunctionOnSet(net, 1..0) = 0
       /\ \A k \in 0..n : SumFunctionOnSet(net, 1..k) \in Int
       /\ \A k \in 1..n :
            SumFunctionOnSet(net, 1..k) = SumFunctionOnSet(net, 1..(k - 1)) + net[k]
  BY <1>1, <1>9, PrefixSum
<1>11. PICK t \in [0..Len(rows) -> ProfitState] :
          /\ t[0] = ProfitStart
          /\ \A i \in 1..Len(rows) : t[i] = ProfitStep(t[i - 1], rows[i])
          /\ t[Len(rows)] = AggregateProfits(rows)
  BY <1>3, ProfitTrace
<1> DEFINE Sums(i) == t[i].net = SumFunctionOnSet(net, 1..i) /\ t[i].totalTrades = i
           P == {i \in 0..n : Sums(i)}
<1>12. 0 \in P
  <2>1. t[0].net = 0 /\ t[0].totalTrades = 0
    BY <1>11 DEF ProfitStart
  <2>2. Sums(0)
    BY <1>10, <2>1
  <2> QED
    BY <1>1, <2>2
<1>13. ASSUME NEW i \in 0..(n - 1), i \in P
       PROVE  i + 1 \in P
  <2> DEFINE j == i + 1
  <2>1. j \in 1..n /\ j \in 0..n /\ j - 1 = i /\ i \in 0..n
    BY <1>1
  <2>2. Sums(i)
    BY <1>13
  <2> HIDE DEF j
  <2>3. t[j] = ProfitStep(t[i], rows[j])
    BY <1>6, <1>11, <2>1
  <2>4. t[i] \in ProfitState /\ rows[j] \in Profit
    BY <1>6, <1>8, <1>11, <2>1
  <2>5. t[j].net = t[i].net + rows[j].net /\ t[j].totalTrades = t[i].totalTrades + 1
    BY <2>3, <2>4, ProfitStepFields
  <2>6. t[j].net = SumFunctionOnSet(net, 1..j)
    BY <1>8, <1>10, <2>1, <2>2, <2>5
  <2>7. t[j].totalTrades = j
    BY <2>2, <2>5 DEF j
  <2> QED
    BY <2>1, <2>6, <2>7 DEF j
<1> HIDE DEF P
<1>14. 0..n \subseteq P
  BY <1>1, <1>12, <1>13, InductionUpTo
<1>15. Sums(n)
  BY <1>1, <1>14 DEF P
<1>16. PnLFromProfits(fills) = t[n]
  BY <1>6, <1>7, <1>11
<1>17. HasProfitsData(fills)
  BY <1>1, <1>15, <1>16 DEF HasProfitsData
<1> QED
  BY <1>15, <1>16, <1>17 DEF NetProfit, RealizedBy, net

\* Cash is what the fills paid and brought, less the fees.
LEMMA CashIsPaid ==
    ASSUME NEW fills \in Seq(Rows)
    PROVE  Cash(fills) = PaidBy(fills, Len(fills))
<1> DEFINE f == [k \in 1..Len(fills) |-> -Signed(fills[k]) * fills[k].price - fills[k].fee]
<1>1. DOMAIN fills = 1..Len(fills)
  OBVIOUS
<1>2. Cash(fills) = SumFunction(f)
  BY <1>1 DEF Cash
<1>3. SumFunction(f) = SumFunctionOnSet(f, 1..Len(fills))
  BY DEF SumFunction
<1> QED
  BY <1>2, <1>3 DEF PaidBy

\* A settled position has gained what it would bring, less what is invested.
LEMMA GainIsValue ==
    ASSUME NEW b \in Position, Settled(b), NEW price \in Nat
    PROVE  /\ Gain(b.base, b.cost, price) = b.base * price - Invested(b)
           /\ b.base = 0 => Gain(b.base, b.cost, price) = 0
<1> DEFINE x == b.base
           c == b.cost
<1>1. x \in Int /\ c \in Int /\ (x = 0 => c = 0)
  BY InvestedType DEF Settled
<1>2. Invested(b) = IF x > 0 THEN c ELSE -c
  BY DEF Invested
<1> HIDE DEF x, c
<1>3. CASE x > 0
  <2>1. Gain(x, c, price) = x * price - c /\ x # 0
    BY <1>1, <1>3 DEF Gain
  <2>2. Gain(x, c, price) = x * price - Invested(b)
    BY <1>2, <1>3, <2>1
  <2> QED
    BY <2>1, <2>2 DEF x, c
<1>4. CASE ~(x > 0)
  <2> DEFINE y == -x
             v == y * price
             m == -c
  <2>1. Abs(x) = y /\ y \in Int
    <3>1. CASE x < 0
      BY <1>1, <3>1 DEF Abs
    <3>2. CASE ~(x < 0)
      <4>1. x = 0
        BY <1>1, <1>4, <3>2
      <4>2. Abs(x) = x
        BY <3>2 DEF Abs
      <4>3. y \in Int /\ y + x = 0
        BY <1>1
      <4> HIDE DEF y
      <4>4. y = 0
        BY <4>1, <4>3
      <4> QED
        BY <4>1, <4>2, <4>4
    <3> QED
      BY <3>1, <3>2
  <2>2. Gain(x, c, price) = c - v
    BY <1>4, <2>1 DEF Gain
  <2>3. v \in Int /\ v + x * price = 0 /\ x * price \in Int
    BY <1>1
  <2>4. Invested(b) = m /\ m \in Int /\ m + c = 0
    BY <1>1, <1>2, <1>4
  <2> HIDE DEF v, m
  <2>5. Gain(x, c, price) = x * price - Invested(b)
    BY <1>1, <2>2, <2>3, <2>4
  <2>6. ASSUME x = 0 PROVE Gain(x, c, price) = 0
    <3>1. c = 0 /\ x * price = 0
      BY <1>1, <2>6
    <3> QED
      BY <1>1, <2>2, <2>3, <3>1
  <2> QED
    BY <2>5, <2>6 DEF x, c
<1> QED
  BY <1>3, <1>4

\* Terms that are zero may be left out.
LEMMA SumWithoutZeros ==
    ASSUME NEW S, IsFiniteSet(S), NEW f \in [S -> Int], NEW T \in SUBSET S,
           \A x \in S : x \notin T => f[x] = 0
    PROVE  SumFunctionOnSet(f, T) = SumFunctionOnSet(f, S)
<1> DEFINE sum(U) == SumFunctionOnSet(f, U)
           P == {U \in SUBSET S : sum(U \cap T) = sum(U)}
<1>1. /\ \A U \in SUBSET S : sum(U) \in Int
      /\ \A U \in SUBSET S : \A x \in U : sum(U) = f[x] + sum(U \ {x})
  BY SumRecursion
<1>2. {} \in P
  <2>1. {} \cap T = {}
    OBVIOUS
  <2> QED
    BY <2>1
<1> HIDE DEF sum
<1>3. ASSUME NEW U \in SUBSET S, NEW x \in S, x \notin U, U \in P
      PROVE  U \cup {x} \in P
  <2> DEFINE W == U \cup {x}
  <2>1. W \in SUBSET S /\ x \in W /\ W \ {x} = U
    BY <1>3
  <2>2. sum(W) = f[x] + sum(U)
    BY <1>1, <2>1
  <2>3. sum(U \cap T) = sum(U) /\ sum(U) \in Int /\ f[x] \in Int
    BY <1>1, <1>3
  <2>4. CASE x \in T
    <3> DEFINE V == W \cap T
    <3>1. V \in SUBSET S /\ x \in V /\ V \ {x} = U \cap T
      BY <1>3, <2>1, <2>4
    <3> HIDE DEF V, W
    <3>2. sum(V) = f[x] + sum(U \cap T)
      BY <1>1, <3>1
    <3>3. sum(V) = sum(W)
      BY <2>2, <2>3, <3>2
    <3> QED
      BY <2>1, <3>3 DEF V, W
  <2>5. CASE x \notin T
    <3>1. W \cap T = U \cap T /\ f[x] = 0
      BY <2>5
    <3> HIDE DEF W
    <3>2. sum(W) = sum(U)
      BY <2>2, <2>3, <3>1
    <3>3. sum(W \cap T) = sum(W)
      BY <2>3, <3>1, <3>2
    <3> QED
      BY <2>1, <3>3 DEF W
  <2> QED
    BY <2>4, <2>5
<1> HIDE DEF P
<1>4. S \in P
  BY <1>2, <1>3, Growing
<1>5. S \cap T = T
  OBVIOUS
<1> QED
  BY <1>4, <1>5 DEF P, sum

LEMMA FiniteBuckets == IsFiniteSet(Buckets)
<1> DEFINE none == {}
           one == none \cup {"BOTH"}
           two == one \cup {"LONG"}
<1>1. IsFiniteSet(none)
  BY FS_EmptySet
<1> HIDE DEF none
<1>2. IsFiniteSet(one)
  BY <1>1, FS_AddElement
<1> HIDE DEF one
<1>3. IsFiniteSet(two)
  BY <1>2, FS_AddElement
<1> HIDE DEF two
<1>4. IsFiniteSet(two \cup {"SHORT"})
  BY <1>3, FS_AddElement
<1>5. Buckets = two \cup {"SHORT"}
  BY DEF Buckets, two, one, none
<1> QED
  BY <1>4, <1>5

\* A sum over the buckets, spelled out.
LEMMA SumOfBuckets ==
    ASSUME NEW f \in [Buckets -> Int]
    PROVE  SumFunctionOnSet(f, Buckets) = f["BOTH"] + f["LONG"] + f["SHORT"]
<1> DEFINE sum(U) == SumFunctionOnSet(f, U)
<1>1. IsFiniteSet(Buckets)
  BY FiniteBuckets
<1>2. /\ sum({}) = 0
      /\ \A U \in SUBSET Buckets : sum(U) \in Int
      /\ \A U \in SUBSET Buckets : \A x \in U : sum(U) = f[x] + sum(U \ {x})
  BY <1>1, SumRecursion
<1> HIDE DEF sum
<1>3. /\ Buckets \in SUBSET Buckets /\ "BOTH" \in Buckets
      /\ Buckets \ {"BOTH"} = {"LONG", "SHORT"}
  BY DEF Buckets
<1>4. {"LONG", "SHORT"} \in SUBSET Buckets /\ {"LONG", "SHORT"} \ {"LONG"} = {"SHORT"}
  BY DEF Buckets
<1>5. {"SHORT"} \in SUBSET Buckets /\ {"SHORT"} \ {"SHORT"} = {}
  BY DEF Buckets
<1>6. sum({"SHORT"}) = f["SHORT"] + sum({})
  BY <1>2, <1>5
<1>7. sum({"LONG", "SHORT"}) = f["LONG"] + sum({"SHORT"})
  BY <1>2, <1>4
<1>8. sum(Buckets) = f["BOTH"] + sum({"LONG", "SHORT"})
  BY <1>2, <1>3
<1>9. f["BOTH"] \in Int /\ f["LONG"] \in Int /\ f["SHORT"] \in Int
  BY DEF Buckets
<1>10. sum(Buckets) = f["BOTH"] + f["LONG"] + f["SHORT"]
  BY <1>2, <1>6, <1>7, <1>8, <1>9
<1> QED
  BY <1>10 DEF sum

\* The last fill of its bucket.
IsLast(fills, i) == \A k \in (i + 1)..Len(fills) : fills[k].bucket # fills[i].bucket

\* The snapshot after it tells what is in the bucket now.
LEMMA SnapshotOfLast ==
    ASSUME NEW fills \in Seq(Rows), NEW i \in 1..Len(fills), IsLast(fills, i)
    PROVE  LET bucket == InBucket(fills, fills[i].bucket, Len(fills))
           IN FuturesRow(fills, i) = [side |-> fills[i].bucket, amount |-> bucket.base,
                                      cost |-> bucket.cost, mark |-> fills[i].price]
<1> DEFINE n == Len(fills)
           u == fills[i].bucket
<1>1. n \in Nat
  OBVIOUS
<1>2. {k \in 1..n : fills[k].bucket = u} = {k \in 1..i : fills[k].bucket = u}
  <2>1. \A k \in 1..n : k \in 1..i \/ k \in (i + 1)..n
    BY <1>1
  <2>2. \A k \in 1..i : k \in 1..n
    BY <1>1
  <2> QED
    BY <2>1, <2>2 DEF IsLast
<1>3. BucketAfter(fills, i) = InBucket(fills, u, n)
  BY <1>2 DEF BucketAfter, InBucket
<1> QED
  BY <1>3 DEF FuturesRow

\* Every bucket that was ever filled has a last fill, the others hold nothing.
LEMMA LastOrNothing ==
    ASSUME NEW fills \in Seq(Rows), NEW u
    PROVE  \/ \E i \in 1..Len(fills) : fills[i].bucket = u /\ IsLast(fills, i)
           \/ InBucket(fills, u, Len(fills)) = Nothing
<1> DEFINE n == Len(fills)
           places == {k \in 1..n : fills[k].bucket = u}
<1>1. n \in Nat
  OBVIOUS
<1>2. CASE places = {}
  <2>1. places = {k \in 1..0 : fills[k].bucket = u}
    BY <1>2
  <2>2. InBucket(fills, u, n) = InBucket(fills, u, 0)
    BY <2>1 DEF InBucket
  <2> QED
    BY <2>2, BucketStart
<1>3. CASE places # {}
  <2> DEFINE i == Max(places)
  <2>1. places \in SUBSET (1..n)
    OBVIOUS
  <2> HIDE DEF places
  <2>2. i \in places /\ \A y \in places : i >= y
    BY <1>1, <1>3, <2>1, MaxIsMost
  <2> HIDE DEF i
  <2>3. i \in 1..n /\ fills[i].bucket = u
    BY <2>2 DEF places
  <2>4. ASSUME NEW k \in (i + 1)..n
        PROVE  fills[k].bucket # fills[i].bucket
    <3>1. k \in 1..n /\ ~(i >= k)
      BY <1>1, <2>3
    <3>2. k \notin places
      BY <2>2, <3>1
    <3> QED
      BY <2>3, <3>1, <3>2 DEF places
  <2> QED
    BY <2>3, <2>4 DEF IsLast
<1> QED
  BY <1>2, <1>3

\* What a bucket has gained at a price.
GainIn(fills, u, price) ==
    Gain(InBucket(fills, u, Len(fills)).base, InBucket(fills, u, Len(fills)).cost, price)

\* The open snapshots are the open buckets', one of each, and tell their gain.
LEMMA RisksAreBuckets ==
    ASSUME NEW fills \in Seq(Rows), NEW price \in Nat \ {0}
    PROVE  /\ \A r \in OpenRisks(fills, Len(fills)) :
                /\ r.side \in Buckets
                /\ InBucket(fills, r.side, Len(fills)).base # 0
                /\ FuturesRealtime(r, price) = GainIn(fills, r.side, price)
           /\ \A r, q \in OpenRisks(fills, Len(fills)) : r.side = q.side => r = q
           /\ \A u : InBucket(fills, u, Len(fills)).base # 0 =>
                \E r \in OpenRisks(fills, Len(fills)) : r.side = u
<1> DEFINE n == Len(fills)
           S == OpenRisks(fills, n)
           b(u) == InBucket(fills, u, n)
<1>1. n \in Nat /\ \A i \in 1..n : fills[i].bucket \in Buckets
  <2>1. \A i \in 1..n : fills[i] \in Rows
    OBVIOUS
  <2> QED
    BY <2>1, SMTT(30) DEF Rows
<1>2. \A i \in 1..n : IsLast(fills, i) =>
         FuturesRow(fills, i) = [side |-> fills[i].bucket, amount |-> b(fills[i].bucket).base,
                                 cost |-> b(fills[i].bucket).cost, mark |-> fills[i].price]
  BY SnapshotOfLast
<1>3. \A r \in S : \E i \in 1..n : IsLast(fills, i) /\ r = FuturesRow(fills, i)
  BY DEF OpenRisks, LatestRisks, IsLast
<1>4. \A i \in 1..n : IsLast(fills, i) /\ FuturesRow(fills, i).amount # 0
                        => FuturesRow(fills, i) \in S
  BY DEF OpenRisks, LatestRisks, IsLast
<1>5. \A i, j \in 1..n :
         (IsLast(fills, i) /\ IsLast(fills, j) /\ fills[i].bucket = fills[j].bucket) => i = j
  <2> SUFFICES ASSUME NEW i \in 1..n, NEW j \in 1..n, IsLast(fills, i), IsLast(fills, j),
                      fills[i].bucket = fills[j].bucket, i # j
               PROVE  FALSE
    OBVIOUS
  <2>1. i \in (j + 1)..n \/ j \in (i + 1)..n
    BY <1>1
  <2> QED
    BY <2>1 DEF IsLast
<1>6. \A r \in S : r.amount # 0
  BY DEF OpenRisks
<1> HIDE DEF S, b, n
<1>7. ASSUME NEW r \in S
      PROVE  r.side \in Buckets /\ b(r.side).base # 0
             /\ FuturesRealtime(r, price) = GainIn(fills, r.side, price)
  <2>1. PICK i \in 1..n : IsLast(fills, i) /\ r = FuturesRow(fills, i)
    BY <1>3
  <2> DEFINE u == fills[i].bucket
             x == b(u).base
             c == b(u).cost
             m == fills[i].price
  <2>2. r = [side |-> u, amount |-> x, cost |-> c, mark |-> m]
    BY <1>2, <2>1
  <2>3. u \in Buckets
    BY <1>1
  <2>4. GainIn(fills, u, price) = Gain(x, c, price)
    BY DEF GainIn, b, n
  <2> HIDE DEF x, c, m
  <2>5. r.side = u /\ r.amount = x /\ r.cost = c
    BY <2>2
  <2>6. FuturesRealtime(r, price) = Gain(x, c, price)
    BY <2>5 DEF FuturesRealtime
  <2>7. x # 0
    BY <1>6, <2>5
  <2> QED
    BY <2>3, <2>4, <2>5, <2>6, <2>7 DEF x
<1>8. ASSUME NEW r \in S, NEW q \in S, r.side = q.side
      PROVE  r = q
  <2>1. PICK i \in 1..n : IsLast(fills, i) /\ r = FuturesRow(fills, i)
    BY <1>3
  <2>2. PICK j \in 1..n : IsLast(fills, j) /\ q = FuturesRow(fills, j)
    BY <1>3
  <2>3. r.side = fills[i].bucket /\ q.side = fills[j].bucket
    BY <1>2, <2>1, <2>2
  <2>4. i = j
    BY <1>5, <1>8, <2>1, <2>2, <2>3
  <2> QED
    BY <2>1, <2>2, <2>4
<1>9. ASSUME NEW u, b(u).base # 0
      PROVE  \E r \in S : r.side = u
  <2>1. b(u) # Nothing
    BY <1>9, NothingType
  <2>2. PICK i \in 1..n : fills[i].bucket = u /\ IsLast(fills, i)
    BY <2>1, LastOrNothing DEF b, n
  <2>3. FuturesRow(fills, i).amount = b(u).base /\ FuturesRow(fills, i).side = u
    BY <1>2, <2>2
  <2>4. FuturesRow(fills, i) \in S
    BY <1>4, <1>9, <2>2, <2>3
  <2> QED
    BY <2>3, <2>4
<1> QED
  BY <1>7, <1>8, <1>9 DEF S, b, n

\* Together they have gained what is held is worth, less what is invested.
LEMMA RisksWorth ==
    ASSUME NEW fills \in Seq(Rows), NEW price \in Nat \ {0}
    PROVE  SumFunction([r \in OpenRisks(fills, Len(fills)) |-> FuturesRealtime(r, price)])
             = HeldIn(fills, Len(fills)) * price - InvestedIn(fills, Len(fills))
<1> DEFINE n == Len(fills)
           S == OpenRisks(fills, n)
           b(u) == InBucket(fills, u, n)
           h == [r \in S |-> FuturesRealtime(r, price)]
           f == [u \in Buckets |-> GainIn(fills, u, price)]
           O == {u \in Buckets : b(u).base # 0}
           to == [r \in S |-> r.side]
<1>1. n \in Nat /\ n \in 0..n /\ price \in Nat
  OBVIOUS
<1>2. \A u : b(u) \in Position /\ Settled(b(u))
  BY <1>1, InBucketType, BucketSettled
<1>3. \A u : b(u).base \in Int /\ Invested(b(u)) \in Int
  BY <1>2, InvestedType
<1>4. \A u : /\ GainIn(fills, u, price) = b(u).base * price - Invested(b(u))
             /\ b(u).base = 0 => GainIn(fills, u, price) = 0
  BY <1>1, <1>2, GainIsValue DEF GainIn
<1>5. \A u : GainIn(fills, u, price) \in Int
  <2> TAKE u
  <2> DEFINE x == b(u).base
             v == Invested(b(u))
  <2>1. x \in Int /\ v \in Int /\ GainIn(fills, u, price) = x * price - v
    BY <1>3, <1>4
  <2> HIDE DEF x, v
  <2> QED
    BY <1>1, <2>1
<1>6. f \in [Buckets -> Int] /\ \A u \in Buckets : f[u] = GainIn(fills, u, price)
  BY <1>5
<1>7. IsFiniteSet(S)
  BY <1>1, RisksType
<1>8. /\ \A r \in S : /\ r.side \in Buckets /\ b(r.side).base # 0
                      /\ FuturesRealtime(r, price) = GainIn(fills, r.side, price)
      /\ \A r, q \in S : r.side = q.side => r = q
      /\ \A u : b(u).base # 0 => \E r \in S : r.side = u
  BY RisksAreBuckets
<1> HIDE DEF S, b, f
<1>9. IsRenamed(h, S, f, Buckets, O, to)
  <2>1. to \in [S -> Buckets] /\ \A r \in S : to[r] = r.side
    BY <1>8
  <2>2. \A r, q \in S : to[r] = to[q] => r = q
    BY <1>8, <2>1
  <2>3. h = [r \in S |-> f[to[r]]]
    BY <1>6, <1>8, <2>1
  <2>4. O = {to[r] : r \in S}
    <3>1. \A u \in O : \E r \in S : to[r] = u
      BY <1>8, <2>1
    <3>2. \A r \in S : to[r] \in O
      BY <1>8, <2>1
    <3> QED
      BY <3>1, <3>2
  <2> HIDE DEF h, O, to
  <2> QED
    BY <1>6, <1>7, <2>1, <2>2, <2>3, <2>4, FiniteBuckets DEF IsRenamed
<1>10. \A u \in Buckets : u \notin O => f[u] = 0
  BY <1>4, <1>6
<1>11. O \in SUBSET Buckets
  OBVIOUS
<1>12. SumFunction(h) = SumFunctionOnSet(h, S)
  BY DEF SumFunction
<1> HIDE DEF h, O, to
<1>13. SumFunctionOnSet(h, S) = SumFunctionOnSet(f, O)
  BY <1>9, SumMoved
<1>14. SumFunctionOnSet(f, O) = SumFunctionOnSet(f, Buckets)
  BY <1>6, <1>10, <1>11, FiniteBuckets, SumWithoutZeros
<1>15. SumFunctionOnSet(f, Buckets) = f["BOTH"] + f["LONG"] + f["SHORT"]
  BY <1>6, SumOfBuckets
<1>16. /\ f["BOTH"] = GainIn(fills, "BOTH", price)
       /\ f["LONG"] = GainIn(fills, "LONG", price)
       /\ f["SHORT"] = GainIn(fills, "SHORT", price)
  BY <1>6 DEF Buckets
<1> DEFINE x == b("BOTH").base
           y == b("LONG").base
           z == b("SHORT").base
           p == Invested(b("BOTH"))
           q == Invested(b("LONG"))
           s == Invested(b("SHORT"))
<1>17. f["BOTH"] = x * price - p /\ f["LONG"] = y * price - q /\ f["SHORT"] = z * price - s
  BY <1>4, <1>16
<1>18. HeldIn(fills, n) = x + y + z /\ InvestedIn(fills, n) = p + q + s
  BY DEF HeldIn, InvestedIn, b
<1>19. x \in Int /\ y \in Int /\ z \in Int /\ p \in Int /\ q \in Int /\ s \in Int
  BY <1>3
<1> HIDE DEF x, y, z, p, q, s
<1>20. (x * price - p) + (y * price - q) + (z * price - s) = (x + y + z) * price - (p + q + s)
  <2>1. (x + y + z) * price = x * price + y * price + z * price
    BY <1>1, <1>19
  <2>2. x * price \in Int /\ y * price \in Int /\ z * price \in Int
    BY <1>1, <1>19
  <2> QED
    BY <1>19, <2>1, <2>2
<1>21. SumFunction(h) = HeldIn(fills, n) * price - InvestedIn(fills, n)
  BY <1>12, <1>13, <1>14, <1>15, <1>17, <1>18, <1>20
<1> QED
  BY <1>21 DEF h, S, n

\* The rows one fill leaves in the positions table.
Kept(fills, i) == [base |-> BookAfter(fills, i).base, cost |-> BookAfter(fills, i).cost,
                   at |-> fills[i].at]
Emptied(fills, i) == [Kept(fills, i) EXCEPT !.base = 0]
RowsOf(fills, i) == IF fills[i].ghost THEN <<Kept(fills, i), Emptied(fills, i)>>
                    ELSE <<Kept(fills, i)>>

LEMMA RowsOfType ==
    ASSUME NEW fills \in Seq(Rows), NEW i \in 1..Len(fills)
    PROVE  /\ Kept(fills, i) \in Held /\ Emptied(fills, i) \in Held
           /\ Kept(fills, i).base = BookAfter(fills, i).base
           /\ Kept(fills, i).cost = BookAfter(fills, i).cost
           /\ Kept(fills, i).at = fills[i].at /\ Emptied(fills, i).at = fills[i].at
           /\ Emptied(fills, i).base = 0
<1> DEFINE x == BookAfter(fills, i).base
           c == BookAfter(fills, i).cost
           t == fills[i].at
<1>1. x \in Int /\ c \in Int /\ t \in Nat
  <2>1. i \in 0..Len(fills) /\ fills[i] \in Rows
    OBVIOUS
  <2>2. BookAfter(fills, i) \in Position
    BY <2>1, WholeNext
  <2> QED
    BY <2>1, <2>2 DEF Position, Rows
<1>2. Kept(fills, i) = [base |-> x, cost |-> c, at |-> t]
  BY DEF Kept
<1>3. Emptied(fills, i) = [[base |-> x, cost |-> c, at |-> t] EXCEPT !.base = 0]
  BY <1>2 DEF Emptied
<1> HIDE DEF x, c, t
<1>4. /\ Kept(fills, i) \in Held /\ Kept(fills, i).base = x /\ Kept(fills, i).cost = c
      /\ Kept(fills, i).at = t
  BY <1>1, <1>2 DEF Held
<1>5. Emptied(fills, i) \in Held /\ Emptied(fills, i).base = 0 /\ Emptied(fills, i).at = t
  BY <1>1, <1>3 DEF Held
<1> QED
  BY <1>4, <1>5 DEF x, c, t

\* A list turned round: the last ones come first.
LEMMA TurnedEnd ==
    ASSUME NEW Z, NEW front \in Seq(Z), NEW Y, NEW e \in Seq(Y)
    PROVE  LET rows == Reverse(front \o e)
           IN /\ DOMAIN rows = 1..(Len(front) + Len(e))
              /\ \A k \in 1..Len(e) : rows[k] = e[Len(e) - k + 1]
              /\ \A k \in (Len(e) + 1)..(Len(front) + Len(e)) : rows[k] \in Z
<1> DEFINE l == Len(front)
           m == Len(e)
           s == front \o e
           rows == Reverse(s)
<1>1. l \in Nat /\ m \in Nat /\ \A j \in 1..l : front[j] \in Z
  OBVIOUS
<1>2. /\ Len(s) = l + m /\ \A j \in 1..l : s[j] = front[j]
      /\ \A j \in (l + 1)..(l + m) : s[j] = e[j - l]
  <2>1. front \in Seq(Z \cup Y) /\ e \in Seq(Z \cup Y)
    OBVIOUS
  <2> QED
    BY <2>1
<1> HIDE DEF s, l, m
<1>3. rows = [k \in 1..(l + m) |-> s[(l + m) - k + 1]]
  BY <1>2 DEF Reverse
<1>4. ASSUME NEW k \in 1..m
      PROVE  rows[k] = e[m - k + 1]
  <2> DEFINE j == (l + m) - k + 1
  <2>1. j \in (l + 1)..(l + m) /\ j - l = m - k + 1 /\ k \in 1..(l + m)
    BY <1>1
  <2>2. rows[k] = s[j]
    BY <1>3, <2>1
  <2> HIDE DEF j, rows
  <2> QED
    BY <1>2, <2>1, <2>2
<1>5. ASSUME NEW k \in (m + 1)..(l + m)
      PROVE  rows[k] \in Z
  <2> DEFINE j == (l + m) - k + 1
  <2>1. j \in 1..l /\ k \in 1..(l + m)
    BY <1>1
  <2>2. rows[k] = s[j]
    BY <1>3, <2>1
  <2> HIDE DEF j, rows
  <2> QED
    BY <1>1, <1>2, <2>1, <2>2
<1>6. DOMAIN rows = 1..(l + m)
  BY <1>3
<1> QED
  BY <1>4, <1>5, <1>6 DEF l, m, s

\* The rows newest first: those of the last fill, then older ones.
LEMMA NewestRowsFirst ==
    ASSUME NEW fills \in Seq(Rows), fills # <<>>,
           NEW Z, \A i \in 1..(Len(fills) - 1) : RowsOf(fills, i) \in Seq(Z)
    PROVE  LET n == Len(fills)
               e == RowsOf(fills, n)
               rows == Reverse(PositionRows(fills, n))
           IN \E l \in Nat : /\ DOMAIN rows = 1..(l + Len(e))
                             /\ \A k \in 1..Len(e) : rows[k] = e[Len(e) - k + 1]
                             /\ \A k \in (Len(e) + 1)..(l + Len(e)) : rows[k] \in Z
<1> DEFINE n == Len(fills)
           Y == Held
           seqs == [i \in 1..n |-> RowsOf(fills, i)]
           e == RowsOf(fills, n)
<1>1. n \in Nat \ {0} /\ n \in 1..n /\ \A i \in 1..(n - 1) : i \in 1..n
  OBVIOUS
<1>2. PositionRows(fills, n) = FlattenSeq(seqs)
  BY DEF PositionRows, RowsOf, Kept, Emptied
<1>3. \A i \in 1..n : RowsOf(fills, i) \in Seq(Y)
  <2> TAKE i \in 1..n
  <2>1. Kept(fills, i) \in Y /\ Emptied(fills, i) \in Y
    BY RowsOfType
  <2> HIDE DEF Y
  <2> QED
    BY <2>1 DEF RowsOf
<1> HIDE DEF n, Y
<1>4. /\ seqs \in [1..n -> Seq(Y)] /\ seqs[n] = e
      /\ \A i \in 1..(n - 1) : seqs[i] \in Seq(Z)
  BY <1>1, <1>3 DEF n
<1> HIDE DEF seqs
<1>5. PICK front \in Seq(Z) : FlattenSeq(seqs) = front \o seqs[n]
  BY <1>1, <1>4, FlattenEnds
<1>6. e \in Seq(Y) /\ PositionRows(fills, n) = front \o e
  BY <1>1, <1>2, <1>3, <1>4, <1>5
<1> HIDE DEF e
<1> DEFINE rows == Reverse(front \o e)
<1>7. /\ DOMAIN rows = 1..(Len(front) + Len(e))
      /\ \A k \in 1..Len(e) : rows[k] = e[Len(e) - k + 1]
      /\ \A k \in (Len(e) + 1)..(Len(front) + Len(e)) : rows[k] \in Z
  BY <1>6, TurnedEnd
<1>8. Len(front) \in Nat
  OBVIOUS
<1> QED
  BY <1>6, <1>7, <1>8 DEF n, e

\* A position that is open is the one shown, also beside an empty row.
LEMMA OpenIsShown ==
    ASSUME NEW fills \in Seq(Rows), fills # <<>>, BookAfter(fills, Len(fills)).base # 0
    PROVE  OpenPositions(fills, Len(fills)) = {Kept(fills, Len(fills))}
<1> DEFINE n == Len(fills)
           e == RowsOf(fills, n)
           rows == Reverse(PositionRows(fills, n))
           x == Kept(fills, n)
           o == Emptied(fills, n)
           siblings == {i \in DOMAIN rows : rows[i].at = Head(rows).at /\ rows[i].base # 0}
<1>1. n \in Nat \ {0} /\ n \in 1..n
  OBVIOUS
<1>2. x.base # 0 /\ x.at = fills[n].at /\ o.at = fills[n].at /\ o.base = 0
  BY <1>1, RowsOfType
<1>3. \A i \in 1..(n - 1) : RowsOf(fills, i) \in Seq(Held)
  <2> TAKE i \in 1..(n - 1)
  <2>1. Kept(fills, i) \in Held /\ Emptied(fills, i) \in Held
    BY RowsOfType
  <2> QED
    BY <2>1 DEF RowsOf
<1>4. PICK l \in Nat : /\ DOMAIN rows = 1..(l + Len(e))
                       /\ \A k \in 1..Len(e) : rows[k] = e[Len(e) - k + 1]
  BY <1>3, NewestRowsFirst
<1>5. Head(rows) = rows[1]
  OBVIOUS
<1>6. Latest(rows)
        = IF Head(rows).base = 0 /\ siblings # {} THEN rows[Min(siblings)] ELSE Head(rows)
  BY DEF Latest
<1>7. Latest(rows) = x
  <2>1. CASE fills[n].ghost
    <3>1. e = <<x, o>>
      BY <2>1 DEF RowsOf
    <3> HIDE DEF e, x, o, rows
    <3>2. Len(e) = 2 /\ e[1] = x /\ e[2] = o
      BY <3>1
    <3>3. rows[1] = o /\ rows[2] = x /\ DOMAIN rows = 1..(l + 2)
      <4>1. 1 \in 1..2 /\ 2 \in 1..2 /\ 2 - 1 + 1 = 2 /\ 2 - 2 + 1 = 1
        OBVIOUS
      <4> QED
        BY <1>4, <3>2, <4>1
    <3>4. 2 \in siblings /\ 1 \notin siblings /\ siblings \in SUBSET (1..(l + 2))
      <4>1. 2 \in 1..(l + 2)
        OBVIOUS
      <4> QED
        BY <1>2, <1>5, <3>3, <4>1
    <3> HIDE DEF siblings
    <3>5. l + 2 \in Nat /\ siblings # {}
      BY <3>4
    <3>6. Min(siblings) \in siblings /\ \A y \in siblings : Min(siblings) <= y
      BY <3>4, <3>5, MinIsLeast
    <3>7. Min(siblings) \in 1..(l + 2) /\ Min(siblings) # 1 /\ Min(siblings) <= 2
      BY <3>4, <3>6
    <3>8. Min(siblings) = 2
      BY <3>7
    <3> QED
      BY <1>2, <1>5, <1>6, <3>3, <3>4, <3>8
  <2>2. CASE ~fills[n].ghost
    <3>1. e = <<x>>
      BY <2>2 DEF RowsOf
    <3> HIDE DEF e, x, o, rows
    <3>2. Len(e) = 1 /\ e[1] = x
      BY <3>1
    <3>3. rows[1] = x
      <4>1. 1 \in 1..1 /\ 1 - 1 + 1 = 1
        OBVIOUS
      <4> QED
        BY <1>4, <3>2, <4>1
    <3> QED
      BY <1>2, <1>5, <1>6, <3>3
  <2> QED
    BY <2>1, <2>2
<1>8. OpenPositions(fills, n) = {p \in {Latest(rows)} : p.base # 0}
  BY <1>1 DEF OpenPositions
<1> HIDE DEF x, rows
<1>9. OpenPositions(fills, n) = {x}
  BY <1>2, <1>7, <1>8
<1> QED
  BY <1>9 DEF n, x

\* A closed one is shown no more, unless an earlier fill of its instant left one.
LEMMA ClosedIsGone ==
    ASSUME NEW fills \in Seq(Rows), fills # <<>>, BookAfter(fills, Len(fills)).base = 0,
           \A i \in 1..Len(fills) : fills[i].at = fills[Len(fills)].at => i = Len(fills)
    PROVE  OpenPositions(fills, Len(fills)) = {}
<1> DEFINE n == Len(fills)
           e == RowsOf(fills, n)
           rows == Reverse(PositionRows(fills, n))
           x == Kept(fills, n)
           o == Emptied(fills, n)
           Older == {r \in Held : r.at # fills[n].at}
           siblings == {i \in DOMAIN rows : rows[i].at = Head(rows).at /\ rows[i].base # 0}
<1>1. n \in Nat \ {0} /\ n \in 1..n
  OBVIOUS
<1>2. x.base = 0 /\ x.at = fills[n].at /\ o.at = fills[n].at /\ o.base = 0
  BY <1>1, RowsOfType
<1>3. \A i \in 1..(n - 1) : RowsOf(fills, i) \in Seq(Older)
  <2> TAKE i \in 1..(n - 1)
  <2>1. /\ Kept(fills, i) \in Held /\ Emptied(fills, i) \in Held
        /\ Kept(fills, i).at = fills[i].at /\ Emptied(fills, i).at = fills[i].at
    BY RowsOfType
  <2>2. fills[i].at # fills[n].at
    <3>1. i \in 1..n /\ i # n
      BY <1>1
    <3> QED
      BY <3>1
  <2>3. Kept(fills, i) \in Older /\ Emptied(fills, i) \in Older
    BY <2>1, <2>2
  <2> HIDE DEF Older
  <2> QED
    BY <2>3 DEF RowsOf
<1> DEFINE Z == Older
<1> HIDE DEF Z
<1>4. PICK l \in Nat : /\ DOMAIN rows = 1..(l + Len(e))
                       /\ \A k \in 1..Len(e) : rows[k] = e[Len(e) - k + 1]
                       /\ \A k \in (Len(e) + 1)..(l + Len(e)) : rows[k] \in Z
  BY <1>3, NewestRowsFirst DEF Z
<1>5. \A r \in Z : r.at # fills[n].at
  BY DEF Z
<1>6. Head(rows) = rows[1]
  OBVIOUS
<1>7. Latest(rows)
        = IF Head(rows).base = 0 /\ siblings # {} THEN rows[Min(siblings)] ELSE Head(rows)
  BY DEF Latest
<1>8. Len(e) \in Nat \ {0} /\ \A j \in 1..Len(e) : e[j].base = 0 /\ e[j].at = fills[n].at
  <2>1. CASE fills[n].ghost
    <3>1. e = <<x, o>>
      BY <2>1 DEF RowsOf
    <3> HIDE DEF e, x, o
    <3>2. Len(e) = 2 /\ e[1] = x /\ e[2] = o
      BY <3>1
    <3>3. \A j \in 1..2 : j = 1 \/ j = 2
      OBVIOUS
    <3> QED
      BY <1>2, <3>2, <3>3
  <2>2. CASE ~fills[n].ghost
    <3>1. e = <<x>>
      BY <2>2 DEF RowsOf
    <3> HIDE DEF e, x, o
    <3>2. Len(e) = 1 /\ e[1] = x
      BY <3>1
    <3>3. \A j \in 1..1 : j = 1
      OBVIOUS
    <3> QED
      BY <1>2, <3>2, <3>3
  <2> QED
    BY <2>1, <2>2
<1> HIDE DEF e, rows
<1>9. \A k \in 1..Len(e) : rows[k].base = 0 /\ rows[k].at = fills[n].at
  <2> TAKE k \in 1..Len(e)
  <2>1. Len(e) - k + 1 \in 1..Len(e)
    BY <1>8
  <2> QED
    BY <1>4, <1>8, <2>1
<1>10. Head(rows).base = 0 /\ Head(rows).at = fills[n].at
  <2>1. 1 \in 1..Len(e)
    BY <1>8
  <2> QED
    BY <1>6, <1>9, <2>1
<1>11. siblings = {}
  <2> SUFFICES ASSUME NEW i \in 1..(l + Len(e)), rows[i].at = fills[n].at, rows[i].base # 0
               PROVE  FALSE
    BY <1>4, <1>10
  <2>1. i \in 1..Len(e) \/ i \in (Len(e) + 1)..(l + Len(e))
    BY <1>8
  <2> QED
    BY <1>4, <1>5, <1>9, <2>1
<1>12. Latest(rows).base = 0
  BY <1>7, <1>10, <1>11
<1>13. OpenPositions(fills, n) = {p \in {Latest(rows)} : p.base # 0}
  BY <1>1 DEF OpenPositions, rows
<1> QED
  BY <1>12, <1>13 DEF n

\* The worth of what is held: what it would bring, less what is invested.
Value(fills, price) ==
    HeldIn(fills, Len(fills)) * price - InvestedIn(fills, Len(fills))

\* The summary of a page that has the newest rows of either kind.
LEMMA RisksTellValue ==
    ASSUME NEW fills \in Seq(Rows), NEW price \in Nat \ {0}, NEW seen,
           seen.risks = OpenRisks(fills, Len(fills)), seen.risks # {}
    PROVE  Summary(seen, price) = Value(fills, price)
<1>1. Summary(seen, price) = SumFunction([r \in seen.risks |-> FuturesRealtime(r, price)])
  BY DEF Summary
<1> QED
  BY <1>1, RisksWorth DEF Value

\* Without a position there is nothing to gain.
LEMMA NothingToGain ==
    ASSUME NEW price \in Nat \ {0}, NEW seen, seen.risks = {}, seen.positions = {}
    PROVE  Summary(seen, price) = 0
<1> DEFINE f == [p \in {} |-> Gain(p.base, p.cost, price)]
<1>1. Summary(seen, price) = UnrealizedPnL({}, price)
  BY DEF Summary
<1>2. UnrealizedPnL({}, price) = SumFunction(f)
  BY DEF UnrealizedPnL
<1>3. f \in [{} -> Int]
  OBVIOUS
<1>4. SumFunction(f) = SumFunctionOnSet(f, {})
  BY DEF SumFunction
<1> HIDE DEF f
<1>5. SumFunctionOnSet(f, {}) = 0
  BY <1>3, FS_EmptySet, SumRecursion
<1> QED
  BY <1>1, <1>2, <1>4, <1>5

\* Nothing is held and nothing invested when every bucket is closed.
LEMMA ClosedIsNothing ==
    ASSUME NEW fills \in Seq(Rows), NEW price \in Nat \ {0},
           \A u : InBucket(fills, u, Len(fills)).base = 0
    PROVE  Value(fills, price) = 0 /\ NetAfter(fills, Len(fills)) = 0
<1> DEFINE n == Len(fills)
           S == OpenRisks(fills, n)
           h == [r \in S |-> FuturesRealtime(r, price)]
           f == [r \in {} |-> FuturesRealtime(r, price)]
<1>1. n \in Nat /\ n \in 0..n
  OBVIOUS
<1>2. S = {}
  <2>1. \A r \in S : InBucket(fills, r.side, n).base # 0
    BY RisksAreBuckets
  <2> HIDE DEF S
  <2> QED
    BY <2>1
<1>3. SumFunction(h) = Value(fills, price)
  BY RisksWorth DEF Value
<1> HIDE DEF S
<1>4. h = f /\ f \in [{} -> Int]
  BY <1>2
<1>5. SumFunction(f) = SumFunctionOnSet(f, {})
  BY DEF SumFunction
<1> HIDE DEF h, f
<1>6. SumFunctionOnSet(f, {}) = 0
  BY <1>4, FS_EmptySet, SumRecursion
<1>7. HeldIn(fills, n) = 0
  BY DEF HeldIn
<1>8. NetAfter(fills, n) = 0
  BY <1>1, <1>7, MoneyIsKept
<1> QED
  BY <1>3, <1>4, <1>5, <1>6, <1>8

\* A spot position tells the same as the buckets.
LEMMA PositionTellsValue ==
    ASSUME NEW fills \in Seq(Rows), fills # <<>>, OnSpot(fills), NEW price \in Nat \ {0},
           NEW seen, seen.risks = {}, seen.positions = OpenPositions(fills, Len(fills)),
           NetAfter(fills, Len(fills)) # 0
    PROVE  Summary(seen, price) = Value(fills, price)
<1> DEFINE n == Len(fills)
           b == BookAfter(fills, n)
           p == Kept(fills, n)
           f == [q \in {p} |-> Gain(q.base, q.cost, price)]
<1>1. n \in Nat /\ n \in 0..n /\ n \in 1..n /\ price \in Nat /\ price # 0
  OBVIOUS
<1>2. b \in Position /\ b.base = NetAfter(fills, n) /\ Settled(b)
  BY <1>1, WholeNext, WholeIsNet
<1>3. seen.positions = {p} /\ p.base = b.base /\ p.cost = b.cost
  <2>1. BookAfter(fills, Len(fills)).base # 0
    BY <1>2
  <2>2. OpenPositions(fills, Len(fills)) = {Kept(fills, Len(fills))}
    BY <2>1, OpenIsShown
  <2> QED
    BY <1>1, <2>2, RowsOfType
<1>4. Gain(b.base, b.cost, price) = b.base * price - Invested(b)
  BY <1>1, <1>2, GainIsValue
<1>5. b.base \in Int /\ b.cost \in Int /\ Invested(b) \in Int
  BY <1>2, InvestedType
<1>6. Gain(p.base, p.cost, price) \in Int
  BY <1>1, <1>3, <1>5, GainType
<1>7. Summary(seen, price) = SumFunction(f)
  BY <1>1, <1>3 DEF Summary, UnrealizedPnL
<1> HIDE DEF p
<1>8. f \in [{p} -> Int] /\ f[p] = Gain(p.base, p.cost, price)
  BY <1>6
<1> HIDE DEF f
<1>9. SumFunction(f) = f[p]
  BY <1>8, SumOfOne
<1>10. /\ InBucket(fills, "BOTH", n) = b /\ InBucket(fills, "LONG", n) = Nothing
       /\ InBucket(fills, "SHORT", n) = Nothing
  BY <1>1, SpotIsWhole
<1> HIDE DEF b
<1>11. HeldIn(fills, n) = b.base /\ InvestedIn(fills, n) = Invested(b)
  BY <1>5, <1>10, NothingType DEF HeldIn, InvestedIn
<1> QED
  BY <1>3, <1>4, <1>7, <1>8, <1>9, <1>11 DEF Value, n

\* Either way, with rows that are up to date and a price.
LEMMA SummaryTellsValue ==
    ASSUME NEW fills \in Seq(Rows), fills # <<>>,
           NEW seen \in UpToDate(fills), NEW price \in Nat \ {0},
           \/ NetAfter(fills, Len(fills)) # 0
           \/ \A i \in 1..Len(fills) : fills[i].at = fills[Len(fills)].at => i = Len(fills)
    PROVE  Summary(seen, price) = Value(fills, price)
<1> DEFINE n == Len(fills)
<1>1. n \in Nat /\ n \in 0..n /\ n \in 1..n
  OBVIOUS
<1>2. /\ seen.positions = OpenPositions(fills, n)
      /\ seen.risks = OpenRisks(fills, n) \/ (OnSpot(fills) /\ seen.risks = {})
  BY DEF UpToDate
<1>3. BookAfter(fills, n).base = NetAfter(fills, n)
  BY <1>1, WholeIsNet
<1>4. CASE seen.risks # {}
  <2>1. seen.risks = OpenRisks(fills, n)
    BY <1>2, <1>4
  <2> QED
    BY <1>4, <2>1, RisksTellValue
<1>5. CASE seen.risks = {} /\ NetAfter(fills, n) = 0
  <2>1. seen.positions = {}
    BY <1>2, <1>3, <1>5, ClosedIsGone
  <2>2. Summary(seen, price) = 0
    BY <1>5, <2>1, NothingToGain
  <2>3. \A u : InBucket(fills, u, n).base = 0
    <3>1. CASE seen.risks = OpenRisks(fills, n)
      BY <1>5, <3>1, RisksAreBuckets
    <3>2. CASE OnSpot(fills)
      <4>1. InBucket(fills, "BOTH", n).base = 0
        BY <1>1, <1>3, <1>5, <3>2, SpotIsWhole
      <4>2. /\ InBucket(fills, "LONG", n).base = 0 /\ InBucket(fills, "SHORT", n).base = 0
        BY <1>1, <3>2, NothingType, SpotIsWhole
      <4>3. \A u : InBucket(fills, u, n).base # 0 => u \in {"BOTH", "LONG", "SHORT"}
        <5> SUFFICES ASSUME NEW u, InBucket(fills, u, n).base # 0
                     PROVE  u \in {"BOTH", "LONG", "SHORT"}
          OBVIOUS
        <5>1. PICK r \in OpenRisks(fills, n) : r.side = u
          BY RisksAreBuckets
        <5>2. r.side \in Buckets
          BY RisksAreBuckets
        <5> QED
          BY <5>1, <5>2 DEF Buckets
      <4> QED
        BY <4>1, <4>2, <4>3
    <3> QED
      BY <1>2, <3>1, <3>2
  <2>4. Value(fills, price) = 0
    BY <2>3, ClosedIsNothing
  <2> QED
    BY <2>2, <2>4
<1>6. CASE seen.risks = {} /\ NetAfter(fills, n) # 0
  <2>1. OnSpot(fills)
    <3>1. CASE seen.risks = OpenRisks(fills, n)
      <4>1. \A u : InBucket(fills, u, n).base = 0
        BY <1>6, <3>1, RisksAreBuckets
      <4>2. NetAfter(fills, n) = 0
        BY <4>1, ClosedIsNothing
      <4> QED
        BY <1>6, <4>2
    <3>2. CASE OnSpot(fills)
      BY <3>2
    <3> QED
      BY <1>2, <3>1, <3>2
  <2> QED
    BY <1>2, <1>6, <2>1, PositionTellsValue
<1> QED
  BY <1>4, <1>5, <1>6

\* Of two rows of one instant, one is not the last.
LEMMA AloneInInstant ==
    ASSUME NEW fills \in Seq(Rows), fills # <<>>,
           Cardinality({i \in DOMAIN fills : fills[i].at = Last(fills).at}) = 1
    PROVE  \A i \in 1..Len(fills) : fills[i].at = fills[Len(fills)].at => i = Len(fills)
<1> DEFINE n == Len(fills)
           S == {i \in 1..n : fills[i].at = fills[n].at}
<1>1. n \in Nat /\ n \in 1..n /\ DOMAIN fills = 1..n /\ Last(fills) = fills[n]
  BY DEF Last
<1>2. Cardinality(S) = 1
  BY <1>1
<1>3. n \in S
  BY <1>1
<1>4. IsFiniteSet(S)
  <2>1. IsFiniteSet(1..n)
    BY <1>1, FS_Interval
  <2> QED
    BY <2>1, FS_Subset
<1> HIDE DEF S
<1>5. PICK x : S = {x}
  BY <1>2, <1>4, FS_Singleton
<1>6. \A i \in S : i = n
  BY <1>3, <1>5
<1> QED
  BY <1>6 DEF S, n

\* Net profit and the gain of what is open are together what closing now would
\* leave of all the money that moved (page.tsx, computeFuturesRealtime,
\* useUnrealizedPnL, aggregateProfits): nothing counts twice, and nothing is lost
\* between the tables.
THEOREM WorthIsRight == Spec => []SummaryIsWorth
<1>1. TableOK => SummaryIsWorth
  <2> SUFFICES ASSUME TableOK, NEW b \in Bots, Of(b) # <<>>, Len(Of(b)) <= ProfitLimit,
                      \/ NetAfter(Of(b), Len(Of(b))) # 0
                      \/ Cardinality({i \in DOMAIN Of(b) : Of(b)[i].at = Last(Of(b)).at}) = 1,
                      NEW seen \in UpToDate(Of(b)), NEW price \in Closes \ {0}
               PROVE  /\ SummaryShown(Of(b), seen, price)
                      /\ NetProfit(Of(b)) + Summary(seen, price) = Worth(Of(b), price)
    BY DEF SummaryIsWorth
  <2> DEFINE fills == Of(b)
             n == Len(fills)
  <2>1. fills \in Seq(Rows) /\ InTime(fills) /\ price \in Nat \ {0}
    BY OfType, ClosesAssumption
  <2>2. fills # <<>> /\ n <= ProfitLimit /\ seen \in UpToDate(fills)
    OBVIOUS
  <2>3. \/ NetAfter(fills, n) # 0
        \/ Cardinality({i \in DOMAIN fills : fills[i].at = Last(fills).at}) = 1
    OBVIOUS
  <2> HIDE DEF fills
  <2>4. \/ NetAfter(fills, n) # 0
        \/ \A i \in 1..n : fills[i].at = fills[n].at => i = n
    BY <2>1, <2>2, <2>3, AloneInInstant
  <2>5. n \in Nat /\ n \in 0..n
    BY <2>1
  <2>6. Summary(seen, price) = Value(fills, price)
    BY <2>1, <2>2, <2>4, SummaryTellsValue
  <2>7. HasProfitsData(fills) /\ NetProfit(fills) = RealizedBy(fills, n)
    BY <2>1, <2>2, ProfitIsRealized
  <2>8. Cash(fills) = PaidBy(fills, n)
    BY <2>1, CashIsPaid
  <2>9. /\ RealizedBy(fills, n) = PaidBy(fills, n) + InvestedIn(fills, n)
        /\ HeldIn(fills, n) = NetAfter(fills, n)
        /\ PaidBy(fills, n) \in Int /\ InvestedIn(fills, n) \in Int
        /\ NetAfter(fills, n) \in Int
    BY <2>1, <2>5, MoneyIsKept, NetNext
  <2> DEFINE v == NetAfter(fills, n) * price
             w == InvestedIn(fills, n)
             m == PaidBy(fills, n)
  <2>10. v \in Int /\ w \in Int /\ m \in Int
    BY <2>1, <2>9
  <2>11. Summary(seen, price) = v - w /\ NetProfit(fills) = m + w
         /\ Worth(fills, price) = m + v
    BY <2>6, <2>7, <2>8, <2>9 DEF Value, Worth
  <2> HIDE DEF v, w, m
  <2>12. NetProfit(fills) + Summary(seen, price) = Worth(fills, price)
    BY <2>10, <2>11
  <2>13. SummaryShown(fills, seen, price)
    BY <2>7 DEF SummaryShown
  <2> QED
    BY <2>12, <2>13 DEF fills
<1> QED
  BY <1>1, TableHolds, PTL
=============================================================================
