---------------------- MODULE InvestmentPlannerProofs ----------------------
(***************************************************************************)
(* For all thresholds, markets, verdicts, requests and fills: the decision *)
(* of the risk policies is the strictest verdict, a plan's allocations can *)
(* be paid from its budget, its trims sell no more than is held, what it   *)
(* selects can be acted upon, and a ranking puts no HOLD before an         *)
(* approved BUY.                                                           *)
(*                                                                         *)
(* Sums and sorts are computed by recursion over finite sets.  What is     *)
(* needed of them is proved by taking a least set for which it would fail, *)
(* which strict inclusion being well-founded on finite sets provides.      *)
(***************************************************************************)
EXTENDS InvestmentPlanner, SequenceTheorems, FiniteSetTheorems, TLAPS

-----------------------------------------------------------------------------
\* Sums over finite sets of indexes.

Pick(s) == CHOOSE x \in s : TRUE

\* The function a sum of f over S is computed by.
Summing(f, S, iter) ==
    iter = [s \in SUBSET S |-> IF s = {} THEN 0 ELSE f[Pick(s)] + iter[s \ {Pick(s)}]]

\* A nonempty collection of subsets of a finite set has a least member.
LEMMA LeastSubset ==
    ASSUME NEW S, IsFiniteSet(S), NEW T, T \subseteq SUBSET S, T # {}
    PROVE  \E s \in T : \A t \in T : t \subseteq s => t = s
  <1>1. IsWellFoundedOn(StrictSubsetOrdering(S), SUBSET S)
    BY FS_StrictSubsetOrderingWellFounded, FS_FiniteSubsetsOfFinite
  <1>2. PICK s \in T : \A t \in T : ~ (<<t, s>> \in StrictSubsetOrdering(S))
    BY <1>1, WFMin
  <1>3. QED BY <1>2 DEF StrictSubsetOrdering

\* Two computations of sums of f agree where both are defined.
LEMMA SummingUnique ==
    ASSUME NEW f, NEW S, NEW U, NEW g, NEW h, IsFiniteSet(S),
           Summing(f, S, g), Summing(f, U, h)
    PROVE  \A s \in SUBSET (S \cap U) : g[s] = h[s]
  <1> DEFINE T == {s \in SUBSET (S \cap U) : g[s] # h[s]}
  <1> SUFFICES ASSUME T # {} PROVE FALSE
    OBVIOUS
  <1>1. T \subseteq SUBSET S
    OBVIOUS
  <1>2. PICK s \in T : \A t \in T : t \subseteq s => t = s
    <2> HIDE DEF T
    <2> QED BY <1>1, LeastSubset
  <1>3. s \in SUBSET S /\ s \in SUBSET U
    OBVIOUS
  <1>4. g[s] = IF s = {} THEN 0 ELSE f[Pick(s)] + g[s \ {Pick(s)}]
    BY <1>3 DEF Summing
  <1>5. h[s] = IF s = {} THEN 0 ELSE f[Pick(s)] + h[s \ {Pick(s)}]
    BY <1>3 DEF Summing
  <1>6. s # {} => Pick(s) \in s
    BY DEF Pick
  <1>7. s # {} => s \ {Pick(s)} \notin T
    BY <1>2, <1>6
  <1>8. QED BY <1>3, <1>4, <1>5, <1>7

\* There is one over every finite set.
LEMMA SummingExists ==
    ASSUME NEW f, NEW S, IsFiniteSet(S)
    PROVE  \E iter : Summing(f, S, iter)
  <1> DEFINE T == {s \in SUBSET S : ~ \E iter : Summing(f, s, iter)}
             I(s) == CHOOSE iter : Summing(f, s, iter)
  <1> SUFFICES ASSUME T # {} PROVE FALSE
    OBVIOUS
  <1>1. PICK s \in T : \A t \in T : t \subseteq s => t = s
    <2>1. T \subseteq SUBSET S
      OBVIOUS
    <2> HIDE DEF T
    <2> QED BY <2>1, LeastSubset
  <1>2. ASSUME NEW t \in SUBSET s, t # s PROVE Summing(f, t, I(t)) /\ IsFiniteSet(t)
    <2>1. t \in SUBSET S /\ t \notin T
      BY <1>1, <1>2
    <2>2. \E iter : Summing(f, t, iter)
      BY <2>1
    <2> QED BY <2>1, <2>2, FS_Subset
  <1> HIDE DEF I
  <1> DEFINE G == [t \in SUBSET s |-> IF t = {} THEN 0
                                      ELSE f[Pick(t)] + I(t \ {Pick(t)})[t \ {Pick(t)}]]
  <1>3. ASSUME NEW t \in SUBSET s, t # s PROVE G[t] = I(t)[t]
    <2>1. I(t)[t] = IF t = {} THEN 0 ELSE f[Pick(t)] + I(t)[t \ {Pick(t)}]
      BY <1>2, <1>3 DEF Summing
    <2>2. CASE t # {}
      <3> DEFINE u == t \ {Pick(t)}
      <3>1. u \in SUBSET s /\ u # s /\ u \subseteq t
        BY <1>3, <2>2 DEF Pick
      <3>2. Summing(f, t, I(t)) /\ Summing(f, u, I(u)) /\ IsFiniteSet(t)
        BY <1>2, <1>3, <3>1
      <3>3. I(t)[u] = I(u)[u]
        <4>1. u \in SUBSET (t \cap u)
          BY <3>1
        <4> HIDE DEF u
        <4> QED BY <3>2, <4>1, SummingUnique
      <3> QED BY <2>1, <2>2, <3>3
    <2> QED BY <2>1, <2>2
  <1>4. G = [t \in SUBSET s |-> IF t = {} THEN 0 ELSE f[Pick(t)] + G[t \ {Pick(t)}]]
    <2>1. ASSUME NEW t \in SUBSET s, t # {}
          PROVE  G[t \ {Pick(t)}] = I(t \ {Pick(t)})[t \ {Pick(t)}]
      <3>1. t \ {Pick(t)} \in SUBSET s /\ t \ {Pick(t)} # s
        BY <2>1 DEF Pick
      <3> HIDE DEF G
      <3> QED BY <1>3, <3>1
    <2> QED BY <2>1
  <1>5. QED BY <1>4 DEF Summing

\* The recursion that SumFunctionOnSet unfolds to.
LEMMA SumStep ==
    ASSUME NEW f, NEW S, IsFiniteSet(S)
    PROVE  SumFunctionOnSet(f, S) =
             IF S = {} THEN 0 ELSE f[Pick(S)] + SumFunctionOnSet(f, S \ {Pick(S)})
  <1> DEFINE I(s) == CHOOSE iter : Summing(f, s, iter)
             R == S \ {Pick(S)}
  <1>1. \A s : SumFunctionOnSet(f, s) = I(s)[s]
    BY DEF SumFunctionOnSet, FoldFunctionOnSet, MapThenFoldSet, Summing, Pick
  <1>2. IsFiniteSet(R)
    BY FS_Subset
  <1>3. Summing(f, S, I(S)) /\ Summing(f, R, I(R))
    BY <1>2, SummingExists
  <1> HIDE DEF I
  <1>4. I(S)[S] = IF S = {} THEN 0 ELSE f[Pick(S)] + I(S)[R]
    BY <1>3 DEF Summing
  <1>5. I(S)[R] = I(R)[R]
    <2>1. R \in SUBSET (S \cap R)
      OBVIOUS
    <2> HIDE DEF R
    <2> QED BY <1>3, <2>1, SummingUnique
  <1>6. QED BY <1>1, <1>4, <1>5

\* A sum of integers is one, and not negative if none of them is.
LEMMA SumTyped ==
    ASSUME NEW f, NEW S, IsFiniteSet(S), \A x \in S : f[x] \in Int
    PROVE  /\ SumFunctionOnSet(f, S) \in Int
           /\ (\A x \in S : f[x] >= 0) => SumFunctionOnSet(f, S) >= 0
  <1> DEFINE Good(s) == /\ SumFunctionOnSet(f, s) \in Int
                        /\ (\A x \in S : f[x] >= 0) => SumFunctionOnSet(f, s) >= 0
             T == {s \in SUBSET S : ~ Good(s)}
  <1> SUFFICES ASSUME T # {} PROVE FALSE
    OBVIOUS
  <1>1. PICK s \in T : \A t \in T : t \subseteq s => t = s
    <2>1. T \subseteq SUBSET S
      OBVIOUS
    <2> HIDE DEF T
    <2> QED BY <2>1, LeastSubset
  <1>2. IsFiniteSet(s)
    BY FS_Subset
  <1>3. SumFunctionOnSet(f, s) =
          IF s = {} THEN 0 ELSE f[Pick(s)] + SumFunctionOnSet(f, s \ {Pick(s)})
    BY <1>2, SumStep
  <1>4. s # {} => Pick(s) \in s
    BY DEF Pick
  <1>5. s # {} => Good(s \ {Pick(s)})
    BY <1>1, <1>4
  <1>6. QED BY <1>3, <1>4, <1>5

\* Any of the terms may be taken out of a sum, not only the one chosen first.
LEMMA SumTakesOut ==
    ASSUME NEW f, NEW S, IsFiniteSet(S), \A x \in S : f[x] \in Int, NEW y \in S
    PROVE  SumFunctionOnSet(f, S) = f[y] + SumFunctionOnSet(f, S \ {y})
  <1> DEFINE Sum(s) == SumFunctionOnSet(f, s)
             Good(s) == \A x \in s : Sum(s) = f[x] + Sum(s \ {x})
             T == {s \in SUBSET S : ~ Good(s)}
  <1> SUFFICES ASSUME T # {} PROVE FALSE
    OBVIOUS
  <1>1. PICK s \in T : \A t \in T : t \subseteq s => t = s
    <2>1. T \subseteq SUBSET S
      OBVIOUS
    <2> HIDE DEF T
    <2> QED BY <2>1, LeastSubset
  <1>2. PICK x \in s : Sum(s) # f[x] + Sum(s \ {x})
    OBVIOUS
  <1>3. /\ IsFiniteSet(s) /\ IsFiniteSet(s \ {x})
        /\ Pick(s) \in s
    BY FS_Subset DEF Pick
  <1> DEFINE p == Pick(s)
  <1>4. Sum(s) = f[p] + Sum(s \ {p})
    BY <1>3, SumStep
  <1> HIDE DEF Sum
  <1>5. Sum(s \ {p}) = f[x] + Sum((s \ {p}) \ {x})
    <2>1. Good(s \ {p})
      BY <1>1, <1>3
    <2> QED BY <1>2, <1>4, <2>1
  <1>6. Sum(s \ {x}) = f[p] + Sum((s \ {x}) \ {p})
    <2>1. Good(s \ {x})
      BY <1>1, <1>3
    <2>2. p \in s \ {x}
      BY <1>2, <1>3, <1>4
    <2> QED BY <2>1, <2>2
  <1>7. Sum((s \ {p}) \ {x}) = Sum((s \ {x}) \ {p})
    <2>1. (s \ {p}) \ {x} = (s \ {x}) \ {p}
      OBVIOUS
    <2> QED BY <2>1
  <1>8. Sum((s \ {p}) \ {x}) \in Int /\ f[x] \in Int /\ f[p] \in Int
    <2>1. IsFiniteSet((s \ {p}) \ {x}) /\ \A z \in (s \ {p}) \ {x} : f[z] \in Int
      BY FS_Subset
    <2> QED BY <1>3, <2>1, SumTyped DEF Sum
  <1> HIDE DEF p
  <1>9. QED BY <1>2, <1>4, <1>5, <1>6, <1>7, <1>8

\* A sum of no terms.
LEMMA SumOfNone == ASSUME NEW f PROVE SumFunctionOnSet(f, {}) = 0
  BY SumStep, FS_EmptySet

\* A sum of one term.
LEMMA SumOfOne ==
    ASSUME NEW f, NEW x, f[x] \in Int PROVE SumFunctionOnSet(f, {x}) = f[x]
  <1>1. IsFiniteSet({x}) /\ {x} \ {x} = {}
    BY FS_Singleton
  <1>2. SumFunctionOnSet(f, {x}) = f[x] + SumFunctionOnSet(f, {x} \ {x})
    BY <1>1, SumTakesOut
  <1> QED BY <1>1, <1>2, SumOfNone

\* A sum of two terms.
LEMMA SumOfTwo ==
    ASSUME NEW f, NEW x, NEW y, x # y, f[x] \in Int, f[y] \in Int
    PROVE  SumFunctionOnSet(f, {x, y}) = f[x] + f[y]
  <1>1. IsFiniteSet({x, y}) /\ {x, y} \ {x} = {y}
    <2>1. IsFiniteSet({x} \cup {y}) /\ {x} \cup {y} = {x, y}
      BY FS_Singleton, FS_AddElement
    <2> QED BY <2>1
  <1>2. SumFunctionOnSet(f, {x, y}) = f[x] + SumFunctionOnSet(f, {x, y} \ {x})
    BY <1>1, SumTakesOut
  <1> QED BY <1>1, <1>2, SumOfOne

\* A sum of smaller terms, over some of the indexes, is no greater.
LEMMA SumAtMost ==
    ASSUME NEW f, NEW g, NEW S, IsFiniteSet(S), NEW A, A \subseteq S,
           \A x \in S : g[x] \in Int /\ g[x] >= 0,
           \A x \in A : f[x] \in Int /\ f[x] <= g[x]
    PROVE  SumFunctionOnSet(f, A) <= SumFunctionOnSet(g, S)
  <1> DEFINE Good(s) == SumFunctionOnSet(f, A \cap s) <= SumFunctionOnSet(g, s)
             T == {s \in SUBSET S : ~ Good(s)}
  <1> SUFFICES ASSUME T # {} PROVE FALSE
    <2>1. A \cap S = A
      OBVIOUS
    <2> QED BY <2>1
  <1>1. PICK s \in T : \A t \in T : t \subseteq s => t = s
    <2>1. T \subseteq SUBSET S
      OBVIOUS
    <2> HIDE DEF T
    <2> QED BY <2>1, LeastSubset
  <1>2. IsFiniteSet(s) /\ IsFiniteSet(A \cap s) /\ s \subseteq S
    BY FS_Subset
  <1>3. s # {}
    <2>1. ASSUME s = {} PROVE SumFunctionOnSet(f, A \cap s) = 0 /\ SumFunctionOnSet(g, s) = 0
      <3>1. A \cap s = {}
        BY <2>1
      <3> QED BY <1>2, <2>1, <3>1, SumStep
    <2> QED BY <2>1
  <1>4. PICK p \in s : TRUE
    BY <1>3
  <1> DEFINE r == s \ {p}
  <1>5. Good(r)
    BY <1>1, <1>4
  <1>6. /\ SumFunctionOnSet(g, s) = g[p] + SumFunctionOnSet(g, r)
        /\ SumFunctionOnSet(g, r) \in Int /\ g[p] \in Int /\ g[p] >= 0
    <2>1. IsFiniteSet(r) /\ r \subseteq S
      BY <1>2, FS_Subset
    <2>2. SumFunctionOnSet(g, s) = g[p] + SumFunctionOnSet(g, s \ {p})
      BY <1>2, SumTakesOut
    <2>3. SumFunctionOnSet(g, r) \in Int
      BY <2>1, SumTyped
    <2>4. g[p] \in Int /\ g[p] >= 0
      BY <1>2
    <2> QED BY <2>2, <2>3, <2>4
  <1>7. CASE p \in A
    <2>1. (A \cap s) \ {p} = A \cap r
      OBVIOUS
    <2>2. IsFiniteSet(A \cap r)
      BY <1>2, FS_Subset
    <2>3. SumFunctionOnSet(f, A \cap s) = f[p] + SumFunctionOnSet(f, (A \cap s) \ {p})
      BY <1>2, <1>7, SumTakesOut
    <2>4. SumFunctionOnSet(f, A \cap r) \in Int /\ f[p] \in Int /\ f[p] <= g[p]
      BY <1>7, <2>2, SumTyped
    <2> HIDE DEF r
    <2>5. Good(s)
      BY <1>5, <1>6, <2>1, <2>3, <2>4
    <2> QED BY <1>1, <2>5
  <1>8. CASE p \notin A
    <2>1. A \cap s = A \cap r
      BY <1>8
    <2>2. IsFiniteSet(A \cap r)
      BY <1>2, FS_Subset
    <2>3. SumFunctionOnSet(f, A \cap r) \in Int
      BY <2>2, SumTyped
    <2>4. SumFunctionOnSet(f, A \cap s) = SumFunctionOnSet(f, A \cap r)
      BY <2>1, Zenon
    <2> HIDE DEF r
    <2>5. Good(s)
      BY <1>5, <1>6, <2>3, <2>4
    <2> QED BY <1>1, <2>5
  <1> QED BY <1>7, <1>8

-----------------------------------------------------------------------------
\* Rounding.

\* Integer division by a positive number.
LEMMA DivBounds ==
    ASSUME NEW a \in Int, NEW b \in Nat, b > 0
    PROVE  a \div b \in Int /\ b * (a \div b) <= a /\ a < b * (a \div b) + b
  OBVIOUS

\* Multiplication by a natural number is monotone.
LEMMA Monotone ==
    ASSUME NEW x \in Int, NEW y \in Int, NEW b \in Nat, b > 0
    PROVE  /\ x <= y => b * x <= b * y
           /\ x < y => b * x + b <= b * y
  OBVIOUS

\* Bounds on a quotient from bounds on its numerator.
LEMMA DivAtMost ==
    ASSUME NEW a \in Int, NEW b \in Nat, b > 0, NEW k \in Int, a < b * (k + 1)
    PROVE  a \div b <= k
  <1>1. ~(k < a \div b)
    BY DivBounds, Monotone
  <1> QED BY <1>1, DivBounds

\* The other way round.
LEMMA DivAtLeast ==
    ASSUME NEW a \in Int, NEW b \in Nat, b > 0, NEW k \in Int, b * k <= a
    PROVE  k <= a \div b
  <1>1. a \div b < k => b * (a \div b) + b <= b * k
    BY DivBounds, Monotone
  <1> QED BY <1>1, DivBounds

\* The nearest integer is within half a unit.
LEMMA QuotientNearest ==
    ASSUME NEW a \in Int, NEW b \in Nat, b > 0
    PROVE  /\ Quotient(a, b) \in Int
           /\ a >= 0 => Quotient(a, b) >= 0
           /\ 2 * (b * Quotient(a, b)) <= 2 * a + b
           /\ 2 * a <= 2 * (b * Quotient(a, b)) + b
  <1> DEFINE h == b \div 2
             q == (a + h) \div b
  <1>1. h \in Nat /\ 2 * h <= b /\ b <= 2 * h + 1
    OBVIOUS
  <1> HIDE DEF h
  <1>2. q \in Int /\ b * q <= a + h /\ a + h < b * q + b
    <2>1. a + h \in Int
      BY <1>1
    <2> QED BY <2>1, DivBounds
  <1>3. a >= 0 => 0 <= q
    BY <1>1, DivAtLeast
  <1> HIDE DEF q
  <1>4. b * q \in Int
    BY <1>2
  <1> QED BY <1>1, <1>2, <1>3, <1>4 DEF Quotient, q, h

-----------------------------------------------------------------------------
\* Sorting.

\* The order Ranked sorts by, and the place it gives to the item at i.
Before(key, i, j) == key[i] > key[j] \/ (key[i] = key[j] /\ i < j)
Place(key, D, i) == 1 + Cardinality({j \in D : Before(key, j, i)})

\* What comes before an item has a smaller place.
LEMMA EarlierPlace ==
    ASSUME NEW D, D \subseteq Int, IsFiniteSet(D), NEW key \in [D -> Int],
           NEW i \in D, NEW j \in D, Before(key, i, j)
    PROVE  Place(key, D, i) < Place(key, D, j)
  <1> DEFINE Bi == {k \in D : Before(key, k, i)}
             Bj == {k \in D : Before(key, k, j)}
  <1>1. IsFiniteSet(Bi) /\ IsFiniteSet(Bj)
    BY FS_Subset
  <1>2. Bi \subseteq Bj \ {i} /\ i \in Bj
    <2>1. key[i] \in Int /\ key[j] \in Int /\ i \in Int /\ j \in Int
      OBVIOUS
    <2>2. ASSUME NEW k \in D, Before(key, k, i) PROVE Before(key, k, j) /\ k # i
      <3>1. key[k] \in Int /\ k \in Int
        OBVIOUS
      <3> QED BY <2>1, <2>2, <3>1 DEF Before
    <2> QED BY <2>2
  <1> HIDE DEF Bi, Bj
  <1>3. IsFiniteSet(Bj \ {i}) /\ Cardinality(Bj \ {i}) = Cardinality(Bj) - 1
    BY <1>1, <1>2, FS_RemoveElement
  <1>4. Cardinality(Bi) <= Cardinality(Bj \ {i})
    BY <1>2, <1>3, FS_Subset
  <1>5. Cardinality(Bi) \in Nat /\ Cardinality(Bj) \in Nat
    BY <1>1, FS_CardinalityType
  <1> QED BY <1>3, <1>4, <1>5 DEF Place, Bi, Bj

\* The places are those from 1 to the number of items, each taken.
LEMMA EveryPlace ==
    ASSUME NEW D, D \subseteq Int, IsFiniteSet(D), NEW key \in [D -> Int]
    PROVE  /\ Cardinality(D) \in Nat
           /\ \A k \in 1..Cardinality(D) : \E i \in D : Place(key, D, i) = k
  <1> DEFINE n == Cardinality(D)
             place == [i \in D |-> Place(key, D, i)]
  <1>1. n \in Nat
    BY FS_CardinalityType
  <1>2. ASSUME NEW i \in D PROVE Place(key, D, i) \in 1..n
    <2> DEFINE B == {j \in D : Before(key, j, i)}
    <2>1. B \subseteq D \ {i}
      BY DEF Before
    <2>2. IsFiniteSet(D \ {i}) /\ Cardinality(D \ {i}) = n - 1
      BY FS_RemoveElement
    <2> HIDE DEF B
    <2>3. IsFiniteSet(B) /\ Cardinality(B) <= Cardinality(D \ {i})
      BY <2>1, <2>2, FS_Subset
    <2>4. Cardinality(B) \in Nat /\ Cardinality(B) <= n - 1
      BY <2>2, <2>3, FS_CardinalityType
    <2> QED BY <1>1, <2>4 DEF Place, B
  <1>3. ASSUME NEW i \in D, NEW j \in D, Place(key, D, i) = Place(key, D, j) PROVE i = j
    <2>1. Place(key, D, i) \in Int
      BY <1>1, <1>2
    <2>2. ~ (Place(key, D, i) < Place(key, D, j)) /\ ~ (Place(key, D, j) < Place(key, D, i))
      BY <1>3, <2>1
    <2>3. ~ Before(key, i, j) /\ ~ Before(key, j, i)
      BY <2>2, EarlierPlace
    <2> QED BY <2>3 DEF Before
  <1>4. place \in Injection(D, 1..n)
    BY <1>2, <1>3 DEF Injection, IsInjective
  <1>5. IsFiniteSet(1..n) /\ Cardinality(1..n) = n
    BY <1>1, FS_Interval
  <1> HIDE DEF place
  <1>6. place \in Surjection(D, 1..n)
    BY <1>4, <1>5, FS_Injection
  <1> QED BY <1>1, <1>6 DEF Surjection, place

\* A ranking holds the items, each at its place, and begins with one of the highest key.
LEMMA RankedItems ==
    ASSUME NEW items, DOMAIN items \subseteq Int, IsFiniteSet(DOMAIN items),
           NEW key \in [DOMAIN items -> Int]
    PROVE  /\ Cardinality(DOMAIN items) \in Nat
           /\ DOMAIN Ranked(items, key) = 1..Cardinality(DOMAIN items)
           /\ Ranked(items, key) # <<>> => 1 \in DOMAIN Ranked(items, key)
           /\ \A k \in DOMAIN Ranked(items, key) :
                 \E i \in DOMAIN items : Ranked(items, key)[k] = items[i]
           /\ Ranked(items, key) # <<>> =>
                 \E i \in DOMAIN items : /\ Ranked(items, key)[1] = items[i]
                                         /\ \A j \in DOMAIN items : key[j] <= key[i]
  <1> DEFINE D == DOMAIN items
             n == Cardinality(D)
             at(k) == CHOOSE i \in D : Place(key, D, i) = k
  <1>1. Ranked(items, key) = [k \in 1..n |-> items[at(k)]]
    BY DEF Ranked, Place, Before
  <1>2. n \in Nat /\ \A k \in 1..n : at(k) \in D /\ Place(key, D, at(k)) = k
    BY EveryPlace
  <1> HIDE DEF at, n
  <1>3. DOMAIN Ranked(items, key) = 1..n
    BY <1>1
  <1>4. Ranked(items, key) # <<>> => 1 \in 1..n
    <2>1. n = 0 => Ranked(items, key) = <<>>
      BY <1>1
    <2> QED BY <1>2, <2>1
  <1>5. ASSUME 1 \in 1..n, NEW j \in D PROVE key[j] <= key[at(1)]
    <2> DEFINE B == {i \in D : Before(key, i, at(1))}
    <2>1. IsFiniteSet(B) /\ Cardinality(B) \in Nat
      BY FS_Subset, FS_CardinalityType
    <2>2. Place(key, D, at(1)) = 1 /\ at(1) \in D
      BY <1>2, <1>5
    <2>3. Cardinality(B) = 0
      BY <2>1, <2>2 DEF Place
    <2>4. B = {}
      <3> HIDE DEF B
      <3> QED BY <2>1, <2>3, FS_EmptySet
    <2>5. ~ Before(key, j, at(1))
      BY <2>4
    <2> QED BY <2>2, <2>5 DEF Before
  <1> QED
    <2>1. \A k \in 1..n : at(k) \in D /\ Ranked(items, key)[k] = items[at(k)]
      BY <1>1, <1>2
    <2> HIDE DEF D
    <2> QED BY <1>2, <1>3, <1>4, <1>5, <2>1 DEF D, n

\* A nonempty set of indexes has a last one.
Above(S, i) == {j \in S : j > i}

\* Of the indexes in a set, one has a least set of greater ones...
LEMMA LeastAbove ==
    ASSUME NEW S, IsFiniteSet(S), S # {}
    PROVE  \E i \in S : \A j \in S : Above(S, j) \subseteq Above(S, i) => Above(S, j) = Above(S, i)
  <1> DEFINE T == {Above(S, i) : i \in S}
  <1>1. PICK s \in T : \A t \in T : t \subseteq s => t = s
    <2>1. T \subseteq SUBSET S /\ T # {}
      BY DEF Above
    <2> HIDE DEF T
    <2> QED BY <2>1, LeastSubset
  <1> QED BY <1>1

\* ...which is empty: a nonempty finite set of indexes has a last one.
LEMMA LastIndex ==
    ASSUME NEW S, S \subseteq Int, IsFiniteSet(S), S # {}
    PROVE  \E i \in S : \A j \in S : j <= i
  <1>1. PICK i \in S : \A j \in S :
                Above(S, j) \subseteq Above(S, i) => Above(S, j) = Above(S, i)
    BY LeastAbove
  <1>2. ASSUME NEW j \in S, ~ (j <= i) PROVE FALSE
    <2>1. i \in Int /\ j \in Int /\ j > i /\ ~ (j > j)
      BY <1>2
    <2>2. j \in Above(S, i) /\ j \notin Above(S, j)
      BY <2>1 DEF Above
    <2>3. ASSUME NEW k \in Above(S, j) PROVE k \in Above(S, i)
      <3>1. k \in S /\ k \in Int /\ k > j
        BY DEF Above
      <3>2. k > i
        BY <2>1, <3>1
      <3> QED BY <3>1, <3>2 DEF Above
    <2> QED BY <1>1, <2>2, <2>3
  <1> QED BY <1>2

\* The indexes of a sequence.
LEMMA IndexesFinite == ASSUME NEW S, NEW q \in Seq(S), NEW D, D \subseteq DOMAIN q
    PROVE IsFiniteSet(D) /\ D \subseteq Int
  <1>1. DOMAIN q = 1..Len(q) /\ Len(q) \in Nat
    OBVIOUS
  <1>2. IsFiniteSet(1..Len(q))
    BY <1>1, FS_Interval
  <1> QED BY <1>1, <1>2, FS_Subset

-----------------------------------------------------------------------------
\* Signals and recommendations.

\* What BUYs and HOLDs the pipeline recommends are worth: a BUY is at least even,
\* a HOLD no surer than the least signal with the sentiment added.
Sound(rec) ==
    /\ rec \in RecommendationType /\ rec.symbol \in DOMAIN Markets
    /\ rec.action = "BUY" => rec.confidence >= 5000
    /\ rec.action = "HOLD" => rec.confidence <= 5700

\* The momentum strategy holds on a change of at most one percent, hence at the least confidence.
LEMMA ScanSound ==
    ASSUME NEW m, m.closes \in Seq(Nat), Scan(m) # <<>>
    PROVE  /\ DOMAIN Scan(m) = {1}
           /\ Scan(m)[1].action \in {"BUY", "SELL", "HOLD"}
           /\ Scan(m)[1].confidence \in Nat
           /\ Scan(m)[1].action = "HOLD" => Scan(m)[1].confidence <= 5200
  <1> DEFINE closes == LastCloses(m)
             first == closes[1]
             change == closes[Len(closes)] - first
             base == AtLeast(first, 100)
             moved == 8 * One * Distance(change)
             raw == Quotient(moved, base)
             action == CASE 100 * change > base  -> "BUY"
                         [] 100 * change < -base -> "SELL"
                         [] OTHER                -> "HOLD"
  <1>1. closes \in Seq(Nat) /\ ~ (Len(closes) < 2)
    <2>1. Len(m.closes) \in Nat
      OBVIOUS
    <2>2. closes \in Seq(Nat)
      BY <2>1, SubSeqProperties DEF LastCloses, AtLeast
    <2> QED BY <2>2 DEF Scan
  <1>2. first \in Nat /\ closes[Len(closes)] \in Nat
    <2> HIDE DEF closes
    <2> QED BY <1>1
  <1> HIDE DEF closes
  <1>3. change \in Int /\ base \in Nat /\ base > 0
    BY <1>2 DEF AtLeast
  <1> HIDE DEF first, change, base
  <1>4. Distance(change) \in Nat /\ Distance(change) \in {change, -change}
    BY <1>3 DEF Distance, AtLeast
  <1>5. /\ moved \in Int /\ moved >= 0
        /\ raw \in Int /\ raw >= 0 /\ 2 * (base * raw) <= 2 * moved + base
    <2>1. moved \in Int /\ moved >= 0
      BY <1>4 DEF One
    <2> HIDE DEF moved
    <2> QED BY <1>3, <2>1, QuotientNearest
  <1> HIDE DEF raw
  <1>6. action = "HOLD" => raw <= 5200
    <2> SUFFICES ASSUME action = "HOLD" PROVE raw <= 5200
      OBVIOUS
    <2>1. 100 * Distance(change) <= base
      BY <1>3, <1>4
    <2>2. moved <= 800 * base
      BY <1>3, <1>4, <2>1 DEF One
    <2> HIDE DEF moved
    <2>3. base * raw \in Int
      BY <1>3, <1>5
    <2>4. 5201 <= raw => base * 5201 <= base * raw
      <3>1. \A k \in Nat : k <= raw => base * k <= base * raw
        BY <1>3, <1>5, Monotone
      <3> QED BY <3>1
    <2> QED BY <1>3, <1>5, <2>2, <2>3, <2>4
  <1> HIDE DEF action
  <1>7. Scan(m) = <<[action |-> action, confidence |-> Clamp(raw, 5200, 9000)]>>
    BY <1>1 DEF Scan, closes, first, change, base, moved, raw, action
  <1>8. action \in {"BUY", "SELL", "HOLD"}
    BY DEF action
  <1>9. Clamp(raw, 5200, 9000) \in Nat /\ (action = "HOLD" => Clamp(raw, 5200, 9000) <= 5200)
    BY <1>5, <1>6 DEF Clamp, AtMost, AtLeast
  <1> QED BY <1>7, <1>8, <1>9

\* What the pipeline answers for a market of the planner's is sound.
LEMMA AnalyzeSound ==
    ASSUME NEW s \in DOMAIN Markets, NEW m \in Markets[s], Analyze(s, m) # <<>>
    PROVE  /\ Analyze(s, m) \in Seq(RecommendationType) /\ Len(Analyze(s, m)) = 1
           /\ Sound(Analyze(s, m)[1])
  <1>1. s \in STRING /\ m.price \in Nat /\ m.closes \in Seq(Nat)
    BY PlannerAssumption
  <1>2. Scan(m) # <<>>
    BY DEF Analyze
  <1> DEFINE signal == Scan(m)[1]
             adjusted == Adjusted(signal, m)
             rec == Recommendation(s, adjusted, m)
  <1>3. /\ signal.action \in {"BUY", "SELL", "HOLD"} /\ signal.confidence \in Nat
        /\ signal.action = "HOLD" => signal.confidence <= 5200
        /\ DOMAIN Scan(m) = {1}
    BY <1>1, <1>2, ScanSound
  <1> HIDE DEF signal
  <1>4. /\ adjusted.action \in {"BUY", "SELL", "HOLD"}
        /\ adjusted.confidence \in Nat
        /\ adjusted.action = "BUY" => adjusted.confidence >= 5000
        /\ adjusted.action = "HOLD" => adjusted.confidence <= 5700
    BY <1>3 DEF Adjusted, Clamp, AtMost, AtLeast
  <1> HIDE DEF adjusted
  <1>5. /\ Quotient(m.price * (IF adjusted.action = "BUY" THEN 105 ELSE 95), 100) \in Nat
        /\ Quotient(m.price * (IF adjusted.action = "BUY" THEN 97 ELSE 103), 100) \in Nat
    <2>1. \A y \in Nat : Quotient(y, 100) \in Nat
      BY DEF Quotient
    <2>2. \A x \in Nat : m.price * x \in Nat
      BY <1>1
    <2> QED BY <2>1, <2>2
  <1>6. Sound(rec)
    BY <1>1, <1>4, <1>5 DEF Sound, Recommendation, RecommendationType
  <1> HIDE DEF rec
  <1>7. Analyze(s, m) = [i \in {1} |-> rec]
    BY <1>3 DEF Analyze, rec, adjusted, signal
  <1>8. Analyze(s, m) = <<rec>>
    BY <1>7
  <1> QED BY <1>6, <1>8 DEF Sound

-----------------------------------------------------------------------------
\* The chain of risk policies.

\* The eight built-in policies answer verdicts on what the pipeline makes of
\* any market.
LEMMA BuiltInTyped ==
    ASSUME NEW s, NEW m, m.price \in Nat, MaxCapital \in Nat, Analyze(s, m) # <<>>
    PROVE  BuiltInVerdicts(Analyze(s, m)[1], DefaultPortfolio, m) \in Seq(Verdict)
  <1> DEFINE rec == Analyze(s, m)[1]
  <1>1. rec.entry \in Nat
    <2>1. 1 \in DOMAIN Scan(m)
      BY DEF Scan, Analyze
    <2> QED BY <2>1 DEF Analyze, Recommendation
  <1>2. MaxCapitalPerTradePolicy(rec) \in Verdict
    <2> HIDE DEF rec
    <2>1. AtLeast(rec.entry, 100) \in Nat \ {0}
      BY <1>1 DEF AtLeast
    <2>2. (100 * MaxCapital) \div AtLeast(rec.entry, 100) \in Int
      BY <2>1
    <2>3. AtLeast((100 * MaxCapital) \div AtLeast(rec.entry, 100), 1) \in Nat
      BY <2>2 DEF AtLeast
    <2> QED BY <2>3 DEF MaxCapitalPerTradePolicy, Verdict, Decisions
  <1>3. ASSUME NEW condition PROVE Rejecting(condition) \in Verdict
    BY DEF Rejecting, Verdict, Decisions, NoSize
  <1> HIDE DEF rec
  <1>4. /\ MinConfidencePolicy(rec) \in Verdict
        /\ MaxPositionsPolicy(rec, DefaultPortfolio) \in Verdict
        /\ MaxDailyLossPolicy(DefaultPortfolio) \in Verdict
        /\ MaxSymbolExposurePolicy(rec, DefaultPortfolio) \in Verdict
        /\ RestrictedSymbolsPolicy(rec) \in Verdict
        /\ LiquidityPolicy(m) \in Verdict
        /\ SpreadPolicy(m) \in Verdict
    BY <1>3 DEF MinConfidencePolicy, MaxPositionsPolicy, MaxDailyLossPolicy,
                MaxSymbolExposurePolicy, RestrictedSymbolsPolicy, LiquidityPolicy, SpreadPolicy
  <1> QED BY <1>2, <1>4 DEF BuiltInVerdicts, rec

\* The loop invariant: the decision so far is the strictest of those checked.
ChainInv ==
    /\ ChainTypeOK
    /\ chain.checked <= Len(chain.verdicts)
    /\ chain.decision = "REJECTED" <=>
         \E i \in 1..chain.checked : chain.verdicts[i].decision = "REJECTED"
    /\ chain.decision = "APPROVED" <=>
         \A i \in 1..chain.checked : chain.verdicts[i].decision = "APPROVED"

\* An evaluation begins with it.
LEMMA FreshInv ==
    ASSUME NEW verdicts \in Seq(Verdict), chain' = Fresh(verdicts)
    PROVE  ChainInv'
  <1>1. chain' = [verdicts |-> verdicts, checked |-> 0, decision |-> "APPROVED", size |-> 0]
    BY DEF Fresh, NoSize
  <1>2. Len(verdicts) \in Nat /\ 1..0 = {}
    OBVIOUS
  <1>3. ChainTypeOK'
    BY <1>1 DEF ChainTypeOK, Decisions
  <1> QED BY <1>1, <1>2, <1>3 DEF ChainInv

\* One more policy keeps it.
LEMMA CheckKeeps == ASSUME ChainInv, CheckPolicy PROVE ChainInv'
  <1> DEFINE v == chain.verdicts[chain.checked + 1]
  <1>1. /\ chain.verdicts \in Seq(Verdict) /\ chain.checked \in Nat /\ chain.decision \in Decisions
        /\ chain.size \in Nat
        /\ chain.checked + 1 \in 1..Len(chain.verdicts)
        /\ chain.decision # "REJECTED"
    BY DEF ChainInv, ChainTypeOK, CheckPolicy, ChainEnded
  <1>2. v \in Verdict /\ v.decision \in Decisions /\ v.size \in Nat
    <2>1. v \in Verdict
      <3> HIDE DEF Verdict
      <3> QED BY <1>1
    <2> QED BY <2>1 DEF Verdict
  <1>3. chain' = [chain EXCEPT !.checked = @ + 1,
                               !.decision = Combined(@, v.decision),
                               !.size = IF v.size # NoSize THEN v.size ELSE @]
    BY DEF CheckPolicy
  <1>4. /\ chain'.checked = chain.checked + 1 /\ chain'.verdicts = chain.verdicts
        /\ chain'.decision = Combined(chain.decision, v.decision)
        /\ ChainTypeOK'
    <2> HIDE DEF v
    <2> HIDE DEF Verdict
    <2>1. chain \in [verdicts : Seq(Verdict), checked : Nat, decision : Decisions, size : Nat]
      BY DEF ChainInv, ChainTypeOK
    <2>2. Combined(chain.decision, v.decision) \in Decisions /\ chain.checked + 1 \in Nat
      BY <1>1, <1>2 DEF Combined
    <2>3. (IF v.size # NoSize THEN v.size ELSE chain.size) \in Nat
      BY <1>1, <1>2
    <2> HIDE DEF Decisions
    <2>4. /\ chain'.checked = chain.checked + 1 /\ chain'.verdicts = chain.verdicts
          /\ chain'.decision = Combined(chain.decision, v.decision)
      BY <1>3, <2>1
    <2>5. chain' \in [verdicts : Seq(Verdict), checked : Nat, decision : Decisions, size : Nat]
      BY <1>3, <2>1, <2>2, <2>3
    <2> QED BY <2>4, <2>5 DEF ChainTypeOK
  <1> HIDE DEF v
  <1>5. 1..chain'.checked = (1..chain.checked) \cup {chain.checked + 1}
    BY <1>1, <1>4
  <1>6. chain'.decision = "REJECTED" <=>
          \E i \in 1..chain'.checked : chain'.verdicts[i].decision = "REJECTED"
    BY <1>1, <1>2, <1>4, <1>5 DEF ChainInv, Combined, Decisions, v
  <1>7. chain'.decision = "APPROVED" <=>
          \A i \in 1..chain'.checked : chain'.verdicts[i].decision = "APPROVED"
    BY <1>1, <1>2, <1>4, <1>5 DEF ChainInv, Combined, Decisions, v
  <1> QED BY <1>1, <1>4, <1>6, <1>7 DEF ChainInv

\* When the loop ends, it decides on the whole list.
LEMMA ChainInvDecides == ChainInv => ChainVerdict
  <1> SUFFICES ASSUME ChainInv, ChainEnded PROVE
                      /\ chain.decision = "REJECTED" <=> Given("REJECTED")
                      /\ chain.decision = "APPROVED" <=> ~(Given("REJECTED") \/ Given("REVIEW"))
    BY DEF ChainVerdict
  <1>1. /\ chain.verdicts \in Seq(Verdict) /\ chain.checked \in Nat
        /\ chain.checked <= Len(chain.verdicts) /\ Len(chain.verdicts) \in Nat
    BY DEF ChainInv, ChainTypeOK
  <1>2. ASSUME NEW i \in 1..Len(chain.verdicts)
        PROVE  chain.verdicts[i].decision \in {"APPROVED", "REVIEW", "REJECTED"}
    <2>1. chain.verdicts[i] \in Verdict
      <3> HIDE DEF Verdict
      <3> QED BY <1>1
    <2> QED BY <2>1 DEF Verdict, Decisions
  <1>3. 1..chain.checked \subseteq 1..Len(chain.verdicts)
    BY <1>1
  <1>4. CASE chain.decision = "REJECTED"
    BY <1>3, <1>4 DEF ChainInv, Given
  <1>5. CASE chain.decision # "REJECTED"
    <2>1. chain.checked = Len(chain.verdicts)
      BY <1>5 DEF ChainEnded
    <2> QED BY <1>2, <1>5, <2>1 DEF ChainInv, Given
  <1> QED BY <1>4, <1>5

-----------------------------------------------------------------------------
\* The invariant.

\* What the planner holds is typed; the evaluation's type is ChainInv's.
StateTyped ==
    /\ known \in SUBSET Finding
    /\ made \in Nat /\ cleared \in 0..made
    /\ lots \in Seq(Lot)
    /\ job \in JobType \cup {Nothing}

\* Every recommendation the planner has in its hands is the pipeline's.
SoundInv ==
    /\ \A e \in known : Sound(e.rec)
    /\ Evaluating => Len(job.rec) = 1 /\ Sound(job.rec[1])
    /\ Running => \A i \in DOMAIN job.found : Sound(job.found[i].rec)

\* Ids are given once, and the runtime lacks nothing that a request found but what was cleared.
IdInv ==
    /\ \A e \in known : e.id \in (cleared + 1)..made
    /\ \A e, f \in known : e.id = f.id => e = f
    /\ Evaluating => /\ cleared < made
                     /\ \A e \in known : e.id < made
    /\ Running => \A i \in DOMAIN job.found :
                    /\ job.found[i].id \in 1..made
                    /\ Evaluating => job.found[i].id < made
                    /\ job.found[i].id > cleared => job.found[i] \in known

\* A total is a sum of values, one per lot.
LEMMA TotalTyped == ASSUME NEW p \in Seq(Lot) PROVE TotalValue(p) \in Nat
  <1> DEFINE f == [i \in DOMAIN p |-> Value(p[i])]
  <1>1. IsFiniteSet(DOMAIN p)
    <2>1. DOMAIN p = 1..Len(p) /\ Len(p) \in Nat
      OBVIOUS
    <2> QED BY <2>1, FS_Interval
  <1>2. ASSUME NEW i \in DOMAIN p PROVE f[i] \in Nat
    <2>1. p[i] \in Lot
      <3> HIDE DEF Lot
      <3> QED OBVIOUS
    <2>2. p[i].quantity * p[i].price \in Nat
      BY <2>1 DEF Lot
    <2>3. \A x \in Nat : Quotient(x, 1000) \in Nat
      BY DEF Quotient
    <2> QED BY <2>2, <2>3 DEF Value
  <1>3. TotalValue(p) = SumFunctionOnSet(f, DOMAIN p)
    BY DEF TotalValue, SumFunction, SumFunctionOnSet, FoldFunction
  <1> HIDE DEF f
  <1>4. SumFunctionOnSet(f, DOMAIN p) \in Int /\ SumFunctionOnSet(f, DOMAIN p) >= 0
    BY <1>1, <1>2, SumTyped
  <1> QED BY <1>3, <1>4

\* A request starts with a budget.
LEMMA BudgetTyped ==
    ASSUME lots \in Seq(Lot), NEW b \in Nat \cup {Wallet} PROVE EffectiveBudget(b) \in Nat
  BY TotalTyped, PlannerAssumption DEF EffectiveBudget, AvailableCash, CashAfter, AtLeast

\* Every step keeps the types.
LEMMA NextKeepsTyped ==
    ASSUME StateTyped, SoundInv, ChainInv, [Next]_vars PROVE StateTyped'
  <1>1. ASSUME NEW r \in Requests, Start(r) PROVE StateTyped'
    <2>1. r.kind \in {"PLAN", "RANKING"} /\ r.budget \in Nat \cup {Wallet} /\ r.symbols \in Seq(DOMAIN Markets)
      BY PlannerAssumption
    <2>2. EffectiveBudget(r.budget) \in Nat /\ lots \in Seq(Lot)
      BY <2>1, BudgetTyped DEF StateTyped
    <2>3. job' \in JobType
      <3> HIDE DEF Lot
      <3> QED BY <1>1, <2>1, <2>2 DEF Start, JobType
    <2> QED BY <1>1, <2>3 DEF Start, StateTyped
  <1>2. ASSUME Running, job.todo # <<>>, NEW m \in Markets[Head(job.todo)], NEW own, Fetched(m, own)
        PROVE  StateTyped'
    <2> DEFINE recs == Analyze(Head(job.todo), m)
    <2>1. job \in JobType
      BY <1>2 DEF StateTyped, Running
    <2>2. Head(job.todo) \in DOMAIN Markets /\ Tail(job.todo) \in Seq(DOMAIN Markets)
      BY <1>2, <2>1, HeadTailProperties DEF JobType
    <2>3. recs \in Seq(RecommendationType)
      <3>1. <<>> \in Seq(RecommendationType)
        BY EmptySeq
      <3>2. CASE recs = <<>>
        BY <3>1, <3>2
      <3>3. CASE recs # <<>>
        BY <1>2, <2>2, <3>3, AnalyzeSound
      <3> QED BY <3>2, <3>3
    <2>4. job' = [job EXCEPT !.rec = recs, !.todo = Tail(@)] /\ made' \in {made, made + 1}
      BY <1>2 DEF Fetched
    <2> HIDE DEF recs
    <2>5. job' \in JobType
      <3> HIDE DEF Lot, RecommendationType, Finding
      <3> QED BY <2>1, <2>2, <2>3, <2>4 DEF JobType
    <2> QED BY <1>2, <2>4, <2>5 DEF Fetched, StateTyped
  <1>3. CASE Evaluated
    <2> DEFINE e == [id |-> made, rec |-> job.rec[1], decision |-> chain.decision]
    <2>1. job \in JobType
      BY <1>3 DEF StateTyped, Evaluated, Evaluating, Running
    <2>2. e \in Finding
      BY <1>3 DEF Evaluated, StateTyped, SoundInv, ChainInv, ChainTypeOK, Sound, Finding
    <2>3. job' = [job EXCEPT !.rec = <<>>, !.found = Append(@, e)] /\ known' = known \cup {e}
      BY <1>3 DEF Evaluated, Keep
    <2> HIDE DEF e
    <2>4. Append(job.found, e) \in Seq(Finding)
      <3> HIDE DEF Finding
      <3> QED BY <2>1, <2>2 DEF JobType
    <2>5. job' \in JobType
      <3>1. <<>> \in Seq(RecommendationType)
        BY EmptySeq
      <3> HIDE DEF Lot, RecommendationType, Finding
      <3> QED BY <2>1, <2>3, <2>4, <3>1 DEF JobType
    <2> QED BY <1>3, <2>2, <2>3, <2>5 DEF Evaluated, StateTyped
  <1>4. CASE job' = Nothing /\ UNCHANGED <<known, made, cleared, lots>>
    BY <1>4 DEF StateTyped
  <1>5. CASE ClearHistory
    BY <1>5 DEF ClearHistory, StateTyped
  <1>6. ASSUME NEW e \in known, NEW q \in FillSizes, Fill(e, q) PROVE StateTyped'
    <2> DEFINE lot == [symbol |-> e.rec.symbol, quantity |-> q, price |-> e.rec.entry]
    <2>1. lot \in Lot
      BY <1>6, PlannerAssumption DEF SoundInv, Sound, RecommendationType, Lot
    <2>2. lots' = Append(lots, lot) /\ lots \in Seq(Lot)
      BY <1>6 DEF Fill, StateTyped
    <2> HIDE DEF lot, Lot
    <2>3. lots' \in Seq(Lot)
      BY <2>1, <2>2
    <2> QED BY <1>6, <2>3 DEF Fill, StateTyped
  <1>7. CASE UNCHANGED <<known, made, cleared, lots, job>>
    BY <1>7 DEF StateTyped
  <1> QED
    BY <1>1, <1>2, <1>3, <1>4, <1>5, <1>6, <1>7
    DEF Next, vars, Check, FinishPlan, FinishRanking, ProviderFails

\* Every step keeps the recommendations sound: the pipeline makes them, the planner passes them on.
LEMMA NextKeepsSound ==
    ASSUME StateTyped, SoundInv, [Next]_vars PROVE SoundInv'
  <1>1. ASSUME NEW r \in Requests, Start(r) PROVE SoundInv'
    <2>1. job'.rec = <<>> /\ job'.found = <<>> /\ known' = known
      BY <1>1 DEF Start
    <2> QED BY <2>1 DEF SoundInv, Evaluating
  <1>2. ASSUME Running, job.todo # <<>>, NEW m \in Markets[Head(job.todo)], NEW own, Fetched(m, own)
        PROVE  SoundInv'
    <2> DEFINE recs == Analyze(Head(job.todo), m)
    <2>1. job \in JobType /\ Running
      BY <1>2 DEF StateTyped, Running
    <2>2. Head(job.todo) \in DOMAIN Markets
      BY <1>2, <2>1, HeadTailProperties DEF JobType
    <2>3. recs # <<>> => Len(recs) = 1 /\ Sound(recs[1])
      BY <1>2, <2>2, AnalyzeSound
    <2>4. job' = [job EXCEPT !.rec = recs, !.todo = Tail(@)] /\ known' = known
      BY <1>2 DEF Fetched
    <2> HIDE DEF recs
    <2>5. job'.rec = recs /\ job'.found = job.found
      BY <2>1, <2>4 DEF JobType
    <2> QED BY <2>1, <2>3, <2>4, <2>5 DEF SoundInv, Evaluating
  <1>3. CASE Evaluated
    <2> DEFINE e == [id |-> made, rec |-> job.rec[1], decision |-> chain.decision]
    <2>1. job \in JobType /\ Running /\ Sound(e.rec)
      BY <1>3 DEF StateTyped, SoundInv, Evaluated, Evaluating, Running
    <2>2. job' = [job EXCEPT !.rec = <<>>, !.found = Append(@, e)] /\ known' = known \cup {e}
      BY <1>3 DEF Evaluated, Keep
    <2> HIDE DEF e
    <2>3. job'.rec = <<>> /\ job'.found = Append(job.found, e) /\ job.found \in Seq(Finding)
      BY <2>1, <2>2 DEF JobType
    <2>4. \A i \in DOMAIN job'.found :
             job'.found[i] = e \/ (i \in DOMAIN job.found /\ job'.found[i] = job.found[i])
      <3> HIDE DEF Finding
      <3> QED BY <2>3
    <2> QED BY <2>1, <2>2, <2>3, <2>4 DEF SoundInv, Evaluating
  <1>4. CASE job' = Nothing /\ known' = known
    BY <1>4 DEF SoundInv, Evaluating, Running
  <1>5. CASE ClearHistory
    BY <1>5 DEF ClearHistory, SoundInv, Evaluating, Running
  <1>6. CASE UNCHANGED <<known, job>>
    BY <1>6 DEF SoundInv, Evaluating, Running
  <1> QED
    BY <1>1, <1>2, <1>3, <1>4, <1>5, <1>6
    DEF Next, vars, Check, FinishPlan, FinishRanking, ProviderFails, Fill

\* Every step keeps the ids in order.
LEMMA NextKeepsIds ==
    ASSUME StateTyped, SoundInv, IdInv, [Next]_vars PROVE IdInv'
  <1>1. ASSUME NEW r \in Requests, Start(r) PROVE IdInv'
    <2>1. job'.rec = <<>> /\ job'.found = <<>> /\ UNCHANGED <<known, made, cleared>>
      BY <1>1 DEF Start
    <2> QED BY <2>1 DEF IdInv, Evaluating
  <1>2. ASSUME NEW m, NEW own, Fetched(m, own) PROVE IdInv'
    <2> DEFINE recs == Analyze(Head(job.todo), m)
    <2>1. job \in JobType /\ Running /\ ~ Evaluating /\ made \in Nat /\ cleared \in 0..made
      BY <1>2 DEF StateTyped, Running, Fetched, Suspended
    <2>2. /\ job' = [job EXCEPT !.rec = recs, !.todo = Tail(@)]
          /\ UNCHANGED <<known, cleared>>
          /\ recs = <<>> => made' = made
          /\ recs # <<>> => made' = made + 1
      BY <1>2 DEF Fetched
    <2> HIDE DEF recs
    <2>3. job'.rec = recs /\ job'.found = job.found
      BY <2>1, <2>2 DEF JobType
    <2>4. \A e \in known : e.id \in Int /\ e.id <= made
      BY <2>1 DEF IdInv
    <2>5. \A i \in DOMAIN job.found : job.found[i].id \in Int /\ job.found[i].id <= made
      BY <2>1 DEF IdInv
    <2>6. (made' = made \/ made' = made + 1) /\ (recs # <<>> => made < made' /\ cleared < made')
      BY <2>1, <2>2
    <2>7. Evaluating' => recs # <<>>
      BY <2>3 DEF Evaluating
    <2> QED BY <2>1, <2>2, <2>3, <2>4, <2>5, <2>6, <2>7 DEF IdInv
  <1>3. CASE Evaluated
    <2> DEFINE e == [id |-> made, rec |-> job.rec[1], decision |-> chain.decision]
    <2>1. /\ job \in JobType /\ Running /\ Evaluating /\ e.id = made
          /\ made \in Nat /\ cleared \in 0..made
      BY <1>3 DEF StateTyped, Evaluated, Evaluating, Running
    <2>2. /\ job' = [job EXCEPT !.rec = <<>>, !.found = Append(@, e)] /\ known' = known \cup {e}
          /\ UNCHANGED <<made, cleared>>
      BY <1>3 DEF Evaluated, Keep
    <2> HIDE DEF e
    <2>3. job'.rec = <<>> /\ job'.found = Append(job.found, e) /\ job.found \in Seq(Finding)
      BY <2>1, <2>2 DEF JobType
    <2>4. \A i \in DOMAIN job'.found :
             job'.found[i] = e \/ (i \in DOMAIN job.found /\ job'.found[i] = job.found[i])
      <3> HIDE DEF Finding
      <3> QED BY <2>3
    <2>5. ~ Evaluating'
      BY <2>3 DEF Evaluating
    <2>6. e.id \in (cleared + 1)..made /\ \A f \in known : f.id # e.id
      BY <2>1 DEF IdInv
    <2> QED BY <2>1, <2>2, <2>4, <2>5, <2>6 DEF IdInv
  <1>4. CASE job' = Nothing /\ UNCHANGED <<known, made, cleared>>
    BY <1>4 DEF IdInv, Evaluating, Running
  <1>5. CASE ClearHistory
    <2>1. ~ Evaluating /\ ~ Evaluating' /\ (Running' => Running) /\ UNCHANGED <<made, job>>
      BY <1>5 DEF ClearHistory, Suspended, Evaluating, Running
    <2>2. known' = {} /\ cleared' = made /\ made \in Nat
      BY <1>5 DEF ClearHistory, StateTyped
    <2> QED BY <2>1, <2>2 DEF IdInv
  <1>6. CASE UNCHANGED <<known, made, cleared, job>>
    BY <1>6 DEF IdInv, Evaluating, Running
  <1> QED
    BY <1>1, <1>2, <1>3, <1>4, <1>5, <1>6
    DEF Next, vars, Check, FinishPlan, FinishRanking, ProviderFails, Fill

\* Every step of the planner keeps the loop invariant.
LEMMA NextKeepsChain == ASSUME StateTyped, ChainInv, [Next]_vars PROVE ChainInv'
  <1>1. ASSUME Running, job.todo # <<>>, NEW m \in Markets[Head(job.todo)], NEW own \in OwnVerdicts,
               Fetched(m, own)
        PROVE  ChainInv'
    <2> DEFINE symbol == Head(job.todo)
    <2>1. symbol \in DOMAIN Markets
      <3>1. job.todo \in Seq(DOMAIN Markets)
        BY <1>1 DEF StateTyped, Running, JobType
      <3> QED BY <1>1, <3>1
    <2>2. m.price \in Nat /\ MaxCapital \in Nat /\ own \in Seq(Verdict)
      BY <1>1, <2>1, PlannerAssumption
    <2>3. CASE Analyze(symbol, m) = <<>>
      <3>1. UNCHANGED chain
        BY <1>1, <2>3 DEF Fetched
      <3> QED BY <3>1 DEF ChainInv, ChainTypeOK
    <2>4. CASE Analyze(symbol, m) # <<>>
      <3> DEFINE built == BuiltInVerdicts(Analyze(symbol, m)[1], DefaultPortfolio, m)
      <3>1. built \in Seq(Verdict)
        BY <2>2, <2>4, BuiltInTyped
      <3>2. chain' = Fresh(built \o own)
        BY <1>1, <2>4 DEF Fetched, BeginChain
      <3> HIDE DEF built, Verdict
      <3>3. built \o own \in Seq(Verdict)
        BY <2>2, <3>1
      <3> QED BY <3>2, <3>3, FreshInv
    <2> QED BY <2>3, <2>4
  <1>2. CASE Check
    BY <1>2, CheckKeeps DEF Check
  <1>3. CASE Evaluated
    <2>1. chain' = Fresh(<<>>) /\ <<>> \in Seq(Verdict)
      BY <1>3 DEF Evaluated, NoChain
    <2> QED BY <2>1, FreshInv
  <1>4. CASE UNCHANGED chain
    BY <1>4 DEF ChainInv, ChainTypeOK
  <1> QED
    BY <1>1, <1>2, <1>3, <1>4
    DEF Next, vars, Start, FinishPlan, FinishRanking, ProviderFails, ClearHistory, Fill

-----------------------------------------------------------------------------
\* The candidates of a plan, and the idea it selects.

\* The value of a symbol's holding, the last lot of which counts.
LEMMA IndexedTyped ==
    ASSUME NEW p \in Seq(Lot), NEW s PROVE IndexedValue(p, s) \in Int
  <1> DEFINE mine == {i \in DOMAIN p : p[i].symbol = s}
             last == CHOOSE i \in mine : \A j \in mine : j <= i
  <1>1. CASE mine = {}
    BY <1>1 DEF IndexedValue
  <1>2. CASE mine # {}
    <2>1. IsFiniteSet(mine) /\ mine \subseteq Int
      BY IndexesFinite
    <2>2. \E i \in mine : \A j \in mine : j <= i
      <3> HIDE DEF mine
      <3> QED BY <1>2, <2>1, LastIndex
    <2>3. last \in DOMAIN p
      BY <2>2
    <2> HIDE DEF last
    <2>4. p[last] \in Lot
      <3> HIDE DEF Lot
      <3> QED BY <2>3
    <2> HIDE DEF mine
    <2>5. p[last].quantity * p[last].price \in Nat
      BY <2>4 DEF Lot
    <2>6. \A x \in Nat : Quotient(x, 1000) \in Nat
      BY DEF Quotient
    <2>7. IndexedValue(p, s) = Value(p[last])
      BY <1>2 DEF IndexedValue, last, mine
    <2>8. Quotient(p[last].quantity * p[last].price, 1000) \in Nat
      <3> DEFINE n == p[last].quantity * p[last].price
      <3>1. n \in Nat
        BY <2>5
      <3> HIDE DEF n
      <3>2. Quotient(n, 1000) \in Nat
        BY <3>1, <2>6
      <3> QED BY <3>2 DEF n
    <2>9. Value(p[last]) \in Nat
      BY <2>8 DEF Value
    <2> HIDE DEF last
    <2> QED BY <2>7, <2>9
  <1> QED BY <1>1, <1>2

\* The score of a BUY outweighs the penalty for what is already held.
LEMMA ScorePositive ==
    ASSUME NEW rec, Sound(rec), rec.action = "BUY", rec.entry > 0, NEW p \in Seq(Lot)
    PROVE  Score(rec, p) \in Nat \ {0}
  <1> DEFINE upside == AtLeast(((rec.target - rec.entry) * One) \div rec.entry, 0)
             weight == Weight(IndexedValue(p, rec.symbol), TotalValue(p))
  <1>1. rec.entry \in Nat /\ rec.target \in Nat /\ rec.confidence \in Nat /\ rec.confidence >= 5000
    BY DEF Sound, RecommendationType
  <1>2. upside \in Nat
    <2>1. ((rec.target - rec.entry) * One) \div rec.entry \in Int
      BY <1>1 DEF One
    <2> QED BY <2>1 DEF AtLeast
  <1>3. weight \in Int
    <2>1. IndexedValue(p, rec.symbol) \in Int /\ TotalValue(p) \in Nat
      BY IndexedTyped, TotalTyped
    <2>2. \A v \in Int, t \in Nat : t > 0 => (v * One) \div t \in Int
      BY DEF One
    <2> QED BY <2>1, <2>2 DEF Weight
  <1> HIDE DEF upside, weight
  <1>4. AtMost(weight, One \div 2) \in Int /\ AtMost(weight, One \div 2) <= 5000
    BY <1>3 DEF AtMost, One
  <1>5. \A x \in Int : x >= 250000 => Quotient(x, 100) \in Nat \ {0}
    BY DEF Quotient
  <1>6. 75 * rec.confidence + 20 * upside - 25 * AtMost(weight, One \div 2) >= 250000
    BY <1>1, <1>2, <1>4
  <1>7. Score(rec, p) = Quotient(75 * rec.confidence + 20 * upside
                                   - 25 * AtMost(weight, One \div 2), 100)
    BY DEF Score, upside, weight
  <1> QED BY <1>1, <1>2, <1>4, <1>5, <1>6, <1>7

\* The candidates of a plan: each an evaluation that fits, with a positive price and score.
CandidateType == [id : Nat, symbol : DOMAIN Markets, price : Nat \ {0}, score : Nat \ {0}]

\* A plan's candidates are typed, and the first is one of its findings, which fits.
LEMMA CandidatesTyped ==
    ASSUME NEW found \in Seq(Finding), \A i \in DOMAIN found : Sound(found[i].rec),
           NEW budget \in Nat, NEW p \in Seq(Lot)
    PROVE  /\ Candidates(found, budget, p) \in Seq(CandidateType)
           /\ Candidates(found, budget, p) # <<>> =>
                \E i \in DOMAIN found : /\ Fits(found[i], budget)
                                        /\ Candidates(found, budget, p)[1].id = found[i].id
  <1> DEFINE fitting == {i \in DOMAIN found : Fits(found[i], budget)}
             all == [i \in fitting |-> Candidate(found[i], p)]
             key == [i \in DOMAIN all |-> all[i].score]
             ranked == Ranked(all, key)
  <1>1. ASSUME NEW i \in fitting PROVE all[i] \in CandidateType /\ all[i].id = found[i].id
    <2>1. found[i] \in Finding /\ Sound(found[i].rec)
      <3> HIDE DEF Finding
      <3> QED OBVIOUS
    <2>2. found[i].rec.action = "BUY" /\ found[i].rec.entry > 0
      BY <2>1 DEF Fits, SuggestQuantity, Finding, RecommendationType
    <2>3. Score(found[i].rec, p) \in Nat \ {0}
      BY <2>1, <2>2, ScorePositive
    <2>4. all[i] = Candidate(found[i], p)
      OBVIOUS
    <2> QED BY <2>1, <2>2, <2>3, <2>4
            DEF Candidate, CandidateType, Sound, Finding, RecommendationType
  <1>2. DOMAIN all = fitting /\ fitting \subseteq Int /\ IsFiniteSet(fitting)
    <2>1. fitting \subseteq DOMAIN found
      OBVIOUS
    <2> QED BY <2>1, IndexesFinite
  <1> HIDE DEF all
  <1>3. key \in [DOMAIN all -> Int]
    BY <1>1, <1>2 DEF CandidateType
  <1> HIDE DEF key
  <1>4. /\ Cardinality(DOMAIN all) \in Nat
        /\ DOMAIN ranked = 1..Cardinality(DOMAIN all)
        /\ \A k \in DOMAIN ranked : \E i \in DOMAIN all : ranked[k] = all[i]
        /\ ranked # <<>> => 1 \in DOMAIN ranked
    BY <1>2, <1>3, RankedItems
  <1>5. ranked = [k \in DOMAIN ranked |-> ranked[k]]
    BY DEF Ranked
  <1>6. Candidates(found, budget, p) = ranked
    BY DEF Candidates, all, key
  <1> HIDE DEF ranked
  <1>7. ranked \in [1..Cardinality(DOMAIN all) -> CandidateType]
    <2>1. \A k \in DOMAIN ranked : ranked[k] \in CandidateType
      <3> HIDE DEF fitting, CandidateType
      <3> QED BY <1>1, <1>2, <1>4
    <2> HIDE DEF CandidateType
    <2> QED BY <1>4, <1>5, <2>1
  <1>8. ranked \in Seq(CandidateType)
    <2> HIDE DEF CandidateType
    <2> QED BY <1>4, <1>7, SeqDef
  <1>9. ranked # <<>> => \E i \in fitting : ranked[1].id = found[i].id
    BY <1>1, <1>2, <1>4
  <1> QED BY <1>6, <1>8, <1>9

\* What a request answers is computed at its end; otherwise no plan and no ranking appears.
LEMMA Answers ==
    ASSUME [Next]_vars
    PROVE  \/ answer' = answer
           \/ answer' = Nothing
           \/ Running /\ Suspended /\ answer' = Plan /\ UNCHANGED <<known, made, cleared>>
           \/ Running /\ Suspended /\ FinishRanking
  BY DEF Next, vars, Start, Fetched, Check, Evaluated, FinishPlan, FinishRanking, ProviderFails,
         ClearHistory, Fill

\* The types of the request in progress.
LEMMA JobTyped ==
    ASSUME StateTyped, Running
    PROVE  /\ job.found \in Seq(Finding) /\ job.budget \in Nat /\ job.positions \in Seq(Lot)
           /\ job.kind \in {"PLAN", "RANKING"}
  BY DEF StateTyped, Running, JobType

\* A HOLD ranks below 3700, an approved BUY above 7000.
LEMMA RankScoreBounds ==
    ASSUME NEW e, Sound(e.rec)
    PROVE  /\ RankScore(e) \in Int
           /\ e.rec.action = "HOLD" => RankScore(e) <= 3700
           /\ e.rec.action = "BUY" /\ e.decision = "APPROVED" => RankScore(e) >= 7000
  <1>1. e.rec.confidence \in Nat
    BY DEF Sound, RecommendationType
  <1>2. CASE e.rec.action = "BUY"
    BY <1>1, <1>2 DEF RankScore, Sound
  <1>3. CASE e.rec.action = "HOLD"
    BY <1>1, <1>3 DEF RankScore, Sound
  <1>4. CASE e.rec.action \notin {"BUY", "HOLD"}
    BY <1>1, <1>4 DEF RankScore
  <1> QED BY <1>2, <1>3, <1>4

\* So a ranking that contains an approved BUY does not begin with a HOLD.
LEMMA RankingStep ==
    ASSUME StateTyped, SoundInv, Running, FinishRanking
    PROVE  HoldNeverOutranksBuy'
  <1> DEFINE found == job.found
             key == [i \in DOMAIN found |-> RankScore(found[i])]
             items == Ranked(found, key)
  <1>1. found \in Seq(Finding) /\ \A i \in DOMAIN found : Sound(found[i].rec)
    BY JobTyped DEF SoundInv
  <1>2. ASSUME NEW i \in DOMAIN found
        PROVE  /\ RankScore(found[i]) \in Int
               /\ found[i].rec.action = "HOLD" => RankScore(found[i]) <= 3700
               /\ found[i].rec.action = "BUY" /\ found[i].decision = "APPROVED"
                    => RankScore(found[i]) >= 7000
    BY <1>1, RankScoreBounds
  <1>3. DOMAIN found \subseteq Int /\ IsFiniteSet(DOMAIN found)
    <2> HIDE DEF found
    <2> QED BY <1>1, IndexesFinite
  <1>4. key \in [DOMAIN found -> Int] /\ \A i \in DOMAIN found : key[i] = RankScore(found[i])
    BY <1>2
  <1> HIDE DEF found, key
  <1>5. /\ \A k \in DOMAIN items : \E i \in DOMAIN found : items[k] = found[i]
        /\ items # <<>> => \E i \in DOMAIN found : /\ items[1] = found[i]
                                                   /\ \A j \in DOMAIN found : key[j] <= key[i]
    BY <1>3, <1>4, RankedItems
  <1>6. answer' = [kind |-> "RANKING", items |-> items]
    BY DEF FinishRanking, found, key
  <1> HIDE DEF items
  <1>7. ASSUME items # <<>>, items[1].rec.action = "HOLD", NEW k \in DOMAIN items,
               items[k].rec.action = "BUY", items[k].decision = "APPROVED"
        PROVE  FALSE
    <2>1. PICK i \in DOMAIN found : items[1] = found[i] /\ \A j \in DOMAIN found : key[j] <= key[i]
      BY <1>5, <1>7
    <2>2. PICK j \in DOMAIN found : items[k] = found[j]
      BY <1>5
    <2>3. key[i] <= 3700 /\ key[j] >= 7000 /\ key[j] <= key[i] /\ key[i] \in Int /\ key[j] \in Int
      BY <1>2, <1>4, <1>7, <2>1, <2>2
    <2> QED BY <2>3
  <1> QED BY <1>6, <1>7 DEF HoldNeverOutranksBuy

\* Every step keeps that true of the answer.
LEMMA NextKeepsRanking ==
    ASSUME StateTyped, SoundInv, HoldNeverOutranksBuy, [Next]_vars
    PROVE  HoldNeverOutranksBuy'
  <1>1. CASE answer' = answer
    BY <1>1 DEF HoldNeverOutranksBuy
  <1>2. CASE answer' = Nothing
    BY <1>2 DEF HoldNeverOutranksBuy, Nothing
  <1>3. CASE answer' = Plan
    BY <1>3 DEF HoldNeverOutranksBuy, Plan
  <1>4. CASE Running /\ FinishRanking
    BY <1>4, RankingStep
  <1> QED BY <1>1, <1>2, <1>3, <1>4, Answers

\* The plan's first candidate is a finding: IdInv says when the runtime still has it.
LEMMA PlanStep ==
    ASSUME StateTyped, SoundInv, IdInv, Running, answer' = Plan, Plan.candidates # <<>>
    PROVE  LET id == Plan.candidates[1].id
           IN  /\ Plan.approvable <=> id > cleared
               /\ \A e \in known : e.id = id => e.rec.action = "BUY" /\ e.decision = "APPROVED"
  <1> DEFINE candidates == Candidates(job.found, job.budget, job.positions)
  <1>1. /\ Plan.candidates = candidates
        /\ Plan.approvable <=> \E e \in known : e.id = candidates[1].id
    BY DEF Plan
  <1>2. PICK i \in DOMAIN job.found :
                Fits(job.found[i], job.budget) /\ candidates[1].id = job.found[i].id
    <2>1. /\ job.found \in Seq(Finding) /\ job.budget \in Nat /\ job.positions \in Seq(Lot)
          /\ \A i \in DOMAIN job.found : Sound(job.found[i].rec)
      BY JobTyped DEF SoundInv
    <2> QED BY <1>1, <2>1, CandidatesTyped
  <1> HIDE DEF candidates
  <1>3. /\ job.found[i].id \in Int /\ cleared \in Int
        /\ job.found[i].id > cleared => job.found[i] \in known
        /\ \A e \in known : e.id > cleared
    BY DEF IdInv, StateTyped
  <1>4. \A e \in known : e.id = job.found[i].id => e = job.found[i]
    BY <1>3 DEF IdInv
  <1>5. job.found[i].rec.action = "BUY" /\ job.found[i].decision = "APPROVED"
    BY <1>2 DEF Fits
  <1> QED BY <1>1, <1>2, <1>3, <1>4, <1>5

\* No other step answers a plan.
LEMMA NextIsActionable ==
    ASSUME StateTyped, SoundInv, IdInv, [Next]_vars
    PROVE  answer' # answer /\ answer'.kind = "PLAN" /\ answer'.candidates # <<>> =>
             LET id == answer'.candidates[1].id
             IN  /\ answer'.approvable <=> id > cleared
                 /\ \A e \in known : e.id = id => e.rec.action = "BUY" /\ e.decision = "APPROVED"
  <1>1. CASE answer' = Nothing
    BY <1>1 DEF Nothing
  <1>2. CASE Running /\ answer' = Plan
    BY <1>2, PlanStep
  <1>3. CASE FinishRanking
    BY <1>3 DEF FinishRanking
  <1> QED BY <1>1, <1>2, <1>3, Answers

-----------------------------------------------------------------------------
\* Allocations.

\* Up to two shares of a budget, each rounded to the nearest, leave nothing below zero as long
\* as there is something to share with a third.
LEMMA PartBelow ==
    ASSUME NEW budget \in Nat \ {0}, NEW total \in Nat \ {0}, NEW part \in Nat, part < total,
           NEW q \in Int, 2 * (total * q) <= 2 * (budget * part) + 2 * total
    PROVE  q <= budget
  <1> SUFFICES ASSUME budget + 1 <= q PROVE FALSE
    OBVIOUS
  <1>1. total * (budget + 1) <= total * q
    BY Monotone
  <1>2. budget * part + budget <= budget * total
    BY Monotone
  <1>3. total * (budget + 1) = budget * total + total
    OBVIOUS
  <1>4. budget * total \in Int /\ budget * part \in Int /\ total * q \in Int
    OBVIOUS
  <1> QED BY <1>1, <1>2, <1>3, <1>4

\* One share, rounded to the nearest.
LEMMA ShareNearest ==
    ASSUME NEW a \in Nat, NEW t \in Nat \ {0}
    PROVE  /\ Quotient(a, t) \in Int /\ Quotient(a, t) >= 0
           /\ 2 * (t * Quotient(a, t)) <= 2 * a + t
  <1>1. t \in Nat /\ t > 0 /\ a \in Int /\ a >= 0
    OBVIOUS
  <1> QED BY <1>1, QuotientNearest

\* Multiplication distributes over a sum.
LEMMA Distributes ==
    ASSUME NEW x \in Int, NEW y \in Int, NEW z \in Int
    PROVE  x * (y + z) = x * y + x * z /\ x * y \in Int /\ x * z \in Int
  OBVIOUS

\* The shares of up to three candidates are natural numbers that add up to the budget.
LEMMA SharesSplitBudget ==
    ASSUME NEW short \in Seq(CandidateType), Len(short) \in 1..3, NEW budget \in Nat \ {0}
    PROVE  /\ DOMAIN Shares(short, budget) = DOMAIN short
           /\ \A i \in DOMAIN short : Shares(short, budget)[i] \in Nat
           /\ SumFunctionOnSet(Shares(short, budget), DOMAIN short) = budget
  <1> DEFINE n == Len(short)
             D == DOMAIN short
             E == D \ {n}
             score == [i \in D |-> short[i].score]
             total == SumFunctionOnSet(score, D)
             byScore == [i \in D |-> Quotient(budget * score[i], total)]
             others == SumFunctionOnSet(byScore, E)
             share == [byScore EXCEPT ![n] = AtLeast(budget - others, 0)]
  <1>1. n \in {1, 2, 3} /\ D = 1..n /\ n \in D /\ IsFiniteSet(D) /\ IsFiniteSet(E)
    <2>1. IsFiniteSet(D)
      BY IndexesFinite
    <2> QED BY <2>1, FS_Subset
  <1>2. \A i \in D : score[i] \in Nat \ {0}
    <2>1. \A i \in D : short[i] \in CandidateType
      <3> HIDE DEF CandidateType
      <3> QED OBVIOUS
    <2> QED BY <2>1 DEF CandidateType
  <1>3. Shares(short, budget) = [[i \in D |-> Quotient(budget * short[i].score,
                                                       IF total = 0 THEN One ELSE total)]
           EXCEPT ![n] = AtLeast(budget - SumFunctionOnSet(
                [i \in D |-> Quotient(budget * short[i].score,
                                      IF total = 0 THEN One ELSE total)], E), 0)]
    BY DEF Shares, SumFunction, SumFunctionOnSet, FoldFunction
  <1>4. \A i \in D : score[i] = short[i].score
    OBVIOUS
  <1> HIDE DEF score, n, D
  <1>5. /\ total = score[n] + SumFunctionOnSet(score, E)
        /\ SumFunctionOnSet(score, E) \in Nat /\ total \in Nat \ {0}
    <2>1. total = score[n] + SumFunctionOnSet(score, E)
      BY <1>1, <1>2, SumTakesOut
    <2>2. SumFunctionOnSet(score, E) \in Int /\ SumFunctionOnSet(score, E) >= 0
      BY <1>1, <1>2, SumTyped
    <2> HIDE DEF E, total
    <2> QED BY <1>1, <1>2, <2>1, <2>2
  <1>6. Shares(short, budget) = share
    BY <1>3, <1>4, <1>5
  <1> HIDE DEF total, E
  <1>7. ASSUME NEW i \in D
        PROVE  /\ byScore[i] \in Nat /\ budget * score[i] \in Nat
               /\ 2 * (total * byScore[i]) <= 2 * (budget * score[i]) + total
    <2>1. budget * score[i] \in Nat
      BY <1>2
    <2> DEFINE a == budget * score[i]
    <2>2. a \in Nat /\ byScore[i] = Quotient(a, total)
      BY <2>1
    <2> HIDE DEF a, byScore
    <2>3. /\ Quotient(a, total) \in Int /\ Quotient(a, total) >= 0
          /\ 2 * (total * Quotient(a, total)) <= 2 * a + total
      BY <1>5, <2>2, ShareNearest
    <2> QED BY <2>2, <2>3 DEF a
  <1> HIDE DEF byScore
  <1>8. others \in Nat /\ others <= budget
    <2>1. CASE n = 1
      <3>1. E = {}
        BY <1>1, <2>1 DEF E
      <3> QED BY <3>1, SumOfNone DEF others
    <2>2. CASE n = 2
      <3>1. E = {1} /\ 1 \in D
        BY <1>1, <2>2 DEF E
      <3> DEFINE q1 == byScore[1]
                 s1 == score[1]
      <3>2. /\ q1 \in Nat /\ s1 \in Nat /\ budget * s1 \in Nat
            /\ 2 * (total * q1) <= 2 * (budget * s1) + total
        BY <1>2, <1>7, <3>1
      <3>3. others = q1 /\ SumFunctionOnSet(score, E) = s1
        <4>1. byScore[1] \in Int /\ score[1] \in Int
          BY <3>2
        <4>2. SumFunctionOnSet(byScore, {1}) = q1 /\ SumFunctionOnSet(score, {1}) = s1
          BY <4>1, SumOfOne, Zenon
        <4> QED BY <3>1, <4>2 DEF others
      <3>4. score[n] \in Nat \ {0}
        BY <1>1, <1>2
      <3> HIDE DEF q1, s1
      <3>5. s1 < total
        BY <1>5, <3>2, <3>3, <3>4
      <3>6. 2 * (total * q1) <= 2 * (budget * s1) + 2 * total
        <4>1. total * q1 \in Int
          BY <1>5, <3>2
        <4> QED BY <1>5, <3>2, <4>1
      <3>7. q1 <= budget
        <4>1. q1 \in Int
          BY <3>2
        <4> QED BY <1>5, <3>2, <3>5, <3>6, <4>1, PartBelow, Zenon
      <3> QED BY <3>2, <3>3, <3>7
    <2>3. CASE n = 3
      <3>1. E = {1, 2} /\ 1 \in D /\ 2 \in D
        BY <1>1, <2>3 DEF E
      <3> DEFINE q1 == byScore[1]
                 q2 == byScore[2]
                 s1 == score[1]
                 s2 == score[2]
      <3>2. /\ q1 \in Nat /\ s1 \in Nat /\ budget * s1 \in Nat
            /\ 2 * (total * q1) <= 2 * (budget * s1) + total
            /\ q2 \in Nat /\ s2 \in Nat /\ budget * s2 \in Nat
            /\ 2 * (total * q2) <= 2 * (budget * s2) + total
        BY <1>2, <1>7, <3>1
      <3>3. others = q1 + q2 /\ SumFunctionOnSet(score, E) = s1 + s2
        <4>1. /\ byScore[1] \in Int /\ score[1] \in Int
              /\ byScore[2] \in Int /\ score[2] \in Int
              /\ 1 # 2
          BY <3>2
        <4>2. /\ SumFunctionOnSet(byScore, {1, 2}) = q1 + q2
              /\ SumFunctionOnSet(score, {1, 2}) = s1 + s2
          BY <4>1, SumOfTwo, Zenon
        <4> QED BY <3>1, <4>2 DEF others
      <3>4. score[n] \in Nat \ {0}
        BY <1>1, <1>2
      <3> HIDE DEF q1, q2, s1, s2
      <3>5. q1 \in Int /\ q2 \in Int /\ s1 \in Nat /\ s2 \in Nat
        BY <3>2
      <3>6. s1 + s2 \in Nat /\ s1 + s2 < total
        BY <1>5, <3>3, <3>4, <3>5
      <3>7. 2 * (total * (q1 + q2)) <= 2 * (budget * (s1 + s2)) + 2 * total
        <4>1. /\ total * (q1 + q2) = total * q1 + total * q2
              /\ budget * (s1 + s2) = budget * s1 + budget * s2
              /\ total * q1 \in Int /\ total * q2 \in Int
          <5>1. total \in Int /\ budget \in Int /\ s1 \in Int /\ s2 \in Int
            BY <1>5, <3>5
          <5> QED BY <3>5, <5>1, Distributes, Zenon
        <4> DEFINE t1 == total * q1
                   t2 == total * q2
                   b1 == budget * s1
                   b2 == budget * s2
        <4>2. /\ t1 \in Int /\ t2 \in Int /\ b1 \in Int /\ b2 \in Int /\ total \in Int
              /\ 2 * t1 <= 2 * b1 + total /\ 2 * t2 <= 2 * b2 + total
          BY <1>5, <3>2, <4>1
        <4> HIDE DEF t1, t2, b1, b2
        <4>3. 2 * (t1 + t2) <= 2 * (b1 + b2) + 2 * total
          BY <4>2
        <4> QED BY <4>1, <4>3 DEF t1, t2, b1, b2
      <3>8. q1 + q2 \in Int
        BY <3>5
      <3>9. q1 + q2 <= budget
        BY <1>5, <3>6, <3>7, <3>8, PartBelow, Zenon
      <3> QED BY <3>2, <3>3, <3>9
    <2> QED BY <1>1, <2>1, <2>2, <2>3
  <1> HIDE DEF others
  <1>9. /\ DOMAIN share = D
        /\ share[n] = budget - others
        /\ \A i \in E : share[i] = byScore[i]
        /\ \A i \in D : share[i] \in Nat
    <2>1. DOMAIN byScore = D /\ D = E \cup {n} /\ n \notin E
      BY <1>1 DEF byScore, E
    <2>2. AtLeast(budget - others, 0) = budget - others /\ budget - others \in Nat
      BY <1>8 DEF AtLeast
    <2> QED BY <1>1, <1>7, <2>1, <2>2
  <1> HIDE DEF share
  <1>10. SumFunctionOnSet(share, E) = others
    <2>1. \A i \in E : /\ byScore[i] \in Int /\ byScore[i] >= 0 /\ share[i] \in Int /\ share[i] >= 0
                        /\ share[i] <= byScore[i] /\ byScore[i] <= share[i]
      BY <1>7, <1>9 DEF E
    <2>2. SumFunctionOnSet(share, E) <= others
      BY <1>1, <2>1, SumAtMost DEF others
    <2>3. others <= SumFunctionOnSet(share, E)
      BY <1>1, <2>1, SumAtMost DEF others
    <2>4. SumFunctionOnSet(share, E) \in Int
      BY <1>1, <2>1, SumTyped
    <2> QED BY <1>8, <2>2, <2>3, <2>4
  <1>11. SumFunctionOnSet(share, D) = share[n] + SumFunctionOnSet(share, E)
    BY <1>1, <1>9, SumTakesOut DEF E
  <1> QED BY <1>6, <1>8, <1>9, <1>10, <1>11 DEF D

\* What a share buys costs no more than it, but for the fund's rounding.
LEMMA QuantityAffordable ==
    ASSUME NEW share \in Nat, NEW price \in Nat \ {0}, NEW class
    PROVE  LET quantity == SuggestQuantity(share, price, class)
               rounded == IF class = "MUTUAL_FUND" THEN price \div 2000 + 1 ELSE 0
           IN  /\ quantity \in Nat
               /\ (quantity * price) \div 1000 - rounded \in Int
               /\ (quantity * price) \div 1000 - rounded <= share
  <1>1. CASE share <= 0
    <2>1. SuggestQuantity(share, price, class) = 0 /\ (0 * price) \div 1000 = 0
      BY <1>1 DEF SuggestQuantity
    <2>2. price \div 2000 \in Nat
      OBVIOUS
    <2> QED BY <2>1, <2>2
  <1>2. CASE ~ (share <= 0) /\ class = "MUTUAL_FUND"
    <2> DEFINE q == Quotient(1000 * share, price)
               cost == q * price
    <2>1. q \in Nat /\ 2 * (price * q) <= 2 * (1000 * share) + price
      BY ShareNearest
    <2>2. SuggestQuantity(share, price, class) = q
      BY <1>2 DEF SuggestQuantity
    <2> HIDE DEF q
    <2>3. cost \in Nat /\ 2 * cost <= 2000 * share + price
      BY <2>1
    <2> HIDE DEF cost
    <2>4. cost \div 1000 \in Int /\ 1000 * (cost \div 1000) <= cost
      BY <2>3
    <2>5. price \div 2000 \in Int /\ price < 2000 * (price \div 2000) + 2000
      OBVIOUS
    <2>6. cost \div 1000 - (price \div 2000 + 1) <= share
      BY <2>3, <2>4, <2>5
    <2> QED BY <1>2, <2>1, <2>2, <2>4, <2>5, <2>6 DEF cost
  <1>3. CASE ~ (share <= 0) /\ class # "MUTUAL_FUND"
    <2> DEFINE k == share \div price
    <2>1. k \in Nat /\ price * k <= share
      <3>1. k \in Int /\ price * k <= share
        BY DivBounds
      <3>2. 0 <= k
        BY DivAtLeast
      <3> QED BY <3>1, <3>2
    <2>2. SuggestQuantity(share, price, class) = 1000 * k
      BY <1>3 DEF SuggestQuantity
    <2> HIDE DEF k
    <2>3. price * k \in Nat /\ (1000 * k) * price = 1000 * (price * k)
      BY <2>1
    <2>4. \A x \in Nat : (1000 * x) \div 1000 = x
      OBVIOUS
    <2>5. ((1000 * k) * price) \div 1000 = price * k
      BY <2>3, <2>4
    <2> QED BY <1>3, <2>1, <2>2, <2>3, <2>5
  <1> QED BY <1>1, <1>2, <1>3

\* The best three of the candidates.
LEMMA ShortlistTyped ==
    ASSUME NEW c \in Seq(CandidateType)
    PROVE  /\ Shortlist(c) \in Seq(CandidateType)
           /\ Len(Shortlist(c)) \in 0..3
  <1>1. \A i \in 1..AtMost(3, Len(c)) : c[i] \in CandidateType
    <2>1. Len(c) \in Nat /\ \A i \in 1..Len(c) : c[i] \in CandidateType
      <3> HIDE DEF CandidateType
      <3> QED OBVIOUS
    <2> QED BY <2>1 DEF AtMost
  <1>2. AtMost(3, Len(c)) \in 0..3
    <2>1. \A n \in Nat : AtMost(3, n) \in 0..3
      BY DEF AtMost
    <2> QED BY <2>1
  <1> HIDE DEF CandidateType
  <1> QED BY <1>1, <1>2, SubSeqProperties DEF Shortlist

\* What is allocated: a part of the shortlist, every item with a weight, all of it affordable.
LEMMA AllocationsAffordable ==
    ASSUME NEW c \in Seq(CandidateType), NEW budget \in Nat
    PROVE  LET a == Allocations(c, budget)
           IN  /\ DOMAIN a \subseteq DOMAIN Shortlist(c)
               /\ \A i \in DOMAIN a : a[i].weight \in Nat
               /\ SumFunctionOnSet([i \in DOMAIN a |-> Cost(a[i]) - RoundedUp(a[i])], DOMAIN a)
                    <= budget
  <1> DEFINE short == Shortlist(c)
             D == DOMAIN short
             share == Shares(short, budget)
             item(i) == [symbol |-> short[i].symbol, price |-> short[i].price,
                         weight |-> Quotient(share[i] * One, budget),
                         quantity |-> SuggestQuantity(share[i], short[i].price,
                                                      AssetClass[short[i].symbol])]
             A == {i \in D : item(i).quantity > 0}
             net(a) == [i \in DOMAIN a |-> Cost(a[i]) - RoundedUp(a[i])]
  <1>1. short \in Seq(CandidateType) /\ Len(short) \in 0..3
    BY ShortlistTyped
  <1>2. CASE budget <= 0
    <2>1. Allocations(c, budget) = <<>> /\ DOMAIN <<>> = {}
      BY <1>2 DEF Allocations
    <2> QED BY <2>1, SumOfNone
  <1>3. CASE ~ (budget <= 0) /\ D = {}
    <2>1. DOMAIN Allocations(c, budget) = {}
      BY <1>3 DEF Allocations
    <2> QED BY <2>1, SumOfNone
  <1>4. CASE ~ (budget <= 0) /\ D # {}
    <2>1. Allocations(c, budget) = [i \in A |-> item(i)]
      BY <1>4 DEF Allocations
    <2>2. budget \in Nat \ {0} /\ Len(short) \in 1..3
      BY <1>1, <1>4
    <2> HIDE DEF short
    <2>3. /\ \A i \in D : share[i] \in Nat
          /\ SumFunctionOnSet(share, D) = budget
      BY <1>1, <2>2, SharesSplitBudget
    <2>4. IsFiniteSet(D)
      BY <1>1, IndexesFinite
    <2> HIDE DEF share
    <2>5. ASSUME NEW i \in D
          PROVE  /\ item(i).weight \in Nat
                 /\ Cost(item(i)) - RoundedUp(item(i)) \in Int
                 /\ Cost(item(i)) - RoundedUp(item(i)) <= share[i]
      <3>1. short[i] \in CandidateType
        <4> HIDE DEF CandidateType
        <4> QED BY <1>1
      <3>2. short[i].price \in Nat \ {0} /\ share[i] \in Nat
        BY <2>3, <3>1 DEF CandidateType
      <3>3. Quotient(share[i] * One, budget) \in Nat
        <4>1. share[i] * One \in Nat
          BY <3>2 DEF One
        <4>2. Quotient(share[i] * One, budget) \in Int /\ Quotient(share[i] * One, budget) >= 0
          BY <2>2, <4>1, ShareNearest
        <4> QED BY <4>2
      <3> DEFINE class == AssetClass[short[i].symbol]
                 price == short[i].price
                 mine == share[i]
                 quantity == SuggestQuantity(mine, price, class)
                 rounded == IF class = "MUTUAL_FUND" THEN price \div 2000 + 1 ELSE 0
      <3>4. /\ (quantity * price) \div 1000 - rounded \in Int
            /\ (quantity * price) \div 1000 - rounded <= mine
        <4>1. price \in Nat \ {0} /\ mine \in Nat
          BY <3>2
        <4> HIDE DEF price, mine, class
        <4> QED BY <4>1, QuantityAffordable
      <3>5. Cost(item(i)) = (quantity * price) \div 1000 /\ RoundedUp(item(i)) = rounded
        BY DEF Cost, RoundedUp
      <3> HIDE DEF quantity, rounded
      <3> QED BY <3>3, <3>4, <3>5
    <2> DEFINE a == Allocations(c, budget)
    <2>6. DOMAIN a = A /\ A \subseteq D /\ \A i \in A : a[i] = item(i)
      BY <2>1
    <2> HIDE DEF a, item
    <2>7. \A i \in A : net(a)[i] = Cost(item(i)) - RoundedUp(item(i))
      BY <2>6
    <2> HIDE DEF A, net
    <2>8. SumFunctionOnSet(net(a), A) <= SumFunctionOnSet(share, D)
      <3>1. \A i \in D : share[i] \in Int /\ share[i] >= 0
        BY <2>3
      <3>2. \A i \in A : net(a)[i] \in Int /\ net(a)[i] <= share[i]
        BY <2>5, <2>6, <2>7
      <3> QED BY <2>4, <2>6, <3>1, <3>2, SumAtMost
    <2> QED BY <2>3, <2>5, <2>6, <2>8 DEF a, net, short
  <1> QED BY <1>2, <1>3, <1>4

\* Every step keeps a plan's allocations within its budget.
LEMMA NextKeepsBudget ==
    ASSUME StateTyped, SoundInv, BudgetRespected, [Next]_vars
    PROVE  BudgetRespected'
  <1>1. CASE answer' = answer
    BY <1>1 DEF BudgetRespected, Cost, RoundedUp
  <1>2. CASE answer' = Nothing
    BY <1>2 DEF BudgetRespected, Nothing
  <1>3. CASE Running /\ answer' = Plan
    <2> DEFINE c == Candidates(job.found, job.budget, job.positions)
               a == Allocations(c, job.budget)
               net == [i \in DOMAIN a |-> Cost(a[i]) - RoundedUp(a[i])]
    <2>1. /\ job.found \in Seq(Finding) /\ job.budget \in Nat /\ job.positions \in Seq(Lot)
          /\ \A i \in DOMAIN job.found : Sound(job.found[i].rec)
      BY <1>3, JobTyped DEF SoundInv
    <2>2. c \in Seq(CandidateType)
      BY <2>1, CandidatesTyped
    <2>3. answer'.allocations = a /\ answer'.budget = job.budget
      BY <1>3 DEF Plan
    <2> HIDE DEF c
    <2>4. SumFunctionOnSet(net, DOMAIN a) <= job.budget
      BY <2>1, <2>2, AllocationsAffordable
    <2> HIDE DEF a
    <2>5. SumFunction(net) = SumFunctionOnSet(net, DOMAIN a)
      BY DEF SumFunction, SumFunctionOnSet, FoldFunction
    <2>6. net = [i \in DOMAIN answer'.allocations |->
                   Cost(answer'.allocations[i]) - RoundedUp(answer'.allocations[i])]
      BY <2>3
    <2>7. SumFunction([i \in DOMAIN answer'.allocations |->
                         Cost(answer'.allocations[i]) - RoundedUp(answer'.allocations[i])])
            <= answer'.budget
      <3> HIDE DEF net
      <3> QED BY <2>3, <2>4, <2>5, <2>6
    <2> QED BY <2>7 DEF BudgetRespected, Cost, RoundedUp
  <1>4. CASE FinishRanking
    BY <1>4 DEF BudgetRespected, FinishRanking
  <1> QED BY <1>1, <1>2, <1>3, <1>4, Answers

-----------------------------------------------------------------------------
\* Rebalancing.

\* Down to any target, a lot of whole units is trimmed by no more than it holds: its value is
\* exact, and half a hundredth of a unit is rounded up to less than one.
LEMMA TrimAtMostHeld ==
    ASSUME NEW p \in Lot, NEW k \in Nat, p.quantity = 1000 * k, p.price > 0,
           NEW total \in Nat, NEW target \in Nat
    PROVE  AtLeast(TrimQuantity(p, total, target), 0) <= p.quantity
  <1> DEFINE v == k * p.price
             t == Quotient(total * target, One)
             x == 100 * (v - t)
             q == Quotient(x, p.price)
  <1>1. p.price \in Nat /\ p.quantity \in Nat
    BY DEF Lot
  <1>2. Value(p) = v /\ v \in Nat
    <2>1. v \in Nat /\ p.quantity * p.price = 1000 * v
      BY <1>1
    <2>2. \A y \in Nat : Quotient(1000 * y, 1000) = y
      BY DEF Quotient
    <2> HIDE DEF v
    <2> QED BY <2>1, <2>2 DEF Value
  <1>3. t \in Nat
    <2>1. total * target \in Nat
      OBVIOUS
    <2>2. \A y \in Nat : Quotient(y, 10000) \in Nat
      BY DEF Quotient
    <2> QED BY <2>1, <2>2 DEF One
  <1>4. x \in Int /\ x <= 100 * v
    <2> HIDE DEF v, t
    <2> QED BY <1>2, <1>3
  <1>5. TrimQuantity(p, total, target) = 10 * q
    BY <1>2 DEF TrimQuantity
  <1> HIDE DEF x
  <1>6. q \in Int /\ 2 * (p.price * q) <= 2 * x + p.price
    <2> DEFINE price == p.price
    <2>1. price \in Nat /\ price > 0
      BY <1>1
    <2> HIDE DEF price
    <2>2. Quotient(x, price) \in Int /\ 2 * (price * Quotient(x, price)) <= 2 * x + price
      <3>1. x \in Int
        BY <1>4
      <3> HIDE DEF Quotient
      <3> QED BY <3>1, <2>1, QuotientNearest
    <2> QED BY <2>2 DEF price
  <1> HIDE DEF q
  <1>7. q <= 100 * k
    <2> SUFFICES ASSUME 100 * k + 1 <= q PROVE FALSE
      BY <1>6
    <2>1. p.price * (100 * k + 1) <= p.price * q
      <3>1. 100 * k + 1 \in Int
        OBVIOUS
      <3> QED BY <1>1, <1>6, <3>1, Monotone
    <2>2. p.price * (100 * k + 1) = 100 * v + p.price
      BY <1>1
    <2>3. p.price * q \in Int
      BY <1>1, <1>6
    <2> HIDE DEF v
    <2> QED BY <1>1, <1>2, <1>4, <1>6, <2>1, <2>2, <2>3
  <1> QED BY <1>5, <1>6, <1>7 DEF AtLeast

\* Every TRIM is such a trim, whatever was allocated.
LEMMA RebalanceWithinHolding ==
    ASSUME NEW p \in Lot, NEW total \in Nat, total > 0, NEW a, NEW short,
           IsFiniteSet(DOMAIN a), DOMAIN a \subseteq Int, \A i \in DOMAIN a : a[i].weight \in Nat,
           Rebalanced(p, total, a, short).action = "TRIM"
    PROVE  LET r == Rebalanced(p, total, a, short) IN r.held % 1000 = 0 => r.delta <= r.held
  <1> DEFINE weight == Weight(Value(p), total)
             exceeds(limit) == Value(p) * One > limit * total
             mine == {i \in DOMAIN a : a[i].symbol = p.symbol}
             last == CHOOSE i \in mine : \A j \in mine : j <= i
             goal == IF mine = {} THEN 0 ELSE a[last].weight
             listed == \E i \in DOMAIN short : short[i].symbol = p.symbol
             move(action, target, sign) ==
               [action |-> action, symbol |-> p.symbol, held |-> p.quantity, target |-> target,
                delta |-> AtLeast(sign * TrimQuantity(p, total, target), 0)]
             trim(target) == move("TRIM", target, 1)
             r == Rebalanced(p, total, a, short)
  <1>1. goal \in Nat
    <2>1. CASE mine # {}
      <3>1. IsFiniteSet(mine) /\ mine \subseteq Int
        BY FS_Subset
      <3>2. \E i \in mine : \A j \in mine : j <= i
        <4> HIDE DEF mine
        <4> QED BY <2>1, <3>1, LastIndex
      <3>3. last \in mine
        BY <3>2
      <3> HIDE DEF last
      <3> QED BY <3>3
    <2> QED BY <2>1
  <1> HIDE DEF mine, last
  <1>2. Value(p) > 0 => p.price > 0
    <2>1. p.price \in Nat /\ p.quantity \in Nat
      BY DEF Lot
    <2>2. p.price = 0 => Value(p) = 0
      <3>1. p.quantity * 0 = 0 /\ Quotient(0, 1000) = 0
        BY <2>1 DEF Quotient
      <3> QED BY <3>1 DEF Value
    <2> QED BY <2>1, <2>2
  <1>3. Value(p) \in Nat
    <2>1. p.price \in Nat /\ p.quantity \in Nat
      BY DEF Lot
    <2>2. p.quantity * p.price \in Nat
      BY <2>1
    <2>3. \A y \in Nat : Quotient(y, 1000) \in Nat
      BY DEF Quotient
    <2> QED BY <2>2, <2>3 DEF Value
  <1>4. r = CASE exceeds(4500)                               -> trim(Clamp(goal, 2000, 4500))
              [] ~exceeds(4500) /\ exceeds(3500) /\ ~listed  -> trim(2000)
              [] OTHER -> IF goal # 0 /\ 10 * weight < 7 * goal THEN move("ADD", goal, -1)
                          ELSE IF goal # 0 /\ 10 * weight > 13 * goal THEN trim(goal)
                          ELSE [action |-> "HOLD"]
    BY DEF Rebalanced, mine, last
  <1> HIDE DEF goal, listed, weight, exceeds
  <1>5. PICK target \in Nat : Value(p) > 0 /\ r = trim(target)
    <2>1. CASE exceeds(4500)
      <3>1. Value(p) > 0
        BY <1>3, <2>1 DEF exceeds, One
      <3>2. Clamp(goal, 2000, 4500) \in Nat
        BY <1>1 DEF Clamp, AtMost, AtLeast
      <3>3. r = trim(Clamp(goal, 2000, 4500))
        BY <1>4, <2>1
      <3> QED BY <3>1, <3>2, <3>3
    <2>2. CASE ~exceeds(4500) /\ exceeds(3500) /\ ~listed
      <3>1. Value(p) > 0
        BY <1>3, <2>2 DEF exceeds, One
      <3>2. r = trim(2000)
        BY <1>4, <2>2
      <3> QED BY <3>1, <3>2
    <2>3. CASE ~exceeds(4500) /\ ~ (exceeds(3500) /\ ~listed)
      <3>1. r = IF goal # 0 /\ 10 * weight < 7 * goal THEN move("ADD", goal, -1)
                ELSE IF goal # 0 /\ 10 * weight > 13 * goal THEN trim(goal)
                ELSE [action |-> "HOLD"]
        BY <1>4, <2>3
      <3>2. goal # 0 /\ 10 * weight > 13 * goal /\ r = trim(goal)
        BY <3>1
      <3>3. Value(p) > 0
        <4>1. Value(p) = 0 => weight = 0
          BY DEF weight, Weight, One
        <4> QED BY <1>1, <1>3, <3>2, <4>1
      <3> QED BY <1>1, <3>2, <3>3
    <2> QED BY <2>1, <2>2, <2>3
  <1>6. p.quantity % 1000 = 0 => AtLeast(TrimQuantity(p, total, target), 0) <= p.quantity
    <2> SUFFICES ASSUME p.quantity % 1000 = 0
                 PROVE  AtLeast(TrimQuantity(p, total, target), 0) <= p.quantity
      OBVIOUS
    <2>1. \A q \in Nat : q % 1000 = 0 => q = 1000 * (q \div 1000) /\ q \div 1000 \in Nat
      OBVIOUS
    <2>2. PICK k \in Nat : p.quantity = 1000 * k
      BY <2>1 DEF Lot
    <2> QED BY <1>2, <1>5, <2>2, TrimAtMostHeld
  <1>7. TrimQuantity(p, total, target) \in Int
    <2>1. \A y \in Nat : Quotient(y, 10000) \in Nat
      BY DEF Quotient
    <2>2. total * target \in Nat
      OBVIOUS
    <2> DEFINE x == 100 * (Value(p) - Quotient(total * target, 10000))
               price == p.price
    <2>3. x \in Int
      BY <1>3, <2>1, <2>2
    <2>4. price \in Nat /\ price > 0
      BY <1>2, <1>5 DEF Lot
    <2>5. TrimQuantity(p, total, target) = 10 * Quotient(x, price)
      BY DEF TrimQuantity, One
    <2> HIDE DEF x, price
    <2>6. Quotient(x, price) \in Int
      BY <2>3, <2>4, QuotientNearest
    <2> QED BY <2>5, <2>6
  <1>8. 1 * TrimQuantity(p, total, target) = TrimQuantity(p, total, target)
    BY <1>7
  <1> HIDE DEF r
  <1> QED BY <1>5, <1>6, <1>8 DEF r

\* Every step keeps the trims of a plan within the holdings.
LEMMA NextKeepsTrim ==
    ASSUME StateTyped, SoundInv, TrimWithinHolding, [Next]_vars
    PROVE  TrimWithinHolding'
  <1>1. CASE answer' = answer
    BY <1>1 DEF TrimWithinHolding
  <1>2. CASE answer' = Nothing
    BY <1>2 DEF TrimWithinHolding, Nothing
  <1>3. CASE Running /\ answer' = Plan
    <2> DEFINE p == job.positions
               total == TotalValue(p)
               c == Candidates(job.found, job.budget, p)
               a == Allocations(c, job.budget)
               r == RebalanceActions(p, a, c)
               each(i) == Rebalanced(p[i], total, a, Shortlist(c))
    <2>1. /\ job.found \in Seq(Finding) /\ job.budget \in Nat /\ p \in Seq(Lot)
          /\ \A i \in DOMAIN job.found : Sound(job.found[i].rec)
      BY <1>3, JobTyped DEF SoundInv
    <2>2. c \in Seq(CandidateType)
      BY <2>1, CandidatesTyped
    <2>3. answer'.rebalance = r
      BY <1>3 DEF Plan
    <2> HIDE DEF p, c
    <2>4. total \in Nat
      BY <2>1, TotalTyped
    <2>5. /\ IsFiniteSet(DOMAIN a) /\ DOMAIN a \subseteq Int
          /\ \A i \in DOMAIN a : a[i].weight \in Nat
      <3>1. /\ DOMAIN a \subseteq DOMAIN Shortlist(c)
            /\ \A i \in DOMAIN a : a[i].weight \in Nat
        BY <2>1, <2>2, AllocationsAffordable
      <3>2. Shortlist(c) \in Seq(CandidateType)
        BY <2>2, ShortlistTyped
      <3> HIDE DEF a
      <3> QED BY <3>1, <3>2, IndexesFinite
    <2> HIDE DEF a, total
    <2>6. ASSUME NEW i \in DOMAIN r, r[i].action = "TRIM", r[i].held % 1000 = 0
          PROVE  r[i].delta <= r[i].held
      <3>1. total > 0 /\ i \in DOMAIN p /\ r[i] = each(i)
        BY <2>4, <2>6 DEF RebalanceActions, total
      <3>2. p[i] \in Lot
        <4> HIDE DEF Lot
        <4> QED BY <2>1, <3>1
      <3>3. each(i).action = "TRIM" /\ each(i).held % 1000 = 0
        BY <2>6, <3>1
      <3> HIDE DEF r
      <3>4. each(i).delta <= each(i).held
        BY <2>4, <2>5, <2>6, <3>1, <3>2, <3>3, RebalanceWithinHolding
      <3> QED BY <3>1, <3>4
    <2> HIDE DEF r
    <2> QED BY <2>3, <2>6 DEF TrimWithinHolding
  <1>4. CASE FinishRanking
    BY <1>4 DEF TrimWithinHolding, FinishRanking
  <1> QED BY <1>1, <1>2, <1>3, <1>4, Answers

-----------------------------------------------------------------------------
\* The theorems.

\* The planner's inductive invariant, and what it keeps true of the answers.
PlannerInv == StateTyped /\ ChainInv /\ SoundInv /\ IdInv

\* It holds initially.
LEMMA InitInv == Init => PlannerInv
  <1> SUFFICES ASSUME Init PROVE PlannerInv
    OBVIOUS
  <1>1. StateTyped /\ SoundInv /\ IdInv
    BY DEF Init, StateTyped, SoundInv, IdInv, Running, Evaluating
  <1>2. chain = [verdicts |-> <<>>, checked |-> 0, decision |-> "APPROVED", size |-> 0]
    BY DEF Init, NoChain, Fresh, NoSize
  <1>3. ChainTypeOK
    BY <1>2 DEF ChainTypeOK, Decisions
  <1> QED BY <1>1, <1>2, <1>3 DEF PlannerInv, ChainInv

\* Every step keeps it.
LEMMA PlannerKeeps == PlannerInv /\ [Next]_vars => PlannerInv'
  BY NextKeepsChain, NextKeepsTyped, NextKeepsSound, NextKeepsIds DEF PlannerInv

\* So it always holds.
LEMMA PlannerAlways == Spec => []PlannerInv
  BY InitInv, PlannerKeeps, PTL DEF Spec

(***************************************************************************)
(* The decision of a finished evaluation is the strictest verdict of the   *)
(* whole list, whatever the order of the policies and although the loop of *)
(* RiskPolicyChain.evaluate reads none behind a rejection.                 *)
(***************************************************************************)
THEOREM ChainVerdictAlways == Spec => []ChainVerdict
  <1>1. PlannerInv => ChainVerdict
    BY ChainInvDecides DEF PlannerInv
  <1> QED BY <1>1, PlannerAlways, PTL

(***************************************************************************)
(* The planner keeps its types. A lot's price and symbol are those of a    *)
(* recommendation, and a request's budget comes from the value of the      *)
(* lots.                                                                   *)
(***************************************************************************)
THEOREM PlannerTyped == Spec => []TypeOK
  <1>1. PlannerInv => TypeOK
    BY DEF PlannerInv, StateTyped, ChainInv, TypeOK
  <1> QED BY <1>1, PlannerAlways, PTL

(***************************************************************************)
(* A plan's allocations cost no more than its budget, each fund's allowed  *)
(* the half of a thousandth of a unit it may be rounded up by. The shares  *)
(* of InvestmentPlanner._build_allocations are rounded one by one and      *)
(* still add up to the budget: there are at most three, two of them exceed *)
(* the budget by less than what any positive third is worth, and all are   *)
(* positive, since a BUY that adjusted signals lead to is at least even    *)
(* and the penalty for what is already held stops at a half.               *)
(***************************************************************************)
THEOREM BudgetRespectedAlways == Spec => []BudgetRespected
  <1>1. Init => BudgetRespected
    BY DEF Init, BudgetRespected, Nothing
  <1>2. PlannerInv /\ BudgetRespected /\ [Next]_vars => BudgetRespected'
    BY NextKeepsBudget DEF PlannerInv
  <1> QED BY <1>1, <1>2, PlannerAlways, PTL DEF Spec

(***************************************************************************)
(* A plan trims no lot of whole units by more than it holds, down to       *)
(* whatever target _build_rebalance_actions computes for it.               *)
(***************************************************************************)
THEOREM TrimWithinHoldingAlways == Spec => []TrimWithinHolding
  <1>1. Init => TrimWithinHolding
    BY DEF Init, TrimWithinHolding, Nothing
  <1>2. PlannerInv /\ TrimWithinHolding /\ [Next]_vars => TrimWithinHolding'
    BY NextKeepsTrim DEF PlannerInv
  <1> QED BY <1>1, <1>2, PlannerAlways, PTL DEF Spec

(***************************************************************************)
(* RecommendationCapability.recommend ranks no HOLD first when the         *)
(* policies approved some BUY, whatever the markets, thresholds and own    *)
(* policies: a HOLD is at most as sure as the least momentum signal with   *)
(* the sentiment added, an approved BUY at least even, and bonus and malus *)
(* outweigh the rest.                                                      *)
(***************************************************************************)
THEOREM HoldNeverOutranksBuyAlways == Spec => []HoldNeverOutranksBuy
  <1>1. Init => HoldNeverOutranksBuy
    BY DEF Init, HoldNeverOutranksBuy, Nothing
  <1>2. PlannerInv /\ HoldNeverOutranksBuy /\ [Next]_vars => HoldNeverOutranksBuy'
    BY NextKeepsRanking DEF PlannerInv
  <1> QED BY <1>1, <1>2, PlannerAlways, PTL DEF Spec

(***************************************************************************)
(* The idea a plan selects is still with the runtime, as the approved BUY  *)
(* it was, unless the history was cleared after it was analysed: ids are   *)
(* given once and in order, and nothing but clearing takes a finding away. *)
(***************************************************************************)
THEOREM PlanActionableAlways == Spec => PlanActionable
  <1>1. PlannerInv /\ [Next]_vars =>
          [ answer' # answer /\ answer'.kind = "PLAN" /\ answer'.candidates # <<>> =>
              LET id == answer'.candidates[1].id
              IN  /\ answer'.approvable <=> id > cleared
                  /\ \A e \in known : e.id = id =>
                        e.rec.action = "BUY" /\ e.decision = "APPROVED" ]_vars
    BY NextIsActionable DEF PlannerInv
  <1> QED BY <1>1, PlannerAlways, PTL DEF Spec, PlanActionable
=============================================================================
