--------------------------- MODULE HedgeEodProofs ----------------------------
(***************************************************************************)
(* Proofs about HedgeEod, for any accounts, positions wanted, lots, trades *)
(* past the system, margins, and number of things that go wrong.           *)
(***************************************************************************)
EXTENDS HedgeEod, FiniteSetTheorems, TLAPS

----------------------------------------------------------------------------
(* Sums over a finite set of accounts *)

\* The element a sum takes out of a set next, and what it leaves.
Pick(s) == CHOOSE x \in s : TRUE
Rest(s) == s \ {Pick(s)}

\* What a sum leaves of a set is the set without one of its elements.
LEMMA RestFacts ==
  ASSUME NEW s, s # {}
  PROVE  /\ Pick(s) \in s /\ Pick(s) \notin Rest(s)
         /\ Rest(s) \subseteq s /\ Rest(s) # s
         /\ s = Rest(s) \cup {Pick(s)}
<1>1. \E x : x \in s
  OBVIOUS
<1>2. Pick(s) \in s
  BY <1>1, Zenon DEF Pick
<1> QED  BY <1>2 DEF Rest

\* Induction over the subsets of a finite set, in the order in which a sum takes out elements;
\* what is shown is membership of a set, so that no operator has to be instantiated.
LEMMA SubsetInduction ==
  ASSUME NEW S, IsFiniteSet(S), NEW G,
         \A T \in SUBSET S : T = {} \/ Rest(T) \in G => T \in G
  PROVE  \A T \in SUBSET S : T \in G
<1> DEFINE Bad == {T \in SUBSET S : T \notin G}
<1>1. SUFFICES ASSUME Bad # {} PROVE FALSE
  OBVIOUS
<1>2. FiniteSubsetsOf(S) = SUBSET S
  BY FS_FiniteSubsetsOfFinite
<1>3. PICK T \in Bad : \A U \in Bad : <<U, T>> \notin StrictSubsetOrdering(S)
  <2>1. IsWellFoundedOn(StrictSubsetOrdering(S), SUBSET S)
    BY <1>2, FS_StrictSubsetOrderingWellFounded
  <2>2. Bad \subseteq SUBSET S
    OBVIOUS
  <2> HIDE DEF Bad
  <2>3. \E x \in Bad : \A y \in Bad : ~ (<<y, x>> \in StrictSubsetOrdering(S))
    BY <1>1, <2>1, <2>2, WFMin
  <2> QED  BY <2>3
<1>4. T # {} /\ T \in SUBSET S
  OBVIOUS
<1>5. <<Rest(T), T>> \in StrictSubsetOrdering(S) /\ Rest(T) \in SUBSET S
  BY <1>4, RestFacts DEF StrictSubsetOrdering
<1> QED  BY <1>3, <1>4, <1>5

\* The function a sum over S is the last value of.
IsSum(g, f, S) ==
  g = [s \in SUBSET S |-> IF s = {} THEN 0 ELSE f[Pick(s)] + g[Rest(s)]]

\* The same for the subsets of at most k elements.
IsSumUpTo(g, f, S, k) ==
  g = [s \in {s \in SUBSET S : Cardinality(s) <= k} |->
         IF s = {} THEN 0 ELSE f[Pick(s)] + g[Rest(s)]]

\* The recursive function by which a sum is defined exists.
LEMMA SumExists ==
  ASSUME NEW S, IsFiniteSet(S), NEW f
  PROVE  \E g : IsSum(g, f, S)
<1> DEFINE G == {T \in SUBSET S : \E g : IsSumUpTo(g, f, S, Cardinality(T))}
<1>0. \A T \in SUBSET S : IsFiniteSet(T) /\ Cardinality(T) \in Nat
  BY FS_Subset, FS_CardinalityType
<1>1. ASSUME NEW T \in SUBSET S, T = {}
      PROVE  T \in G
  <2> DEFINE Dom == {s \in SUBSET S : Cardinality(s) <= Cardinality(T)}
  <2>1. \A s \in Dom : s = {}
    BY <1>0, <1>1, FS_EmptySet
  <2> DEFINE g == [s \in Dom |-> 0]
  <2>2. g = [s \in Dom |-> IF s = {} THEN 0 ELSE f[Pick(s)] + g[Rest(s)]]
    BY <2>1
  <2>3. IsSumUpTo(g, f, S, Cardinality(T))
    BY <2>2 DEF IsSumUpTo
  <2> QED  BY <2>3
<1>2. ASSUME NEW T \in SUBSET S, T # {}, Rest(T) \in G
      PROVE  T \in G
  <2> DEFINE k == Cardinality(Rest(T))
  <2>1. PICK g : IsSumUpTo(g, f, S, k)
    BY <1>2
  <2>2. \A s \in SUBSET S : s # {} => Cardinality(s) = Cardinality(Rest(s)) + 1 /\ Rest(s) \in SUBSET S
    <3> TAKE s \in SUBSET S
    <3> HAVE s # {}
    <3>1. Pick(s) \in s
      BY RestFacts
    <3>2. Cardinality(Rest(s)) = Cardinality(s) - 1
      BY <1>0, <3>1, FS_RemoveElement DEF Rest
    <3> QED  BY <1>0, <3>2, RestFacts
  <2>3. Cardinality(T) = k + 1 /\ k \in Nat
    BY <1>0, <1>2, <2>2
  <2> HIDE DEF k
  <2> DEFINE Dom == {s \in SUBSET S : Cardinality(s) <= k + 1}
             Low == {s \in SUBSET S : Cardinality(s) <= k}
             h == [s \in Dom |-> IF s = {} THEN 0 ELSE f[Pick(s)] + g[Rest(s)]]
  <2>4. \A s \in Low : g[s] = IF s = {} THEN 0 ELSE f[Pick(s)] + g[Rest(s)]
    <3> DEFINE gg == [s \in Low |-> IF s = {} THEN 0 ELSE f[Pick(s)] + g[Rest(s)]]
    <3>1. g = gg
      BY <2>1 DEF IsSumUpTo
    <3>2. \A s \in Low : gg[s] = IF s = {} THEN 0 ELSE f[Pick(s)] + g[Rest(s)]
      OBVIOUS
    <3> QED  BY <3>1, <3>2, Zenon
  <2>5. Low \subseteq Dom
    BY <1>0, <2>3
  <2>6. \A s \in Low : h[s] = g[s]
    BY <2>4, <2>5
  <2>7. \A s \in Dom : s # {} => Rest(s) \in Low
    BY <1>0, <2>2, <2>3
  <2>8. \A s \in Dom : s # {} => h[Rest(s)] = g[Rest(s)]
    BY <2>6, <2>7, Zenon
  <2>9. h = [s \in Dom |-> IF s = {} THEN 0 ELSE f[Pick(s)] + h[Rest(s)]]
    BY <2>8
  <2>10. IsSumUpTo(h, f, S, Cardinality(T))
    BY <2>3, <2>9 DEF IsSumUpTo
  <2> QED  BY <2>10, Zenon
<1>3. S \in G
  <2>1. \A T \in SUBSET S : T = {} \/ Rest(T) \in G => T \in G
    BY <1>1, <1>2, Zenon
  <2> HIDE DEF G
  <2>2. \A T \in SUBSET S : T \in G
    BY <2>1, SubsetInduction
  <2> QED  BY <2>2
<1>4. PICK g : IsSumUpTo(g, f, S, Cardinality(S))
  BY <1>3
<1>5. {s \in SUBSET S : Cardinality(s) <= Cardinality(S)} = SUBSET S
  BY <1>0, FS_Subset
<1>6. IsSum(g, f, S)
  BY <1>4, <1>5 DEF IsSum, IsSumUpTo
<1> QED  BY <1>6

\* The sums over a subset are the same from whatever set the recursion starts.
LEMMA SumUnique ==
  ASSUME NEW S, IsFiniteSet(S), NEW f, NEW g, IsSum(g, f, S),
         NEW T \in SUBSET S, NEW e, NEW h, IsSum(h, e, T), \A a \in T : e[a] = f[a]
  PROVE  h[T] = g[T]
<1> DEFINE G == {U \in SUBSET T : h[U] = g[U]}
<1>1. \A U \in SUBSET S : g[U] = IF U = {} THEN 0 ELSE f[Pick(U)] + g[Rest(U)]
  <2> DEFINE gg == [s \in SUBSET S |-> IF s = {} THEN 0 ELSE f[Pick(s)] + g[Rest(s)]]
  <2>1. g = gg
    BY DEF IsSum
  <2>2. \A U \in SUBSET S : gg[U] = IF U = {} THEN 0 ELSE f[Pick(U)] + g[Rest(U)]
    OBVIOUS
  <2> QED  BY <2>1, <2>2, Zenon
<1>2. \A U \in SUBSET T : h[U] = IF U = {} THEN 0 ELSE e[Pick(U)] + h[Rest(U)]
  <2> DEFINE hh == [s \in SUBSET T |-> IF s = {} THEN 0 ELSE e[Pick(s)] + h[Rest(s)]]
  <2>1. h = hh
    BY DEF IsSum
  <2>2. \A U \in SUBSET T : hh[U] = IF U = {} THEN 0 ELSE e[Pick(U)] + h[Rest(U)]
    OBVIOUS
  <2> QED  BY <2>1, <2>2, Zenon
<1>3. \A U \in SUBSET T : U = {} \/ Rest(U) \in G => U \in G
  <2> TAKE U \in SUBSET T
  <2>1. U \in SUBSET S
    OBVIOUS
  <2>2. CASE U = {}
    BY <1>1, <1>2, <2>1, <2>2
  <2>3. ASSUME U # {}, Rest(U) \in G PROVE U \in G
    <3>1. Pick(U) \in T /\ Pick(U) \in U
      BY <2>3, RestFacts
    <3> QED  BY <1>1, <1>2, <2>1, <2>3, <3>1
  <2> QED  BY <2>2, <2>3
<1>4. IsFiniteSet(T)
  BY FS_Subset
<1> HIDE DEF G
<1>5. \A U \in SUBSET T : U \in G
  BY <1>3, <1>4, SubsetInduction
<1> USE DEF G
<1> QED  BY <1>5

\* Total is the value of such a function.
LEMMA TotalIsSum ==
  ASSUME NEW S, IsFiniteSet(S), NEW f
  PROVE  \E g : IsSum(g, f, S) /\ Total(f, S) = g[S]
<1> DEFINE g == CHOOSE g : IsSum(g, f, S)
<1>1. IsSum(g, f, S)
  BY SumExists
<1>2. Total(f, S) = g[S]
  BY Zenon DEF Total, MapThenSumSet, MapThenFoldSet, IsSum, Pick, Rest
<1> QED BY <1>1, <1>2

\* The sum of the absolute values is the sum of the absolute amounts.
LEMMA GrossIsTotal ==
  ASSUME NEW S, IsFiniteSet(S), NEW f
  PROVE  Gross(f, S) = Total([a \in S |-> Abs(f[a])], S)
<1> DEFINE e == [a \in S |-> Abs(f[a])]
           IsGross(g) ==
             g = [s \in SUBSET S |-> IF s = {} THEN 0 ELSE Abs(f[Pick(s)]) + g[Rest(s)]]
<1>1. PICK g : IsSum(g, e, S) /\ Total(e, S) = g[S]
  BY TotalIsSum, Zenon
<1>2. \A h : IsSum(h, e, S) <=> IsGross(h)
  <2> TAKE h
  <2>1. \A s \in SUBSET S : s # {} => e[Pick(s)] = Abs(f[Pick(s)])
    BY RestFacts
  <2> HIDE DEF e
  <2>2. [s \in SUBSET S |-> IF s = {} THEN 0 ELSE e[Pick(s)] + h[Rest(s)]]
          = [s \in SUBSET S |-> IF s = {} THEN 0 ELSE Abs(f[Pick(s)]) + h[Rest(s)]]
    BY <2>1
  <2> QED  BY <2>2 DEF IsSum
<1> HIDE DEF e
<1> DEFINE c == CHOOSE h : IsGross(h)
<1>3. IsGross(c)
  BY <1>1, <1>2
<1>4. Gross(f, S) = c[S]
  BY Zenon DEF Gross, MapThenSumSet, MapThenFoldSet, Pick, Rest
<1>5. IsSum(c, e, S)
  BY <1>2, <1>3
<1>6. c[S] = g[S]
  BY <1>1, <1>5, SumUnique
<1> QED  BY <1>1, <1>4, <1>6 DEF e

\* Total is the first element's amount and the total of the rest.
LEMMA TotalStep ==
  ASSUME NEW S, IsFiniteSet(S), NEW f
  PROVE  Total(f, S) = IF S = {} THEN 0 ELSE f[Pick(S)] + Total(f, Rest(S))
<1>1. PICK g : IsSum(g, f, S) /\ Total(f, S) = g[S]
  BY TotalIsSum
<1>2. g[S] = IF S = {} THEN 0 ELSE f[Pick(S)] + g[Rest(S)]
  <2> DEFINE gg == [s \in SUBSET S |-> IF s = {} THEN 0 ELSE f[Pick(s)] + g[Rest(s)]]
  <2>1. g = gg
    BY <1>1 DEF IsSum
  <2>2. gg[S] = IF S = {} THEN 0 ELSE f[Pick(S)] + g[Rest(S)]
    OBVIOUS
  <2> QED  BY <2>1, <2>2, Zenon
<1>3. CASE S = {}
  BY <1>1, <1>2, <1>3
<1>4. CASE S # {}
  <2>1. Rest(S) \in SUBSET S /\ IsFiniteSet(Rest(S))
    BY <1>4, RestFacts, FS_Subset
  <2>2. PICK h : IsSum(h, f, Rest(S)) /\ Total(f, Rest(S)) = h[Rest(S)]
    BY <2>1, TotalIsSum
  <2>3. h[Rest(S)] = g[Rest(S)]
    BY <1>1, <2>1, <2>2, SumUnique
  <2> QED  BY <1>1, <1>2, <1>4, <2>2, <2>3
<1> QED  BY <1>3, <1>4

\* A total of integers is an integer.
LEMMA TotalInt ==
  ASSUME NEW S, IsFiniteSet(S), NEW f, \A a \in S : f[a] \in Int
  PROVE  Total(f, S) \in Int
<1> DEFINE G == {T \in SUBSET S : Total(f, T) \in Int}
<1>1. \A T \in SUBSET S : T = {} \/ Rest(T) \in G => T \in G
  <2> TAKE T \in SUBSET S
  <2>1. IsFiniteSet(T)
    BY FS_Subset
  <2>2. CASE T = {}
    BY <2>1, <2>2, TotalStep
  <2>3. ASSUME T # {}, Rest(T) \in G PROVE T \in G
    <3>1. Total(f, T) = f[Pick(T)] + Total(f, Rest(T))
      BY <2>1, <2>3, TotalStep
    <3>2. f[Pick(T)] \in Int
      BY <2>3, RestFacts
    <3> QED  BY <2>3, <3>1, <3>2
  <2> QED  BY <2>2, <2>3
<1> HIDE DEF G
<1>2. \A T \in SUBSET S : T \in G
  BY <1>1, SubsetInduction
<1> QED  BY <1>2 DEF G

\* On S, g is c parts in k of f.
Scaled(k, g, c, f, S) == \A a \in S : f[a] \in Int /\ g[a] \in Int /\ k * g[a] = c * f[a]

\* A factor common to all amounts comes out of the total.
LEMMA TotalScale ==
  ASSUME NEW S, IsFiniteSet(S), NEW k \in Int, NEW c \in Int, NEW f, NEW g, Scaled(k, g, c, f, S)
  PROVE  k * Total(g, S) = c * Total(f, S)
<1> USE DEF Scaled
<1> DEFINE G == {T \in SUBSET S : k * Total(g, T) = c * Total(f, T)}
<1>1. \A T \in SUBSET S : T = {} \/ Rest(T) \in G => T \in G
  <2> TAKE T \in SUBSET S
  <2>1. IsFiniteSet(T)
    BY FS_Subset
  <2>2. CASE T = {}
    BY <2>1, <2>2, TotalStep
  <2>3. ASSUME T # {}, Rest(T) \in G PROVE T \in G
    <3> DEFINE x == f[Pick(T)]
               y == g[Pick(T)]
               r == Total(f, Rest(T))
               s == Total(g, Rest(T))
    <3>1. Total(f, T) = x + r /\ Total(g, T) = y + s
      BY <2>1, <2>3, TotalStep
    <3>2. x \in Int /\ y \in Int /\ k * y = c * x
      BY <2>3, RestFacts
    <3>3. r \in Int /\ s \in Int
      <4>1. Rest(T) \in SUBSET S /\ IsFiniteSet(Rest(T))
        BY <2>1, <2>3, RestFacts, FS_Subset
      <4> QED  BY <4>1, TotalInt
    <3>4. k * s = c * r
      BY <2>3
    <3> HIDE DEF x, y, r, s
    <3>5. k * (y + s) = k * y + k * s /\ c * (x + r) = c * x + c * r
      BY <3>2, <3>3
    <3>6. k * Total(g, T) = c * Total(f, T)
      BY <3>1, <3>2, <3>4, <3>5
    <3> QED  BY <3>6
  <2> QED  BY <2>2, <2>3
<1> HIDE DEF G
<1>2. \A T \in SUBSET S : T \in G
  BY <1>1, SubsetInduction
<1> QED  BY <1>2 DEF G

\* The total of sums is the sum of the totals.
LEMMA TotalAdd ==
  ASSUME NEW S, IsFiniteSet(S), NEW e, NEW f, NEW g,
         \A a \in S : e[a] \in Int /\ f[a] \in Int /\ g[a] = e[a] + f[a]
  PROVE  Total(g, S) = Total(e, S) + Total(f, S)
<1> DEFINE G == {T \in SUBSET S : Total(g, T) = Total(e, T) + Total(f, T)}
<1>1. \A T \in SUBSET S : T = {} \/ Rest(T) \in G => T \in G
  <2> TAKE T \in SUBSET S
  <2>1. IsFiniteSet(T)
    BY FS_Subset
  <2>2. CASE T = {}
    BY <2>1, <2>2, TotalStep
  <2>3. ASSUME T # {}, Rest(T) \in G PROVE T \in G
    <3>1. /\ Total(e, T) = e[Pick(T)] + Total(e, Rest(T))
          /\ Total(f, T) = f[Pick(T)] + Total(f, Rest(T))
          /\ Total(g, T) = g[Pick(T)] + Total(g, Rest(T))
      BY <2>1, <2>3, TotalStep
    <3>2. e[Pick(T)] \in Int /\ f[Pick(T)] \in Int /\ g[Pick(T)] = e[Pick(T)] + f[Pick(T)]
      BY <2>3, RestFacts
    <3>3. Total(e, Rest(T)) \in Int /\ Total(f, Rest(T)) \in Int
      <4>1. Rest(T) \in SUBSET S /\ IsFiniteSet(Rest(T))
        BY <2>1, <2>3, RestFacts, FS_Subset
      <4> QED  BY <4>1, TotalInt
    <3> QED  BY <2>3, <3>1, <3>2, <3>3
  <2> QED  BY <2>2, <2>3
<1> HIDE DEF G
<1>2. \A T \in SUBSET S : T \in G
  BY <1>1, SubsetInduction
<1> QED  BY <1>2 DEF G

\* A total depends on the amounts in the set only.
LEMMA TotalSame ==
  ASSUME NEW S, IsFiniteSet(S), NEW f, NEW g,
         \A a \in S : f[a] \in Int /\ g[a] = f[a]
  PROVE  Total(g, S) = Total(f, S)
<1>1. Scaled(1, g, 1, f, S)
  BY DEF Scaled
<1>2. 1 * Total(g, S) = 1 * Total(f, S)
  BY <1>1, TotalScale
<1> QED  BY <1>2, TotalInt

\* A total of nothing is nothing.
LEMMA TotalZero ==
  ASSUME NEW S, IsFiniteSet(S), NEW f, \A a \in S : f[a] = 0
  PROVE  Total(f, S) = 0
<1>1. 1 * Total(f, S) = 0 * Total(f, S)
  BY TotalScale DEF Scaled
<1>2. Total(f, S) \in Int
  BY TotalInt
<1> QED  BY <1>1, <1>2

\* A gross amount is zero only if every amount is.
LEMMA GrossFacts ==
  ASSUME NEW S, IsFiniteSet(S), NEW f, \A a \in S : f[a] \in Int
  PROVE  /\ Gross(f, S) \in Nat
         /\ Gross(f, S) = 0 <=> \A a \in S : f[a] = 0
<1> DEFINE e == [a \in S |-> Abs(f[a])]
           G == {T \in SUBSET S : /\ Total(e, T) \in Nat
                                  /\ Total(e, T) = 0 => \A a \in T : f[a] = 0}
<1>1. \A a \in S : e[a] \in Nat /\ (e[a] = 0 <=> f[a] = 0)
  BY DEF Abs
<1> HIDE DEF e
<1>2. \A T \in SUBSET S : T = {} \/ Rest(T) \in G => T \in G
  <2> TAKE T \in SUBSET S
  <2>1. IsFiniteSet(T)
    BY FS_Subset
  <2>2. CASE T = {}
    BY <2>1, <2>2, TotalStep
  <2>3. ASSUME T # {}, Rest(T) \in G PROVE T \in G
    <3>1. Total(e, T) = e[Pick(T)] + Total(e, Rest(T))
      BY <2>1, <2>3, TotalStep
    <3>2. Pick(T) \in S /\ T = Rest(T) \cup {Pick(T)}
      BY <2>3, RestFacts
    <3> QED  BY <1>1, <2>3, <3>1, <3>2
  <2> QED  BY <2>2, <2>3
<1> HIDE DEF G
<1>3. S \in G
  BY <1>2, SubsetInduction
<1>4. Gross(f, S) = Total(e, S)
  BY GrossIsTotal DEF e
<1>5. (\A a \in S : f[a] = 0) => Total(e, S) = 0
  BY <1>1, TotalZero
<1> QED  BY <1>3, <1>4, <1>5 DEF G

\* Whatever is shared out in proportion to amounts of a total other than zero is shared out whole.
LEMMA ShareOut ==
  ASSUME NEW S, IsFiniteSet(S), NEW f, NEW g, NEW k \in Int, k # 0, NEW c \in Int,
         Total(f, S) = k, Scaled(k, g, c, f, S)
  PROVE  Total(g, S) = c
<1> DEFINE t == Total(g, S)
<1>1. k * t = c * k
  BY TotalScale
<1>2. t \in Int
  BY TotalInt DEF Scaled
<1> HIDE DEF t
<1>3. k * (t - c) = 0
  BY <1>1, <1>2
<1>4. t = c
  BY <1>2, <1>3
<1> QED  BY <1>4 DEF t

----------------------------------------------------------------------------
(* Shares and lots *)

\* The share n * part / whole is whole.
Exactly(n, part, whole) ==
  (IF whole < 0 THEN -(n * part) ELSE n * part) % Abs(whole) = 0

\* A share that divides exactly is the proportion it stands for.
LEMMA ShareFacts ==
  ASSUME NEW n \in Int, NEW part \in Int, NEW whole \in Int \ {0}, Exactly(n, part, whole)
  PROVE  Share(n, part, whole) \in Int /\ whole * Share(n, part, whole) = n * part
<1> DEFINE s == IF whole < 0 THEN -(n * part) ELSE n * part
           w == Abs(whole)
           q == s \div w
<1>1. s \in Int /\ w \in Nat \ {0}
  BY DEF Abs
<1>2. s % w = 0
  BY DEF Exactly
<1>3. Share(n, part, whole) = q
  BY <1>2 DEF Share
<1>4. w = IF whole < 0 THEN -whole ELSE whole
  BY DEF Abs
<1>5. n * part = IF whole < 0 THEN -s ELSE s
  OBVIOUS
<1> HIDE DEF s, w
<1>6. q \in Int /\ w * q = s
  BY <1>1, <1>2
<1> HIDE DEF q
<1>7. whole * q = n * part
  BY <1>1, <1>4, <1>5, <1>6
<1> QED  BY <1>3, <1>6, <1>7

\* Whole lots.
Lots(n) == n \in Int /\ n % Lot = 0

\* A multiple of the lot size is whole lots.
LEMMA LotTimes ==
  ASSUME NEW k \in Int
  PROVE  Lots(Lot * k)
<1>1. Lot \in Nat \ {0}
  BY HedgeAssumption
<1> DEFINE n == Lot * k
           q == n \div Lot
           r == n % Lot
<1>2. n \in Int /\ q \in Int /\ r \in 0 .. Lot - 1 /\ n = Lot * q + r
  BY <1>1
<1> HIDE DEF q, r
<1>3. Lot * (k - q) = r
  BY <1>1, <1>2
<1>4. CASE k - q >= 1
  <2>1. Lot * (k - q) >= Lot
    BY <1>1, <1>2, <1>4
  <2> QED  BY <1>1, <1>2, <1>3, <2>1
<1>5. CASE k - q <= -1
  <2>1. Lot * (k - q) <= -Lot
    BY <1>1, <1>2, <1>5
  <2> QED  BY <1>1, <1>2, <1>3, <2>1
<1>6. CASE k - q = 0
  BY <1>1, <1>2, <1>3, <1>6 DEF r, Lots
<1>7. k - q \in Int
  BY <1>2
<1> QED  BY <1>4, <1>5, <1>6, <1>7

\* Nothing is whole lots.
LEMMA NoLots == Lots(0)
BY HedgeAssumption DEF Lots

\* Whole lots are a multiple of the lot size.
LEMMA LotOf ==
  ASSUME NEW n, Lots(n)
  PROVE  n \in Int /\ \E k \in Int : n = Lot * k
<1>1. Lot \in Nat \ {0}
  BY HedgeAssumption
<1>2. n \in Int /\ n \div Lot \in Int /\ n = Lot * (n \div Lot)
  BY <1>1 DEF Lots
<1> QED  BY <1>2

\* Whole lots and whole lots are whole lots.
LEMMA LotPlus ==
  ASSUME NEW m, Lots(m), NEW n, Lots(n)
  PROVE  Lots(m + n)
<1>1. Lot \in Nat \ {0}
  BY HedgeAssumption
<1>2. PICK k \in Int : m = Lot * k
  BY LotOf
<1>3. PICK l \in Int : n = Lot * l
  BY LotOf
<1>4. m + n = Lot * (k + l)
  BY <1>1, <1>2, <1>3
<1>5. k + l \in Int
  OBVIOUS
<1> QED  BY <1>4, <1>5, LotTimes

\* An order is whole lots.
LEMMA RoundToLotFacts ==
  ASSUME NEW n \in Int
  PROVE  Lots(RoundToLot(n))
<1>1. Lot \in Nat \ {0} /\ 5 * Lot \in Nat \ {0}
  BY HedgeAssumption
<1>2. CASE n < 0
  <2> DEFINE k == (-n) \div (5 * Lot)
  <2>1. k \in Int
    BY <1>1
  <2>2. RoundToLot(n) = -Lot * k
    BY <1>2 DEF RoundToLot
  <2> HIDE DEF k
  <2>3. RoundToLot(n) = Lot * (-k) /\ -k \in Int
    BY <1>1, <2>1, <2>2
  <2> QED  BY <2>3, LotTimes
<1>3. CASE ~(n < 0)
  <2> DEFINE k == n \div (5 * Lot)
  <2>1. k \in Int
    BY <1>1
  <2>2. RoundToLot(n) = Lot * k
    BY <1>3 DEF RoundToLot
  <2> HIDE DEF k
  <2> QED  BY <2>1, <2>2, LotTimes
<1> QED  BY <1>2, <1>3

----------------------------------------------------------------------------
(* The inductive invariant *)

\* Events, rows of snapshots, news since a snapshot, positions wanted.
Event == [co : BOOLEAN, fx : BOOLEAN, live : Int, demo : Int, rows : [Account -> Int]]
Rows == [live : Int, demo : Int, rows : [Account -> Int]]
News == [asked : SUBSET company, acted : BOOLEAN, ordered : BOOLEAN, demo : Int]
Plan == [Account -> Wishes \cup {None}]

\* Orders are whole lots; the position at the broker is if trades past the system are.
LotsInv ==
  /\ Lots(working) /\ Lots(late)
  /\ market \in Int /\ ((\A m \in Moves : Lots(m)) => Lots(market))

\* TypeOK, with the types of what it leaves out.
TypeInv ==
  /\ company \in Companies /\ active \subseteq company
  /\ want \in Plan /\ wish \in Plan
  /\ LotsInv
  /\ snap \in Rows /\ held \in [Account -> Int]
  /\ window \in News
  /\ cur \in Event
  /\ stage \in {"idle", "demo", "live", "hedge", "waiting"} /\ ending \in BOOLEAN
  /\ disturbed \in 0 .. MaxDisturb

\* The shares that the attribution to the accounts of a type computes divide without remainder.
ExactFor(type) ==
  LET S == OfType(type)
      amount == CompanyAmount(type)
      total == Total(held, S)
      desired == Amount(wish)
  IN  \A a \in S :
        /\ Unwanted(type) /\ held[a] # 0 =>
             IF total = 0 THEN Exactly(amount, Abs(held[a]), Gross(held, S))
             ELSE Exactly(held[a], amount, total)
        /\ ~Unwanted(type) /\ desired[a] # 0 =>
             Exactly(amount - Total(desired, S), Abs(desired[a]), Gross(desired, S))

\* So do those of the attribution that comes next, if it stores anything.  That is what Share
\* asserts whenever it is evaluated, so that every state TLC finds in the run satisfies it.
Exact == stage \in Types /\ Stored(stage) => ExactFor(stage)

\* The size of an amount.
LEMMA AbsInt ==
  ASSUME NEW n \in Int
  PROVE  Abs(n) \in Nat /\ (Abs(n) = 0 <=> n = 0)
BY DEF Abs

\* The accounts of a type are finitely many.
LEMMA OfTypeFacts ==
  ASSUME TypeInv
  PROVE  /\ company \subseteq Account /\ IsFiniteSet(Account)
         /\ \A type : OfType(type) \subseteq Account /\ OfType(type) \subseteq company
         /\ \A S : S \subseteq Account => IsFiniteSet(S)
BY HedgeAssumption, FS_Subset DEF TypeInv, OfType

\* Positions wanted, none being zero, are integers.
LEMMA AmountType ==
  ASSUME NEW w \in Plan
  PROVE  Amount(w) \in [Account -> Int]
<1>1. \A a \in Account : w[a] \in Wishes \cup {None}
  BY DEF Plan
<1>2. \A a \in Account : (IF w[a] = None THEN 0 ELSE w[a]) \in Int
  <2> TAKE a \in Account
  <2>1. CASE w[a] = None
    BY <2>1
  <2>2. CASE w[a] # None
    <3>1. w[a] \in Wishes
      BY <1>1, <2>2
    <3>2. w[a] \in Int
      BY <3>1, HedgeAssumption
    <3> QED  BY <2>2, <3>2
  <2> QED  BY <2>1, <2>2
<1> QED  BY <1>2 DEF Amount

\* Totals of rows are integers.
LEMMA TotalType ==
  ASSUME TypeInv, NEW f \in [Account -> Int], NEW S, S \subseteq Account
  PROVE  Total(f, S) \in Int
BY OfTypeFacts, TotalInt

\* So are gross amounts of rows.
LEMMA GrossType ==
  ASSUME TypeInv, NEW f \in [Account -> Int], NEW S, S \subseteq Account
  PROVE  Gross(f, S) \in Nat /\ (Gross(f, S) = 0 <=> \A a \in S : f[a] = 0)
BY OfTypeFacts, GrossFacts

\* So is the position a reconciliation starts from.
LEMMA CompanyAmountType ==
  ASSUME TypeInv, NEW type \in Types
  PROVE  CompanyAmount(type) \in Int
BY DEF TypeInv, Types, CompanyAmount, Event, Rows

\* Accounts that want nothing keep together what the company holds, if one of them held something.
LEMMA KeepFacts ==
  ASSUME TypeInv, NEW type \in Types, ExactFor(type), Unwanted(type)
  PROVE  /\ KeepHolding(type) \in [OfType(type) -> Int]
         /\ (\E a \in OfType(type) : held[a] # 0)
              => Total(KeepHolding(type), OfType(type)) = CompanyAmount(type)
<1> DEFINE S == OfType(type)
           c == CompanyAmount(type)
           t == Total(held, S)
           n == Gross(held, S)
           keep == KeepHolding(type)
<1>1. S \subseteq Account /\ IsFiniteSet(S)
  BY OfTypeFacts
<1>2. held \in [Account -> Int]
  BY DEF TypeInv
<1>3. c \in Int /\ t \in Int /\ n \in Nat /\ (n = 0 <=> \A a \in S : held[a] = 0)
  BY <1>1, <1>2, CompanyAmountType, TotalType, GrossType
<1>4. \A a \in S : held[a] \in Int
  BY <1>1, <1>2
<1>5. CASE t = 0
  <2> DEFINE e == [a \in S |-> Abs(held[a])]
  <2>1. keep = [a \in S |-> IF held[a] = 0 THEN 0 ELSE Share(c, Abs(held[a]), n)]
    BY <1>5 DEF KeepHolding
  <2>2. \A a \in S : keep[a] \in Int /\ n * keep[a] = c * Abs(held[a])
    <3> TAKE a \in S
    <3>1. Abs(held[a]) \in Nat /\ (Abs(held[a]) = 0 <=> held[a] = 0)
      BY <1>4, AbsInt
    <3>2. CASE held[a] = 0
      BY <1>3, <2>1, <3>1, <3>2
    <3>3. CASE held[a] # 0
      <4>1. Exactly(c, Abs(held[a]), n)
        BY <1>5, <3>3 DEF ExactFor
      <4>2. n \in Int \ {0}
        BY <1>3, <3>3
      <4>3. Share(c, Abs(held[a]), n) \in Int /\ n * Share(c, Abs(held[a]), n) = c * Abs(held[a])
        BY <1>3, <3>1, <4>1, <4>2, ShareFacts
      <4> QED  BY <2>1, <3>3, <4>3
    <3> QED  BY <3>2, <3>3
  <2>3. \A a \in S : Abs(held[a]) \in Int
    BY <1>4, AbsInt
  <2>4. Total(e, S) = n
    BY <1>1, GrossIsTotal
  <2>5. Scaled(n, keep, c, e, S)
    BY <2>2, <2>3 DEF Scaled
  <2>6. n # 0 => Total(keep, S) = c
    <3> HIDE DEF e, keep, S, c, n
    <3> QED  BY <1>1, <1>3, <2>4, <2>5, ShareOut
  <2>7. keep \in [S -> Int]
    BY <2>1, <2>2
  <2> QED  BY <1>3, <2>6, <2>7
<1>6. CASE t # 0
  <2>1. keep = [a \in S |-> IF held[a] = 0 THEN 0 ELSE Share(held[a], c, t)]
    BY <1>6 DEF KeepHolding
  <2>2. \A a \in S : keep[a] \in Int /\ t * keep[a] = c * held[a]
    <3> TAKE a \in S
    <3>1. held[a] \in Int
      BY <1>4
    <3>2. CASE held[a] = 0
      BY <1>3, <2>1, <3>2
    <3>3. CASE held[a] # 0
      <4>1. Exactly(held[a], c, t)
        BY <1>6, <3>3 DEF ExactFor
      <4>2. Share(held[a], c, t) \in Int /\ t * Share(held[a], c, t) = held[a] * c
        BY <1>3, <1>6, <3>1, <4>1, ShareFacts
      <4>3. held[a] * c = c * held[a]
        BY <1>3, <3>1
      <4> QED  BY <2>1, <3>3, <4>2, <4>3
    <3> QED  BY <3>2, <3>3
  <2>3. Scaled(t, keep, c, held, S)
    BY <1>4, <2>2 DEF Scaled
  <2>4. Total(keep, S) = c
    <3> HIDE DEF keep, S, c
    <3>1. Total(held, S) = t
      OBVIOUS
    <3> HIDE DEF t
    <3> QED  BY <1>1, <1>3, <1>6, <2>3, <3>1, ShareOut
  <2>5. keep \in [S -> Int]
    BY <2>1, <2>2
  <2> QED  BY <2>4, <2>5
<1> QED  BY <1>5, <1>6

\* Accounts that want something get together what the company holds.
LEMMA DistributeFacts ==
  ASSUME TypeInv, NEW type \in Types, ExactFor(type), ~Unwanted(type)
  PROVE  /\ Distribute(type) \in [OfType(type) -> Int]
         /\ Total(Distribute(type), OfType(type)) = CompanyAmount(type)
<1> DEFINE S == OfType(type)
           c == CompanyAmount(type)
           d == Amount(wish)
           t == Total(d, S)
           n == Gross(d, S)
           e == [a \in S |-> Abs(d[a])]
           more == [a \in S |-> IF d[a] = 0 THEN 0 ELSE Share(c - t, Abs(d[a]), n)]
           new == Distribute(type)
<1>1. S \subseteq Account /\ IsFiniteSet(S)
  BY OfTypeFacts
<1>2. d \in [Account -> Int]
  BY AmountType DEF TypeInv
<1>3. c \in Int /\ t \in Int /\ n \in Nat /\ (n = 0 <=> \A a \in S : d[a] = 0)
  <2> HIDE DEF d
  <2> QED  BY <1>1, <1>2, CompanyAmountType, TotalType, GrossType
<1>4. \A a \in S : d[a] \in Int /\ Abs(d[a]) \in Nat /\ (Abs(d[a]) = 0 <=> d[a] = 0)
  <2> HIDE DEF d
  <2> QED  BY <1>1, <1>2, AbsInt
<1>5. new = [a \in S |-> IF d[a] = 0 THEN 0 ELSE d[a] + Share(c - t, Abs(d[a]), n)]
  BY DEF Distribute
<1>6. \A a \in S : d[a] # 0 => Exactly(c - t, Abs(d[a]), n)
  BY DEF ExactFor
<1>7. n = 0 => c = 0
  BY DEF Unwanted
<1> HIDE DEF S, c, d, t, n, new
<1>8. \A a \in S : more[a] \in Int /\ n * more[a] = (c - t) * Abs(d[a])
  <2> TAKE a \in S
  <2>1. CASE d[a] = 0
    BY <1>3, <1>4, <2>1
  <2>2. CASE d[a] # 0
    <3>1. n \in Int \ {0} /\ c - t \in Int
      BY <1>3, <2>2
    <3>2. /\ Share(c - t, Abs(d[a]), n) \in Int
          /\ n * Share(c - t, Abs(d[a]), n) = (c - t) * Abs(d[a])
      BY <1>4, <1>6, <2>2, <3>1, ShareFacts
    <3> QED  BY <2>2, <3>2
  <2> QED  BY <2>1, <2>2
<1>9. \A a \in S : new[a] = d[a] + more[a]
  BY <1>4, <1>5
<1>10. new \in [S -> Int]
  BY <1>4, <1>5, <1>8, <1>9
<1>11. Total(new, S) = t + Total(more, S)
  <2> HIDE DEF more
  <2> QED  BY <1>1, <1>4, <1>8, <1>9, TotalAdd DEF t
<1>12. CASE n = 0
  <2>1. \A a \in S : new[a] = 0
    BY <1>3, <1>5, <1>12
  <2>2. Total(new, S) = 0
    BY <1>1, <2>1, TotalZero
  <2> QED  BY <1>7, <1>10, <1>12, <2>2 DEF S, c, new
<1>13. CASE n # 0
  <2>1. Total(e, S) = n
    BY <1>1, GrossIsTotal DEF n
  <2>2. Scaled(n, more, c - t, e, S)
    BY <1>4, <1>8 DEF Scaled
  <2>3. Total(more, S) = c - t
    <3> HIDE DEF e, more
    <3>1. c - t \in Int
      BY <1>3
    <3> QED  BY <1>1, <1>3, <1>13, <2>1, <2>2, <3>1, ShareOut
  <2>4. Total(new, S) = c
    BY <1>3, <1>11, <2>3
  <2> QED  BY <1>10, <2>4 DEF S, c, new
<1> QED  BY <1>12, <1>13

\* What is stored of an attribution adds up to what the company holds.
LEMMA FinalFacts ==
  ASSUME TypeInv, NEW type \in Types, ExactFor(type), Stored(type)
  PROVE  /\ FinalPositions(type) \in [OfType(type) -> Int]
         /\ Total(FinalPositions(type), OfType(type)) = CompanyAmount(type)
<1>1. CASE Unwanted(type)
  BY <1>1, KeepFacts DEF FinalPositions, Stored
<1>2. CASE ~Unwanted(type)
  BY <1>2, DistributeFacts DEF FinalPositions
<1> QED  BY <1>1, <1>2

----------------------------------------------------------------------------
(* The type invariant is kept *)

\* What a reconciliation makes of the event being written.
LEMMA ReconciledType ==
  ASSUME TypeInv, NEW type \in Types, Stored(type) => ExactFor(type)
  PROVE  /\ Reconciled(type) \in Event
         /\ Reconciled(type).live = cur.live /\ Reconciled(type).demo = cur.demo
         /\ IF Stored(type)
              THEN /\ Reconciled(type).co /\ Reconciled(type).fx
                   /\ \A a \in Account :
                        Reconciled(type).rows[a] = IF a \in OfType(type) THEN FinalPositions(type)[a]
                                                   ELSE cur.rows[a]
              ELSE Reconciled(type) = cur
<1> DEFINE rows == [a \in Account |-> IF a \in OfType(type) THEN FinalPositions(type)[a]
                                      ELSE cur.rows[a]]
<1>1. cur \in Event
  BY DEF TypeInv
<1>3. CASE Stored(type)
  <2>0. rows \in [Account -> Int]
    <3>1. \A a \in Account : cur.rows[a] \in Int
      BY <1>1 DEF Event
    <3>2. \A a \in OfType(type) : FinalPositions(type)[a] \in Int
      BY <1>3, FinalFacts
    <3> QED  BY <3>1, <3>2
  <2>1. Reconciled(type) = [cur EXCEPT !.co = TRUE, !.fx = TRUE, !.rows = rows]
    BY <1>3 DEF Reconciled
  <2>2. \A a \in Account : rows[a] = IF a \in OfType(type) THEN FinalPositions(type)[a]
                                      ELSE cur.rows[a]
    OBVIOUS
  <2> HIDE DEF rows
  <2>3. Reconciled(type).rows = rows
    BY <1>1, <2>1 DEF Event
  <2> QED  BY <1>1, <1>3, <2>0, <2>1, <2>2, <2>3 DEF Event
<1>4. CASE ~Stored(type)
  BY <1>1, <1>4 DEF Reconciled
<1> QED  BY <1>3, <1>4

\* Rows with nothing in them.
LEMMA FlatType == Flat \in [Account -> Int] /\ \A a \in Account : Flat[a] = 0
BY DEF Flat

\* An event concluded leaves well-formed rows.
LEMMA ConcludeType ==
  ASSUME TypeInv, NEW event \in Event, Conclude(event), UNCHANGED company
  PROVE  snap' \in Rows /\ held' \in [Account -> Int] /\ window' \in News' /\ cur' \in Event
<1>1. snap' \in Rows
  BY DEF Conclude, TypeInv, Event, Rows
<1>2. held' \in [Account -> Int]
  BY DEF Conclude, TypeInv, Event
<1>3. window' \in News'
  BY DEF Conclude, TypeInv, News, NoNews
<1>4. cur' \in Event
  BY FlatType DEF Conclude, NoEvent, Event
<1> QED  BY <1>1, <1>2, <1>3, <1>4

\* A snapshot begins a well-formed event.
LEMMA TakeSnapshotType ==
  ASSUME TypeInv, NEW end \in BOOLEAN, TakeSnapshot(end)
  PROVE  cur' \in Event /\ stage' = "demo" /\ ending' = end
<1>1. ExpectedDemo.some \in BOOLEAN /\ ExpectedDemo.amount \in Int
  <2> DEFINE rows == IF OfType("live") = {} THEN snap.rows ELSE Flat
  <2>1. rows \in [Account -> Int]
    BY FlatType DEF TypeInv, Rows
  <2>2. Total(rows, Account) \in Int
    <3> HIDE DEF rows
    <3> QED  BY <2>1, TotalType
  <2>3. window.demo \in Int /\ window.ordered \in BOOLEAN
    BY DEF TypeInv, News
  <2> HIDE DEF rows
  <2>4. ExpectedDemo.amount = Total(rows, Account) + window.demo
    BY DEF ExpectedDemo, rows
  <2>5. ExpectedDemo.some \in BOOLEAN
    BY DEF ExpectedDemo
  <2> QED  BY <2>2, <2>3, <2>4, <2>5
<1>2. market \in Int
  BY DEF TypeInv, LotsInv
<1> DEFINE demo == ExpectedDemo
           atBroker == OfType("live") # {}
<1>3. cur' = [NoEvent EXCEPT !.co = atBroker \/ demo.some,
                             !.live = IF atBroker THEN market ELSE 0,
                             !.demo = IF demo.some THEN demo.amount ELSE 0]
  BY DEF TakeSnapshot
<1>4. cur' = [co |-> atBroker \/ demo.some, fx |-> FALSE, live |-> IF atBroker THEN market ELSE 0,
              demo |-> IF demo.some THEN demo.amount ELSE 0, rows |-> Flat]
  BY <1>3 DEF NoEvent
<1>5. cur' \in Event
  <2>1. (IF atBroker THEN market ELSE 0) \in Int
    BY <1>2
  <2>2. (IF demo.some THEN demo.amount ELSE 0) \in Int
    BY <1>1
  <2>3. (atBroker \/ demo.some) \in BOOLEAN
    OBVIOUS
  <2> QED  BY <1>4, <2>1, <2>2, <2>3, FlatType DEF Event
<1> QED  BY <1>5 DEF TakeSnapshot

\* What goes wrong is counted within its bound.
LEMMA DisturbType ==
  ASSUME TypeInv, Disturb
  PROVE  disturbed' \in 0 .. MaxDisturb
BY HedgeAssumption DEF TypeInv, Disturb

\* What to trade is an integer.
LEMMA DeltaType ==
  ASSUME TypeInv, NEW S, S \subseteq Account, NEW fifths \in {5} \cup Cuts
  PROVE  Delta(S, fifths) \in Int
<1>1. Amount(want) \in [Account -> Int]
  BY AmountType DEF TypeInv
<1>2. snap.rows \in [Account -> Int]
  BY DEF TypeInv, Rows
<1>3. Total(Amount(want), S) \in Int /\ Total(snap.rows, S) \in Int
  BY <1>1, <1>2, TotalType
<1>4. fifths \in Int
  BY HedgeAssumption
<1> QED  BY <1>3, <1>4 DEF Delta

\* A hedge action keeps the types, and is an action since the snapshot.
LEMMA HedgeType ==
  ASSUME TypeInv, Hedge
  PROVE  TypeInv' /\ window'.acted /\ stage' = "waiting" /\ UNCHANGED <<company, snap, held, cur>>
<1>1. PICK hedged \in SUBSET active, placed \in SUBSET Types, fifths \in {5} \cup Cuts :
     \E asked \in SUBSET Concerned(hedged), told \in SUBSET Wanting(hedged) :
       LET live == Concerned(hedged \cap Live)
           demo == Concerned(hedged \ Live)
       IN  /\ live = {} => "live" \in placed /\ fifths = 5
           /\ demo = {} => "demo" \in placed
           /\ DisturbIf(\/ hedged # active
                        \/ asked # live \cup demo
                        \/ told # Wanting(hedged)
                        \/ placed # Types
                        \/ fifths # 5)
           /\ wish' = [a \in Account |-> IF a \in told THEN want[a] ELSE None]
           /\ late' = late + working
           /\ working' = IF "live" \in placed THEN RoundToLot(Delta(live, fifths)) ELSE 0
           /\ window' =
                [asked |-> window.asked \cup asked,
                 acted |-> TRUE,
                 ordered |-> window.ordered \/ ("demo" \in placed /\ demo # {}),
                 demo |-> window.demo
                          + IF "demo" \in placed THEN RoundToLot(Delta(demo, 5)) ELSE 0]
  BY Zenon DEF Hedge
<1>2. PICK asked \in SUBSET Concerned(hedged), told \in SUBSET Wanting(hedged) :
       LET live == Concerned(hedged \cap Live)
           demo == Concerned(hedged \ Live)
       IN  /\ live = {} => "live" \in placed /\ fifths = 5
           /\ demo = {} => "demo" \in placed
           /\ DisturbIf(\/ hedged # active
                        \/ asked # live \cup demo
                        \/ told # Wanting(hedged)
                        \/ placed # Types
                        \/ fifths # 5)
           /\ wish' = [a \in Account |-> IF a \in told THEN want[a] ELSE None]
           /\ late' = late + working
           /\ working' = IF "live" \in placed THEN RoundToLot(Delta(live, fifths)) ELSE 0
           /\ window' =
                [asked |-> window.asked \cup asked,
                 acted |-> TRUE,
                 ordered |-> window.ordered \/ ("demo" \in placed /\ demo # {}),
                 demo |-> window.demo
                          + IF "demo" \in placed THEN RoundToLot(Delta(demo, 5)) ELSE 0]
  BY <1>1
<1> DEFINE live == Concerned(hedged \cap Live)
           demo == Concerned(hedged \ Live)
<1>3. /\ Concerned(hedged) \subseteq company
      /\ live \subseteq Account /\ demo \subseteq Account
  BY OfTypeFacts DEF TypeInv, Concerned, Wanting
<1>4. Lots(RoundToLot(Delta(live, fifths))) /\ RoundToLot(Delta(demo, 5)) \in Int
  BY <1>3, DeltaType, RoundToLotFacts, LotOf
<1>5. Lots(late')
  BY <1>2, LotPlus DEF TypeInv, LotsInv
<1>6. Lots(working')
  BY <1>2, <1>4, NoLots
<1>7. window' \in News' /\ window'.acted
  <2>1. UNCHANGED company /\ window \in News
    BY DEF Hedge, TypeInv
  <2>2. window.demo + (IF "demo" \in placed THEN RoundToLot(Delta(demo, 5)) ELSE 0) \in Int
    BY <1>4, <2>1 DEF News
  <2>3. window.asked \cup asked \in SUBSET company
    BY <1>3, <2>1 DEF News
  <2>4. (window.ordered \/ ("demo" \in placed /\ demo # {})) \in BOOLEAN
    OBVIOUS
  <2> HIDE DEF demo, live
  <2> QED  BY <1>2, <2>1, <2>2, <2>3, <2>4 DEF News, demo
<1>8. wish' \in Plan
  <2>1. want \in Plan
    BY DEF TypeInv
  <2> QED  BY <1>2, <2>1 DEF Plan
<1>9. disturbed' \in 0 .. MaxDisturb
  BY <1>2, DisturbType DEF TypeInv, DisturbIf
<1>10. /\ stage' = "waiting"
       /\ UNCHANGED <<company, active, want, market, snap, held, cur, ending>>
  BY DEF Hedge
<1> QED  BY <1>5, <1>6, <1>7, <1>8, <1>9, <1>10 DEF TypeInv, LotsInv

\* An order filled in part leaves whole lots.
LEMMA FillShortType ==
  ASSUME TypeInv, FillShort
  PROVE  TypeInv'
<1> DEFINE part == Abs(working) \div Lot
<1>1. PICK lots \in 0 .. part - 1 :
        market' = market + (IF working < 0 THEN -lots ELSE lots) * Lot
  BY Zenon DEF FillShort
<1>2. Lot \in Nat \ {0}
  BY HedgeAssumption
<1>3. working \in Int /\ market \in Int
  BY LotOf DEF TypeInv, LotsInv
<1>4. part \in Int
  BY <1>2, <1>3, AbsInt
<1> HIDE DEF part
<1> DEFINE k == IF working < 0 THEN -lots ELSE lots
<1>5. k \in Int
  BY <1>4
<1>6. market' = market + Lot * k
  <2>1. k * Lot = Lot * k
    BY <1>2, <1>5
  <2> QED  BY <1>1, <2>1
<1> HIDE DEF k
<1>7. LotsInv'
  <2>1. Lots(Lot * k) /\ Lot * k \in Int
    BY <1>5, LotTimes, LotOf
  <2>2. market' \in Int /\ (Lots(market) => Lots(market'))
    BY <1>3, <1>6, <2>1, LotPlus
  <2>3. working' = 0 /\ late' = late
    BY DEF FillShort
  <2> QED  BY <2>2, <2>3, NoLots DEF TypeInv, LotsInv
<1> QED  BY <1>7, DisturbType DEF TypeInv, FillShort, books, News

\* Attribution keeps the types.
LEMMA ReconcileType ==
  ASSUME TypeInv, Exact, ReconcileDemo \/ ReconcileLive
  PROVE  TypeInv'
<1>1. CASE ReconcileDemo
  <2>1. Stored("demo") => ExactFor("demo")
    BY <1>1 DEF ReconcileDemo, Exact, Types
  <2>2. cur' \in Event
    BY <1>1, <2>1, ReconciledType DEF ReconcileDemo, Types
  <2> QED  BY <1>1, <2>2 DEF ReconcileDemo, TypeInv, LotsInv, News
<1>2. CASE ReconcileLive
  <2>1. Stored("live") => ExactFor("live")
    BY <1>2 DEF ReconcileLive, Exact, Types
  <2>2. PICK event \in Event : Conclude(event)
    BY <1>2, <2>1, ReconciledType DEF ReconcileLive, Types
  <2>3. snap' \in Rows /\ held' \in [Account -> Int] /\ window' \in News' /\ cur' \in Event
    BY <1>2, <2>2, ConcludeType DEF ReconcileLive
  <2> QED  BY <1>2, <2>3 DEF ReconcileLive, TypeInv, LotsInv
<1> QED  BY <1>1, <1>2

\* Taking a snapshot keeps the types.
LEMMA SnapshotType ==
  ASSUME TypeInv, StartEod \/ EndEod \/ Timeout
  PROVE  TypeInv'
<1>1. PICK end \in BOOLEAN : TakeSnapshot(end)
  BY DEF StartEod, EndEod, Timeout
<1>2. cur' \in Event /\ stage' = "demo" /\ ending' = end
  BY <1>1, TakeSnapshotType
<1>3. disturbed' \in 0 .. MaxDisturb
  BY DisturbType DEF StartEod, EndEod, Timeout, TypeInv
<1>4. UNCHANGED <<company, active, want, market, working, late, snap, held, wish, window>>
  BY <1>1 DEF TakeSnapshot
<1> QED  BY <1>2, <1>3, <1>4 DEF TypeInv, LotsInv, News

\* So does a chain that breaks off.
LEMMA BreakType ==
  ASSUME TypeInv, StartFails \/ ChainDies
  PROVE  TypeInv'
<1>1. cur \in Event
  BY DEF TypeInv
<1>2. snap' \in Rows /\ held' \in [Account -> Int] /\ window' \in News' /\ cur' \in Event
  BY <1>1, ConcludeType DEF StartFails, ChainDies
<1>3. disturbed' \in 0 .. MaxDisturb
  BY DisturbType DEF StartFails, ChainDies
<1> QED  BY <1>2, <1>3 DEF StartFails, ChainDies, TypeInv, LotsInv

\* So do fills and trades past the system.
LEMMA MarketType ==
  ASSUME TypeInv, Fill \/ FillLate \/ TradeOutside
  PROVE  TypeInv'
<1>1. LotsInv /\ working \in Int /\ late \in Int /\ market \in Int
  BY LotOf DEF TypeInv, LotsInv
<1>2. LotsInv'
  <2>1. CASE Fill
    <3>1. Lots(working) /\ Lots(late) /\ (Lots(market) => Lots(market + working))
      BY <1>1, LotPlus DEF LotsInv
    <3> QED  BY <1>1, <2>1, <3>1, NoLots DEF Fill, LotsInv
  <2>2. CASE FillLate
    <3>1. Lots(working) /\ Lots(late) /\ (Lots(market) => Lots(market + late))
      BY <1>1, LotPlus DEF LotsInv
    <3> QED  BY <1>1, <2>2, <3>1, NoLots DEF FillLate, LotsInv
  <2>3. CASE TradeOutside
    <3>1. PICK m \in Moves : market' = market + m
      BY <2>3 DEF TradeOutside
    <3>2. m \in Int
      BY HedgeAssumption
    <3> QED  BY <1>1, <2>3, <3>1, <3>2, LotPlus DEF TradeOutside, LotsInv
  <2> QED  BY <2>1, <2>2, <2>3
<1>3. disturbed' \in 0 .. MaxDisturb
  BY DisturbType DEF Fill, FillLate, TradeOutside, TypeInv
<1> QED  BY <1>2, <1>3 DEF Fill, FillLate, TradeOutside, TypeInv, books, News

\* So do changes of the company.
LEMMA CompanyType ==
  ASSUME TypeInv, ChangeWant \/ Deactivate \/ Activate
  PROVE  TypeInv'
<1>1. disturbed' \in 0 .. MaxDisturb
  BY DisturbType DEF ChangeWant, Deactivate, Activate
<1>2. UNCHANGED <<company, market, working, late, books, wish, stage, ending>>
  BY DEF ChangeWant, Deactivate, Activate
<1>3. active' \subseteq company /\ want' \in Plan
  BY DEF ChangeWant, Deactivate, Activate, TypeInv, Plan
<1> QED  BY <1>1, <1>2, <1>3 DEF TypeInv, LotsInv, books, News

\* Every step keeps the types.
LEMMA TypeStep ==
  ASSUME TypeInv, Exact, [Next]_vars
  PROVE  TypeInv'
<1>1. CASE StartEod \/ EndEod \/ Timeout
  BY <1>1, SnapshotType
<1>2. CASE ReconcileDemo \/ ReconcileLive
  BY <1>2, ReconcileType
<1>3. CASE Hedge
  BY <1>3, HedgeType
<1>4. CASE StartFails \/ ChainDies
  BY <1>4, BreakType
<1>5. CASE Fill \/ FillLate \/ TradeOutside
  BY <1>5, MarketType
<1>6. CASE FillShort
  BY <1>6, FillShortType
<1>7. CASE ChangeWant \/ Deactivate \/ Activate
  BY <1>7, CompanyType
<1>8. CASE UNCHANGED vars
  BY <1>8 DEF vars, books, TypeInv, LotsInv, News
<1> QED  BY <1>1, <1>2, <1>3, <1>4, <1>5, <1>6, <1>7, <1>8 DEF Next, Chain

\* They hold at first.
LEMMA TypeInit ==
  ASSUME Init
  PROVE  TypeInv
<1>1. LotsInv
  BY NoLots DEF Init, LotsInv
<1>2. want \in Plan /\ wish \in Plan
  BY DEF Init, Plan
<1>3. snap \in Rows /\ held \in [Account -> Int] /\ cur \in Event /\ window \in News
  BY FlatType DEF Init, Rows, Event, News, NoEvent, NoNews
<1> QED  BY <1>1, <1>2, <1>3, HedgeAssumption DEF Init, TypeInv

\* Rows stay well-formed, and orders whole lots, as long as shares divide exactly: float arithmetic in
\* the code, exact fractions here.  A fraction becomes whole when all amounts are counted in a smaller
\* unit, and any finite number of days has a unit small enough.
THEOREM HedgeTypeOK == Spec /\ []Exact => []TypeOK
<1>1. Init => TypeInv
  BY TypeInit
<1>2. TypeInv /\ Exact /\ [Next]_vars => TypeInv'
  BY TypeStep
<1>3. TypeInv => TypeOK
  <2> SUFFICES ASSUME TypeInv PROVE TypeOK
    OBVIOUS
  <2>1. /\ \A n \in {working, late} : n \in Int /\ n % Lot = 0
        /\ market \in Int /\ ((\A m \in Moves : m % Lot = 0) => market % Lot = 0)
    <3>1. \A m \in Moves : m \in Int
      BY HedgeAssumption
    <3> QED  BY <3>1 DEF TypeInv, LotsInv, Lots
  <2> QED  BY <2>1 DEF TypeInv, TypeOK, Plan, Rows, News
<1> QED  BY <1>1, <1>2, <1>3, PTL DEF Spec

----------------------------------------------------------------------------
(* Attribution *)

\* What the LIVE accounts get of so much by what they want.
Given(amount) ==
  LET S == OfType("live")
      desired == Amount(wish)
      excess == amount - Total(desired, S)
      gross == Gross(desired, S)
  IN  [a \in S |->
        IF desired[a] = 0 THEN 0 ELSE desired[a] + Share(excess, Abs(desired[a]), gross)]

\* A company with LIVE accounts has its position in the event being attributed, and rows of LIVE
\* accounts are written only when the event is concluded.
EventInv ==
  /\ stage \in {"demo", "live"} /\ OfType("live") # {} => cur.co
  /\ \A a \in OfType("live") : cur.rows[a] = 0

\* As long as there was no hedge action since the latest snapshot, its LIVE rows are empty, or what
\* accounts that want nothing were left with, or what the wishes of the latest action give.
SettledInv ==
  ~window.acted =>
    /\ window.asked = {}
    /\ \/ \A a \in OfType("live") : snap.rows[a] = 0
       \/ Gross(Amount(wish), OfType("live")) = 0 /\ snap.live # 0
       \/ \A a \in OfType("live") : snap.rows[a] = Given(snap.live)[a]

\* The inductive invariant.
HedgeInv == TypeInv /\ EventInv /\ Attributed /\ SettledInv

\* The accounts of a type change with the company only.
LEMMA LiveUnchanged ==
  ASSUME UNCHANGED company
  PROVE  \A type : OfType(type)' = OfType(type)
BY DEF OfType

\* Rows in which no LIVE account holds anything are attributed.
LEMMA AttributedNothing ==
  ASSUME TypeInv, \A a \in OfType("live") : snap.rows[a] = 0
  PROVE  Attributed
<1>1. IsFiniteSet(OfType("live"))
  BY OfTypeFacts
<1>2. Total(snap.rows, OfType("live")) = 0
  BY <1>1, TotalZero
<1> QED  BY <1>2 DEF Attributed

\* What is said of the snapshot stays as long as the snapshot, the wishes and the news do.
LEMMA SameSnapshot ==
  ASSUME HedgeInv, UNCHANGED <<company, snap, window, wish>>
  PROVE  Attributed' /\ SettledInv'
<1>1. OfType("live")' = OfType("live")
  BY LiveUnchanged
<1>2. Attributed'
  BY <1>1 DEF HedgeInv, Attributed
<1>3. Given(snap.live)' = Given(snap.live)
  BY <1>1 DEF Given
<1>4. SettledInv'
  BY <1>1, <1>3 DEF HedgeInv, SettledInv
<1> QED  BY <1>2, <1>4

\* Taking a snapshot keeps the invariant: the event begun has the company's position, and no rows.
LEMMA SnapshotKeeps ==
  ASSUME HedgeInv, TypeInv', StartEod \/ EndEod \/ Timeout
  PROVE  HedgeInv'
<1>1. PICK end \in BOOLEAN : TakeSnapshot(end)
  BY DEF StartEod, EndEod, Timeout
<1>2. UNCHANGED <<company, snap, window, wish>>
  BY <1>1 DEF TakeSnapshot
<1>3. EventInv'
  <2>1. OfType("live")' = OfType("live")
    BY <1>2, LiveUnchanged
  <2>2. cur'.rows = Flat /\ (OfType("live") # {} => cur'.co)
    BY <1>1 DEF TakeSnapshot, NoEvent
  <2>3. OfType("live") \subseteq Account
    BY OfTypeFacts DEF HedgeInv
  <2> QED  BY <2>1, <2>2, <2>3, FlatType DEF EventInv
<1> QED  BY <1>2, <1>3, SameSnapshot DEF HedgeInv

\* So does attributing the DEMO position, which writes no rows of LIVE accounts.
LEMMA ReconcileDemoKeeps ==
  ASSUME HedgeInv, Exact, TypeInv', ReconcileDemo
  PROVE  HedgeInv'
<1>1. UNCHANGED <<company, snap, window, wish>>
  BY DEF ReconcileDemo
<1>2. EventInv'
  <2>1. OfType("live")' = OfType("live")
    BY <1>1, LiveUnchanged
  <2>2. (Stored("demo") => ExactFor("demo")) /\ TypeInv /\ EventInv /\ "demo" \in Types
    BY DEF ReconcileDemo, Exact, Types, HedgeInv
  <2>3. OfType("live") \subseteq Account /\ OfType("live") \cap OfType("demo") = {}
    BY <2>2, OfTypeFacts DEF OfType
  <2>4. cur' = Reconciled("demo") /\ stage = "demo" /\ stage' = "live"
    BY DEF ReconcileDemo
  <2>5. OfType("live") # {} => cur'.co
    BY <2>2, <2>4, ReconciledType DEF EventInv
  <2>6. \A a \in OfType("live") : cur'.rows[a] = cur.rows[a]
    BY <2>2, <2>3, <2>4, ReconciledType
  <2> QED  BY <2>1, <2>2, <2>5, <2>6 DEF EventInv
<1> QED  BY <1>1, <1>2, SameSnapshot DEF HedgeInv

\* After an event is concluded nothing is being written.
LEMMA NothingWritten ==
  ASSUME TypeInv', UNCHANGED company, cur' = NoEvent, stage' \notin {"demo", "live"}
  PROVE  EventInv'
<1>1. OfType("live")' \subseteq Account
  <2>1. \A c \in Companies : c \subseteq Account
    BY HedgeAssumption
  <2> QED  BY <2>1 DEF OfType, TypeInv
<1> QED  BY <1>1, FlatType DEF EventInv, NoEvent

\* A snapshot that says that no LIVE account holds anything.
LEMMA EmptySnapshot ==
  ASSUME TypeInv', UNCHANGED company, window' = NoNews,
         \A a \in OfType("live") : snap'.rows[a] = 0
  PROVE  Attributed' /\ SettledInv'
<1>1. OfType("live")' = OfType("live")
  BY LiveUnchanged
<1>2. IsFiniteSet(OfType("live"))
  BY <1>1, HedgeAssumption, FS_Subset DEF TypeInv, OfType
<1>3. Total(snap'.rows, OfType("live")) = 0
  BY <1>2, TotalZero
<1> QED  BY <1>1, <1>3 DEF Attributed, SettledInv, NoNews

\* What the attribution of the LIVE position writes, if the event is saved.
LEMMA ReconcileLiveRows ==
  ASSUME HedgeInv, Exact, ReconcileLive, cur.co \/ Stored("live")
  PROVE  /\ window' = NoNews
         /\ snap'.live = cur.live
         /\ \A a \in OfType("live") :
              snap'.rows[a] = IF Stored("live") THEN FinalPositions("live")[a] ELSE 0
         /\ OfType("live") # {} => CompanyAmount("live") = cur.live
<1>1. (Stored("live") => ExactFor("live")) /\ TypeInv /\ EventInv /\ "live" \in Types /\ stage = "live"
  BY DEF ReconcileLive, Exact, Types, HedgeInv
<1>2. PICK event \in Event : event = Reconciled("live") /\ Conclude(event)
  BY <1>1, ReconciledType DEF ReconcileLive
<1>3. OfType("live") \subseteq Account
  BY <1>1, OfTypeFacts
<1>4. /\ event.co /\ event.live = cur.live
      /\ \A a \in OfType("live") :
           event.rows[a] = IF Stored("live") THEN FinalPositions("live")[a] ELSE 0
  <2>1. CASE Stored("live")
    BY <1>1, <1>2, <1>3, <2>1, ReconciledType
  <2>2. CASE ~Stored("live")
    BY <1>1, <1>2, <2>2, ReconciledType DEF EventInv
  <2> QED  BY <2>1, <2>2
<1>5. snap' = [live |-> event.live, demo |-> event.demo, rows |-> event.rows] /\ window' = NoNews
  BY <1>2, <1>4 DEF Conclude
<1>6. OfType("live") # {} => CompanyAmount("live") = cur.live
  BY <1>1 DEF EventInv, CompanyAmount
<1> QED  BY <1>4, <1>5, <1>6

\* Attributing the LIVE position keeps the invariant: the rows add up to the position, and are those
\* the wishes give, or those of accounts that want nothing.
LEMMA ReconcileLiveKeeps ==
  ASSUME HedgeInv, Exact, TypeInv', ReconcileLive
  PROVE  HedgeInv'
<1>1. UNCHANGED <<company, wish>> /\ cur' = NoEvent /\ stage' \notin {"demo", "live"}
  BY DEF ReconcileLive, Conclude
<1>2. EventInv'
  BY <1>1, NothingWritten
<1>3. (Stored("live") => ExactFor("live")) /\ TypeInv /\ EventInv /\ "live" \in Types
  BY DEF ReconcileLive, Exact, Types, HedgeInv
<1>4. CASE ~(cur.co \/ Stored("live"))
  <2>1. Reconciled("live") = cur
    BY <1>4 DEF Reconciled
  <2>2. UNCHANGED <<snap, window>>
    BY <1>4, <2>1 DEF ReconcileLive, Conclude
  <2> QED  BY <1>1, <1>2, <2>2, SameSnapshot DEF HedgeInv
<1>5. CASE cur.co /\ ~Stored("live")
  BY <1>1, <1>2, <1>5, ReconcileLiveRows, EmptySnapshot DEF HedgeInv
<1>6. CASE Stored("live")
  <2> DEFINE S == OfType("live")
             c == CompanyAmount("live")
             final == FinalPositions("live")
  <2>1. CASE S = {}
    BY <1>1, <1>2, <1>6, <2>1, ReconcileLiveRows, EmptySnapshot DEF HedgeInv
  <2>2. CASE S # {}
    <3>1. window' = NoNews /\ snap'.live = c /\ \A a \in S : snap'.rows[a] = final[a]
      BY <1>6, <2>2, ReconcileLiveRows
    <3>2. S' = S /\ IsFiniteSet(S)
      BY <1>1, <1>3, LiveUnchanged, OfTypeFacts
    <3>3. final \in [S -> Int] /\ Total(final, S) = c
      BY <1>3, <1>6, FinalFacts
    <3>4. Attributed'
      <4>1. \A a \in S : final[a] \in Int /\ snap'.rows[a] = final[a]
        BY <3>1, <3>3
      <4>2. Total(snap'.rows, S) = Total(final, S)
        <5> HIDE DEF S, final
        <5> QED  BY <3>2, <4>1, TotalSame
      <4> QED  BY <3>1, <3>2, <3>3, <4>2 DEF Attributed
    <3>5. SettledInv'
      <4>1. CASE Unwanted("live")
        <5>1. Gross(Amount(wish'), S') = 0 /\ snap'.live # 0
          BY <1>1, <3>1, <3>2, <4>1 DEF Unwanted
        <5> QED  BY <3>1, <5>1 DEF SettledInv, NoNews
      <4>2. CASE ~Unwanted("live")
        <5>1. final = Given(c)
          BY <4>2 DEF FinalPositions, Distribute, Given
        <5>2. Given(snap.live)' = Given(c)
          BY <1>1, <3>1, <3>2 DEF Given
        <5>3. \A a \in S' : snap'.rows[a] = Given(snap.live)'[a]
          BY <3>1, <3>2, <5>1, <5>2
        <5> QED  BY <3>1, <5>3 DEF SettledInv, NoNews
      <4> QED  BY <4>1, <4>2
    <3> QED  BY <1>2, <3>4, <3>5 DEF HedgeInv
  <2> QED  BY <2>1, <2>2
<1> QED  BY <1>4, <1>5, <1>6

\* A chain that breaks off keeps it: what was saved of the event has no rows of LIVE accounts.
LEMMA BreakKeeps ==
  ASSUME HedgeInv, TypeInv', StartFails \/ ChainDies
  PROVE  HedgeInv'
<1>1. Conclude(cur) /\ UNCHANGED <<company, wish>> /\ stage' \notin {"demo", "live"}
  BY DEF StartFails, ChainDies
<1>2. EventInv'
  BY <1>1, NothingWritten DEF Conclude
<1>3. CASE cur.co
  <2>1. window' = NoNews /\ snap'.rows = cur.rows
    BY <1>1, <1>3 DEF Conclude
  <2>2. \A a \in OfType("live") : snap'.rows[a] = 0
    BY <2>1 DEF HedgeInv, EventInv
  <2> QED  BY <1>1, <1>2, <2>1, <2>2, EmptySnapshot DEF HedgeInv
<1>4. CASE ~cur.co
  <2>1. UNCHANGED <<snap, window>>
    BY <1>1, <1>4 DEF Conclude
  <2> QED  BY <1>1, <1>2, <2>1, SameSnapshot DEF HedgeInv
<1> QED  BY <1>3, <1>4

\* A hedge action keeps it, as it changes wishes and is news.
LEMMA HedgeKeeps ==
  ASSUME HedgeInv, TypeInv', Hedge
  PROVE  HedgeInv'
<1>1. window'.acted /\ stage' = "waiting" /\ UNCHANGED <<company, snap, held, cur>>
  BY HedgeType DEF HedgeInv
<1>2. OfType("live")' = OfType("live")
  BY <1>1, LiveUnchanged
<1> QED  BY <1>1, <1>2 DEF HedgeInv, EventInv, Attributed, SettledInv

\* What touches no row keeps it.
LEMMA OthersKeep ==
  ASSUME HedgeInv, TypeInv', UNCHANGED <<company, books, wish, stage>>
  PROVE  HedgeInv'
<1>1. UNCHANGED <<company, snap, window, wish, cur, stage>>
  BY DEF books
<1>2. OfType("live")' = OfType("live")
  BY <1>1, LiveUnchanged
<1>3. EventInv'
  BY <1>1, <1>2 DEF HedgeInv, EventInv
<1> QED  BY <1>1, <1>3, SameSnapshot DEF HedgeInv

\* Every step keeps the invariant.
LEMMA HedgeInvStep ==
  ASSUME HedgeInv, Exact, [Next]_vars
  PROVE  HedgeInv'
<1>0. TypeInv'
  BY TypeStep DEF HedgeInv
<1>1. CASE StartEod \/ EndEod \/ Timeout
  BY <1>0, <1>1, SnapshotKeeps
<1>2. CASE ReconcileDemo
  BY <1>0, <1>2, ReconcileDemoKeeps
<1>3. CASE ReconcileLive
  BY <1>0, <1>3, ReconcileLiveKeeps
<1>4. CASE Hedge
  BY <1>0, <1>4, HedgeKeeps
<1>5. CASE StartFails \/ ChainDies
  BY <1>0, <1>5, BreakKeeps
<1>6. CASE Fill \/ FillShort \/ FillLate \/ TradeOutside
  <2>1. UNCHANGED <<company, books, wish, stage>>
    BY <1>6 DEF Fill, FillShort, FillLate, TradeOutside
  <2> QED  BY <1>0, <2>1, OthersKeep
<1>7. CASE ChangeWant \/ Deactivate \/ Activate
  <2>1. UNCHANGED <<company, books, wish, stage>>
    BY <1>7 DEF ChangeWant, Deactivate, Activate
  <2> QED  BY <1>0, <2>1, OthersKeep
<1>8. CASE UNCHANGED vars
  <2>1. UNCHANGED <<company, books, wish, stage>>
    BY <1>8 DEF vars, books
  <2> QED  BY <1>0, <2>1, OthersKeep
<1> QED  BY <1>1, <1>2, <1>3, <1>4, <1>5, <1>6, <1>7, <1>8 DEF Next, Chain

\* It holds at first.
LEMMA HedgeInvInit ==
  ASSUME Init
  PROVE  HedgeInv
<1>1. TypeInv
  BY TypeInit
<1>2. OfType("live") \subseteq Account
  BY <1>1, OfTypeFacts
<1>3. EventInv /\ SettledInv
  BY <1>2, FlatType DEF Init, EventInv, SettledInv, NoEvent, NoNews
<1>4. Attributed
  BY <1>1, <1>2, FlatType, AttributedNothing DEF Init
<1> QED  BY <1>1, <1>3, <1>4 DEF HedgeInv

\* An attribution with nothing new gives a LIVE account what it has: accounts that want nothing share
\* what they hold in proportion to it, and the wishes give again what they gave.
LEMMA UnmovedStep ==
  ASSUME HedgeInv, Exact, [Next]_vars,
         stage = "live", stage' # stage, disturbed' = disturbed, ~window.acted,
         snap.rows = held, Total(held, OfType("live")) = snap.live,
         cur.co, cur.live = snap.live,
         NEW a \in OfType("live")
  PROVE  snap'.rows[a] = snap.rows[a]
<1> DEFINE S == OfType("live")
           c == CompanyAmount("live")
<1>1. TypeInv /\ (Stored("live") => ExactFor("live")) /\ SettledInv /\ "live" \in Types
  BY DEF HedgeInv, Exact, Types
<1>2. ReconcileLive
  <2>1. disturbed \in Int
    BY <1>1 DEF TypeInv
  <2>2. ~Disturb
    BY <2>1 DEF Disturb
  <2> QED  BY <2>2 DEF Next, Chain, vars, books, StartEod, EndEod, Timeout, TakeSnapshot, ReconcileDemo,
             Hedge, StartFails, ChainDies, Fill, FillShort, FillLate, TradeOutside, ChangeWant, Deactivate,
             Activate
<1>3. /\ c = snap.live
      /\ snap'.rows[a] = IF Stored("live") THEN FinalPositions("live")[a] ELSE 0
  BY <1>2, ReconcileLiveRows
<1>4. held[a] \in Int /\ c \in Int
  BY <1>1, OfTypeFacts, CompanyAmountType DEF TypeInv
<1>5. CASE ~Stored("live")
  BY <1>3, <1>5 DEF Stored
<1>6. CASE Stored("live") /\ Unwanted("live")
  <2>1. c # 0
    BY <1>6 DEF Unwanted
  <2>2. FinalPositions("live")[a] = IF held[a] = 0 THEN 0 ELSE Share(held[a], c, c)
    BY <1>3, <1>6, <2>1 DEF FinalPositions, KeepHolding
  <2>3. ASSUME held[a] # 0 PROVE Share(held[a], c, c) = held[a]
    <3>1. Exactly(held[a], c, c)
      BY <1>1, <1>3, <1>6, <2>1, <2>3 DEF ExactFor
    <3> DEFINE n == held[a]
               q == Share(held[a], c, c)
    <3>2. q \in Int /\ c * q = n * c
      BY <1>4, <2>1, <3>1, ShareFacts
    <3>3. n \in Int
      BY <1>4
    <3> HIDE DEF n, q, c
    <3>4. c * (q - n) = 0
      BY <1>4, <3>2, <3>3
    <3>5. q = n
      BY <1>4, <2>1, <3>2, <3>3, <3>4
    <3> QED  BY <3>5 DEF n, q
  <2> QED  BY <1>3, <1>6, <2>2, <2>3
<1>7. CASE Stored("live") /\ ~Unwanted("live")
  <2>1. \E b \in S : held[b] # 0
    BY <1>1, <1>7 DEF Stored, SettledInv
  <2>2. ~(Gross(Amount(wish), S) = 0 /\ snap.live # 0)
    BY <1>3, <1>7 DEF Unwanted
  <2>3. \A b \in S : snap.rows[b] = Given(c)[b]
    BY <1>1, <1>3, <2>1, <2>2 DEF SettledInv
  <2>4. FinalPositions("live") = Given(c)
    BY <1>7 DEF FinalPositions, Distribute, Given
  <2> QED  BY <1>3, <1>7, <2>3, <2>4
<1> QED  BY <1>5, <1>6, <1>7

\* The LIVE accounts hold together what the broker reported, or are said to hold nothing, whatever is
\* filled short or late, traded outside, cut by the margin, left out, crashed or deactivated: the
\* reconciliation of broker_reconcile.py attributes the position whole or not at all.
THEOREM HedgeAttributed == Spec /\ []Exact => []Attributed
<1>1. Init => HedgeInv
  BY HedgeInvInit
<1>2. HedgeInv /\ Exact /\ [Next]_vars => HedgeInv'
  BY HedgeInvStep
<1>3. HedgeInv => Attributed
  BY DEF HedgeInv
<1> QED  BY <1>1, <1>2, <1>3, PTL DEF Spec

\* A second reconciliation with no hedge between and nothing new at the broker gives every LIVE
\* account what the first one gave it.
THEOREM HedgeUnmoved == Spec /\ []Exact => Unmoved
<1>1. Init => HedgeInv
  BY HedgeInvInit
<1>2. HedgeInv /\ Exact /\ [Next]_vars => HedgeInv'
  BY HedgeInvStep
<1>3. HedgeInv /\ Exact /\ [Next]_vars =>
        [(/\ stage = "live" /\ stage' # stage /\ disturbed' = disturbed /\ ~window.acted
          /\ snap.rows = held /\ Total(held, OfType("live")) = snap.live
          /\ cur.co /\ cur.live = snap.live)
         => \A a \in OfType("live") : snap'.rows[a] = snap.rows[a]]_vars
  BY UnmovedStep
<1> QED  BY <1>1, <1>2, <1>3, PTL DEF Spec, Unmoved
=============================================================================
