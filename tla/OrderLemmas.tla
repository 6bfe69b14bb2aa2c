---------------------------- MODULE OrderLemmas ----------------------------
(***************************************************************************)
(* Facts about finite sets of numbers that the proofs of several modules   *)
(* need and the library does not state.                                    *)
(***************************************************************************)
EXTENDS Integers, Orders, FiniteSetTheorems, SequenceTheorems, TLAPS

Less == {pair \in Nat \X Nat : pair[1] < pair[2]}

(* A set of natural numbers that is not empty has a least element.         *)
LEMMA LeastNatural ==
  ASSUME NEW S \in SUBSET Nat, S # {}
  PROVE  \E n \in S : \A m \in S : n <= m
<1>1. IsWellFoundedOn(Less, Nat)
  BY NatLessThanWellFounded DEF OpToRel, Less
<1>2. PICK n \in S : \A m \in S : ~ (<<m, n>> \in Less)
  BY <1>1, WFMin
<1>3. ASSUME NEW m \in S PROVE n <= m
  <2>1. m \in Nat /\ n \in Nat /\ <<m, n>> \notin Less
    BY <1>2
  <2>2. m < n => <<m, n>> \in Less
    BY <2>1 DEF Less
  <2>. QED
    BY <2>1, <2>2
<1>. QED
  BY <1>3

-----------------------------------------------------------------------------
(* The operators of Orders.                                                *)

StrictOrder(S, R) ==
  /\ \A x \in S : <<x, x>> \notin R
  /\ \A x, y, z \in S : <<x, y>> \in R /\ <<y, z>> \in R => <<x, z>> \in R
  /\ \A x, y \in S : x = y \/ <<x, y>> \in R \/ <<y, x>> \in R

(* An element's place is the number of those before it.                    *)
Rank(S, R, x) == Cardinality({y \in S : <<y, x>> \in R}) + 1

LEMMA RankFacts ==
  ASSUME NEW S, IsFiniteSet(S), NEW R, StrictOrder(S, R), NEW x \in S
  PROVE  /\ Rank(S, R, x) \in 1..Cardinality(S)
         /\ \A z \in S : <<x, z>> \in R => Rank(S, R, x) < Rank(S, R, z)
<1>. DEFINE Before(z) == {y \in S : <<y, z>> \in R}
<1>1. ASSUME NEW z \in S PROVE IsFiniteSet(Before(z)) /\ Cardinality(Before(z)) \in Nat
  BY FS_Subset, FS_CardinalityType
<1>2. Cardinality(S) \in Nat
  BY FS_CardinalityType
<1>3. Cardinality(Before(x)) < Cardinality(S)
  <2>1. Before(x) # S /\ Before(x) \in SUBSET S
    BY DEF StrictOrder
  <2>2. Cardinality(Before(x)) <= Cardinality(S) /\ Cardinality(S) # Cardinality(Before(x))
    BY <2>1, FS_Subset
  <2>. QED
    BY <1>1, <1>2, <2>2
<1>4. ASSUME NEW z \in S, <<x, z>> \in R PROVE Cardinality(Before(x)) < Cardinality(Before(z))
  <2>1. Before(x) \in SUBSET Before(z) /\ Before(x) # Before(z)
    BY <1>4 DEF StrictOrder
  <2>2. IsFiniteSet(Before(z))
    BY <1>1
  <2>. HIDE DEF Before
  <2>3. Cardinality(Before(x)) <= Cardinality(Before(z)) /\ Cardinality(Before(z)) # Cardinality(Before(x))
    BY <2>1, <2>2, FS_Subset
  <2>. QED
    BY <1>1, <2>3
<1>5. \A z : Rank(S, R, z) = Cardinality(Before(z)) + 1
  BY DEF Rank
<1>. HIDE DEF Before
<1>. QED
  BY <1>1, <1>2, <1>3, <1>4, <1>5

(* A finite set has an enumeration in any strict total order, which names  *)
(* each of its elements once.                                              *)
LEMMA EnumeratedFacts ==
  ASSUME NEW S, IsFiniteSet(S), NEW R, StrictOrder(S, R)
  PROVE  /\ Cardinality(S) \in Nat
         /\ Enumerated(S, R) \in [1..Cardinality(S) -> S]
         /\ \A i, j \in 1..Cardinality(S) :
              i < j => <<Enumerated(S, R)[i], Enumerated(S, R)[j]>> \in R
         /\ \A i, j \in 1..Cardinality(S) :
              Enumerated(S, R)[i] = Enumerated(S, R)[j] => i = j
         /\ \A x \in S : \E i \in 1..Cardinality(S) : Enumerated(S, R)[i] = x
<1>. DEFINE n == Cardinality(S)
            f == [x \in S |-> Rank(S, R, x)]
            e == Enumerated(S, R)
<1>1. n \in Nat /\ IsFiniteSet(1..n) /\ Cardinality(1..n) = n
  <2>1. n \in Nat
    BY FS_CardinalityType
  <2>2. IsFiniteSet(1..n) /\ Cardinality(1..n) = IF 1 > n THEN 0 ELSE n - 1 + 1
    BY <2>1, FS_Interval
  <2>. QED
    BY <2>1, <2>2
<1>. HIDE DEF n
<1>2. /\ f \in [S -> 1..n]
      /\ \A x, z \in S : <<x, z>> \in R => f[x] < f[z]
  BY RankFacts DEF n
<1>. HIDE DEF f
<1>3. \A x, z \in S : f[x] = f[z] => x = z
  <2>1. ASSUME NEW x \in S, NEW z \in S, f[x] = f[z], <<x, z>> \in R PROVE FALSE
    <3>1. f[x] \in 1..n /\ f[x] < f[z]
      BY <1>2, <2>1
    <3>. QED
      BY <1>1, <2>1, <3>1
  <2>. QED
    BY <2>1 DEF StrictOrder
<1>4. \A i \in 1..n : \E x \in S : f[x] = i
  <2>1. f \in Injection(S, 1..n)
    BY <1>2, <1>3 DEF Injection, IsInjective
  <2>2. f \in Surjection(S, 1..n)
    BY <1>1, <2>1, FS_Injection DEF n
  <2>. QED
    BY <2>2 DEF Surjection
<1>5. e \in [1..n -> S] /\ \A i \in 1..n : f[e[i]] = i
  <2>. DEFINE Before(x) == Cardinality({y \in S : <<y, x>> \in R})
              At(i) == CHOOSE x \in S : Before(x) = i - 1
  <2>1. e = [i \in 1..n |-> At(i)]
    BY DEF Enumerated, n
  <2>2. ASSUME NEW x \in S PROVE f[x] = Before(x) + 1 /\ Before(x) \in Nat
    <3>1. IsFiniteSet({y \in S : <<y, x>> \in R})
      BY FS_Subset
    <3>. QED
      BY <3>1, FS_CardinalityType DEF f, Rank
  <2>. HIDE DEF Before, e
  <2>3. ASSUME NEW i \in 1..n PROVE At(i) \in S /\ f[At(i)] = i
    <3>1. PICK x \in S : Before(x) = i - 1
      BY <1>4, <2>2
    <3>2. At(i) \in S /\ Before(At(i)) = i - 1
      BY <3>1
    <3>. QED
      BY <2>2, <3>2
  <2>. HIDE DEF At
  <2>. QED
    BY <2>1, <2>3
<1>. HIDE DEF e
<1>6. \A i, j \in 1..n : i < j => <<e[i], e[j]>> \in R
  <2>1. ASSUME NEW i \in 1..n, NEW j \in 1..n, i < j PROVE <<e[i], e[j]>> \in R
    <3>1. e[i] \in S /\ e[j] \in S /\ f[e[i]] = i /\ f[e[j]] = j
      BY <1>5
    <3>2. e[i] # e[j]
      BY <1>1, <2>1, <3>1
    <3>3. <<e[j], e[i]>> \notin R
      <4>1. <<e[j], e[i]>> \in R => f[e[j]] < f[e[i]]
        BY <1>2, <3>1
      <4>. QED
        BY <1>1, <2>1, <3>1, <4>1
    <3>. QED
      BY <3>1, <3>2, <3>3 DEF StrictOrder
  <2>. QED
    BY <2>1
<1>7. \A i, j \in 1..n : e[i] = e[j] => i = j
  BY <1>5
<1>8. \A x \in S : \E i \in 1..n : e[i] = x
  <2>1. e \in Injection(1..n, S)
    BY <1>5, <1>7 DEF Injection, IsInjective
  <2>2. e \in Surjection(1..n, S)
    BY <1>1, <2>1, FS_Injection DEF n
  <2>. QED
    BY <2>2 DEF Surjection
<1>. QED
  BY <1>1, <1>5, <1>6, <1>7, <1>8 DEF n, e

LEMMA AscendingFacts ==
  ASSUME NEW S \in SUBSET Int, IsFiniteSet(S)
  PROVE  /\ Cardinality(S) \in Nat
         /\ Ascending(S) \in [1..Cardinality(S) -> S]
         /\ \A i, j \in 1..Cardinality(S) : i < j => Ascending(S)[i] < Ascending(S)[j]
         /\ \A i, j \in 1..Cardinality(S) : Ascending(S)[i] = Ascending(S)[j] => i = j
         /\ \A x \in S : \E i \in 1..Cardinality(S) : Ascending(S)[i] = x
<1>. DEFINE R == {p \in S \X S : p[1] < p[2]}
<1>1. \A i, j \in S : <<i, j>> \in R <=> i < j
  OBVIOUS
<1>2. Ascending(S) = Enumerated(S, R)
  BY DEF Ascending
<1>. HIDE DEF R
<1>3. StrictOrder(S, R)
  BY <1>1 DEF StrictOrder
<1>4. /\ Cardinality(S) \in Nat
      /\ Ascending(S) \in [1..Cardinality(S) -> S]
      /\ \A i, j \in 1..Cardinality(S) : i < j => <<Ascending(S)[i], Ascending(S)[j]>> \in R
      /\ \A i, j \in 1..Cardinality(S) : Ascending(S)[i] = Ascending(S)[j] => i = j
      /\ \A x \in S : \E i \in 1..Cardinality(S) : Ascending(S)[i] = x
  BY <1>2, <1>3, EnumeratedFacts
<1>. QED
  BY <1>1, <1>4

-----------------------------------------------------------------------------
(* Functions by recursion.                                                 *)

Stepwise(f, n, start, G) == f[0] = start /\ \A k \in 1..n : f[k] = G[k][f[k - 1]]

(* A function that is given by its first value and by each value from the  *)
(* one before exists, up to any length.                                    *)
LEMMA StepsExist ==
  ASSUME NEW V, NEW n \in Nat, NEW start \in V, NEW G \in [1..n -> [V -> V]]
  PROVE  \E f \in [0..n -> V] : Stepwise(f, n, start, G)
<1>. DEFINE Steps(m, f) == f[0] = start /\ \A k \in 1..m : f[k] = G[k][f[k - 1]]
            Missing == {m \in 0..n : \A f \in [0..m -> V] : ~Steps(m, f)}
<1>1. Missing = {}
  <2>1. SUFFICES ASSUME Missing # {} PROVE FALSE
    OBVIOUS
  <2>2. PICK m \in Missing : \A j \in Missing : m <= j
    <3>1. Missing \in SUBSET Nat
      BY DEF Missing
    <3>. HIDE DEF Missing
    <3>. QED
      BY <2>1, <3>1, LeastNatural
  <2>3. CASE m = 0
    <3>1. [k \in 0..0 |-> start] \in [0..0 -> V] /\ Steps(0, [k \in 0..0 |-> start])
      OBVIOUS
    <3>. QED
      BY <2>2, <2>3, <3>1
  <2>4. CASE m # 0
    <3>1. m \in 1..n /\ m - 1 \in 0..n /\ m - 1 \notin Missing
      <4>1. m \in 0..n
        BY <2>2
      <4>2. m - 1 \in 0..n /\ ~(m <= m - 1) /\ m \in 1..n
        BY <4>1, <2>4
      <4>. HIDE DEF Missing
      <4>. QED
        BY <4>2, <2>2
    <3>2. PICK f \in [0..(m - 1) -> V] : Steps(m - 1, f)
      BY <3>1
    <3>. DEFINE g == [k \in 0..m |-> IF k = m THEN G[m][f[m - 1]] ELSE f[k]]
    <3>3. G[m][f[m - 1]] \in V
      BY <3>1, <3>2
    <3>4. g \in [0..m -> V]
      BY <3>1, <3>2, <3>3
    <3>5. Steps(m, g)
      <4>1. g[0] = start
        BY <3>1, <3>2
      <4>2. ASSUME NEW k \in 1..m PROVE g[k] = G[k][g[k - 1]]
        <5>1. m \in Nat /\ m >= 1 /\ k - 1 \in 0..m /\ k - 1 # m /\ k \in 0..m
          BY <3>1
        <5>2. g[k - 1] = f[k - 1]
          BY <5>1
        <5>3. k # m => k \in 1..(m - 1)
          BY <5>1
        <5>4. CASE k = m
          BY <5>1, <5>2, <5>4
        <5>5. CASE k # m
          BY <3>2, <5>1, <5>2, <5>3, <5>5
        <5>. QED
          BY <5>4, <5>5
      <4>. QED
        BY <4>1, <4>2
    <3>. QED
      BY <2>2, <3>4, <3>5
  <2>. QED
    BY <2>3, <2>4
<1>2. PICK f \in [0..n -> V] : Steps(n, f)
  <2>1. n \in 0..n /\ n \notin Missing
    <3>. HIDE DEF Missing
    <3>. QED
      BY <1>1
  <2>2. n \in 0..n => (n \in Missing <=> \A f \in [0..n -> V] : ~Steps(n, f))
    BY Zenon DEF Missing
  <2>. HIDE DEF Steps, Missing
  <2>. QED
    BY <2>1, <2>2
<1>. QED
  BY <1>2 DEF Stepwise

(* What holds at 0, and with every number of the next, holds up to n.      *)
LEMMA Counting ==
  ASSUME NEW n \in Nat, NEW S, 0 \in S, \A k \in 1..n : k - 1 \in S => k \in S
  PROVE  \A k \in 0..n : k \in S
<1>. DEFINE Missing == {k \in 0..n : k \notin S}
<1>1. SUFFICES ASSUME Missing # {} PROVE FALSE
  OBVIOUS
<1>2. PICK k \in Missing : \A j \in Missing : k <= j
  <2>1. Missing \in SUBSET Nat
    OBVIOUS
  <2>. HIDE DEF Missing
  <2>. QED
    BY <1>1, <2>1, LeastNatural
<1>3. k \in 1..n /\ k - 1 \in 0..n /\ ~(k <= k - 1) /\ k \notin S
  <2>1. k \in 0..n /\ k \notin S /\ k # 0
    BY <1>2
  <2>. QED
    BY <2>1
<1>4. k - 1 \in S
  <2>1. k - 1 \notin Missing
    <3>. HIDE DEF Missing
    <3>. QED
      BY <1>2, <1>3
  <2>. QED
    BY <1>3, <2>1
<1>. QED
  BY <1>3, <1>4

-----------------------------------------------------------------------------
(* Lists that are joined.                                                  *)

Joined(s, t, c) ==
  /\ Len(c) = Len(s) + Len(t)
  /\ \A i \in 1..Len(s) : c[i] = s[i]
  /\ \A i \in 1..Len(t) : c[Len(s) + i] = t[i]

LEMMA JoinedParts ==
  ASSUME NEW V, NEW s \in Seq(V), NEW t \in Seq(V)
  PROVE  s \o t \in Seq(V) /\ Joined(s, t, s \o t)
<1>1. ASSUME NEW i \in 1..Len(t) PROVE (s \o t)[Len(s) + i] = t[i]
  <2>1. Len(s) + i \in 1..(Len(s) + Len(t)) /\ ~(Len(s) + i <= Len(s)) /\ Len(s) + i - Len(s) = i
    OBVIOUS
  <2>. QED
    BY <2>1, ConcatProperties
<1>. QED
  BY <1>1, ConcatProperties DEF Joined

(* F[k] joins the first k of the sequences in L.                           *)
Flattens(p, L, m) == \A i \in 1..m : p[i] = IF i = 1 THEN L[i] ELSE p[i - 1] \o L[i]

JoinsOf(F, L, m) == F[1] = L[1] /\ \A k \in 2..m : F[k] = F[k - 1] \o L[k]

LEMMA PrefixesExist ==
  ASSUME NEW m \in Nat \ {0}, NEW V, NEW L \in [1..m -> Seq(V)]
  PROVE  \E F \in [1..m -> Seq(V)] : JoinsOf(F, L, m)
<1>. DEFINE G == [k \in 1..(m - 1) |-> [v \in Seq(V) |-> v \o L[k + 1]]]
<1>1. Len(L) = m /\ m - 1 \in Nat /\ 1 \in 1..m
  OBVIOUS
<1>2. G \in [1..(m - 1) -> [Seq(V) -> Seq(V)]]
  <2>1. ASSUME NEW k \in 1..(m - 1), NEW v \in Seq(V) PROVE v \o L[k + 1] \in Seq(V)
    <3>1. L[k + 1] \in Seq(V)
      BY <1>1
    <3>. QED
      BY <3>1, ConcatProperties
  <2>. QED
    BY <2>1
<1>3. PICK f \in [0..(m - 1) -> Seq(V)] : Stepwise(f, m - 1, L[1], G)
  <2>1. L[1] \in Seq(V)
    BY <1>1
  <2>. HIDE DEF G
  <2>. QED
    BY <1>1, <1>2, <2>1, StepsExist, Zenon
<1>. DEFINE F == [k \in 1..m |-> f[k - 1]]
<1>4. F \in [1..m -> Seq(V)]
  <2>1. \A k \in 1..m : k - 1 \in 0..(m - 1)
    OBVIOUS
  <2>. QED
    BY <2>1
<1>5. JoinsOf(F, L, m)
  <2>1. ASSUME NEW k \in 2..m PROVE f[k - 1] = f[k - 1 - 1] \o L[k]
    <3>1. k - 1 \in 1..(m - 1) /\ k - 1 - 1 \in 0..(m - 1) /\ k - 1 + 1 = k
      OBVIOUS
    <3>2. f[k - 1 - 1] \in Seq(V)
      BY <1>3, <3>1
    <3>3. G[k - 1][f[k - 1 - 1]] = f[k - 1 - 1] \o L[k - 1 + 1]
      BY <3>1, <3>2
    <3>4. f[k - 1] = G[k - 1][f[k - 1 - 1]]
      <4>. HIDE DEF G
      <4>. QED
        BY <1>3, <3>1 DEF Stepwise
    <3>. QED
      BY <3>1, <3>3, <3>4
  <2>2. \A k \in 2..m : k \in 1..m /\ k - 1 \in 1..m
    OBVIOUS
  <2>3. F[1] = L[1]
    BY <1>1, <1>3 DEF Stepwise
  <2>4. \A k \in 2..m : F[k] = f[k - 1] /\ F[k - 1] = f[k - 1 - 1]
    BY <2>2
  <2>. HIDE DEF F
  <2>. QED
    BY <2>1, <2>3, <2>4 DEF JoinsOf
<1>. HIDE DEF F
<1>. QED
  BY <1>4, <1>5

LEMMA PrefixesUnique ==
  ASSUME NEW m \in Nat \ {0}, NEW L, NEW F, JoinsOf(F, L, m),
         NEW p, Flattens(p, L, m)
  PROVE  p[m] = F[m]
<1>1. m - 1 \in Nat /\ 1 \in 1..m
  OBVIOUS
<1>. DEFINE S == {k \in 0..(m - 1) : p[k + 1] = F[k + 1]}
<1>11. \A k \in 0..(m - 1) : k \in S
  <2>1. 0 \in S
    BY <1>1 DEF JoinsOf, Flattens
  <2>2. ASSUME NEW k \in 1..(m - 1), k - 1 \in S PROVE k \in S
    <3>1. k + 1 \in 2..m /\ k + 1 \in 1..m /\ k + 1 # 1 /\ k - 1 + 1 = k /\ k + 1 - 1 = k
          /\ k \in 0..(m - 1)
      OBVIOUS
    <3>2. p[k] = F[k]
      BY <2>2, <3>1
    <3>. DEFINE i == k + 1
    <3>3. p[i] = p[i - 1] \o L[i] /\ F[i] = F[i - 1] \o L[i]
      <4>1. i \in 2..m /\ i \in 1..m /\ i # 1
        BY <3>1
      <4>. HIDE DEF i
      <4>. QED
        BY <4>1 DEF JoinsOf, Flattens
    <3>4. i - 1 = k
      BY <3>1
    <3>. HIDE DEF i
    <3>5. p[i] = F[i]
      BY <3>2, <3>3, <3>4, Zenon
    <3>. QED
      BY <3>1, <3>5 DEF i
  <2>. HIDE DEF S
  <2>. QED
    BY <1>1, <2>1, <2>2, Counting
<1>12. p[m] = F[m]
  <2>1. m - 1 \in 0..(m - 1) /\ m - 1 + 1 = m
    BY <1>1
  <2>2. p[m - 1 + 1] = F[m - 1 + 1]
    BY <1>11, <2>1
  <2>. QED
    BY <2>1, <2>2
<1>. QED
  BY <1>12
=============================================================================
