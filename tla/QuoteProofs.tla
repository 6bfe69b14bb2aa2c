---------------------------- MODULE QuoteProofs -----------------------------
(***************************************************************************)
(* What the operators of pricing give, for every pool, amount, list of     *)
(* candidates and depth. From the bottom up: lists and numbers, what pools *)
(* pay, quotes, the split optimizer, the search and the quotes over a      *)
(* single pool.                                                            *)
(***************************************************************************)
EXTENDS PriceService, OrderLemmas

-----------------------------------------------------------------------------
(* Lists.                                                                  *)

(* A list as << >> \o makes it is the list.                                *)
LEMMA Listing ==
  ASSUME NEW V, NEW n \in Nat, NEW g \in [1..n -> V]
  PROVE  << >> \o g = g /\ g \in Seq(V) /\ Len(g) = n
<1>1. g \in Seq(V) /\ Len(g) = n
  OBVIOUS
<1>2. << >> \in Seq(V) /\ Len(<< >>) = 0
  OBVIOUS
<1>3. /\ << >> \o g \in Seq(V) /\ Len(<< >> \o g) = n
      /\ \A i \in 1..n : (<< >> \o g)[i] = g[i]
  <2>1. /\ << >> \o g \in Seq(V) /\ Len(<< >> \o g) = 0 + n
        /\ \A i \in 1..(0 + n) : (<< >> \o g)[i] = IF i <= 0 THEN << >>[i] ELSE g[i - 0]
    BY <1>1, <1>2, ConcatProperties
  <2>. QED
    BY <2>1
<1>. QED
  BY <1>1, <1>3

(* t holds what s has at the indices in S, each once.                      *)
Lists(t, s, S) ==
  \E e \in [1..Len(t) -> S] :
    /\ \A i, j \in 1..Len(t) : e[i] = e[j] => i = j
    /\ \A x \in S : \E i \in 1..Len(t) : e[i] = x
    /\ \A i \in 1..Len(t) : t[i] = s[e[i]]

(* What is picked from a list: each element of the chosen indices, once.   *)
LEMMA PickedFacts ==
  ASSUME NEW V, NEW s \in Seq(V), NEW S \in SUBSET (1..Len(s))
  PROVE  /\ Picked(s, S) \in Seq(V) /\ Len(Picked(s, S)) = Cardinality(S)
         /\ Cardinality(S) \in Nat
         /\ Lists(Picked(s, S), s, S)
<1>. DEFINE n == Cardinality(S)
            e == Ascending(S)
            g == [i \in DOMAIN e |-> s[e[i]]]
<1>1. S \in SUBSET Int /\ IsFiniteSet(S)
  <2>1. 1 \in Int /\ Len(s) \in Int /\ S \in SUBSET Int
    BY LenProperties
  <2>2. IsFiniteSet(1..Len(s))
    BY <2>1, FS_Interval
  <2>. QED
    BY <2>1, <2>2, FS_Subset
<1>2. /\ n \in Nat /\ e \in [1..n -> S]
      /\ \A i, j \in 1..n : e[i] = e[j] => i = j
      /\ \A x \in S : \E i \in 1..n : e[i] = x
  BY <1>1, AscendingFacts, Zenon
<1>3. Picked(s, S) = << >> \o g
  BY DEF Picked, Each
<1>. HIDE DEF e, n
<1>4. DOMAIN e = 1..n /\ g \in [1..n -> V]
  <2>1. DOMAIN e = 1..n
    BY <1>2
  <2>2. ASSUME NEW i \in 1..n PROVE s[e[i]] \in V
    <3>1. e[i] \in 1..Len(s)
      BY <1>2
    <3>. QED
      BY <3>1
  <2>. QED
    BY <2>1, <2>2
<1>5. << >> \o g = g /\ g \in Seq(V) /\ Len(g) = n
  BY <1>2, <1>4, Listing
<1>6. \A i \in 1..n : g[i] = s[e[i]]
  BY <1>4
<1>7. Picked(s, S) = g
  BY <1>3, <1>5
<1>. HIDE DEF g
<1>8. Lists(g, s, S)
  BY <1>2, <1>5, <1>6 DEF Lists
<1>. QED
  BY <1>2, <1>5, <1>7, <1>8 DEF n

(* What is picked was there.                                               *)
LEMMA PickedFrom ==
  ASSUME NEW V, NEW s \in Seq(V), NEW S \in SUBSET (1..Len(s))
  PROVE  /\ Picked(s, S) \in Seq({s[i] : i \in S})
         /\ \A i \in S : \E k \in 1..Len(Picked(s, S)) : Picked(s, S)[k] = s[i]
<1>. DEFINE t == Picked(s, S)
            W == {s[i] : i \in S}
<1>1. t \in Seq(V) /\ Lists(t, s, S)
  BY PickedFacts
<1>2. PICK e \in [1..Len(t) -> S] :
           /\ \A x \in S : \E i \in 1..Len(t) : e[i] = x
           /\ \A i \in 1..Len(t) : t[i] = s[e[i]]
  BY <1>1 DEF Lists
<1>. HIDE DEF t
<1>3. \A i \in 1..Len(t) : t[i] \in W
  BY <1>2
<1>4. t \in Seq(W)
  <2>. HIDE DEF W
  <2>. QED
    BY <1>1, <1>3
<1>. QED
  BY <1>2, <1>4 DEF t

(* A list in another order has the same elements, whatever strict order it *)
(* is.                                                                     *)
LEMMA ArrangedFacts ==
  ASSUME NEW V, NEW s \in Seq(V), NEW R, StrictOrder(1..Len(s), R)
  PROVE  /\ Arranged(s, R) \in Seq(V) /\ Len(Arranged(s, R)) = Len(s)
         /\ Lists(Arranged(s, R), s, 1..Len(s))
<1>. DEFINE n == Len(s)
            e == Enumerated(DOMAIN s, R)
            g == [i \in DOMAIN e |-> s[e[i]]]
<1>1. n \in Nat /\ DOMAIN s = 1..n
  OBVIOUS
<1>2. IsFiniteSet(1..n) /\ Cardinality(1..n) = n
  <2>1. IsFiniteSet(1..n) /\ Cardinality(1..n) = IF 1 > n THEN 0 ELSE n - 1 + 1
    BY <1>1, FS_Interval
  <2>. QED
    BY <1>1, <2>1
<1>3. /\ e \in [1..n -> 1..n]
      /\ \A i, j \in 1..n : e[i] = e[j] => i = j
      /\ \A x \in 1..n : \E i \in 1..n : e[i] = x
  <2>1. StrictOrder(1..n, R) /\ e = Enumerated(1..n, R)
    BY <1>1
  <2>. HIDE DEF e, n
  <2>2. /\ Enumerated(1..n, R) \in [1..Cardinality(1..n) -> 1..n]
        /\ \A i, j \in 1..Cardinality(1..n) : Enumerated(1..n, R)[i] = Enumerated(1..n, R)[j] => i = j
        /\ \A x \in 1..n : \E i \in 1..Cardinality(1..n) : Enumerated(1..n, R)[i] = x
    BY <1>2, <2>1, EnumeratedFacts, Zenon
  <2>. QED
    BY <1>2, <2>1, <2>2
<1>4. Arranged(s, R) = << >> \o g
  BY DEF Arranged, Each
<1>. HIDE DEF e
<1>5. g \in [1..n -> V] /\ \A i \in 1..n : g[i] = s[e[i]]
  BY <1>1, <1>3
<1>6. << >> \o g = g /\ g \in Seq(V) /\ Len(g) = n
  BY <1>1, <1>5, Listing
<1>. HIDE DEF g, n
<1>7. Lists(g, s, 1..n)
  BY <1>3, <1>5, <1>6 DEF Lists
<1>. QED
  BY <1>4, <1>6, <1>7 DEF n

(* So has one with the highest keys first.                                 *)
LEMMA DescendingFacts ==
  ASSUME NEW V, NEW s \in Seq(V), NEW key \in [1..Len(s) -> Int]
  PROVE  /\ Descending(s, key) \in Seq(V) /\ Len(Descending(s, key)) = Len(s)
         /\ Lists(Descending(s, key), s, 1..Len(s))
<1>. DEFINE D == 1..Len(s)
            R == {p \in (DOMAIN s) \X (DOMAIN s) :
                    key[p[1]] > key[p[2]] \/ (key[p[1]] = key[p[2]] /\ p[1] < p[2])}
<1>1. DOMAIN s = D
  OBVIOUS
<1>2. \A i, j : <<i, j>> \in R <=>
        i \in D /\ j \in D /\ (key[i] > key[j] \/ (key[i] = key[j] /\ i < j))
  BY <1>1
<1>3. \A i \in D : i \in Int /\ key[i] \in Int
  OBVIOUS
<1>4. Descending(s, key) = Arranged(s, R)
  BY DEF Descending
<1>. HIDE DEF R, D
<1>5. StrictOrder(D, R)
  <2>1. ASSUME NEW i \in D, NEW j \in D, NEW k \in D, <<i, j>> \in R, <<j, k>> \in R
        PROVE  <<i, k>> \in R
    <3>1. i \in Int /\ j \in Int /\ k \in Int /\ key[i] \in Int /\ key[j] \in Int /\ key[k] \in Int
      BY <1>3
    <3>2. /\ key[i] > key[j] \/ (key[i] = key[j] /\ i < j)
          /\ key[j] > key[k] \/ (key[j] = key[k] /\ j < k)
      BY <1>2, <2>1
    <3>3. key[i] > key[k] \/ (key[i] = key[k] /\ i < k)
      BY <3>1, <3>2
    <3>. QED
      BY <1>2, <3>3
  <2>2. \A i \in D : <<i, i>> \notin R
    BY <1>2, <1>3
  <2>3. ASSUME NEW i \in D, NEW j \in D PROVE i = j \/ <<i, j>> \in R \/ <<j, i>> \in R
    <3>1. i \in Int /\ j \in Int /\ key[i] \in Int /\ key[j] \in Int
      BY <1>3
    <3>2. \/ i = j
          \/ key[i] > key[j] \/ (key[i] = key[j] /\ i < j)
          \/ key[j] > key[i] \/ (key[j] = key[i] /\ j < i)
      BY <3>1
    <3>. QED
      BY <1>2, <3>2
  <2>. QED
    BY <2>1, <2>2, <2>3 DEF StrictOrder
<1>. QED
  BY <1>4, <1>5, ArrangedFacts, Zenon DEF D

(* An initial part.                                                        *)
LEMMA UpToFacts ==
  ASSUME NEW V, NEW s \in Seq(V), NEW n \in Nat
  PROVE  /\ UpTo(s, n) \in Seq(V)
         /\ Len(UpTo(s, n)) = Least(Len(s), n) /\ Len(UpTo(s, n)) <= Len(s) /\ Len(UpTo(s, n)) <= n
         /\ \A i \in 1..Len(UpTo(s, n)) : i \in 1..Len(s) /\ UpTo(s, n)[i] = s[i]
<1>. DEFINE m == Least(Len(s), n)
<1>1. m \in Nat /\ m <= Len(s) /\ m <= n
  BY DEF Least
<1>. HIDE DEF m
<1>2. UpTo(s, n) = SubSeq(s, 1, m)
  BY DEF UpTo, m
<1>3. /\ SubSeq(s, 1, m) \in Seq(V) /\ Len(SubSeq(s, 1, m)) = m
      /\ \A i \in 1..m : SubSeq(s, 1, m)[i] = s[i]
  <2>1. \A i \in 1..m : 1 + i - 1 = i /\ i \in 1..Len(s) /\ s[i] \in V
    BY <1>1
  <2>. QED
    BY <1>1, <2>1
<1>. QED
  BY <1>1, <1>2, <1>3 DEF m

-----------------------------------------------------------------------------
(* Products and quotients.                                                 *)

(* Products of natural numbers, which the prover does not see by itself.   *)
LEMMA TimesFacts ==
  ASSUME NEW a \in Nat, NEW b \in Nat
  PROVE  a * b \in Nat /\ a * b = b * a /\ (a # 0 /\ b # 0 => a * b # 0)
OBVIOUS

(* Larger factors, larger product.                                         *)
LEMMA TimesMonotone ==
  ASSUME NEW a \in Nat, NEW b \in Nat, NEW c \in Nat, NEW d \in Nat, a <= b, c <= d
  PROVE  a * c <= b * d
<1>1. PICK x \in Nat, y \in Nat : b = a + x /\ d = c + y
  <2>1. b - a \in Nat /\ d - c \in Nat /\ b = a + (b - a) /\ d = c + (d - c)
    OBVIOUS
  <2>. QED
    BY <2>1
<1>2. b * d = a * c + a * y + x * c + x * y
  BY <1>1
<1>3. a * c \in Nat /\ a * y \in Nat /\ x * c \in Nat /\ x * y \in Nat
  BY <1>1, TimesFacts
<1>. QED
  BY <1>2, <1>3

(* A quotient is the largest number of times the divisor fits.             *)
LEMMA DivFacts ==
  ASSUME NEW a \in Nat, NEW b \in Nat \ {0}
  PROVE  a \div b \in Nat /\ (a \div b) * b <= a /\ a < (a \div b) * b + b
OBVIOUS

(* A quotient against a number, by the product.                            *)
LEMMA DivBounds ==
  ASSUME NEW a \in Nat, NEW b \in Nat \ {0}, NEW c \in Nat
  PROVE  (a <= c * b => a \div b <= c) /\ (c * b <= a => c <= a \div b)
<1>. DEFINE q == a \div b
<1>1. q \in Nat /\ q * b <= a /\ a < q * b + b /\ q * b \in Nat /\ c * b \in Nat
  BY DivFacts, TimesFacts
<1>. HIDE DEF q
<1>2. ASSUME a <= c * b PROVE q <= c
  <2>1. SUFFICES ASSUME c + 1 <= q PROVE FALSE
    BY <1>1
  <2>2. (c + 1) * b <= q * b
    BY <1>1, <2>1, TimesMonotone
  <2>3. (c + 1) * b = c * b + b
    OBVIOUS
  <2>. QED
    BY <1>1, <1>2, <2>2, <2>3
<1>3. ASSUME c * b <= a PROVE c <= q
  <2>1. SUFFICES ASSUME q + 1 <= c PROVE FALSE
    BY <1>1
  <2>2. (q + 1) * b <= c * b
    BY <1>1, <2>1, TimesMonotone
  <2>3. (q + 1) * b = q * b + b
    BY <1>1
  <2>. QED
    BY <1>1, <1>3, <2>2, <2>3
<1>. QED
  BY <1>2, <1>3 DEF q

(* Fractions that are ordered have quotients that are.                     *)
LEMMA DivMonotone ==
  ASSUME NEW a \in Nat, NEW b \in Nat \ {0}, NEW c \in Nat, NEW d \in Nat \ {0}, a * d <= c * b
  PROVE  a \div b <= c \div d
<1>. DEFINE q == a \div b
<1>1. q \in Nat /\ q * b <= a
  BY DivFacts
<1>. HIDE DEF q
<1>2. q * d \in Nat /\ q * b \in Nat
  BY <1>1, TimesFacts
<1>3. (q * b) * d <= a * d
  BY <1>1, <1>2, TimesMonotone
<1>4. (q * b) * d = (q * d) * b
  BY <1>1
<1>5. q * d <= c
  <2>1. SUFFICES ASSUME c + 1 <= q * d PROVE FALSE
    BY <1>2
  <2>2. (c + 1) * b <= (q * d) * b
    BY <1>2, <2>1, TimesMonotone
  <2>3. (c + 1) * b = c * b + b /\ c * b \in Nat /\ a * d \in Nat /\ (q * d) * b \in Nat
    BY <1>2, TimesFacts
  <2>. QED
    BY <1>3, <1>4, <2>2, <2>3
<1>. QED
  BY <1>1, <1>5, DivBounds DEF q

-----------------------------------------------------------------------------
(* What pools pay.                                                         *)

(* A pool one can swap through.                                            *)
GoodPools ==
  {p \in PoolTypes : /\ p.token0 # p.token1
                     /\ p.version = "v3" => p.fee < FeeUnit /\ p.sqrtPrice > 0 /\ p.reach > 0}

IsFee(fee) == fee.num \in Nat \ {0} /\ fee.den \in Nat /\ fee.num < fee.den

(* What is known of each field of such a pool.                             *)
LEMMA PoolFields ==
  ASSUME NEW p \in GoodPools
  PROVE  /\ p.id \in ToSet(Order) /\ p.version \in {"v2", "v3"} /\ p.token0 # p.token1
         /\ p.token0 \in STRING /\ p.token1 \in STRING
         /\ p.fee \in 0..FeeUnit /\ p.reserve0 \in Nat /\ p.reserve1 \in Nat
         /\ p.sqrtPrice \in Nat /\ p.liquidity \in Nat /\ p.reach \in Nat
         /\ IsFee(V2Fee[p.protocol])
         /\ p.version = "v3" => p.fee < FeeUnit /\ p.sqrtPrice > 0 /\ p.reach > 0
         /\ FeeUnit \in Nat \ {0} /\ Scale \in Nat \ {0} /\ MarginalScale \in Nat \ {0}
         /\ p \in PoolTypes
<1>1. p.protocol \in DOMAIN V2Fee
  BY DEF GoodPools, PoolTypes
<1>2. IsFee(V2Fee[p.protocol])
  BY <1>1, QuoteMathAssumption DEF IsFee
<1>. QED
  BY <1>2, QuoteMathAssumption DEF GoodPools, PoolTypes

(* The code's formulas for what a pool pays give natural numbers.          *)
LEMMA V2OutType ==
  ASSUME NEW amount \in Nat, NEW in \in Nat, NEW out \in Nat, NEW fee, IsFee(fee)
  PROVE  V2Out(amount, in, out, fee) \in Nat
<1>1. CASE amount = 0 \/ in = 0 \/ out = 0
  BY <1>1 DEF V2Out
<1>2. CASE ~(amount = 0 \/ in = 0 \/ out = 0)
  <2>1. fee.num \in Nat \ {0} /\ fee.den \in Nat \ {0}
    BY DEF IsFee
  <2>2. amount * fee.num \in Nat \ {0} /\ in * fee.den \in Nat \ {0}
    BY <1>2, <2>1, TimesFacts
  <2>3. amount * fee.num * out \in Nat /\ in * fee.den + amount * fee.num \in Nat \ {0}
    BY <2>2, TimesFacts
  <2>4. (amount * fee.num * out) \div (in * fee.den + amount * fee.num) \in Nat
    BY <2>3, DivFacts
  <2>. QED
    BY <1>2, <2>4 DEF V2Out
<1>. QED
  BY <1>1, <1>2

(* So does the formula within one tick: the price never falls below zero,  *)
(* and going up it never pays less than nothing.                           *)
LEMMA V3OutType ==
  ASSUME NEW price \in Nat, NEW liquidity \in Nat, NEW amount \in Nat, NEW fee \in 0..FeeUnit,
         NEW zeroForOne \in BOOLEAN
  PROVE  V3Out(price, liquidity, amount, fee, zeroForOne) \in Nat
<1>. DEFINE paid == (amount * (FeeUnit - fee)) \div FeeUnit
            down == (liquidity * Scale * price) \div (liquidity * Scale + paid * price)
            up   == price + (paid * Scale) \div liquidity
<1>1. Scale \in Nat \ {0} /\ FeeUnit \in Nat \ {0} /\ paid \in Nat
  <2>1. Scale \in Nat \ {0} /\ FeeUnit \in Nat \ {0} /\ FeeUnit - fee \in Nat
    BY QuoteMathAssumption
  <2>2. amount * (FeeUnit - fee) \in Nat
    BY <2>1, TimesFacts
  <2>. QED
    BY <2>1, <2>2, DivFacts
<1>2. V3Out(price, liquidity, amount, fee, zeroForOne) =
        IF price = 0 \/ liquidity = 0 \/ paid <= 0 THEN 0
        ELSE IF zeroForOne THEN (liquidity * (price - down)) \div Scale
        ELSE (liquidity * Scale) \div price - (liquidity * Scale) \div up
  BY DEF V3Out
<1>. HIDE DEF paid, down, up
<1>3. CASE price = 0 \/ liquidity = 0 \/ paid <= 0
  BY <1>2, <1>3
<1>4. CASE ~(price = 0 \/ liquidity = 0 \/ paid <= 0)
  <2>1. /\ liquidity * Scale \in Nat \ {0} /\ paid * price \in Nat \ {0} /\ paid * Scale \in Nat
        /\ liquidity * Scale * price \in Nat
    <3>1. liquidity * Scale \in Nat \ {0}
      BY <1>1, <1>4, TimesFacts
    <3>2. paid * price \in Nat \ {0} /\ paid * Scale \in Nat
      BY <1>1, <1>4, TimesFacts
    <3>. QED
      BY <3>1, <3>2, TimesFacts
  <2>2. (liquidity * (price - down)) \div Scale \in Nat
    <3>1. down \in Nat
      BY <2>1, DivFacts DEF down
    <3>2. liquidity * Scale * price <= price * (liquidity * Scale + paid * price)
      <4>1. price * (liquidity * Scale + paid * price) = liquidity * Scale * price + price * (paid * price)
        BY <1>1, <2>1
      <4>2. price * (paid * price) \in Nat
        BY <2>1, TimesFacts
      <4>. QED
        BY <2>1, <4>1, <4>2
    <3>3. down <= price
      BY <2>1, <3>2, DivBounds DEF down
    <3>4. liquidity * (price - down) \in Nat
      <4>1. price - down \in Nat
        BY <3>1, <3>3
      <4>. QED
        BY <4>1, TimesFacts
    <3>. QED
      BY <1>1, <3>4, DivFacts
  <2>3. (liquidity * Scale) \div price - (liquidity * Scale) \div up \in Nat
    <3>1. (paid * Scale) \div liquidity \in Nat
      BY <1>4, <2>1, DivFacts
    <3>2. up \in Nat \ {0} /\ price <= up
      BY <1>4, <3>1 DEF up
    <3>3. (liquidity * Scale) * price <= (liquidity * Scale) * up
      BY <2>1, <3>2, TimesMonotone
    <3>4. (liquidity * Scale) \div up <= (liquidity * Scale) \div price
      BY <1>4, <2>1, <3>2, <3>3, DivMonotone
    <3>5. (liquidity * Scale) \div up \in Nat /\ (liquidity * Scale) \div price \in Nat
      BY <1>4, <2>1, <3>2, DivFacts
    <3>. QED
      BY <3>4, <3>5
  <2>. QED
    BY <1>2, <1>4, <2>2, <2>3
<1>. QED
  BY <1>3, <1>4

(* So it is for a pool of either version.                                  *)
LEMMA HopOutType ==
  ASSUME NEW p \in GoodPools, NEW token, NEW amount \in Nat
  PROVE  HopOut(p, token, amount) \in Nat
<1>1. ReserveIn(p, token) \in Nat /\ ReserveOut(p, token) \in Nat
  BY PoolFields DEF ReserveIn, ReserveOut
<1>2. V2Out(amount, ReserveIn(p, token), ReserveOut(p, token), V2Fee[p.protocol]) \in Nat
  BY <1>1, PoolFields, V2OutType
<1>3. V3Out(p.sqrtPrice, p.liquidity, amount, p.fee, token = p.token0) \in Nat
  <2>1. (token = p.token0) \in BOOLEAN
    OBVIOUS
  <2>. QED
    BY <2>1, PoolFields, V3OutType
<1>. QED
  BY <1>2, <1>3 DEF HopOut

(* What counts for a quote's liquidity score is a natural number.          *)
LEMMA DepthType ==
  ASSUME NEW p \in GoodPools
  PROVE  Depth(p) \in Nat
BY PoolFields DEF Depth

(* What one more unit earns is a natural number, for either version.       *)
LEMMA V2MarginalType ==
  ASSUME NEW amount \in Nat, NEW in \in Nat, NEW out \in Nat, NEW fee, IsFee(fee)
  PROVE  V2Marginal(amount, in, out, fee) \in Nat
<1>. DEFINE denominator == in * fee.den + fee.num * amount
            numerator == out * fee.num * in * fee.den * MarginalScale
<1>1. CASE in = 0 \/ out = 0
  BY <1>1 DEF V2Marginal
<1>2. CASE ~(in = 0 \/ out = 0)
  <2>1. fee.num \in Nat \ {0} /\ fee.den \in Nat \ {0} /\ MarginalScale \in Nat
    BY QuoteMathAssumption DEF IsFee
  <2>2. fee.num * amount \in Nat /\ in * fee.den \in Nat \ {0}
    BY <1>2, <2>1, TimesFacts
  <2>3. denominator \in Nat \ {0}
    BY <2>2
  <2>4. numerator \in Nat
    <3>1. out * fee.num \in Nat
      BY <2>1, TimesFacts
    <3>2. out * fee.num * in \in Nat
      BY <3>1, TimesFacts
    <3>3. out * fee.num * in * fee.den \in Nat
      BY <2>1, <3>2, TimesFacts
    <3>. QED
      BY <2>1, <3>3, TimesFacts
  <2>5. V2Marginal(amount, in, out, fee) = numerator \div (denominator * denominator)
    BY <1>2 DEF V2Marginal
  <2>. HIDE DEF denominator, numerator
  <2>6. denominator * denominator \in Nat \ {0}
    BY <2>3, TimesFacts
  <2>. QED
    BY <2>4, <2>5, <2>6, DivFacts
<1>. QED
  BY <1>1, <1>2

(* No divisor of the V3 formula is zero.                                   *)
LEMMA V3MarginalType ==
  ASSUME NEW price \in Nat, NEW liquidity \in Nat, NEW amount \in Nat, NEW fee \in 0..FeeUnit,
         NEW zeroForOne \in BOOLEAN
  PROVE  V3Marginal(price, liquidity, amount, fee, zeroForOne) \in Nat
<1>. DEFINE paid   == (amount * (FeeUnit - fee)) \div FeeUnit
            earned == (FeeUnit - fee) * liquidity * liquidity
            down   == liquidity * Scale + paid * price
            up     == price * liquidity + paid * Scale
<1>1. CASE price = 0 \/ liquidity = 0
  BY <1>1 DEF V3Marginal
<1>2. CASE ~(price = 0 \/ liquidity = 0)
  <2>1. /\ Scale \in Nat \ {0} /\ FeeUnit \in Nat \ {0} /\ FeeUnit - fee \in Nat
        /\ MarginalScale \in Nat
    BY QuoteMathAssumption
  <2>2. paid \in Nat
    <3>1. amount * (FeeUnit - fee) \in Nat
      BY <2>1, TimesFacts
    <3>. QED
      BY <2>1, <3>1, DivFacts
  <2>3. earned \in Nat
    <3>1. (FeeUnit - fee) * liquidity \in Nat
      BY <2>1, TimesFacts
    <3>. QED
      BY <3>1, TimesFacts
  <2>4. V3Marginal(price, liquidity, amount, fee, zeroForOne) =
          IF zeroForOne
          THEN (earned * price * price * MarginalScale) \div (down * down * Scale * FeeUnit)
          ELSE (earned * Scale * Scale * MarginalScale) \div (up * up * FeeUnit)
    BY <1>2 DEF V3Marginal
  <2>. HIDE DEF paid, earned
  <2>5. down \in Nat \ {0} /\ up \in Nat \ {0}
    <3>1. liquidity * Scale \in Nat \ {0} /\ paid * price \in Nat
      BY <1>2, <2>1, <2>2, TimesFacts
    <3>2. price * liquidity \in Nat \ {0} /\ paid * Scale \in Nat
      BY <1>2, <2>1, <2>2, TimesFacts
    <3>. QED
      BY <3>1, <3>2
  <2>. HIDE DEF down, up
  <2>6. (earned * price * price * MarginalScale) \div (down * down * Scale * FeeUnit) \in Nat
    <3>1. earned * price \in Nat
      BY <2>3, TimesFacts
    <3>2. earned * price * price \in Nat
      BY <3>1, TimesFacts
    <3>3. earned * price * price * MarginalScale \in Nat
      BY <2>1, <3>2, TimesFacts
    <3>4. down * down \in Nat \ {0}
      BY <2>5, TimesFacts
    <3>5. down * down * Scale \in Nat \ {0}
      BY <2>1, <3>4, TimesFacts
    <3>6. down * down * Scale * FeeUnit \in Nat \ {0}
      BY <2>1, <3>5, TimesFacts
    <3>. QED
      BY <3>3, <3>6, DivFacts
  <2>7. (earned * Scale * Scale * MarginalScale) \div (up * up * FeeUnit) \in Nat
    <3>1. earned * Scale \in Nat
      BY <2>1, <2>3, TimesFacts
    <3>2. earned * Scale * Scale \in Nat
      BY <2>1, <3>1, TimesFacts
    <3>3. earned * Scale * Scale * MarginalScale \in Nat
      BY <2>1, <3>2, TimesFacts
    <3>4. up * up \in Nat \ {0}
      BY <2>5, TimesFacts
    <3>5. up * up * FeeUnit \in Nat \ {0}
      BY <2>1, <3>4, TimesFacts
    <3>. QED
      BY <3>3, <3>5, DivFacts
  <2>. QED
    BY <2>4, <2>6, <2>7
<1>. QED
  BY <1>1, <1>2

(* Each version has its formula.                                           *)
LEMMA HopMarginalType ==
  ASSUME NEW p \in GoodPools, NEW token, NEW amount \in Nat
  PROVE  HopMarginal(p, token, amount) \in Nat
<1>1. ReserveIn(p, token) \in Nat /\ ReserveOut(p, token) \in Nat
  BY PoolFields DEF ReserveIn, ReserveOut
<1>2. V2Marginal(amount, ReserveIn(p, token), ReserveOut(p, token), V2Fee[p.protocol]) \in Nat
  BY <1>1, PoolFields, V2MarginalType
<1>3. V3Marginal(p.sqrtPrice, p.liquidity, amount, p.fee, token = p.token0) \in Nat
  <2>1. (token = p.token0) \in BOOLEAN
    OBVIOUS
  <2>. QED
    BY <2>1, PoolFields, V3MarginalType
<1>. QED
  BY <1>2, <1>3 DEF HopMarginal

-----------------------------------------------------------------------------
(* What the chain pays.                                                    *)

(* The rates and reserves by which a pool pays.                            *)
Num(p)        == IF p.version = "v2" THEN V2Fee[p.protocol].num ELSE FeeUnit - p.fee
Den(p)        == IF p.version = "v2" THEN V2Fee[p.protocol].den ELSE FeeUnit
Taken(p, a)   == IF p.version = "v2" THEN a ELSE Least(a, p.reach)
Other(p, token) == IF token = p.token0 THEN p.token1 ELSE p.token0

(* What the chain pays, by its parts: what is taken, the rate, and what is *)
(* held.                                                                   *)
LEMMA PaysParts ==
  ASSUME NEW p \in GoodPools, NEW token, NEW amount \in Nat
  PROVE  /\ Num(p) \in Nat \ {0} /\ Den(p) \in Nat \ {0} /\ Num(p) <= Den(p)
         /\ Taken(p, amount) \in Nat /\ (amount # 0 => Taken(p, amount) # 0)
         /\ Taken(p, amount) <= amount
         /\ Held(p, token) \in Nat
         /\ p.version = "v2" => Held(p, token) = ReserveIn(p, token)
                                /\ Held(p, Other(p, token)) = ReserveOut(p, token)
         /\ Pays(p, token, amount) =
              IF amount = 0 THEN 0
              ELSE (Taken(p, amount) * Num(p) * Held(p, Other(p, token)))
                     \div (Held(p, token) * Den(p) + Taken(p, amount) * Num(p))
<1>1. Num(p) \in Nat \ {0} /\ Den(p) \in Nat \ {0} /\ Num(p) <= Den(p)
  BY PoolFields DEF Num, Den, IsFee
<1>2. /\ Taken(p, amount) \in Nat /\ (amount # 0 => Taken(p, amount) # 0)
      /\ Taken(p, amount) <= amount
  BY PoolFields DEF Taken, Least
<1>3. Held(p, token) \in Nat
  <2>1. CASE p.version = "v2"
    BY <2>1, PoolFields DEF Held
  <2>2. CASE p.version # "v2"
    <3>1. p.liquidity \in Nat /\ Scale \in Nat \ {0} /\ p.sqrtPrice \in Nat \ {0}
      BY <2>2, PoolFields
    <3>2. p.liquidity * Scale \in Nat /\ p.liquidity * p.sqrtPrice \in Nat
      BY <3>1, TimesFacts
    <3>3. (p.liquidity * Scale) \div p.sqrtPrice \in Nat /\ (p.liquidity * p.sqrtPrice) \div Scale \in Nat
      BY <3>1, <3>2, DivFacts
    <3>. QED
      BY <2>2, <3>3 DEF Held
  <2>. QED
    BY <2>1, <2>2
<1>4. p.version = "v2" => Held(p, token) = ReserveIn(p, token)
                          /\ Held(p, Other(p, token)) = ReserveOut(p, token)
  BY PoolFields DEF Held, ReserveIn, ReserveOut, Other
<1>5. Pays(p, token, amount) =
        IF amount = 0 THEN 0
        ELSE (Taken(p, amount) * Num(p) * Held(p, Other(p, token)))
               \div (Held(p, token) * Den(p) + Taken(p, amount) * Num(p))
  BY DEF Pays, Num, Den, Taken, Other
<1>. QED
  BY <1>1, <1>2, <1>3, <1>4, <1>5

(* A pool pays no more than it holds.                                      *)
LEMMA PaysType ==
  ASSUME NEW p \in GoodPools, NEW token, NEW amount \in Nat
  PROVE  Pays(p, token, amount) \in Nat /\ Pays(p, token, amount) <= Held(p, Other(p, token))
<1>. DEFINE n == Taken(p, amount) * Num(p)
            out == Held(p, Other(p, token))
            in == Held(p, token) * Den(p)
<1>1. n \in Nat /\ (amount # 0 => n # 0) /\ out \in Nat /\ in \in Nat
  <2>1. /\ Num(p) \in Nat \ {0} /\ Den(p) \in Nat \ {0}
        /\ Taken(p, amount) \in Nat /\ (amount # 0 => Taken(p, amount) # 0)
        /\ Held(p, token) \in Nat /\ Held(p, Other(p, token)) \in Nat
    BY PaysParts
  <2>. QED
    BY <2>1, TimesFacts
<1>2. Pays(p, token, amount) = IF amount = 0 THEN 0 ELSE (n * out) \div (in + n)
  BY PaysParts
<1>. HIDE DEF n, out, in
<1>3. CASE amount = 0
  BY <1>1, <1>2, <1>3 DEF out
<1>4. CASE amount # 0
  <2>1. n * out \in Nat /\ in * out \in Nat /\ in + n \in Nat \ {0}
    BY <1>1, <1>4, TimesFacts
  <2>2. n * out <= out * (in + n)
    <3>1. out * (in + n) = in * out + n * out
      BY <1>1
    <3>. QED
      BY <2>1, <3>1
  <2>3. (n * out) \div (in + n) \in Nat /\ (n * out) \div (in + n) <= out
    BY <1>1, <2>1, <2>2, DivFacts, DivBounds
  <2>. QED
    BY <1>2, <1>4, <2>3 DEF out
<1>. QED
  BY <1>3, <1>4

(* The code's formula for a V2 pool is what the chain pays, wherever it    *)
(* says that it pays something.                                            *)
LEMMA V2Exact ==
  ASSUME NEW p \in GoodPools, NEW token, NEW amount \in Nat,
         p.version = "v2", HopOut(p, token, amount) > 0
  PROVE  HopOut(p, token, amount) = Pays(p, token, amount) /\ ReserveIn(p, token) > 0
<1>. DEFINE in == ReserveIn(p, token)
            out == ReserveOut(p, token)
            fee == V2Fee[p.protocol]
<1>1. in \in Nat /\ out \in Nat /\ IsFee(fee)
  BY PoolFields DEF ReserveIn, ReserveOut
<1>2. HopOut(p, token, amount) = V2Out(amount, in, out, fee)
  BY DEF HopOut
<1>3. Pays(p, token, amount) =
        IF amount = 0 THEN 0 ELSE (amount * fee.num * out) \div (in * fee.den + amount * fee.num)
  BY PaysParts DEF Num, Den, Taken
<1>. HIDE DEF in, out, fee
<1>4. ~(amount = 0 \/ in = 0 \/ out = 0)
  BY <1>2 DEF V2Out
<1>5. V2Out(amount, in, out, fee) = (amount * fee.num * out) \div (in * fee.den + amount * fee.num)
  BY <1>4 DEF V2Out
<1>. QED
  BY <1>1, <1>2, <1>3, <1>4, <1>5 DEF in

(* q is p after swaps that put in token: it pays no more for token.        *)
NoBetter(q, p, token) ==
  /\ q = [p EXCEPT !.reserve0 = q.reserve0, !.reserve1 = q.reserve1]
  /\ IF p.version = "v2" THEN ReserveIn(q, token) >= ReserveIn(p, token)
                              /\ ReserveOut(q, token) <= ReserveOut(p, token)
     ELSE q = p

(* Out of a pool that holds more of what is put in and less of what is     *)
(* paid, less put in earns less.                                           *)
LEMMA FractionMonotone ==
  ASSUME NEW a \in Nat, NEW b \in Nat, a <= b, a # 0,
         NEW x \in Nat, NEW y \in Nat, x <= y, NEW j \in Nat, NEW k \in Nat, j <= k
  PROVE  (a * x) \div (k + a) <= (b * y) \div (j + b)
<1>1. /\ a * x \in Nat /\ b * y \in Nat /\ k + a \in Nat \ {0} /\ j + b \in Nat \ {0}
      /\ (a * x) * j \in Nat /\ (b * y) * k \in Nat /\ (a * x) * b \in Nat /\ (b * y) * a \in Nat
  <2>1. a * x \in Nat /\ b * y \in Nat /\ k + a \in Nat \ {0} /\ j + b \in Nat \ {0}
    BY TimesFacts
  <2>. QED
    BY <2>1, TimesFacts
<1>2. a * x <= b * y
  BY TimesMonotone
<1>3. (a * x) * j <= (b * y) * k
  BY <1>1, <1>2, TimesMonotone
<1>4. (a * x) * b <= (b * y) * a
  <2>1. a * b \in Nat
    BY TimesFacts
  <2>2. (a * b) * x <= (a * b) * y
    BY <2>1, TimesMonotone
  <2>3. (a * b) * x = (a * x) * b /\ (a * b) * y = (b * y) * a
    OBVIOUS
  <2>. QED
    BY <2>2, <2>3
<1>5. (a * x) * (j + b) = (a * x) * j + (a * x) * b /\ (b * y) * (k + a) = (b * y) * k + (b * y) * a
  BY <1>1
<1>6. (a * x) * (j + b) <= (b * y) * (k + a)
  BY <1>1, <1>3, <1>4, <1>5
<1>. QED
  BY <1>1, <1>6, DivMonotone

(* Less put in, or a pool that is no better, pays no more.                 *)
LEMMA PaysMonotone ==
  ASSUME NEW p \in GoodPools, NEW q \in GoodPools, NEW token, NoBetter(q, p, token),
         NEW a \in Nat, NEW b \in Nat, a <= b
  PROVE  Pays(q, token, a) <= Pays(p, token, b)
<1>1. /\ Num(p) \in Nat \ {0} /\ Den(p) \in Nat \ {0} /\ Num(q) = Num(p) /\ Den(q) = Den(p)
      /\ Taken(p, b) \in Nat /\ Taken(q, a) \in Nat /\ (a # 0 => Taken(q, a) # 0)
      /\ Taken(q, a) <= Taken(p, b)
  <2>1. q.version = p.version /\ q.protocol = p.protocol /\ q.fee = p.fee /\ q.reach = p.reach
    BY DEF NoBetter, GoodPools, PoolTypes
  <2>2. Taken(q, a) <= Taken(p, b)
    BY <2>1, PoolFields DEF Taken, Least
  <2>3. Num(q) = Num(p) /\ Den(q) = Den(p)
    BY <2>1 DEF Num, Den, NoBetter
  <2>. QED
    BY <2>2, <2>3, PaysParts
<1>2. /\ Held(p, token) \in Nat /\ Held(q, token) \in Nat
      /\ Held(p, Other(p, token)) \in Nat /\ Held(q, Other(q, token)) \in Nat
      /\ Held(p, token) <= Held(q, token) /\ Held(q, Other(q, token)) <= Held(p, Other(p, token))
  <2>1. /\ Held(p, token) \in Nat /\ Held(q, token) \in Nat
        /\ Held(p, Other(p, token)) \in Nat /\ Held(q, Other(q, token)) \in Nat
    BY PaysParts
  <2>2. CASE p.version = "v2"
    <3>1. q.version = "v2"
      BY <2>2 DEF NoBetter, GoodPools, PoolTypes
    <3>2. /\ Held(p, token) = ReserveIn(p, token) /\ Held(p, Other(p, token)) = ReserveOut(p, token)
          /\ Held(q, token) = ReserveIn(q, token) /\ Held(q, Other(q, token)) = ReserveOut(q, token)
      BY <2>2, <3>1, PaysParts
    <3>3. ReserveIn(q, token) >= ReserveIn(p, token) /\ ReserveOut(q, token) <= ReserveOut(p, token)
      BY <2>2 DEF NoBetter
    <3>. QED
      BY <2>1, <3>2, <3>3
  <2>3. CASE p.version # "v2"
    <3>1. q = p
      BY <2>3 DEF NoBetter
    <3>. QED
      BY <2>1, <3>1
  <2>. QED
    BY <2>2, <2>3
<1>. DEFINE x == Taken(q, a) * Num(p)
            y == Taken(p, b) * Num(p)
            j == Held(p, token) * Den(p)
            k == Held(q, token) * Den(p)
<1>3. x \in Nat /\ y \in Nat /\ j \in Nat /\ k \in Nat /\ x <= y /\ j <= k /\ (a # 0 => x # 0)
  BY <1>1, <1>2, TimesFacts, TimesMonotone
<1>4. Pays(q, token, a) = IF a = 0 THEN 0 ELSE (x * Held(q, Other(q, token))) \div (k + x)
  BY <1>1, PaysParts
<1>5. Pays(p, token, b) = IF b = 0 THEN 0 ELSE (y * Held(p, Other(p, token))) \div (j + y)
  BY PaysParts
<1>. HIDE DEF x, y, j, k
<1>6. CASE a = 0
  BY <1>4, <1>6, PaysType
<1>7. CASE a # 0
  <2>1. (x * Held(q, Other(q, token))) \div (k + x) <= (y * Held(p, Other(p, token))) \div (j + y)
    BY <1>2, <1>3, <1>7, FractionMonotone
  <2>. QED
    BY <1>4, <1>5, <1>7, <2>1
<1>. QED
  BY <1>6, <1>7

(* A V2 pool after a swap is still one, and no better for whoever puts in  *)
(* the same token.                                                         *)
LEMMA AfterSwapFacts ==
  ASSUME NEW p \in GoodPools, p.version = "v2", NEW token, NEW amount \in Nat
  PROVE  AfterSwap(p, token, amount) \in GoodPools /\ NoBetter(AfterSwap(p, token, amount), p, token)
<1>. DEFINE paid == Pays(p, token, amount)
            q == AfterSwap(p, token, amount)
<1>1. paid \in Nat /\ paid <= ReserveOut(p, token)
  <2>1. Held(p, Other(p, token)) = ReserveOut(p, token)
    BY PaysParts
  <2>. QED
    BY <2>1, PaysType
<1>2. q = [p EXCEPT !.reserve0 = IF token = p.token0 THEN @ + amount ELSE @ - paid,
                    !.reserve1 = IF token = p.token0 THEN @ - paid ELSE @ + amount]
  BY DEF AfterSwap
<1>. HIDE DEF paid, q
<1>. DEFINE r0 == IF token = p.token0 THEN p.reserve0 + amount ELSE p.reserve0 - paid
            r1 == IF token = p.token0 THEN p.reserve1 - paid ELSE p.reserve1 + amount
<1>3. p \in PoolTypes /\ p.reserve0 \in Nat /\ p.reserve1 \in Nat
  BY PoolFields
<1>4. q = [p EXCEPT !.reserve0 = r0, !.reserve1 = r1] /\ q.reserve0 = r0 /\ q.reserve1 = r1
  BY <1>2, <1>3 DEF PoolTypes
<1>5. r0 \in Nat /\ r1 \in Nat
  BY <1>1, <1>3 DEF ReserveOut
<1>6. ReserveIn(q, token) >= ReserveIn(p, token) /\ ReserveOut(q, token) <= ReserveOut(p, token)
  <2>1. q.token0 = p.token0
    BY <1>3, <1>4 DEF PoolTypes
  <2>. QED
    BY <1>1, <1>3, <1>4, <2>1 DEF ReserveIn, ReserveOut
<1>. HIDE DEF r0, r1
<1>7. q \in GoodPools
  BY <1>3, <1>4, <1>5 DEF PoolTypes, GoodPools
<1>8. NoBetter(q, p, token)
  BY <1>4, <1>6 DEF NoBetter
<1>. QED
  BY <1>7, <1>8 DEF q

-----------------------------------------------------------------------------
(* Quotes through pools of a set PS.                                       *)

Tokens == STRING

Hops(PS) == [pool : PS, amountIn : Nat, amountOut : Nat]

(* A chain of hops that pay, over tokens none of which comes twice.        *)
Chained(path, hops) ==
  /\ Len(hops) >= 1 /\ Len(path) = Len(hops) + 1
  /\ \A i \in 1..Len(hops) :
       /\ Between(hops[i].pool, path[i], path[i + 1])
       /\ hops[i].amountIn > 0 /\ hops[i].amountOut > 0
       /\ i > 1 => hops[i].amountIn = hops[i - 1].amountOut
  /\ \A i, j \in 1..Len(path) : path[i] = path[j] => i = j

(* No route is longer than the search goes.                                *)
QuoteSet(PS) ==
  {q \in [path : Seq(Tokens), hops : Seq(Hops(PS)), gasPrice : {None} \cup Nat,
          amountIn : Nat \ {0}, amountOut : Nat \ {0}] :
     /\ Chained(q.path, q.hops) /\ Len(q.hops) <= MaxHopDepth + 1
     /\ q.amountIn = q.hops[1].amountIn /\ q.amountOut = q.hops[Len(q.hops)].amountOut}

(* Every hop pays what the code's formula says.                            *)
Estimated(q) ==
  \A i \in 1..Len(q.hops) :
    q.hops[i].amountOut = HopOut(q.hops[i].pool, q.path[i], q.hops[i].amountIn)

(* Every hop pays what the chain would.                                    *)
Honest(q) ==
  \A i \in 1..Len(q.hops) :
    q.hops[i].amountOut = Pays(q.hops[i].pool, q.path[i], q.hops[i].amountIn)

(* What is known of each field of a quote.                                 *)
LEMMA QuoteFields ==
  ASSUME NEW PS \in SUBSET GoodPools, NEW q \in QuoteSet(PS)
  PROVE  /\ q.path \in Seq(Tokens) /\ q.hops \in Seq(Hops(PS)) /\ q.gasPrice \in {None} \cup Nat
         /\ q.amountIn \in Nat \ {0} /\ q.amountOut \in Nat \ {0}
         /\ Len(q.hops) \in Nat \ {0} /\ Len(q.path) = Len(q.hops) + 1
         /\ Len(q.hops) <= MaxHopDepth + 1
         /\ DOMAIN q.hops = 1..Len(q.hops)
         /\ Chained(q.path, q.hops)
         /\ q.amountIn = q.hops[1].amountIn /\ q.amountOut = q.hops[Len(q.hops)].amountOut
         /\ \A i \in 1..Len(q.hops) :
              /\ q.hops[i] \in Hops(PS) /\ q.hops[i].pool \in PS /\ q.hops[i].pool \in GoodPools
              /\ q.hops[i].amountIn \in Nat /\ q.hops[i].amountOut \in Nat
              /\ q.hops[i].amountIn > 0 /\ q.hops[i].amountOut > 0
              /\ i > 1 => q.hops[i].amountIn = q.hops[i - 1].amountOut
              /\ q.path[i] \in Tokens
              /\ Between(q.hops[i].pool, q.path[i], q.path[i + 1])
<1>1. /\ q.path \in Seq(Tokens) /\ q.hops \in Seq(Hops(PS)) /\ q.gasPrice \in {None} \cup Nat
      /\ q.amountIn \in Nat \ {0} /\ q.amountOut \in Nat \ {0}
      /\ Chained(q.path, q.hops) /\ Len(q.hops) <= MaxHopDepth + 1
      /\ q.amountIn = q.hops[1].amountIn /\ q.amountOut = q.hops[Len(q.hops)].amountOut
  BY DEF QuoteSet
<1>2. Len(q.hops) \in Nat /\ DOMAIN q.hops = 1..Len(q.hops)
  BY <1>1, LenProperties
<1>3. Len(q.hops) \in Nat \ {0} /\ Len(q.path) = Len(q.hops) + 1
  BY <1>1, <1>2 DEF Chained
<1>4. ASSUME NEW i \in 1..Len(q.hops)
      PROVE  /\ q.hops[i] \in Hops(PS) /\ q.hops[i].pool \in PS /\ q.hops[i].pool \in GoodPools
             /\ q.hops[i].amountIn \in Nat /\ q.hops[i].amountOut \in Nat
             /\ q.hops[i].amountIn > 0 /\ q.hops[i].amountOut > 0
             /\ i > 1 => q.hops[i].amountIn = q.hops[i - 1].amountOut
             /\ q.path[i] \in Tokens
             /\ Between(q.hops[i].pool, q.path[i], q.path[i + 1])
  <2>1. q.hops[i] \in Hops(PS)
    BY <1>1
  <2>2. i \in 1..Len(q.path)
    BY <1>3
  <2>3. q.path[i] \in Tokens
    BY <1>1, <2>2
  <2>4. q.hops[i].pool \in PS /\ q.hops[i].amountIn \in Nat /\ q.hops[i].amountOut \in Nat
    BY <2>1 DEF Hops
  <2>. QED
    BY <1>1, <2>1, <2>3, <2>4 DEF Chained
<1>. QED
  BY <1>1, <1>2, <1>3, <1>4

(* A hop through a pool.                                                   *)
LEMMA HopType ==
  ASSUME NEW PS \in SUBSET GoodPools, NEW p \in PS, NEW token, NEW amount \in Nat
  PROVE  /\ Hop(p, token, amount) \in Hops(PS)
         /\ Hop(p, token, amount) = [pool |-> p, amountIn |-> amount, amountOut |-> HopOut(p, token, amount)]
BY HopOutType DEF Hop, Hops

Rolling(q, amount, r) ==
  \A i \in 1..Len(q.hops) :
    r[i] = Hop(q.hops[i].pool, q.path[i], IF i = 1 THEN amount ELSE r[i - 1].amountOut)

(* The hops of a way through some pools, rolled for an amount.             *)
LEMMA RolledThrough ==
  ASSUME NEW PS \in SUBSET GoodPools, NEW q, Len(q.hops) \in Nat \ {0},
         \A i \in 1..Len(q.hops) : q.hops[i].pool \in PS, NEW amount \in Nat
  PROVE  /\ Rolled(q, amount) \in Seq(Hops(PS)) /\ Len(Rolled(q, amount)) = Len(q.hops)
         /\ Rolling(q, amount, Rolled(q, amount))
<1>. DEFINE n == Len(q.hops)
            V == Hops(PS)
            Body(f) == [i \in 1..Len(q.hops) |->
                          Hop(q.hops[i].pool, q.path[i], IF i = 1 THEN amount ELSE f[i - 1].amountOut)]
            G == [k \in 1..(n - 1) |-> [h \in V |-> Hop(q.hops[k + 1].pool, q.path[k + 1], h.amountOut)]]
            start == Hop(q.hops[1].pool, q.path[1], amount)
<1>1. n \in Nat \ {0} /\ \A i \in 1..n : q.hops[i].pool \in PS
  OBVIOUS
<1>2. n - 1 \in Nat /\ 1 \in 1..n /\ start \in V
  BY <1>1, HopType
<1>3. G \in [1..(n - 1) -> [V -> V]]
  <2>1. ASSUME NEW k \in 1..(n - 1), NEW h \in V
        PROVE  Hop(q.hops[k + 1].pool, q.path[k + 1], h.amountOut) \in V
    <3>1. k + 1 \in 1..n /\ h.amountOut \in Nat
      BY <1>1 DEF Hops
    <3>. QED
      BY <1>1, <3>1, HopType
  <2>. QED
    BY <2>1
<1>4. PICK g \in [0..(n - 1) -> V] : Stepwise(g, n - 1, start, G)
  <2>. HIDE DEF G, V, start
  <2>. QED
    BY <1>2, <1>3, StepsExist, Zenon
<1>. DEFINE r == [i \in 1..n |-> g[i - 1]]
<1>5. r \in [1..n -> V]
  <2>1. \A i \in 1..n : i - 1 \in 0..(n - 1)
    BY <1>1
  <2>. QED
    BY <1>4, <2>1
<1>6. ASSUME NEW i \in 1..n
      PROVE  r[i] = Hop(q.hops[i].pool, q.path[i], IF i = 1 THEN amount ELSE r[i - 1].amountOut)
  <2>1. CASE i = 1
    BY <1>1, <1>4, <2>1 DEF Stepwise
  <2>2. CASE i # 1
    <3>1. i - 1 \in 1..(n - 1) /\ i - 1 \in 1..n /\ i - 1 - 1 \in 0..(n - 1) /\ i - 1 + 1 = i
      BY <1>1, <2>2
    <3>2. g[i - 1] = G[i - 1][g[i - 1 - 1]]
      <4>. HIDE DEF G, start
      <4>. QED
        BY <1>4, <3>1 DEF Stepwise
    <3>3. g[i - 1 - 1] \in V
      BY <1>4, <3>1
    <3>4. G[i - 1][g[i - 1 - 1]] = Hop(q.hops[i].pool, q.path[i], g[i - 1 - 1].amountOut)
      BY <3>1, <3>3
    <3>5. r[i] = g[i - 1] /\ r[i - 1] = g[i - 1 - 1]
      BY <3>1
    <3>. HIDE DEF r, G
    <3>. QED
      BY <2>2, <3>2, <3>4, <3>5
  <2>. QED
    BY <2>1, <2>2
<1>7. r = Body(r)
  <2>1. r = [i \in 1..n |-> r[i]]
    OBVIOUS
  <2>. HIDE DEF r
  <2>. QED
    BY <1>6, <2>1
<1>. HIDE DEF r
<1>8. PICK p : p = CHOOSE f : f = Body(f)
  OBVIOUS
<1>9. p = Body(p)
  <2>. HIDE DEF Body
  <2>. QED
    BY <1>7, <1>8
<1>10. Rolled(q, amount) = << >> \o p
  BY <1>8 DEF Rolled
<1>11. Rolling(q, amount, p) /\ p = [i \in 1..n |-> p[i]]
  BY <1>9 DEF Rolling
<1>12. p \in [1..n -> V]
  <2>. DEFINE S == {k \in 0..(n - 1) : p[k + 1] \in V}
  <2>1. 0 \in S
    <3>1. p[1] = start
      BY <1>2, <1>11 DEF Rolling
    <3>2. 0 \in 0..(n - 1) /\ 0 + 1 = 1
      BY <1>2
    <3>. HIDE DEF start, V, n
    <3>. QED
      BY <1>2, <3>1, <3>2
  <2>2. ASSUME NEW k \in 1..(n - 1), k - 1 \in S PROVE k \in S
    <3>. DEFINE i == k + 1
    <3>1. i \in 1..n /\ i # 1 /\ i - 1 = k /\ k - 1 + 1 = k /\ k \in 0..(n - 1)
      BY <1>1
    <3>2. p[k] \in V
      BY <2>2, <3>1
    <3>3. p[k].amountOut \in Nat
      BY <3>2 DEF Hops
    <3>. HIDE DEF i
    <3>4. p[i] = Hop(q.hops[i].pool, q.path[i], p[k].amountOut)
      BY <1>11, <3>1 DEF Rolling
    <3>5. p[i] \in V
      <4>. DEFINE pool == q.hops[i].pool
      <4>1. pool \in PS
        BY <1>1, <3>1
      <4>. HIDE DEF pool
      <4>2. Hop(pool, q.path[i], p[k].amountOut) \in V
        BY <3>3, <4>1, HopType
      <4>. QED
        BY <3>4, <4>2 DEF pool
    <3>. QED
      BY <3>1, <3>5 DEF i
  <2>. HIDE DEF S
  <2>3. \A k \in 0..(n - 1) : k \in S
    BY <1>2, <2>1, <2>2, Counting
  <2>4. ASSUME NEW i \in 1..n PROVE p[i] \in V
    <3>1. i - 1 \in 0..(n - 1) /\ i - 1 + 1 = i
      BY <1>1
    <3>. QED
      BY <2>3, <3>1 DEF S
  <2>. HIDE DEF V, n
  <2>. QED
    BY <1>11, <2>4
<1>13. << >> \o p = p /\ p \in Seq(V) /\ Len(p) = n
  <2>. HIDE DEF V, n
  <2>. QED
    BY <1>1, <1>12, Listing
<1>. QED
  BY <1>10, <1>11, <1>13

(* Those of a route, rolled for another amount.                            *)
LEMMA RolledFacts ==
  ASSUME NEW PS \in SUBSET GoodPools, NEW q \in QuoteSet(PS), NEW amount \in Nat
  PROVE  /\ Rolled(q, amount) \in Seq(Hops(PS)) /\ Len(Rolled(q, amount)) = Len(q.hops)
         /\ Rolling(q, amount, Rolled(q, amount))
<1>1. Len(q.hops) \in Nat \ {0} /\ \A i \in 1..Len(q.hops) : q.hops[i].pool \in PS
  BY QuoteFields
<1>. QED
  BY <1>1, RolledThrough

(* hops take the route of q.                                               *)
Alike(q, hops) ==
  /\ Len(hops) = Len(q.hops)
  /\ \A i \in 1..Len(hops) : /\ hops[i].pool = q.hops[i].pool /\ hops[i].amountOut > 0
                             /\ i > 1 => hops[i].amountIn = hops[i - 1].amountOut

(* A quote with other amounts along the same route is a quote, over the    *)
(* same pools.                                                             *)
LEMMA Requoted ==
  ASSUME NEW PS \in SUBSET GoodPools, NEW q \in QuoteSet(PS), NEW hops \in Seq(Hops(PS)),
         Alike(q, hops), hops[1].amountIn > 0
  PROVE  LET r == Quote(q.path, hops, q.gasPrice)
         IN  /\ r \in QuoteSet(PS) /\ r.amountIn = hops[1].amountIn /\ r.hops = hops /\ r.path = q.path
             /\ Signature(r) = Signature(q) /\ (HasV3(r) <=> HasV3(q)) /\ Pools(r) = Pools(q)
<1>. DEFINE r == Quote(q.path, hops, q.gasPrice)
            n == Len(q.hops)
<1>1. n \in Nat \ {0} /\ Len(hops) = n /\ DOMAIN hops = 1..n /\ DOMAIN q.hops = 1..n
  BY QuoteFields, LenProperties DEF Alike
<1>2. ASSUME NEW i \in 1..n
      PROVE  /\ hops[i] \in Hops(PS) /\ hops[i].amountIn \in Nat /\ hops[i].amountOut \in Nat
             /\ hops[i].pool = q.hops[i].pool /\ hops[i].amountOut > 0
             /\ i > 1 => hops[i].amountIn = hops[i - 1].amountOut
  <2>1. hops[i] \in Hops(PS)
    BY <1>1
  <2>. QED
    BY <1>1, <2>1 DEF Hops, Alike
<1>3. r = [ path |-> q.path, hops |-> hops, gasPrice |-> q.gasPrice,
            amountIn |-> hops[1].amountIn, amountOut |-> hops[n].amountOut ]
  <2>1. Head(hops) = hops[1] /\ Last(hops) = hops[n]
    BY <1>1 DEF Last
  <2>. QED
    BY <2>1 DEF Quote
<1>. HIDE DEF r
<1>4. ASSUME NEW i \in 1..n PROVE hops[i].amountIn > 0
  <2>1. CASE i = 1
    BY <2>1
  <2>2. CASE i # 1
    <3>1. i > 1 /\ i - 1 \in 1..n
      BY <1>1, <2>2
    <3>. QED
      BY <1>2, <3>1
  <2>. QED
    BY <2>1, <2>2
<1>5. Chained(q.path, hops)
  <2>1. \A i \in 1..n : Between(q.hops[i].pool, q.path[i], q.path[i + 1])
    BY QuoteFields
  <2>2. \A i \in 1..n : Between(hops[i].pool, q.path[i], q.path[i + 1])
    BY <1>2, <2>1
  <2>3. Len(q.path) = n + 1 /\ \A i, j \in 1..Len(q.path) : q.path[i] = q.path[j] => i = j
    BY QuoteFields DEF Chained
  <2>. QED
    BY <1>1, <1>2, <1>4, <2>2, <2>3 DEF Chained
<1>6. 1 \in 1..n /\ n \in 1..n
  BY <1>1
<1>7. r \in QuoteSet(PS)
  <2>1. q.path \in Seq(Tokens) /\ q.gasPrice \in {None} \cup Nat
    BY QuoteFields
  <2>2. hops[1].amountIn \in Nat \ {0} /\ hops[n].amountOut \in Nat \ {0}
    BY <1>2, <1>4, <1>6
  <2>3. Len(hops) <= MaxHopDepth + 1
    BY <1>1, QuoteFields
  <2>. QED
    BY <1>1, <1>3, <1>5, <2>1, <2>2, <2>3 DEF QuoteSet
<1>8. Signature(r) = Signature(q)
  BY <1>1, <1>2, <1>3 DEF Signature
<1>9. HasV3(r) <=> HasV3(q)
  BY <1>1, <1>2, <1>3 DEF HasV3
<1>10. Pools(r) = Pools(q)
  BY <1>1, <1>2, <1>3 DEF Pools
<1>. QED
  BY <1>3, <1>7, <1>8, <1>9, <1>10 DEF r

(* A quote for another amount, if the route pays for it.                   *)
LEMMA RecomputedFacts ==
  ASSUME NEW PS \in SUBSET GoodPools, NEW q \in QuoteSet(PS), NEW amount \in Int,
         Recomputed(q, amount) # None
  PROVE  LET r == Recomputed(q, amount)
         IN  /\ r \in QuoteSet(PS) /\ amount \in Nat \ {0} /\ r.amountIn = amount
             /\ Signature(r) = Signature(q) /\ Estimated(r) /\ Pools(r) = Pools(q)
<1>. DEFINE hops == Rolled(q, amount)
            n == Len(q.hops)
<1>1. amount \in Nat \ {0}
  BY DEF Recomputed
<1>2. hops \in Seq(Hops(PS)) /\ Len(hops) = n /\ Rolling(q, amount, hops)
  BY <1>1, RolledFacts
<1>3. Recomputed(q, amount) = WithHops(q, hops)
  BY <1>1 DEF Recomputed
<1>. HIDE DEF hops
<1>4. n \in Nat \ {0} /\ DOMAIN hops = 1..n /\ \A i \in 1..n : q.hops[i].pool \in PS
  BY <1>2, QuoteFields
<1>5. ~(\E i \in DOMAIN hops : hops[i].amountOut <= 0)
  BY <1>3 DEF WithHops
<1>6. Recomputed(q, amount) = Quote(q.path, hops, q.gasPrice)
  BY <1>3, <1>5 DEF WithHops
<1>7. ASSUME NEW i \in 1..n
      PROVE  /\ hops[i].amountIn = IF i = 1 THEN amount ELSE hops[i - 1].amountOut
             /\ hops[i].pool = q.hops[i].pool
             /\ hops[i].amountOut = HopOut(hops[i].pool, q.path[i], hops[i].amountIn)
             /\ hops[i].amountOut > 0
  <2>. DEFINE put == IF i = 1 THEN amount ELSE hops[i - 1].amountOut
  <2>1. hops[i] = Hop(q.hops[i].pool, q.path[i], put)
    BY <1>2 DEF Rolling
  <2>. HIDE DEF put
  <2>2. hops[i] = [pool |-> q.hops[i].pool, amountIn |-> put,
                   amountOut |-> HopOut(q.hops[i].pool, q.path[i], put)]
    BY <2>1 DEF Hop
  <2>3. hops[i].amountOut \in Nat
    <3>1. hops[i] \in Hops(PS)
      BY <1>2, <1>4
    <3>. QED
      BY <3>1 DEF Hops
  <2>. QED
    BY <1>4, <1>5, <2>2, <2>3 DEF put
<1>8. Alike(q, hops) /\ hops[1].amountIn = amount /\ amount > 0
  <2>1. 1 \in 1..n
    BY <1>4
  <2>. QED
    BY <1>1, <1>2, <1>4, <1>7, <2>1 DEF Alike
<1>. DEFINE r == Quote(q.path, hops, q.gasPrice)
<1>9. /\ r \in QuoteSet(PS) /\ r.amountIn = hops[1].amountIn /\ r.hops = hops /\ r.path = q.path
      /\ Signature(r) = Signature(q) /\ Pools(r) = Pools(q)
  BY <1>2, <1>8, Requoted
<1>. HIDE DEF r
<1>10. Estimated(r)
  BY <1>2, <1>7, <1>9 DEF Estimated
<1>. QED
  BY <1>1, <1>6, <1>8, <1>9, <1>10 DEF r

(* On V2 pools the estimate is exact.                                      *)
LEMMA EstimateHonest ==
  ASSUME NEW PS \in SUBSET GoodPools, NEW q \in QuoteSet(PS), Estimated(q), ~HasV3(q)
  PROVE  Honest(q)
<1>1. ASSUME NEW i \in 1..Len(q.hops)
      PROVE  q.hops[i].amountOut = Pays(q.hops[i].pool, q.path[i], q.hops[i].amountIn)
  <2>1. q.hops[i].pool \in GoodPools /\ q.hops[i].amountIn \in Nat /\ q.hops[i].amountOut > 0
    BY QuoteFields
  <2>2. q.hops[i].pool.version = "v2"
    <3>1. q.hops[i].pool.version \in {"v2", "v3"}
      BY <2>1, PoolFields
    <3>. QED
      BY <3>1, QuoteFields DEF HasV3
  <2>. QED
    BY <2>1, <2>2, V2Exact DEF Estimated
<1>. QED
  BY <1>1 DEF Honest

-----------------------------------------------------------------------------
(* What quotes are compared by.                                            *)

(* What compareQuotes and the optimizer compare by are numbers: the        *)
(* marginal output of a route, ...                                         *)
LEMMA MarginalType ==
  ASSUME NEW PS \in SUBSET GoodPools, NEW q \in QuoteSet(PS)
  PROVE  Marginal(q) \in Nat
<1>. DEFINE n == Len(q.hops)
            m(i) == HopMarginal(q.hops[i].pool, q.path[i], q.hops[i].amountIn)
            Body(f) == [i \in 0..Len(q.hops) |->
              IF i = 0 THEN MarginalScale
              ELSE (f[i - 1] * HopMarginal(q.hops[i].pool, q.path[i], q.hops[i].amountIn)) \div MarginalScale]
            G == [k \in 1..n |-> [v \in Nat |-> (v * m(k)) \div MarginalScale]]
<1>1. n \in Nat /\ MarginalScale \in Nat \ {0}
  BY QuoteFields, QuoteMathAssumption
<1>2. ASSUME NEW k \in 1..n, NEW v \in Nat PROVE (v * m(k)) \div MarginalScale \in Nat
  <2>1. q.hops[k].pool \in GoodPools /\ q.hops[k].amountIn \in Nat
    BY QuoteFields
  <2>2. m(k) \in Nat
    BY <2>1, HopMarginalType
  <2>. HIDE DEF m
  <2>3. v * m(k) \in Nat
    BY <2>2, TimesFacts
  <2>. QED
    BY <1>1, <2>3, DivFacts
<1>3. G \in [1..n -> [Nat -> Nat]]
  <2>. HIDE DEF m
  <2>. QED
    BY <1>2
<1>4. PICK g \in [0..n -> Nat] : Stepwise(g, n, MarginalScale, G)
  <2>. HIDE DEF G
  <2>. QED
    BY <1>1, <1>3, StepsExist, Zenon
<1>5. g = Body(g)
  <2>1. ASSUME NEW k \in 0..n
        PROVE  g[k] = IF k = 0 THEN MarginalScale ELSE (g[k - 1] * m(k)) \div MarginalScale
    <3>1. CASE k = 0
      BY <1>4, <3>1 DEF Stepwise
    <3>2. CASE k # 0
      <4>1. k \in 1..n /\ k - 1 \in 0..n
        BY <1>1, <3>2
      <4>2. g[k] = G[k][g[k - 1]]
        <5>. HIDE DEF G
        <5>. QED
          BY <1>4, <4>1 DEF Stepwise
      <4>3. g[k - 1] \in Nat
        BY <4>1
      <4>. HIDE DEF m
      <4>. QED
        BY <3>2, <4>1, <4>2, <4>3
    <3>. QED
      BY <3>1, <3>2
  <2>. QED
    BY <2>1
<1>6. PICK p : p = CHOOSE f : f = Body(f)
  OBVIOUS
<1>7. p = Body(p)
  <2>. HIDE DEF Body
  <2>. QED
    BY <1>5, <1>6
<1>8. Marginal(q) = p[n]
  BY <1>6 DEF Marginal
<1>9. \A k \in 0..n : p[k] = IF k = 0 THEN MarginalScale ELSE (p[k - 1] * m(k)) \div MarginalScale
  BY <1>7
<1>. HIDE DEF Body, m, n
<1>. DEFINE S == {k \in 0..n : p[k] \in Nat}
<1>10. 0 \in S
  BY <1>1, <1>9
<1>11. ASSUME NEW k \in 1..n, k - 1 \in S PROVE k \in S
  <2>1. k \in 0..n /\ k # 0 /\ p[k - 1] \in Nat
    BY <1>1, <1>11
  <2>2. p[k] = (p[k - 1] * m(k)) \div MarginalScale
    BY <1>9, <2>1
  <2>. QED
    BY <1>2, <2>1, <2>2
<1>12. \A k \in 0..n : k \in S
  <2>. HIDE DEF S
  <2>. QED
    BY <1>1, <1>10, <1>11, Counting
<1>. QED
  BY <1>1, <1>8, <1>12

(* ... the gas it is estimated to cost, ...                                *)
LEMMA GasUnitsType ==
  ASSUME NEW PS \in SUBSET GoodPools, NEW q \in QuoteSet(PS)
  PROVE  GasUnits(q) \in Nat
<1>. DEFINE n == Len(q.hops)
            c(i) == GasCost[q.hops[i].pool.version]
            Body(f) == [i \in 0..Len(q.hops) |->
              IF i = 0 THEN GasBase ELSE f[i - 1] + GasCost[q.hops[i].pool.version]]
            G == [k \in 1..n |-> [v \in Nat |-> v + c(k)]]
<1>1. n \in Nat \ {0} /\ GasBase \in Nat /\ GasPerHop \in Nat
  BY QuoteFields, QuoteMathAssumption
<1>2. ASSUME NEW k \in 1..n PROVE c(k) \in Nat
  <2>1. q.hops[k].pool.version \in {"v2", "v3"}
    <3>1. q.hops[k].pool \in GoodPools
      BY QuoteFields
    <3>. QED
      BY <3>1, PoolFields
  <2>. QED
    BY <2>1, QuoteMathAssumption
<1>3. G \in [1..n -> [Nat -> Nat]]
  <2>. HIDE DEF c
  <2>. QED
    BY <1>2
<1>4. PICK g \in [0..n -> Nat] : Stepwise(g, n, GasBase, G)
  <2>. HIDE DEF G
  <2>. QED
    BY <1>1, <1>3, StepsExist, Zenon
<1>5. g = Body(g)
  <2>1. ASSUME NEW k \in 0..n PROVE g[k] = IF k = 0 THEN GasBase ELSE g[k - 1] + c(k)
    <3>1. CASE k = 0
      BY <1>4, <3>1 DEF Stepwise
    <3>2. CASE k # 0
      <4>1. k \in 1..n /\ k - 1 \in 0..n
        BY <1>1, <3>2
      <4>2. g[k] = G[k][g[k - 1]]
        <5>. HIDE DEF G
        <5>. QED
          BY <1>4, <4>1 DEF Stepwise
      <4>. HIDE DEF c
      <4>. QED
        BY <3>2, <4>1, <4>2
    <3>. QED
      BY <3>1, <3>2
  <2>. QED
    BY <2>1
<1>6. PICK p : p = CHOOSE f : f = Body(f)
  OBVIOUS
<1>7. p = Body(p)
  <2>. HIDE DEF Body
  <2>. QED
    BY <1>5, <1>6
<1>8. GasUnits(q) = p[n] + (n - 1) * GasPerHop
  BY <1>6 DEF GasUnits
<1>9. \A k \in 0..n : p[k] = IF k = 0 THEN GasBase ELSE p[k - 1] + c(k)
  BY <1>7
<1>. HIDE DEF Body, c, n
<1>. DEFINE S == {k \in 0..n : p[k] \in Nat}
<1>10. 0 \in S
  BY <1>1, <1>9
<1>11. ASSUME NEW k \in 1..n, k - 1 \in S PROVE k \in S
  <2>1. k \in 0..n /\ k # 0 /\ p[k - 1] \in Nat /\ c(k) \in Nat
    BY <1>1, <1>2, <1>11
  <2>2. p[k] = p[k - 1] + c(k)
    BY <1>9, <2>1
  <2>. QED
    BY <2>1, <2>2
<1>12. \A k \in 0..n : k \in S
  <2>. HIDE DEF S
  <2>. QED
    BY <1>1, <1>10, <1>11, Counting
<1>13. (n - 1) * GasPerHop \in Nat
  <2>1. n - 1 \in Nat
    BY <1>1
  <2>. QED
    BY <1>1, <2>1, TimesFacts
<1>. QED
  BY <1>1, <1>8, <1>12, <1>13

(* ... and the depth of its thinnest pool.                                 *)
LEMMA LiquidityScoreType ==
  ASSUME NEW PS \in SUBSET GoodPools, NEW q \in QuoteSet(PS)
  PROVE  LiquidityScore(q) \in Nat
<1>. DEFINE n == Len(q.hops)
            d(i) == Depth(q.hops[i].pool)
            Body(f) == [i \in 1..Len(q.hops) |->
              IF i = 1 THEN Depth(q.hops[1].pool) ELSE Least(f[i - 1], Depth(q.hops[i].pool))]
            G == [k \in 1..(n - 1) |-> [v \in Nat |-> Least(v, d(k + 1))]]
<1>1. n \in Nat \ {0} /\ n - 1 \in Nat /\ 1 \in 1..n
  BY QuoteFields
<1>2. ASSUME NEW k \in 1..n PROVE d(k) \in Nat
  <2>1. q.hops[k].pool \in GoodPools
    BY QuoteFields
  <2>. QED
    BY <2>1, DepthType
<1>3. G \in [1..(n - 1) -> [Nat -> Nat]]
  <2>1. \A k \in 1..(n - 1) : k + 1 \in 1..n
    BY <1>1
  <2>. HIDE DEF d
  <2>. QED
    BY <1>2, <2>1 DEF Least
<1>4. PICK g \in [0..(n - 1) -> Nat] : Stepwise(g, n - 1, d(1), G)
  <2>1. d(1) \in Nat
    BY <1>1, <1>2
  <2>. HIDE DEF G, d
  <2>. QED
    BY <1>1, <1>3, <2>1, StepsExist, Zenon
<1>. DEFINE r == [i \in 1..n |-> g[i - 1]]
<1>5. ASSUME NEW k \in 1..n PROVE r[k] = IF k = 1 THEN d(1) ELSE Least(r[k - 1], d(k))
  <2>. HIDE DEF d
  <2>1. CASE k = 1
    BY <1>1, <1>4, <2>1 DEF Stepwise
  <2>2. CASE k # 1
    <3>1. k - 1 \in 1..(n - 1) /\ k - 1 \in 1..n /\ k - 1 - 1 \in 0..(n - 1) /\ k - 1 + 1 = k
      BY <1>1, <2>2
    <3>2. g[k - 1] = G[k - 1][g[k - 1 - 1]]
      <4>. HIDE DEF G
      <4>. QED
        BY <1>4, <3>1 DEF Stepwise
    <3>3. g[k - 1 - 1] \in Nat
      BY <1>4, <3>1
    <3>4. G[k - 1][g[k - 1 - 1]] = Least(g[k - 1 - 1], d(k - 1 + 1))
      BY <3>1, <3>3
    <3>5. r[k] = g[k - 1] /\ r[k - 1] = g[k - 1 - 1]
      BY <3>1
    <3>. HIDE DEF r, G
    <3>. QED
      BY <2>2, <3>1, <3>2, <3>4, <3>5
  <2>. QED
    BY <2>1, <2>2
<1>6. r = Body(r)
  <2>1. r = [i \in 1..n |-> r[i]]
    OBVIOUS
  <2>. HIDE DEF r
  <2>. QED
    BY <1>5, <2>1
<1>. HIDE DEF r
<1>7. PICK p : p = CHOOSE f : f = Body(f)
  OBVIOUS
<1>8. p = Body(p)
  <2>. HIDE DEF Body
  <2>. QED
    BY <1>6, <1>7
<1>9. LiquidityScore(q) = p[n]
  BY <1>7 DEF LiquidityScore
<1>10. \A k \in 1..n : p[k] = IF k = 1 THEN d(1) ELSE Least(p[k - 1], d(k))
  BY <1>8
<1>. HIDE DEF Body, d, n
<1>. DEFINE S == {k \in 0..(n - 1) : p[k + 1] \in Nat}
<1>11. 0 \in S
  <2>1. p[1] = d(1)
    BY <1>1, <1>10
  <2>. QED
    BY <1>1, <1>2, <2>1
<1>12. ASSUME NEW k \in 1..(n - 1), k - 1 \in S PROVE k \in S
  <2>. DEFINE i == k + 1
  <2>1. i \in 1..n /\ i # 1 /\ i - 1 = k /\ k - 1 + 1 = k /\ k \in 0..(n - 1)
    BY <1>1
  <2>2. p[k] \in Nat
    BY <1>12, <2>1
  <2>. HIDE DEF i
  <2>3. p[i] = Least(p[k], d(i))
    BY <1>10, <2>1
  <2>4. p[i] \in Nat
    BY <1>2, <2>1, <2>2, <2>3 DEF Least
  <2>. QED
    BY <2>1, <2>4 DEF i
<1>13. \A k \in 0..(n - 1) : k \in S
  <2>. HIDE DEF S
  <2>. QED
    BY <1>1, <1>11, <1>12, Counting
<1>14. n - 1 \in 0..(n - 1) /\ n - 1 + 1 = n
  BY <1>1
<1>. QED
  BY <1>9, <1>13, <1>14

Rates == {None} \cup [in : Nat \ {0}, out : Nat]

(* So every key that quotes are sorted by is a number.                     *)
LEMMA KeysType ==
  ASSUME NEW PS \in SUBSET GoodPools, NEW q \in QuoteSet(PS), NEW rate \in Rates
  PROVE  GasCostWei(q) \in Nat /\ NetOutput(q, rate) \in Int /\ LiquidityScore(q) \in Nat
<1>1. GasCostWei(q) \in Nat
  <2>1. CASE q.gasPrice = None
    BY <2>1 DEF GasCostWei
  <2>2. CASE q.gasPrice # None
    <3>1. q.gasPrice \in Nat
      BY <2>2, QuoteFields
    <3>2. GasUnits(q) * q.gasPrice \in Nat
      BY <3>1, GasUnitsType, TimesFacts
    <3>. QED
      BY <2>2, <3>2 DEF GasCostWei
  <2>. QED
    BY <2>1, <2>2
<1>2. NetOutput(q, rate) \in Int
  <2>1. q.amountOut \in Nat
    BY QuoteFields
  <2>2. CASE rate = None
    BY <2>1, <2>2 DEF NetOutput
  <2>3. CASE rate # None
    <3>1. rate.in \in Nat \ {0} /\ rate.out \in Nat
      BY <2>3 DEF Rates
    <3>2. GasCostWei(q) * rate.out \in Nat
      BY <1>1, <3>1, TimesFacts
    <3>3. InOutput(GasCostWei(q), rate) \in Nat
      BY <3>1, <3>2, DivFacts DEF InOutput
    <3>. QED
      BY <2>1, <2>3, <3>3 DEF NetOutput
  <2>. QED
    BY <2>2, <2>3
<1>. QED
  BY <1>1, <1>2, LiquidityScoreType

(* compareQuotes orders any list of quotes: better is a strict order,      *)
(* whatever the rate.                                                      *)
LEMMA OrderedFacts ==
  ASSUME NEW PS \in SUBSET GoodPools, NEW quotes \in Seq(QuoteSet(PS)), NEW rate \in Rates
  PROVE  /\ Ordered(quotes, rate) \in Seq(QuoteSet(PS)) /\ Len(Ordered(quotes, rate)) = Len(quotes)
         /\ Lists(Ordered(quotes, rate), quotes, 1..Len(quotes))
<1>. DEFINE D == 1..Len(quotes)
            R == {p \in (DOMAIN quotes) \X (DOMAIN quotes) :
                      \/ Better(quotes[p[1]], quotes[p[2]], rate)
                      \/ ~Better(quotes[p[2]], quotes[p[1]], rate) /\ p[1] < p[2]}
            net(i) == NetOutput(quotes[i], rate)
            gas(i) == GasCostWei(quotes[i])
            score(i) == LiquidityScore(quotes[i])
            wins(i, j) == Better(quotes[i], quotes[j], rate)
<1>1. DOMAIN quotes = D /\ \A i \in D : i \in Int
  BY LenProperties
<1>2. ASSUME NEW i, NEW j
      PROVE  <<i, j>> \in R <=> i \in D /\ j \in D /\ (wins(i, j) \/ (~wins(j, i) /\ i < j))
  <2>. HIDE DEF wins, D
  <2>. QED
    BY <1>1 DEF wins
<1>3. ASSUME NEW i \in D PROVE net(i) \in Int /\ gas(i) \in Int /\ score(i) \in Int
  <2>1. quotes[i] \in QuoteSet(PS)
    OBVIOUS
  <2>. QED
    BY <2>1, KeysType
<1>4. ASSUME NEW i \in D, NEW j \in D
      PROVE  wins(i, j) <=>
               \/ net(i) > net(j)
               \/ /\ net(i) = net(j)
                  /\ \/ rate = None /\ gas(i) < gas(j)
                     \/ (rate # None \/ gas(i) = gas(j)) /\ score(i) > score(j)
  BY DEF Better
<1>5. Ordered(quotes, rate) = Arranged(quotes, R)
  BY DEF Ordered
<1>. HIDE DEF R, D, net, gas, score, wins
<1>6. StrictOrder(D, R)
  <2>1. ASSUME NEW i \in D, NEW j \in D, NEW k \in D, <<i, j>> \in R, <<j, k>> \in R
        PROVE  <<i, k>> \in R
    <3>1. i \in Int /\ j \in Int /\ k \in Int
      BY <1>1
    <3>2. (wins(i, j) \/ (~wins(j, i) /\ i < j)) /\ (wins(j, k) \/ (~wins(k, j) /\ j < k))
      BY <1>2, <2>1
    <3>3. wins(i, k) \/ (~wins(k, i) /\ i < k)
      <4>1. CASE rate = None
        BY <1>3, <1>4, <3>1, <3>2, <4>1
      <4>2. CASE rate # None
        BY <1>3, <1>4, <3>1, <3>2, <4>2
      <4>. QED
        BY <4>1, <4>2
    <3>. QED
      BY <1>2, <3>3
  <2>2. ASSUME NEW i \in D PROVE <<i, i>> \notin R
    <3>1. i \in Int /\ ~wins(i, i)
      BY <1>1, <1>3, <1>4
    <3>. QED
      BY <1>2, <3>1
  <2>3. ASSUME NEW i \in D, NEW j \in D PROVE i = j \/ <<i, j>> \in R \/ <<j, i>> \in R
    <3>1. i \in Int /\ j \in Int
      BY <1>1
    <3>. QED
      BY <1>2, <3>1
  <2>. QED
    BY <2>1, <2>2, <2>3 DEF StrictOrder
<1>. QED
  BY <1>5, <1>6, ArrangedFacts, Zenon DEF D

-----------------------------------------------------------------------------
(* Sums.                                                                   *)

Summed(p, n, s) == p[0] = 0 /\ \A k \in 1..n : p[k] = p[k - 1] + s[k]

(* A sum is the last of its partial sums.                                  *)
LEMMA PlusFacts ==
  ASSUME NEW n \in Nat, NEW s \in [1..n -> Int]
  PROVE  \E p \in [0..n -> Int] : Summed(p, n, s) /\ Plus(s) = p[n]
<1>. DEFINE G == [k \in 1..n |-> [v \in Int |-> v + s[k]]]
            Body(f) == [k \in 0..Len(s) |-> IF k = 0 THEN 0 ELSE f[k - 1] + s[k]]
<1>1. Len(s) = n
  OBVIOUS
<1>2. G \in [1..n -> [Int -> Int]]
  <2>1. \A k \in 1..n : [v \in Int |-> v + s[k]] \in [Int -> Int]
    OBVIOUS
  <2>. QED
    BY <2>1
<1>3. PICK g \in [0..n -> Int] : Stepwise(g, n, 0, G)
  <2>1. 0 \in Int
    OBVIOUS
  <2>. HIDE DEF G
  <2>. QED
    BY <1>2, <2>1, StepsExist, Zenon
<1>4. Summed(g, n, s)
  <2>1. ASSUME NEW k \in 1..n PROVE g[k] = g[k - 1] + s[k]
    <3>1. k - 1 \in 0..n
      OBVIOUS
    <3>2. g[k] = G[k][g[k - 1]]
      <4>. HIDE DEF G
      <4>. QED
        BY <1>3 DEF Stepwise
    <3>. QED
      BY <3>1, <3>2
  <2>. QED
    BY <1>3, <2>1 DEF Stepwise, Summed
<1>5. g = Body(g)
  <2>1. ASSUME NEW k \in 0..n PROVE g[k] = IF k = 0 THEN 0 ELSE g[k - 1] + s[k]
    <3>1. k # 0 => k \in 1..n
      OBVIOUS
    <3>. QED
      BY <1>4, <3>1 DEF Summed
  <2>. QED
    BY <1>1, <2>1
<1>6. PICK p : p = CHOOSE f : f = Body(f)
  OBVIOUS
<1>7. p = Body(p)
  <2>. HIDE DEF Body
  <2>. QED
    BY <1>5, <1>6
<1>8. Plus(s) = p[n]
  BY <1>1, <1>6 DEF Plus
<1>9. \A k \in 0..n : p[k] = IF k = 0 THEN 0 ELSE p[k - 1] + s[k]
  BY <1>1, <1>7
<1>. DEFINE S == {k \in 0..n : p[k] = g[k]}
<1>10. 0 \in S
  BY <1>4, <1>9 DEF Summed
<1>11. ASSUME NEW k \in 1..n, k - 1 \in S PROVE k \in S
  <2>1. k \in 0..n /\ k # 0 /\ p[k - 1] = g[k - 1]
    BY <1>11
  <2>2. p[k] = p[k - 1] + s[k] /\ g[k] = g[k - 1] + s[k]
    BY <1>4, <1>9, <2>1 DEF Summed
  <2>. QED
    BY <2>1, <2>2
<1>12. p[n] = g[n]
  <2>. HIDE DEF S
  <2>1. \A k \in 0..n : k \in S
    BY <1>10, <1>11, Counting
  <2>. QED
    BY <2>1 DEF S
<1>. QED
  BY <1>4, <1>8, <1>12

(* A sum by its last term.                                                 *)
LEMMA PlusLast ==
  ASSUME NEW n \in Nat \ {0}, NEW s \in [1..n -> Int]
  PROVE  Plus(s) = Plus([i \in 1..(n - 1) |-> s[i]]) + s[n] /\ Plus(s) \in Int
<1>. DEFINE t == [i \in 1..(n - 1) |-> s[i]]
<1>1. n - 1 \in Nat /\ t \in [1..(n - 1) -> Int] /\ n \in 1..n /\ n - 1 \in 0..n
  OBVIOUS
<1>2. PICK p \in [0..n -> Int] : Summed(p, n, s) /\ Plus(s) = p[n]
  BY PlusFacts
<1>3. PICK g \in [0..(n - 1) -> Int] : Summed(g, n - 1, t) /\ Plus(t) = g[n - 1]
  <2>. HIDE DEF t
  <2>. QED
    BY <1>1, PlusFacts
<1>. DEFINE S == {k \in 0..(n - 1) : p[k] = g[k]}
<1>4. 0 \in S
  BY <1>1, <1>2, <1>3 DEF Summed
<1>5. ASSUME NEW k \in 1..(n - 1), k - 1 \in S PROVE k \in S
  <2>1. k \in 1..n /\ k \in 0..(n - 1) /\ p[k - 1] = g[k - 1] /\ t[k] = s[k]
    BY <1>5
  <2>2. p[k] = p[k - 1] + s[k] /\ g[k] = g[k - 1] + t[k]
    <3>. HIDE DEF t, S
    <3>. QED
      BY <1>2, <1>3, <2>1 DEF Summed
  <2>. QED
    BY <2>1, <2>2
<1>6. p[n - 1] = g[n - 1]
  <2>. HIDE DEF S
  <2>1. \A k \in 0..(n - 1) : k \in S
    BY <1>1, <1>4, <1>5, Counting
  <2>2. n - 1 \in S
    BY <1>1, <2>1
  <2>. QED
    BY <2>2 DEF S
<1>7. p[n] = p[n - 1] + s[n]
  BY <1>1, <1>2 DEF Summed
<1>. HIDE DEF t
<1>8. Plus(s) = Plus(t) + s[n] /\ Plus(s) \in Int
  BY <1>1, <1>2, <1>3, <1>6, <1>7
<1>. QED
  BY <1>8 DEF t

(* Sums of nothing, of numbers, and of one number n times.                 *)
LEMMA PlusEmpty ==
  ASSUME NEW s \in [1..0 -> Int]
  PROVE  Plus(s) = 0
<1>1. \E p \in [0..0 -> Int] : Summed(p, 0, s) /\ Plus(s) = p[0]
  BY PlusFacts
<1>. QED
  BY <1>1 DEF Summed

(* A sum of numbers is one.                                                *)
LEMMA PlusType ==
  ASSUME NEW n \in Nat, NEW s \in [1..n -> Int]
  PROVE  Plus(s) \in Int
<1>1. \E p \in [0..n -> Int] : Summed(p, n, s) /\ Plus(s) = p[n]
  BY PlusFacts
<1>. QED
  BY <1>1

(* The same number n times.                                                *)
LEMMA PlusConstant ==
  ASSUME NEW n \in Nat, NEW c \in Int, NEW s \in [1..n -> Int], \A i \in 1..n : s[i] = c
  PROVE  Plus(s) = n * c
<1>1. PICK p \in [0..n -> Int] : Summed(p, n, s) /\ Plus(s) = p[n]
  BY PlusFacts
<1>. DEFINE S == {k \in 0..n : p[k] = k * c}
<1>2. 0 \in S
  BY <1>1 DEF Summed
<1>3. ASSUME NEW k \in 1..n, k - 1 \in S PROVE k \in S
  <2>1. k \in 0..n /\ p[k - 1] = (k - 1) * c /\ s[k] = c
    BY <1>3
  <2>2. p[k] = p[k - 1] + s[k]
    BY <1>1 DEF Summed
  <2>3. (k - 1) * c + c = k * c
    OBVIOUS
  <2>. QED
    BY <2>1, <2>2, <2>3
<1>4. \A k \in 0..n : k \in S
  <2>. HIDE DEF S
  <2>. QED
    BY <1>2, <1>3, Counting
<1>. QED
  BY <1>1, <1>4

(* Multiplication distributes over a sum.                                  *)
LEMMA TimesSum ==
  ASSUME NEW a \in Int, NEW b \in Int, NEW c \in Int
  PROVE  (a + b) * c = a * c + b * c /\ a * c \in Int
OBVIOUS

(* One is neutral.                                                         *)
LEMMA TimesOne ==
  ASSUME NEW a \in Int
  PROVE  a * 1 = a
OBVIOUS

(* Sums are compared term by term.                                         *)
LEMMA PlusScaled ==
  ASSUME NEW n \in Nat, NEW s \in [1..n -> Int], NEW t \in [1..n -> Int], NEW c \in Int, NEW d \in Int,
         \A i \in 1..n : s[i] * c <= t[i] * d
  PROVE  Plus(s) * c <= Plus(t) * d
<1>1. PICK p \in [0..n -> Int] : Summed(p, n, s) /\ Plus(s) = p[n]
  BY PlusFacts
<1>2. PICK g \in [0..n -> Int] : Summed(g, n, t) /\ Plus(t) = g[n]
  BY PlusFacts
<1>. DEFINE S == {k \in 0..n : p[k] * c <= g[k] * d}
<1>3. 0 \in S
  BY <1>1, <1>2 DEF Summed
<1>4. ASSUME NEW k \in 1..n, k - 1 \in S PROVE k \in S
  <2>1. /\ k \in 0..n /\ k - 1 \in 0..n /\ p[k - 1] * c <= g[k - 1] * d /\ s[k] * c <= t[k] * d
        /\ p[k - 1] \in Int /\ g[k - 1] \in Int /\ s[k] \in Int /\ t[k] \in Int
    BY <1>4
  <2>2. p[k] = p[k - 1] + s[k] /\ g[k] = g[k - 1] + t[k]
    BY <1>1, <1>2 DEF Summed
  <2>3. p[k] * c = p[k - 1] * c + s[k] * c /\ g[k] * d = g[k - 1] * d + t[k] * d
    BY <2>1, <2>2, TimesSum
  <2>4. p[k - 1] * c \in Int /\ s[k] * c \in Int /\ g[k - 1] * d \in Int /\ t[k] * d \in Int
    BY <2>1, TimesSum
  <2>. DEFINE a1 == p[k - 1] * c
              a2 == s[k] * c
              b1 == g[k - 1] * d
              b2 == t[k] * d
  <2>. HIDE DEF a1, a2, b1, b2
  <2>5. a1 + a2 <= b1 + b2
    <3>1. a1 \in Int /\ a2 \in Int /\ b1 \in Int /\ b2 \in Int
      BY <2>4 DEF a1, a2, b1, b2
    <3>2. a1 <= b1 /\ a2 <= b2
      BY <2>1 DEF a1, a2, b1, b2
    <3>. QED
      BY <3>1, <3>2
  <2>6. p[k] * c <= g[k] * d
    BY <2>3, <2>5 DEF a1, a2, b1, b2
  <2>. QED
    BY <2>1, <2>6
<1>5. \A k \in 0..n : k \in S
  <2>. HIDE DEF S
  <2>. QED
    BY <1>3, <1>4, Counting
<1>. QED
  BY <1>1, <1>2, <1>5

(* Larger terms, larger sum.                                               *)
LEMMA PlusMonotone ==
  ASSUME NEW n \in Nat, NEW s \in [1..n -> Int], NEW t \in [1..n -> Int], \A i \in 1..n : s[i] <= t[i]
  PROVE  Plus(s) <= Plus(t)
<1>1. Plus(s) * 1 <= Plus(t) * 1
  <2>1. \A i \in 1..n : s[i] * 1 <= t[i] * 1
    OBVIOUS
  <2>2. 1 \in Int
    OBVIOUS
  <2>. QED
    BY <2>1, <2>2, PlusScaled
<1>2. Plus(s) \in Int /\ Plus(t) \in Int
  BY PlusType
<1>. QED
  BY <1>1, <1>2, TimesOne

(* t is s but for its value at i.                                          *)
Besides(s, t, n, i) == \A j \in 1..n : j # i => t[j] = s[j]

(* Another value of one term changes the sum by the difference.            *)
LEMMA PlusUpdate ==
  ASSUME NEW n \in Nat, NEW s \in [1..n -> Int], NEW t \in [1..n -> Int], NEW i \in 1..n,
         Besides(s, t, n, i)
  PROVE  Plus(t) = Plus(s) - s[i] + t[i]
<1>1. PICK p \in [0..n -> Int] : Summed(p, n, s) /\ Plus(s) = p[n]
  BY PlusFacts
<1>2. PICK g \in [0..n -> Int] : Summed(g, n, t) /\ Plus(t) = g[n]
  BY PlusFacts
<1>. DEFINE S == {k \in 0..n : g[k] = IF k < i THEN p[k] ELSE p[k] - s[i] + t[i]}
<1>3. 0 \in S
  BY <1>1, <1>2 DEF Summed
<1>4. ASSUME NEW k \in 1..n, k - 1 \in S PROVE k \in S
  <2>1. /\ k \in 0..n /\ k - 1 \in 0..n /\ g[k - 1] = IF k - 1 < i THEN p[k - 1] ELSE p[k - 1] - s[i] + t[i]
        /\ p[k - 1] \in Int /\ g[k - 1] \in Int /\ s[k] \in Int /\ t[k] \in Int /\ s[i] \in Int /\ t[i] \in Int
    <3>1. k \in 0..n /\ k - 1 \in 0..n
      OBVIOUS
    <3>. QED
      BY <1>4, <3>1
  <2>2. p[k] = p[k - 1] + s[k] /\ g[k] = g[k - 1] + t[k]
    BY <1>1, <1>2 DEF Summed
  <2>3. k # i => t[k] = s[k]
    BY DEF Besides
  <2>4. g[k] = IF k < i THEN p[k] ELSE p[k] - s[i] + t[i]
    <3>1. CASE k < i
      BY <2>1, <2>2, <2>3, <3>1
    <3>2. CASE k = i
      BY <2>1, <2>2, <3>2
    <3>3. CASE k > i
      BY <2>1, <2>2, <2>3, <3>3
    <3>. QED
      BY <3>1, <3>2, <3>3
  <2>. QED
    BY <2>1, <2>4
<1>5. n \in S
  <2>. HIDE DEF S
  <2>1. \A k \in 0..n : k \in S
    BY <1>3, <1>4, Counting
  <2>. QED
    BY <2>1
<1>6. ~(n < i)
  OBVIOUS
<1>. QED
  BY <1>1, <1>2, <1>5, <1>6

Masked(s, n, S) == [i \in 1..n |-> IF i \in S THEN s[i] ELSE 0]

(* The sum of what a list holds of another.                                *)
LEMMA PlusListed ==
  ASSUME NEW n \in Nat, NEW s \in [1..n -> Int], NEW S \in SUBSET (1..n),
         NEW m \in Nat, NEW t \in [1..m -> Int], Lists(t, s, S)
  PROVE  Plus(t) = Plus(Masked(s, n, S))
<1>1. Len(t) = m
  OBVIOUS
<1>2. PICK e \in [1..m -> S] :
        /\ \A i, j \in 1..m : e[i] = e[j] => i = j
        /\ \A x \in S : \E i \in 1..m : e[i] = x
        /\ \A i \in 1..m : t[i] = s[e[i]]
  BY <1>1, Zenon DEF Lists
<1>3. PICK p \in [0..m -> Int] : Summed(p, m, t) /\ Plus(t) = p[m]
  BY PlusFacts
<1>. DEFINE At(k) == {e[i] : i \in 1..k}
            T == {k \in 0..m : p[k] = Plus(Masked(s, n, At(k)))}
<1>4. \A A : Masked(s, n, A) \in [1..n -> Int]
  BY DEF Masked
<1>5. 0 \in T
  <2>1. \A i \in 1..n : Masked(s, n, At(0))[i] = 0
    BY DEF Masked
  <2>2. Plus(Masked(s, n, At(0))) = n * 0
    <3>1. 0 \in Int
      OBVIOUS
    <3>. DEFINE z == Masked(s, n, At(0))
    <3>2. z \in [1..n -> Int] /\ \A i \in 1..n : z[i] = 0
      BY <1>4, <2>1
    <3>. HIDE DEF z
    <3>3. Plus(z) = n * 0
      BY <3>1, <3>2, PlusConstant
    <3>. QED
      BY <3>3 DEF z
  <2>3. p[0] = 0 /\ n * 0 = 0 /\ 0 \in 0..m
    BY <1>3 DEF Summed
  <2>4. p[0] = Plus(Masked(s, n, At(0)))
    BY <2>2, <2>3
  <2>. HIDE DEF At
  <2>. QED
    BY <2>3, <2>4
<1>6. ASSUME NEW k \in 1..m, k - 1 \in T PROVE k \in T
  <2>. DEFINE a == Masked(s, n, At(k - 1))
              b == Masked(s, n, At(k))
  <2>1. k \in 0..m /\ p[k - 1] = Plus(a) /\ e[k] \in 1..n /\ t[k] = s[e[k]]
    <3>1. k \in 0..m /\ k - 1 \in 0..m
      OBVIOUS
    <3>2. p[k - 1] = Plus(a)
      BY <1>6
    <3>3. e[k] \in S /\ t[k] = s[e[k]]
      <4>. HIDE DEF T, At
      <4>. QED
        BY <1>2
    <3>. QED
      BY <3>1, <3>2, <3>3
  <2>2. \A i : i \in At(k) <=> i \in At(k - 1) \/ i = e[k]
    OBVIOUS
  <2>3. e[k] \notin At(k - 1)
    <3>1. \A i \in 1..(k - 1) : i \in 1..m /\ i # k
      OBVIOUS
    <3>. QED
      BY <1>2, <3>1
  <2>4. a \in [1..n -> Int] /\ b \in [1..n -> Int]
    BY <1>4
  <2>. HIDE DEF At
  <2>5. Besides(a, b, n, e[k])
    BY <2>2 DEF Masked, Besides
  <2>6. a[e[k]] = 0 /\ b[e[k]] = s[e[k]]
    BY <2>1, <2>2, <2>3 DEF Masked
  <2>. HIDE DEF a, b
  <2>7. Plus(b) = Plus(a) - a[e[k]] + b[e[k]]
    BY <2>1, <2>4, <2>5, PlusUpdate
  <2>8. p[k] = p[k - 1] + t[k] /\ Plus(a) \in Int
    BY <1>3, <2>4, PlusType DEF Summed
  <2>9. p[k] = Plus(b)
    BY <2>1, <2>6, <2>7, <2>8
  <2>. QED
    BY <2>1, <2>9 DEF b
<1>7. m \in T
  <2>. HIDE DEF T
  <2>1. \A k \in 0..m : k \in T
    BY <1>5, <1>6, Counting
  <2>. QED
    BY <2>1
<1>8. At(m) = S
  <2>1. \A x \in S : x \in At(m)
    BY <1>2
  <2>2. \A i \in 1..m : e[i] \in S
    <3>. HIDE DEF T, At
    <3>. QED
      BY <1>2
  <2>3. \A x \in At(m) : x \in S
    BY <2>2
  <2>. HIDE DEF At
  <2>. QED
    BY <2>1, <2>3
<1>. QED
  BY <1>3, <1>7, <1>8

(* A list of the same values has the same sum.                             *)
LEMMA PlusPermuted ==
  ASSUME NEW n \in Nat, NEW s \in [1..n -> Int], NEW m \in Nat, NEW t \in [1..m -> Int],
         Lists(t, s, 1..n)
  PROVE  Plus(t) = Plus(s)
<1>1. Masked(s, n, 1..n) = s
  BY DEF Masked
<1>2. 1..n \in SUBSET (1..n)
  OBVIOUS
<1>. QED
  BY <1>1, <1>2, PlusListed

-----------------------------------------------------------------------------
(* The optimizer.                                                          *)

(* Every leg is quoted for what it carries.                                *)
Legs(PS) ==
  {l \in [route : QuoteSet(PS), allocated : Nat \ {0}, quote : QuoteSet(PS), marginal : Nat] :
     l.quote = Recomputed(l.route, l.allocated) /\ l.quote # None}

Allocations(legs) == [i \in 1..Len(legs) |-> legs[i].allocated]

(* Legs over different routes that carry total, and each at least least.   *)
Sound(legs, total, least, PS) ==
  /\ legs \in Seq(Legs(PS))
  /\ Plus(Allocations(legs)) = total
  /\ \A i \in 1..Len(legs) : legs[i].allocated >= least
  /\ \A i, j \in 1..Len(legs) : i # j => Signature(legs[i].route) # Signature(legs[j].route)

(* The optimizer's state: at least two legs, or none.                      *)
SoundState(s, total, least, PS) ==
  \/ s = Failed
  \/ /\ s \in [status : {"going", "settled"}, legs : Seq(Legs(PS))]
     /\ Len(s.legs) >= 2 /\ Sound(s.legs, total, least, PS)

(* A leg that pays is one of them.                                         *)
LEMMA LegType ==
  ASSUME NEW PS \in SUBSET GoodPools, NEW route \in QuoteSet(PS), NEW allocated \in Int,
         Leg(route, allocated).quote # None
  PROVE  /\ Leg(route, allocated) \in Legs(PS)
         /\ Leg(route, allocated).route = route /\ Leg(route, allocated).allocated = allocated
<1>. DEFINE r == Recomputed(route, allocated)
<1>1. Leg(route, allocated) = [ route |-> route, allocated |-> allocated, quote |-> r,
                                marginal |-> IF r = None THEN 0 ELSE Marginal(r) ]
  BY DEF Leg, LegOf
<1>2. r # None
  BY <1>1
<1>3. r \in QuoteSet(PS) /\ allocated \in Nat \ {0}
  BY <1>2, RecomputedFacts
<1>4. Marginal(r) \in Nat
  BY <1>3, MarginalType
<1>. HIDE DEF r
<1>. QED
  BY <1>1, <1>2, <1>3, <1>4 DEF Legs, r

(* What is known of each field of a leg.                                   *)
LEMMA LegFields ==
  ASSUME NEW PS \in SUBSET GoodPools, NEW l \in Legs(PS)
  PROVE  /\ l.route \in QuoteSet(PS) /\ l.allocated \in Nat \ {0} /\ l.quote \in QuoteSet(PS)
         /\ l.marginal \in Nat /\ l.quote # None
         /\ l.quote.amountIn = l.allocated /\ Signature(l.quote) = Signature(l.route)
         /\ Estimated(l.quote) /\ l.quote.amountOut \in Nat
<1>1. /\ l.route \in QuoteSet(PS) /\ l.allocated \in Nat \ {0} /\ l.quote \in QuoteSet(PS)
      /\ l.marginal \in Nat /\ l.quote = Recomputed(l.route, l.allocated) /\ l.quote # None
  BY DEF Legs
<1>2. /\ l.quote.amountIn = l.allocated /\ Signature(l.quote) = Signature(l.route)
      /\ Estimated(l.quote)
  <2>1. l.allocated \in Int /\ Recomputed(l.route, l.allocated) # None
    BY <1>1
  <2>. QED
    BY <1>1, <2>1, RecomputedFacts
<1>3. l.quote.amountOut \in Nat
  BY <1>1, QuoteFields
<1>. QED
  BY <1>1, <1>2, <1>3

(* What the legs carry together is the sum of what each does.              *)
LEMMA AllocatedFacts ==
  ASSUME NEW PS \in SUBSET GoodPools, NEW legs \in Seq(Legs(PS))
  PROVE  /\ Allocated(legs) = Plus(Allocations(legs))
         /\ Allocations(legs) \in [1..Len(legs) -> Int]
         /\ \A i \in 1..Len(legs) : Allocations(legs)[i] = legs[i].allocated /\ legs[i].allocated \in Nat
         /\ Len(legs) \in Nat /\ DOMAIN legs = 1..Len(legs)
         /\ \A i \in 1..Len(legs) : legs[i] \in Legs(PS)
         /\ Plus(Allocations(legs)) \in Int
<1>. DEFINE n == Len(legs)
            a == [i \in DOMAIN legs |-> legs[i].allocated]
<1>1. n \in Nat /\ DOMAIN legs = 1..n
  BY LenProperties
<1>2. \A i \in 1..n : legs[i] \in Legs(PS)
  OBVIOUS
<1>3. \A i \in 1..n : legs[i].allocated \in Nat
  BY <1>2, LegFields
<1>4. Each(legs, LAMBDA l : l.allocated) = << >> \o a
  BY DEF Each
<1>5. a \in [1..n -> Int] /\ a = Allocations(legs)
  BY <1>1, <1>3 DEF Allocations
<1>. HIDE DEF a
<1>6. << >> \o a = a
  BY <1>1, <1>5, Listing
<1>7. Allocated(legs) = Plus(a)
  BY <1>4, <1>6 DEF Allocated
<1>8. Plus(a) \in Int
  BY <1>1, <1>5, PlusType
<1>. QED
  BY <1>1, <1>2, <1>3, <1>5, <1>7, <1>8 DEF Allocations

(* Giving a leg more changes what it carries and nothing else.             *)
LEMMA GivenMoreFacts ==
  ASSUME NEW PS \in SUBSET GoodPools, NEW s \in [status : {"going", "settled"}, legs : Seq(Legs(PS))],
         NEW total \in Int, NEW least \in Int, Sound(s.legs, total, least, PS),
         NEW i \in 1..Len(s.legs), NEW more \in Int, s.legs[i].allocated + more >= least
  PROVE  \/ GivenMore(s, i, more) = Failed
         \/ /\ GivenMore(s, i, more) \in [status : {"going", "settled"}, legs : Seq(Legs(PS))]
            /\ Sound(GivenMore(s, i, more).legs, total + more, least, PS)
            /\ Len(GivenMore(s, i, more).legs) = Len(s.legs)
            /\ \A j \in 1..Len(s.legs) : j # i => GivenMore(s, i, more).legs[j] = s.legs[j]
<1>. DEFINE n == Len(s.legs)
            leg == Leg(s.legs[i].route, s.legs[i].allocated + more)
            legs == [s.legs EXCEPT ![i] = leg]
<1>1. s.legs \in Seq(Legs(PS)) /\ s.status \in {"going", "settled"}
  OBVIOUS
<1>2. /\ n \in Nat /\ DOMAIN s.legs = 1..n
      /\ \A j \in 1..n : s.legs[j] \in Legs(PS) /\ s.legs[j].allocated \in Nat
      /\ Allocations(s.legs) \in [1..n -> Int]
  BY <1>1, AllocatedFacts
<1>3. CASE s = Failed
  BY <1>3 DEF GivenMore
<1>4. CASE s # Failed /\ leg.quote = None
  BY <1>4 DEF GivenMore, Replaced
<1>5. CASE s # Failed /\ leg.quote # None
  <2>1. GivenMore(s, i, more) = [s EXCEPT !.legs[i] = leg]
    BY <1>5 DEF GivenMore, Replaced
  <2>2. leg \in Legs(PS) /\ leg.route = s.legs[i].route /\ leg.allocated = s.legs[i].allocated + more
    <3>1. s.legs[i].route \in QuoteSet(PS) /\ s.legs[i].allocated + more \in Int
      BY <1>2, LegFields
    <3>. QED
      BY <1>5, <3>1, LegType
  <2>. HIDE DEF leg
  <2>3. [s EXCEPT !.legs[i] = leg] = [s EXCEPT !.legs = legs]
    OBVIOUS
  <2>4. legs \in Seq(Legs(PS)) /\ Len(legs) = n /\ legs[i] = leg /\ \A j \in 1..n : j # i => legs[j] = s.legs[j]
    <3>1. legs \in [1..n -> Legs(PS)]
      BY <1>1, <1>2, <2>2
    <3>. QED
      BY <1>2, <3>1
  <2>. HIDE DEF legs
  <2>5. Plus(Allocations(legs)) = total + more
    <3>1. Allocations(legs) \in [1..n -> Int]
      BY <2>4, AllocatedFacts
    <3>2. \A j \in 1..n : j # i => Allocations(legs)[j] = Allocations(s.legs)[j]
      BY <2>4 DEF Allocations
    <3>3. Allocations(legs)[i] = s.legs[i].allocated + more /\ Allocations(s.legs)[i] = s.legs[i].allocated
      BY <2>2, <2>4 DEF Allocations
    <3>4. Plus(Allocations(legs)) = Plus(Allocations(s.legs)) - Allocations(s.legs)[i] + Allocations(legs)[i]
      <4>. DEFINE a == Allocations(s.legs)
                  b == Allocations(legs)
      <4>1. n \in Nat /\ a \in [1..n -> Int] /\ b \in [1..n -> Int] /\ Besides(a, b, n, i)
        BY <1>2, <3>1, <3>2 DEF Besides
      <4>. HIDE DEF a, b
      <4>2. Plus(b) = Plus(a) - a[i] + b[i]
        <5>. HIDE DEF n
        <5>1. i \in 1..n
          BY DEF n
        <5>. QED
          BY <4>1, <5>1, PlusUpdate
      <4>. QED
        BY <4>2 DEF a, b
    <3>5. Plus(Allocations(s.legs)) = total /\ s.legs[i].allocated \in Nat
      BY <1>2 DEF Sound
    <3>. QED
      BY <3>3, <3>4, <3>5
  <2>6. Sound(legs, total + more, least, PS)
    <3>1. \A j \in 1..n : legs[j].route = s.legs[j].route
      BY <2>2, <2>4
    <3>2. \A j \in 1..n : legs[j].allocated >= least
      BY <2>2, <2>4 DEF Sound
    <3>3. \A j, k \in 1..n : j # k => Signature(legs[j].route) # Signature(legs[k].route)
      BY <3>1 DEF Sound
    <3>. QED
      BY <2>4, <2>5, <3>2, <3>3 DEF Sound
  <2>. DEFINE r == [s EXCEPT !.legs = legs]
  <2>7. r \in [status : {"going", "settled"}, legs : Seq(Legs(PS))] /\ r.legs = legs
    BY <1>1, <2>4
  <2>. HIDE DEF r
  <2>. QED
    BY <2>1, <2>3, <2>4, <2>6, <2>7 DEF r
<1>. QED
  BY <1>3, <1>4, <1>5

(* A finite list of numbers has a first highest one.                       *)
LEMMA FirstHighest ==
  ASSUME NEW n \in Nat \ {0}, NEW m \in [1..n -> Int]
  PROVE  \E i \in 1..n : (\A j \in 1..(i - 1) : m[j] # m[i]) /\ \A j \in 1..n : m[j] <= m[i]
<1>. DEFINE S == {k \in 0..n : k = 0 \/ \E i \in 1..k : \A j \in 1..k : m[j] <= m[i]}
            T == {i \in 1..n : \A j \in 1..n : m[j] <= m[i]}
<1>1. 0 \in S
  OBVIOUS
<1>2. ASSUME NEW k \in 1..n, k - 1 \in S PROVE k \in S
  <2>1. k \in 0..n /\ k \in Nat /\ m[k] \in Int /\ \A j \in 1..k : j \in 1..n /\ m[j] \in Int /\ (j = k \/ j \in 1..(k - 1))
    OBVIOUS
  <2>2. CASE k = 1
    <3>1. 1 \in 1..k /\ \A j \in 1..k : j = 1
      BY <2>2
    <3>2. \A j \in 1..k : m[j] <= m[1]
      BY <2>1, <3>1
    <3>. QED
      BY <2>1, <3>1, <3>2
  <2>3. CASE k # 1
    <3>1. k - 1 # 0
      BY <2>3
    <3>2. PICK i \in 1..(k - 1) : \A j \in 1..(k - 1) : m[j] <= m[i]
      BY <1>2, <3>1
    <3>3. i \in 1..k /\ k \in 1..k /\ m[i] \in Int
      BY <2>1
    <3>4. CASE m[k] <= m[i]
      BY <2>1, <3>2, <3>3, <3>4
    <3>5. CASE ~(m[k] <= m[i])
      <4>1. ASSUME NEW j \in 1..k PROVE m[j] <= m[k]
        <5>1. CASE j = k
          BY <2>1, <5>1
        <5>2. CASE j # k
          <6>1. j \in 1..(k - 1) /\ m[j] \in Int
            BY <2>1, <5>2
          <6>2. m[j] <= m[i]
            BY <3>2, <6>1
          <6>. QED
            BY <2>1, <3>3, <3>5, <6>1, <6>2
        <5>. QED
          BY <5>1, <5>2
      <4>. QED
        BY <2>1, <3>3, <4>1
    <3>. QED
      BY <3>4, <3>5
  <2>. QED
    BY <2>2, <2>3
<1>3. T # {}
  <2>. HIDE DEF S
  <2>1. \A k \in 0..n : k \in S
    BY <1>1, <1>2, Counting
  <2>2. n \in S
    BY <2>1
  <2>. QED
    BY <2>2 DEF S
<1>4. PICK i \in T : \A j \in T : i <= j
  <2>1. T \in SUBSET Nat
    OBVIOUS
  <2>. HIDE DEF T
  <2>. QED
    BY <1>3, <2>1, LeastNatural
<1>5. i \in 1..n /\ \A j \in 1..n : m[j] <= m[i]
  OBVIOUS
<1>6. ASSUME NEW j \in 1..(i - 1), m[j] = m[i] PROVE FALSE
  <2>1. j \in 1..n /\ ~(i <= j)
    BY <1>5
  <2>2. j \in T
    BY <1>5, <1>6, <2>1
  <2>. HIDE DEF T
  <2>. QED
    BY <1>4, <2>1, <2>2
<1>. QED
  BY <1>5, <1>6

(* So the optimizer finds a leg that earns most and one that earns least.  *)
LEMMA ExtremesFacts ==
  ASSUME NEW PS \in SUBSET GoodPools, NEW legs \in Seq(Legs(PS)), Len(legs) >= 1
  PROVE  /\ Highest(legs) \in 1..Len(legs) /\ Lowest(legs) \in 1..Len(legs)
<1>. DEFINE n == Len(legs)
            m == [i \in 1..n |-> legs[i].marginal]
            w == [i \in 1..n |-> -legs[i].marginal]
<1>1. n \in Nat \ {0} /\ DOMAIN legs = 1..n /\ \A i \in 1..n : legs[i].marginal \in Int
  <2>1. n \in Nat /\ DOMAIN legs = 1..n /\ \A i \in 1..n : legs[i] \in Legs(PS)
    BY AllocatedFacts
  <2>. QED
    BY <2>1, LegFields
<1>2. m \in [1..n -> Int] /\ w \in [1..n -> Int]
  BY <1>1
<1>3. Highest(legs) \in 1..n
  <2>1. PICK i \in 1..n : (\A j \in 1..(i - 1) : m[j] # m[i]) /\ \A j \in 1..n : m[j] <= m[i]
    <3>. HIDE DEF m, n
    <3>. QED
      BY <1>1, <1>2, FirstHighest
  <2>2. First(legs, i) /\ \A j \in DOMAIN legs : legs[j].marginal <= legs[i].marginal
    <3>1. \A j \in 1..(i - 1) : j \in 1..n
      BY <1>1
    <3>. QED
      BY <1>1, <2>1, <3>1 DEF First
  <2>. QED
    BY <1>1, <2>2 DEF Highest
<1>4. Lowest(legs) \in 1..n
  <2>1. PICK i \in 1..n : (\A j \in 1..(i - 1) : w[j] # w[i]) /\ \A j \in 1..n : w[j] <= w[i]
    <3>. HIDE DEF w, n
    <3>. QED
      BY <1>1, <1>2, FirstHighest
  <2>2. First(legs, i) /\ \A j \in DOMAIN legs : legs[j].marginal >= legs[i].marginal
    <3>1. \A j \in 1..(i - 1) : j \in 1..n
      BY <1>1
    <3>2. \A j \in 1..n : legs[j].marginal >= legs[i].marginal
      <4>1. ASSUME NEW j \in 1..n PROVE legs[j].marginal >= legs[i].marginal
        <5>1. -legs[j].marginal <= -legs[i].marginal
          BY <2>1
        <5>. QED
          BY <1>1, <5>1
      <4>. QED
        BY <4>1
    <3>. QED
      BY <1>1, <2>1, <3>1, <3>2 DEF First
  <2>. QED
    BY <1>1, <2>2 DEF Lowest
<1>. QED
  BY <1>3, <1>4

(* Some of the legs.                                                       *)
LEMMA SomeLegs ==
  ASSUME NEW PS \in SUBSET GoodPools, NEW legs, NEW total, NEW least, Sound(legs, total, least, PS),
         NEW S \in SUBSET (1..Len(legs)), NEW rest \in Seq(Legs(PS)), Lists(rest, legs, S)
  PROVE  Sound(rest, Plus(Masked(Allocations(legs), Len(legs), S)), least, PS)
<1>. DEFINE n == Len(legs)
            m == Len(rest)
            a == Allocations(legs)
            b == Allocations(rest)
<1>1. legs \in Seq(Legs(PS))
  BY DEF Sound
<1>2. /\ n \in Nat /\ m \in Nat /\ a \in [1..n -> Int] /\ b \in [1..m -> Int] /\ Len(b) = m
      /\ \A i \in 1..n : a[i] = legs[i].allocated
      /\ \A i \in 1..m : b[i] = rest[i].allocated
  BY <1>1, AllocatedFacts
<1>3. PICK e \in [1..m -> S] :
        /\ \A i, j \in 1..m : e[i] = e[j] => i = j
        /\ \A x \in S : \E i \in 1..m : e[i] = x
        /\ \A i \in 1..m : rest[i] = legs[e[i]]
  BY Zenon DEF Lists
<1>. HIDE DEF n, m, a, b
<1>4. \A i \in 1..m : e[i] \in 1..n
  BY <1>3 DEF n
<1>5. ASSUME NEW i \in 1..m PROVE b[i] = a[e[i]]
  <2>1. b[i] = rest[i].allocated /\ rest[i] = legs[e[i]] /\ e[i] \in 1..n
    BY <1>2, <1>3, <1>4
  <2>2. a[e[i]] = legs[e[i]].allocated
    BY <1>2, <2>1
  <2>. QED
    BY <2>1, <2>2
<1>6. Lists(b, a, S)
  BY <1>2, <1>3, <1>5 DEF Lists
<1>7. Plus(b) = Plus(Masked(a, n, S))
  <2>1. S \in SUBSET (1..n)
    BY DEF n
  <2>. QED
    BY <1>2, <1>6, <2>1, PlusListed
<1>8. \A i \in 1..m : rest[i].allocated >= least
  BY <1>3, <1>4 DEF Sound, n
<1>9. ASSUME NEW i \in 1..m, NEW j \in 1..m, i # j
      PROVE  Signature(rest[i].route) # Signature(rest[j].route)
  <2>1. e[i] # e[j] /\ e[i] \in 1..n /\ e[j] \in 1..n /\ rest[i] = legs[e[i]] /\ rest[j] = legs[e[j]]
    BY <1>3, <1>4, <1>9
  <2>. QED
    BY <2>1 DEF Sound, n
<1>. QED
  BY <1>7, <1>8, <1>9 DEF Sound, n, m, a, b

(* Removing a leg gives what it carried to another: the whole amount stays *)
(* on the rest.                                                            *)
LEMMA WithoutFacts ==
  ASSUME NEW PS \in SUBSET GoodPools, NEW s \in [status : {"going", "settled"}, legs : Seq(Legs(PS))],
         NEW total \in Int, NEW least \in Int, Sound(s.legs, total, least, PS),
         Len(s.legs) > 2, NEW i \in 1..Len(s.legs)
  PROVE  SoundState(Without(s, i), total, least, PS)
<1>. DEFINE n == Len(s.legs)
            S == (1..n) \ {i}
            rest == Picked(s.legs, S)
            t == [s EXCEPT !.legs = rest]
            a == Allocations(s.legs)
<1>1. s.legs \in Seq(Legs(PS)) /\ s.status \in {"going", "settled"}
  OBVIOUS
<1>2. /\ n \in Nat /\ DOMAIN s.legs = 1..n /\ a \in [1..n -> Int] /\ a[i] = s.legs[i].allocated
      /\ s.legs[i].allocated \in Nat
  BY <1>1, AllocatedFacts
<1>3. rest \in Seq(Legs(PS)) /\ Len(rest) = n - 1 /\ Lists(rest, s.legs, S)
  <2>1. Cardinality(S) = n - 1
    <3>1. IsFiniteSet(1..n) /\ Cardinality(1..n) = n
      <4>1. IsFiniteSet(1..n) /\ Cardinality(1..n) = IF 1 > n THEN 0 ELSE n - 1 + 1
        BY <1>2, FS_Interval
      <4>. QED
        BY <1>2, <4>1
    <3>2. IsFiniteSet(S) /\ Cardinality(S) = IF i \in 1..n THEN Cardinality(1..n) - 1 ELSE Cardinality(1..n)
      <4>. HIDE DEF n
      <4>. QED
        BY <3>1, FS_RemoveElement
    <3>. QED
      BY <3>1, <3>2
  <2>2. S \in SUBSET (1..Len(s.legs))
    OBVIOUS
  <2>. HIDE DEF S
  <2>3. rest \in Seq(Legs(PS)) /\ Len(rest) = Cardinality(S) /\ Lists(rest, s.legs, S)
    BY <1>1, <2>2, PickedFacts
  <2>. QED
    BY <2>1, <2>3
<1>4. Without(s, i) = GivenMore(t, Highest(rest), s.legs[i].allocated)
  BY <1>1, <1>2 DEF Without, WithoutLeg
<1>. HIDE DEF rest
<1>5. t \in [status : {"going", "settled"}, legs : Seq(Legs(PS))] /\ t.legs = rest
  BY <1>1, <1>3
<1>6. Sound(rest, total - a[i], least, PS)
  <2>1. Sound(rest, Plus(Masked(a, n, S)), least, PS)
    <3>1. S \in SUBSET (1..Len(s.legs))
      OBVIOUS
    <3>. HIDE DEF S
    <3>. QED
      BY <1>3, <3>1, SomeLegs
  <2>2. Plus(Masked(a, n, S)) = Plus(a) - a[i] + Masked(a, n, S)[i]
    <3>1. Masked(a, n, S) \in [1..n -> Int] /\ Besides(a, Masked(a, n, S), n, i)
      BY <1>2 DEF Masked, Besides
    <3>. HIDE DEF S, a
    <3>. DEFINE b == Masked(a, n, S)
    <3>. HIDE DEF b
    <3>2. b \in [1..n -> Int] /\ Besides(a, b, n, i)
      BY <3>1 DEF b
    <3>3. Plus(b) = Plus(a) - a[i] + b[i]
      <4>1. i \in 1..n /\ n \in Nat /\ a \in [1..n -> Int]
        BY <1>2
      <4>. HIDE DEF n
      <4>. QED
        BY <3>2, <4>1, PlusUpdate, Zenon
    <3>. QED
      BY <3>3 DEF b
  <2>3. Masked(a, n, S)[i] = 0
    BY DEF Masked
  <2>4. Plus(a) = total
    BY DEF Sound
  <2>. HIDE DEF a, S, n
  <2>5. Plus(Masked(a, n, S)) = total - a[i]
    BY <1>2, <2>2, <2>3, <2>4
  <2>. QED
    BY <2>1, <2>5
<1>7. Highest(rest) \in 1..Len(rest) /\ Len(rest) >= 2
  BY <1>2, <1>3, ExtremesFacts
<1>8. rest[Highest(rest)].allocated + a[i] >= least /\ total - a[i] + a[i] = total /\ total - a[i] \in Int
  <2>1. rest[Highest(rest)].allocated \in Nat
    BY <1>3, <1>7, AllocatedFacts
  <2>2. rest[Highest(rest)].allocated >= least
    BY <1>6, <1>7 DEF Sound
  <2>. QED
    BY <1>2, <2>1, <2>2
<1>. HIDE DEF t
<1>. DEFINE r == GivenMore(t, Highest(rest), a[i])
<1>9. \/ r = Failed
      \/ /\ r \in [status : {"going", "settled"}, legs : Seq(Legs(PS))]
         /\ Sound(r.legs, total - a[i] + a[i], least, PS)
         /\ Len(r.legs) = Len(t.legs)
  <2>1. Sound(t.legs, total - a[i], least, PS) /\ Highest(rest) \in 1..Len(t.legs)
        /\ t.legs[Highest(rest)].allocated + a[i] >= least /\ a[i] \in Int
    BY <1>2, <1>5, <1>6, <1>7, <1>8
  <2>. HIDE DEF a
  <2>. QED
    BY <1>5, <1>8, <2>1, GivenMoreFacts
<1>10. r = Failed \/ (Len(r.legs) >= 2 /\ Sound(r.legs, total, least, PS)
                      /\ r \in [status : {"going", "settled"}, legs : Seq(Legs(PS))])
  BY <1>5, <1>7, <1>8, <1>9
<1>11. Without(s, i) = r
  BY <1>2, <1>4
<1>. QED
  BY <1>10, <1>11 DEF SoundState

(* A quotient of an integer.                                               *)
LEMMA DivInt ==
  ASSUME NEW a \in Int, NEW b \in Nat \ {0}
  PROVE  a \div b \in Int
OBVIOUS

(* The minimum is a natural number.                                        *)
LEMMA MinAllocationType ==
  ASSUME NEW amount \in Nat
  PROVE  MinAllocation(amount) \in Nat
<1>1. amount * MinLegRatio \in Nat
  BY SplitAssumption, TimesFacts
<1>. QED
  BY <1>1, DivFacts DEF MinAllocation

(* What every leg of a split is known to carry.                            *)
SureRatio == IF MinimumFits THEN MinLegRatio ELSE 2

Floor(amount) == (amount * SureRatio) \div 10000

(* That is the minimum where equal parts are no less, and two basis points *)
(* anyway.                                                                 *)
LEMMA FloorFacts ==
  ASSUME NEW amount \in Nat
  PROVE  /\ Floor(amount) \in Nat /\ Floor(amount) <= MinAllocation(amount)
         /\ MinimumFits => Floor(amount) = MinAllocation(amount)
         /\ SureRatio \in Nat /\ SureRatio >= 2 /\ SureRatio <= 5000
<1>1. /\ SureRatio \in Nat /\ MinLegRatio \in Nat /\ SureRatio >= 2 /\ SureRatio <= 5000
      /\ SureRatio <= MinLegRatio
  BY SplitAssumption DEF SureRatio, MinimumFits
<1>2. /\ amount * SureRatio \in Nat /\ amount * MinLegRatio \in Nat
      /\ amount * SureRatio <= amount * MinLegRatio
  BY <1>1, TimesFacts, TimesMonotone
<1>. DEFINE x == amount * SureRatio
            y == amount * MinLegRatio
<1>3. x \in Nat /\ y \in Nat /\ x <= y
  BY <1>2
<1>4. Floor(amount) = x \div 10000 /\ MinAllocation(amount) = y \div 10000
  BY DEF Floor, MinAllocation
<1>. HIDE DEF x, y
<1>5. x \div 10000 \in Nat /\ x \div 10000 <= y \div 10000
  BY <1>3
<1>6. MinimumFits => Floor(amount) = MinAllocation(amount)
  BY DEF Floor, MinAllocation, SureRatio
<1>. QED
  BY <1>1, <1>4, <1>5, <1>6

(* It is a natural number.                                                 *)
LEMMA FloorType ==
  ASSUME NEW amount \in Nat
  PROVE  Floor(amount) \in Nat
BY FloorFacts

(* Moving from one leg to another keeps the sum; the one that gives stays  *)
(* above what each has.                                                    *)
LEMMA MovedFacts ==
  ASSUME NEW PS \in SUBSET GoodPools, NEW s \in [status : {"going", "settled"}, legs : Seq(Legs(PS))],
         NEW total \in Int, NEW least \in Int, Sound(s.legs, total, least, PS), Len(s.legs) >= 2,
         NEW from \in 1..Len(s.legs), NEW to \in 1..Len(s.legs), from # to, NEW moved \in Nat,
         s.legs[from].allocated - moved >= least
  PROVE  SoundState(Moved(s, from, to, moved), total, least, PS)
<1>. DEFINE less == -moved
            rest == total + less
            s1 == GivenMore(s, from, less)
            s2 == GivenMore(s1, to, moved)
            n == Len(s.legs)
            States == [status : {"going", "settled"}, legs : Seq(Legs(PS))]
<1>1. \A i \in 1..n : s.legs[i].allocated \in Nat /\ s.legs[i].allocated >= least
  <2>1. s.legs \in Seq(Legs(PS))
    OBVIOUS
  <2>2. \A i \in 1..n : s.legs[i].allocated \in Nat
    BY <2>1, AllocatedFacts
  <2>. QED
    BY <2>2 DEF Sound
<1>2. less \in Int /\ rest \in Int /\ rest + moved = total
  OBVIOUS
<1>3. s.legs[from].allocated + less >= least
  <2>1. s.legs[from].allocated \in Nat
    BY <1>1
  <2>. QED
    BY <2>1
<1>4. Moved(s, from, to, moved) = s2
  BY DEF Moved
<1>. HIDE DEF less
<1>5. \/ s1 = Failed
      \/ /\ s1 \in States /\ Sound(s1.legs, rest, least, PS) /\ Len(s1.legs) = n
         /\ \A j \in 1..n : j # from => s1.legs[j] = s.legs[j]
  BY <1>2, <1>3, GivenMoreFacts
<1>. HIDE DEF s1, rest
<1>6. CASE s1 = Failed
  BY <1>4, <1>6 DEF GivenMore, SoundState
<1>7. CASE s1 # Failed
  <2>1. /\ s1 \in States /\ Sound(s1.legs, rest, least, PS) /\ Len(s1.legs) = n
        /\ s1.legs[to] = s.legs[to]
    BY <1>5, <1>7
  <2>2. s1.legs[to].allocated + moved >= least /\ moved \in Int /\ to \in 1..Len(s1.legs)
    <3>1. s.legs[to].allocated \in Nat /\ s.legs[to].allocated >= least
      BY <1>1
    <3>. QED
      BY <2>1, <3>1
  <2>3. \/ s2 = Failed
        \/ /\ s2 \in States /\ Sound(s2.legs, rest + moved, least, PS)
           /\ Len(s2.legs) = Len(s1.legs)
    BY <1>2, <2>1, <2>2, GivenMoreFacts
  <2>4. n >= 2
    OBVIOUS
  <2>. HIDE DEF s2, n
  <2>. QED
    BY <1>2, <1>4, <2>1, <2>3, <2>4 DEF SoundState
<1>. QED
  BY <1>6, <1>7

(* An iteration keeps the whole amount on legs over different routes, none *)
(* below the minimum.                                                      *)
LEMMA ImprovedFacts ==
  ASSUME NEW PS \in SUBSET GoodPools, NEW amount \in Nat, NEW least \in Nat,
         least <= MinAllocation(amount), NEW s, SoundState(s, amount, least, PS)
  PROVE  SoundState(Improved(s, amount), amount, least, PS)
<1>. DEFINE minimum == MinAllocation(amount)
            high == Highest(s.legs)
            low == Lowest(s.legs)
            spread == Spread(s.legs[high], s.legs[low])
            wanted == (amount * spread) \div 20000
            spare  == s.legs[low].allocated - minimum
            moved  == Least(IF wanted > 1 THEN wanted ELSE 1, spare)
<1>1. minimum \in Nat /\ least <= minimum /\ amount \in Int
  BY MinAllocationType
<1>2. CASE s = Failed \/ s.status # "going"
  <2>1. Improved(s, amount) = s
    BY <1>2 DEF Improved, Failed
  <2>. QED
    BY <2>1
<1>3. CASE s # Failed /\ s.status = "going"
  <2>1. /\ s \in [status : {"going", "settled"}, legs : Seq(Legs(PS))]
        /\ Len(s.legs) >= 2 /\ Sound(s.legs, amount, least, PS)
    BY <1>3 DEF SoundState
  <2>. HIDE DEF minimum
  <2>2. s.legs \in Seq(Legs(PS)) /\ Len(s.legs) \in Nat
    BY <2>1, LenProperties
  <2>3. high \in 1..Len(s.legs) /\ low \in 1..Len(s.legs)
    BY <2>1, <2>2, ExtremesFacts
  <2>4. /\ s.legs[low].allocated \in Nat
        /\ s.legs[high].marginal \in Nat /\ s.legs[low].marginal \in Nat
    <3>1. s.legs[low] \in Legs(PS) /\ s.legs[high] \in Legs(PS)
      BY <2>2, <2>3
    <3>. QED
      BY <3>1, LegFields
  <2>. HIDE DEF high, low
  <2>5. Improved(s, amount) =
          IF \/ high = low \/ s.legs[high].marginal <= 0
             \/ spread <= Convergence
             \/ spare <= 0 /\ Len(s.legs) = 2
          THEN [s EXCEPT !.status = "settled"]
          ELSE IF spare <= 0 THEN Without(s, low)
          ELSE Moved(s, low, high, moved)
    BY <1>3 DEF Improved, Shifted, high, low, minimum
  <2>6. SoundState([s EXCEPT !.status = "settled"], amount, least, PS)
    BY <2>1, <2>2 DEF SoundState
  <2>7. ASSUME spare <= 0, Len(s.legs) # 2
        PROVE  SoundState(Without(s, low), amount, least, PS)
    <3>1. Len(s.legs) > 2
      <4>. DEFINE m == Len(s.legs)
      <4>1. m \in Nat /\ m >= 2 /\ m # 2
        BY <2>1, <2>2, <2>7
      <4>. HIDE DEF m
      <4>2. m > 2
        BY <4>1
      <4>. QED
        BY <4>2 DEF m
    <3>. QED
      BY <1>1, <2>1, <2>3, <3>1, WithoutFacts
  <2>8. ASSUME high # low, ~(s.legs[high].marginal <= 0), ~(spare <= 0)
        PROVE  SoundState(Moved(s, low, high, moved), amount, least, PS)
    <3>1. spread \in Int
      <4>1. s.legs[high].marginal \in Nat \ {0} /\ (s.legs[high].marginal - s.legs[low].marginal) * 10000 \in Int
        BY <2>4, <2>8
      <4>. QED
        BY <4>1, DivInt DEF Spread
    <3>. HIDE DEF spread
    <3>2. wanted \in Int
      <4>1. amount * spread \in Int /\ 20000 \in Nat \ {0}
        BY <3>1
      <4>. QED
        BY <4>1, DivInt
    <3>. HIDE DEF wanted
    <3>3. spare \in Int
      BY <1>1, <2>4
    <3>4. moved \in Nat /\ moved <= spare
      <4>. HIDE DEF spare
      <4>. QED
        BY <2>8, <3>2, <3>3 DEF Least
    <3>. HIDE DEF moved
    <3>5. s.legs[low].allocated - moved >= least
      BY <1>1, <2>4, <3>4
    <3>. QED
      BY <1>1, <2>1, <2>3, <2>8, <3>4, <3>5, MovedFacts
  <2>. HIDE DEF spare, moved, spread
  <2>. QED
    BY <2>5, <2>6, <2>7, <2>8
<1>. QED
  BY <1>2, <1>3

(* Pruning keeps them too: it takes away one weak leg of three or more.    *)
LEMMA StrengthenedFacts ==
  ASSUME NEW PS \in SUBSET GoodPools, NEW amount \in Nat, NEW least \in Nat, NEW s,
         SoundState(s, amount, least, PS)
  PROVE  SoundState(Strengthened(s, amount), amount, least, PS)
<1>. DEFINE weak == {i \in DOMAIN s.legs : s.legs[i].allocated < MinAllocation(amount)}
            first == CHOOSE i \in weak : \A j \in weak : i <= j
<1>1. CASE s = Failed
  <2>1. Len(s.legs) = 0
    BY <1>1 DEF Failed
  <2>. QED
    BY <2>1 DEF Strengthened
<1>2. CASE s # Failed
  <2>1. /\ s \in [status : {"going", "settled"}, legs : Seq(Legs(PS))]
        /\ Len(s.legs) >= 2 /\ Sound(s.legs, amount, least, PS)
    BY <1>2 DEF SoundState
  <2>2. s.legs \in Seq(Legs(PS)) /\ Len(s.legs) \in Nat /\ DOMAIN s.legs = 1..Len(s.legs)
    BY <2>1, LenProperties
  <2>3. CASE weak = {} \/ Len(s.legs) <= 2
    BY <2>3 DEF Strengthened
  <2>4. CASE ~(weak = {} \/ Len(s.legs) <= 2)
    <3>1. Strengthened(s, amount) = Without(s, first)
      BY <2>4 DEF Strengthened
    <3>2. weak \in SUBSET Nat /\ weak # {}
      BY <2>2, <2>4
    <3>3. first \in weak
      <4>. HIDE DEF weak
      <4>1. \E i \in weak : \A j \in weak : i <= j
        BY <3>2, LeastNatural
      <4>. QED
        BY <4>1
    <3>4. first \in 1..Len(s.legs)
      <4>. HIDE DEF first
      <4>. QED
        BY <2>2, <3>3
    <3>5. Len(s.legs) > 2
      <4>1. ~(Len(s.legs) <= 2)
        BY <2>4
      <4>. QED
        BY <2>2, <4>1
    <3>. HIDE DEF first, weak
    <3>. QED
      BY <2>1, <3>1, <3>4, <3>5, WithoutFacts
  <2>. QED
    BY <2>3, <2>4
<1>. QED
  BY <1>1, <1>2

(* So it is after every number of iterations, ...                          *)
LEMMA ImprovedAllFacts ==
  ASSUME NEW PS \in SUBSET GoodPools, NEW amount \in Nat, NEW least \in Nat,
         least <= MinAllocation(amount), NEW s, SoundState(s, amount, least, PS)
  PROVE  SoundState(ImprovedAll(s, amount), amount, least, PS)
<1>. DEFINE n == MaxIterations
            V == {v \in {Failed} \cup [status : {"going", "settled"}, legs : Seq(Legs(PS))] :
                    SoundState(v, amount, least, PS)}
            Body(f) == [k \in 0..MaxIterations |-> IF k = 0 THEN s ELSE Improved(f[k - 1], amount)]
            G == [k \in 1..n |-> [v \in V |-> Improved(v, amount)]]
<1>1. n \in Nat
  BY SplitAssumption
<1>2. \A v : v \in V <=> SoundState(v, amount, least, PS)
  BY DEF SoundState
<1>. HIDE DEF V
<1>3. s \in V /\ \A v \in V : Improved(v, amount) \in V
  BY <1>2, ImprovedFacts
<1>4. G \in [1..n -> [V -> V]]
  BY <1>3
<1>5. PICK g \in [0..n -> V] : Stepwise(g, n, s, G)
  <2>. HIDE DEF G, n
  <2>. QED
    BY <1>1, <1>3, <1>4, StepsExist, Zenon
<1>6. g = Body(g)
  <2>1. ASSUME NEW k \in 0..n PROVE g[k] = IF k = 0 THEN s ELSE Improved(g[k - 1], amount)
    <3>1. CASE k = 0
      BY <1>5, <3>1 DEF Stepwise
    <3>2. CASE k # 0
      <4>1. k \in 1..n /\ k - 1 \in 0..n
        BY <1>1, <3>2
      <4>2. g[k] = G[k][g[k - 1]]
        <5>. HIDE DEF G, n
        <5>. QED
          BY <1>5, <4>1 DEF Stepwise
      <4>3. g[k - 1] \in V
        BY <4>1
      <4>. QED
        BY <3>2, <4>1, <4>2, <4>3
    <3>. QED
      BY <3>1, <3>2
  <2>. QED
    BY <2>1
<1>7. PICK p : p = CHOOSE f : f = Body(f)
  OBVIOUS
<1>8. p = Body(p)
  <2>. HIDE DEF Body
  <2>. QED
    BY <1>6, <1>7
<1>9. ImprovedAll(s, amount) = p[n]
  BY <1>7 DEF ImprovedAll
<1>10. \A k \in 0..n : p[k] = IF k = 0 THEN s ELSE Improved(p[k - 1], amount)
  BY <1>8
<1>. HIDE DEF Body, n
<1>. DEFINE S == {k \in 0..n : p[k] \in V}
<1>11. 0 \in S
  BY <1>1, <1>3, <1>10
<1>12. ASSUME NEW k \in 1..n, k - 1 \in S PROVE k \in S
  <2>1. k \in 0..n /\ k # 0 /\ p[k - 1] \in V
    BY <1>1, <1>12
  <2>. QED
    BY <1>3, <1>10, <2>1
<1>13. n \in S
  <2>. HIDE DEF S
  <2>1. \A k \in 0..n : k \in S
    BY <1>1, <1>11, <1>12, Counting
  <2>. QED
    BY <1>1, <2>1
<1>. QED
  BY <1>2, <1>9, <1>13

(* ... and after the last removals.                                        *)
LEMMA StrengthenedAllFacts ==
  ASSUME NEW PS \in SUBSET GoodPools, NEW amount \in Nat, NEW least \in Nat, NEW s,
         SoundState(s, amount, least, PS)
  PROVE  SoundState(StrengthenedAll(s, amount), amount, least, PS)
<1>. DEFINE n == Len(s.legs)
            V == {v \in {Failed} \cup [status : {"going", "settled"}, legs : Seq(Legs(PS))] :
                    SoundState(v, amount, least, PS)}
            Body(f) == [k \in 0..Len(s.legs) |-> IF k = 0 THEN s ELSE Strengthened(f[k - 1], amount)]
            G == [k \in 1..n |-> [v \in V |-> Strengthened(v, amount)]]
<1>1. n \in Nat
  <2>1. CASE s = Failed
    BY <2>1 DEF Failed
  <2>2. CASE s # Failed
    <3>1. s.legs \in Seq(Legs(PS))
      BY <2>2 DEF SoundState
    <3>. QED
      BY <3>1, LenProperties
  <2>. QED
    BY <2>1, <2>2
<1>2. \A v : v \in V <=> SoundState(v, amount, least, PS)
  BY DEF SoundState
<1>. HIDE DEF V
<1>3. s \in V /\ \A v \in V : Strengthened(v, amount) \in V
  BY <1>2, StrengthenedFacts
<1>4. G \in [1..n -> [V -> V]]
  BY <1>3
<1>5. PICK g \in [0..n -> V] : Stepwise(g, n, s, G)
  <2>. HIDE DEF G, n
  <2>. QED
    BY <1>1, <1>3, <1>4, StepsExist, Zenon
<1>6. g = Body(g)
  <2>1. ASSUME NEW k \in 0..n PROVE g[k] = IF k = 0 THEN s ELSE Strengthened(g[k - 1], amount)
    <3>1. CASE k = 0
      BY <1>5, <3>1 DEF Stepwise
    <3>2. CASE k # 0
      <4>1. k \in 1..n /\ k - 1 \in 0..n
        BY <1>1, <3>2
      <4>2. g[k] = G[k][g[k - 1]]
        <5>. HIDE DEF G, n
        <5>. QED
          BY <1>5, <4>1 DEF Stepwise
      <4>3. g[k - 1] \in V
        BY <4>1
      <4>. QED
        BY <3>2, <4>1, <4>2, <4>3
    <3>. QED
      BY <3>1, <3>2
  <2>. QED
    BY <2>1
<1>7. PICK p : p = CHOOSE f : f = Body(f)
  OBVIOUS
<1>8. p = Body(p)
  <2>. HIDE DEF Body
  <2>. QED
    BY <1>6, <1>7
<1>9. StrengthenedAll(s, amount) = p[n]
  BY <1>7 DEF StrengthenedAll
<1>10. \A k \in 0..n : p[k] = IF k = 0 THEN s ELSE Strengthened(p[k - 1], amount)
  BY <1>8
<1>. HIDE DEF Body, n
<1>. DEFINE S == {k \in 0..n : p[k] \in V}
<1>11. 0 \in S
  BY <1>1, <1>3, <1>10
<1>12. ASSUME NEW k \in 1..n, k - 1 \in S PROVE k \in S
  <2>1. k \in 0..n /\ k # 0 /\ p[k - 1] \in V
    BY <1>1, <1>12
  <2>. QED
    BY <1>3, <1>10, <2>1
<1>13. n \in S
  <2>. HIDE DEF S
  <2>1. \A k \in 0..n : k \in S
    BY <1>1, <1>11, <1>12, Counting
  <2>. QED
    BY <1>1, <2>1
<1>. QED
  BY <1>2, <1>9, <1>13

(* All of the legs, in another order.                                      *)
LEMMA AllLegs ==
  ASSUME NEW PS \in SUBSET GoodPools, NEW legs, NEW total, NEW least, Sound(legs, total, least, PS),
         NEW rest \in Seq(Legs(PS)), Lists(rest, legs, 1..Len(legs))
  PROVE  Sound(rest, total, least, PS)
<1>1. Sound(rest, Plus(Masked(Allocations(legs), Len(legs), 1..Len(legs))), least, PS)
  <2>1. 1..Len(legs) \in SUBSET (1..Len(legs))
    OBVIOUS
  <2>. QED
    BY <2>1, SomeLegs
<1>2. Masked(Allocations(legs), Len(legs), 1..Len(legs)) = Allocations(legs)
  BY DEF Masked, Allocations
<1>. QED
  BY <1>1, <1>2 DEF Sound

(* A list backwards has the same elements.                                 *)
LEMMA ReverseFacts ==
  ASSUME NEW V, NEW s \in Seq(V)
  PROVE  Reverse(s) \in Seq(V) /\ Len(Reverse(s)) = Len(s) /\ Lists(Reverse(s), s, 1..Len(s))
<1>. DEFINE n == Len(s)
            e == [i \in 1..n |-> n - i + 1]
            t == Reverse(s)
<1>1. n \in Nat /\ s \in [1..n -> V]
  BY LenProperties
<1>2. t = [i \in 1..n |-> s[(n - i) + 1]]
  BY DEF Reverse
<1>. HIDE DEF t, n
<1>3. \A i \in 1..n : (n - i) + 1 \in 1..n
  BY <1>1
<1>4. t \in [1..n -> V]
  BY <1>1, <1>2, <1>3
<1>5. t \in Seq(V) /\ Len(t) = n
  BY <1>1, <1>4
<1>6. e \in [1..n -> 1..n]
  BY <1>3
<1>7. \A i, j \in 1..n : e[i] = e[j] => i = j
  BY <1>1
<1>8. ASSUME NEW x \in 1..n PROVE \E i \in 1..n : e[i] = x
  <2>1. (n - x) + 1 \in 1..n /\ n - ((n - x) + 1) + 1 = x
    BY <1>1
  <2>. QED
    BY <2>1
<1>9. \A i \in 1..n : t[i] = s[e[i]]
  BY <1>2
<1>. HIDE DEF e
<1>10. Lists(t, s, 1..n)
  BY <1>5, <1>6, <1>7, <1>8, <1>9 DEF Lists
<1>. QED
  BY <1>5, <1>10 DEF t, n

SoundSplit(legs, amount, PS) ==
  legs = << >> \/ (Len(legs) >= 2 /\ Sound(legs, amount, Floor(amount), PS))

(* Routes that go through different pools.                                 *)
Distinct(routes) ==
  \A i, j \in 1..Len(routes) : i # j => Signature(routes[i]) # Signature(routes[j])

(* What each route is to carry: the whole amount, none less than least.    *)
Shares(a, n, amount, least) ==
  /\ a \in [1..n -> Nat] /\ Plus(a) = amount
  /\ \A i \in 1..n : a[i] >= least

(* What the routes that pay nothing were to carry goes to the best of the  *)
(* others.                                                                 *)
LEMMA StartedFacts ==
  ASSUME NEW PS \in SUBSET GoodPools, NEW amount \in Nat, NEW total \in Int, NEW least \in Int,
         NEW legs, Sound(legs, total, least, PS), total <= amount
  PROVE  SoundState(Started(legs, amount), amount, least, PS)
<1>. DEFINE n == Len(legs)
            lost == amount - Allocated(legs)
            back == Reverse(legs)
            key == Each(back, LAMBDA l : l.marginal)
            best == Descending(back, key)
            States == [status : {"going", "settled"}, legs : Seq(Legs(PS))]
<1>1. legs \in Seq(Legs(PS)) /\ n \in Nat /\ Allocated(legs) = total
  <2>1. legs \in Seq(Legs(PS))
    BY DEF Sound
  <2>. QED
    BY <2>1, AllocatedFacts, LenProperties DEF Sound
<1>2. CASE n < 2
  BY <1>2 DEF Started, SoundState
<1>3. CASE n >= 2 /\ lost <= 0
  <2>1. total = amount
    BY <1>1, <1>3
  <2>2. Started(legs, amount) = [status |-> "going", legs |-> legs]
    BY <1>1, <1>3 DEF Started
  <2>. QED
    BY <1>1, <1>3, <2>1, <2>2 DEF SoundState
<1>4. CASE n >= 2 /\ lost > 0
  <2>1. back \in Seq(Legs(PS)) /\ Len(back) = n /\ Sound(back, total, least, PS)
    BY <1>1, ReverseFacts, AllLegs
  <2>2. key \in [1..n -> Int]
    <3>. DEFINE m == [i \in DOMAIN back |-> back[i].marginal]
    <3>1. key = << >> \o m
      BY DEF Each
    <3>. HIDE DEF back
    <3>2. DOMAIN back = 1..n /\ \A i \in 1..n : back[i] \in Legs(PS)
      BY <2>1, AllocatedFacts
    <3>3. m \in [1..n -> Int]
      BY <3>2, LegFields
    <3>. HIDE DEF m, n
    <3>. QED
      BY <1>1, <3>1, <3>3, Listing
  <2>. HIDE DEF back, key
  <2>3. best \in Seq(Legs(PS)) /\ Len(best) = n /\ Lists(best, back, 1..Len(back))
    <3>1. key \in [1..Len(back) -> Int]
      BY <2>1, <2>2
    <3>2. best \in Seq(Legs(PS)) /\ Len(best) = Len(back) /\ Lists(best, back, 1..Len(back))
      BY <2>1, <3>1, DescendingFacts
    <3>. QED
      BY <2>1, <3>2
  <2>. HIDE DEF best
  <2>4. Sound(best, total, least, PS)
    BY <2>1, <2>3, AllLegs
  <2>. DEFINE s == [status |-> "going", legs |-> best]
              r == GivenMore(s, 1, lost)
  <2>5. Started(legs, amount) = r
    BY <1>1, <1>4 DEF Started, back, key, best
  <2>6. s \in States /\ s.legs = best /\ 1 \in 1..Len(s.legs)
    BY <1>4, <2>3
  <2>7. lost \in Int /\ total + lost = amount /\ s.legs[1].allocated + lost >= least
    <3>1. best[1].allocated \in Nat /\ best[1].allocated >= least
      BY <2>3, <2>4, <2>6, AllocatedFacts DEF Sound
    <3>2. lost \in Int /\ total + lost = amount
      BY <1>1
    <3>. QED
      BY <1>4, <2>6, <3>1, <3>2
  <2>. HIDE DEF s, lost
  <2>8. \/ r = Failed
        \/ /\ r \in States /\ Sound(r.legs, total + lost, least, PS) /\ Len(r.legs) = Len(s.legs)
    BY <2>4, <2>6, <2>7, GivenMoreFacts
  <2>9. Len(s.legs) >= 2
    BY <1>4, <2>3, <2>6
  <2>. HIDE DEF r
  <2>. QED
    BY <2>5, <2>7, <2>8, <2>9 DEF SoundState
<1>5. n >= 2 \/ n < 2
  BY <1>1
<1>6. lost > 0 \/ lost <= 0
  BY <1>1
<1>. QED
  BY <1>2, <1>3, <1>4, <1>5, <1>6

(* The optimizer starts with the whole amount on legs over different       *)
(* routes.                                                                 *)
LEMMA StartFacts ==
  ASSUME NEW PS \in SUBSET GoodPools, NEW amount \in Nat, NEW least \in Int,
         NEW routes \in Seq(QuoteSet(PS)), Distinct(routes),
         NEW a, Shares(a, Len(routes), amount, least)
  PROVE  SoundState(Start(routes, amount, a), amount, least, PS)
<1>. DEFINE n == Len(routes)
            V == {Leg(routes[i], a[i]) : i \in 1..n}
            all == [i \in DOMAIN routes |-> Leg(routes[i], a[i])]
            S == {i \in DOMAIN all : all[i].quote # None}
            rest == Picked(all, S)
            b == Allocations(rest)
            m == Len(rest)
<1>1. /\ n \in Nat /\ DOMAIN routes = 1..n /\ \A i \in 1..n : routes[i] \in QuoteSet(PS)
      /\ a \in [1..n -> Int] /\ \A i \in 1..n : a[i] \in Nat /\ a[i] >= least
      /\ Plus(a) = amount
  BY LenProperties DEF Shares
<1>2. all \in [1..n -> V] /\ all \in Seq(V) /\ Len(all) = n /\ << >> \o all = all
  <2>1. all \in [1..n -> V]
    BY <1>1
  <2>. HIDE DEF all, V, n
  <2>. QED
    BY <1>1, <2>1, Listing
<1>3. Start(routes, amount, a) = Started(rest, amount)
  BY <1>2 DEF Start
<1>4. S \in SUBSET (1..n) /\ \A i \in 1..n : all[i] = Leg(routes[i], a[i])
  BY <1>1, <1>2
<1>5. \A i \in S : all[i] \in Legs(PS) /\ all[i].route = routes[i] /\ all[i].allocated = a[i]
  <2>1. ASSUME NEW i \in S
        PROVE  all[i] \in Legs(PS) /\ all[i].route = routes[i] /\ all[i].allocated = a[i]
    <3>1. i \in 1..n /\ all[i] = Leg(routes[i], a[i]) /\ all[i].quote # None
      BY <1>4
    <3>2. routes[i] \in QuoteSet(PS) /\ a[i] \in Int
      BY <1>1, <3>1
    <3>. HIDE DEF all, S
    <3>. QED
      BY <3>1, <3>2, LegType
  <2>. QED
    BY <2>1
<1>. HIDE DEF all, S, V
<1>6. rest \in Seq({all[i] : i \in S}) /\ Lists(rest, all, S)
  <2>1. S \in SUBSET (1..Len(all))
    BY <1>2, <1>4
  <2>. QED
    BY <1>2, <2>1, PickedFrom, PickedFacts
<1>. HIDE DEF rest
<1>7. rest \in Seq(Legs(PS))
  <2>. DEFINE W == {all[i] : i \in S}
  <2>1. W \in SUBSET Legs(PS)
    BY <1>5
  <2>2. rest \in Seq(W)
    BY <1>6
  <2>. HIDE DEF W
  <2>. QED
    BY <2>1, <2>2
<1>8. /\ m \in Nat /\ b \in [1..m -> Int] /\ Len(b) = m
      /\ \A i \in 1..m : b[i] = rest[i].allocated
  BY <1>7, AllocatedFacts
<1>9. PICK e \in [1..m -> S] :
        /\ \A i, j \in 1..m : e[i] = e[j] => i = j
        /\ \A x \in S : \E i \in 1..m : e[i] = x
        /\ \A i \in 1..m : rest[i] = all[e[i]]
  BY <1>6, Zenon DEF Lists
<1>. HIDE DEF m, b, n
<1>10. ASSUME NEW i \in 1..m
       PROVE  /\ e[i] \in 1..n /\ rest[i].route = routes[e[i]]
              /\ rest[i].allocated = a[e[i]] /\ b[i] = a[e[i]]
  <2>1. e[i] \in S /\ rest[i] = all[e[i]]
    BY <1>9
  <2>. QED
    BY <1>4, <1>5, <1>8, <2>1
<1>11. Plus(b) <= amount /\ Plus(b) \in Int
  <2>1. Lists(b, a, S)
    BY <1>8, <1>9, <1>10 DEF Lists
  <2>2. Plus(b) = Plus(Masked(a, n, S))
    BY <1>1, <1>4, <1>8, <2>1, PlusListed
  <2>3. Masked(a, n, S) \in [1..n -> Int] /\ \A i \in 1..n : Masked(a, n, S)[i] <= a[i]
    BY <1>1 DEF Masked
  <2>. DEFINE c == Masked(a, n, S)
  <2>4. Plus(c) <= Plus(a)
    <3>1. c \in [1..n -> Int] /\ \A i \in 1..n : c[i] <= a[i]
      BY <2>3
    <3>. HIDE DEF c
    <3>. QED
      BY <1>1, <3>1, PlusMonotone
  <2>5. Plus(b) \in Int
    BY <1>8, PlusType
  <2>. QED
    BY <1>1, <2>2, <2>4, <2>5
<1>12. Sound(rest, Plus(b), least, PS)
  <2>1. \A i \in 1..m : rest[i].allocated >= least
    BY <1>1, <1>10
  <2>2. ASSUME NEW i \in 1..m, NEW j \in 1..m, i # j
        PROVE  Signature(rest[i].route) # Signature(rest[j].route)
    <3>1. e[i] # e[j] /\ e[i] \in 1..n /\ e[j] \in 1..n
      BY <1>9, <1>10, <2>2
    <3>2. rest[i].route = routes[e[i]] /\ rest[j].route = routes[e[j]]
      BY <1>10
    <3>. QED
      BY <3>1, <3>2 DEF Distinct, n
  <2>. QED
    BY <1>7, <2>1, <2>2 DEF Sound, m, b
<1>. QED
  BY <1>3, <1>11, <1>12, StartedFacts

(* So whatever it returns divides the whole amount, from any start that    *)
(* does.                                                                   *)
LEMMA OptimizedFacts ==
  ASSUME NEW PS \in SUBSET GoodPools, NEW amount \in Nat,
         NEW routes \in Seq(QuoteSet(PS)), Distinct(routes),
         NEW a, Shares(a, Len(routes), amount, Floor(amount))
  PROVE  SoundSplit(Optimized(routes, amount, a), amount, PS)
<1>. DEFINE least == Floor(amount)
            s == Start(routes, amount, a)
            t == ImprovedAll(s, amount)
            u == StrengthenedAll(t, amount)
<1>1. CASE Len(routes) < 2 \/ amount <= 0
  BY <1>1 DEF Optimized, SoundSplit
<1>2. CASE ~(Len(routes) < 2 \/ amount <= 0)
  <2>1. Optimized(routes, amount, a) = u.legs
    BY <1>2 DEF Optimized
  <2>2. least \in Nat /\ least <= MinAllocation(amount)
    BY FloorFacts
  <2>3. SoundState(s, amount, least, PS)
    <3>1. least \in Int
      BY <2>2
    <3>. QED
      BY <3>1, StartFacts
  <2>. HIDE DEF s, least
  <2>4. SoundState(t, amount, least, PS)
    BY <2>2, <2>3, ImprovedAllFacts
  <2>. HIDE DEF t
  <2>5. SoundState(u, amount, least, PS)
    BY <2>2, <2>4, StrengthenedAllFacts
  <2>. HIDE DEF u
  <2>6. CASE u = Failed
    BY <2>1, <2>6 DEF SoundSplit, Failed
  <2>7. CASE u # Failed
    BY <2>5, <2>1, <2>7 DEF SoundSplit, SoundState, least
  <2>. QED
    BY <2>6, <2>7
<1>. QED
  BY <1>1, <1>2

(* n equal parts are no less than that.                                    *)
FewEnough(n) == SureRatio * n <= 10000

(* Equal parts are the whole amount, none below what every leg carries.    *)
LEMMA EqualPartsFacts ==
  ASSUME NEW n \in Nat \ {0}, NEW amount \in Nat, FewEnough(n)
  PROVE  Shares(EqualParts(n, amount), n, amount, Floor(amount))
<1>. DEFINE q == amount \div n
            rest == (n - 1) * q
            a == EqualParts(n, amount)
            least == Floor(amount)
<1>1. SureRatio \in Nat /\ least \in Nat /\ q \in Nat /\ q * n <= amount
  BY FloorFacts, DivFacts
<1>2. least <= q
  <2>1. (amount * SureRatio) * n <= amount * 10000
    <3>1. SureRatio * n \in Nat
      BY <1>1, TimesFacts
    <3>2. amount * (SureRatio * n) <= amount * 10000
      BY <3>1, TimesMonotone DEF FewEnough
    <3>3. amount * (SureRatio * n) = (amount * SureRatio) * n
      BY <1>1
    <3>. QED
      BY <3>2, <3>3
  <2>2. amount * SureRatio \in Nat /\ 10000 \in Nat \ {0}
    BY <1>1, TimesFacts
  <2>. QED
    BY <2>1, <2>2, DivMonotone DEF Floor
<1>. HIDE DEF q, least
<1>3. rest \in Nat /\ amount - rest >= q
  <2>1. rest = q * n - q
    BY <1>1
  <2>2. rest \in Nat /\ q * n \in Nat
    <3>1. n - 1 \in Nat
      OBVIOUS
    <3>. QED
      BY <1>1, <3>1, TimesFacts
  <2>. HIDE DEF rest
  <2>. QED
    BY <1>1, <2>1, <2>2
<1>4. a = [i \in 1..n |-> IF i = n THEN amount - rest ELSE q]
  BY DEF EqualParts, q
<1>. HIDE DEF a
<1>5. a \in [1..n -> Nat] /\ \A i \in 1..n : a[i] >= q
  <2>. HIDE DEF rest
  <2>. QED
    BY <1>1, <1>3, <1>4
<1>6. Plus(a) = amount
  <2>. DEFINE t == [i \in 1..(n - 1) |-> a[i]]
  <2>1. n - 1 \in Nat /\ n \in 1..n /\ a \in [1..n -> Int] /\ q \in Int
    BY <1>1, <1>5
  <2>2. t \in [1..(n - 1) -> Int] /\ \A i \in 1..(n - 1) : t[i] = q
    BY <1>1, <1>4, <1>5
  <2>3. Plus(a) = Plus(t) + a[n]
    BY <2>1, PlusLast
  <2>. HIDE DEF t
  <2>4. Plus(t) = rest
    BY <2>1, <2>2, PlusConstant
  <2>5. a[n] = amount - rest
    BY <1>4
  <2>. HIDE DEF rest
  <2>. QED
    BY <1>3, <2>3, <2>4, <2>5
<1>7. \A i \in 1..n : a[i] >= least
  BY <1>1, <1>2, <1>5
<1>. QED
  BY <1>5, <1>6, <1>7 DEF Shares, a, least

(* The greedy start takes no more than the whole, and the equal share is   *)
(* no less than what every leg carries.                                    *)
LEMMA EqualShareFacts ==
  ASSUME NEW n \in Nat \ {0}, NEW amount \in Nat, FewEnough(n)
  PROVE  /\ EqualShare(n, amount) \in Nat /\ EqualShare(n, amount) >= Floor(amount)
         /\ n * EqualShare(n, amount) <= amount
<1>. DEFINE k == 10000 \div n
            share == (amount * k) \div 10000
<1>1. 10000 \in Nat /\ 10000 \in Nat \ {0} /\ SureRatio \in Nat
  BY FloorFacts
<1>2. k \in Nat /\ k * n <= 10000 /\ SureRatio <= k
  BY <1>1, DivFacts, DivBounds DEF FewEnough
<1>. HIDE DEF k
<1>3. /\ amount * k \in Nat /\ amount * SureRatio \in Nat /\ amount * SureRatio <= amount * k
      /\ k * n \in Nat
  BY <1>1, <1>2, TimesFacts, TimesMonotone
<1>4. share \in Nat /\ share * 10000 <= amount * k
  BY <1>1, <1>3, DivFacts
<1>5. Floor(amount) <= share
  <2>1. (amount * SureRatio) * 10000 <= (amount * k) * 10000
    BY <1>1, <1>3, TimesMonotone
  <2>. QED
    BY <1>1, <1>3, <2>1, DivMonotone DEF Floor
<1>. HIDE DEF share
<1>6. n * share <= amount
  <2>1. n * share \in Nat /\ share * 10000 \in Nat
    BY <1>1, <1>4, TimesFacts
  <2>2. (share * 10000) * n <= (amount * k) * n
    BY <1>3, <1>4, <2>1, TimesMonotone
  <2>3. (amount * k) * n = amount * (k * n)
    BY <1>2
  <2>4. amount * (k * n) <= amount * 10000
    BY <1>1, <1>2, <1>3, TimesMonotone
  <2>5. (share * 10000) * n = (n * share) * 10000
    BY <1>4
  <2>6. (n * share) * 10000 <= amount * 10000
    <3>1. /\ (share * 10000) * n \in Nat /\ (amount * k) * n \in Nat /\ amount * (k * n) \in Nat
          /\ amount * 10000 \in Nat
      BY <1>1, <1>3, <2>1, TimesFacts
    <3>. QED
      BY <2>2, <2>3, <2>4, <2>5, <3>1
  <2>. DEFINE x == n * share
  <2>7. x \in Nat /\ x * 10000 <= amount * 10000
    BY <2>1, <2>6
  <2>. HIDE DEF x
  <2>8. x <= amount
    BY <2>7
  <2>. QED
    BY <2>8 DEF x
<1>. QED
  BY <1>4, <1>5, <1>6 DEF EqualShare, share, k

(* What the others do not take stays with the first.                       *)
LEMMA GreedyAllocationsFacts ==
  ASSUME NEW n \in Nat \ {0}, NEW amount \in Nat, NEW share \in Nat, NEW least \in Nat,
         least <= share, n * share <= amount
  PROVE  Shares(GreedyAllocations(n, amount, share), n, amount, least)
<1>. DEFINE rest == (n - 1) * share
            a == GreedyAllocations(n, amount, share)
            c == [i \in 1..n |-> share]
<1>1. rest \in Nat /\ n * share \in Nat /\ rest = n * share - share /\ amount - rest >= share
  <2>1. n - 1 \in Nat /\ rest = n * share - share
    OBVIOUS
  <2>2. rest \in Nat /\ n * share \in Nat
    BY <2>1, TimesFacts
  <2>. DEFINE x == n * share
  <2>3. x \in Nat /\ x <= amount /\ rest = x - share
    BY <2>1, <2>2
  <2>. HIDE DEF x, rest
  <2>4. amount - rest >= share
    BY <2>2, <2>3
  <2>. QED
    BY <2>1, <2>2, <2>4
<1>2. a = [i \in 1..n |-> IF i = 1 THEN amount - rest ELSE share]
  BY DEF GreedyAllocations
<1>. HIDE DEF rest, a
<1>3. a \in [1..n -> Nat] /\ \A i \in 1..n : a[i] >= least
  BY <1>1, <1>2
<1>4. c \in [1..n -> Int] /\ (\A i \in 1..n : c[i] = share) /\ a \in [1..n -> Int] /\ Besides(c, a, n, 1)
      /\ 1 \in 1..n /\ share \in Int
  BY <1>2, <1>3 DEF Besides
<1>. HIDE DEF c
<1>5. Plus(c) = n * share
  BY <1>4, PlusConstant
<1>6. Plus(a) = Plus(c) - c[1] + a[1]
  BY <1>4, PlusUpdate
<1>7. c[1] = share /\ a[1] = amount - rest
  BY <1>2, <1>4
<1>8. Plus(a) = amount
  <2>. DEFINE x == n * share
  <2>1. x \in Nat /\ rest = x - share /\ Plus(a) = x - share + (amount - rest)
    BY <1>1, <1>5, <1>6, <1>7
  <2>. HIDE DEF x
  <2>. QED
    BY <1>1, <2>1
<1>. QED
  BY <1>3, <1>8 DEF Shares, a

(* Some of the routes.                                                     *)
LEMMA SomeRoutes ==
  ASSUME NEW routes, Distinct(routes), NEW S \in SUBSET (1..Len(routes)),
         NEW rest, Lists(rest, routes, S)
  PROVE  Distinct(rest)
<1>. DEFINE m == Len(rest)
<1>1. PICK e \in [1..m -> S] :
        /\ \A i, j \in 1..m : e[i] = e[j] => i = j
        /\ \A x \in S : \E i \in 1..m : e[i] = x
        /\ \A i \in 1..m : rest[i] = routes[e[i]]
  BY Zenon DEF Lists
<1>2. ASSUME NEW i \in 1..m, NEW j \in 1..m, i # j
      PROVE  Signature(rest[i]) # Signature(rest[j])
  <2>1. e[i] \in 1..Len(routes) /\ e[j] \in 1..Len(routes) /\ e[i] # e[j]
        /\ rest[i] = routes[e[i]] /\ rest[j] = routes[e[j]]
    BY <1>1, <1>2
  <2>. QED
    BY <2>1 DEF Distinct
<1>. QED
  BY <1>2 DEF Distinct

(* The first of the routes.                                                *)
LEMMA FirstRoutes ==
  ASSUME NEW V, NEW routes \in Seq(V), Distinct(routes), NEW n \in Nat
  PROVE  Distinct(UpTo(routes, n))
<1>. DEFINE t == UpTo(routes, n)
<1>1. \A i \in 1..Len(t) : i \in 1..Len(routes) /\ t[i] = routes[i]
  BY UpToFacts
<1>. HIDE DEF t
<1>2. Distinct(t)
  BY <1>1 DEF Distinct
<1>. QED
  BY <1>2 DEF t

(* Candidates with the same sequence of pools are taken once.              *)
LEMMA DeduplicatedFacts ==
  ASSUME NEW PS \in SUBSET GoodPools, NEW candidates \in Seq(QuoteSet(PS))
  PROVE  /\ Deduplicated(candidates) \in Seq(QuoteSet(PS)) /\ Distinct(Deduplicated(candidates))
         /\ Len(Deduplicated(candidates)) <= MaxRoutes
<1>. DEFINE seen(i) == \E j \in 1..(i - 1) : Signature(candidates[j]) = Signature(candidates[i])
            S == {i \in DOMAIN candidates : ~seen(i)}
            rest == Picked(candidates, S)
            n == Len(candidates)
<1>1. n \in Nat /\ DOMAIN candidates = 1..n /\ S \in SUBSET (1..n)
  BY LenProperties
<1>2. \A i, j \in S : j < i => Signature(candidates[j]) # Signature(candidates[i])
  <2>1. ASSUME NEW i \in S, NEW j \in S, j < i PROVE Signature(candidates[j]) # Signature(candidates[i])
    <3>1. ~seen(i)
      OBVIOUS
    <3>. HIDE DEF S
    <3>2. i \in 1..n /\ j \in 1..n
      BY <1>1
    <3>. HIDE DEF n
    <3>3. j \in 1..(i - 1)
      BY <1>1, <2>1, <3>2
    <3>. QED
      BY <3>1, <3>3, Zenon
  <2>. QED
    BY <2>1
<1>3. Deduplicated(candidates) = UpTo(rest, MaxRoutes)
  BY DEF Deduplicated
<1>. HIDE DEF S
<1>4. rest \in Seq(QuoteSet(PS)) /\ Lists(rest, candidates, S)
  BY <1>1, PickedFacts
<1>. HIDE DEF rest
<1>5. Distinct(rest)
  <2>. DEFINE m == Len(rest)
  <2>1. PICK e \in [1..m -> S] :
          /\ \A i, j \in 1..m : e[i] = e[j] => i = j
          /\ \A x \in S : \E i \in 1..m : e[i] = x
          /\ \A i \in 1..m : rest[i] = candidates[e[i]]
    BY <1>4, Zenon DEF Lists
  <2>2. ASSUME NEW i \in 1..m, NEW j \in 1..m, i # j
        PROVE  Signature(rest[i]) # Signature(rest[j])
    <3>1. e[i] \in S /\ e[j] \in S /\ e[i] # e[j]
          /\ rest[i] = candidates[e[i]] /\ rest[j] = candidates[e[j]]
      BY <2>1, <2>2
    <3>. DEFINE x == e[i]
                y == e[j]
    <3>2. x \in S /\ y \in S /\ x # y /\ rest[i] = candidates[x] /\ rest[j] = candidates[y]
      BY <3>1
    <3>. HIDE DEF x, y
    <3>3. x \in 1..n /\ y \in 1..n
      BY <1>1, <3>2
    <3>. HIDE DEF n
    <3>4. x < y \/ y < x
      BY <1>1, <3>2, <3>3
    <3>. QED
      BY <1>2, <3>2, <3>4
  <2>. QED
    BY <2>2 DEF Distinct
<1>6. MaxRoutes \in Nat
  BY SplitAssumption
<1>. QED
  BY <1>3, <1>4, <1>5, <1>6, UpToFacts, FirstRoutes

(* The greedy start's split is sound.                                      *)
LEMMA GreedyFacts ==
  ASSUME NEW PS \in SUBSET GoodPools, NEW amount \in Nat, NEW routes \in Seq(QuoteSet(PS)),
         Distinct(routes), Len(routes) >= 1, FewEnough(Len(routes))
  PROVE  SoundSplit(Greedy(routes, amount, EqualShare(Len(routes), amount)), amount, PS)
<1>. DEFINE n == Len(routes)
            share == EqualShare(n, amount)
            least == Floor(amount)
            key == Each(routes, LAMBDA r : r.amountOut)
            sorted == Descending(routes, key)
            S == {i \in DOMAIN sorted : i = 1 \/ Recomputed(sorted[i], share) # None}
            rest == Picked(sorted, S)
            m == Len(rest)
            a == GreedyAllocations(m, amount, share)
<1>1. n \in Nat \ {0} /\ DOMAIN routes = 1..n /\ \A i \in 1..n : routes[i] \in QuoteSet(PS)
  BY LenProperties
<1>2. share \in Nat /\ least <= share /\ n * share <= amount /\ least \in Nat
  <2>1. FewEnough(n) /\ n \in Nat \ {0}
    BY <1>1
  <2>. HIDE DEF n
  <2>2. share \in Nat /\ share >= least /\ n * share <= amount
    BY <2>1, EqualShareFacts
  <2>3. least \in Nat
    BY FloorType
  <2>. HIDE DEF share, least
  <2>. QED
    BY <2>2, <2>3
<1>3. key \in [1..n -> Int]
  <2>. DEFINE k == [i \in DOMAIN routes |-> routes[i].amountOut]
  <2>1. key = << >> \o k
    BY DEF Each
  <2>2. k \in [1..n -> Int]
    BY <1>1, QuoteFields
  <2>. HIDE DEF k, n
  <2>. QED
    BY <1>1, <2>1, <2>2, Listing
<1>. HIDE DEF key, share, least
<1>4. sorted \in Seq(QuoteSet(PS)) /\ Len(sorted) = n /\ Lists(sorted, routes, 1..n)
  BY <1>3, DescendingFacts
<1>. HIDE DEF sorted
<1>5. Distinct(sorted)
  <2>1. 1..n \in SUBSET (1..Len(routes))
    OBVIOUS
  <2>. QED
    BY <1>4, <2>1, SomeRoutes
<1>6. rest \in Seq(QuoteSet(PS)) /\ m \in Nat /\ m <= n /\ Distinct(rest)
  <2>1. DOMAIN sorted = 1..n /\ S \in SUBSET (1..Len(sorted))
    BY <1>1, <1>4, LenProperties
  <2>. HIDE DEF S
  <2>2. rest \in Seq(QuoteSet(PS)) /\ m = Cardinality(S) /\ m \in Nat /\ Lists(rest, sorted, S)
    BY <1>4, <2>1, PickedFacts
  <2>3. Cardinality(S) <= n
    <3>1. IsFiniteSet(1..n) /\ Cardinality(1..n) = n
      <4>1. IsFiniteSet(1..n) /\ Cardinality(1..n) = IF 1 > n THEN 0 ELSE n - 1 + 1
        BY <1>1, FS_Interval
      <4>. QED
        BY <1>1, <4>1
    <3>. DEFINE T == 1..n
    <3>2. IsFiniteSet(T) /\ S \subseteq T
      BY <1>4, <2>1, <3>1
    <3>. HIDE DEF T
    <3>3. Cardinality(S) <= Cardinality(T)
      BY <3>2, FS_Subset
    <3>. QED
      BY <3>1, <3>3 DEF T
  <2>. QED
    BY <1>5, <2>1, <2>2, <2>3, SomeRoutes
<1>7. Greedy(routes, amount, EqualShare(Len(routes), amount)) = GreedyWith(rest, amount, share)
  BY DEF Greedy, PayingRoutes, rest, sorted, key, share
<1>. HIDE DEF rest, m, n
<1>8. CASE share <= 0 \/ m < 2 \/ Recomputed(rest[1], a[1]) = None
  BY <1>7, <1>8 DEF GreedyWith, FromGreedy, SoundSplit, m
<1>9. CASE ~(share <= 0 \/ m < 2 \/ Recomputed(rest[1], a[1]) = None)
  <2>1. GreedyWith(rest, amount, share) = Optimized(rest, amount, a)
    BY <1>9 DEF GreedyWith, FromGreedy, m
  <2>2. m \in Nat \ {0} /\ m * share <= amount
    <3>1. m * share <= n * share /\ m * share \in Nat /\ n * share \in Nat
      BY <1>1, <1>2, <1>6, TimesMonotone, TimesFacts
    <3>2. m \in Nat \ {0}
      BY <1>6, <1>9
    <3>. QED
      BY <1>2, <3>1, <3>2
  <2>3. Shares(a, m, amount, least)
    BY <1>2, <2>2, GreedyAllocationsFacts
  <2>. HIDE DEF a
  <2>4. SoundSplit(Optimized(rest, amount, a), amount, PS)
    BY <1>6, <2>3, OptimizedFacts DEF m, least
  <2>. QED
    BY <1>7, <2>1, <2>4
<1>. QED
  BY <1>8, <1>9

-----------------------------------------------------------------------------
(* Shares of the whole.                                                    *)

(* What carries at least that carries a ten-thousandth.                    *)
LEMMA ShareFloor ==
  ASSUME NEW total \in Nat \ {0}, NEW part \in Nat \ {0}, part >= Floor(total)
  PROVE  total <= part * 10000
<1>. DEFINE least == Floor(total)
            x == total * SureRatio
<1>1. SureRatio \in Nat /\ SureRatio >= 2
  BY FloorFacts
<1>2. x \in Nat /\ x >= 2 * total
  <2>1. x \in Nat
    BY <1>1, TimesFacts
  <2>2. total * 2 <= total * SureRatio
    BY <1>1, TimesMonotone
  <2>. QED
    BY <2>1, <2>2
<1>3. least = x \div 10000
  BY DEF Floor
<1>. HIDE DEF x, least
<1>4. least \in Nat /\ x < least * 10000 + 10000
  BY <1>2, <1>3, DivFacts
<1>5. least <= part
  BY DEF least
<1>. QED
  BY <1>2, <1>4, <1>5

(* r is the parts b of a whole out of ten thousand, the last takes what is *)
(* left.                                                                   *)
Parts(n, a, total, b, r) ==
  /\ Plus(a) = total /\ r[n] = 10000 - Plus(b)
  /\ \A i \in 1..n : a[i] >= Floor(total)
  /\ \A i \in 1..(n - 1) : b[i] = (a[i] * 10000) \div total /\ r[i] = b[i]

Whole(n, r) == Plus(r) = 10000 /\ \A i \in 1..n : r[i] > 0

(* Each share is positive, the last too: the others, rounded down, leave   *)
(* it at least its part.                                                   *)
LEMMA PartsOfWhole ==
  ASSUME NEW n \in Nat \ {0}, NEW a \in [1..n -> Nat \ {0}], NEW total \in Nat \ {0},
         NEW b \in [1..(n - 1) -> Int], NEW r \in [1..n -> Int], Parts(n, a, total, b, r)
  PROVE  Whole(n, r)
<1>. DEFINE c == [i \in 1..(n - 1) |-> a[i]]
            d == [i \in 1..(n - 1) |-> r[i]]
            m == n - 1
<1>0. /\ Plus(a) = total /\ r[n] = 10000 - Plus(b)
      /\ \A i \in 1..n : a[i] >= Floor(total)
      /\ \A i \in 1..(n - 1) : b[i] = (a[i] * 10000) \div total /\ r[i] = b[i]
  BY DEF Parts
<1>1. /\ m \in Nat /\ c \in [1..m -> Int] /\ b \in [1..m -> Int] /\ d = b
      /\ total \in Int /\ 10000 \in Int
  BY <1>0
<1>2. Plus(r) = Plus(d) + r[n]
  BY PlusLast, Zenon
<1>3. Plus(b) \in Int
  BY <1>1, PlusType
<1>4. Plus(r) = 10000
  <2>. HIDE DEF d
  <2>. QED
    BY <1>0, <1>1, <1>2, <1>3
<1>5. \A i \in 1..m : a[i] * 10000 \in Nat /\ b[i] * total <= a[i] * 10000 /\ b[i] >= 1
  <2>1. ASSUME NEW i \in 1..m
        PROVE  a[i] * 10000 \in Nat /\ b[i] * total <= a[i] * 10000 /\ b[i] >= 1
    <3>. DEFINE x == a[i]
                y == x * 10000
    <3>1. x \in Nat \ {0} /\ x >= Floor(total) /\ b[i] = y \div total
      BY <1>0
    <3>. HIDE DEF x
    <3>2. total <= y /\ y \in Nat
      BY <3>1, ShareFloor
    <3>. HIDE DEF y
    <3>3. (y \div total) * total <= y
      BY <3>2, DivFacts
    <3>4. 1 <= y \div total
      <4>1. 1 \in Nat /\ 1 * total <= y
        BY <3>2
      <4>. QED
        BY <3>2, <4>1, DivBounds, Zenon
    <3>. QED
      BY <3>1, <3>2, <3>3, <3>4 DEF x, y
  <2>. HIDE DEF m
  <2>. QED
    BY <2>1
<1>6. Plus(b) * total <= Plus(c) * 10000
  <2>1. \A i \in 1..m : b[i] * total <= c[i] * 10000
    BY <1>5
  <2>. DEFINE unit == 10000
  <2>2. unit \in Int /\ \A i \in 1..m : b[i] * total <= c[i] * unit
    BY <2>1
  <2>3. m \in Nat /\ c \in [1..m -> Int] /\ b \in [1..m -> Int] /\ total \in Int
    BY <1>1
  <2>. HIDE DEF c, m, unit
  <2>4. Plus(b) * total <= Plus(c) * unit
    BY <2>2, <2>3, PlusScaled, Zenon
  <2>. QED
    BY <2>4 DEF unit
<1>7. total = Plus(c) + a[n] /\ Plus(c) \in Int
  <2>1. a \in [1..n -> Int]
    OBVIOUS
  <2>2. Plus(a) = Plus(c) + a[n]
    BY <2>1, PlusLast, Zenon
  <2>3. Plus(c) \in Int
    <3>. HIDE DEF c, m
    <3>. QED
      BY <1>1, PlusType
  <2>. QED
    BY <1>0, <2>2, <2>3
<1>8. Plus(c) < total
  <2>1. a[n] \in Nat \ {0}
    OBVIOUS
  <2>. HIDE DEF c
  <2>. QED
    BY <1>7, <2>1
<1>9. Plus(b) < 10000
  <2>. DEFINE x == Plus(b)
              y == Plus(c)
  <2>1. x \in Int /\ y \in Int /\ x * total <= y * 10000 /\ y < total
    BY <1>3, <1>6, <1>7, <1>8
  <2>. HIDE DEF x, y
  <2>2. x >= 10000 => 10000 * total <= x * total
    <3>1. ASSUME x >= 10000 PROVE 10000 * total <= x * total
      BY <2>1, <3>1, TimesMonotone
    <3>. QED
      BY <3>1
  <2>3. x * total \in Int
    BY <2>1, TimesSum
  <2>. DEFINE z == x * total
  <2>4. z \in Int /\ z <= y * 10000 /\ (x >= 10000 => 10000 * total <= z)
    BY <2>1, <2>2, <2>3
  <2>. HIDE DEF z
  <2>5. x < 10000
    BY <2>1, <2>4
  <2>. QED
    BY <2>5 DEF x
<1>10. ASSUME NEW i \in 1..n PROVE r[i] > 0
  <2>1. CASE i = n
    BY <1>0, <1>3, <1>9, <2>1
  <2>2. CASE i # n
    <3>1. i \in 1..m
      BY <2>2
    <3>2. b[i] >= 1
      <4>. HIDE DEF m
      <4>. QED
        BY <1>5, <3>1
    <3>3. r[i] = b[i] /\ b[i] \in Int
      BY <1>0, <3>1
    <3>. QED
      BY <3>2, <3>3
  <2>. QED
    BY <2>1, <2>2
<1>. QED
  BY <1>4, <1>10 DEF Whole

(* So buildSplitResult's shares make up 10000, and none is zero.           *)
LEMMA RatiosFacts ==
  ASSUME NEW PS \in SUBSET GoodPools, NEW amount \in Nat \ {0}, NEW legs,
         Len(legs) >= 1, Sound(legs, amount, Floor(amount), PS)
  PROVE  /\ Ratios(legs) \in [1..Len(legs) -> Nat \ {0}]
         /\ Whole(Len(legs), Ratios(legs))
<1>. DEFINE n == Len(legs)
            a == Allocations(legs)
            b == [i \in 1..(n - 1) |-> (a[i] * 10000) \div amount]
            r == Ratios(legs)
<1>1. /\ n \in Nat /\ DOMAIN legs = 1..n /\ Allocated(legs) = amount
      /\ Plus(a) = amount
      /\ \A i \in 1..n : legs[i] \in Legs(PS) /\ a[i] = legs[i].allocated
                         /\ legs[i].allocated >= Floor(amount)
  BY AllocatedFacts DEF Sound
<1>2. n \in Nat \ {0}
  BY <1>1
<1>3. a \in [1..n -> Nat \ {0}] /\ \A i \in 1..n : a[i] >= Floor(amount)
  <2>1. \A i \in 1..n : legs[i].allocated \in Nat \ {0}
    BY <1>1, LegFields
  <2>2. a \in [1..n -> Nat \ {0}]
    BY <2>1 DEF Allocations
  <2>. QED
    BY <1>1, <2>2
<1>4. r = [i \in 1..n |-> IF i = n THEN 10000 - Plus([j \in 1..(i - 1) |-> (legs[j].allocated * 10000) \div amount])
                          ELSE (legs[i].allocated * 10000) \div amount]
  <2>. DEFINE tot == Plus(Each(legs, LAMBDA l : l.allocated))
  <2>1. tot = amount
    BY <1>1 DEF Allocated
  <2>2. r = [i \in DOMAIN legs |->
               IF i = Len(legs) THEN 10000 - Plus([j \in 1..(i - 1) |-> (legs[j].allocated * 10000) \div tot])
               ELSE (legs[i].allocated * 10000) \div tot]
    BY DEF Ratios
  <2>. HIDE DEF tot, r
  <2>. QED
    BY <1>1, <2>1, <2>2
<1>5. \A i \in 1..(n - 1) : i \in 1..n /\ a[i] = legs[i].allocated /\ a[i] \in Nat
  <2>1. \A i \in 1..(n - 1) : i \in 1..n
    BY <1>1
  <2>. HIDE DEF a, n
  <2>. QED
    BY <1>1, <1>3, <2>1
<1>. HIDE DEF a, r, n
<1>6. \A i \in 1..(n - 1) : (a[i] * 10000) \div amount \in Nat
  <2>1. \A i \in 1..(n - 1) : a[i] * 10000 \in Nat
    BY <1>5
  <2>. QED
    BY <2>1, DivFacts
<1>7. b \in [1..(n - 1) -> Int] /\ \A i \in 1..(n - 1) : b[i] = (a[i] * 10000) \div amount
  BY <1>6
<1>8. b = [j \in 1..(n - 1) |-> (legs[j].allocated * 10000) \div amount]
  BY <1>5
<1>9. r[n] = 10000 - Plus(b)
  BY <1>2, <1>4, <1>8
<1>10. \A i \in 1..(n - 1) : r[i] = b[i]
  BY <1>1, <1>4, <1>5, <1>7
<1>. HIDE DEF b
<1>11. r \in [1..n -> Int]
  <2>1. n - 1 \in Nat /\ Plus(b) \in Int
    BY <1>2, <1>7, PlusType
  <2>2. \A i \in 1..n : r[i] \in Int
    <3>1. \A i \in 1..n : i = n \/ i \in 1..(n - 1)
      BY <1>2
    <3>. QED
      BY <1>7, <1>9, <1>10, <2>1, <3>1
  <2>3. DOMAIN r = 1..n /\ r = [i \in 1..n |-> r[i]]
    BY <1>4
  <2>. QED
    BY <2>2, <2>3
<1>12. Whole(n, r)
  <2>1. Parts(n, a, amount, b, r)
    BY <1>1, <1>3, <1>7, <1>9, <1>10 DEF Parts
  <2>2. a \in [1..n -> Nat \ {0}] /\ b \in [1..(n - 1) -> Int] /\ r \in [1..n -> Int]
    BY <1>3, <1>7, <1>11
  <2>. QED
    BY <1>2, <2>1, <2>2, PartsOfWhole, Zenon
<1>. QED
  <2>1. r \in [1..n -> Nat \ {0}]
    BY <1>11, <1>12 DEF Whole
  <2>. QED
    BY <1>12, <2>1 DEF r, n

-----------------------------------------------------------------------------
(* The attempts of findBestSplit.                                          *)

Splits(amount, PS) == {legs \in Seq(Legs(PS)) : SoundSplit(legs, amount, PS)}

(* Membership in Splits.                                                   *)
LEMMA SplitsFacts ==
  ASSUME NEW PS \in SUBSET GoodPools, NEW amount \in Nat, NEW legs
  PROVE  legs \in Splits(amount, PS) <=> SoundSplit(legs, amount, PS)
<1>1. << >> \in Seq(Legs(PS))
  OBVIOUS
<1>. QED
  BY <1>1 DEF Splits, SoundSplit, Sound

(* Every pair has two routes.                                              *)
LEMMA PairsFacts ==
  ASSUME NEW n \in Nat
  PROVE  /\ Pairs(n) \in [1..Len(Pairs(n)) -> {p \in (1..n) \X (1..n) : p[1] < p[2]}]
         /\ Len(Pairs(n)) \in Nat
<1>. DEFINE S == {p \in (1..n) \X (1..n) : p[1] < p[2]}
            before(x, y) == x[1] < y[1] \/ (x[1] = y[1] /\ x[2] < y[2])
            R == {e \in S \X S : e[1][1] < e[2][1] \/ (e[1][1] = e[2][1] /\ e[1][2] < e[2][2])}
<1>1. IsFiniteSet(S)
  <2>. DEFINE D == 1..n
  <2>1. IsFiniteSet(D)
    BY FS_Interval
  <2>. HIDE DEF D
  <2>2. IsFiniteSet(D \X D)
    BY <2>1, FS_Product
  <2>3. S \subseteq D \X D
    BY DEF D
  <2>. HIDE DEF S
  <2>. QED
    BY <2>2, <2>3, FS_Subset
<1>2. \A x \in S : x[1] \in Int /\ x[2] \in Int /\ x = <<x[1], x[2]>>
  OBVIOUS
<1>3. \A x, y \in S : <<x, y>> \in R <=> before(x, y)
  <2>. HIDE DEF S
  <2>. QED
    OBVIOUS
<1>4. StrictOrder(S, R)
  <2>. HIDE DEF S, R
  <2>1. ASSUME NEW x \in S PROVE <<x, x>> \notin R
    BY <1>2, <1>3
  <2>2. ASSUME NEW x \in S, NEW y \in S, NEW z \in S, <<x, y>> \in R, <<y, z>> \in R
        PROVE  <<x, z>> \in R
    <3>1. before(x, y) /\ before(y, z)
      BY <1>3, <2>2
    <3>2. before(x, z)
      BY <1>2, <3>1
    <3>. QED
      BY <1>3, <3>2
  <2>3. ASSUME NEW x \in S, NEW y \in S PROVE x = y \/ <<x, y>> \in R \/ <<y, x>> \in R
    <3>1. x = y \/ before(x, y) \/ before(y, x)
      <4>1. x[1] \in Int /\ x[2] \in Int /\ y[1] \in Int /\ y[2] \in Int
        BY <1>2
      <4>2. x[1] = y[1] /\ x[2] = y[2] => x = y
        BY <1>2
      <4>. QED
        BY <4>1, <4>2
    <3>. QED
      BY <1>3, <3>1
  <2>. QED
    BY <2>1, <2>2, <2>3 DEF StrictOrder
<1>5. Pairs(n) = Enumerated(S, R)
  BY DEF Pairs
<1>. HIDE DEF S, R
<1>6. Cardinality(S) \in Nat /\ Pairs(n) \in [1..Cardinality(S) -> S]
  BY <1>1, <1>4, <1>5, EnumeratedFacts
<1>7. Len(Pairs(n)) = Cardinality(S)
  BY <1>6
<1>. QED
  BY <1>6, <1>7 DEF S

(* The split of several routes from equal parts is sound, ...              *)
LEMMA TogetherFacts ==
  ASSUME NEW PS \in SUBSET GoodPools, NEW amount \in Nat, NEW routes \in Seq(QuoteSet(PS)),
         Distinct(routes), Len(routes) >= 1, FewEnough(Len(routes))
  PROVE  SoundSplit(Optimized(routes, amount, EqualParts(Len(routes), amount)), amount, PS)
<1>. DEFINE n == Len(routes)
            a == EqualParts(n, amount)
<1>1. n \in Nat \ {0} /\ FewEnough(n)
  BY LenProperties
<1>. HIDE DEF n
<1>2. Shares(a, n, amount, Floor(amount))
  BY <1>1, EqualPartsFacts
<1>. HIDE DEF a
<1>3. SoundSplit(Optimized(routes, amount, a), amount, PS)
  BY <1>2, OptimizedFacts DEF n
<1>. QED
  BY <1>3 DEF a, n

(* ... and so is that of a pair, ...                                       *)
LEMMA TwoFacts ==
  ASSUME NEW PS \in SUBSET GoodPools, NEW amount \in Nat, NEW routes \in Seq(QuoteSet(PS)),
         Distinct(routes), NEW p \in (1..Len(routes)) \X (1..Len(routes)), p[1] < p[2]
  PROVE  SoundSplit(Optimized(<<routes[p[1]], routes[p[2]]>>, amount, EqualParts(2, amount)), amount, PS)
<1>. DEFINE two == <<routes[p[1]], routes[p[2]]>>
<1>1. p[1] \in 1..Len(routes) /\ p[2] \in 1..Len(routes) /\ p[1] # p[2]
  BY LenProperties
<1>2. routes[p[1]] \in QuoteSet(PS) /\ routes[p[2]] \in QuoteSet(PS)
      /\ Signature(routes[p[1]]) # Signature(routes[p[2]])
  BY <1>1 DEF Distinct
<1>3. two \in Seq(QuoteSet(PS)) /\ Len(two) = 2 /\ Distinct(two)
  BY <1>2 DEF Distinct
<1>4. FewEnough(2)
  BY FloorFacts DEF FewEnough
<1>. HIDE DEF two
<1>5. SoundSplit(Optimized(two, amount, EqualParts(2, amount)), amount, PS)
  <2>1. FewEnough(Len(two)) /\ Len(two) >= 1
    BY <1>3, <1>4
  <2>2. SoundSplit(Optimized(two, amount, EqualParts(Len(two), amount)), amount, PS)
    BY <1>3, <2>1, TogetherFacts
  <2>. QED
    BY <1>3, <2>2
<1>. QED
  BY <1>5 DEF two

(* The smaller of two numbers.                                             *)
LEMMA LeastFacts ==
  ASSUME NEW a \in Int, NEW b \in Int
  PROVE  Least(a, b) \in Int /\ Least(a, b) <= a /\ Least(a, b) <= b /\ Least(a, b) \in {a, b}
BY DEF Least

(* ... so every attempt of findBestSplit is.                               *)
LEMMA AttemptsFacts ==
  ASSUME NEW PS \in SUBSET GoodPools, NEW amount \in Nat, NEW routes \in Seq(QuoteSet(PS)),
         Distinct(routes)
  PROVE  Attempts(routes, amount) \in Seq(Splits(amount, PS))
<1>. DEFINE n == Len(routes)
            V == Splits(amount, PS)
            most == IF MaxSplitLegs > 2 THEN MaxSplitLegs ELSE 2
            limit == Least(most, MaxRoutes)
            two(p) == Optimized(<<routes[p[1]], routes[p[2]]>>, amount, EqualParts(2, amount))
            first == Each(Pairs(n), two)
            second == IF n < 3 \/ limit < 3 THEN << >> ELSE Together(UpTo(routes, limit), amount)
<1>1. n \in Nat /\ limit \in Nat /\ limit <= most
  <2>1. n \in Nat /\ most \in Nat /\ MaxRoutes \in Nat
    BY SplitAssumption, LenProperties
  <2>. HIDE DEF most
  <2>2. limit \in {most, MaxRoutes} /\ limit <= most
    BY <2>1 DEF Least
  <2>. HIDE DEF limit
  <2>. QED
    BY <2>1, <2>2
<1>2. first \in Seq(V)
  <2>. DEFINE m == Len(Pairs(n))
              g == [i \in DOMAIN Pairs(n) |-> two(Pairs(n)[i])]
  <2>1. m \in Nat /\ DOMAIN Pairs(n) = 1..m
        /\ \A i \in 1..m : Pairs(n)[i] \in (1..n) \X (1..n) /\ Pairs(n)[i][1] < Pairs(n)[i][2]
    BY <1>1, PairsFacts
  <2>2. \A i \in 1..m : two(Pairs(n)[i]) \in V
    <3>1. ASSUME NEW i \in 1..m PROVE two(Pairs(n)[i]) \in V
      <4>. DEFINE p == Pairs(n)[i]
      <4>1. p \in (1..n) \X (1..n) /\ p[1] < p[2]
        BY <2>1
      <4>. HIDE DEF p
      <4>2. SoundSplit(two(p), amount, PS)
        BY <4>1, TwoFacts
      <4>. HIDE DEF two
      <4>3. two(p) \in V
        BY <4>2, SplitsFacts
      <4>. QED
        BY <4>3 DEF p
    <3>. QED
      BY <3>1
  <2>3. first = << >> \o g
    BY DEF Each
  <2>. HIDE DEF V, two
  <2>4. g \in [1..m -> V]
    BY <2>1, <2>2
  <2>. HIDE DEF g, m
  <2>. QED
    BY <2>1, <2>3, <2>4, Listing
<1>3. second \in Seq(V)
  <2>1. CASE n < 3 \/ limit < 3
    BY <2>1
  <2>2. CASE ~(n < 3 \/ limit < 3)
    <3>. DEFINE some == UpTo(routes, limit)
    <3>1. limit = Least(MaxSplitLegs, MaxRoutes) /\ limit >= 3 /\ n >= 3
      <4>1. MaxSplitLegs \in Nat /\ MaxRoutes \in Nat
        BY SplitAssumption
      <4>2. limit >= 3 /\ n >= 3
        <5>. HIDE DEF limit, n
        <5>. QED
          BY <1>1, <2>2
      <4>3. most >= 3
        <5>1. most \in Nat
          BY <4>1
        <5>. HIDE DEF limit, most
        <5>. QED
          BY <1>1, <4>2, <5>1
      <4>4. most = MaxSplitLegs
        BY <4>1, <4>3
      <4>. QED
        BY <4>2, <4>4
    <3>2. some \in Seq(QuoteSet(PS)) /\ Distinct(some) /\ Len(some) \in Nat
          /\ Len(some) = Least(n, limit)
      BY <1>1, UpToFacts, FirstRoutes, LenProperties
    <3>. HIDE DEF some, limit
    <3>3. Len(some) <= limit /\ Len(some) >= 3
      <4>1. n >= 3 /\ limit >= 3
        BY <3>1
      <4>2. n \in Nat /\ limit \in Nat /\ Len(some) = Least(n, limit)
        BY <1>1, <3>2
      <4>. HIDE DEF n
      <4>. QED
        BY <4>1, <4>2 DEF Least
    <3>4. FewEnough(Len(some))
      <4>1. SureRatio \in Nat /\ SureRatio * limit <= 10000
        <5>1. CASE MinimumFits
          BY <3>1, <5>1, SplitAssumption DEF SureRatio, MinimumFits
        <5>2. CASE ~MinimumFits
          <6>1. limit \in Nat /\ limit <= MaxRoutes /\ MaxRoutes <= 5000 /\ MaxRoutes \in Nat
            <7>1. MaxSplitLegs \in Nat /\ MaxRoutes \in Nat /\ MaxRoutes <= 5000
              BY SplitAssumption
            <7>. QED
              BY <3>1, <7>1 DEF Least
          <6>2. SureRatio = 2
            BY <5>2 DEF SureRatio
          <6>. QED
            BY <6>1, <6>2
        <5>. QED
          BY <5>1, <5>2
      <4>2. SureRatio * Len(some) <= SureRatio * limit
        BY <1>1, <3>2, <3>3, <4>1, TimesMonotone
      <4>3. SureRatio * Len(some) \in Nat /\ SureRatio * limit \in Nat
        BY <1>1, <3>2, <4>1, TimesFacts
      <4>. QED
        BY <4>1, <4>2, <4>3 DEF FewEnough
    <3>5. Len(some) >= 1
      BY <3>2, <3>3
    <3>. DEFINE a == Optimized(some, amount, EqualParts(Len(some), amount))
                b == Greedy(some, amount, EqualShare(Len(some), amount))
    <3>6. SoundSplit(a, amount, PS) /\ SoundSplit(b, amount, PS)
      BY <3>2, <3>4, <3>5, TogetherFacts, GreedyFacts
    <3>7. second = <<a, b>>
      BY <2>2 DEF Together, some, limit
    <3>. HIDE DEF a, b
    <3>8. a \in V /\ b \in V
      BY <3>6, SplitsFacts
    <3>. HIDE DEF V, second
    <3>. QED
      BY <3>7, <3>8
  <2>. QED
    BY <2>1, <2>2
<1>4. Attempts(routes, amount) = first \o second
  BY DEF Attempts
<1>. HIDE DEF first, second, V
<1>5. Attempts(routes, amount) \in Seq(V)
  BY <1>2, <1>3, <1>4
<1>. QED
  BY <1>5 DEF V

(* The preferred attempt is one of them, or nothing.                       *)
LEMMA PreferredFacts ==
  ASSUME NEW V, << >> \in V, NEW attempts \in Seq(V)
  PROVE  Preferred(attempts) \in V
<1>. DEFINE n == Len(attempts)
            Next_(k, v) == IF attempts[k] # << >> /\ TotalOut(attempts[k]) > TotalOut(v)
                           THEN attempts[k] ELSE v
            Body(f) == [k \in 0..n |-> IF k = 0 THEN << >> ELSE Next_(k, f[k - 1])]
            G == [k \in 1..n |-> [v \in V |-> Next_(k, v)]]
<1>1. n \in Nat /\ \A k \in 1..n : attempts[k] \in V
  BY LenProperties
<1>2. \A k \in 1..n : \A v \in V : Next_(k, v) \in V
  BY <1>1
<1>3. Preferred(attempts) = (CHOOSE f : f = Body(f))[n]
  BY DEF Preferred
<1>. HIDE DEF Next_, n
<1>4. G \in [1..n -> [V -> V]]
  BY <1>2
<1>5. PICK g \in [0..n -> V] : Stepwise(g, n, << >>, G)
  <2>. HIDE DEF G
  <2>. QED
    BY <1>1, <1>4, StepsExist, Zenon
<1>6. g = Body(g)
  <2>1. ASSUME NEW k \in 0..n PROVE g[k] = IF k = 0 THEN << >> ELSE Next_(k, g[k - 1])
    <3>1. CASE k = 0
      BY <1>5, <3>1 DEF Stepwise
    <3>2. CASE k # 0
      <4>1. k \in 1..n /\ k - 1 \in 0..n
        BY <1>1, <3>2
      <4>2. g[k] = G[k][g[k - 1]]
        <5>. HIDE DEF G
        <5>. QED
          BY <1>5, <4>1 DEF Stepwise
      <4>3. g[k - 1] \in V
        BY <4>1
      <4>. QED
        BY <3>2, <4>1, <4>2, <4>3
    <3>. QED
      BY <3>1, <3>2
  <2>. QED
    BY <2>1
<1>7. PICK p : p = CHOOSE f : f = Body(f)
  OBVIOUS
<1>8. p = Body(p)
  <2>. HIDE DEF Body
  <2>. QED
    BY <1>6, <1>7
<1>9. \A k \in 0..n : p[k] = IF k = 0 THEN << >> ELSE Next_(k, p[k - 1])
  BY <1>8
<1>10. Preferred(attempts) = p[n]
  BY <1>3, <1>7
<1>. HIDE DEF Body
<1>. DEFINE S == {k \in 0..n : p[k] \in V}
<1>11. 0 \in S
  BY <1>1, <1>9
<1>12. ASSUME NEW k \in 1..n, k - 1 \in S PROVE k \in S
  <2>1. k \in 0..n /\ k # 0 /\ p[k - 1] \in V
    BY <1>1, <1>12
  <2>. QED
    BY <1>2, <1>9, <2>1
<1>13. n \in S
  <2>. HIDE DEF S
  <2>1. \A k \in 0..n : k \in S
    BY <1>1, <1>11, <1>12, Counting
  <2>. QED
    BY <1>1, <2>1
<1>. QED
  BY <1>10, <1>13

-----------------------------------------------------------------------------
(* The split.                                                              *)

AmountsIn(legs) == [i \in DOMAIN legs |-> legs[i].amountIn]
AmountsOut(legs) == [i \in DOMAIN legs |-> legs[i].amountOut]

(* A split of amount over different routes.                                *)
Divided(s, amount, PS) ==
  /\ s \in [amountIn : Nat, amountOut : Int, legs : Seq(QuoteSet(PS)), ratios : Seq(Nat \ {0})]
  /\ Len(s.legs) >= 2 /\ Len(s.ratios) = Len(s.legs)
  /\ Plus(AmountsIn(s.legs)) = amount /\ s.amountIn = amount
  /\ s.amountOut = Plus(AmountsOut(s.legs))
  /\ \A i \in 1..Len(s.legs) : s.legs[i].amountIn >= Floor(amount)
  /\ Distinct(s.legs)
  /\ Plus(s.ratios) = 10000

(* One whose legs are all quoted for what they carry.                      *)
GoodSplit(s, amount, PS) ==
  Divided(s, amount, PS) /\ \A i \in 1..Len(s.legs) : Estimated(s.legs[i])

(* t is s with the indices of e.                                           *)
Indexing(e, n, t, s, S) ==
  /\ \A i, j \in 1..n : e[i] = e[j] => i = j
  /\ \A x \in S : \E i \in 1..n : e[i] = x
  /\ \A i \in 1..n : t[i] = s[e[i]]

(* Lists, by the indices it takes.                                         *)
LEMMA ListsIndex ==
  ASSUME NEW t, NEW n, Len(t) = n, NEW s, NEW S
  PROVE  Lists(t, s, S) <=> \E e \in [1..n -> S] : Indexing(e, n, t, s, S)
<1>1. Lists(t, s, S) <=> \E e \in [1..Len(t) -> S] : Indexing(e, Len(t), t, s, S)
  BY DEF Lists, Indexing
<1>. QED
  BY <1>1

(* The numbers up to n in some order, and s in that order.                 *)
InOrder(n, order) ==
  order \in Seq(1..n) /\ Len(order) = n /\ Lists(order, [i \in 1..n |-> i], 1..n)

Relisted(s, order) == << >> \o [i \in DOMAIN order |-> s[order[i]]]

(* A list in the order of some indices has the same elements.              *)
LEMMA Reordered ==
  ASSUME NEW n \in Nat, NEW V, NEW s \in [1..n -> V], NEW order, InOrder(n, order)
  PROVE  /\ Relisted(s, order) \in Seq(V) /\ Len(Relisted(s, order)) = n
         /\ Relisted(s, order) \in [1..n -> V] /\ Lists(Relisted(s, order), s, 1..n)
         /\ \A i \in 1..n : order[i] \in 1..n /\ Relisted(s, order)[i] = s[order[i]]
<1>. DEFINE t == Relisted(s, order)
<1>0. order \in Seq(1..n) /\ Len(order) = n /\ Lists(order, [i \in 1..n |-> i], 1..n)
  BY DEF InOrder
<1>. DEFINE g == [i \in DOMAIN order |-> s[order[i]]]
<1>1. DOMAIN order = 1..n /\ \A i \in 1..n : order[i] \in 1..n
  BY <1>0, LenProperties
<1>2. g \in [1..n -> V] /\ \A i \in 1..n : g[i] = s[order[i]]
  BY <1>1
<1>. HIDE DEF g, t
<1>3. t = g /\ g \in Seq(V) /\ Len(g) = n
  BY <1>2, Listing DEF g, t, Relisted
<1>. DEFINE id == [i \in 1..n |-> i]
            D == 1..n
<1>4. PICK e \in [1..n -> D] : Indexing(e, n, order, id, D)
  <2>. HIDE DEF id, D
  <2>1. Lists(order, id, D) /\ Len(order) = n
    BY <1>0 DEF id, D
  <2>. QED
    BY <2>1, ListsIndex, Zenon
<1>5. \A i \in 1..n : order[i] = e[i]
  BY <1>4 DEF Indexing
<1>6. Indexing(e, n, t, s, D)
  BY <1>2, <1>3, <1>4, <1>5 DEF Indexing
<1>7. Lists(t, s, 1..n)
  <2>. HIDE DEF D
  <2>1. Lists(t, s, D)
    BY <1>3, <1>4, <1>6, ListsIndex, Zenon
  <2>. QED
    BY <2>1 DEF D
<1>. QED
  BY <1>1, <1>2, <1>3, <1>7 DEF t

(* The split with its largest leg first has the same legs and shares.      *)
LEMMA LargestFirstFacts ==
  ASSUME NEW PS \in SUBSET GoodPools, NEW amount \in Nat \ {0}, NEW legs,
         Len(legs) >= 2, Sound(legs, amount, Floor(amount), PS)
  PROVE  GoodSplit(LargestFirst(legs, amount, Ratios(legs)), amount, PS)
<1>. DEFINE n == Len(legs)
            r == Ratios(legs)
            id == [i \in DOMAIN legs |-> i]
            order == Descending(id, r)
            q == [i \in 1..n |-> legs[i].quote]
            u == Each(order, LAMBDA i : legs[i].quote)
            w == Each(order, LAMBDA i : r[i])
<1>1. /\ n \in Nat /\ DOMAIN legs = 1..n /\ Plus(Allocations(legs)) = amount
      /\ Allocations(legs) \in [1..n -> Int]
      /\ \A i \in 1..n : legs[i] \in Legs(PS) /\ Allocations(legs)[i] = legs[i].allocated
                         /\ legs[i].allocated >= Floor(amount)
      /\ \A i, j \in 1..n : i # j => Signature(legs[i].route) # Signature(legs[j].route)
  BY AllocatedFacts DEF Sound
<1>2. r \in [1..n -> Nat \ {0}] /\ Plus(r) = 10000
  <2>1. Len(legs) >= 1
    BY <1>1
  <2>2. Ratios(legs) \in [1..Len(legs) -> Nat \ {0}] /\ Whole(Len(legs), Ratios(legs))
    <3>. HIDE DEF n, r
    <3>. QED
      BY <2>1, RatiosFacts
  <2>. QED
    BY <2>2 DEF Whole
<1>3. /\ \A i \in 1..n : q[i] \in QuoteSet(PS) /\ q[i] = legs[i].quote /\ q[i].amountIn = legs[i].allocated
                         /\ Signature(q[i]) = Signature(legs[i].route)
                         /\ q[i].amountOut \in Nat /\ Estimated(q[i])
      /\ q \in [1..n -> QuoteSet(PS)]
  <2>1. \A i \in 1..n :
          /\ legs[i].quote \in QuoteSet(PS) /\ legs[i].quote.amountIn = legs[i].allocated
          /\ Signature(legs[i].quote) = Signature(legs[i].route) /\ legs[i].quote.amountOut \in Nat
          /\ Estimated(legs[i].quote)
    BY <1>1, LegFields
  <2>. HIDE DEF n
  <2>. QED
    BY <2>1
<1>. HIDE DEF r
<1>4. id \in Seq(1..n) /\ Len(id) = n /\ id = [i \in 1..n |-> i]
  BY <1>1
<1>5. order \in Seq(1..n) /\ Len(order) = n /\ Lists(order, [i \in 1..n |-> i], 1..n)
  <2>1. r \in [1..Len(id) -> Int]
    BY <1>2, <1>4
  <2>. DEFINE D == 1..n
  <2>2. id \in Seq(D) /\ Len(id) = n
    BY <1>4
  <2>. HIDE DEF id, D, n
  <2>3. order \in Seq(D) /\ Len(order) = Len(id) /\ Lists(order, id, 1..Len(id))
    BY <2>1, <2>2, DescendingFacts
  <2>. QED
    BY <1>4, <2>2, <2>3 DEF D
<1>6. LargestFirst(legs, amount, r) =
        [amountIn |-> amount, amountOut |-> TotalOut(legs), legs |-> u, ratios |-> w]
  BY DEF LargestFirst, SplitOf
<1>. HIDE DEF order, id
<1>7. u = Relisted(q, order) /\ w = Relisted(r, order)
  <2>1. \A i \in DOMAIN order : order[i] \in 1..n
    BY <1>5, LenProperties
  <2>2. [i \in DOMAIN order |-> q[order[i]]] = [i \in DOMAIN order |-> legs[order[i]].quote]
    BY <2>1
  <2>3. u = << >> \o [i \in DOMAIN order |-> legs[order[i]].quote]
    BY DEF Each
  <2>4. w = << >> \o [i \in DOMAIN order |-> r[order[i]]]
    BY DEF Each
  <2>. HIDE DEF q, u, w
  <2>. QED
    BY <2>2, <2>3, <2>4 DEF Relisted
<1>. HIDE DEF q, u, w, n
<1>8. /\ u \in Seq(QuoteSet(PS)) /\ Len(u) = n /\ u \in [1..n -> QuoteSet(PS)] /\ Lists(u, q, 1..n)
      /\ \A i \in 1..n : order[i] \in 1..n /\ u[i] = q[order[i]]
  <2>1. n \in Nat /\ q \in [1..n -> QuoteSet(PS)] /\ InOrder(n, order)
    BY <1>1, <1>3, <1>5 DEF InOrder
  <2>. DEFINE V == QuoteSet(PS)
              x == Relisted(q, order)
  <2>2. q \in [1..n -> V]
    BY <2>1
  <2>. HIDE DEF V
  <2>3. /\ x \in Seq(V) /\ Len(x) = n /\ x \in [1..n -> V] /\ Lists(x, q, 1..n)
        /\ \A i \in 1..n : order[i] \in 1..n /\ x[i] = q[order[i]]
    BY <2>1, <2>2, Reordered, SMTT(60)
  <2>. HIDE DEF x
  <2>4. x = u
    BY <1>7 DEF x
  <2>. QED
    BY <2>3, <2>4 DEF V
<1>9. /\ w \in Seq(Nat \ {0}) /\ Len(w) = n /\ w \in [1..n -> Nat \ {0}] /\ Lists(w, r, 1..n)
  <2>1. n \in Nat /\ r \in [1..n -> Nat \ {0}] /\ InOrder(n, order)
    BY <1>1, <1>2, <1>5 DEF InOrder
  <2>. DEFINE V == Nat \ {0}
              x == Relisted(r, order)
  <2>2. r \in [1..n -> V]
    BY <2>1
  <2>. HIDE DEF V
  <2>3. /\ x \in Seq(V) /\ Len(x) = n /\ x \in [1..n -> V] /\ Lists(x, r, 1..n)
        /\ \A i \in 1..n : order[i] \in 1..n /\ x[i] = r[order[i]]
    BY <2>1, <2>2, Reordered, SMTT(60)
  <2>. HIDE DEF x
  <2>4. x = w
    BY <1>7 DEF x
  <2>. QED
    BY <2>3, <2>4 DEF V
<1>. DEFINE D == 1..n
<1>10. PICK e \in [D -> D] : Indexing(e, n, u, q, D)
  <2>1. Len(u) = n /\ Lists(u, q, D)
    BY <1>8
  <2>2. \E e \in [1..n -> D] : Indexing(e, n, u, q, D)
    <3>. HIDE DEF D
    <3>. QED
      BY <2>1, ListsIndex, Zenon
  <2>. QED
    BY <2>2
<1>11. Plus(w) = 10000
  <2>1. w \in [1..n -> Int] /\ r \in [1..n -> Int]
    BY <1>2, <1>9
  <2>2. n \in Nat
    BY <1>1
  <2>3. Plus(w) = Plus(r)
    BY <1>9, <2>1, <2>2, PlusPermuted, Zenon
  <2>. QED
    BY <1>2, <2>3
<1>12. Plus(AmountsIn(u)) = amount
  <2>. DEFINE a == Allocations(legs)
              b == AmountsIn(u)
  <2>1. \A i \in 1..n : e[i] \in 1..n
    OBVIOUS
  <2>2. DOMAIN u = 1..n /\ \A i \in 1..n : u[i].amountIn = a[e[i]]
    <3>1. \A j \in 1..n : q[j].amountIn = a[j]
      BY <1>1, <1>3
    <3>2. \A i \in 1..n : u[i] = q[e[i]]
      BY <1>10 DEF Indexing
    <3>3. DOMAIN u = 1..n
      BY <1>8
    <3>. HIDE DEF a, D
    <3>. QED
      BY <2>1, <3>1, <3>2, <3>3
  <2>3. b \in [1..n -> Int] /\ \A i \in 1..n : b[i] = a[e[i]]
    BY <1>1, <2>1, <2>2 DEF AmountsIn
  <2>. HIDE DEF a, b
  <2>4. n \in Nat /\ Len(b) = n /\ a \in [1..n -> Int] /\ Indexing(e, n, b, a, D)
    <3>1. n \in Nat /\ Len(b) = n
      BY <1>1, <2>3
    <3>2. a \in [1..n -> Int]
      BY <1>1 DEF a
    <3>3. Indexing(e, n, b, a, D)
      BY <1>10, <2>3 DEF Indexing
    <3>. QED
      BY <3>1, <3>2, <3>3
  <2>5. Lists(b, a, D)
    <3>. HIDE DEF D
    <3>1. e \in [1..n -> D]
      BY DEF D
    <3>. QED
      BY <2>4, <3>1, ListsIndex, Zenon
  <2>6. Plus(b) = Plus(a)
    BY <2>3, <2>4, <2>5, PlusPermuted, Zenon
  <2>. QED
    BY <1>1, <2>6 DEF a, b
<1>13. TotalOut(legs) = Plus(AmountsOut(u)) /\ TotalOut(legs) \in Int
  <2>. DEFINE o == [i \in 1..n |-> q[i].amountOut]
              b == AmountsOut(u)
  <2>1. o \in [1..n -> Int] /\ \A i \in 1..n : o[i] = q[i].amountOut
    BY <1>3
  <2>2. Each(legs, LAMBDA l : l.quote.amountOut) = << >> \o o
    <3>1. Each(legs, LAMBDA l : l.quote.amountOut) = << >> \o [i \in DOMAIN legs |-> legs[i].quote.amountOut]
      BY DEF Each
    <3>2. [i \in DOMAIN legs |-> legs[i].quote.amountOut] = o
      BY <1>1, <1>3
    <3>. HIDE DEF o
    <3>. QED
      BY <3>1, <3>2
  <2>3. \A i \in 1..n : e[i] \in 1..n
    OBVIOUS
  <2>4. DOMAIN u = 1..n
    BY <1>8
  <2>. HIDE DEF o
  <2>5. TotalOut(legs) = Plus(o)
    <3>1. << >> \o o = o
      BY <1>1, <2>1, Listing
    <3>. QED
      BY <2>2, <3>1 DEF TotalOut
  <2>6. b \in [1..n -> Int] /\ \A i \in 1..n : b[i] = o[e[i]]
    <3>1. \A i \in 1..n : u[i].amountOut = o[e[i]] /\ o[e[i]] \in Int
      BY <1>10, <2>1, <2>3 DEF Indexing
    <3>. QED
      BY <2>4, <3>1 DEF AmountsOut
  <2>. HIDE DEF b
  <2>7. n \in Nat /\ Len(b) = n /\ o \in [1..n -> Int] /\ Indexing(e, n, b, o, D)
    BY <1>1, <1>10, <2>1, <2>6 DEF Indexing
  <2>8. Lists(b, o, D)
    <3>. HIDE DEF D
    <3>1. e \in [1..n -> D]
      BY DEF D
    <3>. QED
      BY <2>7, <3>1, ListsIndex, Zenon
  <2>9. Plus(b) = Plus(o) /\ Plus(o) \in Int
    BY <2>6, <2>7, <2>8, PlusPermuted, PlusType, Zenon
  <2>. QED
    BY <2>5, <2>9 DEF b
<1>14. \A i \in 1..n : u[i].amountIn >= Floor(amount) /\ Estimated(u[i])
  <2>1. \A i \in 1..n : q[i].amountIn >= Floor(amount) /\ Estimated(q[i])
    BY <1>1, <1>3
  <2>. QED
    BY <1>8, <2>1
<1>15. Distinct(u)
  <2>1. ASSUME NEW i \in 1..n, NEW j \in 1..n, i # j PROVE Signature(u[i]) # Signature(u[j])
    <3>1. e[i] # e[j] /\ e[i] \in 1..n /\ e[j] \in 1..n /\ u[i] = q[e[i]] /\ u[j] = q[e[j]]
      BY <1>10, <2>1 DEF Indexing
    <3>. QED
      BY <1>1, <1>3, <3>1
  <2>. QED
    BY <1>8, <2>1 DEF Distinct
<1>. DEFINE s == [amountIn |-> amount, amountOut |-> TotalOut(legs), legs |-> u, ratios |-> w]
<1>16. /\ s \in [amountIn : Nat, amountOut : Int, legs : Seq(QuoteSet(PS)), ratios : Seq(Nat \ {0})]
       /\ s.legs = u /\ s.ratios = w /\ s.amountIn = amount /\ s.amountOut = TotalOut(legs)
  BY <1>8, <1>9, <1>13
<1>. HIDE DEF s
<1>17. n >= 2
  BY DEF n
<1>18. GoodSplit(s, amount, PS)
  BY <1>8, <1>9, <1>11, <1>12, <1>13, <1>14, <1>15, <1>16, <1>17 DEF GoodSplit, Divided
<1>. QED
  BY <1>6, <1>18 DEF s, r

(* findBestSplit answers nothing, or a split of the whole amount, quoted   *)
(* for what its legs carry.                                                *)
LEMMA BestSplitFacts ==
  ASSUME NEW PS \in SUBSET GoodPools, NEW amount \in Nat \ {0}, NEW candidates \in Seq(QuoteSet(PS)), NEW rate
  PROVE  \/ BestSplit(candidates, amount, rate) = None
         \/ GoodSplit(BestSplit(candidates, amount, rate), amount, PS)
<1>. DEFINE routes == Deduplicated(candidates)
            tries == Attempts(routes, amount)
            legs == Preferred(tries)
<1>1. routes \in Seq(QuoteSet(PS)) /\ Distinct(routes)
  BY DeduplicatedFacts
<1>. HIDE DEF routes
<1>2. tries \in Seq(Splits(amount, PS))
  BY <1>1, AttemptsFacts
<1>. HIDE DEF tries
<1>3. << >> \in Splits(amount, PS)
  BY SplitsFacts DEF SoundSplit
<1>4. legs \in Splits(amount, PS)
  BY <1>2, <1>3, PreferredFacts
<1>5. legs = << >> \/ (Len(legs) >= 2 /\ Sound(legs, amount, Floor(amount), PS))
  BY <1>4, SplitsFacts DEF SoundSplit
<1>. HIDE DEF legs
<1>6. \/ BestSplit(candidates, amount, rate) = None
      \/ legs # << >> /\ BestSplit(candidates, amount, rate) = LargestFirst(legs, amount, Ratios(legs))
  BY DEF BestSplit, IfWorthIt, legs, tries, routes
<1>. QED
  BY <1>5, <1>6, LargestFirstFacts

-----------------------------------------------------------------------------
(* The search.                                                             *)

(* What FlattenSeq makes of lists.                                         *)
LEMMA FlattenedParts ==
  ASSUME NEW V, NEW L \in Seq(Seq(V)), Len(L) # 0
  PROVE  \E F \in [1..Len(L) -> Seq(V)] : JoinsOf(F, L, Len(L)) /\ FlattenSeq(L) = F[Len(L)]
<1>. DEFINE m == Len(L)
            Body(f) == [i \in 1..m |-> IF i = 1 THEN L[i] ELSE f[i - 1] \o L[i]]
<1>1. m \in Nat /\ L \in [1..m -> Seq(V)]
  BY LenProperties
<1>2. FlattenSeq(L) = (CHOOSE f : f = Body(f))[m]
  BY DEF FlattenSeq
<1>3. m \in Nat \ {0}
  BY <1>1
<1>. HIDE DEF m
<1>4. PICK F \in [1..m -> Seq(V)] : JoinsOf(F, L, m)
  BY <1>1, <1>3, PrefixesExist
<1>5. F = Body(F)
  <2>1. ASSUME NEW i \in 1..m PROVE F[i] = IF i = 1 THEN L[i] ELSE F[i - 1] \o L[i]
    <3>1. i # 1 => i \in 2..m
      BY <1>3
    <3>. QED
      BY <1>4, <3>1 DEF JoinsOf
  <2>. QED
    BY <2>1
<1>6. PICK p : p = CHOOSE f : f = Body(f)
  OBVIOUS
<1>7. p = Body(p)
  <2>. HIDE DEF Body
  <2>. QED
    BY <1>5, <1>6
<1>8. Flattens(p, L, m)
  BY <1>7 DEF Flattens
<1>9. FlattenSeq(L) = p[m]
  BY <1>2, <1>6
<1>. HIDE DEF Body
<1>10. p[m] = F[m]
  BY <1>3, <1>4, <1>8, PrefixesUnique, Zenon
<1>. QED
  BY <1>4, <1>9, <1>10 DEF m

(* Lists of one kind, joined, are a list of it.                            *)
LEMMA FlattenedFacts ==
  ASSUME NEW V, NEW L \in Seq(Seq(V))
  PROVE  FlattenSeq(L) \in Seq(V)
<1>. DEFINE m == Len(L)
<1>1. m \in Nat
  BY LenProperties
<1>2. CASE m = 0
  <2>1. L = << >>
    BY <1>2
  <2>2. FlattenSeq(L) = L
    BY <1>2 DEF FlattenSeq
  <2>3. << >> \in Seq(V)
    OBVIOUS
  <2>. QED
    BY <2>1, <2>2, <2>3, Zenon
<1>3. CASE m # 0
  <2>1. PICK F \in [1..m -> Seq(V)] : JoinsOf(F, L, m) /\ FlattenSeq(L) = F[m]
    BY <1>3, FlattenedParts
  <2>2. m \in 1..m
    BY <1>1, <1>3
  <2>. QED
    BY <2>1, <2>2
<1>. QED
  BY <1>2, <1>3

(* A hop through a pool of both tokens that pays what is estimated.        *)
Steps(PS, from, to, amount) ==
  {h \in Hops(PS) : /\ Between(h.pool, from, to) /\ h.amountIn = amount /\ h.amountOut > 0
                    /\ h.amountOut = HopOut(h.pool, from, amount)}

(* The hops that pay are hops, and pay.                                    *)
LEMMA PayingFacts ==
  ASSUME NEW V, NEW hops \in Seq(V)
  PROVE  Paying(hops) \in Seq({h \in V : h.amountOut > 0})
<1>. DEFINE S == {i \in DOMAIN hops : hops[i].amountOut > 0}
            W == {h \in V : h.amountOut > 0}
            U == {hops[i] : i \in S}
<1>1. S \in SUBSET (1..Len(hops))
  BY LenProperties
<1>2. U \in SUBSET W
  BY LenProperties
<1>3. Paying(hops) = Picked(hops, S)
  BY DEF Paying
<1>. HIDE DEF S, W
<1>4. Picked(hops, S) \in Seq(U)
  BY <1>1, PickedFrom
<1>. HIDE DEF U
<1>5. Paying(hops) \in Seq(W)
  BY <1>2, <1>3, <1>4
<1>. QED
  BY <1>5 DEF W

(* computeLocalQuotes finds hops through pools of the two tokens.          *)
LEMMA LocalHopsFacts ==
  ASSUME NEW PS \in SUBSET GoodPools, NEW graph \in Seq(PS), NEW from, NEW to, NEW amount \in Nat
  PROVE  LocalHops(graph, from, to, amount) \in Seq(Steps(PS, from, to, amount))
<1>. DEFINE S == {i \in DOMAIN graph : Between(graph[i], from, to) /\ Liquid(graph[i])}
            U == {graph[i] : i \in S}
            pools_ == Picked(graph, S)
            T == {p \in PS : Between(p, from, to)}
            H == {h \in Hops(PS) : /\ Between(h.pool, from, to) /\ h.amountIn = amount
                                   /\ h.amountOut = HopOut(h.pool, from, amount)}
            g == [i \in DOMAIN pools_ |-> Hop(pools_[i], from, amount)]
            n == Len(pools_)
<1>1. S \in SUBSET (1..Len(graph)) /\ U \in SUBSET T
  BY LenProperties
<1>2. LocalHops(graph, from, to, amount) = Paying(<< >> \o g)
  BY DEF LocalHops, Each
<1>. HIDE DEF S, T
<1>3. pools_ \in Seq(U)
  BY <1>1, PickedFrom
<1>. HIDE DEF U, pools_
<1>4. n \in Nat /\ DOMAIN pools_ = 1..n /\ \A i \in 1..n : pools_[i] \in T
  BY <1>1, <1>3, LenProperties
<1>5. \A p \in T : Hop(p, from, amount) \in H
  <2>1. ASSUME NEW p \in T PROVE Hop(p, from, amount) \in H
    <3>1. p \in PS /\ Between(p, from, to)
      BY DEF T
    <3>2. /\ Hop(p, from, amount) \in Hops(PS)
          /\ Hop(p, from, amount) = [pool |-> p, amountIn |-> amount, amountOut |-> HopOut(p, from, amount)]
      BY <3>1, HopType
    <3>. QED
      BY <3>1, <3>2
  <2>. QED
    BY <2>1
<1>. HIDE DEF H, n
<1>6. g \in [1..n -> H]
  BY <1>4, <1>5
<1>. HIDE DEF g
<1>7. << >> \o g \in Seq(H)
  BY <1>4, <1>6, Listing
<1>8. Paying(<< >> \o g) \in Seq({h \in H : h.amountOut > 0})
  BY <1>7, PayingFacts
<1>9. {h \in H : h.amountOut > 0} = Steps(PS, from, to, amount)
  BY DEF H, Steps
<1>. QED
  BY <1>2, <1>8, <1>9

(* A chain of d hops from an amount that has not come to a token yet.      *)
Openings(PS, amount, avoided, d) ==
  {p \in [path : Seq(Tokens), hops : Seq(Hops(PS))] :
     /\ Chained(p.path, p.hops) /\ Len(p.hops) = d /\ Estimated(p) /\ p.hops[1].amountIn = amount
     /\ \A i \in 1..Len(p.path) : p.path[i] # avoided}

Estimates(PS, amount) == {q \in QuoteSet(PS) : Estimated(q) /\ q.amountIn = amount}

Begun(p, PS, amount, d) ==
  /\ p \in [path : Seq(Tokens), hops : Seq(Hops(PS))]
  /\ Chained(p.path, p.hops) /\ Len(p.hops) = d /\ Estimated(p) /\ p.hops[1].amountIn = amount

Onward(p, token, h) == [path |-> Append(p.path, token), hops |-> Append(p.hops, h)]

OffPath(p, token) == \A i \in 1..Len(p.path) : p.path[i] # token

(* One more hop, to a token that is not on the path.                       *)
LEMMA Longer ==
  ASSUME NEW PS \in SUBSET GoodPools, NEW amount, NEW d, NEW p, Begun(p, PS, amount, d),
         NEW token \in Tokens, OffPath(p, token),
         NEW h \in Steps(PS, Reached(p), token, Carried(p))
  PROVE  /\ Begun(Onward(p, token, h), PS, amount, d + 1)
         /\ \A other : OffPath(p, other) /\ other # token => OffPath(Onward(p, token, h), other)
<1>. DEFINE n == Len(p.hops)
            path == Append(p.path, token)
            hops == Append(p.hops, h)
            r == Onward(p, token, h)
<1>1. /\ p.path \in Seq(Tokens) /\ p.hops \in Seq(Hops(PS)) /\ n \in Nat /\ n >= 1
      /\ Len(p.path) = n + 1 /\ n = d
      /\ \A i \in 1..n :
           /\ Between(p.hops[i].pool, p.path[i], p.path[i + 1])
           /\ p.hops[i].amountIn > 0 /\ p.hops[i].amountOut > 0
           /\ i > 1 => p.hops[i].amountIn = p.hops[i - 1].amountOut
           /\ p.hops[i].amountOut = HopOut(p.hops[i].pool, p.path[i], p.hops[i].amountIn)
      /\ \A i, j \in 1..(n + 1) : p.path[i] = p.path[j] => i = j
      /\ \A i \in 1..(n + 1) : p.path[i] # token
      /\ p.hops[1].amountIn = amount
  <2>1. /\ p.path \in Seq(Tokens) /\ p.hops \in Seq(Hops(PS)) /\ Chained(p.path, p.hops) /\ Estimated(p)
        /\ p.hops[1].amountIn = amount /\ n = d
    BY DEF Begun
  <2>. QED
    BY <2>1, LenProperties DEF Chained, Estimated, OffPath
<1>2. Reached(p) = p.path[n + 1] /\ Carried(p) = p.hops[n].amountOut
  BY <1>1 DEF Reached, Carried, Last
<1>3. /\ h \in Hops(PS) /\ Between(h.pool, p.path[n + 1], token) /\ h.amountIn = p.hops[n].amountOut
      /\ h.amountOut > 0 /\ h.amountOut = HopOut(h.pool, p.path[n + 1], h.amountIn)
  BY <1>2 DEF Steps
<1>4. /\ path \in Seq(Tokens) /\ Len(path) = n + 2 /\ path[n + 2] = token
      /\ \A i \in 1..(n + 1) : path[i] = p.path[i]
  BY <1>1
<1>5. /\ hops \in Seq(Hops(PS)) /\ Len(hops) = n + 1 /\ hops[n + 1] = h
      /\ \A i \in 1..n : hops[i] = p.hops[i]
  BY <1>1, <1>3
<1>6. r = [path |-> path, hops |-> hops]
  BY DEF Onward
<1>. HIDE DEF path, hops, n, r
<1>7. ASSUME NEW i \in 1..(n + 1)
      PROVE  /\ Between(hops[i].pool, path[i], path[i + 1])
             /\ hops[i].amountIn > 0 /\ hops[i].amountOut > 0
             /\ i > 1 => hops[i].amountIn = hops[i - 1].amountOut
             /\ hops[i].amountOut = HopOut(hops[i].pool, path[i], hops[i].amountIn)
  <2>1. CASE i = n + 1
    <3>1. n \in 1..n /\ n + 1 \in 1..(n + 1) /\ i + 1 = n + 2 /\ i - 1 = n
      <4>1. n \in Nat /\ n >= 1
        BY <1>1
      <4>. QED
        BY <2>1, <4>1
    <3>2. hops[i] = h /\ path[i] = p.path[n + 1] /\ path[i + 1] = token /\ hops[i - 1] = p.hops[n]
      BY <1>4, <1>5, <2>1, <3>1
    <3>. QED
      BY <1>1, <1>3, <3>1, <3>2
  <2>2. CASE i # n + 1
    <3>1. i \in 1..n /\ i \in 1..(n + 1) /\ i + 1 \in 1..(n + 1) /\ (i > 1 => i - 1 \in 1..n)
      BY <1>1, <2>2
    <3>2. hops[i] = p.hops[i] /\ path[i] = p.path[i] /\ path[i + 1] = p.path[i + 1]
          /\ (i > 1 => hops[i - 1] = p.hops[i - 1])
      BY <1>4, <1>5, <3>1
    <3>. QED
      BY <1>1, <3>1, <3>2
  <2>. QED
    BY <2>1, <2>2
<1>8. \A i \in 1..(n + 2) : i = n + 2 \/ i \in 1..(n + 1)
  BY <1>1
<1>9. \A i, j \in 1..(n + 2) : path[i] = path[j] => i = j
  <2>1. \A i \in 1..(n + 1) : path[i] # token
    BY <1>1, <1>4
  <2>. QED
    BY <1>1, <1>4, <1>8, <2>1
<1>10. Chained(path, hops)
  BY <1>1, <1>4, <1>5, <1>7, <1>9 DEF Chained
<1>11. Estimated(r)
  BY <1>1, <1>5, <1>6, <1>7 DEF Estimated
<1>12. hops[1].amountIn = amount
  BY <1>1, <1>5
<1>13. \A other : OffPath(p, other) /\ other # token => \A i \in 1..(n + 2) : path[i] # other
  BY <1>1, <1>4, <1>8 DEF OffPath
<1>14. r.path = path /\ r.hops = hops /\ r \in [path : Seq(Tokens), hops : Seq(Hops(PS))]
  <2>. DEFINE A == Seq(Tokens)
              B == Seq(Hops(PS))
  <2>1. path \in A /\ hops \in B
    BY <1>4, <1>5
  <2>. HIDE DEF A, B
  <2>2. r.path = path /\ r.hops = hops /\ r \in [path : A, hops : B]
    BY <1>6, <2>1
  <2>. QED
    BY <2>2 DEF A, B
<1>15. Begun(r, PS, amount, d + 1)
  BY <1>1, <1>5, <1>10, <1>11, <1>12, <1>14 DEF Begun
<1>16. \A other : OffPath(p, other) /\ other # token => OffPath(r, other)
  BY <1>4, <1>13, <1>14 DEF OffPath
<1>. QED
  BY <1>15, <1>16 DEF r

(* What is picked has what all that are picked have.                       *)
LEMMA SomeFacts ==
  ASSUME NEW V, NEW s \in Seq(V), NEW W, NEW S \in SUBSET (1..Len(s)), \A i \in S : s[i] \in W
  PROVE  Picked(s, S) \in Seq(W)
<1>. DEFINE U == {s[i] : i \in S}
<1>1. U \in SUBSET W
  OBVIOUS
<1>2. Picked(s, S) \in Seq(U)
  BY PickedFrom
<1>. HIDE DEF U
<1>. QED
  BY <1>1, <1>2

Betweens(tokenIn, tokenOut) == {t \in Tokens : t # tokenIn /\ t # tokenOut}

(* The intermediate tokens are neither what is sold nor what is bought.    *)
LEMMA CandidatesFacts ==
  ASSUME NEW tokenIn, NEW tokenOut
  PROVE  Candidates(tokenIn, tokenOut) \in Seq(Betweens(tokenIn, tokenOut))
<1>. DEFINE S == {i \in DOMAIN Intermediates : Intermediates[i] \notin {tokenIn, tokenOut}}
            T == ToSet(Intermediates)
<1>1. Intermediates \in Seq(T)
  BY RouteSearchAssumption
<1>2. T \subseteq Tokens
  BY PriceAssumption DEF Tokens
<1>3. Candidates(tokenIn, tokenOut) = Picked(Intermediates, S)
  BY DEF Candidates
<1>. HIDE DEF T
<1>4. DOMAIN Intermediates = 1..Len(Intermediates)
  BY <1>1, LenProperties
<1>5. \A i \in 1..Len(Intermediates) : Intermediates[i] \in T
  BY <1>1
<1>6. \A i \in 1..Len(Intermediates) : Intermediates[i] \in Tokens
  BY <1>2, <1>5
<1>7. S \in SUBSET (1..Len(Intermediates)) /\ \A i \in S : Intermediates[i] \in Betweens(tokenIn, tokenOut)
  <2>1. S \in SUBSET (1..Len(Intermediates))
    BY <1>4
  <2>2. \A i \in S : Intermediates[i] # tokenIn /\ Intermediates[i] # tokenOut
    OBVIOUS
  <2>. HIDE DEF S
  <2>. QED
    BY <1>6, <2>1, <2>2 DEF Betweens
<1>. HIDE DEF S
<1>. QED
  BY <1>1, <1>3, <1>7, SomeFacts

(* What is known of a partial route.                                       *)
LEMMA OpeningFields ==
  ASSUME NEW PS \in SUBSET GoodPools, NEW amount, NEW avoided, NEW d, NEW p \in Openings(PS, amount, avoided, d)
  PROVE  /\ p \in [path : Seq(Tokens), hops : Seq(Hops(PS))]
         /\ Chained(p.path, p.hops) /\ Len(p.hops) = d /\ Estimated(p) /\ p.hops[1].amountIn = amount
         /\ OffPath(p, avoided) /\ Carried(p) \in Nat /\ Begun(p, PS, amount, d)
<1>1. /\ p \in [path : Seq(Tokens), hops : Seq(Hops(PS))]
      /\ Chained(p.path, p.hops) /\ Len(p.hops) = d /\ Estimated(p) /\ p.hops[1].amountIn = amount
      /\ \A i \in 1..Len(p.path) : p.path[i] # avoided
  BY DEF Openings
<1>. DEFINE n == Len(p.hops)
<1>2. p.hops \in Seq(Hops(PS)) /\ n \in Nat /\ n >= 1 /\ DOMAIN p.hops = 1..n
  BY <1>1, LenProperties DEF Chained
<1>3. Carried(p) = p.hops[n].amountOut
  BY <1>2 DEF Carried, Last
<1>4. p.hops[n] \in Hops(PS)
  BY <1>2
<1>5. Carried(p) \in Nat
  BY <1>3, <1>4 DEF Hops
<1>. QED
  BY <1>1, <1>5 DEF Begun, OffPath

(* Partial routes that go on to a token they have not come to.             *)
LEMMA ExtendedFacts ==
  ASSUME NEW PS \in SUBSET GoodPools, NEW graph \in Seq(PS), NEW amount, NEW avoided, NEW d,
         NEW p \in Openings(PS, amount, avoided, d),
         NEW token \in Tokens, OffPath(p, token)
  PROVE  /\ Extended(graph, p, token) \in
              Seq({r \in [path : Seq(Tokens), hops : Seq(Hops(PS))] : Begun(r, PS, amount, d + 1)})
         /\ token # avoided => Extended(graph, p, token) \in Seq(Openings(PS, amount, avoided, d + 1))
<1>. DEFINE hops == LocalHops(graph, Reached(p), token, Carried(p))
            n == Len(hops)
            g == [i \in DOMAIN hops |-> Onward(p, token, hops[i])]
            C == {r \in [path : Seq(Tokens), hops : Seq(Hops(PS))] : Begun(r, PS, amount, d + 1)}
<1>1. Begun(p, PS, amount, d) /\ OffPath(p, avoided) /\ Carried(p) \in Nat
  BY OpeningFields, Zenon
<1>2. hops \in Seq(Steps(PS, Reached(p), token, Carried(p)))
  BY <1>1, LocalHopsFacts
<1>3. Extended(graph, p, token) = << >> \o g
  BY DEF Extended, Each, Onward
<1>. HIDE DEF hops
<1>4. n \in Nat /\ DOMAIN hops = 1..n /\ \A i \in 1..n : hops[i] \in Steps(PS, Reached(p), token, Carried(p))
  BY <1>2, LenProperties
<1>5. ASSUME NEW h \in Steps(PS, Reached(p), token, Carried(p))
      PROVE  /\ Onward(p, token, h) \in C
             /\ token # avoided => Onward(p, token, h) \in Openings(PS, amount, avoided, d + 1)
  <2>. DEFINE r == Onward(p, token, h)
  <2>1. Begun(r, PS, amount, d + 1) /\ (token # avoided => OffPath(r, avoided))
    BY <1>1, Longer
  <2>. HIDE DEF r
  <2>2. r \in C
    BY <2>1 DEF Begun
  <2>3. token # avoided => r \in Openings(PS, amount, avoided, d + 1)
    BY <2>1 DEF Openings, Begun, OffPath
  <2>. QED
    BY <2>2, <2>3 DEF r
<1>. HIDE DEF n, C
<1>6. g \in [1..n -> C] /\ (token # avoided => g \in [1..n -> Openings(PS, amount, avoided, d + 1)])
  BY <1>4, <1>5
<1>. HIDE DEF g
<1>7. << >> \o g \in Seq(C) /\ (token # avoided => << >> \o g \in Seq(Openings(PS, amount, avoided, d + 1)))
  BY <1>4, <1>6, Listing
<1>. QED
  BY <1>3, <1>7 DEF C

(* The search starts with single hops to intermediate tokens.              *)
LEMMA FirstPartialsFacts ==
  ASSUME NEW PS \in SUBSET GoodPools, NEW graph \in Seq(PS), NEW amount \in Nat \ {0},
         NEW tokenIn \in Tokens, NEW tokenOut \in Tokens, tokenIn # tokenOut,
         NEW tokens \in Seq(Betweens(tokenIn, tokenOut))
  PROVE  FirstPartials(graph, tokens, tokenIn, amount) \in Seq(Openings(PS, amount, tokenOut, 1))
<1>. DEFINE O == Openings(PS, amount, tokenOut, 1)
            hops(t) == LocalHops(graph, tokenIn, t, amount)
            one(t, h) == [path |-> <<tokenIn, t>>, hops |-> <<h>>]
            over(t) == Each(hops(t), LAMBDA h : one(t, h))
            g == [i \in DOMAIN tokens |-> over(tokens[i])]
            m == Len(tokens)
<1>1. FirstPartials(graph, tokens, tokenIn, amount) = FlattenSeq(<< >> \o g)
  BY DEF FirstPartials, Each
<1>2. m \in Nat /\ DOMAIN tokens = 1..m /\ \A i \in 1..m : tokens[i] \in Betweens(tokenIn, tokenOut)
  BY LenProperties
<1>3. ASSUME NEW t \in Betweens(tokenIn, tokenOut) PROVE over(t) \in Seq(O)
  <2>. DEFINE hs == hops(t)
              n == Len(hs)
              f == [i \in DOMAIN hs |-> one(t, hs[i])]
  <2>1. over(t) = << >> \o f
    BY DEF Each
  <2>2. hs \in Seq(Steps(PS, tokenIn, t, amount))
    BY LocalHopsFacts
  <2>. HIDE DEF hs
  <2>3. n \in Nat /\ DOMAIN hs = 1..n /\ \A i \in 1..n : hs[i] \in Steps(PS, tokenIn, t, amount)
    BY <2>2, LenProperties
  <2>4. ASSUME NEW h \in Steps(PS, tokenIn, t, amount) PROVE one(t, h) \in O
    <3>. DEFINE path == <<tokenIn, t>>
                only == <<h>>
    <3>1. /\ h \in Hops(PS) /\ Between(h.pool, tokenIn, t) /\ h.amountIn = amount /\ h.amountOut > 0
          /\ h.amountOut = HopOut(h.pool, tokenIn, h.amountIn)
      BY DEF Steps
    <3>2. t \in Tokens /\ t # tokenIn /\ t # tokenOut
      BY DEF Betweens
    <3>3. path \in Seq(Tokens) /\ Len(path) = 2 /\ path[1] = tokenIn /\ path[2] = t
      BY <3>2
    <3>4. only \in Seq(Hops(PS)) /\ Len(only) = 1 /\ only[1] = h
      BY <3>1
    <3>. DEFINE r == one(t, h)
    <3>5. r = [path |-> path, hops |-> only]
      OBVIOUS
    <3>. HIDE DEF path, only, r
    <3>6. r.path = path /\ r.hops = only /\ r \in [path : Seq(Tokens), hops : Seq(Hops(PS))]
      BY <3>3, <3>4, <3>5
    <3>7. (\A i \in 1..1 : i = 1) /\ (\A i \in 1..2 : i = 1 \/ i = 2) /\ 1 + 1 = 2
      OBVIOUS
    <3>8. Chained(path, only)
      BY <3>1, <3>2, <3>3, <3>4, <3>7 DEF Chained
    <3>9. Estimated(r)
      BY <3>1, <3>3, <3>4, <3>6, <3>7 DEF Estimated
    <3>10. \A i \in 1..Len(path) : path[i] # tokenOut
      BY <3>2, <3>3, <3>7
    <3>11. r \in O
      BY <3>1, <3>4, <3>6, <3>8, <3>9, <3>10 DEF Openings
    <3>. QED
      BY <3>11 DEF r
  <2>. HIDE DEF O, one, n
  <2>5. f \in [1..n -> O]
    BY <2>3, <2>4
  <2>. HIDE DEF f, over
  <2>. QED
    BY <2>1, <2>3, <2>5, Listing
<1>. HIDE DEF O, over, m
<1>4. g \in [1..m -> Seq(O)]
  BY <1>2, <1>3
<1>. HIDE DEF g
<1>5. << >> \o g \in Seq(Seq(O))
  BY <1>2, <1>4, Listing
<1>6. FlattenSeq(<< >> \o g) \in Seq(O)
  BY <1>5, FlattenedFacts
<1>. QED
  BY <1>1, <1>6 DEF O

(* A route of which every hop pays what is estimated.                      *)
LEMMA BegunQuote ==
  ASSUME NEW PS \in SUBSET GoodPools, NEW amount \in Nat \ {0}, NEW d \in 1..(MaxHopDepth + 1), NEW r,
         Begun(r, PS, amount, d),
         NEW gasFee \in {None} \cup Nat
  PROVE  Quote(r.path, r.hops, gasFee) \in Estimates(PS, amount)
<1>. DEFINE n == Len(r.hops)
            q == Quote(r.path, r.hops, gasFee)
<1>1. /\ r.path \in Seq(Tokens) /\ r.hops \in Seq(Hops(PS)) /\ Chained(r.path, r.hops) /\ Estimated(r)
      /\ r.hops[1].amountIn = amount /\ Len(r.hops) <= MaxHopDepth + 1
  BY RouteSearchAssumption DEF Begun
<1>2. n \in Nat /\ n >= 1 /\ DOMAIN r.hops = 1..n
  BY <1>1, LenProperties DEF Chained
<1>3. Head(r.hops) = r.hops[1] /\ Last(r.hops) = r.hops[n]
  BY <1>1, <1>2 DEF Last
<1>4. q = [ path |-> r.path, hops |-> r.hops, gasPrice |-> gasFee,
            amountIn |-> amount, amountOut |-> r.hops[n].amountOut ]
  BY <1>1, <1>3 DEF Quote
<1>5. r.hops[n].amountOut \in Nat \ {0}
  <2>1. n \in 1..n /\ r.hops[n] \in Hops(PS)
    BY <1>1, <1>2
  <2>2. r.hops[n].amountOut > 0
    BY <1>1, <2>1 DEF Chained
  <2>. QED
    BY <2>1, <2>2 DEF Hops
<1>. HIDE DEF q
<1>6. q \in QuoteSet(PS)
  <2>. DEFINE A == Seq(Tokens)
              B == Seq(Hops(PS))
  <2>1. r.path \in A /\ r.hops \in B
    BY <1>1
  <2>. HIDE DEF A, B
  <2>2. q \in [path : A, hops : B, gasPrice : {None} \cup Nat, amountIn : Nat \ {0}, amountOut : Nat \ {0}]
    BY <1>4, <1>5, <2>1
  <2>3. Chained(q.path, q.hops) /\ Len(q.hops) <= MaxHopDepth + 1 /\ q.amountIn = q.hops[1].amountIn
        /\ q.amountOut = q.hops[Len(q.hops)].amountOut
    BY <1>1, <1>4
  <2>. QED
    BY <2>2, <2>3 DEF QuoteSet, A, B
<1>7. Estimated(q) /\ q.amountIn = amount
  BY <1>1, <1>4 DEF Estimated
<1>. QED
  BY <1>6, <1>7 DEF Estimates, q

(* Partial routes that are closed are routes: they had not come to the     *)
(* token they end at.                                                      *)
LEMMA ClosedFacts ==
  ASSUME NEW PS \in SUBSET GoodPools, NEW graph \in Seq(PS), NEW amount \in Nat \ {0},
         NEW tokenOut \in Tokens, NEW gasFee \in {None} \cup Nat,
         NEW d \in 1..MaxHopDepth, NEW partials \in Seq(Openings(PS, amount, tokenOut, d))
  PROVE  Closed(graph, partials, tokenOut, gasFee) \in Seq(Estimates(PS, amount))
<1>. DEFINE O == Openings(PS, amount, tokenOut, d)
            E == Estimates(PS, amount)
            C == {r \in [path : Seq(Tokens), hops : Seq(Hops(PS))] : Begun(r, PS, amount, d + 1)}
            over(p) == Each(Extended(graph, p, tokenOut), LAMBDA r : Quote(r.path, r.hops, gasFee))
            g == [i \in DOMAIN partials |-> over(partials[i])]
            m == Len(partials)
<1>1. Closed(graph, partials, tokenOut, gasFee) = FlattenSeq(<< >> \o g)
  BY DEF Closed, Each
<1>2. m \in Nat /\ DOMAIN partials = 1..m /\ \A i \in 1..m : partials[i] \in O
  BY LenProperties
<1>3. ASSUME NEW p \in O PROVE over(p) \in Seq(E)
  <2>. DEFINE rs == Extended(graph, p, tokenOut)
              n == Len(rs)
              f == [i \in DOMAIN rs |-> Quote(rs[i].path, rs[i].hops, gasFee)]
  <2>1. over(p) = << >> \o f
    BY DEF Each
  <2>2. rs \in Seq(C)
    <3>1. OffPath(p, tokenOut)
      BY OpeningFields, Zenon
    <3>. QED
      BY <3>1, ExtendedFacts
  <2>. HIDE DEF rs
  <2>3. n \in Nat /\ DOMAIN rs = 1..n /\ \A i \in 1..n : Begun(rs[i], PS, amount, d + 1)
    BY <2>2, LenProperties
  <2>4. \A i \in 1..n : Quote(rs[i].path, rs[i].hops, gasFee) \in E
    <3>1. d + 1 \in 1..(MaxHopDepth + 1)
      BY RouteSearchAssumption
    <3>. HIDE DEF n, rs
    <3>. QED
      BY <2>3, <3>1, BegunQuote
  <2>. HIDE DEF E, n
  <2>5. f \in [1..n -> E]
    BY <2>3, <2>4
  <2>. HIDE DEF f, over
  <2>. QED
    BY <2>1, <2>3, <2>5, Listing
<1>. HIDE DEF O, E, over, m
<1>4. g \in [1..m -> Seq(E)]
  BY <1>2, <1>3
<1>. HIDE DEF g
<1>5. << >> \o g \in Seq(Seq(E))
  BY <1>2, <1>4, Listing
<1>6. FlattenSeq(<< >> \o g) \in Seq(E)
  BY <1>5, FlattenedFacts
<1>. QED
  BY <1>1, <1>6 DEF E

(* What is left after pruning was there before.                            *)
LEMMA PrunedFacts ==
  ASSUME NEW PS \in SUBSET GoodPools, NEW amount, NEW avoided, NEW d,
         NEW partials \in Seq(Openings(PS, amount, avoided, d))
  PROVE  Pruned(partials) \in Seq(Openings(PS, amount, avoided, d))
<1>. DEFINE O == Openings(PS, amount, avoided, d)
            n == Len(partials)
            k == [i \in DOMAIN partials |-> Carried(partials[i])]
            key == Each(partials, Carried)
            sorted == Descending(partials, key)
<1>1. n \in Nat /\ DOMAIN partials = 1..n /\ \A i \in 1..n : partials[i] \in O
  BY LenProperties
<1>2. key = << >> \o k
  BY DEF Each
<1>3. \A p \in O : Carried(p) \in Nat
  BY OpeningFields, Zenon
<1>4. k \in [1..n -> Int]
  BY <1>1, <1>3
<1>. HIDE DEF k
<1>5. key \in [1..n -> Int]
  <2>. HIDE DEF key, n
  <2>. QED
    BY <1>1, <1>2, <1>4, Listing
<1>6. Pruned(partials) = UpTo(sorted, MaxPartials)
  BY DEF Pruned
<1>. HIDE DEF key, O
<1>7. partials \in Seq(O)
  BY DEF O
<1>8. sorted \in Seq(O)
  BY <1>5, <1>7, DescendingFacts
<1>9. MaxPartials \in Nat
  BY RouteSearchAssumption
<1>. HIDE DEF sorted
<1>10. UpTo(sorted, MaxPartials) \in Seq(O)
  BY <1>8, <1>9, UpToFacts
<1>. QED
  BY <1>6, <1>10 DEF O

(* A partial route goes on to tokens that it has not visited, ...          *)
LEMMA ExpandedToFacts ==
  ASSUME NEW PS \in SUBSET GoodPools, NEW graph \in Seq(PS), NEW amount, NEW tokenIn, NEW tokenOut,
         NEW tokens \in Seq(Betweens(tokenIn, tokenOut)), NEW d, NEW p \in Openings(PS, amount, tokenOut, d)
  PROVE  ExpandedTo(graph, p, tokens) \in Seq(Openings(PS, amount, tokenOut, d + 1))
<1>. DEFINE O == Openings(PS, amount, tokenOut, d + 1)
            S == {i \in DOMAIN tokens : tokens[i] \notin ToSet(p.path)}
            W == {t \in Tokens : t # tokenOut /\ OffPath(p, t)}
            some == Unvisited(tokens, p)
            g == [i \in DOMAIN some |-> Extended(graph, p, some[i])]
            m == Len(some)
<1>1. ExpandedTo(graph, p, tokens) = FlattenSeq(<< >> \o g)
  BY DEF ExpandedTo, Each
<1>2. S \in SUBSET (1..Len(tokens)) /\ \A i \in S : tokens[i] \in W
  <2>1. p.path \in Seq(Tokens)
    <3>1. Begun(p, PS, amount, d)
      BY OpeningFields, Zenon
    <3>. QED
      BY <3>1 DEF Begun
  <2>2. \A t : t \notin ToSet(p.path) => OffPath(p, t)
    <3>1. DOMAIN p.path = 1..Len(p.path)
      BY <2>1, LenProperties
    <3>. QED
      BY <3>1 DEF OffPath, ToSet
  <2>3. S \in SUBSET (1..Len(tokens))
    BY LenProperties
  <2>4. \A i \in S : tokens[i] \in Betweens(tokenIn, tokenOut) /\ OffPath(p, tokens[i])
    <3>1. \A i \in S : i \in 1..Len(tokens) /\ tokens[i] \notin ToSet(p.path)
      BY <2>3
    <3>. HIDE DEF S
    <3>. QED
      BY <2>2, <3>1
  <2>. HIDE DEF S
  <2>. QED
    BY <2>3, <2>4 DEF Betweens, Tokens
<1>3. some = Picked(tokens, S)
  BY DEF Unvisited
<1>. HIDE DEF S, W, some
<1>4. some \in Seq(W)
  BY <1>2, <1>3, SomeFacts
<1>5. m \in Nat /\ DOMAIN some = 1..m /\ \A i \in 1..m : some[i] \in W
  BY <1>4, LenProperties
<1>6. ASSUME NEW t \in W PROVE Extended(graph, p, t) \in Seq(O)
  <2>1. t \in Tokens /\ t # tokenOut /\ OffPath(p, t)
    BY DEF W
  <2>. QED
    BY <2>1, ExtendedFacts
<1>. HIDE DEF O, m
<1>7. g \in [1..m -> Seq(O)]
  BY <1>5, <1>6
<1>. HIDE DEF g
<1>8. << >> \o g \in Seq(Seq(O))
  BY <1>5, <1>7, Listing
<1>9. FlattenSeq(<< >> \o g) \in Seq(O)
  BY <1>8, FlattenedFacts
<1>. QED
  BY <1>1, <1>9 DEF O

(* ... and so does each of them.                                           *)
LEMMA ExpandedFacts ==
  ASSUME NEW PS \in SUBSET GoodPools, NEW graph \in Seq(PS), NEW amount, NEW tokenIn, NEW tokenOut,
         NEW tokens \in Seq(Betweens(tokenIn, tokenOut)), NEW d,
         NEW partials \in Seq(Openings(PS, amount, tokenOut, d))
  PROVE  Expanded(graph, tokens, partials) \in Seq(Openings(PS, amount, tokenOut, d + 1))
<1>. DEFINE O == Openings(PS, amount, tokenOut, d)
            P == Openings(PS, amount, tokenOut, d + 1)
            g == [i \in DOMAIN partials |-> ExpandedTo(graph, partials[i], tokens)]
            m == Len(partials)
<1>1. Expanded(graph, tokens, partials) = FlattenSeq(<< >> \o g)
  BY DEF Expanded, Each
<1>2. m \in Nat /\ DOMAIN partials = 1..m /\ \A i \in 1..m : partials[i] \in O
  BY LenProperties
<1>3. \A p \in O : ExpandedTo(graph, p, tokens) \in Seq(P)
  BY ExpandedToFacts
<1>. HIDE DEF O, P, m
<1>4. g \in [1..m -> Seq(P)]
  BY <1>2, <1>3
<1>. HIDE DEF g
<1>5. << >> \o g \in Seq(Seq(P))
  BY <1>2, <1>4, Listing
<1>6. FlattenSeq(<< >> \o g) \in Seq(P)
  BY <1>5, FlattenedFacts
<1>. QED
  BY <1>1, <1>6 DEF P

(* p[k] is what the search has come to at depth k.                         *)
Deepens(p, graph, tokenIn, tokenOut, amount, gasFee) ==
  /\ p[0] = [ results |-> << >>, pruned |-> FALSE,
              partials |-> FirstPartials(graph, Candidates(tokenIn, tokenOut), tokenIn, amount) ]
  /\ \A k \in 1..MaxHopDepth :
       p[k] = Deeper(p[k - 1], graph, Candidates(tokenIn, tokenOut), tokenOut, gasFee, k = MaxHopDepth)

(* The search deepens step by step.  Every route it finds is a chain of    *)
(* hops over distinct tokens, estimated by the code's formulas from the    *)
(* amount asked for; the partial routes have one hop more at every depth.  *)
LEMMA SearchSteps ==
  ASSUME NEW PS \in SUBSET GoodPools, NEW graph \in Seq(PS), NEW amount \in Nat \ {0},
         NEW tokenIn \in Tokens, NEW tokenOut \in Tokens, tokenIn # tokenOut,
         NEW gasFee \in {None} \cup Nat
  PROVE  \E p : /\ Search(graph, tokenIn, tokenOut, amount, gasFee) = p[MaxHopDepth]
                /\ Deepens(p, graph, tokenIn, tokenOut, amount, gasFee)
                /\ p[MaxHopDepth].results \in Seq(Estimates(PS, amount))
<1>. DEFINE tokens == Candidates(tokenIn, tokenOut)
            O(d) == Openings(PS, amount, tokenOut, d)
            E == Estimates(PS, amount)
            V(k) == [results : Seq(E), pruned : BOOLEAN, partials : Seq(O(k + 1))]
            n == MaxHopDepth
            W == UNION {V(k) : k \in 0..n}
            start == [ results |-> << >>, pruned |-> FALSE,
                       partials |-> FirstPartials(graph, tokens, tokenIn, amount) ]
            Next_(d, s) == Deeper(s, graph, tokens, tokenOut, gasFee, d = n)
            Body(f) == [d \in 0..n |-> IF d = 0 THEN start ELSE Next_(d, f[d - 1])]
            G == [d \in 1..n |-> [s \in W |-> IF s \in V(d - 1) THEN Next_(d, s) ELSE s]]
<1>1. n \in Nat
  BY RouteSearchAssumption
<1>2. tokens \in Seq(Betweens(tokenIn, tokenOut))
  BY CandidatesFacts
<1>3. Search(graph, tokenIn, tokenOut, amount, gasFee) = (CHOOSE f : f = Body(f))[n]
  BY DEF Search
<1>. HIDE DEF tokens
<1>4. start \in V(0)
  <2>. DEFINE first == FirstPartials(graph, tokens, tokenIn, amount)
  <2>1. first \in Seq(O(0 + 1))
    <3>1. 0 + 1 = 1
      OBVIOUS
    <3>. QED
      BY <1>2, <3>1, FirstPartialsFacts
  <2>2. << >> \in Seq(E)
    OBVIOUS
  <2>. HIDE DEF first, O, E
  <2>. QED
    BY <2>1, <2>2 DEF first
<1>5. \A d \in 1..n : \A s \in V(d - 1) : Next_(d, s) \in V(d)
  <2>1. ASSUME NEW d \in 1..n, NEW s \in V(d - 1), NEW deepest \in BOOLEAN
        PROVE  Deeper(s, graph, tokens, tokenOut, gasFee, deepest) \in V(d)
    <3>. DEFINE closed == Closed(graph, s.partials, tokenOut, gasFee)
                more == Expanded(graph, tokens, Pruned(s.partials))
                lost == ~deepest /\ Len(s.partials) > MaxPartials
    <3>1. s.results \in Seq(E) /\ s.pruned \in BOOLEAN /\ s.partials \in Seq(O(d))
      <4>1. d - 1 + 1 = d
        BY <1>1
      <4>. HIDE DEF E, O
      <4>. QED
        BY <4>1
    <3>2. closed \in Seq(E)
      BY <3>1, ClosedFacts
    <3>3. more \in Seq(O(d + 1))
      <4>1. Pruned(s.partials) \in Seq(O(d))
        BY <3>1, PrunedFacts
      <4>. QED
        BY <1>2, <4>1, ExpandedFacts
    <3>4. Deeper(s, graph, tokens, tokenOut, gasFee, deepest) =
            [ results |-> s.results \o closed, partials |-> IF deepest THEN << >> ELSE more,
              pruned |-> s.pruned \/ lost ]
      BY DEF Deeper
    <3>. HIDE DEF closed, more, lost, O, E
    <3>5. s.results \o closed \in Seq(E) /\ << >> \in Seq(O(d + 1))
      BY <3>1, <3>2
    <3>6. s.pruned \/ lost \in BOOLEAN
      BY <3>1 DEF lost
    <3>7. (IF deepest THEN << >> ELSE more) \in Seq(O(d + 1))
      BY <3>3, <3>5
    <3>. DEFINE A == Seq(E)
                B == Seq(O(d + 1))
                a == s.results \o closed
                b == IF deepest THEN << >> ELSE more
                c == s.pruned \/ lost
    <3>8. a \in A /\ b \in B /\ c \in BOOLEAN
      BY <3>5, <3>6, <3>7
    <3>. HIDE DEF A, B, a, b, c
    <3>9. [results |-> a, partials |-> b, pruned |-> c] \in [results : A, pruned : BOOLEAN, partials : B]
      BY <3>8
    <3>. QED
      BY <3>4, <3>9 DEF A, B, a, b, c
  <2>2. \A d \in 1..n : (d = n) \in BOOLEAN
    OBVIOUS
  <2>. HIDE DEF V
  <2>. QED
    BY <2>1, <2>2
<1>. HIDE DEF V, Next_, n, start
<1>6. G \in [1..n -> [W -> W]]
  <2>1. ASSUME NEW d \in 1..n, NEW s \in W, s \in V(d - 1) PROVE Next_(d, s) \in W
    <3>1. d \in 0..n
      BY <1>1
    <3>. QED
      BY <1>5, <2>1, <3>1
  <2>. HIDE DEF W
  <2>. QED
    BY <2>1
<1>7. PICK g \in [0..n -> W] : Stepwise(g, n, start, G)
  <2>1. start \in W
    <3>1. 0 \in 0..n
      BY <1>1
    <3>. QED
      BY <1>4, <3>1
  <2>. HIDE DEF G, W
  <2>. QED
    BY <1>1, <1>6, <2>1, StepsExist, Zenon
<1>8. g[0] = start /\ \A k \in 1..n : g[k - 1] \in V(k - 1) => g[k] = Next_(k, g[k - 1])
  <2>1. g[0] = start
    BY <1>7 DEF Stepwise
  <2>2. ASSUME NEW k \in 1..n, g[k - 1] \in V(k - 1) PROVE g[k] = Next_(k, g[k - 1])
    <3>1. k - 1 \in 0..n
      BY <1>1
    <3>2. g[k] = G[k][g[k - 1]]
      <4>. HIDE DEF G, W
      <4>. QED
        BY <1>7 DEF Stepwise
    <3>3. g[k - 1] \in W
      <4>. HIDE DEF W
      <4>. QED
        BY <3>1
    <3>. HIDE DEF W
    <3>. QED
      BY <2>2, <3>2, <3>3
  <2>. QED
    BY <2>1, <2>2
<1>. HIDE DEF W, G
<1>9. \A k \in 0..n : g[k] \in V(k)
  <2>. DEFINE S == {k \in 0..n : g[k] \in V(k)}
  <2>1. 0 \in S
    BY <1>1, <1>4, <1>8
  <2>2. ASSUME NEW k \in 1..n, k - 1 \in S PROVE k \in S
    <3>1. k \in 0..n /\ g[k - 1] \in V(k - 1)
      BY <1>1, <2>2
    <3>. QED
      BY <1>5, <1>8, <3>1
  <2>. HIDE DEF S
  <2>3. \A k \in 0..n : k \in S
    BY <1>1, <2>1, <2>2, Counting
  <2>. QED
    BY <2>3 DEF S
<1>10. g = Body(g)
  <2>1. ASSUME NEW k \in 0..n PROVE g[k] = IF k = 0 THEN start ELSE Next_(k, g[k - 1])
    <3>1. CASE k = 0
      BY <1>8, <3>1
    <3>2. CASE k # 0
      <4>1. k \in 1..n /\ k - 1 \in 0..n
        BY <1>1, <3>2
      <4>. QED
        BY <1>8, <1>9, <3>2, <4>1
    <3>. QED
      BY <3>1, <3>2
  <2>. QED
    BY <2>1
<1>11. PICK p : p = CHOOSE f : f = Body(f)
  OBVIOUS
<1>12. p = Body(p)
  <2>. HIDE DEF Body
  <2>. QED
    BY <1>10, <1>11
<1>13. \A k \in 0..n : p[k] = IF k = 0 THEN start ELSE Next_(k, p[k - 1])
  BY <1>12
<1>14. Search(graph, tokenIn, tokenOut, amount, gasFee) = p[n]
  BY <1>3, <1>11
<1>. HIDE DEF Body
<1>. DEFINE S == {k \in 0..n : p[k] \in V(k)}
<1>15. 0 \in S
  BY <1>1, <1>4, <1>13
<1>16. ASSUME NEW k \in 1..n, k - 1 \in S PROVE k \in S
  <2>1. k \in 0..n /\ k # 0 /\ p[k - 1] \in V(k - 1)
    BY <1>1, <1>16
  <2>. QED
    BY <1>5, <1>13, <2>1
<1>17. p[n] \in V(n)
  <2>. HIDE DEF S
  <2>1. \A k \in 0..n : k \in S
    BY <1>1, <1>15, <1>16, Counting
  <2>. QED
    BY <1>1, <2>1 DEF S
<1>. HIDE DEF E, O
<1>18. p[n].results \in Seq(E)
  BY <1>17 DEF V
<1>19. Deepens(p, graph, tokenIn, tokenOut, amount, gasFee)
  <2>1. 0 \in 0..n /\ p[0] = start
    BY <1>1, <1>13
  <2>2. ASSUME NEW k \in 1..n PROVE p[k] = Next_(k, p[k - 1])
    <3>1. k \in 0..n /\ k # 0
      BY <1>1
    <3>. QED
      BY <1>13, <3>1
  <2>. QED
    BY <2>1, <2>2 DEF Deepens, start, Next_, n, tokens
<1>. QED
  BY <1>14, <1>18, <1>19 DEF E, n

(* Every route the search finds is such a chain.                           *)
LEMMA SearchFacts ==
  ASSUME NEW PS \in SUBSET GoodPools, NEW graph \in Seq(PS), NEW amount \in Nat \ {0},
         NEW tokenIn \in Tokens, NEW tokenOut \in Tokens, tokenIn # tokenOut,
         NEW gasFee \in {None} \cup Nat
  PROVE  Search(graph, tokenIn, tokenOut, amount, gasFee).results \in Seq(Estimates(PS, amount))
<1>1. PICK p : /\ Search(graph, tokenIn, tokenOut, amount, gasFee) = p[MaxHopDepth]
               /\ p[MaxHopDepth].results \in Seq(Estimates(PS, amount))
  BY SearchSteps
<1>. QED
  BY <1>1

(* What is left of some quotes once those that are picked, or not, have    *)
(* been taken out and sorted.                                              *)
LEMMA ToValidateFacts ==
  ASSUME NEW PS \in SUBSET GoodPools, NEW amount, NEW results \in Seq(Estimates(PS, amount))
  PROVE  /\ ToValidate(results) \in Seq(Estimates(PS, amount))
         /\ \A i \in 1..Len(ToValidate(results)) : HasV3(ToValidate(results)[i])
<1>. DEFINE S == {i \in DOMAIN results : HasV3(results[i])}
            E == Estimates(PS, amount)
            W == {q \in E : HasV3(q)}
            v3 == Picked(results, S)
            n == Len(v3)
            k == [i \in DOMAIN v3 |-> v3[i].amountOut]
            key == Each(v3, LAMBDA q : q.amountOut)
            sorted == Descending(v3, key)
            t == UpTo(sorted, TopK)
<1>1. S \in SUBSET (1..Len(results)) /\ \A i \in S : results[i] \in W
  BY LenProperties
<1>2. ToValidate(results) = t
  BY DEF ToValidate
<1>3. key = << >> \o k
  BY DEF Each
<1>4. W \subseteq QuoteSet(PS) /\ W \subseteq E
  BY DEF Estimates
<1>5. \A q \in W : q.amountOut \in Int
  <2>1. \A q \in QuoteSet(PS) : q.amountOut \in Nat
    BY QuoteFields
  <2>. HIDE DEF W
  <2>. QED
    BY <1>4, <2>1
<1>. HIDE DEF S, key
<1>6. v3 \in Seq(W)
  <2>. HIDE DEF W
  <2>1. results \in Seq(E)
    OBVIOUS
  <2>. HIDE DEF E
  <2>. QED
    BY <1>1, <2>1, SomeFacts
<1>7. \A q \in W : HasV3(q)
  OBVIOUS
<1>. HIDE DEF v3, W, E
<1>8. n \in Nat /\ DOMAIN v3 = 1..n /\ \A i \in 1..n : v3[i] \in W
  BY <1>6, LenProperties
<1>9. k \in [1..n -> Int]
  BY <1>5, <1>8
<1>. HIDE DEF k
<1>10. key \in [1..n -> Int]
  <2>. HIDE DEF n
  <2>. QED
    BY <1>3, <1>8, <1>9, Listing
<1>11. sorted \in Seq(W)
  BY <1>6, <1>10, DescendingFacts
<1>12. TopK \in Nat
  BY RouteSearchAssumption
<1>. HIDE DEF sorted
<1>13. t \in Seq(W)
  BY <1>11, <1>12, UpToFacts
<1>. HIDE DEF t
<1>14. t \in Seq(E) /\ \A i \in 1..Len(t) : HasV3(t[i])
  BY <1>4, <1>7, <1>13
<1>. QED
  BY <1>2, <1>14 DEF E

-----------------------------------------------------------------------------
(* Direct quotes.                                                          *)

(* The direct pools are pools of the two tokens.                           *)
LEMMA DirectPoolsFacts ==
  ASSUME NEW PS \in SUBSET GoodPools, NEW graph \in Seq(PS), NEW tokenIn, NEW tokenOut, NEW version
  PROVE  DirectPools(graph, tokenIn, tokenOut, version)
           \in Seq({p \in PS : p.version = version /\ Between(p, tokenIn, tokenOut)})
<1>. DEFINE S == {i \in DOMAIN graph : /\ graph[i].version = version /\ Liquid(graph[i])
                                       /\ Between(graph[i], tokenIn, tokenOut)}
            W == {p \in PS : p.version = version /\ Between(p, tokenIn, tokenOut)}
<1>1. S \in SUBSET (1..Len(graph)) /\ \A i \in S : graph[i] \in W
  BY LenProperties
<1>2. DirectPools(graph, tokenIn, tokenOut, version) = Picked(graph, S)
  BY DEF DirectPools
<1>. HIDE DEF S, W
<1>3. Picked(graph, S) \in Seq(W)
  BY <1>1, SomeFacts
<1>. QED
  BY <1>2, <1>3 DEF W

(* A hop for amount through a pool of both tokens.                         *)
Directs(PS, tokenIn, tokenOut, amount) ==
  {h \in Hops(PS) : h.amountIn = amount /\ Between(h.pool, tokenIn, tokenOut)}

(* A quote over one of the hops in H.                                      *)
OverOne(PS, H, tokenIn, amount) ==
  {q \in QuoteSet(PS) : /\ q.amountIn = amount /\ Len(q.hops) = 1
                         /\ q.hops[1] \in H /\ q.path[1] = tokenIn}

(* Every direct quote is over one of the hops that pay.                    *)
LEMMA DirectQuotesFacts ==
  ASSUME NEW PS \in SUBSET GoodPools, NEW tokenIn \in Tokens, NEW tokenOut \in Tokens, tokenIn # tokenOut,
         NEW amount \in Nat \ {0}, NEW gasFee \in {None} \cup Nat,
         NEW H \in SUBSET Directs(PS, tokenIn, tokenOut, amount), NEW hops \in Seq(H)
  PROVE  DirectQuotes(hops, tokenIn, tokenOut, gasFee) \in Seq(OverOne(PS, H, tokenIn, amount))
<1>. DEFINE E == OverOne(PS, H, tokenIn, amount)
            P == {h \in H : h.amountOut > 0}
            some == Paying(hops)
            n == Len(some)
            one(h) == Quote(<<tokenIn, tokenOut>>, <<h>>, gasFee)
            g == [i \in DOMAIN some |-> one(some[i])]
<1>1. DirectQuotes(hops, tokenIn, tokenOut, gasFee) = << >> \o g
  BY DEF DirectQuotes, Each
<1>2. some \in Seq(P)
  BY PayingFacts
<1>. HIDE DEF some
<1>3. n \in Nat /\ DOMAIN some = 1..n /\ \A i \in 1..n : some[i] \in P
  BY <1>2, LenProperties
<1>4. ASSUME NEW h \in P PROVE one(h) \in E
  <2>. DEFINE path == <<tokenIn, tokenOut>>
              only == <<h>>
              q == one(h)
  <2>1. h \in Hops(PS) /\ Between(h.pool, tokenIn, tokenOut) /\ h.amountIn = amount /\ h.amountOut > 0 /\ h \in H
    BY DEF Directs
  <2>2. path \in Seq(Tokens) /\ Len(path) = 2 /\ path[1] = tokenIn /\ path[2] = tokenOut
    OBVIOUS
  <2>3. only \in Seq(Hops(PS)) /\ Len(only) = 1 /\ only[1] = h
    BY <2>1
  <2>4. h.amountOut \in Nat
    BY <2>1 DEF Hops
  <2>5. Head(only) = h /\ Last(only) = h
    BY DEF Last
  <2>6. q = [path |-> path, hops |-> only, gasPrice |-> gasFee, amountIn |-> amount, amountOut |-> h.amountOut]
    BY <2>1, <2>5 DEF Quote
  <2>7. (\A i \in 1..1 : i = 1) /\ (\A i \in 1..2 : i = 1 \/ i = 2) /\ 1 + 1 = 2
    OBVIOUS
  <2>. HIDE DEF path, only, q
  <2>8. Chained(path, only)
    BY <2>1, <2>2, <2>3, <2>7 DEF Chained
  <2>9. q \in QuoteSet(PS)
    <3>. DEFINE A == Seq(Tokens)
                B == Seq(Hops(PS))
    <3>1. path \in A /\ only \in B
      BY <2>2, <2>3
    <3>. HIDE DEF A, B
    <3>2. q \in [path : A, hops : B, gasPrice : {None} \cup Nat, amountIn : Nat \ {0}, amountOut : Nat \ {0}]
      BY <2>1, <2>4, <2>6, <3>1
    <3>3. Chained(q.path, q.hops) /\ q.amountIn = q.hops[1].amountIn
          /\ q.amountOut = q.hops[Len(q.hops)].amountOut
      BY <2>1, <2>3, <2>6, <2>8
    <3>4. Len(q.hops) <= MaxHopDepth + 1
      <4>1. Len(q.hops) = 1
        BY <2>3, <2>6
      <4>. QED
        BY <4>1, RouteSearchAssumption
    <3>. QED
      BY <3>2, <3>3, <3>4 DEF QuoteSet, A, B
  <2>10. q \in E
    BY <2>1, <2>2, <2>3, <2>6, <2>9 DEF OverOne
  <2>. QED
    BY <2>10 DEF q
<1>. HIDE DEF E, P, one, n
<1>5. g \in [1..n -> E]
  BY <1>3, <1>4
<1>. HIDE DEF g
<1>6. << >> \o g \in Seq(E)
  BY <1>3, <1>5, Listing
<1>. QED
  BY <1>1, <1>6 DEF E

=============================================================================
