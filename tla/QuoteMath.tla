------------------------------ MODULE QuoteMath ------------------------------
(***************************************************************************)
(* quote-math.ts and marginal.ts: what a pool pays, what one more unit     *)
(* would earn, and how quotes compare.  A pool is the PoolNode the code    *)
(* keeps; a hop is a PriceSource: a pool with what went in and came out.   *)
(*                                                                         *)
(* The fixed-point scales and the fee denominators are parameters, so that *)
(* small instances stay within small numbers.  Amounts are in raw units;   *)
(* prices for display and the price impact are left out.                   *)
(***************************************************************************)
EXTENDS Integers, Sequences, FiniteSets, SequencesExt, Orders

CONSTANTS
  None,           \* null
  V2Fee,          \* V2_FEE_NUMERATOR, V2_FEE_DENOMINATOR by protocol
  FeeUnit,        \* 1_000_000: the unit of a V3 fee tier
  Scale,          \* Q96
  MarginalScale,  \* Q128
  GasBase, GasCost, GasPerHop   \* estimateGasForRoute

ASSUME QuoteMathAssumption ==
  /\ \A p \in DOMAIN V2Fee : V2Fee[p].num \in Nat \ {0} /\ V2Fee[p].den \in Nat
                             /\ V2Fee[p].num < V2Fee[p].den
  /\ FeeUnit \in Nat \ {0} /\ Scale \in Nat \ {0} /\ MarginalScale \in Nat \ {0}
  /\ GasBase \in Nat /\ GasPerHop \in Nat /\ GasCost \in [{"v2", "v3"} -> Nat]

(* f of every element of a sequence.                                       *)
Each(s, f(_)) == << >> \o [i \in DOMAIN s |-> f(s[i])]

(* The elements of s at the indices in S, in their order.                  *)
Picked(s, S) == Each(Ascending(S), LAMBDA i : s[i])

(* s with its indices in the order of before, a set of pairs of them.      *)
Arranged(s, before) == Each(Enumerated(DOMAIN s, before), LAMBDA i : s[i])

(* The highest key first; those with the same key keep their order.        *)
Descending(s, key) ==
  Arranged(s, {p \in (DOMAIN s) \X (DOMAIN s) :
                 key[p[1]] > key[p[2]] \/ (key[p[1]] = key[p[2]] /\ p[1] < p[2])})

Least(a, b) == IF a < b THEN a ELSE b
UpTo(s, n) == SubSeq(s, 1, Least(Len(s), n))

-----------------------------------------------------------------------------
(* One hop.                                                                *)

V2Out(amount, reserveIn, reserveOut, fee) ==
  IF amount = 0 \/ reserveIn = 0 \/ reserveOut = 0 THEN 0
  ELSE (amount * fee.num * reserveOut) \div (reserveIn * fee.den + amount * fee.num)

(* Within one tick: the price moves as if the liquidity had no end.        *)
V3Out(sqrtPrice, liquidity, amount, fee, zeroForOne) ==
  LET paid == (amount * (FeeUnit - fee)) \div FeeUnit
      next == IF zeroForOne
              THEN (liquidity * Scale * sqrtPrice) \div (liquidity * Scale + paid * sqrtPrice)
              ELSE sqrtPrice + (paid * Scale) \div liquidity
  IN IF sqrtPrice = 0 \/ liquidity = 0 \/ paid <= 0 THEN 0
     ELSE IF zeroForOne THEN (liquidity * (sqrtPrice - next)) \div Scale
     ELSE (liquidity * Scale) \div sqrtPrice - (liquidity * Scale) \div next

ReserveIn(pool, tokenIn)  == IF tokenIn = pool.token0 THEN pool.reserve0 ELSE pool.reserve1
ReserveOut(pool, tokenIn) == IF tokenIn = pool.token0 THEN pool.reserve1 ELSE pool.reserve0

HopOut(pool, tokenIn, amount) ==
  IF pool.version = "v2"
  THEN V2Out(amount, ReserveIn(pool, tokenIn), ReserveOut(pool, tokenIn), V2Fee[pool.protocol])
  ELSE V3Out(pool.sqrtPrice, pool.liquidity, amount, pool.fee, tokenIn = pool.token0)

V2Marginal(amount, reserveIn, reserveOut, fee) ==
  LET denominator == reserveIn * fee.den + fee.num * amount
  IN IF reserveIn = 0 \/ reserveOut = 0 THEN 0
     ELSE (reserveOut * fee.num * reserveIn * fee.den * MarginalScale) \div (denominator * denominator)

V3Marginal(sqrtPrice, liquidity, amount, fee, zeroForOne) ==
  LET paid   == (amount * (FeeUnit - fee)) \div FeeUnit
      earned == (FeeUnit - fee) * liquidity * liquidity
      down   == liquidity * Scale + paid * sqrtPrice
      up     == sqrtPrice * liquidity + paid * Scale
  IN IF sqrtPrice = 0 \/ liquidity = 0 THEN 0
     ELSE IF zeroForOne
     THEN (earned * sqrtPrice * sqrtPrice * MarginalScale) \div (down * down * Scale * FeeUnit)
     ELSE (earned * Scale * Scale * MarginalScale) \div (up * up * FeeUnit)

HopMarginal(pool, tokenIn, amount) ==
  IF pool.version = "v2"
  THEN V2Marginal(amount, ReserveIn(pool, tokenIn), ReserveOut(pool, tokenIn), V2Fee[pool.protocol])
  ELSE V3Marginal(pool.sqrtPrice, pool.liquidity, amount, pool.fee, tokenIn = pool.token0)

(* What a pool counts for in liquidityScore.                               *)
Depth(pool) == IF pool.version = "v2" THEN pool.reserve0 + pool.reserve1 ELSE pool.liquidity

-----------------------------------------------------------------------------
(* A route: path[i] goes into hops[i].                                     *)

Hop(pool, tokenIn, amount) ==
  [pool |-> pool, amountIn |-> amount, amountOut |-> HopOut(pool, tokenIn, amount)]

Quote(path, hops, gasPrice) ==
  [ path |-> path, hops |-> hops, gasPrice |-> gasPrice,
    amountIn |-> Head(hops).amountIn, amountOut |-> Last(hops).amountOut ]

HasV3(q) == \E i \in DOMAIN q.hops : q.hops[i].pool.version = "v3"
Pools(q) == {q.hops[i].pool.id : i \in DOMAIN q.hops}

(* Variant: every hop is given the amount of the first.                    *)
NotRolled(q, amount) ==
  << >> \o [i \in DOMAIN q.hops |-> Hop(q.hops[i].pool, q.path[i], amount)]

(* The hops of q for another amount, each fed with what the last one paid. *)
Rolled(q, amount) ==
  LET hop[i \in 1..Len(q.hops)] ==
        Hop(q.hops[i].pool, q.path[i], IF i = 1 THEN amount ELSE hop[i - 1].amountOut)
  IN  << >> \o hop

WithHops(q, hops) ==
  IF \E i \in DOMAIN hops : hops[i].amountOut <= 0 THEN None ELSE Quote(q.path, hops, q.gasPrice)

(* recomputeQuoteForAmount: null as soon as a hop pays nothing.            *)
Recomputed(q, amount) == IF amount <= 0 THEN None ELSE WithHops(q, Rolled(q, amount))

(* marginalOutputForQuote: the product along the route, of the hops at the *)
(* amounts of a quote.                                                     *)
Marginal(at) ==
  LET product[i \in 0..Len(at.hops)] ==
        IF i = 0 THEN MarginalScale
        ELSE (product[i - 1] * HopMarginal(at.hops[i].pool, at.path[i], at.hops[i].amountIn))
               \div MarginalScale
  IN  product[Len(at.hops)]

GasUnits(q) ==
  LET gas[i \in 0..Len(q.hops)] ==
        IF i = 0 THEN GasBase ELSE gas[i - 1] + GasCost[q.hops[i].pool.version]
  IN  gas[Len(q.hops)] + (Len(q.hops) - 1) * GasPerHop

GasCostWei(q) == IF q.gasPrice = None THEN 0 ELSE GasUnits(q) * q.gasPrice

LiquidityScore(q) ==
  LET score[i \in 1..Len(q.hops)] ==
        IF i = 1 THEN Depth(q.hops[1].pool) ELSE Least(score[i - 1], Depth(q.hops[i].pool))
  IN  score[Len(q.hops)]

-----------------------------------------------------------------------------
(* Comparing.  rate is what native coins are worth in the output token.    *)

InOutput(gas, rate) == (gas * rate.out) \div rate.in

NetOutput(q, rate) ==
  IF rate = None THEN q.amountOut ELSE q.amountOut - InOutput(GasCostWei(q), rate)

(* compareQuotes(a, b) < 0, but for the last tie, which the code breaks by *)
(* price impact and the model by the order of the quotes.                  *)
Better(a, b, rate) ==
  \/ NetOutput(a, rate) > NetOutput(b, rate)
  \/ /\ NetOutput(a, rate) = NetOutput(b, rate)
     /\ \/ rate = None /\ GasCostWei(a) < GasCostWei(b)
        \/ /\ rate # None \/ GasCostWei(a) = GasCostWei(b)
           /\ LiquidityScore(a) > LiquidityScore(b)

Ordered(quotes, rate) ==
  Arranged(quotes, {p \in (DOMAIN quotes) \X (DOMAIN quotes) :
                      \/ Better(quotes[p[1]], quotes[p[2]], rate)
                      \/ ~Better(quotes[p[2]], quotes[p[1]], rate) /\ p[1] < p[2]})
=============================================================================
