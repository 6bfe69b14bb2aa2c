--------------------------- MODULE SplitOptimizer ---------------------------
(***************************************************************************)
(* split-optimizer.ts: dividing an amount over several routes by moving it *)
(* from the route whose next unit earns least to the one where it earns    *)
(* most.  The optimizer's state is a record [status, legs]; it is "going", *)
(* "settled", or "failed" where the code returns null.                     *)
(***************************************************************************)
EXTENDS QuoteMath

CONSTANTS
  MaxSplitLegs,     \* maxSplitLegs
  MaxRoutes,        \* MAX_ROUTES_CAP
  Convergence,      \* convergenceThresholdBps
  MaxIterations,    \* maxIterations
  MinLegRatio,      \* minLegRatioBps
  SplitOverhead,    \* GAS_PER_SPLIT_OVERHEAD
  EighteenDecimals  \* the output token has 18 decimals

ASSUME SplitAssumption ==
  /\ MaxSplitLegs \in Nat /\ MaxRoutes \in Nat /\ MaxIterations \in Nat /\ Convergence \in Nat
  /\ SplitOverhead \in Nat /\ EighteenDecimals \in BOOLEAN
  /\ MinLegRatio \in Nat /\ MinLegRatio >= 2 /\ MaxRoutes <= 5000

Plus(values) ==
  LET sum[k \in 0..Len(values)] == IF k = 0 THEN 0 ELSE sum[k - 1] + values[k]
  IN  sum[Len(values)]

MinAllocation(amount) == (amount * MinLegRatio) \div 10000

(* A route that pays nothing for its share has no marginal output.         *)
LegOf(route, allocated, quote) ==
  [ route |-> route, allocated |-> allocated, quote |-> quote,
    marginal |-> IF quote = None THEN 0 ELSE Marginal(quote) ]

Leg(route, allocated) == LegOf(route, allocated, Recomputed(route, allocated))

Failed == [status |-> "failed", legs |-> << >>]

(* The state with another leg i, or after giving leg i more (or less).     *)
Replaced(state, i, leg) == IF leg.quote = None THEN Failed ELSE [state EXCEPT !.legs[i] = leg]

GivenMore(state, i, more) ==
  IF state = Failed THEN Failed
  ELSE Replaced(state, i, Leg(state.legs[i].route, state.legs[i].allocated + more))

-----------------------------------------------------------------------------
(* optimizeSplitMPE.                                                       *)

EqualParts(n, amount) ==
  [i \in 1..n |-> IF i = n THEN amount - (n - 1) * (amount \div n) ELSE amount \div n]

Allocated(legs) == Plus(Each(legs, LAMBDA l : l.allocated))

(* legs are the routes that pay something for their share: the best one    *)
(* carries what the others were to carry.                                  *)
Started(legs, amount) ==
  LET lost == amount - Allocated(legs)
      best == Descending(Reverse(legs), Each(Reverse(legs), LAMBDA l : l.marginal))
  IN IF Len(legs) < 2 THEN Failed
     ELSE IF lost > 0 THEN GivenMore([status |-> "going", legs |-> best], 1, lost)
     ELSE [status |-> "going", legs |-> legs]

Start(routes, amount, allocations) ==
  LET legs == << >> \o [i \in DOMAIN routes |-> Leg(routes[i], allocations[i])]
  IN  Started(Picked(legs, {i \in DOMAIN legs : legs[i].quote # None}), amount)

First(legs, i) == \A j \in 1..(i - 1) : legs[j].marginal # legs[i].marginal
Highest(legs) == CHOOSE i \in DOMAIN legs :
  First(legs, i) /\ \A j \in DOMAIN legs : legs[j].marginal <= legs[i].marginal
Lowest(legs) == CHOOSE i \in DOMAIN legs :
  First(legs, i) /\ \A j \in DOMAIN legs : legs[j].marginal >= legs[i].marginal

(* What a removed leg carried goes to the best of the others.              *)
WithoutLeg(rest, removed) == GivenMore(rest, Highest(rest.legs), removed.allocated)
Without(state, i) ==
  WithoutLeg([state EXCEPT !.legs = Picked(@, DOMAIN @ \ {i})], state.legs[i])

Moved(state, from, to, moved) == GivenMore(GivenMore(state, from, -moved), to, moved)

(* In basis points of the higher one.                                      *)
Spread(high, low) == ((high.marginal - low.marginal) * 10000) \div high.marginal

(* One iteration, between the legs that earn most and least.               *)
Shifted(state, amount, high, low) ==
  LET spread == Spread(state.legs[high], state.legs[low])
      wanted == (amount * spread) \div 20000
      spare  == state.legs[low].allocated - MinAllocation(amount)
      moved  == Least(IF wanted > 1 THEN wanted ELSE 1, spare)
  IN IF \/ high = low \/ state.legs[high].marginal <= 0
        \/ spread <= Convergence
        \/ spare <= 0 /\ Len(state.legs) = 2
     THEN [state EXCEPT !.status = "settled"]
     ELSE IF spare <= 0 THEN Without(state, low)
     ELSE Moved(state, low, high, moved)

Improved(state, amount) ==
  IF state.status = "going" THEN Shifted(state, amount, Highest(state.legs), Lowest(state.legs))
  ELSE state

(* Legs that ended below the minimum are removed while there are three.    *)
Strengthened(state, amount) ==
  LET weak == {i \in DOMAIN state.legs : state.legs[i].allocated < MinAllocation(amount)}
  IN IF weak = {} \/ Len(state.legs) <= 2 THEN state
     ELSE Without(state, CHOOSE i \in weak : \A j \in weak : i <= j)

StrengthenedAll(state, amount) ==
  LET after[k \in 0..Len(state.legs)] ==
        IF k = 0 THEN state ELSE Strengthened(after[k - 1], amount)
  IN  after[Len(state.legs)]

ImprovedAll(state, amount) ==
  LET after[k \in 0..MaxIterations] == IF k = 0 THEN state ELSE Improved(after[k - 1], amount)
  IN  after[MaxIterations]

(* The legs, or none.                                                      *)
Optimized(routes, amount, allocations) ==
  IF Len(routes) < 2 \/ amount <= 0 THEN << >>
  ELSE StrengthenedAll(ImprovedAll(Start(routes, amount, allocations), amount), amount).legs

(* optimizeSplitMPEGreedy: the best route first carries all, and each of   *)
(* the others takes an equal share from it if it pays for that.            *)
EqualShare(n, amount) == (amount * (10000 \div n)) \div 10000

PayingRoutes(sorted, share) ==
  Picked(sorted, {i \in DOMAIN sorted : i = 1 \/ Recomputed(sorted[i], share) # None})

GreedyAllocations(n, amount, share) ==
  [i \in 1..n |-> IF i = 1 THEN amount - (n - 1) * share ELSE share]

FromGreedy(routes, amount, allocations) ==
  IF Len(routes) < 2 \/ Recomputed(routes[1], allocations[1]) = None THEN << >>
  ELSE Optimized(routes, amount, allocations)

GreedyWith(routes, amount, share) ==
  IF share <= 0 THEN << >>
  ELSE FromGreedy(routes, amount, GreedyAllocations(Len(routes), amount, share))

Greedy(routes, amount, share) ==
  GreedyWith(PayingRoutes(Descending(routes, Each(routes, LAMBDA r : r.amountOut)), share), amount, share)

-----------------------------------------------------------------------------
(* findBestSplit.                                                          *)

Signature(q) == [i \in DOMAIN q.hops |-> q.hops[i].pool.id]

(* One candidate for each sequence of pools.                               *)
Deduplicated(candidates) ==
  LET seen(i) == \E j \in 1..(i - 1) : Signature(candidates[j]) = Signature(candidates[i])
  IN  UpTo(Picked(candidates, {i \in DOMAIN candidates : ~seen(i)}), MaxRoutes)

TotalOut(legs) == Plus(Each(legs, LAMBDA l : l.quote.amountOut))

Pairs(n) ==
  LET pairs == {p \in (1..n) \X (1..n) : p[1] < p[2]}
  IN  Enumerated(pairs, {e \in pairs \X pairs :
         e[1][1] < e[2][1] \/ (e[1][1] = e[2][1] /\ e[1][2] < e[2][2])})

Together(routes, amount) ==
  <<Optimized(routes, amount, EqualParts(Len(routes), amount)),
    Greedy(routes, amount, EqualShare(Len(routes), amount))>>

(* Every pair, then all routes from equal parts, then from the greedy start. *)
Attempts(routes, amount) ==
  LET limit == Least(IF MaxSplitLegs > 2 THEN MaxSplitLegs ELSE 2, MaxRoutes)
      two(p) == Optimized(<<routes[p[1]], routes[p[2]]>>, amount, EqualParts(2, amount))
  IN Each(Pairs(Len(routes)), two)
       \o IF Len(routes) < 3 \/ limit < 3 THEN << >> ELSE Together(UpTo(routes, limit), amount)

(* Variant: every share is rounded down.                                   *)
RoundedRatios(legs) ==
  LET total == Plus(Each(legs, LAMBDA l : l.allocated))
  IN [i \in DOMAIN legs |-> (legs[i].allocated * 10000) \div total]

(* buildSplitResult: the shares, the last of which takes what is left.     *)
Ratios(legs) ==
  LET total   == Plus(Each(legs, LAMBDA l : l.allocated))
      part(i) == (legs[i].allocated * 10000) \div total
  IN [i \in DOMAIN legs |->
        IF i = Len(legs) THEN 10000 - Plus([j \in 1..(i - 1) |-> part(j)]) ELSE part(i)]

SplitGas(legs) ==
  Plus(Each(legs, LAMBDA l : GasUnits(l.quote))) + SplitOverhead * (Len(legs) - 1)

(* What a split earns must pay for what it costs more than one route.      *)
WorthIt(single, legs, rate) ==
  LET extra     == (SplitGas(legs) - GasUnits(single)) * (IF single.gasPrice = None THEN 0 ELSE single.gasPrice)
      advantage == TotalOut(legs) - single.amountOut
  IN /\ advantage > 0
     /\ extra > 0 => IF rate # None THEN advantage > InOutput(extra, rate)
                     ELSE EighteenDecimals => advantage > extra

Preferred(attempts) ==
  LET best[k \in 0..Len(attempts)] ==
        IF k = 0 THEN << >>
        ELSE IF attempts[k] # << >> /\ TotalOut(attempts[k]) > TotalOut(best[k - 1])
        THEN attempts[k] ELSE best[k - 1]
  IN  best[Len(attempts)]

(* A split is [amountIn, amountOut, legs, ratios], its legs being quotes,  *)
(* the largest first.                                                      *)
SplitOf(legs, amount, ratios, order) ==
  [ amountIn |-> amount, amountOut |-> TotalOut(legs),
    legs |-> Each(order, LAMBDA i : legs[i].quote), ratios |-> Each(order, LAMBDA i : ratios[i]) ]

LargestFirst(legs, amount, ratios) ==
  SplitOf(legs, amount, ratios,
          Descending([i \in DOMAIN legs |-> i], ratios))

IfWorthIt(single, legs, amount, rate) ==
  IF legs = << >> THEN None
  ELSE IF WorthIt(single, legs, rate) THEN LargestFirst(legs, amount, Ratios(legs)) ELSE None

(* The split, or null; candidates come best first.                         *)
BestSplit(candidates, amount, rate) ==
  IF Len(candidates) < 2 THEN None
  ELSE IfWorthIt(candidates[1], Preferred(Attempts(Deduplicated(candidates), amount)), amount, rate)
=============================================================================
