----------------------------- MODULE RouteSearch -----------------------------
(***************************************************************************)
(* pool-discovery.ts: direct quotes, the search for routes over            *)
(* intermediate tokens, and their validation against the quoters, one hop  *)
(* at a time.  What an RPC answers is a parameter here; PriceService says  *)
(* when it is read.                                                        *)
(***************************************************************************)
EXTENDS QuoteMath

CONSTANTS
  Intermediates,   \* intermediateTokenAddresses, a sequence of tokens
  MinReserve,      \* minV2ReserveThreshold
  MinLiquidity,    \* minV3LiquidityThreshold
  MaxHopDepth,     \* maxHopDepth
  MaxPartials,     \* MAX_PARTIALS_PER_DEPTH
  TopK             \* VALIDATION_TOP_K

ASSUME RouteSearchAssumption ==
  /\ Intermediates \in Seq(ToSet(Intermediates)) /\ MinReserve \in Nat /\ MinLiquidity \in Nat
  /\ MaxHopDepth \in 1..4 /\ MaxPartials \in Nat \ {0} /\ TopK \in Nat \ {0}

-----------------------------------------------------------------------------
(* The pools that were read, in the order of the factory calls.            *)

Between(pool, a, b) == {pool.token0, pool.token1} = {a, b}

Liquid(pool) ==
  IF pool.version = "v2" THEN pool.reserve0 >= MinReserve /\ pool.reserve1 >= MinReserve
  ELSE pool.liquidity >= MinLiquidity

(* Those of hops that pay something.                                       *)
Paying(hops) == Picked(hops, {i \in DOMAIN hops : hops[i].amountOut > 0})

(* computeLocalQuotes: a hop through each pool that pays something.        *)
LocalHops(graph, tokenIn, tokenOut, amount) ==
  LET pools == Picked(graph, {i \in DOMAIN graph : Between(graph[i], tokenIn, tokenOut) /\ Liquid(graph[i])})
  IN  Paying(Each(pools, LAMBDA p : Hop(p, tokenIn, amount)))

(* The direct pools: V2 quoted from what was read, V3 left to the quoter.  *)
DirectPools(graph, tokenIn, tokenOut, version) ==
  Picked(graph, {i \in DOMAIN graph : /\ graph[i].version = version /\ Liquid(graph[i])
                                      /\ Between(graph[i], tokenIn, tokenOut)})

DirectQuotes(hops, tokenIn, tokenOut, gasPrice) ==
  Each(Paying(hops), LAMBDA h : Quote(<<tokenIn, tokenOut>>, <<h>>, gasPrice))

-----------------------------------------------------------------------------
(* Iterative deepening.  A partial route is [path, hops].                  *)

Candidates(tokenIn, tokenOut) ==
  Picked(Intermediates, {i \in DOMAIN Intermediates : Intermediates[i] \notin {tokenIn, tokenOut}})

Reached(partial) == Last(partial.path)
Carried(partial) == Last(partial.hops).amountOut

Extended(graph, partial, token) ==
  Each(LocalHops(graph, Reached(partial), token, Carried(partial)),
       LAMBDA h : [path |-> Append(partial.path, token), hops |-> Append(partial.hops, h)])

FirstPartials(graph, tokens, tokenIn, amount) ==
  FlattenSeq(Each(tokens, LAMBDA t :
    Each(LocalHops(graph, tokenIn, t, amount), LAMBDA h : [path |-> <<tokenIn, t>>, hops |-> <<h>>])))

Closed(graph, partials, tokenOut, gasPrice) ==
  FlattenSeq(Each(partials, LAMBDA p :
    Each(Extended(graph, p, tokenOut), LAMBDA r : Quote(r.path, r.hops, gasPrice))))

(* Only the partial routes that carry most, in units of whatever token     *)
(* they have reached, are expanded.                                        *)
Pruned(partials) == UpTo(Descending(partials, Each(partials, Carried)), MaxPartials)

Unvisited(tokens, partial) == Picked(tokens, {i \in DOMAIN tokens : tokens[i] \notin ToSet(partial.path)})

ExpandedTo(graph, partial, tokens) ==
  FlattenSeq(Each(Unvisited(tokens, partial), LAMBDA t : Extended(graph, partial, t)))

Expanded(graph, tokens, partials) ==
  FlattenSeq(Each(partials, LAMBDA p : ExpandedTo(graph, p, tokens)))

(* Variant: pruned before it is closed.                                    *)
PrunesFirst(s, graph, tokens, tokenOut, gasPrice, deepest) ==
  LET kept == Pruned(s.partials)
  IN [ results |-> s.results \o Closed(graph, kept, tokenOut, gasPrice),
       partials |-> IF deepest THEN << >> ELSE Expanded(graph, tokens, kept),
       pruned |-> s.pruned \/ Len(s.partials) > MaxPartials ]

(* Each depth closes the partial routes first, then prunes and expands     *)
(* them.  pruned records whether anything was lost to it.                  *)
Deeper(s, graph, tokens, tokenOut, gasPrice, deepest) ==
  [ results |-> s.results \o Closed(graph, s.partials, tokenOut, gasPrice),
    partials |-> IF deepest THEN << >> ELSE Expanded(graph, tokens, Pruned(s.partials)),
    pruned |-> s.pruned \/ (~deepest /\ Len(s.partials) > MaxPartials) ]

Search(graph, tokenIn, tokenOut, amount, gasPrice) ==
  LET tokens == Candidates(tokenIn, tokenOut)
      at[d \in 0..MaxHopDepth] ==
        IF d = 0 THEN [ results |-> << >>, pruned |-> FALSE,
                        partials |-> FirstPartials(graph, tokens, tokenIn, amount) ]
        ELSE Deeper(at[d - 1], graph, tokens, tokenOut, gasPrice, d = MaxHopDepth)
  IN  at[MaxHopDepth]

(* What goes to the quoters: the best of the routes with a V3 hop.         *)
ToValidate(results) ==
  LET v3 == Picked(results, {i \in DOMAIN results : HasV3(results[i])})
  IN  UpTo(Descending(v3, Each(v3, LAMBDA q : q.amountOut)), TopK)

-----------------------------------------------------------------------------
(* batchValidateRoutes.  Its state: the routes, the hop it is at, the hops *)
(* validated so far of each route, and the routes that failed.             *)

Validation(routes) ==
  [routes |-> routes, hop |-> 1, valid |-> [r \in DOMAIN routes |-> << >>], failed |-> {}]

(* Nothing to do for routes that are V2 throughout.                        *)
Validating(v) ==
  /\ \E r \in DOMAIN v.routes : HasV3(v.routes[r])
  /\ \E r \in DOMAIN v.routes : v.hop <= Len(v.routes[r].hops)

Active(v) == {r \in DOMAIN v.routes : r \notin v.failed /\ v.hop <= Len(v.routes[r].hops)}

PoolAt(v, r) == v.routes[r].hops[v.hop].pool
TokenAt(v, r) == v.routes[r].path[v.hop]
AmountAt(v, r) == IF v.hop = 1 THEN v.routes[r].amountIn ELSE Last(v.valid[r]).amountOut

(* The routes whose next hop goes to a quoter, in one multicall.           *)
Batch(v) == {r \in Active(v) : PoolAt(v, r).version = "v3"}

(* Variant: a route whose quoter call failed keeps its estimate.           *)
KeepsEstimate(v, quoted) ==
  LET out(r) == IF r \in DOMAIN quoted /\ quoted[r] > 0 THEN quoted[r]
                ELSE HopOut(PoolAt(v, r), TokenAt(v, r), AmountAt(v, r))
      hop(r) == [pool |-> PoolAt(v, r), amountIn |-> AmountAt(v, r), amountOut |-> out(r)]
  IN [v EXCEPT !.hop = @ + 1,
               !.valid = [r \in DOMAIN @ |-> IF r \in Active(v) THEN Append(@[r], hop(r)) ELSE @[r]]]

(* Variant: the next hop is only turned to when a quoter was asked.        *)
StaysWithV2(v, quoted) ==
  [KeepsEstimate(v, quoted) EXCEPT !.hop = IF Batch(v) = {} THEN v.hop ELSE @]

(* quoted[r]: what the quoter says of the route's hop, 0 if it failed.     *)
HopValidated(v, quoted) ==
  LET out(r) == IF r \in DOMAIN quoted THEN quoted[r]
                ELSE HopOut(PoolAt(v, r), TokenAt(v, r), AmountAt(v, r))
      hop(r) == [pool |-> PoolAt(v, r), amountIn |-> AmountAt(v, r), amountOut |-> out(r)]
      good   == {r \in Active(v) : out(r) > 0}
  IN [v EXCEPT !.hop = @ + 1,
               !.valid = [r \in DOMAIN @ |-> IF r \in good THEN Append(@[r], hop(r)) ELSE @[r]],
               !.failed = @ \cup (Active(v) \ good)]

(* The routes that passed, with what the chain said of them.               *)
Validated(v) ==
  IF ~\E r \in DOMAIN v.routes : HasV3(v.routes[r]) THEN v.routes
  ELSE Each(Ascending(DOMAIN v.routes \ v.failed),
            LAMBDA r : Quote(v.routes[r].path, v.valid[r], v.routes[r].gasPrice))
=============================================================================
