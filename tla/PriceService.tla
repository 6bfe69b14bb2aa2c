---------------------------- MODULE PriceService ----------------------------
(***************************************************************************)
(* price-service.ts: one request for a price, from the gas price to the    *)
(* answer.  Direct pools and longer routes are read at the same time, each *)
(* of their reads may fail in part or as a whole, and sees the chain as it *)
(* is then.  The calls that find the pools and read them are one step, and *)
(* so are the calls to the quoters that are awaited together; otherwise a  *)
(* step runs from one await to the next.                                   *)
(*                                                                         *)
(* External: the chain, where others trade.  A V3 pool pays as the virtual *)
(* reserves of its price and liquidity say, for at most reach of what goes *)
(* in; the code's estimate knows nothing of reach.                         *)
(***************************************************************************)
EXTENDS RouteSearch, SplitOptimizer

CONSTANTS
  Order,        \* the ids of the pools, in the order of the factory calls
  Markets,      \* what the pools may be when a request comes: [id -> pool]
  TokenIn, TokenOut, WrappedNative,
  Requests,     \* [amount, versions, force, split]
  GasPrice,     \* the gas price, when it can be read
  Traded,       \* bound: the pools others trade in meanwhile
  TradeSize,    \* what another trader puts in
  MaxTrades     \* bound: trades while the request is worked on

PoolTypes ==
  [ id : ToSet(Order), version : {"v2", "v3"}, protocol : DOMAIN V2Fee,
    token0 : STRING, token1 : STRING, fee : 0..FeeUnit, reserve0 : Nat, reserve1 : Nat,
    sqrtPrice : Nat, liquidity : Nat, reach : Nat ]

(* A pool is of two tokens; a V3 pool has a price that no trade brings to  *)
(* nothing, takes less than all as its fee and something of what goes in.  *)
ASSUME PriceAssumption ==
  /\ \A market \in Markets :
       /\ market \in [ToSet(Order) -> PoolTypes]
       /\ \A id \in ToSet(Order) :
            /\ market[id].id = id /\ market[id].token0 # market[id].token1
            /\ market[id].version = "v3" =>
                 market[id].fee < FeeUnit /\ market[id].sqrtPrice > MaxTrades /\ market[id].reach > 0
  /\ \A r \in Requests : r.amount \in Nat \ {0} /\ r.force \in BOOLEAN /\ r.split \in BOOLEAN
  /\ Order \in Seq(ToSet(Order))
  /\ {TokenIn, TokenOut} \cup ToSet(Intermediates) \in SUBSET STRING /\ TokenIn # TokenOut
  /\ GasPrice \in Nat /\ TradeSize \in Nat \ {0} /\ MaxTrades \in Nat /\ Traded \in SUBSET ToSet(Order)

VARIABLES
  pools,      \* the chain's pools, by id
  trades,     \* bound and history: trades so far
  ask,        \* the request
  gasPrice,   \* gasPriceWei
  direct,     \* fetchDirectQuotes: [stage, v3, quotes]
  multi,      \* fetchMultiHopQuotes: [stage, quotes, validation, search]
  split,      \* getBestQuoteForTokens: the split that is validated again, or Nothing
  answer      \* [kind, best, offers, checked, single]

vars == <<pools, trades, ask, gasPrice, direct, multi, split, answer>>

Nothing == [kind |-> "none"]
Wrong   == [kind |-> "error"]

Init ==
  /\ pools \in Markets /\ trades = 0
  /\ ask \in Requests
  /\ gasPrice \in {None, GasPrice}
  /\ direct = [stage |-> IF ask.force THEN "done" ELSE "reading", v3 |-> << >>, quotes |-> << >>]
  /\ multi = [stage |-> "reading", quotes |-> << >>, validation |-> Validation(<< >>), search |-> None]
  /\ split = Nothing
  /\ answer = Nothing

-----------------------------------------------------------------------------
(* The chain.                                                              *)

(* What a pool holds of a token: its reserve, or the virtual one.          *)
Held(pool, token) ==
  IF pool.version = "v2" THEN IF token = pool.token0 THEN pool.reserve0 ELSE pool.reserve1
  ELSE IF token = pool.token0 THEN (pool.liquidity * Scale) \div pool.sqrtPrice
  ELSE (pool.liquidity * pool.sqrtPrice) \div Scale

(* What a swap through a pool is paid.                                     *)
Pays(pool, token, amount) ==
  LET other  == IF token = pool.token0 THEN pool.token1 ELSE pool.token0
      num    == IF pool.version = "v2" THEN V2Fee[pool.protocol].num ELSE FeeUnit - pool.fee
      den    == IF pool.version = "v2" THEN V2Fee[pool.protocol].den ELSE FeeUnit
      taken  == IF pool.version = "v2" THEN amount ELSE Least(amount, pool.reach)
  IN IF amount = 0 THEN 0
     ELSE (taken * num * Held(pool, other)) \div (Held(pool, token) * den + taken * num)

(* The reserves of a V2 pool after a swap.                                 *)
AfterSwap(pool, token, amount) ==
  LET zero == token = pool.token0
      paid == Pays(pool, token, amount)
  IN  [pool EXCEPT !.reserve0 = IF zero THEN @ + amount ELSE @ - paid,
                   !.reserve1 = IF zero THEN @ - paid ELSE @ + amount]

AfterTrade(pool, token) ==
  IF pool.version = "v2" THEN AfterSwap(pool, token, TradeSize)
  ELSE [pool EXCEPT !.sqrtPrice = IF token = pool.token0 THEN @ - 1 ELSE @ + 1]

Trade(id) ==
  /\ answer = Nothing /\ trades < MaxTrades
  /\ trades' = trades + 1
  /\ \E token \in {pools[id].token0, pools[id].token1} :
       pools' = [pools EXCEPT ![id] = AfterTrade(@, token)]
  /\ UNCHANGED <<ask, gasPrice, direct, multi, split, answer>>

(* A batch of reads, of which none, one or all may fail.                   *)
Losses(S) == {{}, S} \cup {{x} : x \in S}

(* The pools that could be read, among those of the versions asked for.    *)
Graph(lost) ==
  LET read == {i \in DOMAIN Order : Order[i] \notin lost /\ pools[Order[i]].version \in ask.versions}
  IN  Each(Picked(Order, read), LAMBDA id : pools[id])

-----------------------------------------------------------------------------
(* fetchDirectQuotes.                                                      *)

DirectIds == {id \in ToSet(Order) : Between(pools[id], TokenIn, TokenOut)}

(* Where the lens fails for the V2 pools, all of them are lost.            *)
DirectRead ==
  /\ answer = Nothing /\ direct.stage = "reading"
  /\ \E lost \in Losses(DirectIds) \cup {{id \in DirectIds : pools[id].version = "v2"}} :
       LET v2   == DirectPools(Graph(lost), TokenIn, TokenOut, "v2")
           v3   == DirectPools(Graph(lost), TokenIn, TokenOut, "v3")
           hops == Each(v2, LAMBDA p : Hop(p, TokenIn, ask.amount))
       IN direct' = [ stage |-> IF v3 = << >> THEN "done" ELSE "quoting", v3 |-> v3,
                      quotes |-> DirectQuotes(hops, TokenIn, TokenOut, gasPrice) ]
  /\ UNCHANGED <<pools, trades, ask, gasPrice, multi, split, answer>>

(* The adapters ask the quoter for each V3 pool; null where it fails.      *)
DirectQuoted ==
  /\ answer = Nothing /\ direct.stage = "quoting"
  /\ \E lost \in Losses(DOMAIN direct.v3) :
       LET quoted(i) == IF i \in lost THEN 0
                        ELSE Pays(pools[direct.v3[i].id], TokenIn, ask.amount)
           hops == [i \in DOMAIN direct.v3 |->
                      [pool |-> direct.v3[i], amountIn |-> ask.amount, amountOut |-> quoted(i)]]
       IN direct' = [direct EXCEPT !.stage = "done",
                       !.quotes = @ \o DirectQuotes(hops, TokenIn, TokenOut, gasPrice)]
  /\ UNCHANGED <<pools, trades, ask, gasPrice, multi, split, answer>>

-----------------------------------------------------------------------------
(* fetchMultiHopQuotes.                                                    *)

(* Reads the graph, searches it, and sets aside what has to be validated.  *)
MultiRead ==
  /\ answer = Nothing /\ multi.stage = "reading"
  /\ \E lost \in Losses(ToSet(Order)) :
     \E graph \in {Graph(lost)} :
     \E found \in {Search(graph, TokenIn, TokenOut, ask.amount, gasPrice)} :
       LET v3 == ToValidate(found.results)
       IN multi' = [ stage |-> IF v3 = << >> THEN "done" ELSE "validating",
                     quotes |-> Picked(found.results, {i \in DOMAIN found.results : ~HasV3(found.results[i])}),
                     validation |-> Validation(v3),
                     search |-> [graph |-> graph, results |-> found.results, pruned |-> found.pruned] ]
  /\ UNCHANGED <<pools, trades, ask, gasPrice, direct, split, answer>>

(* One hop of every route: the multicall to the quoters, as of now.        *)
Quoted(v, lost) ==
  [r \in Batch(v) |-> IF r \in lost THEN 0
                      ELSE Pays(pools[PoolAt(v, r).id], TokenAt(v, r), AmountAt(v, r))]

MultiValidated ==
  /\ answer = Nothing /\ multi.stage = "validating"
  /\ \E lost \in Losses(Batch(multi.validation)) :
       LET v == HopValidated(multi.validation, Quoted(multi.validation, lost))
       IN multi' = IF Validating(v) THEN [multi EXCEPT !.validation = v]
                   ELSE [multi EXCEPT !.validation = v, !.stage = "done", !.quotes = @ \o Validated(v)]
  /\ UNCHANGED <<pools, trades, ask, gasPrice, direct, split, answer>>

-----------------------------------------------------------------------------
(* getBestQuoteForTokens.                                                  *)

(* One of the two rejects: so does the request.                            *)
ReadFails ==
  /\ answer = Nothing
  /\ direct.stage = "reading" \/ multi.stage = "reading"
  /\ answer' = Wrong
  /\ UNCHANGED <<pools, trades, ask, gasPrice, direct, multi, split>>

(* resolveNativeToOutputPrice: from the first hop that sells the wrapped   *)
(* native token for the output token.                                      *)
NativeRate(candidates) ==
  LET sells(q) == Last(q.path) = TokenOut /\ q.path[Len(q.hops)] = WrappedNative
      sellers  == {i \in DOMAIN candidates : sells(candidates[i])}
      hop      == Last(candidates[CHOOSE i \in sellers : \A j \in sellers : i <= j].hops)
  IN IF TokenOut = WrappedNative THEN [in |-> 1, out |-> 1]
     ELSE IF sellers = {} THEN None
     ELSE [in |-> hop.amountIn, out |-> hop.amountOut]

Single(q) == [amountIn |-> q.amountIn, amountOut |-> q.amountOut, legs |-> <<q>>, ratios |-> <<10000>>]

(* best is what is answered, offers the rest; checked says whether every   *)
(* V3 hop of it is a quoter's answer, single is the best single route.     *)
Answered(best, sorted, checked) ==
  answer' = [ kind |-> "quote", best |-> best, offers |-> Tail(sorted), checked |-> checked,
              single |-> Head(sorted) ]

Sorted ==
  LET candidates == IF ask.force THEN multi.quotes ELSE direct.quotes \o multi.quotes
  IN Ordered(candidates, NativeRate(candidates))

Rate == NativeRate(IF ask.force THEN multi.quotes ELSE direct.quotes \o multi.quotes)

Deciding == answer = Nothing /\ direct.stage = "done" /\ multi.stage = "done" /\ split = Nothing

(* The best single route, or a better split: one with a V3 hop goes to the  *)
(* quoters again, another is answered as it is.                            *)
Decide ==
  /\ Deciding
  /\ \E sorted \in {Sorted} :
     \E best \in {IF ask.split THEN BestSplit(sorted, ask.amount, Rate) ELSE None} :
       \/ /\ sorted = << >>
          /\ answer' = [kind |-> "null"] /\ UNCHANGED split
       \/ /\ sorted # << >> /\ best = None
          /\ Answered(Single(Head(sorted)), sorted, TRUE) /\ UNCHANGED split
       \/ /\ best # None /\ ~Validating(Validation(best.legs))
          /\ Answered(best, sorted, TRUE) /\ UNCHANGED split
       \/ /\ best # None /\ Validating(Validation(best.legs))
          /\ split' = [chosen |-> best, validation |-> Validation(best.legs)] /\ UNCHANGED answer
  /\ UNCHANGED <<pools, trades, ask, gasPrice, direct, multi>>

(* revalidateSplitV3: if a leg fails, the split is answered as it was.     *)
Revalidated(v) ==
  LET legs == Validated(v)
  IN IF Len(legs) # Len(v.routes) THEN None
     ELSE [split.chosen EXCEPT !.legs = legs,
             !.amountOut = Plus([i \in DOMAIN legs |-> legs[i].amountOut])]

SplitValidated ==
  /\ answer = Nothing /\ split # Nothing
  /\ \E lost \in Losses(Batch(split.validation)) :
       LET v == HopValidated(split.validation, Quoted(split.validation, lost))
       IN IF Validating(v) THEN split' = [split EXCEPT !.validation = v] /\ UNCHANGED answer
          ELSE /\ Answered(IF Revalidated(v) = None THEN split.chosen ELSE Revalidated(v),
                           Sorted, Revalidated(v) # None)
               /\ split' = [split EXCEPT !.validation = v]
  /\ UNCHANGED <<pools, trades, ask, gasPrice, direct, multi>>

-----------------------------------------------------------------------------
(* An answered request has ended; any other that cannot go on is stuck.    *)
Ended == answer # Nothing /\ UNCHANGED vars

Next ==
  \/ DirectRead \/ DirectQuoted \/ MultiRead \/ MultiValidated \/ ReadFails
  \/ Decide \/ SplitValidated
  \/ (\E id \in Traded : Trade(id))
  \/ Ended

Spec == Init /\ [][Next]_vars

-----------------------------------------------------------------------------
IsQuote(q) ==
  /\ q.amountIn \in Nat \ {0} /\ q.amountOut \in Nat \ {0}
  /\ Len(q.path) = Len(q.hops) + 1
  /\ \A i \in DOMAIN q.hops : /\ q.hops[i].amountOut \in Nat \ {0}
                              /\ Between(q.hops[i].pool, q.path[i], q.path[i + 1])
                              /\ i > 1 => q.hops[i].amountIn = q.hops[i - 1].amountOut

(* Types of what a request works on: every quote is a chain of hops, each  *)
(* through a pool of its two tokens and fed with what the last one paid.   *)
TypeOK ==
  /\ pools \in [ToSet(Order) -> PoolTypes]
  /\ direct.stage \in {"reading", "quoting", "done"}
  /\ multi.stage \in {"reading", "validating", "done"}
  /\ answer.kind \in {"none", "error", "null", "quote"}
  /\ \A q \in ToSet(direct.quotes) \cup ToSet(multi.quotes) : IsQuote(q) /\ q.amountIn = ask.amount
  /\ answer.kind = "quote" => \A q \in ToSet(answer.best.legs) : IsQuote(q)

(* What the chain pays now for the swap a quote describes.                 *)
PaidNow(q) ==
  LET paid[i \in 0..Len(q.hops)] ==
        IF i = 0 THEN q.amountIn ELSE Pays(pools[q.hops[i].pool.id], q.path[i], paid[i - 1])
  IN  paid[Len(q.hops)]

Disjoint(legs) == \A i, j \in DOMAIN legs : i # j => Pools(legs[i]) \cap Pools(legs[j]) = {}

(* Two legs go the same way through the pools they share, and share V2     *)
(* pools only.                                                             *)
Aligned(p, q) ==
  \A i \in DOMAIN p.hops, j \in DOMAIN q.hops :
    p.hops[i].pool.id = q.hops[j].pool.id => p.path[i] = q.path[j] /\ p.hops[i].pool.version = "v2"

AllAligned(legs) == \A i, j \in DOMAIN legs : i # j => Aligned(legs[i], legs[j])

(* A swap of s.amount when the pools are s.pools; V3 pools are left as     *)
(* they are.                                                               *)
Through(s, id, token) ==
  LET pool == s.pools[id]
  IN  [s EXCEPT !.amount = Pays(pool, token, s.amount),
                !.pools[id] = IF pool.version = "v2" THEN AfterSwap(pool, token, s.amount) ELSE pool]

(* A leg when the pools are s.pools and others were paid s.total.          *)
ThroughLeg(s, leg) ==
  LET at[i \in 0..Len(leg.hops)] ==
        IF i = 0 THEN [s EXCEPT !.amount = leg.amountIn]
        ELSE Through(at[i - 1], leg.hops[i].pool.id, leg.path[i])
      end == at[Len(leg.hops)]
  IN  [end EXCEPT !.total = @ + end.amount]

(* What the legs are paid together, one after the other: each finds the V2 *)
(* pools as those before it left them.                                     *)
PaidInTurn(legs) ==
  LET after[k \in 0..Len(legs)] ==
        IF k = 0 THEN [pools |-> pools, amount |-> 0, total |-> 0]
        ELSE ThroughLeg(after[k - 1], legs[k])
  IN  after[Len(legs)].total

(* If nobody trades meanwhile and the quoters have seen it, every leg of   *)
(* an answer is paid what is answered for it, to the last unit, whatever   *)
(* was read when.  Together the legs are paid what is answered if they     *)
(* share no pool; if they share some, as the optimizer does not know, they *)
(* are paid no more than that.                                             *)
QuoteHonest ==
  answer.kind = "quote" /\ answer.checked /\ trades = 0 =>
    LET legs == answer.best.legs IN
      /\ \A i \in DOMAIN legs : PaidNow(legs[i]) = legs[i].amountOut
      /\ Disjoint(legs) => PaidInTurn(legs) = answer.best.amountOut
      /\ AllAligned(legs) => PaidInTurn(legs) <= answer.best.amountOut

(* The equal parts the optimizer starts from are no less than the minimum  *)
(* of a leg: the configuration does not say so.                            *)
MinimumFits == MinLegRatio <= 5000 /\ MinLegRatio * Least(MaxSplitLegs, MaxRoutes) <= 10000

(* A split spends the whole amount over different routes, its shares make  *)
(* up the whole, and no leg is below the minimum if equal parts are not.   *)
SplitSound ==
  answer.kind = "quote" /\ Len(answer.best.legs) > 1 =>
    LET legs == answer.best.legs IN
      /\ Plus([i \in DOMAIN legs |-> legs[i].amountIn]) = ask.amount
      /\ MinimumFits => \A i \in DOMAIN legs : legs[i].amountIn >= MinAllocation(ask.amount)
      /\ \A i, j \in DOMAIN legs : i # j => Signature(legs[i]) # Signature(legs[j])
      /\ Plus(answer.best.ratios) = 10000 /\ \A i \in DOMAIN legs : answer.best.ratios[i] > 0

(* Every route over distinct intermediate tokens that pays something.      *)
RoutesOver(graph, between) ==
  LET path == <<TokenIn>> \o between \o <<TokenOut>>
      rolled(ps) == Rolled([path |-> path, hops |-> [i \in DOMAIN ps |-> [pool |-> ps[i]]]], ask.amount)
  IN {ps \in [1..(Len(path) - 1) -> {p \in ToSet(graph) : Liquid(p)}] :
        /\ \A i \in DOMAIN ps : Between(ps[i], path[i], path[i + 1])
        /\ \A i \in DOMAIN ps : rolled(ps)[i].amountOut > 0}

Routes(graph, n) ==
  UNION {RoutesOver(graph, ts) : ts \in
    {f \in [1..n -> ToSet(Candidates(TokenIn, TokenOut))] : \A i, j \in 1..n : i # j => f[i] # f[j]}}

(* The search finds every route over one intermediate token, every longer  *)
(* one up to its depth unless it had to prune, each once, and no other.    *)
SearchComplete ==
  multi.search # None =>
    LET found == {Signature(q) : q \in ToSet(multi.search.results)}
        routes(n) == {[i \in DOMAIN ps |-> ps[i].id] : ps \in Routes(multi.search.graph, n)}
        all == UNION {routes(n) : n \in 1..MaxHopDepth}
    IN /\ routes(1) \subseteq found
       /\ found \subseteq all
       /\ ~multi.search.pruned => found = all
       /\ Len(multi.search.results) = Cardinality(found)

(* The hops of the longest route that are yet to be validated.             *)
HopsLeft(v) == Max({Len(v.routes[r].hops) : r \in DOMAIN v.routes}) + 1 - v.hop

(* What is left to do of a request, at most.                               *)
Work ==
  IF answer # Nothing THEN 0
  ELSE 1 + (CASE direct.stage = "reading" -> 2 [] direct.stage = "quoting" -> 1 [] OTHER -> 0)
         + (CASE multi.stage = "reading" -> MaxHopDepth + 2
              [] multi.stage = "validating" -> HopsLeft(multi.validation) [] OTHER -> 0)
         + (IF split = Nothing THEN MaxHopDepth + 2 ELSE HopsLeft(split.validation))

(* Every step of a request leaves less to do, and no request is stuck (the *)
(* run looks for deadlocks): as every read ends, if only by its timeout,   *)
(* every request is answered, if only with an error.                       *)
Ends == [][trades' = trades => Work' < Work]_vars

-----------------------------------------------------------------------------
(* The answer is the best price: no less than the best single route.       *)
BestPrice ==
  answer.kind = "quote" => answer.best.amountOut >= answer.single.amountOut
=============================================================================
