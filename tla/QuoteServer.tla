---------------------------- MODULE QuoteServer ----------------------------
(***************************************************************************)
(* The /quote and /swap handlers of the API server, with the cache of      *)
(* results and the store of quotes they share.  Node runs one handler at a *)
(* time, up to its next await: between two awaits a step is atomic, at an  *)
(* await every other request may run.  The prices themselves are external; *)
(* a result only remembers when it was priced and for what.                *)
(*                                                                         *)
(* Requests the handlers reject before they touch any state (malformed,    *)
(* unknown chain, equal tokens) are left out.                              *)
(***************************************************************************)
EXTENDS TtlStores

CONSTANTS
  None,        \* null
  Slots,       \* bound: requests in flight at a time
  QuoteAsks,   \* what /quote is asked: [chain, pair, amount, slippage]
  SwapAsks,    \* what /swap is asked, the quoteId apart
  CacheTtl,    \* quoteCache's ttl, in milliseconds of the model
  QuoteTtl,    \* SWAP_QUOTE_TTL_SECONDS, in the same unit
  Second,      \* how many of them a second has
  Capacity,    \* QuoteStore.maxCapacity
  MaxQuotes,   \* bound: quotes issued in a behaviour
  MaxTime      \* bound: the clock runs from 0 to MaxTime

Asks == QuoteAsks \cup SwapAsks

ASSUME ServerAssumption ==
  /\ CacheTtl \in Nat /\ QuoteTtl \in Nat /\ Second \in Nat \ {0}
  /\ Capacity \in Nat \ {0} /\ MaxQuotes \in Nat /\ MaxTime \in Nat
  /\ \A a \in Asks : a.amount \in Nat /\ a.slippage \in Int /\ a # None

VARIABLES
  cache,     \* quoteCache
  quotes,    \* quoteStore.entries
  nextId,    \* the quoteId that randomUUID gives next
  now,       \* Date.now()
  request,   \* what each slot is doing
  reply,     \* what the last step replied, if it did
  offers,    \* history: the expiry announced with each quote
  taken      \* history: the quotes that were consumed

vars == <<cache, quotes, nextId, now, request, reply, offers, taken>>

-----------------------------------------------------------------------------
Ids  == 1..MaxQuotes
NoId == 0

Idle    == [state |-> "idle"]

(* Answers are told apart by what a property says of them: the statuses    *)
(* 400 and 404 without a quote are all "failed".                           *)
NoReply == [status |-> "none"]

(* Variant: any slippage is taken at its word.                             *)
AnySlippage(bps) == bps

ClampSlippage(bps) == IF bps < 0 THEN 0 ELSE IF bps > 1000 THEN 1000 ELSE bps

(* Variant: the amount is left out of the key.                             *)
PairKey(ask) == <<ask.chain, ask.pair>>

(* The cache is keyed by chain, tokens, amount and routing flags.          *)
CacheKey(ask) == <<ask.chain, ask.pair, ask.amount>>

Priced(ask) ==
  [ chain |-> ask.chain, pair |-> ask.pair, amount |-> ask.amount,
    slippage |-> ClampSlippage(ask.slippage), pricedAt |-> now ]

Init ==
  /\ cache = << >> /\ quotes = << >>
  /\ nextId = 1
  /\ now = 0
  /\ request = [s \in Slots |-> Idle]
  /\ reply = NoReply
  /\ offers = [id \in Ids |-> 0]
  /\ taken = {}

(* A slot goes on to something else and has no answer yet; a slot answers. *)
Goes(s, to) == request' = [request EXCEPT ![s] = to] /\ reply' = NoReply
Answers(s, what) == request' = [request EXCEPT ![s] = Idle] /\ reply' = what

-----------------------------------------------------------------------------
(* GET /quote.                                                             *)

(* The end of the handler: the result is stored under a fresh id, and the  *)
(* expiry is announced in whole seconds.                                   *)
Offer(s, ask, result) ==
  /\ nextId \in Ids
  /\ quotes' = Store(quotes, Capacity, nextId, result, now, QuoteTtl)
  /\ offers' = [offers EXCEPT ![nextId] = ((now + QuoteTtl) \div Second) * Second]
  /\ nextId' = nextId + 1
  /\ Answers(s, [status |-> "quoted", ask |-> ask, result |-> result])

QuoteCached(s, ask) ==
  /\ request[s] = Idle
  /\ Live(cache, CacheKey(ask), now)
  /\ Offer(s, ask, cache[CacheKey(ask)].value)
  /\ UNCHANGED <<cache, now, taken>>

QuoteAsked(s, ask) ==
  /\ request[s] = Idle
  /\ ~Live(cache, CacheKey(ask), now)
  /\ cache' = AfterLookup(cache, CacheKey(ask), now)
  /\ Goes(s, [state |-> "quoting", ask |-> ask])
  /\ UNCHANGED <<quotes, nextId, now, offers, taken>>

(* getQuote answers: the cache takes the result, whatever it holds by now. *)
QuotePriced(s) ==
  /\ request[s].state = "quoting"
  /\ LET ask    == request[s].ask
         result == Priced(ask)
     IN /\ cache' = With(cache, CacheKey(ask), [value |-> result, expiresAt |-> now + CacheTtl])
        /\ Offer(s, ask, result)
  /\ UNCHANGED <<now, taken>>

(* getQuote throws, or finds no route; /swap ends the same way.            *)
PricingFails(s) ==
  /\ request[s].state \in {"quoting", "pricing"}
  /\ Answers(s, [status |-> "failed"])
  /\ UNCHANGED <<cache, quotes, nextId, now, offers, taken>>

-----------------------------------------------------------------------------
(* POST /swap.                                                             *)

(* The transaction is built at once; what follows asks the chain.          *)
Build(s, ask, id, result) ==
  Goes(s, [ state |-> "simulating", ask |-> ask, id |-> id, result |-> result, builtAt |-> now ])

SameTokens(result, ask) == result.pair = ask.pair

(* A stored quote: consumed first, compared with the request afterwards.   *)
SwapStored(s, ask, id) ==
  /\ request[s] = Idle
  /\ Live(quotes, id, now)
  /\ quotes' = AfterConsume(quotes, id, now)
  /\ taken' = taken \cup {id}
  /\ LET result == quotes[id].result IN
       IF SameTokens(result, ask)
       THEN Build(s, ask, id, result) \/ Answers(s, [status |-> "failed"])
       ELSE Answers(s, [status |-> "failed"])
  /\ UNCHANGED <<cache, nextId, now, offers>>

(* consume gave nothing: expired or unknown, as the store can tell then.   *)
SwapRefused(s, ask, id) ==
  /\ request[s] = Idle
  /\ ~Live(quotes, id, now)
  /\ quotes' = AfterLookup(quotes, id, now)
  /\ Answers(s, [ status |-> IF IsExpired(quotes', id, now)
                             THEN "quote_expired" ELSE "quote_not_found",
                  id |-> id ])
  /\ UNCHANGED <<cache, nextId, now, offers, taken>>

(* Without a quoteId the swap is priced afresh, past the cache.            *)
SwapAsked(s, ask) ==
  /\ request[s] = Idle
  /\ Goes(s, [state |-> "pricing", ask |-> ask])
  /\ UNCHANGED <<cache, quotes, nextId, now, offers, taken>>

SwapPriced(s) ==
  /\ request[s].state = "pricing"
  /\ LET ask == request[s].ask IN
       \/ Build(s, ask, NoId, Priced(ask))
       \/ Answers(s, [status |-> "failed"])
  /\ UNCHANGED <<cache, quotes, nextId, now, offers, taken>>

(* What the chain may say: nothing, if there is no client or no block; or  *)
(* whether the simulation passes, and an estimate of the gas, to which a   *)
(* fifth is added.  Without an estimate a constant will do, provided the   *)
(* simulation passed.  No failure blocks the swap.                         *)
Verdicts ==
  [passed : {FALSE}, gas : {"unknown", "estimate"}] \cup [passed : {TRUE}, gas : {"fallback", "estimate"}]

(* Block, simulation and estimate are awaited one after another, but share *)
(* nothing with other requests, so they are one step.                      *)
SwapAnswered(s) ==
  /\ request[s].state = "simulating"
  /\ \E v \in Verdicts : Answers(s, [status |-> "swapped", passed |-> v.passed, gas |-> v.gas])
  /\ UNCHANGED <<cache, quotes, nextId, now, offers, taken>>

-----------------------------------------------------------------------------
(* The timers of both maps, and the clock.                                 *)

SweepCache ==
  /\ cache' = Swept(cache, now)
  /\ reply' = NoReply
  /\ UNCHANGED <<quotes, nextId, now, request, offers, taken>>

SweepQuotes ==
  /\ quotes' = Swept(quotes, now)
  /\ reply' = NoReply
  /\ UNCHANGED <<cache, nextId, now, request, offers, taken>>

Tick ==
  /\ now < MaxTime
  /\ now' = now + 1
  /\ reply' = NoReply
  /\ UNCHANGED <<cache, quotes, nextId, request, offers, taken>>

Next ==
  \/ \E s \in Slots :
       \/ \E ask \in QuoteAsks : QuoteCached(s, ask) \/ QuoteAsked(s, ask)
       \/ \E ask \in SwapAsks :
            SwapAsked(s, ask) \/ \E id \in Ids : SwapStored(s, ask, id) \/ SwapRefused(s, ask, id)
       \/ QuotePriced(s) \/ PricingFails(s) \/ SwapPriced(s) \/ SwapAnswered(s)
  \/ SweepCache \/ SweepQuotes \/ Tick

Spec == Init /\ [][Next]_vars

-----------------------------------------------------------------------------
Results == [ chain : {a.chain : a \in Asks}, pair : {a.pair : a \in Asks},
             amount : Nat, slippage : 0..1000, pricedAt : Nat ]

Requests ==
  {Idle}
    \cup [state : {"quoting"}, ask : QuoteAsks]
    \cup [state : {"pricing"}, ask : SwapAsks]
    \cup [ state : {"simulating"}, ask : SwapAsks, id : Ids \cup {NoId}, result : Results,
           builtAt : Nat ]

(* Types of the server's state; a slippage that was accepted is at most    *)
(* ten percent.                                                            *)
TypeOK ==
  /\ \A k \in DOMAIN cache :
       cache[k].value \in Results /\ cache[k].expiresAt \in Nat
  /\ DOMAIN quotes \subseteq 1..(nextId - 1)
  /\ \A id \in DOMAIN quotes :
       quotes[id] \in [result : Results, createdAt : Nat, expiresAt : Nat]
  /\ nextId \in 1..(MaxQuotes + 1)
  /\ now \in Nat
  /\ request \in [Slots -> Requests]
  /\ offers \in [Ids -> Nat]
  /\ taken \subseteq Ids

(* What each id stands for now, and the swaps that are made of quotes.     *)
Book == INSTANCE OfferBook WITH
  Clients <- Slots,
  offer <- [id \in Ids |-> IF id >= nextId THEN [status |-> "new"]
                           ELSE IF Live(quotes, id, now)
                           THEN [status |-> "open", result |-> quotes[id].result]
                           ELSE [status |-> "gone"]],
  claim <- [s \in Slots |->
              IF request[s].state = "simulating" /\ request[s].id # NoId
              THEN [id |-> request[s].id, pair |-> request[s].ask.pair, result |-> request[s].result]
              ELSE None]

(* However requests interleave, expire and evict each other's quotes: an   *)
(* id makes one swap at most, of the result and the tokens it was offered  *)
(* for, and is never good again once it was used, in vain or not.          *)
KeepsOffers == Book!Spec

(* No swap is built from prices older than the two lifetimes together: a   *)
(* quote that was stored from the cache was priced before it was stored.   *)
FreshSwap ==
  \A s \in Slots :
    request[s].state = "simulating" =>
      request[s].builtAt - request[s].result.pricedAt <= CacheTtl + QuoteTtl

(* A quote that nobody used is refused before its announced expiry only    *)
(* when the store was filled up by newer ones meanwhile.                   *)
QuoteHonoured ==
  reply.status \in {"quote_expired", "quote_not_found"} =>
    \/ reply.id >= nextId
    \/ reply.id \in taken
    \/ now > offers[reply.id]
    \/ nextId - 1 - reply.id >= Capacity

(* The store never holds more than its capacity.                           *)
StoreBounded == Cardinality(DOMAIN quotes) <= Capacity

(* What /quote answers was priced for the chain, the tokens and the amount *)
(* it was asked for, wherever the result came from.                        *)
QuoteFitsAsk ==
  reply.status = "quoted" =>
    /\ reply.result.chain = reply.ask.chain
    /\ reply.result.pair = reply.ask.pair
    /\ reply.result.amount = reply.ask.amount

-----------------------------------------------------------------------------
(* What the code or its documents say, and the handlers do not do.         *)

(* /quote answers with the minimum output for the slippage asked for.      *)
QuoteSlippageKept ==
  reply.status = "quoted" => reply.result.slippage = ClampSlippage(reply.ask.slippage)
=============================================================================
