# Aequi: specifications, model checks and proofs

Aequi is a DEX aggregator for Ethereum and BNB Chain: a Node server finds the
best route for a swap, turns it into one transaction for an executor contract,
and a web application has the user approve and send it. This directory holds
TLA+ modules translated from its source, the TLC configurations that check
them on small instances, and proofs that TLAPS checks for all values of the
constants. `PROJECT.json` lists the runs, the source lines behind every
definition, the known disagreements between code and documents, and the hazards.

Commands, in this directory:

    tlc -workers 2 -config MCSwaps.cfg MCSwaps        # a run: config, module
    tlapm SettlementProofs.tla                        # a proof module

## 1. Inventory

### Contracts (`packages/contracts`)

**AequiExecutor** keeps no money of its own between transactions. State: its
balances, the allowances it granted to routers, a paused flag, an owner.
`execute` notes its balances, pulls the caller's tokens, approves routers,
performs a list of calls (each may have the executor's whole balance of a token
written into its calldata first), revokes the approvals, and sends every
positive balance change to the caller. The owner may pause and rescue.
*Hard:* any of the calls may fail halfway; earlier funds of strangers share
the balance with the running swap; a swapped operand or a missed token leaves
money behind that the next caller can sweep.
*Correct if:* a commit leaves no new balance and no allowance behind, takes
nothing it found, and a failure changes nothing.

**AequiLens** is a set of view functions that read many pools, tokens, balances
or allowances in a single call and isolate failures item by item. No state.

### Core (`packages/core`)

**SwapBuilder** is a function from a quote to an executor transaction: a single
route, or a split over several; native coin wrapped before or unwrapped after;
V2, V3 and SwapRouter02 calldata. No state. *Hard:* byte offsets of the
injected amount that differ by router, per-hop rounding, an interhop buffer,
approvals of several legs that collide on one router.
*Correct if:* what it builds never fails in the executor for a reason of its
own, spends at most the input and delivers at least the minimum.

### Pricing (`packages/pricing`)

**Pool discovery and route search** reads pools, builds a graph, and deepens
iteratively over partial routes, keeping a bounded number per depth.
**Split optimizer** divides an input over parallel routes: every pair, all routes
from equal parts, all routes from a greedy start.
**Price service** chooses between the best single route and a revalidated split.
**Token service** caches token metadata for five minutes and reads what it lacks
in one multicall, while other calls do the same. *Hard:* pruning,
fixed-point arithmetic, legs of a split that share a pool, prices that move
between the search and the revalidation; fields of a token that fail by themselves
in a multicall whose results are matched up by position.
*Correct if:* metadata goes to the token it belongs to, the shares of a split add up to the input, a route is simple and
connected, what is answered is what the chain pays, and the choice is no worse
than the best single route.

### Server (`apps/server`)

**Quote and swap API**: `GET /quote` and `POST /swap` are asynchronous handlers.
They share **quoteCache** (results, five seconds) and **quoteStore** (quotes by
id, one use each, bounded). *Hard:* handlers interleave at every `await`; a
result that is cached and then stored has two lifetimes; a full store evicts.
*Correct if:* a quote makes at most one swap, of the result it was given for, a swap is never built on prices
older than promised, and an unused quote is refused only for a stated reason.

**RPC clients** balance requests over three endpoints through a cursor shared
by concurrent requests, and fall back to the rest. **RPC registry** downloads a
list of endpoints, probes them with a pool of workers and caches the ranking;
concurrent callers share one refresh. **Allowance service** builds approval
transactions and reads allowances. *Correct if:* every request ends, every
endpoint gets its turn before a request gives up, and a failed refresh loses
no data.

### Web (`apps/web`)

**App** holds the form, the quote, the prepared swap and the modal. Its
handlers are asynchronous: a debounced quote request, allowance refreshes, and
the approve, confirm and send flow. The swap history is kept in `localStorage`.
*Hard:* answers that arrive out of order, closures that hold old state, a second
click, a change of chain under a running handler, a reload between a swap that is sent
and its record. *Correct if:* what is sent is what is shown, on the chain it was
made for, nothing is sent twice, and the history tells what happened.

### How the parts interact

    App --HTTP--> /quote --> price service --> pool discovery --> lens, pools
                    |  cache, store
    App --HTTP--> /swap  --> store --> SwapBuilder ==transaction==> App
    App --wallet--> approve executor; AequiExecutor.execute(transaction)
    every chain read --> RPC clients --> endpoints ranked by the registry
    token metadata: the token service's cache, or a multicall through a client

## 2. Modules

| module | models | kind |
|---|---|---|
| `Calldata` | where each word stands in a router call, and what 32 bytes written over it do | operators |
| `Executor` | `AequiExecutor.sol`, one action per loop iteration | state machine |
| `SwapBuilder` | `swap-builder.ts` | operators |
| `Settlement` | what a swap promises to the accounts | abstract specification |
| `SwapExecution` | builder and executor together; refines `Settlement`; what makes a plan sound | composition |
| `MCSwaps` | quotes and accounts for the runs of `SwapExecution` | instance |
| `SettlementProofs` | that what the builder makes, of a route or of a split, is a sound plan that fits together; theorems about `Executor` alone; that sound plans settle, keep what was there, and run in time | proofs |
| `TtlStores` | `ttl-cache.ts`, `quote-store.ts` | operators |
| `OfferBook` | what the server promises about a quote's id | abstract specification |
| `QuoteServer` | `/quote` and `/swap`, between awaits; refines `OfferBook` | state machine |
| `MCQuotes` | questions for the runs of `QuoteServer` | instance |
| `QuoteServerProofs` | theorems about `QuoteServer`, its refinement of `OfferBook` among them | proofs |
| `Orders`, `OrderLemmas` | finite sets listed in an order; lemmas about those lists, about what stable sorts and rotations do, about lists joined, and induction along a recursive function | operators, proofs |
| `LoadBalancer` | `createLoadBalancedTransport` and the fallbacks of `clients.ts` | state machine |
| `TokenService`, `MCTokens` | `token-service.ts` over the client's transports | composition of its cache with `LoadBalancer`, instance |
| `TokenProofs` | theorems about `LoadBalancer` and `TokenService` | proofs |
| `RpcRegistry`, `MCRegistry` | `rpc-registry.ts` and the client cache of `clients.ts` | state machine, instance |
| `WebApp`, `MCWeb` | the quote, approve and swap flow of `App.tsx`, `swap-history.ts` | composition with `OfferBook`, instance |
| `RegistryProofs`, `WebAppProofs` | theorems about `RpcRegistry` and `WebApp` | proofs |
| `QuoteMath` | `quote-math.ts`, `marginal.ts`: what pools pay, how quotes compare | operators |
| `RouteSearch` | `pool-discovery.ts`: the search and the validation of routes | operators |
| `SplitOptimizer` | `split-optimizer.ts` | operators |
| `PriceService` | `price-service.ts`, with the reads of `pool-discovery.ts` | state machine |
| `MCPricing` | pools and requests for the runs of `PriceService` | instance |
| `QuoteProofs` | lemmas about the three modules of operators: what pools pay, quotes, the optimizer, the search | proofs |
| `PriceProofs` | theorems about `PriceService`, from those lemmas | proofs |

### Executor

`chain` is the committed state: balances of the executor and the users, what
users granted the executor (`grant`), what the executor granted routers
(`allowance`). `mem` is the same as the running transaction has changed it.
`phase` and `step` are the loop and its index in `execute`; `cur` is the
transaction, `before` the noted balances, `outcome` how the last one ended.

| action | code |
|---|---|
| `Execute`, `ExecutePaused` | modifiers, `_snapshotBalances`, `msg.value` |
| `PullToken`, `PullFails` | `_pullTokens` |
| `SetApproval`, `RevokeApproval` | `_setApprovals`, `_revokeApprovals` |
| `SwapCall`, `WrapCall`, `UnwrapCall`, `CallFails` | `_performCalls`, by what the target does |
| `FlushToken`, `Commit` | `_flushDeltas` |
| `EndLoop` | the end of each loop |
| `Donate`, `Rescue`, `TogglePause` | `receive`, `rescueFunds`/`rescueETH`, `pause`/`unpause` |
| `ApproveExecutor` | the approval the allowance service builds, sent by the user |
| `Tick` | block time |

The loops are steps, although a transaction is atomic on a chain, so that the
invariant of the proof can speak of every point inside. `Revert` restores `chain`. A
router is external: it reverts, or takes exactly `amountIn` of what it was
approved for and pays at least `amountOutMin`, by as much more as the constant
`Surplus` allows. Writing a balance over a word of the calldata is modelled by
where it lands: the word `amountIn`, another word, a range that straddles words,
or one outside the data.

`Swaps`, the transactions that may be executed, is a constant, and the builder
is a function that makes it: `SwapExecution` gives `Swaps` the value
`BuiltSwaps`. What the executor relies on is written down as
`FlushAssumption` — each token the executor is paid on the way is in the
flush list — and is evaluated for the builder's transactions in the runs.

### SwapBuilder, Settlement, SwapExecution

Builder amounts are integers and its divisions round down, as BigInt does.
`HopAmounts` is the loop over hops; a single route caps a hop at its quoted
amount and a leg of a split does not, as in the code. The flush list is a set
in the code and its order has no effect.

`Settlement` has one variable, the users' ledger, and one step: the sender pays
at most `amountIn`, the payee receives at least the minimum the calldata
insists on (`floor`), nobody else's balance changes and no intermediate token
reaches anybody. The refinement mapping is `Ledger`, the users' part of `chain`;
all steps within a transaction stutter and `Commit` is one `Settle`. The payee is
the recipient when the last router pays it directly (`direct`), and the
sender when the executor is paid and flushes: after a split, or when the coin
is unwrapped at the end, a recipient other than the sender receives nothing.

What the executor needs of the builder is written down as `SoundPlan(s)`, a
condition on the list of calls alone, without a router's answer in it: the input is
brought once; a call injects only the amount it spends, and only of the token it spends;
only the last router pays somebody else than the executor, and then only
the recipient; the minimum words of the calls that bring the output add up to
`floor`; of a token on the way, whatever a call brings is spent by a later one, or was
planned to the last unit; and where nothing is injected the fixed amounts are
covered (`Planned`, the running sum of what the calls add and take). `PlanSound`
says that only such plans are executed.

`Requests`, what the builder is asked, is a constant. `RequestsAssumption` says of
them what the route search guarantees: a route meets no token twice and has one hop
between neighbours, the first hop of a single route is quoted for the whole input, and the legs
of a split begin and end where the split does; and the coin is asked
for in the place of the wrapped token (`/swap` resolves it so).

`InTime` is about the deadline the builder gives its calls: a transaction with a
dated call commits in time or not at all, wherever injections wrote. `Dated` leaves out
SwapRouter02, whose struct has no deadline (see the findings).

### TtlStores, QuoteServer, OfferBook

A step runs from one `await` to the next, as Node schedules handlers. `request`
is what each slot is doing; `cache` and `quotes` are the two maps; `reply` is
the last step's answer, kept for the properties; `offers` and `taken` are
history. A quote is reduced to what it was priced for and when. The code's
order is kept: a quote is consumed before its tokens are compared and before
its calldata is built, so either failure uses it up; whether an id is
expired is asked after it was deleted; the cache takes whichever of two
concurrent pricings finishes last. Time is `Date.now()` in coarse units, `Second`
of them to a second, since the announced expiry is rounded down. Before `/swap`
answers it asks the chain for a block, a simulation and an estimate of the gas;
`Verdicts` are the outcomes the handler lets pass, none of which blocks the answer.

`OfferBook` says what a client may count on. `offer[id]` is new, open with a result,
or gone for good; `claim[c]` is the swap a client is making of a quote. `Redeem`
gives a client the result that was offered, for its tokens, and closes the
offer; `Withdraw` closes it unused; `Offer` may withdraw others. Under the
refinement mapping an id is new until it is given out, open while `Live` says
that the store has it, and a claim lasts from the build to the answer. `Tick`
becomes a `Withdraw` when it lets quotes expire; an eviction is part of `Offer`;
a consumption that ends in a mismatch is a `Withdraw`. So the abstract step
must be found for every way a quote can be lost, and none may bring one back.

### LoadBalancer

`cursor` is shared, each request has its offset, and the index it tries is
computed anew for every try. `failed` and `alone` are history.

### TokenService

A call of `getTokenMetadata` or its batch form (a single lookup is a batch of
one) is a slot of `call`. `Ask` runs to the first await: what is known is taken from
the cache there and then and the positions of the rest are noted. `Request` gets the
client and sends the multicall, which is a request of `LoadBalancer` in the slot
of the same name; `Received` is the loop over its results, with four fields per token
found by position. Each token is cached as the loop reaches it, so a token without
decimals fails the call but leaves those before it in the cache. If every transport
fails, `allowFailure` makes that a failure of every field.

| action | code |
|---|---|
| `Ask` | `getTokenMetadata`, `getBatchTokenMetadata` up to `clientProvider` |
| `Request`, `NoClient` | the client, and the multicall sent |
| `Transport` | `LoadBalancer`'s `Reply`: the transports at work |
| `Received` | decoding, caching, filling the answer |
| `Tick` | `Date.now()` |

The supply of a token stands for the time of the block it was read at, so that
answers have an age; `slowest` is history. A call may wait for its client for ever,
as the code's may (see `requestJson`). Chains are left out: one client serves
one, and a cache entry's key names it.

### RpcRegistry

`list` is the cached public list with its expiry, `inFlight` the promise of a
refresh that later callers share, `rankings` the ranking cache and `clients` the
chains whose client was asked for. `task` is what each call of `resolveRpcUrls`
is doing: waiting for the list, or probing with its pool of workers.

| action | code |
|---|---|
| `GetClient`, `SelectUrls` | `getPublicClient`; `DefaultRpcSelector`; both run `resolveRpcUrls` to its first await |
| `ListArrives`, `ListFails` | the end of `refreshCache`, and everybody who awaited it |
| `ProbeEnds` | a worker of `evaluateRpcEndpoints`; the last one ranks and caches |
| `Tick` | time |

`answers` holds what the last step resolved, for the properties. Two endpoints
that answer equally well keep the order of their indices; the code compares
their names, which is as arbitrary.

### WebApp

A step is one run of a handler up to its next await, followed by a render.
`form`, `quote`, `prepared`, `modal`, `swapHash` and `loading` are the hooks of
the same names; `asking` and `preparing` are requests in flight; `flow[k]` is a
run of `onConfirmSwap` with the values its closure captured (`swap`, `chain`,
`seen`). `approved` and `txs` belong to the chains.

The server is `OfferBook` with the page as its only client and `prepared` as its
claim: an answered quote request is an `Offer`, a prepared swap a `Redeem`, a refusal
a `Withdraw` or nothing. As `QuoteServer` implements that specification, what
is checked of the page does not depend on why the server refuses.

| action | code |
|---|---|
| `Edit`, `RequestQuote`, `QuoteSettles` | the form's setters and effects, the debounce, `onQuoteRequest` |
| `QuoteExpires` | the countdown |
| `PrepareSwap`, `SwapPrepared`, `SwapNotPrepared` | `onExecuteSwapFlow` |
| `Confirm`, `AllowanceEnough`, `AllowanceLacking`, `ApprovalMined`, `AllowanceSynced` | `onConfirmSwap` up to the swap |
| `SwapSigned`, `SwapRecorded` | the wallet sends; the page learns the hash and stores it |
| `SwapConfirmed`, `FlowFails` | the receipt; `catch` and `finally` |
| `Mined` | the chain, whether or not anybody waits |
| `CloseModal`, `Reload` | the user: everything but `localStorage` is lost on a reload |

That the swap is sent and that the page learns its hash are two steps: the wallet
broadcasts before its promise resolves, and a reload in between loses the swap
for the history. `txs[h].noted` is history: in which order the page learned of swaps.
`strayed` is history too: the quotes whose swap arrived when the chain had been changed.

### QuoteMath, RouteSearch, SplitOptimizer, PriceService

The first three are functions, as their sources are. A quote is its path and
its hops; a hop is the pool as it was read with what goes in and comes out.
Prices for display and the price impact are left out, and with them the last
tie-break of `compareQuotes`. A loop that changes an array in place is a recursive
function from the number of iterations to the state after them: `Improved` is one iteration of
the marginal-price equalisation, `Strengthened` one of the final pruning, `Deeper` one depth of
the search, and `Rolled` feeds each hop with what the last one paid. A list that the code
filters or sorts is `Picked` by its indices or `Arranged` in a strict order of them (`Orders`),
so that the provers see what became of each element. Where the code sorts with a comparator that never
says "equal", the order of equals is the one the engine's stable sort gives.
The fixed-point scales and fee denominators are constants.

`PriceService` is one request, from the gas price to the answer. `pools` is the
chain; `direct` and `multi` are the two branches of the `Promise.all`, `split`
the revalidation.

| action | code |
|---|---|
| `DirectRead`, `DirectQuoted` | `fetchDirectQuotes`: factories and lens; the adapters' quoter calls |
| `MultiRead` | `buildPoolGraph` and phases 1 and 2 of `fetchMultiHopQuotes` |
| `MultiValidated` | one hop of `batchValidateRoutes` for all routes |
| `ReadFails` | a read that throws and so rejects the `Promise.all` |
| `Decide` | sorting, `findBestSplit`, the answer or the start of the revalidation |
| `SplitValidated` | one hop of `batchValidateRoutes` within `revalidateSplitV3`, then the answer |
| `Trade` | others trade: the chain changes between any two reads |

A batch of reads loses none, one or all of its items (`Losses`). The calls to the
factories and those to the lens are one step, so a pool does not change between
the two; they read different things of it, its address and its state.

## 3. Runs

| run | config | shows |
|---|---|---|
| `swaps` | `MCSwaps.cfg` | types; no allowance survives a transaction; nothing stranded; earlier funds kept; a built transaction never fails for a reason of its own (`PlanFits`); what is executed is a sound plan (`PlanSound`); no dated swap runs late (`InTime`); `Settlement` is implemented |
| `quotes` | `MCQuotes.cfg` | `OfferBook` is implemented (`KeepsOffers`); freshness, honoured quotes, bounded store, cached answers that fit their question |
| `tokens` | `MCTokens.cfg` | an undisturbed request tries every primary; metadata, and decimals above all, go to their token however fields fail; answers are no older than the lifetime allows; every request ends, and every call that has got its client |
| `registry` | `MCRegistry.cfg` | one download for all callers, and not too often; every endpoint ranked once, healthy and fast ones first; every call resolved |
| `web` | `MCWeb.cfg` | no swap signed without an allowance; history complete and true, reloads apart; swaps sent on their own chain, a change during `/swap` apart; the newest answer is for what the form says |
| `web_unlocks` | `MCWebUnlocks.cfg` | the page does not stay locked |
| `pricing` | `MCPricing.cfg` | the answer is what the chain pays, leg by leg, and in total unless legs share pools; a split spends all of the input in parts of a sound size; the search misses no route but for pruning; every request ends |
| `split_minimum` | `MCSplitMinimum.cfg` | *finding:* a split may pay less than its `amountOutMinimum` |
| `quote_slippage` | `MCQuoteSlippage.cfg` | *finding:* a cached answer has another request's slippage |
| `balancer_skips` | `LoadBalancerSkips.cfg` | *finding:* a request fails without having tried every primary |
| `double_send` | `MCDoubleSend.cfg` | *finding:* one prepared swap is sent twice |
| `best_price` | `MCBestPrice.cfg` | *finding:* a split is answered that pays less than the single route it displaced |

Bounds and why they are enough.

* `swaps`: two users, two routers, four tokens, seven requests that between them
  have one and two hops, one and two legs, every router kind, wrapping and
  unwrapping, a recipient other than the sender, an explicit and a derived
  minimum. The two legs share a router and both hop tokens, so approvals
  collide and an injection sees the other leg's funds. Amounts are in the ten
  thousands, so that the buffer, the slippage and the floor of a leg are
  different whole numbers. `MaxTxs = 2` transactions or stray payments: the second
  meets whatever the first left. `Surplus` has two values, so that a later hop
  finds as much as planned or more. `MaxTime = 1`: deadlines are 0, so a
  transaction is in time or late. Deadlock is not checked: when the bounded
  number of transactions is spent and time is over, a behaviour may end.
* `quotes`: two requests at a time (the handlers share state only), a store of
  two and three quotes, so that one eviction happens; the cache and a quote live
  one instant each and the clock has four, so both lifetimes can follow one
  another and what came after them is seen. Two swaps are asked for, one that fits
  the quotes and one for the tokens the other way round. Slots are interchangeable and
  declared symmetric: the refinement is an initial condition and a condition on
  steps, and no property of the run is about infinite behaviours. Deadlock is checked.
* `tokens`: two concurrent calls and three requests over three primaries
  (`MAX_PRIMARY_RPCS`) and a fallback, so that a request meets a cursor left or
  reset by another at each offset. Two tokens of different decimals, one of them
  preloaded with a lifetime of one instant, so that it is first cached and then stale;
  lists with the native coin in the middle, and with one token twice, so that the
  positions of what is read and of what was asked differ; a token loses its symbol,
  its decimals or nothing. `balancer_skips` has four requests. Deadlock is not
  checked: when the calls are spent the system rests.
* `registry`: two callers and three calls, one chain with a public list of three
  endpoints that repeats a configured one, one private chain; a pool of two
  probes, so that a worker takes a second endpoint while the other is still at its
  first; lifetimes of one instant on a clock of two, so a cached value is fresh
  or stale. A probe is slow, quick, quick with another limit, or failed. Deadlock is
  not checked: calls are bounded.
* `web`: two overlapping confirmations, two quotes, two sends, two chains, one
  change of the form and one reload, each at any moment; a history of one entry, so
  that a second send drops the first. `web_unlocks` has one send instead of two,
  because liveness over all the states of `web` takes too long: two confirmations still
  overlap and set and clear one another's flags, but only one of them gets past the
  wallet. Deadlock is not checked in either: a page may rest.
* `pricing`: two intermediate tokens between A and B, seven pools of both versions:
  two direct ones, routes of two and three hops, and two pools for one pair, so
  that routes share a prefix, a suffix or a pool. Four requests: both versions with
  splitting, V2 only, multi-hop only, V3 only without splitting. In one market
  the V3 pools run dry above a few units, of which the estimate knows nothing.
  One partial route survives pruning, three routes are validated. One
  trade by others, in any of three pools and either direction, at any moment.
  Scales and fees are coarse so that products stay below 2^31, TLC's range;
  fee denominators of ten and twenty make the roundings show. Deadlock is checked.

Fairness. `LoadBalancer` and `TokenService`: `WF(Reply(r))` or `WF(Transport(c))`, a
transport answers or fails, because each is viem's `http` transport with a
timeout; and `WF(Received(c))`, because the event loop runs the continuation of a
multicall that has settled. Nothing is assumed of the client: its promise awaits the
registry's download, which has no timeout and may never settle (it is then cached for
good), so neither `Request` nor `NoClient` is fair and `TokensAnswered` speaks of the calls
that have got their client, whether or not others wait for theirs for ever.
`RpcRegistry`: `WF(ProbeEnds(c))`,
because an AbortController ends a probe after five seconds; the download of the
list has no timeout in the code and is not fair, so `Resolved` assumes that it ends.
`WebApp`: the server's answers, because axios gives up after thirty seconds, and
`WF(Proceeds(k))`, the steps of a confirmation that wait for the server or only for
the event loop; nothing is assumed of the user, the wallet or the chain, so
`Unlocked` speaks of flows that do not wait for these for ever. `PriceService` needs no
fairness: `Ends`, which is proved, says that every step of a request lessens the work left, and
the deadlock check that a request always has a step until it is answered; that
every read ends, if only by viem's timeout, is the argument from there to
"every request is answered". The other specifications state safety only; nothing in the
contract obliges anybody to send a transaction.

## 4. Proofs

TLAPS proves the following for all values of the constants that satisfy the named
assumptions. Each proof module begins with what its invariant adds to the
properties; the induction has one lemma per action.

### The executor (`SettlementProofs`, second part)

* `ExecutorTypes`: `Spec => []TypeOK`. As balances and
  allowances are naturals, this says that none is ever spent below zero. `TypeOK`
  is not inductive: a flush subtracts `held - before`, and a call what it
  checked; so the invariant adds `SnapshotInv`, that the noted balances have the
  length of the flush list while a transaction runs.
* `AllowancesRevoked`: `Spec => []NoStandingAllowance`. The
  induction is over the loops: `AllowanceInv` says of each allowance that is
  not zero that some transaction asked to keep it, or that the running one
  will still revoke it — the loop has not passed its approval. The revocation
  loop then empties the second case.
* `NothingLeftBehind`: `Spec => NothingStranded`. `FlushInv`
  says that the noted balances are those of `chain`, and that any asset of which
  the executor holds more than that will still be flushed. A call
  may pay the executor only a token of the flush list, which is `FlushAssumption`.

### Settlement (`SettlementProofs`)

The argument has two halves that meet in `SoundPlan`.

Executing a sound plan settles: `SwapsSettle` is
`SoundPlans /\ Spec => Settles`, the refinement of `Settlement`;
`PriorFundsStay` and `ExecutedInTime` have the same hypothesis. `Gain(a)`
is what the executor holds of `a` now over what it held before the transaction.
`SettleInv` bounds it from below by `Planned` for whatever no call
injects (`PlanInv`), says that an injected token on the way is either spent or has a
later call to spend it (`MiddleInv`), that the sender paid at most the input
and only by the pull (`SenderInv`), that bystanders have what they had
(`BystanderInv`), what the payee has got (`PayeeInv`) and what is kept (`KeptInv`). It
is needed because the step that refines `Settle` is the last one, `Commit`: all
that `Settlement` demands of it has to be carried there through the loops.
`DatedInv` says that once a dated call has been passed the time is not over.

What the builder makes is a sound plan: `BuiltPlansAreSound`. The list of calls of
one route is first brought into a form that says no more of router kinds and hop
indices. `Chained` says that every call swaps, injects if anything the amount it spends
and of a token on the way, and either brings the last token to where it is to be paid or has
the next call inject, and so spend, all that it brings.
`Gives` says what its fixed amounts add up to where nothing is injected (`AddsTo`, the
running sums of `Planned`): the input is taken, the floor is brought, nothing else
is touched. `HopCall` has this form for every router
kind, with offsets, and `RouteChained` and `SinglesAreSound` join the hops, the wrapping
and the unwrapping. A split joins the legs: both forms are kept when a list of
calls is appended to another (`ChainedJoined`, `GivesJoined`), hence, leg by leg
(`Counting` of `OrderLemmas`), by `FlattenSeq` (`LegsJoined`). The input is
spent to the unit since the last leg takes what the others leave (`LegInputs`), and no leg's
floor is negative since the legs' slippage is at most the whole (`LegMinType`).

Together: `PlansStaySound` (`[]PlanSound`) and `BuiltSwapsSettle`
(`Settles`, `PriorFundsKept` and `InTime`), for `Built`, that
`Swaps` holds only what the builder made of `Requests`. Nothing is assumed of the
builder's plans.

A built transaction fits together: `BuiltSwapsFit` is
`Built /\ Insistent /\ Spec /\ []Bounded => []PlanFits`. Its first half is a statement about
the builder alone, `BuiltPlansFit`: there is one approval per token and router and it is enough
for all the calls that spend under it (`Affords`: it is infinite, or there are running sums of what is
still to be spent, `Lasts`, that begin within it), each call that injects follows one that pays
the executor what it injects, and a fixed amount is of a token that nothing injects and no later
call brings (`FittingCall`). That merging the legs' approvals keeps them sufficient is `MergeFacts`. The
second half carries this through the loops. `FitInv` adds to `PlanFits` that the approvals
passed so far are set (`ApprovedInv`), that what is still allowed is enough for the calls to come
(`AffordInv`) and that there is something to inject (`BroughtInv`). That fixed amounts are held
follows from `SettleInv`: the executor holds what is `Planned`, and of a token that only the input brings
this never grows and does not end below zero, so it covers each amount when it is spent (`PlannedCovers`). `FaultFits` then leaves the next call
the deadline as its only fault. Two hypotheses remain. `Bounded`: no balance exceeds `MaxUint`, true of
uint256, without which an infinite allowance would not be enough for an injected amount. `Insistent`: the
call before an injecting one has a minimum above zero. It cannot be left out: where the minimum of an
intermediate hop rounds to zero its router may pay nothing, and the executor reverts with nothing
to inject; the builder has no guard against it. `MCSwaps` assumes it of its swaps, so TLC evaluates it.

Assumptions: `AssetsAssumption` (the wrapped token is a token, the coin is
not, the executor is not a user, bounds are naturals), `SwapsAssumption`
(transactions have their fields), `FlushAssumption`, `BufferAssumption` and
`RequestsAssumption`. TLC evaluates them for the builder's transactions in every run of
`MCSwaps`, which gives `Swaps` the value `BuiltSwaps`.

### The server (`QuoteServerProofs`)

`ServerTypes`, `SwapsFresh`, `QuotesHonoured`, `StoreStaysBounded` and
`QuotesFit` state `TypeOK`, `FreshSwap`, `QuoteHonoured`, `StoreBounded` and
`QuoteFitsAsk`. `ServerInv` joins them with `CacheInv` (an entry is found under its own key
and expires one lifetime after it was priced) and `StoreInv`: a quote is stored while its
result could be in the cache and expires no sooner than announced (`QuotesInv`, which
adds the two lifetimes up), identifiers are in the order of creation (`OrderInv`, so
the oldest is the least), and a quote that is gone was taken, is past its announced
expiry, or was followed by as many as the store can hold (`KeptInv`).

`OffersKeptThroughout` is `Spec => KeepsOffers`, the refinement of
`OfferBook`: one lemma per action names the abstract step, and `Tick` is split into
whether a quote passes its expiry.

Assumption: `ServerAssumption` (lifetimes, bounds and amounts are naturals).

### Load balancer and token service (`TokenProofs`)

* `BalancerTypes`, `EveryPrimaryTried`: `LoadBalancer` alone, `UndisturbedTriesAll`.
  `BalancerInv` says of a request that runs alone that it goes round, modulo the number
  of primaries, from where the cursor stands, and that those behind it failed.
* `ClientTypes`, `MulticallTriesAll`: the same of the client inside `TokenService`,
  whose every step is a step of the client or leaves it alone.
* `TokensAlwaysTyped`, `AnswersFit`, `DecimalsStayTrue`, `AnswersFresh`. `TokenInv` is
  `CacheInv`, that what is cached under a token is that token's, with its decimals, and was
  on its way no longer than the slowest, and `CallInv`, that the positions a call
  notes as missing are exactly those without an answer. The multicall's results are
  matched by position; the invariant is what makes a position the token that was asked for.

Assumptions: `TotalAssumption`, `TokenAssumption` and `NullAssumption`, which says
that `undefined` is no metadata.

### Registry (`RegistryProofs`)

`RegistryTyped`, `DownloadedOnce`, `ResultsComplete`, `HealthyAlwaysFirst` and
`DownloadsPaced` state all safety properties of `RpcRegistry`. `RegistryInv` adds to them
`ListInv` (the list is good for the shorter lifetime after a download ended),
`RankingsInv` (a ranking is of the endpoints its signature names, each once), `CallsInv`
(what a call waits for, or which of its endpoints have been measured) and `AnswersInv`. The ranking is `Enumerated` by a
strict total order (`Orders`), about which `OrderLemmas` proves that each element occurs
once and in order: the library's `SortSeq` is recursive, which hides it from the provers.

Assumption: `RegistryAssumption` (lists are sequences of endpoints, measurements numbers).

### Web application (`WebAppProofs`)

`PageTyped`, `SwapsFunded`, `HistoryStaysComplete`, `ConfirmationsTrue`,
`NewestQuoteFits`, `SwapsSentWhereQuoted`. `PageInv` relates the quote on the page and the one a `/swap` in flight names
to the book of offers (`OfferInv`), a confirmation's progress to the
approvals on its chain (`FundedInv`), the number of the newest request to those in
flight (`NewestInv`) and the swaps the page was told of to `localStorage` and the chain
(`HistoryInv`: a swap the page is about to be told of is in no other confirmation's hands). For `SwapsSentWhereQuoted`, `ChainInv` follows the chain of a quote
through these places. It has the hypothesis `PairTellsChain`, that a pair of
tokens belongs to one chain: the server refuses a swap only if token
addresses differ (`apps/server/src/index.ts:676-681`), so two chains with
the same two addresses could be confused, and in general this is what keeps the
property true.

Assumption: `WebAssumption` (forms are records of a chain, a pair and an amount, and
any can be cleared; bounds are naturals).

### Pricing (`QuoteProofs`, `PriceProofs`)

* `TypeCorrect`: `Spec => []TypeOK`. Every quote that is held or answered is a chain of hops
  for the amount asked for.
* `SplitsAreSound`: `Spec => []SplitSound`.
* `QuotesAreHonest`: `Spec => []QuoteHonest`.
* `RequestsEnd`: `Spec => Ends`.
* `SearchesComplete`: `Unrepeated(Order) /\ Unrepeated(Intermediates) /\ Spec => []SearchComplete`.

The first three follow from one invariant, `IInv` (`Invariance`), which TLC checked on the run
`pricing` before it was proved. Its idea is the set `Kept` of the quotes a request may hold: chains of hops over
distinct tokens, through pools that may have been read (`Seen`), for the amount asked for,
and, before the first trade, `Honest`: each hop is said to pay what the chain would pay for
it. `DirectOK` and `MultiOK` say that what the two branches have finished is in `Kept`.
`QuoteHonest` alone is not inductive, since an answer is made of quotes that were
estimated or validated many steps before; and honesty has to be carried through a
validation that is under way: `ValidationOK` says that the hops validated so far of each
route that has not failed are as many as were turned to, are fed one by the other, and are
honest. A V3 estimate is not honest (the code knows nothing of what lies beyond a tick),
a V2 estimate is to the last unit (`V2Exact`), and a quoter's answer is by what it is; so a
route has to have every V3 hop replaced before it is kept. That is `ValidatedFacts`: a route
passes only with all its hops, and a route without V3 hops passes as it was.

`SplitSound` comes from the optimizer alone. `SoundState` holds of every state of
`optimizeSplitMPE`: the legs carry the whole amount together, each at least `Floor`, over
routes with different pools, and each is quoted for what it carries. It is shown for the three starts
(`EqualPartsFacts`, `GreedyAllocationsFacts`, and the legs that pay nothing for their share, whose part goes to
another), for moving an amount between two legs and for removing one, in the loop or in the
final pruning (`StrengthenedFacts`). `Floor` is what every leg is sure to carry. It is the minimum, `minLegRatioBps` of
the amount, if the equal parts the optimizer starts from are no less (`MinimumFits`), for then the loop
never takes a leg below it; otherwise it is two basis points. The defaults, 50 basis points and 20
legs, fit. But `app-config.ts:90` reads `SPLIT_MIN_LEG_RATIO_BPS` without an upper bound. With 6000, say, the
halves of a pair begin below the minimum, nothing is moved from a leg that has no more than it, and a pair is
not pruned, so a split of 5833 and 4167 may be answered. `SplitSound` therefore promises
the minimum only under `MinimumFits`. `RatiosFacts` says that the shares of `buildSplitResult` are positive and make
up 10000: each leg carries at least one unit in ten thousand, also the last, which
takes what rounding left. Revalidation changes what legs pay, not what they carry.

For what the legs are paid together, `NoBetter(q, p, token)` relates a pool to itself after
swaps that went the same way: more of what is put in, less of what is paid. A pool that is no better pays no
more for no more (`PaysMonotone`). Carrying out the legs one after the other keeps every
pool of those to come as it was, if they share none, or no better, if they go the same
way (`OtherLeg`), so the sum is what is answered, or no more.

`Ends` needs more than the invariant of the quotes, that every step leaves less to do, for
any number of pools and any depth. A read that is answered leaves its branch one stage further. A round of a validation leaves
one hop less of the longest route under validation, and `Going`, an invariant of its own, says that a validation under way has a
hop left; so what is left stays positive until the answer. A search that becomes a validation, or a
decision that becomes a revalidation, has to leave less than was counted for it, `MaxHopDepth + 2`. That
is why `QuoteSet` bounds the length of a route by `MaxHopDepth + 1` hops and
`SearchFacts` follows the depth of what is still open: at depth `d` a partial route has `d` hops.

`SearchComplete` compares what the search found with a definition by all sequences of pools, and
their number with its own. `ListOf(s, T)` says that `s` has each element of `T` once and no other, and every operator
of the search is shown to keep it: what is picked, sorted, cut off or joined. A partial route of
`d` hops is a member of `Walks`, defined without the search, and going on from all those of `d` hops
in every way gives all those of one hop more (`WalksMore`). `FoundAt` is the invariant of the
deepening: at depth `k` the results are some of the routes over one to `k` tokens, the partial
routes some of those of `k + 1` hops, and all of them unless something was pruned; nothing is
pruned before the routes over one token are closed. That the routes of the definition are `Walks`, and the ids of the pools tell them
apart (`WalksApart`: a pool and one of its tokens say which the other is, and rolling an amount has
one outcome), gives the equality and the count. The theorem supposes that no pool and no intermediate token is listed
twice, for a search over a list that repeats one finds its routes twice. `buildPoolGraph` asks each factory once for each pair and fee
(`pool-discovery.ts:413-447`), and no two of the intermediate tokens of a chain in `constants.ts` have the same address.

Assumptions: `QuoteMathAssumption` (fees are parts, scales are positive),
`RouteSearchAssumption`, `SplitAssumption` and `PriceAssumption`, all evaluated by the run. Two
of them say more than a type. A pool's price in the model moves by one per trade and has to stay
positive, so a V3 pool begins above `MaxTrades`. And `MinLegRatio` is at least two basis points and
`MaxRoutes` at most 5000: the code's bounds are ten (`app-config.ts:90`) and 20 (`MAX_ROUTES_CAP`). With
one basis point and 10000 legs a share could round to zero.

What the price of a hop is (`V2Out`, `V3Out`), how quotes are compared and what counts for gas enter
the theorems only by their types, but for `V2Exact`: which route is chosen does not
matter for an honest answer.

### What is only model-checked

* Liveness: `Answered`, `TokensAnswered`, `Resolved` and `Unlocked`.
* The findings' runs, which are counterexamples.

### What no property covers

Three of the hazards are in the models but no property holds of them, as the code does nothing
about them. Two pricings of one key may finish in either order, and `FreshSwap` counts its
lifetimes from the end of pricing, not from when the prices were read. Direct pools and
the graph are read at different blocks, and `QuoteHonest` speaks of behaviours in which nobody
trades. And legs that share a pool are together paid less than is answered, by
how much nothing says: `QuoteHonest` bounds them from above only.

## 5. Findings

Each is described with its lines in `PROJECT.json`. With a run of its own that ends
in a counterexample: the floor of one percent for the legs of a split undercuts
the minimum the transaction reports; the
quote cache ignores slippage; concurrent requests make one another skip
transports; the confirm button is enabled between the approval and the swap, so
a swap can be sent twice; a split is not compared again with the single
route after its V3 legs are requoted.

Read off the code while modelling, without a run: SwapRouter02 calls carry no
deadline (the exception in `InTime`); `/swap` announces an expiry counted from its answer and not from
the quote; `/swap` compares only tokens with a stored quote; the "not found" answer for a used quote is unreachable; a
reverted swap stays pending in the history; a split whose revalidation fails is
answered with its estimates; the direct V2 pools have no fallback when the lens
fails; `auto` and the documented maximum of hops differ from the code; two documented
environment variables have other names.

Two more observations, true of the model but contradicted by no document: an
injection spends all the executor holds of the token, funds that strangers sent
earlier included, which is why `PriorFundsKept` excepts injected tokens; and a
quote is used up by a `/swap` whose tokens do not match or whose build fails.

`QuoteHonest` is stated for behaviours in which nobody trades meanwhile, because
nothing is read twice. Each leg alone is paid what is answered for it. In total that
holds for legs without a common pool; deduplication compares whole routes, so
legs may count on the same pool, and then the property says only that they are paid
no more than what is answered (when they go the same way through it): such a quote is
too good by what the legs take from one another, within the slippage or not.

## 6. Not modelled

* Reentrant calls of `execute` (`nonReentrant` refuses them), the two-step
  transfer of ownership (OpenZeppelin's), and encoders of the builder that
  nothing calls.
* viem's retries of one transport are one try in `LoadBalancer`.
* `selectBestQuote` of `route-planner.ts`, which only a test calls;
  `minSplitAmountThreshold`, which no caller sets; `getBestPrice` and
  `buildQuoteResult`, which parse their arguments and call the modelled function.
* In the web application: connecting the wallet, switching its network (a wallet
  on the wrong one is a refusal in `FlowFails`), token lists and display.
* Generic plumbing: ABIs (`abi.ts`), error classes (`errors.ts`), parsing of the
  configuration. They have no state and no control of their own.
* Read-only endpoints, validation before any state is read, configuration,
  health, formatting and logging: no state of their own.
* The quote entry's `consumed` flag: the step that sets it deletes the entry.

## 7. Plan

In this order, the behaviour that moves money first.

1. *(done)* `Executor`, `SwapBuilder`, their composition and `Settlement`; theorems
   about types, allowances and flushing.
2. *(done)* `TtlStores`, `QuoteServer`, `LoadBalancer`, `RpcRegistry`.
3. *(done)* `WebApp`; `QuoteMath`, `RouteSearch`, `SplitOptimizer`, `PriceService`.
4. *(done)* `OfferBook`, its refinement by `QuoteServer` and its composition with
   `WebApp`; reloads of the page; `TokenService` over `LoadBalancer`; deadlines;
   legs that share pools.
5. *(done)* `QuoteServer` proofs: freshness, honoured quotes, the bound on the store,
   and `KeepsOffers`.
6. *(done)* Proofs about `LoadBalancer`, `TokenService` and `RpcRegistry`.
7. *(done)* `WebApp` proofs: all its safety properties.
8. *(done)* That `Executor` implements `Settlement` for sound plans, and
   that what the builder makes of a route or a split is a sound plan.
9. *(done)* The loops of `QuoteMath`, `RouteSearch` and `SplitOptimizer` as recursive functions;
   lemmas about what pools pay; all that is answered is honest, and every split is sound.
10. *(done)* `Ends`, from an invariant that also bounds the length of routes.
11. *(done)* `PlanFits`: that what the builder makes fits together, and goes on fitting the
    executor's state from call to call.
12. *(done)* `SearchComplete`: lists without repetition, routes as chains of pools, and the search
    as their enumeration.
13. An abstract specification of `PriceService` (some quote of some set of pools read while the request ran).
