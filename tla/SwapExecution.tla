--------------------------- MODULE SwapExecution ---------------------------
(***************************************************************************)
(* The swap builder and the executor together: the transactions the        *)
(* builder makes of a set of requests are executed by the contract, in any *)
(* order, with prices moving, the clock running, strangers paying the      *)
(* executor, and its owner pausing and rescuing in between.                *)
(***************************************************************************)
EXTENDS Executor

CONSTANTS Requests, BufferBps

ASSUME BufferAssumption == BufferBps \in 0..9999

Builder == INSTANCE SwapBuilder

(* What the builder makes of the requests it does not refuse; the models   *)
(* give this set to the constant Swaps.                                    *)
BuiltSwaps == {Builder!Build(r) : r \in {q \in Requests : Builder!CanBuild(q)}}

(* A route, as the route search gives it to the server and the server to   *)
(* the builder: a path that meets no token twice, a hop between any two    *)
(* neighbours.                                                             *)
Hops == [router : Routers, kind : SwapKinds, amountIn : Nat, amountOut : Nat]

SimpleRoute(q) ==
  /\ q.path \in Seq(Tokens) /\ q.hops \in Seq(Hops) /\ q.hops # << >>
  /\ Len(q.path) = Len(q.hops) + 1
  /\ \A i, j \in 1..Len(q.path) : q.path[i] = q.path[j] => i = j
  /\ q.amountIn \in Nat /\ q.amountOut \in Nat

(* The first hop of a single route is quoted for the whole input; the legs *)
(* of a split begin and end where the split does.  The coin is asked for   *)
(* in the place of the wrapped token.                                      *)
Quoted(r) ==
  LET q == r.quote IN
    /\ SimpleRoute(q)
    /\ q.splits = << >> => q.hops[1].amountIn = q.amountIn
    /\ Len(q.splits) \in Nat /\ DOMAIN q.splits = 1..Len(q.splits)
    /\ \A k \in 1..Len(q.splits) :
         LET leg == q.splits[k] IN
           /\ SimpleRoute(leg)
           /\ leg.path[1] = q.path[1]
           /\ leg.path[Len(leg.path)] = q.path[Len(q.path)]
    /\ r.by \in Users /\ r.recipient \in Users /\ r.deadline \in Nat
    /\ r.amountOutMin \in Nat /\ r.slippageBps \in Int
    /\ r.nativeIn \in BOOLEAN /\ (r.nativeIn => q.path[1] = WETH)
    /\ r.nativeOut \in BOOLEAN /\ (r.nativeOut => q.path[Len(q.path)] = WETH)

ASSUME RequestsAssumption == \A r \in Requests : Quoted(r)

Ledger == [a \in Assets |-> [u \in Users |-> chain.bal[a][u]]]

Abstract == INSTANCE Settlement WITH ledger <- Ledger

-----------------------------------------------------------------------------
(* What makes a list of calls a swap, whatever the pools turn out to pay.  *)

CallsOf(s) == 1..Len(s.calls)

Untouched(s, a) == \A k \in CallsOf(s) : s.calls[k].injectToken # a

(* What a call adds at least to the executor's holding of an asset that    *)
(* nothing injects; where no router pays the asset it is exactly this.     *)
Flow(c, a) ==
  LET pays   == c.kind \in SwapKinds /\ c.tokenOut = a /\ c.recipient = Self
      spends == c.kind \in SwapKinds /\ c.tokenIn = a
      wraps  == c.kind = "deposit"
  IN  (IF pays THEN c.words["amountOutMin"] ELSE 0) - (IF spends THEN c.words["amountIn"] ELSE 0)
      + (IF wraps /\ a = WETH THEN c.value ELSE 0) - (IF wraps /\ a = ETH THEN c.value ELSE 0)

(* Planned(s, a)[k]: what s leaves the executor of a after k calls.        *)
Planned(s, a) ==
  LET sum[k \in 0..Len(s.calls)] ==
        IF k = 0 THEN IF a = s.assetIn THEN s.amountIn ELSE 0
        ELSE sum[k - 1] + Flow(s.calls[k], a)
  IN  sum

Pays(c, t) == c.kind \in SwapKinds /\ c.tokenOut = t

(* A call injects only the amount it spends, all it can get of it.  Only   *)
(* the last router may pay somebody else than the executor.                *)
SoundCall(s, k) ==
  LET c == s.calls[k] IN
    /\ Injects(c) => WordAt(c.kind, c.injectOffset) = "amountIn"
    /\ c.kind = "deposit" => ~Injects(c) /\ s.assetIn = ETH /\ s.assetOut # WETH
    /\ c.kind = "withdraw" => c.injectToken = WETH /\ s.assetOut = ETH /\ k = Len(s.calls)
    /\ c.kind \in SwapKinds =>
         /\ c.injectToken \in {NoToken, c.tokenIn}
         /\ c.tokenIn # s.assetOut /\ c.tokenOut # s.assetIn
         /\ IF s.direct /\ k = Len(s.calls) THEN c.recipient = s.recipient
            ELSE c.recipient = Self /\ (s.direct => c.tokenOut # s.assetOut)
    /\ c.kind \in SwapKinds \ {"v3r02"} => c.words["deadline"] = s.deadline

(* The input is brought once.                                              *)
SoundInput(s) ==
  /\ s.assetIn # s.assetOut
  /\ IF s.assetIn = ETH THEN s.value = s.amountIn /\ s.pulls = << >>
     ELSE s.value = 0 /\ s.pulls = << [token |-> s.assetIn, amount |-> s.amountIn] >>

(* The minimum words of the calls that bring the output add up to floor.   *)
SoundOutput(s) ==
  LET n == Len(s.calls) IN
    CASE s.direct -> n > 0 /\ Pays(s.calls[n], s.assetOut) /\ s.calls[n].words["amountOutMin"] >= s.floor
      [] ~s.direct /\ s.assetOut # ETH -> Planned(s, s.assetOut)[n] >= s.floor
      [] ~s.direct /\ s.assetOut = ETH ->
           /\ n > 0 /\ s.calls[n].kind = "withdraw" /\ Planned(s, WETH)[n - 1] >= s.floor
           /\ \A k \in 1..(n - 1) : s.calls[k].injectToken # WETH

(* The fixed amounts of the calls use up what the wrapping brought.        *)
UsedUp(s, t) ==
  /\ Untouched(s, t)
  /\ \A k \in CallsOf(s) : ~Pays(s.calls[k], t)
  /\ Planned(s, t)[Len(s.calls)] <= 0

Brings(c, t) == Pays(c, t) \/ (c.kind = "deposit" /\ t = WETH)

(* Of a token on the way, all that a call brings is spent by a later one.  *)
SoundMiddle(s, t) ==
  \/ \A k \in CallsOf(s) : Brings(s.calls[k], t) =>
       \E j \in CallsOf(s) : j > k /\ s.calls[j].injectToken = t
  \/ UsedUp(s, t)

SoundPlan(s) ==
  /\ SoundInput(s)
  /\ \A k \in CallsOf(s) : SoundCall(s, k)
  /\ SoundOutput(s)
  /\ \A t \in Tokens \ {s.assetIn, s.assetOut} : SoundMiddle(s, t)
  /\ \A a \in Assets : Untouched(s, a) => Planned(s, a)[Len(s.calls)] >= 0

SoundPlans == \A s \in Swaps : SoundPlan(s)

-----------------------------------------------------------------------------
(* What the executor is given to execute is a plan that cannot go wrong on *)
(* the way: every amount on the way is spent, fixed amounts are covered by *)
(* what is brought, injections hit the word they mean, the minima add up.  *)
PlanSound == phase = "pull" => SoundPlan(cur)

(* Every transaction of the builder, whatever the pools paid along the way *)
(* and whatever the executor held before, is a settlement in one step: the *)
(* sender pays at most amountIn, the payee gets what the calldata insists  *)
(* on, no intermediate token is left with anybody, nobody else pays.       *)
Settles == Abstract!Spec

(* The plan fits together: a built transaction can fail because the sender *)
(* lacks the money, the pool moved or the time is up, but never because    *)
(* the executor approved too little, spends what it does not hold, or      *)
(* writes an amount anywhere but in the amountIn word.                     *)
PlanFits == outcome \notin {"allowance", "balance", "zero", "offset", "garbled"}

(* It needs no more of the world than that balances are uint256, and of    *)
(* the swaps that the call before one that injects insists on some output, *)
(* however little.                                                         *)
Bounded == \A t \in Tokens : Held(t) <= MaxUint

Insistent ==
  \A s \in Swaps : \A k \in CallsOf(s) :
    k > 1 /\ Injects(s.calls[k]) => s.calls[k - 1].words["amountOutMin"] > 0

(* What the API promises of a swap: amountOutMinimum, slippage-adjusted,   *)
(* is what the payee gets at least.                                        *)
MinimumReceived ==
  [][phase = "eth" =>
       Ledger'[cur.assetOut][Abstract!Payee(cur)] - Ledger[cur.assetOut][Abstract!Payee(cur)]
         >= cur.amountOutMinimum]_vars

(* A swap that goes through any router but SwapRouter02 is not executed    *)
(* after its deadline, however many hops inject their amounts, and however *)
(* late it is mined.  Router02's struct has no deadline to insist on.      *)
Dated(s) == \E k \in DOMAIN s.calls : s.calls[k].kind \in SwapKinds \ {"v3r02"}

InTime == [][phase = "eth" /\ Dated(cur) => now <= cur.deadline]_vars
=============================================================================
