---------------------------- MODULE SwapBuilder ----------------------------
(***************************************************************************)
(* swap-builder.ts: a price quote becomes the pulls, approvals, calls and  *)
(* flush list of one executor transaction.  All amounts are integers and   *)
(* every division rounds down, as BigInt division does.                    *)
(*                                                                         *)
(* A quote is [path, hops, amountIn, amountOut, splits]; a hop is          *)
(* [router, kind, amountIn, amountOut] and stands for the source, its dex  *)
(* and its version; splits holds the leg quotes, empty for a single route. *)
(* A request is [quote, by, recipient, amountOutMin, slippageBps,          *)
(* deadline, nativeIn, nativeOut].                                         *)
(***************************************************************************)
EXTENDS Integers, Sequences, SequencesExt, Calldata

CONSTANTS WETH, ETH, NoToken, Self, MaxUint,
          BufferBps     \* INTERHOP_BUFFER_BPS

Bps == 10000

-----------------------------------------------------------------------------
(* Slippage.                                                               *)

ClampSlippage(bps) == IF bps < 0 THEN 0 ELSE IF bps > 1000 THEN 1000 ELSE bps

ApplySlippage(amount, bps) == IF bps <= 0 THEN amount ELSE amount - (amount * bps) \div Bps

AmountOutMinimum(r) ==
  IF r.amountOutMin > 0 THEN r.amountOutMin
  ELSE ApplySlippage(r.quote.amountOut, ClampSlippage(r.slippageBps))

DeriveHopMinOut(expected, totalMin, totalExpected, isLast) ==
  IF isLast THEN totalMin
  ELSE IF totalExpected = 0 \/ expected = 0 THEN 0
  ELSE (expected * totalMin) \div totalExpected

(* A leg of a split is allowed one percent at least, whatever the user     *)
(* allowed for the whole swap.                                             *)
LegSlippageBps(quote, amountOutMin) ==
  LET user == IF quote.amountOut > 0
              THEN ((quote.amountOut - amountOutMin) * Bps) \div quote.amountOut
              ELSE 50
  IN IF user < 100 THEN 100 ELSE user

LegMinOut(leg, bps) ==
  IF leg.amountOut > 0 THEN leg.amountOut - (leg.amountOut * bps) \div Bps ELSE 0

-----------------------------------------------------------------------------
(* The amounts of a route's hops.                                          *)

Buffered(i, amount) ==
  LET buffer == (amount * BufferBps) \div Bps
  IN IF i > 1 /\ buffer > 0 /\ buffer < amount THEN amount - buffer ELSE amount

(* amountIn and expected output of every hop: each starts from what the    *)
(* one before is expected to give; a single route never plans more than    *)
(* was quoted for the hop, a leg of a split may.                           *)
HopAmounts(route, amountIn, capped) ==
  LET amounts[i \in 1..Len(route.hops)] ==
        LET h         == route.hops[i]
            available == IF i = 1 THEN amountIn ELSE amounts[i - 1].out
            offered   == IF capped /\ h.amountIn <= available THEN h.amountIn ELSE available
            in        == Buffered(i, offered)
        IN [available |-> available, in |-> in, out |-> (h.amountOut * in) \div h.amountIn]
  IN amounts

(* Variant: SwapRouter02's struct taken for one with a deadline.           *)
DeadlineOffset(kind) == IF kind = "v2" THEN 4 ELSE 164

(* Where amountIn stands in the calldata of each router function.          *)
InjectOffset(kind) ==
  CASE kind = "v2" -> 4 [] kind = "v3r02" -> 132 [] kind = "v3" -> 164

(* Variant: the deadline is not passed on.                                 *)
UndatedCall(route, i, in, minOut, to, deadline) ==
  [ target |-> route.hops[i].router, kind |-> route.hops[i].kind, value |-> 0,
    injectToken  |-> IF i > 1 THEN route.path[i] ELSE NoToken,
    injectOffset |-> IF i > 1 THEN InjectOffset(route.hops[i].kind) ELSE 0,
    tokenIn |-> route.path[i], tokenOut |-> route.path[i + 1], recipient |-> to,
    words |-> [amountIn |-> in, amountOutMin |-> minOut, deadline |-> MaxUint] ]

(* Variant: every hop spends what was planned for it.                      *)
PlannedCall(route, i, in, minOut, to, deadline) ==
  [ target |-> route.hops[i].router, kind |-> route.hops[i].kind, value |-> 0,
    injectToken |-> NoToken, injectOffset |-> 0,
    tokenIn |-> route.path[i], tokenOut |-> route.path[i + 1], recipient |-> to,
    words |-> [amountIn |-> in, amountOutMin |-> minOut, deadline |-> deadline] ]

(* One router call: the first hop spends the planned amount, the others    *)
(* whatever the executor holds of their input by then.                     *)
HopCall(route, i, in, minOut, to, deadline) ==
  [ target |-> route.hops[i].router, kind |-> route.hops[i].kind, value |-> 0,
    injectToken  |-> IF i > 1 THEN route.path[i] ELSE NoToken,
    injectOffset |-> IF i > 1 THEN InjectOffset(route.hops[i].kind) ELSE 0,
    tokenIn |-> route.path[i], tokenOut |-> route.path[i + 1], recipient |-> to,
    words |-> [amountIn |-> in, amountOutMin |-> minOut, deadline |-> deadline] ]

HopApproval(route, i, in) ==
  [ token |-> route.path[i], spender |-> route.hops[i].router,
    amount |-> IF i > 1 THEN MaxUint ELSE in, revokeAfter |-> TRUE ]

RouteCalls(route, amounts, minOut, to, deadline) ==
  [ i \in 1..Len(route.hops) |->
      LET isLast == i = Len(route.hops)
      IN HopCall(route, i, amounts[i].in,
                 DeriveHopMinOut(amounts[i].out, minOut, route.amountOut, isLast),
                 IF isLast THEN to ELSE Self, deadline) ]

RouteApprovals(route, amounts) ==
  [i \in 1..Len(route.hops) |-> HopApproval(route, i, amounts[i].in)]

-----------------------------------------------------------------------------
(* Parts common to both builders.  The flush list is a set made a list; in *)
(* what order its tokens are flushed makes no difference.                  *)

WethCall(kind, value, inject, offset) ==
  [ target |-> WETH, kind |-> kind, value |-> value, injectToken |-> inject,
    injectOffset |-> offset, tokenIn |-> WETH, tokenOut |-> WETH, recipient |-> Self,
    words |-> [amountIn |-> 0, amountOutMin |-> 0, deadline |-> 0] ]

Wrap(r)   == IF r.nativeIn THEN << WethCall("deposit", r.quote.amountIn, NoToken, 0) >> ELSE << >>
Unwrap(r) == IF r.nativeOut THEN << WethCall("withdraw", 0, WETH, 4) >> ELSE << >>

Pulls(r) ==
  IF r.nativeIn THEN << >> ELSE << [token |-> r.quote.path[1], amount |-> r.quote.amountIn] >>

Transaction(r, direct, floor, approvals, calls, flush) ==
  [ by |-> r.by, recipient |-> r.recipient, direct |-> direct,
    assetIn  |-> IF r.nativeIn THEN ETH ELSE r.quote.path[1],
    assetOut |-> IF r.nativeOut THEN ETH ELSE Last(r.quote.path),
    amountIn |-> r.quote.amountIn, amountOutMinimum |-> AmountOutMinimum(r), floor |-> floor,
    value |-> IF r.nativeIn THEN r.quote.amountIn ELSE 0, deadline |-> r.deadline,
    pulls |-> Pulls(r), approvals |-> approvals,
    calls |-> Wrap(r) \o calls \o Unwrap(r), flush |-> SetToSeq(flush) ]

-----------------------------------------------------------------------------
(* A single route: the last router pays the recipient, unless the output   *)
(* is to be unwrapped.                                                     *)

BuildSingle(r) ==
  LET q       == r.quote
      amounts == HopAmounts(q, q.amountIn, TRUE)
      min     == AmountOutMinimum(r)
      to      == IF r.nativeOut THEN Self ELSE r.recipient
      inputs  == {q.path[i] : i \in 1..Len(q.hops)}
  IN Transaction(r, ~r.nativeOut, min,
                 RouteApprovals(q, amounts),
                 RouteCalls(q, amounts, min, to, r.deadline),
                 IF r.nativeOut THEN ToSet(q.path) ELSE inputs)

-----------------------------------------------------------------------------
(* A split: each leg is a route of its own; all of them pay the executor.  *)

Total(s) ==
  LET sum[k \in 0..Len(s)] == IF k = 0 THEN 0 ELSE sum[k - 1] + s[k]
  IN  sum[Len(s)]

(* The last leg takes what the others left of the input.                   *)
LegAmountIn(q, k) ==
  IF k = Len(q.splits)
  THEN q.amountIn - Total([j \in 1..(Len(q.splits) - 1) |-> q.splits[j].amountIn])
  ELSE q.splits[k].amountIn

(* One approval per token and spender: amounts add up, and anything added  *)
(* to an infinite allowance stays infinite.                                *)
AddAllowance(a, b) == IF a < MaxUint /\ b < MaxUint THEN a + b ELSE MaxUint

MergeApproval(merged, a) ==
  LET same(k) == merged[k].token = a.token /\ merged[k].spender = a.spender
  IN IF \E k \in DOMAIN merged : same(k)
     THEN [k \in DOMAIN merged |->
             IF same(k) THEN [merged[k] EXCEPT !.amount = AddAllowance(@, a.amount)]
             ELSE merged[k]]
     ELSE Append(merged, a)

(* Variant: every leg's approvals as they are; the last forceApprove wins. *)
UnmergedApprovals(approvals) == approvals

MergeApprovals(approvals) ==
  LET merged[k \in 0..Len(approvals)] ==
        IF k = 0 THEN << >> ELSE MergeApproval(merged[k - 1], approvals[k])
  IN  merged[Len(approvals)]

BuildSplit(r) ==
  LET q       == r.quote
      legs    == 1..Len(q.splits)
      bps     == LegSlippageBps(q, AmountOutMinimum(r))
      amounts == [k \in legs |-> HopAmounts(q.splits[k], LegAmountIn(q, k), FALSE)]
      min     == [k \in legs |-> LegMinOut(q.splits[k], bps)]
  IN Transaction(r, FALSE, Total(min),
       MergeApprovals(FlattenSeq([k \in legs |-> RouteApprovals(q.splits[k], amounts[k])])),
       FlattenSeq([k \in legs |->
          RouteCalls(q.splits[k], amounts[k], min[k], Self, r.deadline)]),
       UNION {ToSet(q.splits[k].path) : k \in legs})

-----------------------------------------------------------------------------
(* What the builders refuse with an error.                                 *)

RoutePlanned(route, amounts) ==
  \A i \in 1..Len(route.hops) :
    route.hops[i].amountIn > 0 /\ route.hops[i].amountOut > 0
      /\ amounts[i].available > 0 /\ amounts[i].in > 0

IsSplit(q) == q.splits # << >>

CanBuild(r) ==
  IF IsSplit(r.quote)
  THEN /\ Len(r.quote.hops) > 0
       /\ Len(r.quote.splits) >= 2
       /\ \A k \in DOMAIN r.quote.splits : \A i \in DOMAIN r.quote.splits[k].hops :
            r.quote.splits[k].hops[i].amountIn > 0
  ELSE Len(r.quote.hops) > 0 /\ RoutePlanned(r.quote, HopAmounts(r.quote, r.quote.amountIn, TRUE))

Build(r) == IF IsSplit(r.quote) THEN BuildSplit(r) ELSE BuildSingle(r)
=============================================================================
