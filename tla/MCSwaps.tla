------------------------------ MODULE MCSwaps ------------------------------
(***************************************************************************)
(* Small instances of SwapExecution.  Amounts are in the ten thousands so  *)
(* that the buffer (10 bps), the slippage (50 bps) and the floor of a      *)
(* split leg (100 bps) are different whole numbers.                        *)
(***************************************************************************)
EXTENDS SwapExecution

CONSTANTS A, M, B, U1, U2, R1, R2

Hop(router, kind, in, out) ==
  [router |-> router, kind |-> kind, amountIn |-> in, amountOut |-> out]

Route(path, hops) ==
  [ path |-> path, hops |-> hops, amountIn |-> hops[1].amountIn,
    amountOut |-> hops[Len(hops)].amountOut, splits |-> << >> ]

Split(legs) ==
  [ path |-> legs[1].path, hops |-> legs[1].hops, amountIn |-> 10000, amountOut |-> 20000,
    splits |-> legs ]

Ask(q, by, to, min, nativeIn, nativeOut) ==
  [ quote |-> q, by |-> by, recipient |-> to, amountOutMin |-> min, slippageBps |-> 50,
    deadline |-> 0, nativeIn |-> nativeIn, nativeOut |-> nativeOut ]

Direct(i, o)  == Route(<<i, o>>, << Hop(R1, "v2", 10000, 20000) >>)
TwoHops(i, o, first, second) ==
  Route(<<i, M, o>>, << Hop(R1, first, 10000, 30000), Hop(R2, second, 30000, 20000) >>)

(* Two legs that share their first router and both of their hops' tokens.  *)
Legs(i, o) ==
  << Route(<<i, M, o>>, << Hop(R1, "v2", 6000, 18000), Hop(R2, "v3", 18000, 12000) >>),
     Route(<<i, M, o>>, << Hop(R1, "v3r02", 4000, 12000), Hop(R1, "v3r02", 12000, 8000) >>) >>

SingleRequests ==
  { Ask(Direct(A, B), U1, U2, 0, FALSE, FALSE),
    Ask(TwoHops(A, B, "v2", "v3"), U1, U2, 0, FALSE, FALSE),
    Ask(TwoHops(WETH, B, "v3r02", "v3r02"), U1, U1, 19000, TRUE, FALSE),
    Ask(TwoHops(A, WETH, "v3", "v2"), U2, U2, 0, FALSE, TRUE) }

SplitRequests ==
  { Ask(Split(Legs(A, B)), U1, U2, 0, FALSE, FALSE),
    Ask(Split(Legs(WETH, B)), U2, U2, 0, TRUE, FALSE),
    Ask(Split(Legs(A, WETH)), U1, U1, 0, FALSE, TRUE) }

AllRequests == SingleRequests \cup SplitRequests

MCWealth == [a \in Assets |-> [u \in Users |-> 10000]]

(* No hop of these swaps is so small that its minimum is zero.             *)
ASSUME InsistentSwaps == Insistent
=============================================================================
