----------------------------- MODULE MCPricing -----------------------------
(***************************************************************************)
(* A small instance of PriceService: two direct pools of A and B, and      *)
(* routes over the wrapped native token W and over U, of both versions.    *)
(* Fees and scales are coarse so that all numbers stay below 2^31.         *)
(***************************************************************************)
EXTENDS PriceService

MCFee == [uniswap |-> [num |-> 19, den |-> 20], pancakeswap |-> [num |-> 9, den |-> 10]]
MCIntermediates == <<"W", "U", "B">>
MCGas == [v2 |-> 1, v3 |-> 2]

V2(id, protocol, t0, t1, r0, r1) ==
  [ id |-> id, version |-> "v2", protocol |-> protocol, token0 |-> t0, token1 |-> t1, fee |-> 0,
    reserve0 |-> r0, reserve1 |-> r1, sqrtPrice |-> 0, liquidity |-> 0, reach |-> 0 ]

V3(id, t0, t1, price, liquidity, reach) ==
  [ id |-> id, version |-> "v3", protocol |-> "uniswap", token0 |-> t0, token1 |-> t1, fee |-> 1,
    reserve0 |-> 0, reserve1 |-> 0, sqrtPrice |-> price, liquidity |-> liquidity, reach |-> reach ]

MCOrder == <<"ab", "ab3", "aw", "wb", "wb3", "au", "uw">>
MCTraded == {"ab", "ab3", "wb3"}

Market(ab, abReach, wbReach) ==
  [ ab  |-> V2("ab", "uniswap", "A", "B", 30, ab),
    ab3 |-> V3("ab3", "B", "A", 16, 40, abReach),
    aw  |-> V2("aw", "pancakeswap", "W", "A", 45, 40),
    wb  |-> V2("wb", "uniswap", "W", "B", 40, 50),
    wb3 |-> V3("wb3", "B", "W", 17, 40, wbReach),
    au  |-> V2("au", "uniswap", "A", "U", 30, 90),
    uw  |-> V2("uw", "pancakeswap", "U", "W", 90, 40) ]

MCMarkets == { Market(30, 40, 40), Market(36, 3, 2) }

Ask(amount, versions, force, splitting) ==
  [amount |-> amount, versions |-> versions, force |-> force, split |-> splitting]

MCRequests ==
  { Ask(12, {"v2", "v3"}, FALSE, TRUE), Ask(12, {"v2"}, FALSE, TRUE), Ask(7, {"v2", "v3"}, TRUE, TRUE),
    Ask(12, {"v3"}, FALSE, FALSE) }
=============================================================================
