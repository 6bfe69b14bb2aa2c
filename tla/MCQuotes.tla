------------------------------ MODULE MCQuotes ------------------------------
(***************************************************************************)
(* Small instances of QuoteServer: asks that differ in the amount or in    *)
(* the slippage alone, a swap that fits them and one for other tokens.     *)
(***************************************************************************)
EXTENDS QuoteServer, TLC

Ask(chain, pair, amount, slippage) ==
  [chain |-> chain, pair |-> pair, amount |-> amount, slippage |-> slippage]

AmountAsks   == { Ask("eth", "in-out", 1, 50), Ask("eth", "in-out", 2, 5000) }
SlippageAsks == { Ask("eth", "in-out", 1, 50), Ask("eth", "in-out", 1, 100) }
MCSwapAsks  == { Ask("eth", "in-out", 1, 50), Ask("eth", "out-in", 1, 50) }

(* Slots do not differ.                                                    *)
SlotSymmetry == Permutations(Slots)
=============================================================================
