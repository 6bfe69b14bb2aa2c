----------------------------- MODULE Settlement -----------------------------
(***************************************************************************)
(* What executing swaps promises to the accounts involved, with no         *)
(* executor in sight: a swap happens in one step or not at all.            *)
(***************************************************************************)
EXTENDS Integers

CONSTANTS Users, Assets, Swaps, Wealth

VARIABLE ledger     \* ledger[a][u]: what user u holds of asset a

Init == ledger = Wealth

(* Without a direct payment the output goes to whoever sent the swap.      *)
Payee(s) == IF s.direct THEN s.recipient ELSE s.by

Change(a, u) == ledger'[a][u] - ledger[a][u]

(* The sender pays at most amountIn, the payee gets at least the floor the *)
(* calldata insists on, and nobody else, and no asset in between, moves.   *)
Settle(s) ==
  /\ Change(s.assetIn, s.by) \in (-s.amountIn)..0
  /\ Change(s.assetOut, Payee(s)) >= s.floor
  /\ \A a \in Assets, u \in Users :
       \/ <<a, u>> \in {<<s.assetIn, s.by>>, <<s.assetOut, Payee(s)>>}
       \/ Change(a, u) = 0

(* Everything else that happens leaves the ledger alone.                   *)
Next == ledger' # ledger /\ \E s \in Swaps : Settle(s)

Spec == Init /\ [][Next]_ledger
=============================================================================
