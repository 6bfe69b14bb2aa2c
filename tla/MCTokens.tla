------------------------------ MODULE MCTokens ------------------------------
(***************************************************************************)
(* A small instance of TokenService: two tokens of different decimals, one *)
(* of them preloaded.                                                      *)
(***************************************************************************)
EXTENDS TokenService

CONSTANTS A, B

MCDecimals == (A :> 18) @@ (B :> 6)
MCLists    == { << A >>, << A, Native, B >>, << B, B >> }
MCLosses   == { {}, {"symbol"}, {"decimals"} }
=============================================================================
