------------------------------- MODULE MCWeb -------------------------------
(***************************************************************************)
(* A small instance of WebApp: one pair on one chain with two amounts, and *)
(* another chain with its own pair.                                        *)
(***************************************************************************)
EXTENDS WebApp

Form(chain, pair, amount) == [chain |-> chain, pair |-> pair, amount |-> amount]

MCForms == { Form("bsc", "bnb-usdt", n) : n \in {0, 1} } \cup { Form("eth", "eth-usdc", n) : n \in {0, 1} }
MCFirst == Form("bsc", "bnb-usdt", 1)
=============================================================================
