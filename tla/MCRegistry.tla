----------------------------- MODULE MCRegistry -----------------------------
(***************************************************************************)
(* A small instance of RpcRegistry: one chain takes part in the public     *)
(* list, the other has endpoints of its own.                               *)
(***************************************************************************)
EXTENDS RpcRegistry

CONSTANTS Eth, Bsc, U1, U2, U3

MCConfigured == [ch \in Chains |-> IF ch = Eth THEN <<U1>> ELSE <<U3, U3>>]

(* The list names a configured endpoint again and two new ones, or it does *)
(* not know the chain.                                                     *)
MCLists == { [ch \in Chains |-> <<U2, U1, U3>>], [ch \in Chains |-> << >>] }

(* A slow answer, two quick ones with different limits, a quick failure.   *)
MCOutcomes == { [ok |-> TRUE, latency |-> 2, rate |-> -1],
                [ok |-> TRUE, latency |-> 1, rate |-> 9],
                [ok |-> FALSE, latency |-> 1, rate |-> -1] }
=============================================================================
