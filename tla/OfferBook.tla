----------------------------- MODULE OfferBook -----------------------------
(***************************************************************************)
(* What the API server promises about quotes, and all the web application  *)
(* relies on: an id offers one result, is good for one swap at most, of    *)
(* that very result and for its tokens, and once it was used or withdrawn  *)
(* it never comes back.  The server may withdraw what it offered at any    *)
(* time; why it does so is for QuoteServer to say.                         *)
(***************************************************************************)
EXTENDS Naturals

CONSTANTS
  Ids,      \* quote ids
  Clients,  \* who may be making a swap
  None      \* no swap

VARIABLES
  offer,  \* what each id stands for: New, Gone, or the result it offers
  claim   \* the swap each client is making of a quote: [id, pair, result]

vars == <<offer, claim>>

New  == [status |-> "new"]
Gone == [status |-> "gone"]
Of(result) == [status |-> "open", result |-> result]

Open == {id \in Ids : offer[id].status = "open"}

Init == offer = [id \in Ids |-> New] /\ claim = [c \in Clients |-> None]

(* A result is offered under a new id; older offers may have to go for it. *)
Offer(id, result, withdrawn) ==
  /\ offer[id] = New /\ withdrawn \subseteq Open
  /\ offer' = [i \in Ids |-> IF i = id THEN Of(result) ELSE IF i \in withdrawn THEN Gone ELSE offer[i]]
  /\ UNCHANGED claim

(* Used in vain, expired or evicted.                                       *)
Withdraw(ids) ==
  /\ ids # {} /\ ids \subseteq Open
  /\ offer' = [i \in Ids |-> IF i \in ids THEN Gone ELSE offer[i]]
  /\ UNCHANGED claim

(* A client asks for a swap of the tokens in pair and brings the id.       *)
Redeem(c, id, pair) ==
  /\ id \in Open /\ offer[id].result.pair = pair
  /\ claim' = [claim EXCEPT ![c] = [id |-> id, pair |-> pair, result |-> offer[id].result]]
  /\ offer' = [offer EXCEPT ![id] = Gone]

Finish(c) ==
  /\ claim[c] # None
  /\ claim' = [claim EXCEPT ![c] = None]
  /\ UNCHANGED offer

(* Any result may be offered.                                              *)
Next ==
  \/ \E id \in Ids, withdrawn \in SUBSET Open :
       offer'[id].status = "open" /\ Offer(id, offer'[id].result, withdrawn)
  \/ \E ids \in SUBSET Open : Withdraw(ids)
  \/ \E c \in Clients :
       Finish(c) \/ \E id \in Open : Redeem(c, id, offer[id].result.pair)

Spec == Init /\ [][Next]_vars
=============================================================================
