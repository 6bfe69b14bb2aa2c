------------------------------- MODULE WebApp -------------------------------
(***************************************************************************)
(* App.tsx: the quote, approve and swap flow of the web application.  A    *)
(* step is one run of a handler up to its next await, then a render; the   *)
(* handlers overlap.  A handler sees the state of the render it was made   *)
(* in, except where it calls a setter.                                     *)
(*                                                                         *)
(* The server is the one OfferBook specifies and QuoteServer implements:   *)
(* its part of a step is an action of OfferBook.  The wallet and the chain *)
(* are external: they answer, refuse or fail, a wallet that is on another  *)
(* chain or not connected among them.  The page may be reloaded at any     *)
(* time, which leaves only what the browser stores.                        *)
(***************************************************************************)
EXTENDS Integers, Sequences, FiniteSets, SequencesExt

CONSTANTS
  Forms,        \* what the form may say: [chain, pair, amount], 0 for no amount
  First,        \* the form of the first render: bsc, its presets, amount 1
  None,         \* null
  Flows,        \* bound: confirmations in progress at a time
  MaxEntries,   \* MAX_ENTRIES of the swap history
  MaxQuotes,    \* bound: quotes given in a behaviour
  MaxSends,     \* bound: swaps sent in a behaviour
  MaxEdits,     \* bound: changes of the form
  MaxReloads    \* bound: reloads of the page

ASSUME WebAssumption ==
  /\ First \in Forms /\ None \notin Forms
  /\ \A f \in Forms : f = [chain |-> f.chain, pair |-> f.pair, amount |-> f.amount]
  /\ \A f \in Forms : [f EXCEPT !.amount = 0] \in Forms
  /\ MaxEntries \in Nat \ {0}
  /\ MaxQuotes \in Nat /\ MaxSends \in Nat /\ MaxEdits \in Nat /\ MaxReloads \in Nat

VARIABLES
  form,        \* quoteForm, with selectedChain
  timer,       \* the debounce timer is set
  asking,      \* quote requests in flight
  loading,     \* [quote, approval, swap]: the three loading flags
  quote,       \* quoteResult: [ask, id, expired]
  preparing,   \* the /swap request in flight: [form, quote]
  prepared,    \* preparedSwap: [id, pair, result], result being the form it was quoted for
  modal,       \* swapConfirmModalOpen
  swapHash,    \* swapHash
  flow,        \* what each confirmation is doing
  history,     \* localStorage: the swap history, newest first
  offer,       \* the server: what each quote id stands for (OfferBook)
  approved,    \* chains: <<chain, pair>> whose input the executor may spend
  txs,         \* chains: the swaps sent, by hash: [swap, chain, status, noted]
  quotes, edits, reloads,  \* bounds: quotes asked for, changes and reloads so far
  strayed      \* history: quotes whose swap came after the chain was changed

ui     == <<form, timer, asking, loading, quote, preparing, prepared, modal, swapHash>>
bounds == <<quotes, edits, reloads, strayed>>
world  == <<offer, approved, txs, bounds>>
vars   == <<ui, flow, history, world>>

(* The server, and the page as its only client.                            *)
Server == INSTANCE OfferBook WITH
  Ids <- 1..MaxQuotes, Clients <- {"page"}, claim <- [c \in {"page"} |-> prepared]

Resting == [stage |-> "none"]

Idle == [quote |-> FALSE, approval |-> FALSE, swap |-> FALSE]

Init ==
  /\ form = First /\ timer = TRUE /\ asking = {}
  /\ loading = Idle
  /\ quote = None /\ preparing = None
  /\ modal = FALSE /\ swapHash = None
  /\ flow = [k \in Flows |-> Resting]
  /\ history = << >>
  /\ prepared = None /\ Server!Init
  /\ approved = {}
  /\ txs = << >>
  /\ quotes = 0 /\ edits = 0 /\ reloads = 0 /\ strayed = {}

(* Everything but the stored history and the outside world starts anew; a  *)
(* confirmation that was under way is not resumed.                         *)
Reload ==
  /\ reloads < MaxReloads
  /\ reloads' = reloads + 1
  /\ form' = First /\ timer' = TRUE /\ asking' = {}
  /\ loading' = Idle
  /\ quote' = None /\ preparing' = None /\ prepared' = None
  /\ modal' = FALSE /\ swapHash' = None
  /\ flow' = [k \in Flows |-> Resting]
  /\ UNCHANGED <<history, offer, approved, txs, quotes, edits, strayed>>

(* What a flow's swap spends, on the chain the page was on.                *)
Asset(k) == <<flow[k].chain, flow[k].swap.result.pair>>

-----------------------------------------------------------------------------
(* The form and the quote.                                                 *)

(* Variant: a request that is already timed is not timed anew, and one     *)
(* that has gone out is not followed by another.                           *)
EditsUnnoticed(f) ==
  /\ ~modal /\ edits < MaxEdits
  /\ f # form /\ (f.chain # form.chain => f.amount = 1)
  /\ edits' = edits + 1
  /\ form' = f
  /\ UNCHANGED <<timer, quote, prepared, asking, loading, preparing, modal, swapHash, flow,
                 history, offer, approved, txs, quotes, reloads, strayed>>

(* Changing the form restarts the debounce; changing the chain also drops  *)
(* what belonged to the other one, and sets the amount to 1.  An open      *)
(* modal covers the page.                                                  *)
Edit(f) ==
  /\ ~modal /\ edits < MaxEdits
  /\ f # form /\ (f.chain # form.chain => f.amount = 1)
  /\ edits' = edits + 1
  /\ form' = f
  /\ timer' = TRUE
  /\ IF f.chain # form.chain
     THEN quote' = None /\ prepared' = None
     ELSE UNCHANGED <<quote, prepared>>
  /\ UNCHANGED <<asking, loading, preparing, modal, swapHash, flow, history,
                 offer, approved, txs, quotes, reloads, strayed>>

(* onQuoteRequest, from the debounce.                                      *)
RequestQuote ==
  /\ timer
  /\ timer' = FALSE
  /\ IF form.amount = 0 THEN UNCHANGED <<asking, loading, prepared, quotes>>
     ELSE /\ quotes < MaxQuotes
          /\ quotes' = quotes + 1
          /\ asking' = asking \cup {[id |-> quotes + 1, ask |-> form]}
          /\ loading' = [loading EXCEPT !.quote = TRUE]
          /\ prepared' = None
  /\ UNCHANGED <<form, quote, preparing, modal, swapHash, flow, history,
                 offer, approved, txs, edits, reloads, strayed>>

(* The server offers what it was asked for, and the page shows it; or the  *)
(* request fails.                                                          *)
Quoted(q) ==
  /\ UNCHANGED prepared
  /\ Server!Offer(q.id, q.ask, {})
  /\ quote' = [ask |-> q.ask, id |-> q.id, expired |-> FALSE]

(* Variant: a request that failed leaves the page loading.                 *)
StillLoading(q) ==
  /\ asking' = asking \ {q}
  /\ \/ Quoted(q) /\ loading' = [loading EXCEPT !.quote = FALSE]
     \/ UNCHANGED <<quote, loading, prepared, offer>>
  /\ UNCHANGED <<form, timer, preparing, modal, swapHash, flow, history,
                 approved, txs, bounds>>

(* Whichever request ends, the page stops loading, and whichever answers   *)
(* last is shown.                                                          *)
QuoteSettles(q) ==
  /\ asking' = asking \ {q}
  /\ loading' = [loading EXCEPT !.quote = FALSE]
  /\ Quoted(q) \/ UNCHANGED <<quote, prepared, offer>>
  /\ UNCHANGED <<form, timer, preparing, modal, swapHash, flow, history,
                 approved, txs, bounds>>

QuoteExpires ==
  /\ quote # None
  /\ quote' = [quote EXCEPT !.expired = TRUE]
  /\ UNCHANGED <<form, timer, asking, loading, preparing, prepared, modal, swapHash,
                 flow, history, world>>

-----------------------------------------------------------------------------
(* The swap: /swap, then the modal.                                        *)

(* onExecuteSwapFlow.                                                      *)
PrepareSwap ==
  /\ ~modal /\ form.amount # 0
  /\ loading = Idle /\ preparing = None
  /\ quote # None /\ ~quote.expired
  /\ preparing' = [form |-> form, quote |-> quote]
  /\ UNCHANGED <<form, timer, asking, loading, quote, prepared, modal, swapHash,
                 flow, history, world>>

(* The server makes a swap of the quote for the tokens of the form.  By    *)
(* then the page may be on another chain.                                  *)
SwapPrepared ==
  /\ preparing # None
  /\ prepared' = [ id |-> preparing.quote.id, pair |-> preparing.form.pair,
                   result |-> preparing.quote.ask ]
  /\ Server!Redeem("page", preparing.quote.id, preparing.form.pair)
  /\ modal' = TRUE
  /\ preparing' = None
  /\ strayed' = IF form.chain = preparing.form.chain THEN strayed
                ELSE strayed \cup {preparing.quote.id}
  /\ UNCHANGED <<form, timer, asking, loading, quote, swapHash, flow, history,
                 approved, txs, quotes, edits, reloads>>

(* It refuses, with the quote used up or not, or does not answer in time.  *)
SwapNotPrepared ==
  /\ preparing # None
  /\ UNCHANGED prepared
  /\ Server!Withdraw({preparing.quote.id}) \/ UNCHANGED offer
  /\ preparing' = None
  /\ UNCHANGED <<form, timer, asking, loading, quote, modal, swapHash,
                 flow, history, approved, txs, bounds>>

(* A click beside the modal closes it, at any time.                        *)
CloseModal ==
  /\ modal
  /\ modal' = FALSE
  /\ UNCHANGED <<form, timer, asking, loading, quote, preparing, prepared, swapHash,
                 flow, history, world>>

-----------------------------------------------------------------------------
(* onConfirmSwap.  swap, chain and seen are the preparedSwap, the selected *)
(* chain and the swapHash of the render the handler was made in.           *)

Goes(k, stage) == flow' = [flow EXCEPT ![k].stage = stage]

(* Variant: nobody looks whether there is still a prepared swap.           *)
ConfirmsNothing(k) ==
  /\ modal
  /\ ~loading.approval /\ ~loading.swap
  /\ flow[k] = Resting
  /\ flow' = [flow EXCEPT ![k] = [ stage |-> "reading", swap |-> prepared, chain |-> form.chain,
                                   seen |-> swapHash, hash |-> 0 ]]
  /\ UNCHANGED <<ui, history, world>>

Confirm(k) ==
  /\ modal /\ prepared # None
  /\ ~loading.approval /\ ~loading.swap
  /\ flow[k] = Resting
  /\ flow' = [flow EXCEPT ![k] = [ stage |-> "reading", swap |-> prepared, chain |-> form.chain,
                                   seen |-> swapHash, hash |-> 0 ]]
  /\ UNCHANGED <<ui, history, world>>

(* The page is left out here: the setters that name a flow's progress.     *)
Shows(flags) ==
  /\ loading' = flags
  /\ UNCHANGED <<form, timer, asking, quote, preparing, prepared, modal>>

(* Enough is allowed: straight to the swap.                                *)
AllowanceEnough(k) ==
  /\ flow[k].stage = "reading"
  /\ Asset(k) \in approved
  /\ Goes(k, "signing")
  /\ Shows([loading EXCEPT !.swap = TRUE])
  /\ UNCHANGED <<swapHash, history, world>>

(* Too little is allowed, or it cannot be read: an unlimited approval.     *)
AllowanceLacking(k) ==
  /\ flow[k].stage = "reading"
  /\ Goes(k, "approving")
  /\ Shows([loading EXCEPT !.approval = TRUE])
  /\ UNCHANGED <<swapHash, history, world>>

(* The approval is signed and mined; then the server is polled until it    *)
(* knows, or four times: either way the flow goes on.                      *)
ApprovalMined(k) ==
  /\ flow[k].stage = "approving"
  /\ approved' = approved \cup {Asset(k)}
  /\ Goes(k, "syncing")
  /\ Shows([loading EXCEPT !.approval = FALSE])
  /\ UNCHANGED <<swapHash, history, offer, txs, bounds>>

AllowanceSynced(k) ==
  /\ flow[k].stage = "syncing"
  /\ Goes(k, "signing")
  /\ Shows([loading EXCEPT !.swap = TRUE])
  /\ UNCHANGED <<swapHash, history, world>>

(* addSwapHistoryEntry, updateSwapHistoryStatus.                           *)
Shortened(entries) == SubSeq(entries, 1, IF Len(entries) < MaxEntries THEN Len(entries) ELSE MaxEntries)

(* Variant: the new entry at the end.                                      *)
Appended(entries, h) == Shortened(Append(entries, [hash |-> h, status |-> "pending"]))

Recorded(entries, h) == Shortened(<< [hash |-> h, status |-> "pending"] >> \o entries)

Updated(entries, h, status) ==
  [i \in DOMAIN entries |->
     IF entries[i].hash = h THEN [entries[i] EXCEPT !.status = status] ELSE entries[i]]

(* Variant: the swap goes to the chain the page shows by then.             *)
SignsOnShown(k) ==
  /\ flow[k].stage = "signing"
  /\ Len(txs) < MaxSends
  /\ txs' = Append(txs, [swap |-> flow[k].swap, chain |-> form.chain, status |-> "pending", noted |-> 0])
  /\ flow' = [flow EXCEPT ![k] = [@ EXCEPT !.stage = "sent", !.hash = Len(txs) + 1]]
  /\ UNCHANGED <<ui, history, offer, approved, bounds>>

(* The wallet signs and sends, on the chain of the handler's render.       *)
SwapSigned(k) ==
  /\ flow[k].stage = "signing"
  /\ Len(txs) < MaxSends
  /\ txs' = Append(txs, [swap |-> flow[k].swap, chain |-> flow[k].chain, status |-> "pending", noted |-> 0])
  /\ flow' = [flow EXCEPT ![k] = [@ EXCEPT !.stage = "sent", !.hash = Len(txs) + 1]]
  /\ UNCHANGED <<ui, history, offer, approved, bounds>>

(* How many swaps the page was told the hash of, whichever it was.         *)
Noted == Cardinality({h \in DOMAIN txs : txs[h].noted > 0})

(* The page is told the hash, and stores it.                               *)
SwapRecorded(k) ==
  /\ flow[k].stage = "sent"
  /\ swapHash' = flow[k].hash
  /\ history' = Recorded(history, flow[k].hash)
  /\ txs' = [txs EXCEPT ![flow[k].hash].noted = Noted + 1]
  /\ Goes(k, "mining")
  /\ Shows(loading)
  /\ UNCHANGED <<offer, approved, bounds>>

(* The chain decides on a transaction, whether or not anybody waits.       *)
Mined(h) ==
  /\ txs[h].status = "pending"
  /\ \E how \in {"ok", "reverted"} : txs' = [txs EXCEPT ![h].status = how]
  /\ UNCHANGED <<ui, flow, history, offer, approved, bounds>>

(* Variant: the hash on the page is taken for the flow's own.              *)
ConfirmsShown(k) ==
  /\ flow[k].stage = "mining"
  /\ txs[flow[k].hash].status = "ok"
  /\ history' = Updated(history, swapHash, "confirmed")
  /\ flow' = [flow EXCEPT ![k] = Resting]
  /\ swapHash' = None /\ quote' = None /\ prepared' = None
  /\ form' = [form EXCEPT !.amount = 0] /\ timer' = TRUE /\ modal' = FALSE
  /\ loading' = [loading EXCEPT !.approval = FALSE, !.swap = FALSE]
  /\ UNCHANGED <<asking, preparing, world>>

SwapConfirmed(k) ==
  /\ flow[k].stage = "mining"
  /\ txs[flow[k].hash].status = "ok"
  /\ history' = Updated(history, flow[k].hash, "confirmed")
  /\ flow' = [flow EXCEPT ![k] = Resting]
  /\ swapHash' = None /\ quote' = None /\ prepared' = None
  /\ form' = [form EXCEPT !.amount = 0] /\ timer' = TRUE /\ modal' = FALSE
  /\ loading' = [loading EXCEPT !.approval = FALSE, !.swap = FALSE]
  /\ UNCHANGED <<asking, preparing, world>>

(* Variant: what fails is only reported, and the flow goes on.             *)
GoesOnUnapproved(k) ==
  /\ flow[k].stage \in {"approving", "signing", "mining"}
  /\ Goes(k, "syncing")
  /\ Shows([loading EXCEPT !.approval = FALSE, !.swap = FALSE])
  /\ UNCHANGED <<swapHash, history, world>>

(* The catch and finally clauses: a request failed, the user refused to    *)
(* sign, or the transaction reverted or its receipt was not obtained.  The *)
(* hash marked as failed is the one seen when the handler was made.        *)
FlowFails(k) ==
  /\ flow[k].stage \in {"approving", "signing", "mining"}
  /\ \/ flow[k].stage = "approving" /\ approved' = approved \cup {Asset(k)}
     \/ UNCHANGED approved
  /\ history' = IF flow[k].seen = None THEN history ELSE Updated(history, flow[k].seen, "failed")
  /\ flow' = [flow EXCEPT ![k] = Resting]
  /\ swapHash' = None
  /\ Shows([loading EXCEPT !.approval = FALSE, !.swap = FALSE])
  /\ UNCHANGED <<offer, txs, bounds>>

-----------------------------------------------------------------------------
Wallet(k)   == ApprovalMined(k) \/ SwapSigned(k) \/ SwapConfirmed(k) \/ FlowFails(k)
Proceeds(k) == AllowanceEnough(k) \/ AllowanceLacking(k) \/ AllowanceSynced(k) \/ SwapRecorded(k)

Next ==
  \/ \E f \in Forms : Edit(f)
  \/ RequestQuote \/ QuoteExpires
  \/ \E q \in asking : QuoteSettles(q)
  \/ PrepareSwap \/ SwapPrepared \/ SwapNotPrepared \/ CloseModal \/ Reload
  \/ \E k \in Flows : Confirm(k) \/ Proceeds(k) \/ Wallet(k)
  \/ \E h \in DOMAIN txs : Mined(h)

(* Axios gives up on a request after thirty seconds.  Nothing is assumed   *)
(* of the user, the wallet and the chain.                                  *)
Spec ==
  /\ Init /\ [][Next]_vars
  /\ WF_vars(\E q \in asking : QuoteSettles(q))
  /\ WF_vars(SwapPrepared \/ SwapNotPrepared)
  /\ \A k \in Flows : WF_vars(Proceeds(k))

-----------------------------------------------------------------------------
Quotes == [ask : Forms, id : 1..MaxQuotes, expired : BOOLEAN]
Swaps  == [id : 1..MaxQuotes, pair : {f.pair : f \in Forms}, result : Forms]
Stages == {"reading", "approving", "syncing", "signing", "sent", "mining"}

(* Types of the page, of its handlers and of what it stores.               *)
TypeOK ==
  /\ form \in Forms /\ timer \in BOOLEAN /\ modal \in BOOLEAN
  /\ asking \subseteq [id : 1..MaxQuotes, ask : Forms]
  /\ loading \in [quote : BOOLEAN, approval : BOOLEAN, swap : BOOLEAN]
  /\ quote \in Quotes \cup {None} /\ prepared \in Swaps \cup {None}
  /\ preparing \in [form : Forms, quote : Quotes] \cup {None}
  /\ swapHash \in DOMAIN txs \cup {None}
  /\ \A k \in Flows : flow[k] # Resting =>
       /\ flow[k].stage \in Stages /\ flow[k].swap \in Swaps
       /\ flow[k].seen \in DOMAIN txs \cup {None}
  /\ \A i \in DOMAIN history : history[i].hash \in DOMAIN txs

(* A swap is put before the wallet only when the executor may spend its    *)
(* input, although the approval is another transaction that may fail.      *)
FundedSwap ==
  \A k \in Flows :
    flow[k].stage \in {"signing", "mining"} => Asset(k) \in approved

(* The history holds the newest of the swaps the page knows of, the last   *)
(* one first, whichever confirmations sent them; and it knows of every     *)
(* swap that was sent, but for one it is just being told of or was to be   *)
(* told of when it was reloaded.                                           *)
HistoryComplete ==
  /\ Len(history) = IF Noted < MaxEntries THEN Noted ELSE MaxEntries
  /\ \A i \in DOMAIN history : txs[history[i].hash].noted = Noted + 1 - i
  /\ \A h \in DOMAIN txs :
       txs[h].noted > 0 \/ reloads > 0 \/ \E k \in Flows : flow[k].stage = "sent" /\ flow[k].hash = h

(* However the page moves on while a swap is confirmed, approved and       *)
(* signed, it is sent on the chain it was made for; unless the chain was   *)
(* changed between the request for the swap and its answer.                *)
SentWhereQuoted ==
  \A h \in DOMAIN txs :
    txs[h].chain = txs[h].swap.result.chain \/ txs[h].swap.id \in strayed

(* When the page has come to rest, what the newest request answered is for *)
(* what the form says: a quote for something else is always that of an     *)
(* older request, which a later one failed to replace or was overtaken by. *)
NewestFits ==
  quote # None /\ quote.id = quotes /\ ~timer /\ form.amount # 0 => quote.ask = form

(* Only a swap the chain has executed is ever shown as confirmed.          *)
ConfirmedIsTrue ==
  \A i \in DOMAIN history :
    history[i].status = "confirmed" => txs[history[i].hash].status = "ok"

Waiting(k) == flow[k].stage \in {"approving", "signing", "mining"}

(* The page does not stay locked: the flag of a quote request is cleared   *)
(* in the end, and so are the others if no flow waits for the wallet or    *)
(* the chain for ever.                                                     *)
Unlocked ==
  /\ loading.quote ~> ~loading.quote
  /\ preparing # None ~> preparing = None
  /\ (\A k \in Flows : []<>~Waiting(k)) =>
       (loading.approval \/ loading.swap ~> ~loading.approval /\ ~loading.swap)

-----------------------------------------------------------------------------
(* A swap that was prepared is sent once: the modal refuses a second       *)
(* confirmation while the first is being processed.                        *)
SentOnce == \A g, h \in DOMAIN txs : txs[g].swap.id = txs[h].swap.id => g = h
=============================================================================
