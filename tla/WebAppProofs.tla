---------------------------- MODULE WebAppProofs ----------------------------
(***************************************************************************)
(* The page's invariants, for any number of confirmations, quotes, swaps   *)
(* and reloads, and any length of the history.                             *)
(***************************************************************************)
EXTENDS WebApp, SequenceTheorems, FiniteSetTheorems, TLAPS

(* A pair names tokens of one chain.  The server compares the tokens of a  *)
(* quote with those asked for, not the chain.                              *)
PairTellsChain == \A f, g \in Forms : f.pair = g.pair => f.chain = g.chain

-----------------------------------------------------------------------------
(* The inductive invariant.                                                *)

Chains == {f.chain : f \in Forms}

Confirmations ==
  [ stage : Stages, swap : Swaps, chain : Chains, seen : Nat \cup {None}, hash : Nat ]

Txs     == [ swap : Swaps, chain : Chains, status : {"pending", "ok", "reverted"}, noted : Nat ]
Entries == [ hash : Nat, status : {"pending", "confirmed", "failed"} ]

(* Types, in full; a swap that was sent is one of those the chain has.     *)
PageTypes ==
  /\ TypeOK
  /\ flow \in [Flows -> Confirmations \cup {Resting}]
  /\ txs \in Seq(Txs)
  /\ history \in Seq(Entries)
  /\ \A k \in Flows : flow[k].stage \in {"sent", "mining"} => flow[k].hash \in DOMAIN txs

(* What was put before the wallet, or is about to be, may be spent.        *)
FundedInv ==
  \A k \in Flows :
    flow[k].stage \in {"syncing", "signing", "sent", "mining"} => Asset(k) \in approved

(* What the server offers under the id of a quote is that quote.           *)
Offers(q) ==
  /\ offer[q.id].status # "new"
  /\ offer[q.id].status = "open" => offer[q.id].result = q.ask

OfferInv ==
  /\ DOMAIN offer = 1..MaxQuotes
  /\ quote # None => Offers(quote)
  /\ preparing # None => Offers(preparing.quote)

(* A swap is kept for the chain it was made for.                           *)
MadeFor(swap, chain) == chain = swap.result.chain \/ swap.id \in strayed

ChainInv ==
  /\ prepared # None => MadeFor(prepared, form.chain)
  /\ \A k \in Flows : flow[k] # Resting => MadeFor(flow[k].swap, flow[k].chain)
  /\ \A h \in DOMAIN txs : MadeFor(txs[h].swap, txs[h].chain)

(* The newest request, once the form has come to rest, asked what it says. *)
Newest(q) == q.id <= quotes /\ (q.id = quotes /\ ~timer /\ form.amount # 0 => q.ask = form)

NewestInv ==
  /\ quotes \in 0..MaxQuotes
  /\ \A q \in asking : Newest(q)
  /\ quote # None => Newest(quote)

(* A swap the page is about to be told of is in no other confirmation's    *)
(* hands, and it was not told of it before.                                *)
ToldOnce ==
  \A k \in Flows : flow[k].stage = "sent" =>
    /\ txs[flow[k].hash].noted = 0
    /\ \A j \in Flows : flow[j].stage = "sent" /\ flow[j].hash = flow[k].hash => j = k

HistoryInv == HistoryComplete /\ ToldOnce /\ ConfirmedIsTrue

-----------------------------------------------------------------------------
(* Types.                                                                  *)

(* The swaps the page was told of can be counted.                          *)
LEMMA NotedFacts ==
  ASSUME txs \in Seq(Txs)
  PROVE  /\ IsFiniteSet({h \in DOMAIN txs : txs[h].noted > 0})
         /\ Noted \in Nat
<1>1. IsFiniteSet(1..Len(txs))
  BY FS_Interval
<1>2. DOMAIN txs = 1..Len(txs)
  OBVIOUS
<1>3. IsFiniteSet({h \in DOMAIN txs : txs[h].noted > 0})
  BY <1>1, <1>2, FS_Subset
<1>. QED
  BY <1>3, FS_CardinalityType DEF Noted

(* The actions that touch the confirmations, the history or the chain.     *)
Still == UNCHANGED <<flow, history, txs>>

LEMMA UiSteps ==
  ASSUME [Next]_vars
  PROVE  \/ Still
         \/ Reload
         \/ \E k \in Flows : Confirm(k) \/ Proceeds(k) \/ Wallet(k)
         \/ \E h \in DOMAIN txs : Mined(h)
<1>1. ASSUME \/ \E f \in Forms : Edit(f)
             \/ RequestQuote \/ QuoteExpires
             \/ \E q \in asking : QuoteSettles(q)
             \/ PrepareSwap \/ SwapPrepared \/ SwapNotPrepared \/ CloseModal
             \/ UNCHANGED vars
      PROVE  Still
  BY <1>1 DEF Still, Edit, RequestQuote, QuoteExpires, QuoteSettles, PrepareSwap, SwapPrepared,
              SwapNotPrepared, CloseModal, world, vars
<1>. QED
  BY <1>1 DEF Next

LEMMA TxChanged ==
  ASSUME txs \in Seq(Txs), NEW h \in DOMAIN txs, NEW new \in Txs, txs' = [txs EXCEPT ![h] = new]
  PROVE  /\ txs' \in Seq(Txs) /\ DOMAIN txs' = DOMAIN txs
         /\ txs'[h] = new
         /\ \A g \in DOMAIN txs : g # h => txs'[g] = txs[g]
OBVIOUS

LEMMA ShortenedFacts ==
  ASSUME NEW S, NEW entries \in Seq(S)
  PROVE  /\ Shortened(entries) \in Seq(S)
         /\ Len(Shortened(entries)) = IF Len(entries) < MaxEntries THEN Len(entries) ELSE MaxEntries
         /\ \A i \in DOMAIN Shortened(entries) : i \in DOMAIN entries /\ Shortened(entries)[i] = entries[i]
BY WebAssumption DEF Shortened

LEMMA UpdatedFacts ==
  ASSUME NEW entries \in Seq(Entries), NEW h, NEW status \in {"confirmed", "failed"}
  PROVE  /\ Updated(entries, h, status) \in Seq(Entries)
         /\ Len(Updated(entries, h, status)) = Len(entries)
         /\ \A i \in DOMAIN entries :
              /\ Updated(entries, h, status)[i].hash = entries[i].hash
              /\ Updated(entries, h, status)[i].status =
                   IF entries[i].hash = h THEN status ELSE entries[i].status
<1>1. /\ DOMAIN entries = 1..Len(entries) /\ Len(entries) \in Nat
      /\ \A i \in DOMAIN entries : entries[i] \in Entries
  OBVIOUS
<1>2. ASSUME NEW i \in DOMAIN entries
      PROVE  /\ Updated(entries, h, status)[i] \in Entries
             /\ Updated(entries, h, status)[i].hash = entries[i].hash
             /\ Updated(entries, h, status)[i].status =
                   IF entries[i].hash = h THEN status ELSE entries[i].status
  BY <1>1 DEF Updated, Entries
<1>3. DOMAIN Updated(entries, h, status) = 1..Len(entries)
  BY <1>1 DEF Updated
<1>4. Updated(entries, h, status) = [i \in 1..Len(entries) |-> Updated(entries, h, status)[i]]
  BY <1>1 DEF Updated
<1>5. Updated(entries, h, status) \in Seq(Entries)
  BY <1>1, <1>2, <1>4
<1>6. Len(Updated(entries, h, status)) = Len(entries)
  BY <1>1, <1>3, <1>5
<1>. QED
  BY <1>2, <1>5, <1>6

LEMMA RecordedFacts ==
  ASSUME NEW entries \in Seq(Entries), NEW h \in Nat
  PROVE  /\ Recorded(entries, h) \in Seq(Entries)
         /\ Len(Recorded(entries, h)) =
              IF Len(entries) + 1 < MaxEntries THEN Len(entries) + 1 ELSE MaxEntries
         /\ \A i \in DOMAIN Recorded(entries, h) :
              \/ i = 1 /\ Recorded(entries, h)[i] = [hash |-> h, status |-> "pending"]
              \/ i - 1 \in DOMAIN entries /\ Recorded(entries, h)[i] = entries[i - 1]
<1>. DEFINE entry == [hash |-> h, status |-> "pending"]
            all   == << entry >> \o entries
<1>1. /\ all \in Seq(Entries) /\ Len(all) = Len(entries) + 1
      /\ all[1] = entry
      /\ \A i \in DOMAIN all : i = 1 \/ (i - 1 \in DOMAIN entries /\ all[i] = entries[i - 1])
  <2>1. entry \in Entries
    BY DEF Entries
  <2>. HIDE DEF entry
  <2>. QED
    BY <2>1
<1>2. Recorded(entries, h) = Shortened(all)
  BY DEF Recorded
<1>. HIDE DEF all, entry
<1>3. /\ Shortened(all) \in Seq(Entries)
      /\ Len(Shortened(all)) = IF Len(all) < MaxEntries THEN Len(all) ELSE MaxEntries
      /\ \A i \in DOMAIN Shortened(all) : i \in DOMAIN all /\ Shortened(all)[i] = all[i]
  BY <1>1, ShortenedFacts
<1>4. \A i \in DOMAIN Shortened(all) :
        \/ i = 1 /\ Shortened(all)[i] = entry
        \/ i - 1 \in DOMAIN entries /\ Shortened(all)[i] = entries[i - 1]
  BY <1>1, <1>3
<1>. USE DEF entry
<1>. QED
  BY <1>1, <1>2, <1>3, <1>4

(* A confirmation on its way has all its fields.                           *)
LEMMA FlowFacts ==
  ASSUME PageTypes, NEW k \in Flows, flow[k] # Resting
  PROVE  /\ flow[k].stage \in Stages /\ flow[k].swap \in Swaps /\ flow[k].chain \in Chains
         /\ flow[k].seen \in DOMAIN txs \cup {None} /\ flow[k].hash \in Nat
         /\ flow[k] \in Confirmations
BY DEF PageTypes, TypeOK, Confirmations

LEMMA StageFacts ==
  ASSUME PageTypes, NEW k \in Flows, flow[k].stage # "none"
  PROVE  flow[k] # Resting
BY DEF Resting

LEMMA GoesFacts ==
  ASSUME PageTypes, NEW k \in Flows, flow[k] # Resting, NEW stage \in Stages, Goes(k, stage)
  PROVE  /\ flow' \in [Flows -> Confirmations \cup {Resting}]
         /\ flow'[k] # Resting
         /\ flow'[k].stage = stage /\ flow'[k].swap = flow[k].swap
         /\ flow'[k].chain = flow[k].chain /\ flow'[k].seen = flow[k].seen
         /\ flow'[k].hash = flow[k].hash
         /\ \A j \in Flows \ {k} : flow'[j] = flow[j]
<1>1. flow' = [flow EXCEPT ![k] = [flow[k] EXCEPT !.stage = stage]]
  BY DEF Goes
<1>2. flow \in [Flows -> Confirmations \cup {Resting}]
  BY DEF PageTypes
<1>. DEFINE to == [flow[k] EXCEPT !.stage = stage]
<1>3. /\ to \in Confirmations /\ to.stage = stage
      /\ to.swap = flow[k].swap /\ to.chain = flow[k].chain
      /\ to.seen = flow[k].seen /\ to.hash = flow[k].hash
  BY FlowFacts DEF Confirmations
<1>4. to # Resting
  BY <1>3 DEF Stages, Resting
<1>. HIDE DEF to
<1>5. flow' = [flow EXCEPT ![k] = to]
  BY <1>1 DEF to
<1>. QED
  BY <1>2, <1>3, <1>4, <1>5

LEMMA InitTypes == Init => PageTypes
<1>. SUFFICES ASSUME Init PROVE PageTypes
  OBVIOUS
<1>1. TypeOK
  <2>1. /\ form \in Forms /\ timer \in BOOLEAN /\ modal \in BOOLEAN /\ asking = {}
        /\ quote = None /\ prepared = None /\ preparing = None /\ swapHash = None
    BY WebAssumption DEF Init
  <2>2. loading \in [quote : BOOLEAN, approval : BOOLEAN, swap : BOOLEAN]
    BY DEF Init, Idle
  <2>3. \A k \in Flows : flow[k] = Resting
    BY DEF Init
  <2>4. DOMAIN history = {}
    BY DEF Init
  <2>. QED
    BY <2>1, <2>2, <2>3, <2>4 DEF TypeOK
<1>2. flow \in [Flows -> {Resting}] /\ \A k \in Flows : flow[k].stage = "none"
  BY DEF Init, Resting, Confirmations
<1>3. txs \in Seq(Txs) /\ history \in Seq(Entries)
  BY DEF Init
<1>. QED
  BY <1>1, <1>2, <1>3 DEF PageTypes

(* The steps of the form, the quotes and /swap.                            *)
LEMMA UiTypes ==
  ASSUME PageTypes, NewestInv, Still,
         \/ \E f \in Forms : Edit(f)
         \/ RequestQuote \/ QuoteExpires
         \/ \E q \in asking : QuoteSettles(q)
         \/ PrepareSwap \/ SwapPrepared \/ SwapNotPrepared \/ CloseModal
         \/ UNCHANGED vars
  PROVE  PageTypes'
<1>1. ASSUME TypeOK' PROVE PageTypes'
  BY <1>1 DEF PageTypes, Still
<1>2. CASE swapHash' = swapHash
  <2>. USE <1>2 DEF PageTypes, TypeOK, Still
  <2>1. ASSUME NEW f \in Forms, Edit(f) PROVE TypeOK'
    BY <2>1 DEF Edit
  <2>2. CASE RequestQuote
    <3>1. /\ timer' \in BOOLEAN /\ loading' \in [quote : BOOLEAN, approval : BOOLEAN, swap : BOOLEAN]
          /\ prepared' \in Swaps \cup {None}
          /\ UNCHANGED <<form, quote, preparing, modal>>
      BY <2>2 DEF RequestQuote
    <3>2. asking' \subseteq [id : 1..MaxQuotes, ask : Forms]
      BY <2>2, WebAssumption DEF RequestQuote, NewestInv
    <3>. QED
      BY <3>1, <3>2
  <2>3. CASE QuoteExpires
    BY <2>3 DEF QuoteExpires, Quotes
  <2>4. ASSUME NEW q \in asking, QuoteSettles(q) PROVE TypeOK'
    <3>1. quote' \in Quotes \cup {None}
      <4>1. q \in [id : 1..MaxQuotes, ask : Forms]
        OBVIOUS
      <4>2. [ask |-> q.ask, id |-> q.id, expired |-> FALSE] \in Quotes
        BY <4>1 DEF Quotes
      <4>. QED
        BY <2>4, <4>2 DEF QuoteSettles, Quoted
    <3>. QED
      BY <2>4, <3>1 DEF QuoteSettles, Quoted
  <2>5. CASE PrepareSwap
    BY <2>5 DEF PrepareSwap
  <2>6. CASE SwapPrepared
    <3>1. prepared' \in Swaps
      BY <2>6 DEF SwapPrepared, Swaps, Quotes
    <3>. QED
      BY <2>6, <3>1 DEF SwapPrepared
  <2>7. CASE SwapNotPrepared
    BY <2>7 DEF SwapNotPrepared
  <2>8. CASE CloseModal
    BY <2>8 DEF CloseModal
  <2>9. CASE UNCHANGED vars
    BY <2>9 DEF vars, ui
  <2>. QED
    BY <1>1, <2>1, <2>2, <2>3, <2>4, <2>5, <2>6, <2>7, <2>8, <2>9
<1>3. swapHash' = swapHash
  BY DEF Edit, RequestQuote, QuoteExpires, QuoteSettles, PrepareSwap, SwapPrepared,
         SwapNotPrepared, CloseModal, vars, ui
<1>. QED
  BY <1>2, <1>3

LEMMA ReloadTypes ==
  ASSUME PageTypes, Reload
  PROVE  PageTypes'
<1>1. /\ form' \in Forms /\ timer' \in BOOLEAN /\ modal' \in BOOLEAN /\ asking' = {}
      /\ quote' = None /\ prepared' = None /\ preparing' = None /\ swapHash' = None
      /\ \A k \in Flows : flow'[k] = Resting /\ flow'[k].stage = "none"
      /\ flow' \in [Flows -> {Resting}]
      /\ UNCHANGED <<txs, history>>
  BY WebAssumption DEF Reload, Resting
<1>2. loading' \in [quote : BOOLEAN, approval : BOOLEAN, swap : BOOLEAN]
  BY DEF Reload, Idle
<1>3. TypeOK'
  BY <1>1, <1>2 DEF PageTypes, TypeOK
<1>. QED
  BY <1>1, <1>3 DEF PageTypes

(* A confirmation goes on to another stage and the chain is as it was.     *)
LEMMA GoesTypes ==
  ASSUME PageTypes, NEW k \in Flows, flow[k] # Resting, NEW stage \in Stages, Goes(k, stage),
         stage \in {"sent", "mining"} => flow[k].hash \in DOMAIN txs,
         DOMAIN txs' = DOMAIN txs, txs' \in Seq(Txs),
         history' \in Seq(Entries), \A i \in DOMAIN history' : history'[i].hash \in DOMAIN txs,
         loading' \in [quote : BOOLEAN, approval : BOOLEAN, swap : BOOLEAN],
         swapHash' \in DOMAIN txs \cup {None},
         UNCHANGED <<form, timer, asking, quote, preparing, prepared, modal>>
  PROVE  PageTypes'
<1>1. /\ flow' \in [Flows -> Confirmations \cup {Resting}]
      /\ flow'[k].stage = stage /\ flow'[k].swap = flow[k].swap
      /\ flow'[k].seen = flow[k].seen /\ flow'[k].hash = flow[k].hash
      /\ \A j \in Flows \ {k} : flow'[j] = flow[j]
  BY GoesFacts
<1>2. \A j \in Flows : flow'[j] # Resting =>
        flow'[j].stage \in Stages /\ flow'[j].swap \in Swaps /\ flow'[j].seen \in DOMAIN txs \cup {None}
  BY <1>1, FlowFacts
<1>3. \A j \in Flows : flow'[j].stage \in {"sent", "mining"} => flow'[j].hash \in DOMAIN txs
  BY <1>1 DEF PageTypes
<1>4. TypeOK'
  BY <1>2 DEF PageTypes, TypeOK
<1>. QED
  BY <1>1, <1>3, <1>4 DEF PageTypes

(* A confirmation is over.                                                 *)
LEMMA EndTypes ==
  ASSUME PageTypes, NEW k \in Flows, flow' = [flow EXCEPT ![k] = Resting],
         txs' = txs, history' \in Seq(Entries),
         \A i \in DOMAIN history' : history'[i].hash \in DOMAIN txs,
         loading' \in [quote : BOOLEAN, approval : BOOLEAN, swap : BOOLEAN],
         swapHash' = None, form' \in Forms, timer' \in BOOLEAN, modal' \in BOOLEAN,
         quote' \in {quote, None}, prepared' \in {prepared, None},
         UNCHANGED <<asking, preparing>>
  PROVE  PageTypes'
<1>1. /\ flow' \in [Flows -> Confirmations \cup {Resting}]
      /\ \A j \in Flows : flow'[j] = flow[j] \/ flow'[j] = Resting
  BY DEF PageTypes
<1>2. TypeOK'
  BY <1>1 DEF PageTypes, TypeOK
<1>3. Resting.stage = "none"
  BY DEF Resting
<1>. QED
  BY <1>1, <1>2, <1>3 DEF PageTypes

LEMMA ConfirmTypes ==
  ASSUME PageTypes, NEW k \in Flows, Confirm(k)
  PROVE  PageTypes'
<1>. DEFINE new == [ stage |-> "reading", swap |-> prepared, chain |-> form.chain,
                     seen |-> swapHash, hash |-> 0 ]
<1>1. /\ prepared \in Swaps /\ form.chain \in Chains /\ swapHash \in DOMAIN txs \cup {None}
      /\ flow' = [flow EXCEPT ![k] = new] /\ UNCHANGED <<ui, history, txs>>
  BY DEF PageTypes, TypeOK, Confirm, Chains, world
<1>2. new \in Confirmations /\ new.stage = "reading"
  <2>1. DOMAIN txs \subseteq Nat /\ "reading" \in Stages /\ 0 \in Nat
    BY DEF PageTypes, Stages
  <2>. QED
    BY <1>1, <2>1 DEF Confirmations
<1>3. new.seen = swapHash /\ new.swap = prepared
  OBVIOUS
<1>. HIDE DEF new
<1>4. /\ flow' \in [Flows -> Confirmations \cup {Resting}]
      /\ flow'[k] = new /\ \A j \in Flows \ {k} : flow'[j] = flow[j]
  BY <1>1, <1>2 DEF PageTypes
<1>5. \A j \in Flows : flow'[j].stage \in {"sent", "mining"} => flow'[j].hash \in DOMAIN txs
  BY <1>2, <1>4 DEF PageTypes
<1>6. \A j \in Flows : flow'[j] # Resting =>
        flow'[j].stage \in Stages /\ flow'[j].swap \in Swaps /\ flow'[j].seen \in DOMAIN txs \cup {None}
  BY <1>1, <1>2, <1>3, <1>4, FlowFacts DEF Stages
<1>7. TypeOK'
  BY <1>1, <1>6 DEF PageTypes, TypeOK, ui
<1>. QED
  BY <1>1, <1>4, <1>5, <1>7 DEF PageTypes

LEMMA ProceedsTypes ==
  ASSUME PageTypes, NEW k \in Flows, Proceeds(k)
  PROVE  PageTypes'
<1>1. flow[k] # Resting
  BY StageFacts DEF Proceeds, AllowanceEnough, AllowanceLacking, AllowanceSynced, SwapRecorded
<1>2. /\ \A flag \in BOOLEAN : /\ [loading EXCEPT !.swap = flag] \in [quote : BOOLEAN, approval : BOOLEAN, swap : BOOLEAN]
                               /\ [loading EXCEPT !.approval = flag] \in [quote : BOOLEAN, approval : BOOLEAN, swap : BOOLEAN]
      /\ loading \in [quote : BOOLEAN, approval : BOOLEAN, swap : BOOLEAN]
  BY DEF PageTypes, TypeOK
<1>3. /\ history \in Seq(Entries) /\ \A i \in DOMAIN history : history[i].hash \in DOMAIN txs
      /\ txs \in Seq(Txs) /\ swapHash \in DOMAIN txs \cup {None}
      /\ {"signing", "approving", "mining"} \subseteq Stages
  BY DEF PageTypes, TypeOK, Stages
<1>4. CASE AllowanceEnough(k) \/ AllowanceSynced(k)
  BY <1>1, <1>2, <1>3, <1>4, GoesTypes DEF AllowanceEnough, AllowanceSynced, Shows, world
<1>5. CASE AllowanceLacking(k)
  BY <1>1, <1>2, <1>3, <1>5, GoesTypes DEF AllowanceLacking, Shows, world
<1>6. CASE SwapRecorded(k)
  <2>. DEFINE h == flow[k].hash
  <2>1. h \in DOMAIN txs /\ h \in Nat
    BY <1>6 DEF SwapRecorded, PageTypes
  <2>2. history' = Recorded(history, h) /\ txs' = [txs EXCEPT ![h].noted = Noted + 1]
    BY <1>6 DEF SwapRecorded
  <2>3. Noted \in Nat
    BY <1>3, NotedFacts
  <2>4. txs' \in Seq(Txs) /\ DOMAIN txs' = DOMAIN txs
    <3>. DEFINE new == [txs[h] EXCEPT !.noted = Noted + 1]
    <3>1. txs[h] \in Txs /\ Noted + 1 \in Nat
      BY <1>3, <2>1, <2>3
    <3>2. new \in Txs
      BY <3>1 DEF Txs
    <3>3. txs' = [txs EXCEPT ![h] = new]
      BY <2>2
    <3>. HIDE DEF new, h
    <3>. QED
      BY <1>3, <2>1, <3>2, <3>3, TxChanged
  <2>5. history' \in Seq(Entries) /\ \A i \in DOMAIN history' : history'[i].hash \in DOMAIN txs
    BY <1>3, <2>1, <2>2, RecordedFacts
  <2>. QED
    BY <1>1, <1>2, <1>3, <1>6, <2>1, <2>4, <2>5, GoesTypes DEF SwapRecorded, Shows
<1>. QED
  BY <1>4, <1>5, <1>6 DEF Proceeds

LEMMA WalletTypes ==
  ASSUME PageTypes, NEW k \in Flows, Wallet(k)
  PROVE  PageTypes'
<1>1. flow[k] # Resting
  BY StageFacts DEF Wallet, ApprovalMined, SwapSigned, SwapConfirmed, FlowFails
<1>2. \A a, b \in BOOLEAN :
        /\ [loading EXCEPT !.approval = a] \in [quote : BOOLEAN, approval : BOOLEAN, swap : BOOLEAN]
        /\ [loading EXCEPT !.approval = a, !.swap = b] \in [quote : BOOLEAN, approval : BOOLEAN, swap : BOOLEAN]
  BY DEF PageTypes, TypeOK
<1>3. /\ history \in Seq(Entries) /\ \A i \in DOMAIN history : history[i].hash \in DOMAIN txs
      /\ txs \in Seq(Txs) /\ swapHash \in DOMAIN txs \cup {None}
      /\ {"syncing", "sent"} \subseteq Stages
  BY DEF PageTypes, TypeOK, Stages
<1>4. ASSUME NEW h, NEW status \in {"confirmed", "failed"}
      PROVE  /\ Updated(history, h, status) \in Seq(Entries)
             /\ \A i \in DOMAIN Updated(history, h, status) :
                  Updated(history, h, status)[i].hash \in DOMAIN txs
  BY <1>3, UpdatedFacts
<1>5. CASE ApprovalMined(k)
  BY <1>1, <1>2, <1>3, <1>5, GoesTypes DEF ApprovalMined, Shows
<1>6. CASE SwapSigned(k)
  <2>. DEFINE tx == [swap |-> flow[k].swap, chain |-> flow[k].chain, status |-> "pending", noted |-> 0]
              to == [flow[k] EXCEPT !.stage = "sent", !.hash = Len(txs) + 1]
  <2>1. txs' = Append(txs, tx) /\ flow' = [flow EXCEPT ![k] = to] /\ UNCHANGED <<ui, history>>
    BY <1>6 DEF SwapSigned
  <2>2. tx \in Txs
    BY <1>1, FlowFacts DEF Txs
  <2>3. /\ to \in Confirmations /\ to.stage = "sent" /\ to.hash = Len(txs) + 1
        /\ to.swap \in Swaps /\ to.seen \in DOMAIN txs \cup {None}
    <3>1. /\ flow[k] \in Confirmations /\ flow[k].swap \in Swaps
          /\ flow[k].seen \in DOMAIN txs \cup {None} /\ Len(txs) + 1 \in Nat /\ "sent" \in Stages
      BY <1>1, <1>3, FlowFacts
    <3>. QED
      BY <3>1 DEF Confirmations
  <2>. HIDE DEF tx, to
  <2>4. txs' \in Seq(Txs) /\ DOMAIN txs \subseteq DOMAIN txs' /\ Len(txs) + 1 \in DOMAIN txs'
    BY <1>3, <2>1, <2>2
  <2>5. /\ flow' \in [Flows -> Confirmations \cup {Resting}]
        /\ flow'[k] = to /\ \A j \in Flows \ {k} : flow'[j] = flow[j]
    BY <2>1, <2>3 DEF PageTypes
  <2>6. \A j \in Flows : flow'[j].stage \in {"sent", "mining"} => flow'[j].hash \in DOMAIN txs'
    BY <2>3, <2>4, <2>5 DEF PageTypes
  <2>7. \A j \in Flows : flow'[j] # Resting =>
          flow'[j].stage \in Stages /\ flow'[j].swap \in Swaps /\ flow'[j].seen \in DOMAIN txs' \cup {None}
    BY <1>3, <2>3, <2>4, <2>5, FlowFacts
  <2>8. TypeOK'
    BY <2>1, <2>4, <2>7 DEF PageTypes, TypeOK, ui
  <2>. QED
    BY <2>1, <2>4, <2>5, <2>6, <2>8 DEF PageTypes
<1>7. CASE SwapConfirmed(k)
  <2>1. form' \in Forms
    BY <1>7, WebAssumption DEF SwapConfirmed, PageTypes, TypeOK
  <2>. QED
    BY <1>2, <1>4, <1>7, <2>1, EndTypes DEF SwapConfirmed, world
<1>8. CASE FlowFails(k)
  BY <1>2, <1>3, <1>4, <1>8, EndTypes DEF FlowFails, Shows, PageTypes, TypeOK
<1>. QED
  BY <1>5, <1>6, <1>7, <1>8 DEF Wallet

(* A swap that is sent is the chain's newest.                              *)
LEMMA SignedFacts ==
  ASSUME PageTypes, NEW k \in Flows, SwapSigned(k)
  PROVE  /\ flow[k] # Resting
         /\ flow'[k].stage = "sent" /\ flow'[k].hash = Len(txs) + 1
         /\ flow'[k].swap = flow[k].swap /\ flow'[k].chain = flow[k].chain
         /\ \A j \in Flows \ {k} : flow'[j] = flow[j]
         /\ DOMAIN txs' = DOMAIN txs \cup {Len(txs) + 1} /\ Len(txs) + 1 \notin DOMAIN txs
         /\ txs'[Len(txs) + 1].swap = flow[k].swap /\ txs'[Len(txs) + 1].chain = flow[k].chain
         /\ txs'[Len(txs) + 1].noted = 0
         /\ \A h \in DOMAIN txs : txs'[h] = txs[h]
<1>. DEFINE tx == [swap |-> flow[k].swap, chain |-> flow[k].chain, status |-> "pending", noted |-> 0]
            to == [flow[k] EXCEPT !.stage = "sent", !.hash = Len(txs) + 1]
<1>1. flow[k] # Resting
  BY StageFacts DEF SwapSigned
<1>2. flow[k] \in Confirmations /\ txs \in Seq(Txs)
  BY <1>1, FlowFacts DEF PageTypes
<1>3. to.stage = "sent" /\ to.hash = Len(txs) + 1 /\ to.swap = flow[k].swap /\ to.chain = flow[k].chain
  BY <1>2 DEF Confirmations
<1>4. txs' = Append(txs, tx) /\ flow' = [flow EXCEPT ![k] = to]
  BY DEF SwapSigned
<1>5. tx \in Txs /\ tx.swap = flow[k].swap /\ tx.chain = flow[k].chain /\ tx.noted = 0
  BY <1>1, FlowFacts DEF Txs
<1>. HIDE DEF to, tx
<1>6. flow'[k] = to /\ \A j \in Flows \ {k} : flow'[j] = flow[j]
  BY <1>4 DEF PageTypes
<1>7. /\ DOMAIN txs' = DOMAIN txs \cup {Len(txs) + 1} /\ Len(txs) + 1 \notin DOMAIN txs
      /\ txs'[Len(txs) + 1] = tx /\ \A h \in DOMAIN txs : txs'[h] = txs[h]
  BY <1>2, <1>4, <1>5
<1>. QED
  BY <1>1, <1>3, <1>5, <1>6, <1>7

LEMMA MinedTypes ==
  ASSUME PageTypes, NEW h \in DOMAIN txs, Mined(h)
  PROVE  PageTypes'
<1>1. txs' \in Seq(Txs) /\ DOMAIN txs' = DOMAIN txs
  <2>1. PICK how \in {"ok", "reverted"} : txs' = [txs EXCEPT ![h].status = how]
    BY DEF Mined
  <2>. DEFINE new == [txs[h] EXCEPT !.status = how]
  <2>2. txs \in Seq(Txs) /\ txs[h] \in Txs
    BY DEF PageTypes
  <2>3. new \in Txs
    BY <2>2 DEF Txs
  <2>4. txs' = [txs EXCEPT ![h] = new]
    BY <2>1
  <2>. HIDE DEF new
  <2>. QED
    BY <2>2, <2>3, <2>4, TxChanged
<1>. QED
  BY <1>1 DEF Mined, PageTypes, TypeOK, ui

LEMMA TypesNext ==
  ASSUME PageTypes, NewestInv, [Next]_vars
  PROVE  PageTypes'
BY UiSteps, UiTypes, ReloadTypes, ConfirmTypes, ProceedsTypes, WalletTypes, MinedTypes DEF Next

-----------------------------------------------------------------------------
(* The newest request.                                                     *)

LEMMA NewestNext ==
  ASSUME PageTypes, NewestInv, [Next]_vars
  PROVE  NewestInv'
<1>. USE DEF NewestInv, Newest
<1>1. ASSUME UNCHANGED <<form, timer, asking, quotes>>, quote' \in {quote, None} PROVE NewestInv'
  BY <1>1
<1>2. ASSUME NEW f \in Forms, Edit(f) PROVE NewestInv'
  BY <1>2 DEF Edit
<1>3. CASE RequestQuote
  <2>1. CASE form.amount = 0
    BY <1>3, <2>1 DEF RequestQuote
  <2>2. CASE form.amount # 0
    <3>1. /\ quotes' = quotes + 1 /\ quotes' \in 0..MaxQuotes
          /\ asking' = asking \cup {[id |-> quotes + 1, ask |-> form]}
          /\ UNCHANGED <<form, quote>>
      BY <1>3, <2>2, WebAssumption DEF RequestQuote
    <3>2. \A q \in asking : q.id \in Nat
      BY DEF PageTypes, TypeOK
    <3>3. quote # None => quote.id \in Nat
      BY DEF PageTypes, TypeOK, Quotes
    <3>. QED
      BY <3>1, <3>2, <3>3
  <2>. QED
    BY <2>1, <2>2
<1>4. CASE QuoteExpires
  <2>1. quote \in Quotes
    BY <1>4 DEF QuoteExpires, PageTypes, TypeOK
  <2>2. quote'.id = quote.id /\ quote'.ask = quote.ask
    BY <1>4, <2>1 DEF QuoteExpires, Quotes
  <2>. QED
    BY <1>4, <2>2 DEF QuoteExpires, world, bounds
<1>5. ASSUME NEW q \in asking, QuoteSettles(q) PROVE NewestInv'
  BY <1>5 DEF QuoteSettles, Quoted, bounds
<1>6. CASE Reload
  BY <1>6 DEF Reload
<1>7. ASSUME NEW k \in Flows, SwapConfirmed(k) PROVE NewestInv'
  BY <1>7 DEF SwapConfirmed, world, bounds
<1>8. ASSUME NEW k \in Flows, Confirm(k) \/ Proceeds(k) \/ Wallet(k), ~SwapConfirmed(k) PROVE NewestInv'
  <2>1. UNCHANGED <<form, timer, asking, quotes, quote>>
    BY <1>8 DEF Confirm, Proceeds, Wallet, AllowanceEnough, AllowanceLacking, AllowanceSynced,
                SwapRecorded, ApprovalMined, SwapSigned, FlowFails, Shows, ui, world, bounds
  <2>. QED
    BY <1>1, <2>1
<1>9. CASE \/ PrepareSwap \/ SwapPrepared \/ SwapNotPrepared \/ CloseModal
           \/ (\E h \in DOMAIN txs : Mined(h)) \/ UNCHANGED vars
  <2>1. UNCHANGED <<form, timer, asking, quotes, quote>>
    BY <1>9 DEF PrepareSwap, SwapPrepared, SwapNotPrepared, CloseModal, Mined, vars, ui, world, bounds
  <2>. QED
    BY <1>1, <2>1
<1>. QED
  BY <1>2, <1>3, <1>4, <1>5, <1>6, <1>7, <1>8, <1>9 DEF Next

-----------------------------------------------------------------------------
(* What the server offers.                                                 *)

LEMMA OfferNext ==
  ASSUME PageTypes, OfferInv, [Next]_vars
  PROVE  OfferInv'
<1>. USE DEF OfferInv, Offers
<1>0. /\ quote # None => quote \in Quotes /\ quote.id \in 1..MaxQuotes
      /\ preparing # None => preparing.quote \in Quotes /\ preparing.quote.id \in 1..MaxQuotes
  BY DEF PageTypes, TypeOK, Quotes
<1>1. ASSUME UNCHANGED offer, quote' \in {quote, None}, preparing' \in {preparing, None}
      PROVE  OfferInv'
  BY <1>1
<1>2. CASE QuoteExpires
  <2>1. quote'.id = quote.id /\ quote'.ask = quote.ask
    BY <1>0, <1>2 DEF QuoteExpires, Quotes
  <2>. QED
    BY <1>2, <2>1 DEF QuoteExpires, world
<1>3. ASSUME NEW q \in asking, QuoteSettles(q) PROVE OfferInv'
  <2>1. CASE Quoted(q)
    <3>1. /\ q.id \in 1..MaxQuotes /\ offer[q.id].status = "new"
          /\ offer' = [i \in 1..MaxQuotes |-> IF i = q.id THEN [status |-> "open", result |-> q.ask]
                                              ELSE offer[i]]
          /\ quote' = [ask |-> q.ask, id |-> q.id, expired |-> FALSE]
          /\ preparing' = preparing
      BY <1>3, <2>1 DEF QuoteSettles, Quoted, Server!Offer, Server!New, Server!Of, PageTypes, TypeOK
    <3>. QED
      BY <1>0, <3>1
  <2>. QED
    BY <1>1, <1>3, <2>1 DEF QuoteSettles
<1>4. CASE PrepareSwap
  BY <1>4 DEF PrepareSwap, world
<1>5. CASE SwapPrepared
  <2>1. offer' = [offer EXCEPT ![preparing.quote.id] = [status |-> "gone"]]
    BY <1>5 DEF SwapPrepared, Server!Redeem, Server!Gone
  <2>. QED
    BY <1>0, <1>5, <2>1 DEF SwapPrepared
<1>6. CASE SwapNotPrepared
  <2>1. CASE Server!Withdraw({preparing.quote.id})
    <3>1. offer' = [i \in 1..MaxQuotes |-> IF i = preparing.quote.id THEN [status |-> "gone"] ELSE offer[i]]
      BY <2>1 DEF Server!Withdraw, Server!Gone
    <3>. QED
      BY <1>0, <1>6, <3>1 DEF SwapNotPrepared
  <2>. QED
    BY <1>1, <1>6, <2>1 DEF SwapNotPrepared
<1>7. ASSUME NEW k \in Flows, Confirm(k) \/ Proceeds(k) \/ Wallet(k) PROVE OfferInv'
  <2>1. UNCHANGED <<offer, preparing>> /\ quote' \in {quote, None}
    BY <1>7 DEF Confirm, Proceeds, Wallet, AllowanceEnough, AllowanceLacking, AllowanceSynced,
                SwapRecorded, ApprovalMined, SwapSigned, SwapConfirmed, FlowFails, Shows, ui, world
  <2>. QED
    BY <1>1, <2>1
<1>8. CASE \/ (\E f \in Forms : Edit(f)) \/ RequestQuote \/ CloseModal \/ Reload
           \/ (\E h \in DOMAIN txs : Mined(h)) \/ UNCHANGED vars
  <2>1. UNCHANGED offer /\ quote' \in {quote, None} /\ preparing' \in {preparing, None}
    BY <1>8 DEF Edit, RequestQuote, CloseModal, Reload, Mined, vars, ui, world
  <2>. QED
    BY <1>1, <2>1
<1>. QED
  BY <1>2, <1>3, <1>4, <1>5, <1>6, <1>7, <1>8 DEF Next

-----------------------------------------------------------------------------
(* Approvals.                                                              *)

LEMMA FundedNext ==
  ASSUME PageTypes, FundedInv, [Next]_vars
  PROVE  FundedInv'
<1>. USE DEF FundedInv
<1>1. ASSUME approved \subseteq approved',
             \A k \in Flows : \/ flow'[k] = flow[k]
                              \/ flow'[k].stage \notin {"syncing", "signing", "sent", "mining"}
      PROVE  FundedInv'
  BY <1>1 DEF Asset
<1>2. ASSUME NEW k \in Flows, flow[k] # Resting, NEW stage \in Stages, Goes(k, stage),
             approved \subseteq approved', Asset(k) \in approved'
      PROVE  FundedInv'
  <2>1. Asset(k)' = Asset(k) /\ \A j \in Flows \ {k} : Asset(j)' = Asset(j) /\ flow'[j] = flow[j]
    BY <1>2, GoesFacts DEF Asset
  <2>. QED
    BY <1>2, <2>1
<1>3. ASSUME NEW k \in Flows, AllowanceEnough(k) \/ AllowanceSynced(k) \/ SwapRecorded(k) PROVE FundedInv'
  <2>1. PICK stage \in Stages : Goes(k, stage) /\ approved' = approved
    BY <1>3 DEF AllowanceEnough, AllowanceSynced, SwapRecorded, Stages, world
  <2>2. flow[k] # Resting /\ Asset(k) \in approved
    BY <1>3, StageFacts DEF AllowanceEnough, AllowanceSynced, SwapRecorded
  <2>. QED
    BY <1>2, <2>1, <2>2
<1>4. ASSUME NEW k \in Flows, ApprovalMined(k) PROVE FundedInv'
  <2>1. /\ Goes(k, "syncing") /\ "syncing" \in Stages /\ flow[k] # Resting
        /\ approved' = approved \cup {Asset(k)}
    BY <1>4, StageFacts DEF ApprovalMined, Stages
  <2>. QED
    BY <1>2, <2>1
<1>5. ASSUME NEW k \in Flows, AllowanceLacking(k) PROVE FundedInv'
  <2>1. Goes(k, "approving") /\ "approving" \in Stages /\ flow[k] # Resting /\ approved' = approved
    BY <1>5, StageFacts DEF AllowanceLacking, Stages, world
  <2>. QED
    BY <1>1, <2>1, GoesFacts
<1>6. ASSUME NEW k \in Flows, SwapSigned(k) PROVE FundedInv'
  <2>1. Asset(k) \in approved /\ approved' = approved
    BY <1>6 DEF SwapSigned
  <2>. QED
    BY <1>6, <2>1, SignedFacts DEF Asset
<1>7. ASSUME NEW k \in Flows, SwapConfirmed(k) \/ FlowFails(k) PROVE FundedInv'
  <2>1. /\ flow' = [flow EXCEPT ![k] = Resting] /\ Resting.stage = "none"
        /\ approved \subseteq approved'
    BY <1>7 DEF SwapConfirmed, FlowFails, Resting, world
  <2>. QED
    BY <1>1, <2>1 DEF PageTypes
<1>8. ASSUME NEW k \in Flows, Confirm(k) PROVE FundedInv'
  <2>1. /\ \A j \in Flows : flow'[j] = flow[j] \/ flow'[j].stage = "reading"
        /\ approved' = approved
    BY <1>8 DEF Confirm, world, PageTypes
  <2>. QED
    BY <1>1, <2>1
<1>9. CASE Reload
  <2>1. \A j \in Flows : flow'[j].stage = "none"
    BY <1>9 DEF Reload, Resting
  <2>. QED
    BY <2>1
<1>10. CASE Still /\ approved' = approved
  BY <1>1, <1>10 DEF Still
<1>11. CASE \/ (\E f \in Forms : Edit(f)) \/ RequestQuote \/ QuoteExpires
            \/ (\E q \in asking : QuoteSettles(q))
            \/ PrepareSwap \/ SwapPrepared \/ SwapNotPrepared \/ CloseModal \/ UNCHANGED vars
  BY <1>10, <1>11 DEF Still, Edit, RequestQuote, QuoteExpires, QuoteSettles, PrepareSwap,
       SwapPrepared, SwapNotPrepared, CloseModal, world, vars
<1>12. ASSUME NEW h \in DOMAIN txs, Mined(h) PROVE FundedInv'
  BY <1>1, <1>12 DEF Mined
<1>. QED
  BY <1>3, <1>4, <1>5, <1>6, <1>7, <1>8, <1>9, <1>11, <1>12 DEF Next, Proceeds, Wallet

-----------------------------------------------------------------------------
(* Chains.                                                                 *)

LEMMA ChainNext ==
  ASSUME PairTellsChain, PageTypes, OfferInv, ChainInv, [Next]_vars
  PROVE  ChainInv'
<1>. USE DEF ChainInv, MadeFor
<1>1. ASSUME strayed \subseteq strayed',
             prepared' # None => MadeFor(prepared, form.chain)',
             \A k \in Flows : flow'[k] # Resting =>
               flow[k] # Resting /\ flow'[k].swap = flow[k].swap /\ flow'[k].chain = flow[k].chain,
             DOMAIN txs' = DOMAIN txs,
             \A h \in DOMAIN txs : txs'[h].swap = txs[h].swap /\ txs'[h].chain = txs[h].chain
      PROVE  ChainInv'
  BY <1>1
<1>2. ASSUME UNCHANGED <<flow, txs, strayed>>,
             prepared' = None \/ (prepared' = prepared /\ form'.chain = form.chain)
      PROVE  ChainInv'
  BY <1>1, <1>2
<1>3. CASE SwapPrepared
  <2>1. /\ preparing.quote \in Quotes /\ preparing.quote.ask \in Forms /\ preparing.form \in Forms
        /\ offer[preparing.quote.id].status = "open"
        /\ offer[preparing.quote.id].result = preparing.quote.ask
        /\ offer[preparing.quote.id].result.pair = preparing.form.pair
    BY <1>3 DEF SwapPrepared, Server!Redeem, Server!Open, OfferInv, Offers, PageTypes, TypeOK, Quotes
  <2>2. preparing.quote.ask.chain = preparing.form.chain
    BY <2>1 DEF PairTellsChain
  <2>3. /\ prepared'.result = preparing.quote.ask /\ prepared'.id = preparing.quote.id
        /\ form' = form /\ UNCHANGED <<flow, txs>>
        /\ strayed' = IF form.chain = preparing.form.chain THEN strayed
                      ELSE strayed \cup {preparing.quote.id}
    BY <1>3 DEF SwapPrepared
  <2>. QED
    BY <1>1, <2>2, <2>3
<1>4. ASSUME NEW k \in Flows, Confirm(k) PROVE ChainInv'
  <2>1. /\ MadeFor(prepared, form.chain)
        /\ flow'[k].swap = prepared /\ flow'[k].chain = form.chain
        /\ \A j \in Flows \ {k} : flow'[j] = flow[j]
        /\ UNCHANGED <<form, prepared, txs, strayed>>
    BY <1>4 DEF Confirm, PageTypes, ui, world, bounds
  <2>. QED
    BY <2>1
<1>5. ASSUME NEW k \in Flows, Proceeds(k) \/ ApprovalMined(k) PROVE ChainInv'
  <2>1. /\ flow[k] # Resting /\ \E stage \in Stages : Goes(k, stage)
        /\ UNCHANGED <<form, prepared, strayed>>
    BY <1>5, StageFacts DEF Proceeds, AllowanceEnough, AllowanceLacking, AllowanceSynced, SwapRecorded,
       ApprovalMined, Shows, world, bounds, Stages
  <2>2. /\ flow'[k].swap = flow[k].swap /\ flow'[k].chain = flow[k].chain
        /\ \A j \in Flows \ {k} : flow'[j] = flow[j]
    BY <2>1, GoesFacts
  <2>3. CASE txs' = txs
    BY <1>1, <2>1, <2>2, <2>3
  <2>4. CASE SwapRecorded(k)
    <3>. DEFINE h == flow[k].hash
    <3>1. h \in DOMAIN txs /\ txs' = [txs EXCEPT ![h] = [txs[h] EXCEPT !.noted = Noted + 1]]
      BY <2>4 DEF SwapRecorded, PageTypes
    <3>2. txs \in Seq(Txs) /\ txs[h] \in Txs
      BY <3>1 DEF PageTypes
    <3>3. /\ DOMAIN txs' = DOMAIN txs
          /\ \A g \in DOMAIN txs : txs'[g].swap = txs[g].swap /\ txs'[g].chain = txs[g].chain
      BY <3>1, <3>2 DEF Txs
    <3>. QED
      BY <1>1, <2>1, <2>2, <3>3
  <2>. QED
    BY <1>5, <2>3, <2>4 DEF Proceeds, AllowanceEnough, AllowanceLacking, AllowanceSynced, ApprovalMined,
       world
<1>6. ASSUME NEW k \in Flows, SwapSigned(k) PROVE ChainInv'
  <2>1. UNCHANGED <<form, prepared, strayed>>
    BY <1>6 DEF SwapSigned, ui, bounds
  <2>2. prepared' # None => MadeFor(prepared, form.chain)'
    BY <2>1
  <2>3. \A j \in Flows : flow'[j] # Resting => MadeFor(flow[j].swap, flow[j].chain)'
    BY <1>6, <2>1, SignedFacts
  <2>4. ASSUME NEW h \in DOMAIN txs' PROVE MadeFor(txs'[h].swap, txs'[h].chain)
    <3>1. CASE h \in DOMAIN txs
      BY <1>6, <3>1, SignedFacts
    <3>2. CASE h = Len(txs) + 1
      <4>1. txs'[h].swap = flow[k].swap /\ txs'[h].chain = flow[k].chain /\ flow[k] # Resting
        BY <1>6, <3>2, SignedFacts
      <4>. QED
        BY <4>1
    <3>. QED
      BY <1>6, <3>1, <3>2, SignedFacts
  <2>. QED
    BY <2>1, <2>2, <2>3, <2>4
<1>7. ASSUME NEW k \in Flows, SwapConfirmed(k) \/ FlowFails(k) PROVE ChainInv'
  <2>1. flow' = [flow EXCEPT ![k] = Resting] /\ UNCHANGED <<txs, strayed>>
    BY <1>7 DEF SwapConfirmed, FlowFails, world, bounds
  <2>2. prepared' = None \/ (prepared' = prepared /\ form' = form)
    BY <1>7 DEF SwapConfirmed, FlowFails, Shows
  <2>. QED
    BY <1>1, <2>1, <2>2 DEF PageTypes
<1>8. CASE Reload
  BY <1>1, <1>8 DEF Reload
<1>9. ASSUME NEW h \in DOMAIN txs, Mined(h) PROVE ChainInv'
  <2>1. PICK how : txs' = [txs EXCEPT ![h] = [txs[h] EXCEPT !.status = how]]
    BY <1>9 DEF Mined
  <2>2. txs \in Seq(Txs) /\ txs[h] \in Txs
    BY DEF PageTypes
  <2>3. /\ DOMAIN txs' = DOMAIN txs
        /\ \A g \in DOMAIN txs : txs'[g].swap = txs[g].swap /\ txs'[g].chain = txs[g].chain
    BY <2>1, <2>2 DEF Txs
  <2>. QED
    BY <1>1, <1>9, <2>3 DEF Mined, ui, bounds
<1>10. ASSUME NEW f \in Forms, Edit(f) PROVE ChainInv'
  BY <1>2, <1>10 DEF Edit
<1>11. ASSUME NEW q \in asking, QuoteSettles(q) PROVE ChainInv'
  BY <1>2, <1>11 DEF QuoteSettles, Quoted, bounds
<1>12. CASE RequestQuote \/ QuoteExpires \/ PrepareSwap \/ SwapNotPrepared \/ CloseModal \/ UNCHANGED vars
  BY <1>2, <1>12 DEF RequestQuote, QuoteExpires, PrepareSwap, SwapNotPrepared, CloseModal, vars, ui, world,
     bounds
<1>. QED
  BY <1>3, <1>4, <1>5, <1>6, <1>7, <1>8, <1>9, <1>10, <1>11, <1>12 DEF Next, Wallet

-----------------------------------------------------------------------------
(* The history.                                                            *)

Told(h) == txs[h].noted > 0

LEMMA NotedKept ==
  ASSUME DOMAIN txs' = DOMAIN txs, \A h \in DOMAIN txs : txs'[h].noted = txs[h].noted
  PROVE  Noted' = Noted
BY DEF Noted

(* What leaves the chain's record, the stored swaps and those just sent.   *)
LEMMA HistoryKept ==
  ASSUME PageTypes, HistoryInv,
         reloads' \in Nat, reloads > 0 => reloads' > 0,
         DOMAIN txs' = DOMAIN txs,
         \A h \in DOMAIN txs : /\ txs'[h].noted = txs[h].noted
                               /\ txs[h].status = "ok" => txs'[h].status = "ok",
         Len(history') = Len(history), DOMAIN history' = DOMAIN history,
         \A i \in DOMAIN history :
           /\ history'[i].hash = history[i].hash
           /\ history'[i].status = "confirmed" =>
                history[i].status = "confirmed" \/ txs[history[i].hash].status = "ok",
         \A k \in Flows : flow'[k].stage = "sent" => flow[k].stage = "sent" /\ flow'[k].hash = flow[k].hash,
         \/ reloads' > 0
         \/ \A k \in Flows : flow[k].stage = "sent" => flow'[k].stage = "sent" /\ flow'[k].hash = flow[k].hash
  PROVE  HistoryInv'
<1>1. Noted' = Noted
  BY NotedKept
<1>2. \A i \in DOMAIN history : history[i].hash \in DOMAIN txs
  BY DEF PageTypes, TypeOK
<1>3. \A k \in Flows : flow[k].stage = "sent" => flow[k].hash \in DOMAIN txs
  BY DEF PageTypes
<1>4. HistoryComplete'
  <2>1. Len(history') = IF Noted' < MaxEntries THEN Noted' ELSE MaxEntries
    BY <1>1 DEF HistoryInv, HistoryComplete
  <2>2. \A i \in DOMAIN history' : txs'[history'[i].hash].noted = Noted' + 1 - i
    BY <1>1, <1>2 DEF HistoryInv, HistoryComplete
  <2>3. ASSUME NEW h \in DOMAIN txs', ~(txs'[h].noted > 0), ~(reloads' > 0)
        PROVE  \E k \in Flows : flow'[k].stage = "sent" /\ flow'[k].hash = h
    <3>1. PICK k \in Flows : flow[k].stage = "sent" /\ flow[k].hash = h
      BY <2>3 DEF HistoryInv, HistoryComplete
    <3>. QED
      BY <2>3, <3>1
  <2>. QED
    BY <2>1, <2>2, <2>3 DEF HistoryComplete
<1>5. ToldOnce'
  BY <1>3 DEF HistoryInv, ToldOnce
<1>6. ConfirmedIsTrue'
  BY <1>2 DEF HistoryInv, ConfirmedIsTrue
<1>. QED
  BY <1>4, <1>5, <1>6 DEF HistoryInv

LEMMA RecordedNext ==
  ASSUME PageTypes, HistoryInv, NEW k \in Flows, SwapRecorded(k)
  PROVE  HistoryInv'
<1>. DEFINE h == flow[k].hash
            told == {g \in DOMAIN txs : txs[g].noted > 0}
<1>1. /\ flow[k].stage = "sent" /\ h \in DOMAIN txs /\ h \in Nat /\ txs[h].noted = 0
      /\ history' = Recorded(history, h) /\ reloads' = reloads
      /\ txs' = [txs EXCEPT ![h] = [txs[h] EXCEPT !.noted = Noted + 1]]
  BY DEF SwapRecorded, PageTypes, HistoryInv, ToldOnce, bounds
<1>2. txs \in Seq(Txs) /\ txs[h] \in Txs /\ history \in Seq(Entries)
  BY <1>1 DEF PageTypes
<1>3. IsFiniteSet(told) /\ Noted = Cardinality(told) /\ Noted \in Nat
  BY <1>2, NotedFacts DEF Noted
<1>4. /\ DOMAIN txs' = DOMAIN txs
      /\ txs'[h].noted = Noted + 1 /\ txs'[h].status = txs[h].status
      /\ \A g \in DOMAIN txs : g # h => txs'[g] = txs[g]
  BY <1>1, <1>2, <1>3 DEF Txs
<1>5. \A j \in Flows : j # k => flow'[j] = flow[j]
  <2>1. flow[k] # Resting /\ Goes(k, "mining") /\ "mining" \in Stages
    BY StageFacts DEF SwapRecorded, Stages
  <2>. QED
    BY <2>1, GoesFacts
<1>6. flow'[k].stage = "mining"
  <2>1. flow[k] # Resting /\ Goes(k, "mining") /\ "mining" \in Stages
    BY StageFacts DEF SwapRecorded, Stages
  <2>. QED
    BY <2>1, GoesFacts
<1>. HIDE DEF h
<1>7. Noted' = Noted + 1
  <2>1. h \notin told /\ txs'[h].noted > 0
    BY <1>1, <1>3, <1>4
  <2>2. ASSUME NEW g \in DOMAIN txs PROVE txs'[g].noted > 0 <=> g \in told \/ g = h
    BY <1>4, <2>1, <2>2
  <2>3. {g \in DOMAIN txs' : txs'[g].noted > 0} = told \cup {h}
    <3>1. h \in DOMAIN txs /\ told \subseteq DOMAIN txs
      BY <1>1
    <3>. HIDE DEF told
    <3>. QED
      BY <1>4, <2>2, <3>1
  <2>4. Cardinality(told \cup {h}) = Cardinality(told) + 1
    BY <1>3, <2>1, FS_AddElement
  <2>. QED
    BY <1>3, <2>3, <2>4 DEF Noted
<1>8. /\ history' \in Seq(Entries)
      /\ Len(history') = IF Len(history) + 1 < MaxEntries THEN Len(history) + 1 ELSE MaxEntries
      /\ \A i \in DOMAIN history' :
           \/ i = 1 /\ history'[i] = [hash |-> h, status |-> "pending"]
           \/ i - 1 \in DOMAIN history /\ history'[i] = history[i - 1]
  BY <1>1, <1>2, RecordedFacts
<1>9. /\ Len(history) = IF Noted < MaxEntries THEN Noted ELSE MaxEntries
      /\ \A i \in DOMAIN history : /\ history[i].hash \in DOMAIN txs
                                   /\ txs[history[i].hash].noted = Noted + 1 - i
                                   /\ i \in Nat /\ i <= Noted
  <2>1. /\ Len(history) = IF Noted < MaxEntries THEN Noted ELSE MaxEntries
        /\ \A i \in DOMAIN history : /\ history[i].hash \in DOMAIN txs
                                     /\ txs[history[i].hash].noted = Noted + 1 - i
    BY DEF PageTypes, TypeOK, HistoryInv, HistoryComplete
  <2>2. \A i \in DOMAIN history : i \in Nat /\ i <= Len(history)
    BY <1>2
  <2>3. Len(history) <= Noted
    BY <1>3, <2>1, WebAssumption
  <2>4. \A i \in DOMAIN history : i <= Noted
    BY <1>2, <1>3, <2>2, <2>3
  <2>. QED
    BY <2>1, <2>2, <2>4
<1>10. Len(history') = IF Noted' < MaxEntries THEN Noted' ELSE MaxEntries
  BY <1>3, <1>7, <1>8, <1>9, WebAssumption
<1>11. ASSUME NEW i \in DOMAIN history' PROVE txs'[history'[i].hash].noted = Noted' + 1 - i
  <2>1. CASE i = 1 /\ history'[i] = [hash |-> h, status |-> "pending"]
    BY <1>3, <1>4, <1>7, <2>1
  <2>2. CASE i - 1 \in DOMAIN history /\ history'[i] = history[i - 1]
    <3>1. i \in Nat
      BY <1>8
    <3>. DEFINE g == history[i - 1].hash
    <3>2. g \in DOMAIN txs /\ txs[g].noted = Noted + 1 - (i - 1) /\ i - 1 <= Noted
      BY <1>9, <2>2
    <3>3. history'[i].hash = g
      BY <2>2
    <3>. HIDE DEF g
    <3>4. g # h
      BY <1>1, <1>3, <3>1, <3>2
    <3>5. txs'[g].noted = Noted' + 1 - i
      BY <1>3, <1>4, <1>7, <3>1, <3>2, <3>4
    <3>. QED
      BY <3>3, <3>5
  <2>. QED
    BY <1>8, <2>1, <2>2
<1>12. ASSUME NEW g \in DOMAIN txs', ~(txs'[g].noted > 0), ~(reloads' > 0)
       PROVE  \E j \in Flows : flow'[j].stage = "sent" /\ flow'[j].hash = g
  <2>1. g # h
    BY <1>3, <1>4, <1>12
  <2>2. PICK j \in Flows : flow[j].stage = "sent" /\ flow[j].hash = g
    BY <1>1, <1>4, <1>12, <2>1 DEF HistoryInv, HistoryComplete
  <2>. QED
    BY <1>5, <2>1, <2>2 DEF h
<1>13. ToldOnce'
  <2>1. ASSUME NEW j \in Flows, flow'[j].stage = "sent"
        PROVE  j # k /\ flow'[j] = flow[j] /\ flow[j].hash # h /\ flow[j].hash \in DOMAIN txs
    BY <1>1, <1>5, <1>6, <2>1 DEF HistoryInv, ToldOnce, PageTypes, h
  <2>. QED
    BY <1>4, <2>1 DEF HistoryInv, ToldOnce
<1>14. ConfirmedIsTrue'
  <2>1. ASSUME NEW i \in DOMAIN history', history'[i].status = "confirmed"
        PROVE  txs'[history'[i].hash].status = "ok"
    <3>1. i - 1 \in DOMAIN history /\ history'[i] = history[i - 1]
      BY <1>8, <2>1
    <3>2. txs[history[i - 1].hash].status = "ok" /\ history[i - 1].hash \in DOMAIN txs
      BY <1>9, <2>1, <3>1 DEF HistoryInv, ConfirmedIsTrue
    <3>. QED
      BY <1>4, <3>1, <3>2
  <2>. QED
    BY <2>1 DEF ConfirmedIsTrue
<1>. QED
  BY <1>10, <1>11, <1>12, <1>13, <1>14 DEF HistoryInv, HistoryComplete

LEMMA SignedNext ==
  ASSUME PageTypes, HistoryInv, NEW k \in Flows, SwapSigned(k)
  PROVE  HistoryInv'
<1>. DEFINE new == Len(txs) + 1
<1>1. /\ flow[k].stage = "signing" /\ flow'[k].stage = "sent" /\ flow'[k].hash = new
      /\ \A j \in Flows \ {k} : flow'[j] = flow[j]
      /\ DOMAIN txs' = DOMAIN txs \cup {new} /\ new \notin DOMAIN txs
      /\ txs'[new].noted = 0
      /\ \A h \in DOMAIN txs : txs'[h] = txs[h]
      /\ UNCHANGED <<history, reloads>>
  <2>1. flow[k].stage = "signing" /\ UNCHANGED <<history, reloads>>
    BY DEF SwapSigned, bounds
  <2>. QED
    BY <2>1, SignedFacts
<1>. HIDE DEF new
<1>2. Noted' = Noted
  <2>1. {h \in DOMAIN txs' : txs'[h].noted > 0} = {h \in DOMAIN txs : txs[h].noted > 0}
    BY <1>1
  <2>. QED
    BY <2>1 DEF Noted
<1>3. \A i \in DOMAIN history : history[i].hash \in DOMAIN txs
  BY DEF PageTypes, TypeOK
<1>4. \A j \in Flows : flow[j].stage = "sent" => flow[j].hash \in DOMAIN txs
  BY DEF PageTypes
<1>5. HistoryComplete'
  <2>1. Len(history') = IF Noted' < MaxEntries THEN Noted' ELSE MaxEntries
    BY <1>1, <1>2 DEF HistoryInv, HistoryComplete
  <2>2. \A i \in DOMAIN history' : txs'[history'[i].hash].noted = Noted' + 1 - i
    BY <1>1, <1>2, <1>3 DEF HistoryInv, HistoryComplete
  <2>3. ASSUME NEW h \in DOMAIN txs', ~(txs'[h].noted > 0), ~(reloads' > 0)
        PROVE  \E j \in Flows : flow'[j].stage = "sent" /\ flow'[j].hash = h
    <3>1. CASE h = new
      BY <1>1, <3>1
    <3>2. CASE h \in DOMAIN txs
      <4>1. PICK j \in Flows : flow[j].stage = "sent" /\ flow[j].hash = h
        BY <1>1, <2>3, <3>2 DEF HistoryInv, HistoryComplete
      <4>. QED
        BY <1>1, <4>1
    <3>. QED
      BY <1>1, <3>1, <3>2
  <2>. QED
    BY <2>1, <2>2, <2>3 DEF HistoryComplete
<1>6. ToldOnce'
  BY <1>1, <1>4 DEF HistoryInv, ToldOnce
<1>7. ConfirmedIsTrue'
  BY <1>1, <1>3 DEF HistoryInv, ConfirmedIsTrue
<1>. QED
  BY <1>5, <1>6, <1>7 DEF HistoryInv

LEMMA HistoryNext ==
  ASSUME PageTypes, HistoryInv, reloads \in Nat, [Next]_vars
  PROVE  HistoryInv'
<1>1. ASSUME reloads' = reloads \/ reloads' = reloads + 1, UNCHANGED <<txs, history>>,
             \A k \in Flows : flow'[k].stage = "sent" => flow'[k] = flow[k],
             \/ reloads' > 0
             \/ \A k \in Flows : flow[k].stage = "sent" => flow'[k] = flow[k]
      PROVE  HistoryInv'
  <2>1. \A i \in DOMAIN history : history'[i].status = "confirmed" => history[i].status = "confirmed"
    BY <1>1
  <2>2. /\ reloads' \in Nat /\ (reloads > 0 => reloads' > 0)
        /\ \A k \in Flows : flow'[k].stage = "sent" =>
                             flow[k].stage = "sent" /\ flow'[k].hash = flow[k].hash
    BY <1>1
  <2>3. \/ reloads' > 0
        \/ \A k \in Flows : flow[k].stage = "sent" => flow'[k].stage = "sent" /\ flow'[k].hash = flow[k].hash
    BY <1>1
  <2>. QED
    BY <1>1, <2>1, <2>2, <2>3, HistoryKept
<1>2. CASE Reload
  <2>1. \A k \in Flows : flow'[k].stage = "none"
    BY <1>2 DEF Reload, Resting
  <2>. QED
    BY <1>1, <1>2, <2>1 DEF Reload
<1>3. CASE Still /\ reloads' = reloads
  BY <1>1, <1>3 DEF Still
<1>4. CASE \/ (\E f \in Forms : Edit(f)) \/ RequestQuote \/ QuoteExpires
           \/ (\E q \in asking : QuoteSettles(q))
           \/ PrepareSwap \/ SwapPrepared \/ SwapNotPrepared \/ CloseModal \/ UNCHANGED vars
  BY <1>3, <1>4 DEF Still, Edit, RequestQuote, QuoteExpires, QuoteSettles, PrepareSwap,
       SwapPrepared, SwapNotPrepared, CloseModal, world, bounds, vars
<1>5. ASSUME NEW k \in Flows, NEW to, flow' = [flow EXCEPT ![k] = to],
             flow[k].stage # "sent", to.stage # "sent", UNCHANGED <<txs, history, reloads>>
      PROVE  HistoryInv'
  <2>1. flow'[k] = to /\ \A j \in Flows \ {k} : flow'[j] = flow[j]
    BY <1>5 DEF PageTypes
  <2>. QED
    BY <1>1, <1>5, <2>1
<1>6. ASSUME NEW k \in Flows, Confirm(k) PROVE HistoryInv'
  <2>. DEFINE to == [ stage |-> "reading", swap |-> prepared, chain |-> form.chain,
                      seen |-> swapHash, hash |-> 0 ]
  <2>1. to.stage # "sent" /\ Resting.stage # "sent"
    BY DEF Resting
  <2>2. /\ flow[k] = Resting /\ flow' = [flow EXCEPT ![k] = to]
        /\ UNCHANGED <<txs, history, reloads>>
    BY <1>6 DEF Confirm, world, bounds
  <2>. HIDE DEF to
  <2>. QED
    BY <1>5, <2>1, <2>2
<1>7. ASSUME NEW k \in Flows,
             AllowanceEnough(k) \/ AllowanceLacking(k) \/ AllowanceSynced(k) \/ ApprovalMined(k)
      PROVE  HistoryInv'
  <2>1. PICK stage \in Stages : Goes(k, stage) /\ stage # "sent"
    BY <1>7 DEF AllowanceEnough, AllowanceLacking, AllowanceSynced, ApprovalMined, Stages
  <2>2. flow[k] # Resting /\ flow[k].stage # "sent" /\ UNCHANGED <<txs, history, reloads>>
    BY <1>7, StageFacts
       DEF AllowanceEnough, AllowanceLacking, AllowanceSynced, ApprovalMined, world, bounds
  <2>3. flow'[k].stage # "sent" /\ \A j \in Flows \ {k} : flow'[j] = flow[j]
    BY <2>1, <2>2, GoesFacts
  <2>. QED
    BY <1>1, <2>2, <2>3
<1>8. ASSUME NEW k \in Flows, SwapConfirmed(k) \/ FlowFails(k) PROVE HistoryInv'
  <2>1. /\ flow' = [flow EXCEPT ![k] = Resting] /\ UNCHANGED <<txs, reloads>>
        /\ flow[k].stage # "sent"
    BY <1>8 DEF SwapConfirmed, FlowFails, world, bounds
  <2>2. /\ Len(history') = Len(history) /\ DOMAIN history' = DOMAIN history
        /\ \A i \in DOMAIN history :
             /\ history'[i].hash = history[i].hash
             /\ history'[i].status = "confirmed" =>
                  history[i].status = "confirmed" \/ txs[history[i].hash].status = "ok"
    <3>1. history \in Seq(Entries)
      BY DEF PageTypes
    <3>2. CASE SwapConfirmed(k)
      <4>1. history' = Updated(history, flow[k].hash, "confirmed") /\ txs[flow[k].hash].status = "ok"
        BY <3>2 DEF SwapConfirmed
      <4>. QED
        BY <3>1, <4>1, UpdatedFacts
    <3>3. CASE FlowFails(k)
      <4>1. history' = history \/ history' = Updated(history, flow[k].seen, "failed")
        BY <3>3 DEF FlowFails
      <4>. QED
        BY <3>1, <4>1, UpdatedFacts
    <3>. QED
      BY <1>8, <3>2, <3>3
  <2>3. \A j \in Flows : (flow'[j].stage = "sent" <=> flow[j].stage = "sent") /\ (j # k => flow'[j] = flow[j])
    BY <2>1 DEF PageTypes, Resting
  <2>. QED
    BY <2>1, <2>2, <2>3, HistoryKept
<1>9. ASSUME NEW h \in DOMAIN txs, Mined(h) PROVE HistoryInv'
  <2>1. PICK how \in {"ok", "reverted"} : txs' = [txs EXCEPT ![h] = [txs[h] EXCEPT !.status = how]]
    BY <1>9 DEF Mined
  <2>2. txs \in Seq(Txs) /\ txs[h] \in Txs /\ txs[h].status = "pending"
    BY <1>9 DEF PageTypes, Mined
  <2>3. /\ DOMAIN txs' = DOMAIN txs
        /\ \A g \in DOMAIN txs : /\ txs'[g].noted = txs[g].noted
                                 /\ txs[g].status = "ok" => txs'[g].status = "ok"
    BY <2>1, <2>2 DEF Txs
  <2>4. UNCHANGED <<flow, history, reloads>>
    BY <1>9 DEF Mined, bounds
  <2>. QED
    BY <2>3, <2>4, HistoryKept
<1>. QED
  BY <1>2, <1>4, <1>6, <1>7, <1>8, <1>9, RecordedNext, SignedNext DEF Next, Proceeds, Wallet

-----------------------------------------------------------------------------
(* Together.                                                               *)

(* The invariant, and for pairs that name the tokens of a chain, the part  *)
(* about chains.                                                           *)
PageInv == PageTypes /\ FundedInv /\ OfferInv /\ NewestInv /\ HistoryInv /\ reloads \in Nat

LEMMA InitInv == Init => PageInv /\ ChainInv
<1>. SUFFICES ASSUME Init PROVE PageInv /\ ChainInv
  OBVIOUS
<1>1. PageTypes
  BY InitTypes
<1>2. /\ \A k \in Flows : flow[k] = Resting /\ flow[k].stage = "none"
      /\ txs = << >> /\ history = << >> /\ asking = {}
      /\ quote = None /\ preparing = None /\ prepared = None /\ quotes = 0 /\ reloads = 0
      /\ offer = [id \in 1..MaxQuotes |-> Server!New]
  BY DEF Init, Resting, Server!Init
<1>3. FundedInv /\ OfferInv
  BY <1>2 DEF FundedInv, OfferInv
<1>4. NewestInv
  BY <1>2, WebAssumption DEF NewestInv
<1>5. HistoryInv
  <2>1. Noted = 0
    <3>1. {h \in DOMAIN txs : txs[h].noted > 0} = {}
      BY <1>2
    <3>. QED
      BY <3>1, FS_EmptySet DEF Noted
  <2>. QED
    BY <1>2, <2>1, WebAssumption DEF HistoryInv, HistoryComplete, ToldOnce, ConfirmedIsTrue
<1>6. ChainInv
  BY <1>2 DEF ChainInv
<1>. QED
  BY <1>1, <1>2, <1>3, <1>4, <1>5, <1>6 DEF PageInv

LEMMA NextInv == PageInv /\ [Next]_vars => PageInv'
<1>. SUFFICES ASSUME PageInv, [Next]_vars PROVE PageInv'
  OBVIOUS
<1>1. reloads' \in Nat
  <2>1. CASE Reload
    BY <2>1 DEF PageInv, Reload
  <2>2. ASSUME \E f \in Forms : Edit(f) PROVE reloads' = reloads
    BY <2>2 DEF Edit
  <2>3. ASSUME \E k \in Flows : Confirm(k) \/ Proceeds(k) \/ Wallet(k) PROVE reloads' = reloads
    BY <2>3 DEF Confirm, Proceeds, Wallet, AllowanceEnough, AllowanceLacking, AllowanceSynced,
       SwapRecorded, ApprovalMined, SwapSigned, SwapConfirmed, FlowFails, world, bounds
  <2>4. ASSUME \E h \in DOMAIN txs : Mined(h) PROVE reloads' = reloads
    BY <2>4 DEF Mined, bounds
  <2>5. ASSUME \/ RequestQuote \/ QuoteExpires \/ (\E q \in asking : QuoteSettles(q))
               \/ PrepareSwap \/ SwapPrepared \/ SwapNotPrepared \/ CloseModal \/ UNCHANGED vars
        PROVE  reloads' = reloads
    BY <2>5 DEF RequestQuote, QuoteExpires, QuoteSettles, PrepareSwap, SwapPrepared, SwapNotPrepared,
       CloseModal, world, bounds, vars
  <2>. QED
    BY <2>1, <2>2, <2>3, <2>4, <2>5 DEF Next, PageInv
<1>. QED
  BY <1>1, TypesNext, FundedNext, OfferNext, NewestNext, HistoryNext DEF PageInv

LEMMA Invariance == Spec => []PageInv
BY InitInv, NextInv, PTL DEF Spec

LEMMA ChainInvariance == PairTellsChain /\ Spec => []ChainInv
<1>. SUFFICES ASSUME PairTellsChain PROVE Spec => []ChainInv
  OBVIOUS
<1>1. PageInv /\ ChainInv /\ [Next]_vars => ChainInv'
  BY ChainNext DEF PageInv
<1>. QED
  BY <1>1, InitInv, Invariance, PTL DEF Spec

(* Types of the page, of its handlers and of what it stores.               *)
THEOREM PageTyped == Spec => []TypeOK
<1>1. PageInv => TypeOK
  BY DEF PageInv, PageTypes
<1>. QED
  BY <1>1, Invariance, PTL

(* Nothing is put before the wallet to sign that the executor may not      *)
(* spend.                                                                  *)
THEOREM SwapsFunded == Spec => []FundedSwap
<1>1. PageInv => FundedSwap
  BY DEF PageInv, FundedInv, FundedSwap
<1>. QED
  BY <1>1, Invariance, PTL

(* The stored history is that of the newest swaps, and complete.           *)
THEOREM HistoryStaysComplete == Spec => []HistoryComplete
<1>1. PageInv => HistoryComplete
  BY DEF PageInv, HistoryInv
<1>. QED
  BY <1>1, Invariance, PTL

(* Only a swap the chain has executed is shown as confirmed.               *)
THEOREM ConfirmationsTrue == Spec => []ConfirmedIsTrue
<1>1. PageInv => ConfirmedIsTrue
  BY DEF PageInv, HistoryInv
<1>. QED
  BY <1>1, Invariance, PTL

(* What the newest request answered is for what the form says.             *)
THEOREM NewestQuoteFits == Spec => []NewestFits
<1>1. PageInv => NewestFits
  BY DEF PageInv, NewestInv, Newest, NewestFits
<1>. QED
  BY <1>1, Invariance, PTL

(* If a pair names the tokens of one chain, a swap is sent on the chain it *)
(* was quoted on, unless the chain was changed while it was prepared.      *)
THEOREM SwapsSentWhereQuoted == PairTellsChain /\ Spec => []SentWhereQuoted
<1>1. ChainInv => SentWhereQuoted
  BY DEF ChainInv, MadeFor, SentWhereQuoted
<1>. QED
  BY <1>1, ChainInvariance, PTL
=============================================================================
