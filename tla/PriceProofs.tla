---------------------------- MODULE PriceProofs -----------------------------
(***************************************************************************)
(* A request for a price, for every set of pools, market, request, trade   *)
(* and failed read. The invariant follows what is known of every quote a   *)
(* request holds: before the first trade each hop of it pays what the      *)
(* chain would, be it the code's exact estimate or a quoter's answer, and  *)
(* always it is a chain of hops for the amount asked for. First the        *)
(* validation and the request, then what its legs are paid in turn, what   *)
(* each step leaves to do, and what the search finds.                      *)
(***************************************************************************)
EXTENDS QuoteProofs

-----------------------------------------------------------------------------
(* The validation of routes.                                               *)

(* hops is what is known of the route of q so far.  If honest, the chain   *)
(* would pay as much.                                                      *)
Follows(hops, q, honest) ==
  \A i \in 1..Len(hops) :
    /\ hops[i].pool = q.hops[i].pool /\ hops[i].amountOut > 0
    /\ hops[i].amountIn = IF i = 1 THEN q.amountIn ELSE hops[i - 1].amountOut
    /\ honest => hops[i].amountOut = Pays(hops[i].pool, q.path[i], hops[i].amountIn)

ValidationOK(v, PS, honest) ==
  /\ v = [routes |-> v.routes, hop |-> v.hop, valid |-> v.valid, failed |-> v.failed]
  /\ v.routes \in Seq(QuoteSet(PS)) /\ v.hop \in Nat \ {0}
  /\ v.failed \in SUBSET (1..Len(v.routes))
  /\ v.valid \in [1..Len(v.routes) -> Seq(Hops(PS))]
  /\ \A r \in (1..Len(v.routes)) \ v.failed :
       /\ Len(v.valid[r]) = Least(v.hop - 1, Len(v.routes[r].hops))
       /\ Follows(v.valid[r], v.routes[r], honest)

-----------------------------------------------------------------------------
(* The inductive invariant.                                                *)

(* The pools that may have been read.                                      *)
Seen == IF trades = 0 THEN {pools[id] : id \in ToSet(Order)} ELSE GoodPools

(* Quotes of the request; those before the first trade are honest.         *)
Kept == {q \in QuoteSet(Seen) : q.amountIn = ask.amount /\ (trades = 0 => Honest(q))}

PoolsOK ==
  /\ trades \in 0..MaxTrades /\ pools \in [ToSet(Order) -> GoodPools]
  /\ \A id \in ToSet(Order) :
       /\ pools[id].id = id
       /\ pools[id].version = "v3" => pools[id].sqrtPrice > MaxTrades - trades

AskOK == ask \in Requests /\ gasPrice \in {None, GasPrice}

DirectOK ==
  /\ direct = [stage |-> direct.stage, v3 |-> direct.v3, quotes |-> direct.quotes]
  /\ direct.stage \in {"reading", "quoting", "done"}
  /\ direct.v3 \in Seq({p \in Seen : p.version = "v3" /\ Between(p, TokenIn, TokenOut)})
  /\ direct.quotes \in Seq(Kept)

SomeV3(routes) == \E r \in DOMAIN routes : HasV3(routes[r])

MultiOK ==
  /\ multi = [stage |-> multi.stage, quotes |-> multi.quotes, validation |-> multi.validation,
              search |-> multi.search]
  /\ multi.stage \in {"reading", "validating", "done"}
  /\ multi.quotes \in Seq(Kept)
  /\ ValidationOK(multi.validation, Seen, trades = 0)
  /\ \A r \in 1..Len(multi.validation.routes) : multi.validation.routes[r].amountIn = ask.amount
  /\ multi.stage = "validating" => SomeV3(multi.validation.routes)

SplitOK ==
  split # Nothing =>
    /\ split = [chosen |-> split.chosen, validation |-> split.validation]
    /\ GoodSplit(split.chosen, ask.amount, Seen)
    /\ ValidationOK(split.validation, Seen, trades = 0)
    /\ split.validation.routes = split.chosen.legs
    /\ SomeV3(split.validation.routes)

(* A single quote, or a split; if it was checked before the first trade,   *)
(* all its legs are honest.                                                *)
GoodAnswer(s, checked) ==
  /\ \/ s.legs[1] \in Kept /\ s = Single(s.legs[1])
     \/ Divided(s, ask.amount, Seen)
  /\ checked /\ trades = 0 => \A i \in 1..Len(s.legs) : Honest(s.legs[i])

AnswerOK ==
  \/ answer = Nothing \/ answer = Wrong \/ answer = [kind |-> "null"]
  \/ answer.kind = "quote" /\ answer.checked \in BOOLEAN /\ GoodAnswer(answer.best, answer.checked)

IInv == PoolsOK /\ AskOK /\ DirectOK /\ MultiOK /\ SplitOK /\ AnswerOK

(* What is a quote over some pools is one over more of them.               *)
LEMMA MorePools ==
  ASSUME NEW QS, NEW PS \in SUBSET QS
  PROVE  /\ Hops(PS) \in SUBSET Hops(QS) /\ QuoteSet(PS) \in SUBSET QuoteSet(QS)
         /\ Seq(Hops(PS)) \in SUBSET Seq(Hops(QS)) /\ Seq(QuoteSet(PS)) \in SUBSET Seq(QuoteSet(QS))
<1>1. Hops(PS) \in SUBSET Hops(QS)
  BY DEF Hops
<1>2. Seq(Hops(PS)) \in SUBSET Seq(Hops(QS))
  <2>. HIDE DEF Hops
  <2>. QED
    BY <1>1
<1>3. QuoteSet(PS) \in SUBSET QuoteSet(QS)
  BY <1>2 DEF QuoteSet
<1>4. Seq(QuoteSet(PS)) \in SUBSET Seq(QuoteSet(QS))
  BY <1>3
<1>. QED
  BY <1>1, <1>2, <1>3, <1>4

(* What is known of a validation before a trade is less afterwards, but    *)
(* for the routes' shapes.                                                 *)
LEMMA WeakerValidation ==
  ASSUME NEW QS, NEW PS \in SUBSET QS, NEW v, NEW honest \in BOOLEAN, ValidationOK(v, PS, honest)
  PROVE  ValidationOK(v, QS, FALSE)
<1>1. v.routes \in Seq(QuoteSet(QS)) /\ \A x : x \in Seq(Hops(PS)) => x \in Seq(Hops(QS))
  BY MorePools DEF ValidationOK
<1>2. v.valid \in [1..Len(v.routes) -> Seq(Hops(QS))]
  <2>1. v.valid \in [1..Len(v.routes) -> Seq(Hops(PS))]
    BY DEF ValidationOK
  <2>. QED
    BY <1>1, <2>1
<1>3. \A r \in (1..Len(v.routes)) \ v.failed : Follows(v.valid[r], v.routes[r], FALSE)
  BY DEF ValidationOK, Follows
<1>. QED
  BY <1>1, <1>2, <1>3 DEF ValidationOK

(* Nothing is validated at first.                                          *)
LEMMA ValidationFacts ==
  ASSUME NEW PS, NEW routes \in Seq(QuoteSet(PS)), NEW honest \in BOOLEAN,
         \A r \in 1..Len(routes) : Len(routes[r].hops) \in Nat
  PROVE  ValidationOK(Validation(routes), PS, honest) /\ Validation(routes).routes = routes
<1>. DEFINE v == Validation(routes)
            n == Len(routes)
<1>1. v = [routes |-> routes, hop |-> 1, valid |-> [r \in 1..n |-> << >>], failed |-> {}] /\ n \in Nat
  BY LenProperties DEF Validation
<1>. HIDE DEF v
<1>2. v.valid \in [1..n -> Seq(Hops(PS))] /\ \A r \in 1..n : v.valid[r] = << >>
  BY <1>1
<1>3. \A q : Follows(<< >>, q, honest)
  BY DEF Follows
<1>4. \A r \in 1..n : Len(v.valid[r]) = Least(v.hop - 1, Len(v.routes[r].hops))
  BY <1>1, <1>2 DEF Least
<1>. QED
  BY <1>1, <1>2, <1>3, <1>4 DEF ValidationOK, v

(* A route that goes on has as many validated hops as were turned to, and  *)
(* is fed with what the last of them paid.                                 *)
LEMMA ActiveFacts ==
  ASSUME NEW PS \in SUBSET GoodPools, NEW v, NEW honest \in BOOLEAN, ValidationOK(v, PS, honest),
         NEW r \in Active(v)
  PROVE  /\ r \in (1..Len(v.routes)) \ v.failed /\ v.hop \in 1..Len(v.routes[r].hops)
         /\ v.routes[r] \in QuoteSet(PS)
         /\ v.valid[r] \in Seq(Hops(PS)) /\ Len(v.valid[r]) = v.hop - 1
         /\ Follows(v.valid[r], v.routes[r], honest)
         /\ PoolAt(v, r) \in PS /\ AmountAt(v, r) \in Nat \ {0}
         /\ AmountAt(v, r) = IF v.hop = 1 THEN v.routes[r].amountIn ELSE v.valid[r][v.hop - 1].amountOut
<1>. DEFINE q == v.routes[r]
            n == Len(q.hops)
<1>1. r \in (1..Len(v.routes)) \ v.failed /\ v.hop <= n /\ v.hop \in Nat \ {0}
  BY LenProperties DEF Active, ValidationOK
<1>2. q \in QuoteSet(PS) /\ v.valid[r] \in Seq(Hops(PS)) /\ Follows(v.valid[r], q, honest)
      /\ Len(v.valid[r]) = Least(v.hop - 1, n)
  BY <1>1 DEF ValidationOK
<1>3. n \in Nat \ {0} /\ q.amountIn \in Nat \ {0} /\ \A i \in 1..n : q.hops[i].pool \in PS
  BY <1>2, QuoteFields
<1>. HIDE DEF n
<1>4. v.hop \in 1..n /\ Len(v.valid[r]) = v.hop - 1
  BY <1>1, <1>2, <1>3 DEF Least
<1>5. PoolAt(v, r) \in PS
  BY <1>3, <1>4 DEF PoolAt
<1>6. AmountAt(v, r) = IF v.hop = 1 THEN q.amountIn ELSE v.valid[r][v.hop - 1].amountOut
  BY <1>2, <1>4 DEF AmountAt, Last
<1>7. AmountAt(v, r) \in Nat \ {0}
  <2>1. CASE v.hop = 1
    BY <1>3, <1>6, <2>1
  <2>2. CASE v.hop # 1
    <3>1. v.hop - 1 \in 1..Len(v.valid[r])
      BY <1>1, <1>4, <2>2
    <3>2. v.valid[r][v.hop - 1] \in Hops(PS) /\ v.valid[r][v.hop - 1].amountOut > 0
      BY <1>2, <3>1 DEF Follows
    <3>. QED
      BY <1>6, <2>2, <3>2 DEF Hops
  <2>. QED
    BY <2>1, <2>2
<1>. QED
  BY <1>1, <1>2, <1>4, <1>5, <1>6, <1>7 DEF n

(* What the quoters say of the next hop, 0 where they fail.                *)
Asked(v, quoted, honest) ==
  /\ quoted \in [Batch(v) -> Nat]
  /\ \A r \in Batch(v) : honest /\ quoted[r] > 0 => quoted[r] = Pays(PoolAt(v, r), TokenAt(v, r), AmountAt(v, r))

OutAt(v, quoted, r) ==
  IF r \in DOMAIN quoted THEN quoted[r] ELSE HopOut(PoolAt(v, r), TokenAt(v, r), AmountAt(v, r))

NextHop(v, quoted, r) ==
  [pool |-> PoolAt(v, r), amountIn |-> AmountAt(v, r), amountOut |-> OutAt(v, quoted, r)]

Good(v, quoted) == {r \in Active(v) : OutAt(v, quoted, r) > 0}

(* What one round of batchValidateRoutes leaves, field by field.           *)
LEMMA HopValidatedFields ==
  ASSUME NEW PS \in SUBSET GoodPools, NEW v, NEW honest \in BOOLEAN, ValidationOK(v, PS, honest), NEW quoted
  PROVE  HopValidated(v, quoted) =
           [ routes |-> v.routes, hop |-> v.hop + 1,
             valid |-> [r \in 1..Len(v.routes) |->
                          IF r \in Good(v, quoted) THEN Append(v.valid[r], NextHop(v, quoted, r)) ELSE v.valid[r]],
             failed |-> v.failed \cup (Active(v) \ Good(v, quoted)) ]
<1>. DEFINE w == HopValidated(v, quoted)
            valid == [r \in 1..Len(v.routes) |->
                        IF r \in Good(v, quoted) THEN Append(v.valid[r], NextHop(v, quoted, r)) ELSE v.valid[r]]
<1>1. v = [routes |-> v.routes, hop |-> v.hop, valid |-> v.valid, failed |-> v.failed]
      /\ DOMAIN v.valid = 1..Len(v.routes)
  BY DEF ValidationOK
<1>2. w = [v EXCEPT !.hop = @ + 1,
             !.valid = [r \in DOMAIN @ |-> IF r \in Good(v, quoted) THEN Append(@[r], NextHop(v, quoted, r)) ELSE @[r]],
             !.failed = @ \cup (Active(v) \ Good(v, quoted))]
  BY DEF HopValidated, Good, OutAt, NextHop
<1>3. w = [v EXCEPT !.hop = v.hop + 1, !.valid = valid, !.failed = v.failed \cup (Active(v) \ Good(v, quoted))]
  BY <1>1, <1>2
<1>. HIDE DEF w, valid
<1>4. w = [routes |-> v.routes, hop |-> v.hop + 1, valid |-> valid,
           failed |-> v.failed \cup (Active(v) \ Good(v, quoted))]
  BY <1>1, <1>3
<1>. QED
  BY <1>4 DEF w, valid

(* What a route's next hop pays: the quoter's answer, or the exact         *)
(* estimate of a V2 pool.                                                  *)
LEMMA OutAtFacts ==
  ASSUME NEW PS \in SUBSET GoodPools, NEW v, NEW honest \in BOOLEAN, ValidationOK(v, PS, honest),
         NEW quoted, Asked(v, quoted, honest), NEW r \in Active(v)
  PROVE  /\ OutAt(v, quoted, r) \in Nat
         /\ honest /\ OutAt(v, quoted, r) > 0 =>
              OutAt(v, quoted, r) = Pays(PoolAt(v, r), TokenAt(v, r), AmountAt(v, r))
<1>1. PoolAt(v, r) \in GoodPools /\ AmountAt(v, r) \in Nat
  <2>1. PoolAt(v, r) \in PS /\ AmountAt(v, r) \in Nat \ {0}
    BY ActiveFacts
  <2>. QED
    BY <2>1
<1>2. CASE r \in Batch(v)
  BY <1>2 DEF Asked, OutAt
<1>3. CASE r \notin Batch(v)
  <2>1. PoolAt(v, r).version = "v2"
    BY <1>1, <1>3, PoolFields DEF Batch
  <2>2. OutAt(v, quoted, r) = HopOut(PoolAt(v, r), TokenAt(v, r), AmountAt(v, r))
    BY <1>3 DEF OutAt, Asked
  <2>. QED
    BY <1>1, <2>1, <2>2, HopOutType, V2Exact
<1>. QED
  BY <1>2, <1>3

(* One hop more of every route that goes on.                               *)
LEMMA OneMore ==
  ASSUME NEW PS, NEW q, NEW honest \in BOOLEAN, NEW hops \in Seq(Hops(PS)), Follows(hops, q, honest),
         NEW h \in Hops(PS), h.amountOut > 0, h.pool = q.hops[Len(hops) + 1].pool,
         h.amountIn = IF Len(hops) = 0 THEN q.amountIn ELSE hops[Len(hops)].amountOut,
         honest => h.amountOut = Pays(h.pool, q.path[Len(hops) + 1], h.amountIn)
  PROVE  /\ Append(hops, h) \in Seq(Hops(PS)) /\ Len(Append(hops, h)) = Len(hops) + 1
         /\ Follows(Append(hops, h), q, honest)
<1>. DEFINE n == Len(hops)
            all == Append(hops, h)
            H == Hops(PS)
<1>1. all \in Seq(H) /\ Len(all) = n + 1 /\ n \in Nat /\ all[n + 1] = h /\ \A i \in 1..n : all[i] = hops[i]
  BY AppendProperties, LenProperties
<1>. HIDE DEF all, n, H
<1>2. ASSUME NEW i \in 1..(n + 1)
      PROVE  /\ all[i].pool = q.hops[i].pool /\ all[i].amountOut > 0
             /\ all[i].amountIn = IF i = 1 THEN q.amountIn ELSE all[i - 1].amountOut
             /\ honest => all[i].amountOut = Pays(all[i].pool, q.path[i], all[i].amountIn)
  <2>1. CASE i = n + 1
    <3>1. all[i] = h /\ (i = 1 <=> n = 0) /\ (i # 1 => i - 1 = n /\ all[n] = hops[n])
      BY <1>1, <2>1
    <3>. QED
      BY <2>1, <3>1 DEF n
  <2>2. CASE i # n + 1
    <3>1. i \in 1..n /\ all[i] = hops[i] /\ (i # 1 => all[i - 1] = hops[i - 1])
      BY <1>1, <2>2
    <3>. QED
      BY <3>1 DEF Follows, n
  <2>. QED
    BY <2>1, <2>2
<1>3. Follows(all, q, honest)
  BY <1>1, <1>2 DEF Follows
<1>. QED
  BY <1>1, <1>3 DEF all, n, H

(* One round keeps what is known of a validation.                          *)
LEMMA HopValidatedFacts ==
  ASSUME NEW PS \in SUBSET GoodPools, NEW v, NEW honest \in BOOLEAN, ValidationOK(v, PS, honest),
         NEW quoted, Asked(v, quoted, honest)
  PROVE  ValidationOK(HopValidated(v, quoted), PS, honest) /\ HopValidated(v, quoted).routes = v.routes
<1>. DEFINE w == HopValidated(v, quoted)
            n == Len(v.routes)
            good == Good(v, quoted)
            H == Seq(Hops(PS))
<1>1. w = [ routes |-> v.routes, hop |-> v.hop + 1,
            valid |-> [r \in 1..n |-> IF r \in good THEN Append(v.valid[r], NextHop(v, quoted, r)) ELSE v.valid[r]],
            failed |-> v.failed \cup (Active(v) \ good) ]
  BY HopValidatedFields
<1>. HIDE DEF w
<1>2. /\ v.routes \in Seq(QuoteSet(PS)) /\ v.hop \in Nat \ {0} /\ v.failed \in SUBSET (1..n)
      /\ v.valid \in [1..n -> H] /\ n \in Nat /\ DOMAIN v.routes = 1..n
  BY LenProperties DEF ValidationOK
<1>3. good \in SUBSET Active(v) /\ Active(v) \in SUBSET (1..n)
  BY <1>2 DEF Active, Good
<1>4. ASSUME NEW r \in good
      PROVE  /\ Append(v.valid[r], NextHop(v, quoted, r)) \in H
             /\ Len(Append(v.valid[r], NextHop(v, quoted, r))) = v.hop /\ v.hop <= Len(v.routes[r].hops)
             /\ Follows(Append(v.valid[r], NextHop(v, quoted, r)), v.routes[r], honest)
  <2>. DEFINE h == NextHop(v, quoted, r)
              hops == v.valid[r]
              q == v.routes[r]
  <2>1. r \in Active(v) /\ OutAt(v, quoted, r) > 0
    BY DEF Good
  <2>2. /\ v.hop \in 1..Len(q.hops) /\ hops \in Seq(Hops(PS)) /\ Len(hops) = v.hop - 1
        /\ Follows(hops, q, honest) /\ PoolAt(v, r) \in PS /\ AmountAt(v, r) \in Nat \ {0}
        /\ AmountAt(v, r) = IF v.hop = 1 THEN q.amountIn ELSE hops[v.hop - 1].amountOut
    BY <2>1, ActiveFacts
  <2>3. /\ OutAt(v, quoted, r) \in Nat
        /\ honest => OutAt(v, quoted, r) = Pays(PoolAt(v, r), TokenAt(v, r), AmountAt(v, r))
    BY <2>1, OutAtFacts
  <2>4. h \in Hops(PS) /\ h.amountOut > 0
    BY <2>1, <2>2, <2>3 DEF Hops, NextHop
  <2>5. v.hop - 1 + 1 = v.hop /\ (v.hop = 1 <=> v.hop - 1 = 0)
    BY <1>2
  <2>6. /\ h.pool = q.hops[Len(hops) + 1].pool
        /\ h.amountIn = IF Len(hops) = 0 THEN q.amountIn ELSE hops[Len(hops)].amountOut
        /\ honest => h.amountOut = Pays(h.pool, q.path[Len(hops) + 1], h.amountIn)
    BY <2>2, <2>3, <2>5 DEF NextHop, PoolAt, TokenAt
  <2>. HIDE DEF h, hops, q
  <2>7. /\ Append(hops, h) \in Seq(Hops(PS)) /\ Len(Append(hops, h)) = Len(hops) + 1
        /\ Follows(Append(hops, h), q, honest)
    BY <2>2, <2>4, <2>6, OneMore
  <2>. QED
    BY <2>2, <2>5, <2>7 DEF h, hops, q
<1>. HIDE DEF H, n
<1>5. w.valid \in [1..n -> H]
  BY <1>1, <1>2, <1>4
<1>6. w.failed \in SUBSET (1..n) /\ w.hop = v.hop + 1 /\ w.hop \in Nat \ {0} /\ w.routes = v.routes
  BY <1>1, <1>2, <1>3
<1>7. ASSUME NEW r \in (1..n) \ w.failed
      PROVE  /\ Len(w.valid[r]) = Least(w.hop - 1, Len(w.routes[r].hops))
             /\ Follows(w.valid[r], w.routes[r], honest)
  <2>1. r \in 1..n /\ r \notin v.failed
    BY <1>1
  <2>2. v.routes[r] \in QuoteSet(PS)
    BY <1>2, <2>1 DEF n
  <2>3. Len(v.routes[r].hops) \in Nat
    BY <2>2, QuoteFields
  <2>4. w.hop - 1 = v.hop
    BY <1>2, <1>6
  <2>5. CASE r \in good
    <3>1. w.valid[r] = Append(v.valid[r], NextHop(v, quoted, r))
      BY <1>1, <2>1, <2>5
    <3>2. Least(v.hop, Len(v.routes[r].hops)) = v.hop
      BY <1>2, <1>4, <2>3, <2>5 DEF Least
    <3>. QED
      BY <1>4, <1>6, <2>4, <2>5, <3>1, <3>2
  <2>6. CASE r \notin good
    <3>1. w.valid[r] = v.valid[r]
      BY <1>1, <2>1, <2>6
    <3>2. r \notin Active(v)
      BY <1>1, <2>6
    <3>3. ~(v.hop <= Len(v.routes[r].hops))
      BY <1>2, <2>1, <3>2 DEF Active
    <3>4. Len(v.valid[r]) = Least(v.hop - 1, Len(v.routes[r].hops)) /\ Follows(v.valid[r], v.routes[r], honest)
      BY <2>1 DEF ValidationOK, n
    <3>5. Least(v.hop - 1, Len(v.routes[r].hops)) = Least(v.hop, Len(v.routes[r].hops))
      BY <1>2, <2>3, <3>3 DEF Least
    <3>. QED
      BY <1>6, <2>4, <3>1, <3>4, <3>5
  <2>. QED
    BY <2>5, <2>6
<1>8. w = [routes |-> w.routes, hop |-> w.hop, valid |-> w.valid, failed |-> w.failed]
  BY <1>1
<1>. QED
  BY <1>2, <1>5, <1>6, <1>7, <1>8 DEF ValidationOK, w, n, H

(* Numbers from 1 to n in their order are themselves.                      *)
LEMMA AscendingAll ==
  ASSUME NEW n \in Nat
  PROVE  \A i \in 1..n : Ascending(1..n)[i] = i
<1>. DEFINE a == Ascending(1..n)
<1>1. IsFiniteSet(1..n) /\ Cardinality(1..n) = n
  BY FS_Interval
<1>2. a \in [1..n -> 1..n] /\ \A i, j \in 1..n : i < j => a[i] < a[j]
  <2>1. (1..n) \in SUBSET Int
    OBVIOUS
  <2>. QED
    BY <1>1, <2>1, AscendingFacts
<1>. HIDE DEF a
<1>. DEFINE S == {k \in 0..n : k >= 1 => a[k] >= k}
            T == {k \in 0..n : k < n => a[n - k] <= n - k}
<1>3. \A k \in 0..n : k \in S
  <2>1. 0 \in S
    OBVIOUS
  <2>2. ASSUME NEW k \in 1..n, k - 1 \in S PROVE k \in S
    <3>1. a[k] \in 1..n
      BY <1>2
    <3>2. CASE k = 1
      BY <3>1, <3>2
    <3>3. CASE k # 1
      <4>1. k - 1 \in 1..n /\ k - 1 < k
        BY <3>3
      <4>2. a[k - 1] < a[k] /\ a[k - 1] \in 1..n
        BY <1>2, <4>1
      <4>3. a[k - 1] >= k - 1
        BY <2>2, <4>1
      <4>. QED
        BY <3>1, <4>2, <4>3
    <3>. QED
      BY <3>2, <3>3
  <2>. HIDE DEF S
  <2>. QED
    BY <2>1, <2>2, Counting
<1>4. \A k \in 0..n : k \in T
  <2>1. 0 \in T
    <3>1. 0 < n => n - 0 = n /\ a[n] \in 1..n
      BY <1>2
    <3>. QED
      BY <3>1
  <2>2. ASSUME NEW k \in 1..n, k - 1 \in T PROVE k \in T
    <3>1. CASE k < n
      <4>1. n - k \in 1..n /\ n - (k - 1) \in 1..n /\ n - k < n - (k - 1) /\ k - 1 < n
        BY <3>1
      <4>2. a[n - k] < a[n - (k - 1)] /\ a[n - k] \in 1..n /\ a[n - (k - 1)] \in 1..n
        BY <1>2, <4>1
      <4>3. a[n - (k - 1)] <= n - (k - 1)
        BY <2>2, <4>1
      <4>. QED
        BY <4>2, <4>3
    <3>. QED
      BY <3>1
  <2>. HIDE DEF T
  <2>. QED
    BY <2>1, <2>2, Counting
<1>5. ASSUME NEW i \in 1..n PROVE a[i] = i
  <2>1. i \in 0..n /\ i >= 1 /\ n - i \in 0..n /\ n - i < n /\ n - (n - i) = i
    OBVIOUS
  <2>2. a[i] >= i
    BY <1>3, <2>1
  <2>3. a[n - (n - i)] <= n - (n - i)
    BY <1>4, <2>1
  <2>. QED
    BY <1>2, <2>1, <2>2, <2>3
<1>. QED
  BY <1>5 DEF a

(* p takes the route of q for the same amount.                             *)
Requotes(p, q, honest) ==
  p.amountIn = q.amountIn /\ Signature(p) = Signature(q) /\ (honest => Honest(p))

QuoteOf(v, r) == Quote(v.routes[r].path, v.valid[r], v.routes[r].gasPrice)

(* A route that went through its validation is a quote of what the chain   *)
(* said.                                                                   *)
LEMMA RouteValidated ==
  ASSUME NEW PS \in SUBSET GoodPools, NEW v, NEW honest \in BOOLEAN, ValidationOK(v, PS, honest),
         SomeV3(v.routes), ~Validating(v), NEW r \in (1..Len(v.routes)) \ v.failed
  PROVE  QuoteOf(v, r) \in QuoteSet(PS) /\ Requotes(QuoteOf(v, r), v.routes[r], honest)
<1>. DEFINE q == v.routes[r]
            hops == v.valid[r]
            n == Len(q.hops)
<1>1. /\ q \in QuoteSet(PS) /\ hops \in Seq(Hops(PS)) /\ Len(hops) = Least(v.hop - 1, n)
      /\ Follows(hops, q, honest) /\ v.hop \in Nat
  BY DEF ValidationOK
<1>2. n \in Nat \ {0} /\ q.amountIn > 0 /\ DOMAIN v.routes = 1..Len(v.routes)
  <2>1. v.routes \in Seq(QuoteSet(PS))
    BY DEF ValidationOK
  <2>2. n \in Nat \ {0} /\ q.amountIn \in Nat \ {0}
    BY <1>1, QuoteFields
  <2>. QED
    BY <2>1, <2>2, LenProperties
<1>3. ~(v.hop <= n)
  BY <1>2 DEF Validating, SomeV3
<1>. HIDE DEF n
<1>4. Len(hops) = n
  BY <1>1, <1>2, <1>3 DEF Least
<1>. HIDE DEF hops, q
<1>5. Alike(q, hops) /\ hops[1].amountIn = q.amountIn
  <2>1. 1 \in 1..Len(hops)
    BY <1>2, <1>4
  <2>. QED
    BY <1>1, <1>4, <2>1 DEF Alike, Follows, n
<1>. DEFINE p == Quote(q.path, hops, q.gasPrice)
<1>6. p \in QuoteSet(PS) /\ p.amountIn = q.amountIn /\ p.hops = hops /\ p.path = q.path /\ Signature(p) = Signature(q)
  BY <1>1, <1>2, <1>5, Requoted
<1>. HIDE DEF p
<1>7. ASSUME honest PROVE Honest(p)
  BY <1>1, <1>6, <1>7 DEF Honest, Follows
<1>8. QuoteOf(v, r) = p
  BY DEF QuoteOf, p, q, hops
<1>. QED
  BY <1>6, <1>7, <1>8 DEF Requotes, q

(* So are all that passed; if all of them did, they are the routes, in     *)
(* their order.                                                            *)
LEMMA ValidatedFacts ==
  ASSUME NEW PS \in SUBSET GoodPools, NEW v, NEW honest \in BOOLEAN, ValidationOK(v, PS, honest),
         SomeV3(v.routes), ~Validating(v)
  PROVE  /\ Validated(v) \in Seq({p \in QuoteSet(PS) :
                                    \E r \in 1..Len(v.routes) : Requotes(p, v.routes[r], honest)})
         /\ Len(Validated(v)) = Len(v.routes) =>
              \A r \in 1..Len(v.routes) : Requotes(Validated(v)[r], v.routes[r], honest)
<1>. DEFINE n == Len(v.routes)
            W == {p \in QuoteSet(PS) : \E r \in 1..n : Requotes(p, v.routes[r], honest)}
            S == (1..n) \ v.failed
            a == Ascending(S)
            m == Cardinality(S)
            g == [i \in DOMAIN a |-> QuoteOf(v, a[i])]
            all == Validated(v)
<1>1. n \in Nat /\ DOMAIN v.routes = 1..n
  BY LenProperties DEF ValidationOK
<1>2. all = << >> \o g
  BY <1>1 DEF Validated, SomeV3, Each, QuoteOf
<1>3. \A r \in S : QuoteOf(v, r) \in W
  BY RouteValidated
<1>4. \A r \in S : Requotes(QuoteOf(v, r), v.routes[r], honest)
  BY RouteValidated
<1>5. IsFiniteSet(S) /\ S \in SUBSET Int /\ IsFiniteSet(1..n) /\ Cardinality(1..n) = n /\ S \in SUBSET (1..n)
  <2>1. IsFiniteSet(1..n) /\ Cardinality(1..n) = n
    BY <1>1, FS_Interval
  <2>2. S \in SUBSET (1..n)
    OBVIOUS
  <2>. HIDE DEF S
  <2>3. IsFiniteSet(S)
    BY <2>1, <2>2, FS_Subset
  <2>. QED
    BY <2>1, <2>2, <2>3
<1>. HIDE DEF S, n, W, all
<1>6. m \in Nat /\ a \in [1..m -> S]
  BY <1>5, AscendingFacts
<1>7. g \in [1..m -> W] /\ \A i \in 1..m : g[i] = QuoteOf(v, a[i])
  <2>. HIDE DEF a, m
  <2>. QED
    BY <1>3, <1>6
<1>. HIDE DEF g, m
<1>8. all = g /\ all \in Seq(W) /\ Len(all) = m
  BY <1>2, <1>6, <1>7, Listing
<1>9. ASSUME Len(all) = n, NEW r \in 1..n PROVE Requotes(all[r], v.routes[r], honest)
  <2>1. S = 1..n
    <3>1. Cardinality(S) = Cardinality(1..n)
      BY <1>5, <1>8, <1>9 DEF m
    <3>. QED
      BY <1>5, <3>1, FS_Subset
  <2>2. a[r] = r
    BY <1>1, <1>9, <2>1, AscendingAll
  <2>. QED
    BY <1>4, <1>7, <1>8, <1>9, <2>1, <2>2
<1>. QED
  BY <1>8, <1>9 DEF all, W, n

(* The pools that may have been read are fit to swap through; before the   *)
(* first trade they are the chain's.                                       *)
LEMMA SeenFacts ==
  ASSUME PoolsOK
  PROVE  /\ Seen \in SUBSET GoodPools /\ (\A id \in ToSet(Order) : pools[id] \in Seen)
         /\ (trades = 0 => \A p \in Seen : p.id \in ToSet(Order) /\ pools[p.id] = p)
BY DEF PoolsOK, Seen

(* What a request asks.                                                    *)
LEMMA AskFacts ==
  ASSUME AskOK
  PROVE  /\ ask.amount \in Nat \ {0} /\ gasPrice \in {None} \cup Nat
         /\ TokenIn \in Tokens /\ TokenOut \in Tokens /\ TokenIn # TokenOut
BY PriceAssumption DEF AskOK, Tokens

(* The pools that could be read are among those seen.                      *)
LEMMA GraphFacts ==
  ASSUME PoolsOK, NEW lost
  PROVE  Graph(lost) \in Seq({pools[id] : id \in ToSet(Order)}) /\ Graph(lost) \in Seq(Seen)
<1>. DEFINE S == {i \in DOMAIN Order : Order[i] \notin lost /\ pools[Order[i]].version \in ask.versions}
            I == ToSet(Order)
            some == Picked(Order, S)
            n == Len(some)
            N == {pools[id] : id \in I}
            g == [i \in DOMAIN some |-> pools[some[i]]]
<1>1. Graph(lost) = << >> \o g
  BY DEF Graph, Each
<1>2. Order \in Seq(I)
  BY PriceAssumption
<1>3. S \in SUBSET (1..Len(Order))
  BY <1>2, LenProperties
<1>. HIDE DEF S, I
<1>4. some \in Seq(I)
  BY <1>2, <1>3, PickedFacts
<1>. HIDE DEF some
<1>5. n \in Nat /\ DOMAIN some = 1..n /\ \A i \in 1..n : some[i] \in I
  BY <1>4, LenProperties
<1>6. \A id \in I : pools[id] \in N
  OBVIOUS
<1>. HIDE DEF N, n
<1>7. g \in [1..n -> N]
  BY <1>5, <1>6
<1>. HIDE DEF g
<1>8. << >> \o g \in Seq(N)
  BY <1>5, <1>7, Listing
<1>9. N \in SUBSET Seen
  BY SeenFacts DEF N, I
<1>10. << >> \o g \in Seq(Seen)
  BY <1>8, <1>9
<1>. QED
  BY <1>1, <1>8, <1>10 DEF N, I

(* Before the first trade a quoter says what the pool that was read pays.  *)
LEMMA QuotedFacts ==
  ASSUME PoolsOK, NEW v, ValidationOK(v, Seen, trades = 0), NEW lost
  PROVE  Asked(v, Quoted(v, lost), trades = 0)
<1>1. ASSUME NEW r \in Batch(v)
      PROVE  /\ PoolAt(v, r) \in Seen /\ AmountAt(v, r) \in Nat /\ PoolAt(v, r).id \in ToSet(Order)
             /\ pools[PoolAt(v, r).id] \in GoodPools
  <2>1. r \in Active(v) /\ (trades = 0) \in BOOLEAN
    BY DEF Batch
  <2>2. Seen \in SUBSET GoodPools
    BY SeenFacts
  <2>3. PoolAt(v, r) \in Seen /\ AmountAt(v, r) \in Nat
    BY <2>1, <2>2, ActiveFacts
  <2>4. PoolAt(v, r).id \in ToSet(Order)
    BY <2>2, <2>3, PoolFields
  <2>. QED
    BY <2>3, <2>4 DEF PoolsOK
<1>2. ASSUME NEW r \in Batch(v)
      PROVE  Quoted(v, lost)[r] \in Nat
  BY <1>1, PaysType DEF Quoted
<1>3. ASSUME NEW r \in Batch(v), trades = 0, Quoted(v, lost)[r] > 0
      PROVE  Quoted(v, lost)[r] = Pays(PoolAt(v, r), TokenAt(v, r), AmountAt(v, r))
  <2>1. pools[PoolAt(v, r).id] = PoolAt(v, r)
    BY <1>1, <1>3, SeenFacts
  <2>2. Quoted(v, lost)[r] = IF r \in lost THEN 0 ELSE Pays(PoolAt(v, r), TokenAt(v, r), AmountAt(v, r))
    BY <2>1 DEF Quoted
  <2>. QED
    BY <1>3, <2>2
<1>4. Quoted(v, lost) \in [Batch(v) -> Nat]
  <2>1. Quoted(v, lost) = [r \in Batch(v) |-> Quoted(v, lost)[r]]
    BY DEF Quoted
  <2>. QED
    BY <1>2, <2>1
<1>. QED
  BY <1>3, <1>4 DEF Asked

(* resolveNativeToOutputPrice finds nothing, or a rate that can be divided *)
(* by.                                                                     *)
LEMMA NativeRateFacts ==
  ASSUME NEW PS \in SUBSET GoodPools, NEW candidates \in Seq(QuoteSet(PS))
  PROVE  NativeRate(candidates) \in Rates
<1>. DEFINE sells(q) == Last(q.path) = TokenOut /\ q.path[Len(q.hops)] = WrappedNative
            sellers  == {i \in DOMAIN candidates : sells(candidates[i])}
            first    == CHOOSE i \in sellers : \A j \in sellers : i <= j
            hop      == Last(candidates[first].hops)
<1>1. NativeRate(candidates) = IF TokenOut = WrappedNative THEN [in |-> 1, out |-> 1]
                               ELSE IF sellers = {} THEN None
                               ELSE [in |-> hop.amountIn, out |-> hop.amountOut]
  BY DEF NativeRate
<1>2. sellers \in SUBSET (1..Len(candidates)) /\ sellers \in SUBSET Nat
  BY LenProperties
<1>. HIDE DEF sellers
<1>3. ASSUME sellers # {} PROVE hop.amountIn \in Nat \ {0} /\ hop.amountOut \in Nat
  <2>1. \E i \in sellers : \A j \in sellers : i <= j
    BY <1>2, <1>3, LeastNatural
  <2>2. first \in sellers
    BY <2>1
  <2>. HIDE DEF first
  <2>. DEFINE q == candidates[first]
  <2>3. q \in QuoteSet(PS)
    BY <1>2, <2>2
  <2>. HIDE DEF q
  <2>4. Len(q.hops) \in 1..Len(q.hops)
    BY <2>3, QuoteFields
  <2>5. hop = q.hops[Len(q.hops)]
    BY DEF Last, q
  <2>6. q.hops[Len(q.hops)].amountIn \in Nat /\ q.hops[Len(q.hops)].amountOut \in Nat /\ q.hops[Len(q.hops)].amountIn > 0
    BY <2>3, <2>4, QuoteFields
  <2>. HIDE DEF hop
  <2>. QED
    BY <2>5, <2>6
<1>. HIDE DEF hop
<1>. QED
  BY <1>1, <1>3 DEF Rates

(* The candidates that are sorted are those that were kept.                *)
LEMMA SortedFacts ==
  ASSUME PoolsOK, AskOK, DirectOK, MultiOK
  PROVE  /\ Sorted \in Seq(Kept) /\ Sorted \in Seq(QuoteSet(Seen))
<1>. DEFINE all == IF ask.force THEN multi.quotes ELSE direct.quotes \o multi.quotes
            n == Len(all)
            rate == NativeRate(all)
            sorted == Ordered(all, rate)
<1>1. all \in Seq(Kept)
  <2>1. multi.quotes \in Seq(Kept) /\ direct.quotes \in Seq(Kept)
    BY DEF DirectOK, MultiOK
  <2>2. direct.quotes \o multi.quotes \in Seq(Kept)
    BY <2>1, ConcatProperties
  <2>. QED
    BY <2>1, <2>2
<1>2. Sorted = sorted
  BY DEF Sorted
<1>. HIDE DEF all
<1>3. Kept \in SUBSET QuoteSet(Seen) /\ Seen \in SUBSET GoodPools
  BY SeenFacts DEF Kept
<1>4. all \in Seq(QuoteSet(Seen))
  BY <1>1, <1>3
<1>5. rate \in Rates
  BY <1>3, <1>4, NativeRateFacts
<1>. HIDE DEF rate
<1>6. /\ sorted \in Seq(QuoteSet(Seen)) /\ Len(sorted) = n /\ Lists(sorted, all, 1..n)
  BY <1>3, <1>4, <1>5, OrderedFacts
<1>. HIDE DEF sorted
<1>7. \A i \in 1..n : all[i] \in Kept
  BY <1>1
<1>8. PICK e \in [1..n -> 1..n] : \A i \in 1..n : sorted[i] = all[e[i]]
  BY <1>6 DEF Lists
<1>9. \A i \in 1..n : sorted[i] \in Kept
  BY <1>7, <1>8
<1>10. sorted \in Seq(Kept)
  BY <1>6, <1>9
<1>. QED
  BY <1>2, <1>6, <1>10

-----------------------------------------------------------------------------
(* The invariant holds at first, and every action keeps it.                *)

(* What a step leaves alone stays as good as it was.                       *)
LEMMA SamePools ==
  ASSUME UNCHANGED <<pools, trades>>
  PROVE  Seen' = Seen /\ (PoolsOK => PoolsOK') /\ (trades' = 0 <=> trades = 0)
BY DEF Seen, PoolsOK

(* The quotes that are kept, ...                                           *)
LEMMA SameKept ==
  ASSUME UNCHANGED <<pools, trades, ask>>
  PROVE  Kept' = Kept
<1>1. Seen' = Seen
  BY SamePools
<1>. QED
  BY <1>1 DEF Kept

(* ... the direct quotes, ...                                              *)
LEMMA SameDirect ==
  ASSUME UNCHANGED <<pools, trades, ask, direct>>, DirectOK
  PROVE  DirectOK'
<1>1. Seen' = Seen /\ Kept' = Kept
  BY SamePools, SameKept
<1>. QED
  BY <1>1 DEF DirectOK

(* ... the longer routes, ...                                              *)
LEMMA SameMulti ==
  ASSUME UNCHANGED <<pools, trades, ask, multi>>, MultiOK
  PROVE  MultiOK'
<1>1. Seen' = Seen /\ Kept' = Kept
  BY SamePools, SameKept
<1>. QED
  BY <1>1 DEF MultiOK

(* ... the split, ...                                                      *)
LEMMA SameSplit ==
  ASSUME UNCHANGED <<pools, trades, ask, split>>, SplitOK
  PROVE  SplitOK'
<1>1. Seen' = Seen
  BY SamePools
<1>. QED
  BY <1>1 DEF SplitOK

(* ... the answer, ...                                                     *)
LEMMA SameAnswer ==
  ASSUME UNCHANGED <<pools, trades, ask, answer>>, AnswerOK
  PROVE  AnswerOK'
<1>1. Seen' = Seen /\ Kept' = Kept
  BY SamePools, SameKept
<1>. QED
  BY <1>1 DEF AnswerOK, GoodAnswer

(* ... and the request.                                                    *)
LEMMA SameAsk ==
  ASSUME UNCHANGED <<ask, gasPrice>>, AskOK
  PROVE  AskOK'
BY DEF AskOK

(* It holds at first.                                                      *)
LEMMA InitInv ==
  ASSUME Init
  PROVE  IInv
<1>1. PoolsOK
  <2>1. pools \in [ToSet(Order) -> PoolTypes] /\ MaxTrades \in Nat /\ trades = 0
    BY PriceAssumption DEF Init
  <2>2. ASSUME NEW id \in ToSet(Order)
        PROVE  /\ pools[id] \in GoodPools /\ pools[id].id = id
               /\ pools[id].version = "v3" => pools[id].sqrtPrice > MaxTrades - trades
    <3>1. /\ pools[id] \in PoolTypes /\ pools[id].id = id /\ pools[id].token0 # pools[id].token1
          /\ pools[id].version = "v3" =>
               pools[id].fee < FeeUnit /\ pools[id].sqrtPrice > MaxTrades /\ pools[id].reach > 0
      BY <2>1, PriceAssumption DEF Init
    <3>2. pools[id].sqrtPrice \in Nat
      BY <3>1 DEF PoolTypes
    <3>3. pools[id].version = "v3" => pools[id].sqrtPrice > 0 /\ pools[id].sqrtPrice > MaxTrades - trades
      BY <2>1, <3>1, <3>2
    <3>. QED
      BY <3>1, <3>3 DEF GoodPools
  <2>3. pools \in [ToSet(Order) -> GoodPools] /\ trades \in 0..MaxTrades
    BY <2>1, <2>2
  <2>. QED
    BY <2>2, <2>3 DEF PoolsOK
<1>2. AskOK
  BY DEF Init, AskOK
<1>3. \A V : << >> \in Seq(V)
  OBVIOUS
<1>4. DirectOK
  <2>1. direct = [stage |-> IF ask.force THEN "done" ELSE "reading", v3 |-> << >>, quotes |-> << >>]
    BY DEF Init
  <2>. QED
    BY <1>3, <2>1 DEF DirectOK
<1>5. MultiOK
  <2>1. multi = [stage |-> "reading", quotes |-> << >>, validation |-> Validation(<< >>), search |-> None]
    BY DEF Init
  <2>2. ValidationOK(Validation(<< >>), Seen, trades = 0) /\ Validation(<< >>).routes = << >>
    <3>1. Len(<< >>) = 0 /\ << >> \in Seq(QuoteSet(Seen)) /\ (trades = 0) \in BOOLEAN
      OBVIOUS
    <3>2. \A r \in 1..Len(<< >>) : Len(<< >>[r].hops) \in Nat
      BY <3>1
    <3>. QED
      BY <3>1, <3>2, ValidationFacts
  <2>. QED
    BY <1>3, <2>1, <2>2 DEF MultiOK
<1>6. SplitOK /\ AnswerOK
  BY DEF Init, SplitOK, AnswerOK
<1>. QED
  BY <1>1, <1>2, <1>4, <1>5, <1>6 DEF IInv

(* A trade leaves a pool one can still swap through.                       *)
LEMMA TradedFacts ==
  ASSUME PoolsOK, trades < MaxTrades, NEW id \in ToSet(Order), NEW token
  PROVE  LET p == AfterTrade(pools[id], token)
         IN  /\ p \in GoodPools /\ p.id = id
             /\ p.version = "v3" => p.sqrtPrice > MaxTrades - (trades + 1)
<1>. DEFINE o == pools[id]
            p == AfterTrade(o, token)
<1>1. /\ o \in GoodPools /\ o.id = id /\ trades \in Nat /\ MaxTrades \in Nat
      /\ o.version = "v3" => o.sqrtPrice > MaxTrades - trades
  BY PriceAssumption DEF PoolsOK
<1>. HIDE DEF o
<1>2. CASE o.version = "v2"
  <2>1. p = AfterSwap(o, token, TradeSize) /\ TradeSize \in Nat
    BY <1>2, PriceAssumption DEF AfterTrade
  <2>2. p \in GoodPools /\ NoBetter(p, o, token)
    BY <1>1, <1>2, <2>1, AfterSwapFacts
  <2>. HIDE DEF p
  <2>3. p.id = o.id /\ p.version = o.version
    <3>1. p = [o EXCEPT !.reserve0 = p.reserve0, !.reserve1 = p.reserve1]
      BY <2>2 DEF NoBetter
    <3>2. o \in PoolTypes
      BY <1>1, PoolFields
    <3>. QED
      BY <3>1, <3>2 DEF PoolTypes
  <2>. QED
    BY <1>1, <1>2, <2>2, <2>3 DEF p, o
<1>3. CASE o.version # "v2"
  <2>. DEFINE price == IF token = o.token0 THEN o.sqrtPrice - 1 ELSE o.sqrtPrice + 1
  <2>1. p = [o EXCEPT !.sqrtPrice = price]
    BY <1>3 DEF AfterTrade
  <2>2. o.version = "v3" /\ o.sqrtPrice \in Nat
    BY <1>1, <1>3, PoolFields
  <2>3. price \in Nat /\ price > 0 /\ price > MaxTrades - (trades + 1)
    BY <1>1, <2>2
  <2>. HIDE DEF price, p
  <2>4. o \in PoolTypes /\ o.token0 # o.token1 /\ o.fee < FeeUnit /\ o.reach > 0
    BY <1>1, <2>2, PoolFields
  <2>5. p \in PoolTypes /\ p.sqrtPrice = price /\ p.id = o.id /\ p.token0 = o.token0 /\ p.token1 = o.token1
        /\ p.fee = o.fee /\ p.reach = o.reach
    BY <2>1, <2>3, <2>4 DEF PoolTypes
  <2>6. p \in GoodPools
    BY <2>3, <2>4, <2>5 DEF GoodPools
  <2>. QED
    BY <1>1, <2>3, <2>5, <2>6 DEF p, o
<1>. QED
  BY <1>2, <1>3

(* A trade takes away that quotes are honest, and nothing else.            *)
LEMMA TradeInv ==
  ASSUME IInv, NEW id \in Traded, Trade(id)
  PROVE  IInv'
<1>1. PoolsOK /\ AskOK /\ DirectOK /\ MultiOK /\ SplitOK
  BY DEF IInv
<1>2. /\ trades < MaxTrades /\ trades' = trades + 1 /\ answer = Nothing
      /\ UNCHANGED <<ask, gasPrice, direct, multi, split, answer>> /\ id \in ToSet(Order)
      /\ trades \in Nat /\ MaxTrades \in Nat
  BY <1>1, PriceAssumption DEF Trade, PoolsOK
<1>3. PICK token : pools' = [pools EXCEPT ![id] = AfterTrade(@, token)]
  BY DEF Trade
<1>4. PoolsOK'
  <2>1. pools \in [ToSet(Order) -> GoodPools]
    BY <1>1 DEF PoolsOK
  <2>2. pools' = [pools EXCEPT ![id] = AfterTrade(pools[id], token)]
    BY <1>3
  <2>. DEFINE p == AfterTrade(pools[id], token)
  <2>3. p \in GoodPools /\ p.id = id /\ (p.version = "v3" => p.sqrtPrice > MaxTrades - (trades + 1))
    BY <1>1, <1>2, TradedFacts
  <2>. HIDE DEF p
  <2>4. pools' \in [ToSet(Order) -> GoodPools]
        /\ \A i \in ToSet(Order) : pools'[i] = IF i = id THEN p ELSE pools[i]
    BY <2>1, <2>2, <2>3 DEF p
  <2>5. ASSUME NEW i \in ToSet(Order)
        PROVE  /\ pools'[i].id = i
               /\ pools'[i].version = "v3" => pools'[i].sqrtPrice > MaxTrades - trades'
    <3>1. CASE i = id
      BY <1>2, <2>3, <2>4, <3>1
    <3>2. CASE i # id
      <4>1. pools[i] \in GoodPools /\ pools[i].id = i
            /\ (pools[i].version = "v3" => pools[i].sqrtPrice > MaxTrades - trades)
        BY <1>1 DEF PoolsOK
      <4>2. pools[i].sqrtPrice \in Nat
        BY <4>1, PoolFields
      <4>3. pools'[i] = pools[i]
        BY <2>4, <3>2
      <4>. QED
        BY <1>2, <4>1, <4>2, <4>3
    <3>. QED
      BY <3>1, <3>2
  <2>6. trades' \in 0..MaxTrades
    BY <1>2
  <2>. QED
    BY <2>4, <2>5, <2>6 DEF PoolsOK
<1>5. Seen' = GoodPools /\ Seen \in SUBSET GoodPools /\ trades' # 0
  BY <1>1, <1>2, SeenFacts DEF Seen
<1>6. /\ QuoteSet(Seen) \in SUBSET QuoteSet(GoodPools)
      /\ Seq(QuoteSet(Seen)) \in SUBSET Seq(QuoteSet(GoodPools))
  BY <1>5, MorePools
<1>7. Kept \in SUBSET Kept'
  BY <1>2, <1>5, <1>6 DEF Kept
<1>8. AskOK' /\ AnswerOK'
  BY <1>1, <1>2 DEF AskOK, AnswerOK
<1>9. DirectOK'
  <2>1. direct.quotes \in Seq(Kept')
    BY <1>1, <1>7 DEF DirectOK
  <2>2. direct.v3 \in Seq({p \in GoodPools : p.version = "v3" /\ Between(p, TokenIn, TokenOut)})
    BY <1>1, <1>5 DEF DirectOK
  <2>. QED
    BY <1>1, <1>2, <1>5, <2>1, <2>2 DEF DirectOK
<1>10. \A v : ValidationOK(v, Seen, trades = 0) => ValidationOK(v, GoodPools, FALSE)
  <2>1. (trades = 0) \in BOOLEAN
    OBVIOUS
  <2>. QED
    BY <1>5, <2>1, WeakerValidation
<1>11. (trades' = 0) = FALSE
  BY <1>5
<1>12. MultiOK'
  <2>1. multi.quotes \in Seq(Kept')
    BY <1>1, <1>7 DEF MultiOK
  <2>2. ValidationOK(multi.validation, GoodPools, FALSE)
    BY <1>1, <1>10 DEF MultiOK
  <2>. QED
    BY <1>1, <1>2, <1>5, <1>11, <2>1, <2>2 DEF MultiOK
<1>13. SplitOK'
  <2>1. ASSUME split # Nothing
        PROVE  /\ GoodSplit(split.chosen, ask.amount, GoodPools)
               /\ ValidationOK(split.validation, GoodPools, FALSE)
    <3>1. GoodSplit(split.chosen, ask.amount, Seen) /\ ValidationOK(split.validation, Seen, trades = 0)
      BY <1>1, <2>1 DEF SplitOK
    <3>2. split.chosen \in [amountIn : Nat, amountOut : Int, legs : Seq(QuoteSet(Seen)), ratios : Seq(Nat \ {0})]
      BY <3>1 DEF GoodSplit, Divided
    <3>3. split.chosen \in [amountIn : Nat, amountOut : Int, legs : Seq(QuoteSet(GoodPools)), ratios : Seq(Nat \ {0})]
      <4>. DEFINE A == Seq(QuoteSet(Seen))
                  B == Seq(QuoteSet(GoodPools))
                  C == Seq(Nat \ {0})
      <4>1. A \in SUBSET B
        BY <1>6
      <4>. HIDE DEF A, B, C
      <4>. QED
        BY <3>2, <4>1 DEF A, B, C
    <3>4. Divided(split.chosen, ask.amount, GoodPools)
      <4>1. Divided(split.chosen, ask.amount, Seen)
        BY <3>1 DEF GoodSplit
      <4>. QED
        BY <3>3, <4>1 DEF Divided
    <3>5. GoodSplit(split.chosen, ask.amount, GoodPools)
      BY <3>1, <3>4, Zenon DEF GoodSplit
    <3>. QED
      BY <1>10, <3>1, <3>5, Zenon
  <2>. QED
    BY <1>1, <1>2, <1>5, <1>11, <2>1 DEF SplitOK
<1>. QED
  BY <1>4, <1>8, <1>9, <1>12, <1>13 DEF IInv

(* A request that fails answers an error.                                  *)
LEMMA ReadFailsInv ==
  ASSUME IInv, ReadFails
  PROVE  IInv'
<1>1. PoolsOK /\ AskOK /\ DirectOK /\ MultiOK /\ SplitOK
  BY DEF IInv
<1>2. UNCHANGED <<pools, trades, ask, gasPrice, direct, multi, split>> /\ answer' = Wrong
  BY DEF ReadFails
<1>3. PoolsOK' /\ AskOK' /\ DirectOK' /\ MultiOK' /\ SplitOK'
  BY <1>1, <1>2, SamePools, SameAsk, SameDirect, SameMulti, SameSplit
<1>4. AnswerOK'
  BY <1>2 DEF AnswerOK
<1>. QED
  BY <1>3, <1>4 DEF IInv

(* A list of hops that each take the amount through a direct pool, and, if *)
(* they pay, pay as much as the chain did before the first trade.          *)
LEMMA DirectKept ==
  ASSUME PoolsOK, AskOK,
         NEW H \in SUBSET Directs(Seen, TokenIn, TokenOut, ask.amount), NEW hops \in Seq(H),
         trades = 0 => \A h \in H : h.amountOut > 0 => h.amountOut = Pays(h.pool, TokenIn, ask.amount)
  PROVE  DirectQuotes(hops, TokenIn, TokenOut, gasPrice) \in Seq(Kept)
<1>. DEFINE W == OverOne(Seen, H, TokenIn, ask.amount)
            quotes == DirectQuotes(hops, TokenIn, TokenOut, gasPrice)
<1>1. Seen \in SUBSET GoodPools
  BY SeenFacts
<1>2. quotes \in Seq(W)
  <2>1. /\ ask.amount \in Nat \ {0} /\ gasPrice \in {None} \cup Nat
        /\ TokenIn \in Tokens /\ TokenOut \in Tokens /\ TokenIn # TokenOut
    BY AskFacts
  <2>. HIDE DEF Tokens
  <2>. QED
    BY <1>1, <2>1, DirectQuotesFacts
<1>3. ASSUME NEW q \in W PROVE q \in Kept
  <2>1. q \in QuoteSet(Seen) /\ q.amountIn = ask.amount /\ Len(q.hops) = 1 /\ q.hops[1] \in H /\ q.path[1] = TokenIn
    BY DEF OverOne
  <2>2. q.hops[1].amountOut > 0 /\ q.amountIn = q.hops[1].amountIn
    <3>1. 1 \in 1..Len(q.hops)
      BY <2>1
    <3>. QED
      BY <1>1, <2>1, <3>1, QuoteFields
  <2>3. ASSUME trades = 0 PROVE Honest(q)
    <3>1. \A i \in 1..1 : i = 1
      OBVIOUS
    <3>2. q.hops[1].amountOut = Pays(q.hops[1].pool, q.path[1], q.hops[1].amountIn)
      BY <2>1, <2>2, <2>3
    <3>. QED
      BY <2>1, <3>1, <3>2 DEF Honest
  <2>. QED
    BY <2>1, <2>3 DEF Kept
<1>. HIDE DEF W, quotes
<1>4. quotes \in Seq(Kept)
  BY <1>2, <1>3
<1>. QED
  BY <1>4 DEF quotes

(* fetchDirectQuotes, up to the quoters.                                   *)
LEMMA DirectReadInv ==
  ASSUME IInv, DirectRead
  PROVE  IInv'
<1>1. PoolsOK /\ AskOK /\ DirectOK /\ MultiOK /\ SplitOK /\ AnswerOK
  BY DEF IInv
<1>2. UNCHANGED <<pools, trades, ask, gasPrice, multi, split, answer>>
  BY DEF DirectRead
<1>3. PoolsOK' /\ AskOK' /\ MultiOK' /\ SplitOK' /\ AnswerOK' /\ Seen' = Seen /\ Kept' = Kept
  BY <1>1, <1>2, SamePools, SameKept, SameAsk, SameMulti, SameSplit, SameAnswer
<1>4. PICK lost :
        LET v2   == DirectPools(Graph(lost), TokenIn, TokenOut, "v2")
            v3   == DirectPools(Graph(lost), TokenIn, TokenOut, "v3")
            hops == Each(v2, LAMBDA p : Hop(p, TokenIn, ask.amount))
        IN direct' = [ stage |-> IF v3 = << >> THEN "done" ELSE "quoting", v3 |-> v3,
                       quotes |-> DirectQuotes(hops, TokenIn, TokenOut, gasPrice) ]
  BY DEF DirectRead
<1>. DEFINE graph == Graph(lost)
            v2 == DirectPools(graph, TokenIn, TokenOut, "v2")
            v3 == DirectPools(graph, TokenIn, TokenOut, "v3")
            hops == Each(v2, LAMBDA p : Hop(p, TokenIn, ask.amount))
            quotes == DirectQuotes(hops, TokenIn, TokenOut, gasPrice)
<1>5. direct' = [stage |-> IF v3 = << >> THEN "done" ELSE "quoting", v3 |-> v3, quotes |-> quotes]
  BY <1>4
<1>6. Seen \in SUBSET GoodPools /\ graph \in Seq(Seen)
  BY <1>1, SeenFacts, GraphFacts
<1>. HIDE DEF graph
<1>7. v3 \in Seq({p \in Seen : p.version = "v3" /\ Between(p, TokenIn, TokenOut)})
  BY <1>6, DirectPoolsFacts
<1>8. v2 \in Seq({p \in Seen : p.version = "v2" /\ Between(p, TokenIn, TokenOut)})
  BY <1>6, DirectPoolsFacts
<1>. DEFINE D == Directs(Seen, TokenIn, TokenOut, ask.amount)
            H == {h \in D : h.amountOut > 0 => h.amountOut = Pays(h.pool, TokenIn, ask.amount)}
            n == Len(v2)
            g == [i \in DOMAIN v2 |-> Hop(v2[i], TokenIn, ask.amount)]
<1>9. hops = << >> \o g
  BY DEF Each
<1>. HIDE DEF v2, v3, hops
<1>10. n \in Nat /\ DOMAIN v2 = 1..n
       /\ \A i \in 1..n : v2[i] \in Seen /\ v2[i].version = "v2" /\ Between(v2[i], TokenIn, TokenOut)
  BY <1>8, LenProperties
<1>11. ASSUME NEW i \in 1..n PROVE Hop(v2[i], TokenIn, ask.amount) \in H
  <2>. DEFINE p == v2[i]
              h == Hop(p, TokenIn, ask.amount)
  <2>1. ask.amount \in Nat
    BY <1>1, AskFacts
  <2>2. p \in Seen /\ p \in GoodPools /\ p.version = "v2" /\ Between(p, TokenIn, TokenOut)
    BY <1>6, <1>10
  <2>. HIDE DEF p
  <2>3. h \in Hops(Seen) /\ h = [pool |-> p, amountIn |-> ask.amount, amountOut |-> HopOut(p, TokenIn, ask.amount)]
    BY <1>6, <2>1, <2>2, HopType
  <2>. HIDE DEF h
  <2>4. h \in D
    BY <2>2, <2>3 DEF Directs
  <2>5. h.amountOut > 0 => h.amountOut = Pays(h.pool, TokenIn, ask.amount)
    BY <2>1, <2>2, <2>3, V2Exact
  <2>. QED
    BY <2>4, <2>5 DEF h, p
<1>12. H \in SUBSET D
  OBVIOUS
<1>13. trades = 0 => \A h \in H : h.amountOut > 0 => h.amountOut = Pays(h.pool, TokenIn, ask.amount)
  OBVIOUS
<1>. HIDE DEF H, n
<1>14. g \in [1..n -> H]
  BY <1>10, <1>11
<1>. HIDE DEF g
<1>15. hops \in Seq(H)
  BY <1>9, <1>10, <1>14, Listing
<1>16. quotes \in Seq(Kept)
  BY <1>1, <1>12, <1>13, <1>15, DirectKept
<1>. HIDE DEF quotes
<1>17. DirectOK'
  BY <1>3, <1>5, <1>2, <1>7, <1>16 DEF DirectOK
<1>. QED
  BY <1>3, <1>17 DEF IInv

(* What the quoters say of the direct V3 pools.                            *)
LEMMA DirectQuotedInv ==
  ASSUME IInv, DirectQuoted
  PROVE  IInv'
<1>1. PoolsOK /\ AskOK /\ DirectOK /\ MultiOK /\ SplitOK /\ AnswerOK
  BY DEF IInv
<1>2. UNCHANGED <<pools, trades, ask, gasPrice, multi, split, answer>>
  BY DEF DirectQuoted
<1>3. PoolsOK' /\ AskOK' /\ MultiOK' /\ SplitOK' /\ AnswerOK' /\ Seen' = Seen /\ Kept' = Kept
  BY <1>1, <1>2, SamePools, SameKept, SameAsk, SameMulti, SameSplit, SameAnswer
<1>. DEFINE n == Len(direct.v3)
            quoted(lost, i) == IF i \in lost THEN 0 ELSE Pays(pools[direct.v3[i].id], TokenIn, ask.amount)
            hop(lost, i) == [pool |-> direct.v3[i], amountIn |-> ask.amount, amountOut |-> quoted(lost, i)]
<1>4. PICK lost :
        direct' = [direct EXCEPT !.stage = "done",
                     !.quotes = @ \o DirectQuotes([i \in DOMAIN direct.v3 |-> hop(lost, i)], TokenIn, TokenOut, gasPrice)]
  BY DEF DirectQuoted
<1>. DEFINE hops == [i \in DOMAIN direct.v3 |-> hop(lost, i)]
            quotes == DirectQuotes(hops, TokenIn, TokenOut, gasPrice)
<1>5. /\ direct = [stage |-> direct.stage, v3 |-> direct.v3, quotes |-> direct.quotes]
      /\ direct.v3 \in Seq({p \in Seen : p.version = "v3" /\ Between(p, TokenIn, TokenOut)})
      /\ direct.quotes \in Seq(Kept)
  BY <1>1 DEF DirectOK
<1>6. direct' = [stage |-> "done", v3 |-> direct.v3, quotes |-> direct.quotes \o quotes]
  BY <1>4, <1>5
<1>7. n \in Nat /\ DOMAIN direct.v3 = 1..n
      /\ \A i \in 1..n : direct.v3[i] \in Seen /\ Between(direct.v3[i], TokenIn, TokenOut)
  BY <1>5, LenProperties
<1>. DEFINE D == Directs(Seen, TokenIn, TokenOut, ask.amount)
            H == {h \in D : trades = 0 /\ h.amountOut > 0 => h.amountOut = Pays(h.pool, TokenIn, ask.amount)}
<1>8. ASSUME NEW i \in 1..n PROVE hop(lost, i) \in H
  <2>. DEFINE p == direct.v3[i]
              h == hop(lost, i)
  <2>1. ask.amount \in Nat /\ p \in Seen /\ p \in GoodPools /\ Between(p, TokenIn, TokenOut)
    BY <1>1, <1>7, AskFacts, SeenFacts
  <2>2. p.id \in ToSet(Order) /\ pools[p.id] \in GoodPools
    <3>1. p.id \in ToSet(Order)
      BY <2>1, PoolFields
    <3>. QED
      BY <1>1, <3>1 DEF PoolsOK
  <2>3. quoted(lost, i) \in Nat
    BY <2>1, <2>2, PaysType
  <2>4. trades = 0 => pools[p.id] = p
    BY <1>1, <2>1, SeenFacts
  <2>5. trades = 0 /\ quoted(lost, i) > 0 => quoted(lost, i) = Pays(p, TokenIn, ask.amount)
    BY <2>4
  <2>. DEFINE out == quoted(lost, i)
  <2>6. h = [pool |-> p, amountIn |-> ask.amount, amountOut |-> out]
    OBVIOUS
  <2>. HIDE DEF p, h, out
  <2>7. h \in D
    BY <2>1, <2>3, <2>6 DEF Directs, Hops, out
  <2>8. trades = 0 /\ h.amountOut > 0 => h.amountOut = Pays(h.pool, TokenIn, ask.amount)
    BY <2>5, <2>6 DEF out
  <2>. QED
    BY <2>7, <2>8 DEF h
<1>9. H \in SUBSET D
  OBVIOUS
<1>10. trades = 0 => \A h \in H : h.amountOut > 0 => h.amountOut = Pays(h.pool, TokenIn, ask.amount)
  OBVIOUS
<1>. HIDE DEF H, n, hop
<1>11. hops \in [1..n -> H]
  BY <1>7, <1>8
<1>12. hops \in Seq(H)
  <2>. HIDE DEF hops
  <2>. QED
    BY <1>7, <1>11, Listing
<1>. HIDE DEF hops
<1>13. quotes \in Seq(Kept)
  BY <1>1, <1>9, <1>10, <1>12, DirectKept
<1>. HIDE DEF quotes
<1>14. direct.quotes \o quotes \in Seq(Kept)
  BY <1>5, <1>13, ConcatProperties
<1>15. DirectOK'
  BY <1>2, <1>3, <1>5, <1>6, <1>14 DEF DirectOK
<1>. QED
  BY <1>3, <1>15 DEF IInv

(* A quote that was validated is kept.                                     *)
LEMMA RequotedKept ==
  ASSUME NEW p \in QuoteSet(Seen), NEW q, q.amountIn = ask.amount, Requotes(p, q, trades = 0)
  PROVE  p \in Kept
BY DEF Requotes, Kept

(* So are all that passed a validation.                                    *)
LEMMA ValidatedKept ==
  ASSUME PoolsOK, NEW v, ValidationOK(v, Seen, trades = 0), SomeV3(v.routes), ~Validating(v),
         \A r \in 1..Len(v.routes) : v.routes[r].amountIn = ask.amount
  PROVE  Validated(v) \in Seq(Kept)
<1>. DEFINE W == {p \in QuoteSet(Seen) : \E r \in 1..Len(v.routes) : Requotes(p, v.routes[r], trades = 0)}
            honest == trades = 0
<1>1. Seen \in SUBSET GoodPools /\ honest \in BOOLEAN
  BY SeenFacts
<1>2. Validated(v) \in Seq({p \in QuoteSet(Seen) : \E r \in 1..Len(v.routes) : Requotes(p, v.routes[r], honest)})
  <2>1. ValidationOK(v, Seen, honest)
    OBVIOUS
  <2>. HIDE DEF honest
  <2>. QED
    BY <1>1, <2>1, ValidatedFacts
<1>3. W \in SUBSET Kept
  BY RequotedKept
<1>4. Validated(v) \in Seq(W)
  BY <1>2
<1>. HIDE DEF W
<1>. QED
  BY <1>3, <1>4

(* The graph is read and searched; V2 routes are kept, the others          *)
(* validated.                                                              *)
LEMMA MultiReadInv ==
  ASSUME IInv, MultiRead
  PROVE  IInv'
<1>1. PoolsOK /\ AskOK /\ DirectOK /\ MultiOK /\ SplitOK /\ AnswerOK
  BY DEF IInv
<1>2. UNCHANGED <<pools, trades, ask, gasPrice, direct, split, answer>>
  BY DEF MultiRead
<1>3. /\ PoolsOK' /\ AskOK' /\ DirectOK' /\ SplitOK' /\ AnswerOK' /\ Seen' = Seen /\ Kept' = Kept
      /\ (trades' = 0) = (trades = 0)
  BY <1>1, <1>2, SamePools, SameKept, SameAsk, SameDirect, SameSplit, SameAnswer
<1>4. PICK lost :
        LET found == Search(Graph(lost), TokenIn, TokenOut, ask.amount, gasPrice)
            v3 == ToValidate(found.results)
        IN multi' = [ stage |-> IF v3 = << >> THEN "done" ELSE "validating",
                      quotes |-> Picked(found.results, {i \in DOMAIN found.results : ~HasV3(found.results[i])}),
                      validation |-> Validation(v3),
                      search |-> [graph |-> Graph(lost), results |-> found.results, pruned |-> found.pruned] ]
  BY DEF MultiRead
<1>. DEFINE graph == Graph(lost)
            amount == ask.amount
            found == Search(graph, TokenIn, TokenOut, amount, gasPrice)
            results == found.results
            v3 == ToValidate(results)
            S == {i \in DOMAIN results : ~HasV3(results[i])}
            quotes == Picked(results, S)
            E == Estimates(Seen, amount)
            search == [graph |-> graph, results |-> results, pruned |-> found.pruned]
<1>5. multi' = [ stage |-> IF v3 = << >> THEN "done" ELSE "validating", quotes |-> quotes,
                 validation |-> Validation(v3), search |-> search ]
  BY <1>4
<1>6. Seen \in SUBSET GoodPools /\ graph \in Seq(Seen)
  BY <1>1, SeenFacts, GraphFacts
<1>7. /\ amount \in Nat \ {0} /\ gasPrice \in {None} \cup Nat
      /\ TokenIn \in Tokens /\ TokenOut \in Tokens /\ TokenIn # TokenOut
  BY <1>1, AskFacts
<1>. HIDE DEF graph, amount, search
<1>8. results \in Seq(E)
  <2>. HIDE DEF Tokens
  <2>. QED
    BY <1>6, <1>7, SearchFacts
<1>. HIDE DEF found, results
<1>9. v3 \in Seq(E) /\ \A i \in 1..Len(v3) : HasV3(v3[i])
  BY <1>6, <1>8, ToValidateFacts
<1>10. E \in SUBSET QuoteSet(Seen) /\ \A q \in E : q.amountIn = amount /\ Estimated(q)
  BY DEF Estimates
<1>11. quotes \in Seq(Kept)
  <2>1. S \in SUBSET (1..Len(results)) /\ \A i \in S : results[i] \in E /\ ~HasV3(results[i])
    BY <1>8, LenProperties
  <2>. HIDE DEF S, E
  <2>2. \A q \in E : ~HasV3(q) => Honest(q)
    BY <1>6, <1>10, EstimateHonest
  <2>3. \A i \in S : results[i] \in Kept
    BY <1>10, <2>1, <2>2 DEF Kept, amount
  <2>. HIDE DEF S
  <2>. QED
    BY <1>8, <2>1, <2>3, SomeFacts
<1>. HIDE DEF v3, E, S, quotes
<1>12. v3 \in Seq(QuoteSet(Seen)) /\ DOMAIN v3 = 1..Len(v3) /\ \A r \in 1..Len(v3) : v3[r].amountIn = amount
  BY <1>9, <1>10, LenProperties
<1>13. ValidationOK(Validation(v3), Seen, trades = 0) /\ Validation(v3).routes = v3
  <2>. DEFINE honest == trades = 0
  <2>1. \A r \in 1..Len(v3) : Len(v3[r].hops) \in Nat
    <3>1. \A r \in 1..Len(v3) : v3[r] \in QuoteSet(Seen)
      BY <1>12
    <3>. QED
      BY <1>6, <3>1, QuoteFields
  <2>2. honest \in BOOLEAN
    OBVIOUS
  <2>. HIDE DEF honest
  <2>3. ValidationOK(Validation(v3), Seen, honest) /\ Validation(v3).routes = v3
    BY <1>12, <2>1, <2>2, ValidationFacts
  <2>. QED
    BY <2>3 DEF honest
<1>14. v3 # << >> => SomeV3(v3)
  <2>1. ASSUME v3 # << >> PROVE SomeV3(v3)
    <3>1. 1 \in 1..Len(v3)
      <4>1. Len(v3) \in Nat /\ Len(v3) # 0
        BY <1>12, <2>1, EmptySeq, LenProperties
      <4>. QED
        BY <4>1
    <3>. QED
      BY <1>9, <1>12, <3>1 DEF SomeV3
  <2>. QED
    BY <2>1
<1>15. MultiOK'
  <2>. DEFINE w == Validation(v3)
  <2>. HIDE DEF w
  <2>1. multi' = [stage |-> multi'.stage, quotes |-> multi'.quotes, validation |-> multi'.validation,
                  search |-> multi'.search]
        /\ multi'.stage = (IF v3 = << >> THEN "done" ELSE "validating")
        /\ multi'.quotes = quotes /\ multi'.validation = w
    BY <1>5 DEF w
  <2>2. ValidationOK(w, Seen, trades = 0) /\ w.routes = v3 /\ ask' = ask
    BY <1>2, <1>13 DEF w
  <2>3. ValidationOK(w, Seen', trades' = 0)
    BY <1>3, <2>2
  <2>. QED
    BY <1>3, <1>11, <1>12, <1>14, <2>1, <2>2, <2>3 DEF MultiOK, amount
<1>. QED
  BY <1>3, <1>15 DEF IInv

(* One round of their validation.                                          *)
LEMMA MultiValidatedInv ==
  ASSUME IInv, MultiValidated
  PROVE  IInv'
<1>1. PoolsOK /\ AskOK /\ DirectOK /\ MultiOK /\ SplitOK /\ AnswerOK
  BY DEF IInv
<1>2. UNCHANGED <<pools, trades, ask, gasPrice, direct, split, answer>> /\ multi.stage = "validating"
  BY DEF MultiValidated
<1>3. /\ PoolsOK' /\ AskOK' /\ DirectOK' /\ SplitOK' /\ AnswerOK' /\ Seen' = Seen /\ Kept' = Kept
      /\ (trades' = 0) = (trades = 0)
  BY <1>1, <1>2, SamePools, SameKept, SameAsk, SameDirect, SameSplit, SameAnswer
<1>4. PICK lost :
        LET v == HopValidated(multi.validation, Quoted(multi.validation, lost))
        IN multi' = IF Validating(v) THEN [multi EXCEPT !.validation = v]
                    ELSE [multi EXCEPT !.validation = v, !.stage = "done", !.quotes = @ \o Validated(v)]
  BY DEF MultiValidated
<1>. DEFINE u == multi.validation
            v == HopValidated(u, Quoted(u, lost))
            honest == trades = 0
<1>5. /\ multi = [stage |-> multi.stage, quotes |-> multi.quotes, validation |-> multi.validation,
                  search |-> multi.search]
      /\ multi.quotes \in Seq(Kept) /\ ValidationOK(u, Seen, honest)
      /\ \A r \in 1..Len(u.routes) : u.routes[r].amountIn = ask.amount
      /\ SomeV3(u.routes)
  BY <1>1, <1>2 DEF MultiOK
<1>6. multi' = IF Validating(v) THEN [multi EXCEPT !.validation = v]
               ELSE [multi EXCEPT !.validation = v, !.stage = "done", !.quotes = multi.quotes \o Validated(v)]
  BY <1>4
<1>7. ValidationOK(v, Seen, honest) /\ v.routes = u.routes
  <2>1. Asked(u, Quoted(u, lost), honest)
    BY <1>1, <1>5, QuotedFacts
  <2>2. Seen \in SUBSET GoodPools /\ honest \in BOOLEAN
    BY <1>1, SeenFacts
  <2>. HIDE DEF honest, u
  <2>. QED
    BY <1>5, <2>1, <2>2, HopValidatedFacts
<1>. HIDE DEF v, u
<1>8. ASSUME ~Validating(v) PROVE multi.quotes \o Validated(v) \in Seq(Kept)
  <2>1. Validated(v) \in Seq(Kept)
    BY <1>1, <1>5, <1>7, <1>8, ValidatedKept
  <2>. QED
    BY <1>5, <2>1, ConcatProperties
<1>9. multi' = [stage |-> multi'.stage, quotes |-> multi'.quotes, validation |-> multi'.validation,
                search |-> multi'.search]
      /\ multi'.stage \in {"validating", "done"} /\ multi'.quotes \in Seq(Kept) /\ multi'.validation = v
  <2>1. CASE Validating(v)
    BY <1>2, <1>5, <1>6, <2>1
  <2>2. CASE ~Validating(v)
    <3>. DEFINE all == multi.quotes \o Validated(v)
    <3>1. multi' = [multi EXCEPT !.validation = v, !.stage = "done", !.quotes = all] /\ all \in Seq(Kept)
      BY <1>6, <1>8, <2>2
    <3>. HIDE DEF all
    <3>. QED
      BY <1>5, <3>1
  <2>. QED
    BY <2>1, <2>2
<1>10. ValidationOK(v, Seen', trades' = 0) /\ ask' = ask
  BY <1>2, <1>3, <1>7
<1>11. MultiOK'
  BY <1>3, <1>5, <1>7, <1>9, <1>10 DEF MultiOK
<1>. QED
  BY <1>3, <1>11 DEF IInv

(* A split without V3 hops is answered as it is: its estimate is exact.    *)
LEMMA NotValidating ==
  ASSUME PoolsOK, NEW s, NEW amount, GoodSplit(s, amount, Seen), ~Validating(Validation(s.legs))
  PROVE  \A i \in 1..Len(s.legs) : Honest(s.legs[i])
<1>. DEFINE legs == s.legs
            n == Len(legs)
<1>1. legs \in Seq(QuoteSet(Seen)) /\ n >= 2 /\ \A i \in 1..n : Estimated(legs[i])
  BY DEF GoodSplit, Divided
<1>2. DOMAIN legs = 1..n /\ n \in Nat /\ \A i \in 1..n : legs[i] \in QuoteSet(Seen)
  BY <1>1, LenProperties
<1>3. Seen \in SUBSET GoodPools
  BY SeenFacts
<1>4. Validation(legs).routes = legs /\ Validation(legs).hop = 1
  BY DEF Validation
<1>. HIDE DEF legs, n
<1>5. \E r \in DOMAIN legs : 1 <= Len(legs[r].hops)
  <2>1. 1 \in 1..n
    BY <1>1, <1>2
  <2>2. Len(legs[1].hops) \in Nat \ {0}
    BY <1>2, <1>3, <2>1, QuoteFields
  <2>. QED
    BY <1>2, <2>1, <2>2
<1>6. ~\E r \in DOMAIN legs : HasV3(legs[r])
  <2>1. ~Validating(Validation(legs))
    BY DEF legs
  <2>. QED
    BY <1>4, <1>5, <2>1 DEF Validating
<1>7. \A i \in 1..n : Honest(legs[i])
  BY <1>1, <1>2, <1>3, <1>6, EstimateHonest
<1>. QED
  BY <1>7 DEF legs, n

(* The answer, or the split that goes to the quoters again.                *)
LEMMA DecideInv ==
  ASSUME IInv, Decide
  PROVE  IInv'
<1>1. PoolsOK /\ AskOK /\ DirectOK /\ MultiOK /\ SplitOK /\ AnswerOK
  BY DEF IInv
<1>2. UNCHANGED <<pools, trades, ask, gasPrice, direct, multi>> /\ answer = Nothing
  BY DEF Decide, Deciding
<1>3. /\ PoolsOK' /\ AskOK' /\ DirectOK' /\ MultiOK' /\ Seen' = Seen /\ Kept' = Kept
      /\ (trades' = 0) = (trades = 0) /\ ask' = ask
  BY <1>1, <1>2, SamePools, SameKept, SameAsk, SameDirect, SameMulti
<1>. DEFINE sorted == Sorted
            best == IF ask.split THEN BestSplit(sorted, ask.amount, Rate) ELSE None
<1>4. \/ /\ sorted = << >>
         /\ answer' = [kind |-> "null"] /\ UNCHANGED split
      \/ /\ sorted # << >> /\ best = None
         /\ Answered(Single(Head(sorted)), sorted, TRUE) /\ UNCHANGED split
      \/ /\ best # None /\ ~Validating(Validation(best.legs))
         /\ Answered(best, sorted, TRUE) /\ UNCHANGED split
      \/ /\ best # None /\ Validating(Validation(best.legs))
         /\ split' = [chosen |-> best, validation |-> Validation(best.legs)] /\ UNCHANGED answer
  BY DEF Decide
<1>5. sorted \in Seq(Kept) /\ sorted \in Seq(QuoteSet(Seen)) /\ Seen \in SUBSET GoodPools
  BY <1>1, SortedFacts, SeenFacts
<1>6. ask.amount \in Nat \ {0}
  BY <1>1, AskFacts
<1>. HIDE DEF sorted
<1>7. best # None => GoodSplit(best, ask.amount, Seen)
  BY <1>5, <1>6, BestSplitFacts
<1>. HIDE DEF best
<1>8. CASE sorted = << >> /\ answer' = [kind |-> "null"] /\ UNCHANGED split
  <2>1. SplitOK' /\ AnswerOK'
    BY <1>1, <1>2, <1>8, SameSplit DEF AnswerOK
  <2>. QED
    BY <1>3, <2>1 DEF IInv
<1>9. CASE sorted # << >> /\ Answered(Single(Head(sorted)), sorted, TRUE) /\ UNCHANGED split
  <2>. DEFINE q == Head(sorted)
  <2>1. q \in Kept
    BY <1>5, <1>9, HeadTailProperties
  <2>. HIDE DEF q
  <2>. DEFINE s == Single(q)
  <2>2. s.legs = <<q>> /\ Len(<<q>>) = 1 /\ <<q>>[1] = q /\ \A i \in 1..1 : i = 1
    BY DEF Single
  <2>3. trades = 0 => Honest(q)
    BY <2>1 DEF Kept
  <2>4. s.legs[1] \in Kept /\ s = Single(s.legs[1])
    BY <2>1, <2>2
  <2>. HIDE DEF s
  <2>5. trades = 0 => \A i \in 1..Len(s.legs) : Honest(s.legs[i])
    BY <2>2, <2>3
  <2>6. /\ s.legs[1] \in Kept' /\ s = Single(s.legs[1])
        /\ trades' = 0 => \A i \in 1..Len(s.legs) : Honest(s.legs[i])
    BY <1>3, <2>4, <2>5
  <2>7. answer'.kind = "quote" /\ answer'.best = s /\ answer'.checked = TRUE
    BY <1>9 DEF Answered, s, q
  <2>8. SplitOK'
    BY <1>1, <1>2, <1>9, SameSplit
  <2>9. AnswerOK'
    BY <2>6, <2>7 DEF AnswerOK, GoodAnswer
  <2>. QED
    BY <1>3, <2>8, <2>9 DEF IInv
<1>10. CASE best # None /\ ~Validating(Validation(best.legs)) /\ Answered(best, sorted, TRUE) /\ UNCHANGED split
  <2>1. \A i \in 1..Len(best.legs) : Honest(best.legs[i])
    BY <1>1, <1>7, <1>10, NotValidating
  <2>2. GoodAnswer(best, TRUE)
    BY <1>7, <1>10, <2>1 DEF GoodAnswer, GoodSplit
  <2>3. answer'.kind = "quote" /\ answer'.best = best /\ answer'.checked = TRUE
    BY <1>10 DEF Answered
  <2>4. /\ \/ best.legs[1] \in Kept' /\ best = Single(best.legs[1])
           \/ Divided(best, ask'.amount, Seen')
        /\ trades' = 0 => \A i \in 1..Len(best.legs) : Honest(best.legs[i])
    BY <1>3, <2>1, <2>2 DEF GoodAnswer
  <2>5. SplitOK'
    BY <1>1, <1>2, <1>10, SameSplit
  <2>6. AnswerOK'
    BY <2>3, <2>4 DEF AnswerOK, GoodAnswer
  <2>. QED
    BY <1>3, <2>5, <2>6 DEF IInv
<1>11. CASE /\ best # None /\ Validating(Validation(best.legs))
            /\ split' = [chosen |-> best, validation |-> Validation(best.legs)] /\ UNCHANGED answer
  <2>. DEFINE w == Validation(best.legs)
              honest == trades = 0
  <2>1. GoodSplit(best, ask.amount, Seen) /\ best.legs \in Seq(QuoteSet(Seen))
    BY <1>7, <1>11 DEF GoodSplit, Divided
  <2>2. \A r \in 1..Len(best.legs) : Len(best.legs[r].hops) \in Nat
    <3>1. \A r \in 1..Len(best.legs) : best.legs[r] \in QuoteSet(Seen)
      BY <2>1
    <3>. QED
      BY <1>5, <3>1, QuoteFields
  <2>3. honest \in BOOLEAN
    OBVIOUS
  <2>. HIDE DEF honest
  <2>4. ValidationOK(w, Seen, honest) /\ w.routes = best.legs
    BY <2>1, <2>2, <2>3, ValidationFacts
  <2>5. SomeV3(w.routes)
    BY <1>11 DEF Validating, SomeV3
  <2>. HIDE DEF w
  <2>6. split' = [chosen |-> best, validation |-> w]
    BY <1>11 DEF w
  <2>7. ValidationOK(w, Seen', trades' = 0)
    BY <1>3, <2>4 DEF honest
  <2>8. SplitOK'
    BY <1>3, <2>1, <2>4, <2>5, <2>6, <2>7 DEF SplitOK
  <2>9. AnswerOK'
    BY <1>2, <1>11 DEF AnswerOK
  <2>. QED
    BY <1>3, <2>8, <2>9 DEF IInv
<1>. QED
  BY <1>4, <1>8, <1>9, <1>10, <1>11

(* A split of which every leg was validated.                               *)
Revalued(s, legs) == [s EXCEPT !.legs = legs, !.amountOut = Plus(AmountsOut(legs))]

(* It still divides the whole amount, and before the first trade it is     *)
(* honest.                                                                 *)
LEMMA RevalidatedFacts ==
  ASSUME PoolsOK, NEW v, ValidationOK(v, Seen, trades = 0), NEW s, NEW amount,
         GoodSplit(s, amount, Seen), v.routes = s.legs, SomeV3(v.routes), ~Validating(v),
         Len(Validated(v)) = Len(v.routes)
  PROVE  /\ Divided(Revalued(s, Validated(v)), amount, Seen)
         /\ trades = 0 => \A i \in 1..Len(Revalued(s, Validated(v)).legs) :
                             Honest(Revalued(s, Validated(v)).legs[i])
<1>. DEFINE honest == trades = 0
            legs == Validated(v)
            n == Len(s.legs)
            out == Plus(AmountsOut(legs))
            r == Revalued(s, legs)
            Q == QuoteSet(Seen)
<1>1. Seen \in SUBSET GoodPools /\ honest \in BOOLEAN /\ ValidationOK(v, Seen, honest)
  BY SeenFacts
<1>2. /\ legs \in Seq({p \in QuoteSet(Seen) : \E k \in 1..Len(v.routes) : Requotes(p, v.routes[k], honest)})
      /\ \A k \in 1..n : Requotes(legs[k], s.legs[k], honest)
  <2>. HIDE DEF honest
  <2>. QED
    BY <1>1, ValidatedFacts
<1>3. Len(legs) = n
  OBVIOUS
<1>4. Divided(s, amount, Seen)
  BY DEF GoodSplit
<1>5. /\ s \in [amountIn : Nat, amountOut : Int, legs : Seq(Q), ratios : Seq(Nat \ {0})]
      /\ n >= 2 /\ Len(s.ratios) = n /\ Plus(AmountsIn(s.legs)) = amount /\ s.amountIn = amount
      /\ Distinct(s.legs) /\ Plus(s.ratios) = 10000
      /\ \A i \in 1..n : s.legs[i].amountIn >= Floor(amount)
  BY <1>4 DEF Divided
<1>6. legs \in Seq(Q)
  BY <1>2
<1>. HIDE DEF legs, n
<1>7. n \in Nat /\ DOMAIN legs = 1..n /\ DOMAIN s.legs = 1..n /\ \A i \in 1..n : legs[i] \in Q
  BY <1>3, <1>5, <1>6, LenProperties DEF n
<1>8. \A i \in 1..n : legs[i].amountOut \in Int
  BY <1>1, <1>7, QuoteFields
<1>9. out \in Int
  <2>1. AmountsOut(legs) \in [1..n -> Int]
    BY <1>7, <1>8 DEF AmountsOut
  <2>. QED
    BY <1>7, <2>1, PlusType
<1>. HIDE DEF out, r, Q
<1>10. r = [s EXCEPT !.legs = legs, !.amountOut = out]
  BY DEF r, Revalued, out
<1>11. /\ r \in [amountIn : Nat, amountOut : Int, legs : Seq(Q), ratios : Seq(Nat \ {0})]
       /\ r.legs = legs /\ r.amountOut = out /\ r.ratios = s.ratios /\ r.amountIn = s.amountIn
  <2>. DEFINE A == Seq(Q)
              B == Seq(Nat \ {0})
  <2>1. s \in [amountIn : Nat, amountOut : Int, legs : A, ratios : B] /\ legs \in A
    BY <1>5, <1>6
  <2>. HIDE DEF A, B
  <2>2. /\ r \in [amountIn : Nat, amountOut : Int, legs : A, ratios : B]
        /\ r.legs = legs /\ r.amountOut = out /\ r.ratios = s.ratios /\ r.amountIn = s.amountIn
    BY <1>9, <1>10, <2>1
  <2>. QED
    BY <2>2 DEF A, B
<1>12. AmountsIn(legs) = AmountsIn(s.legs)
  BY <1>2, <1>7 DEF AmountsIn, Requotes
<1>13. Distinct(legs)
  <2>1. \A i \in 1..n : Signature(legs[i]) = Signature(s.legs[i])
    BY <1>2 DEF Requotes
  <2>2. \A i, j \in 1..n : i # j => Signature(s.legs[i]) # Signature(s.legs[j])
    BY <1>5 DEF Distinct, n
  <2>3. \A i, j \in 1..n : i # j => Signature(legs[i]) # Signature(legs[j])
    BY <2>1, <2>2
  <2>. QED
    BY <1>3, <2>3 DEF Distinct
<1>14. \A i \in 1..n : legs[i].amountIn >= Floor(amount)
  <2>1. \A i \in 1..n : legs[i].amountIn = s.legs[i].amountIn
    BY <1>2 DEF Requotes
  <2>2. \A i \in 1..n : s.legs[i].amountIn >= Floor(amount)
    BY <1>5
  <2>. QED
    BY <2>1, <2>2
<1>15. Divided(r, amount, Seen)
  <2>1. r.amountOut = Plus(AmountsOut(r.legs)) /\ Len(r.legs) = n
    BY <1>3, <1>11 DEF out
  <2>2. Plus(AmountsIn(r.legs)) = amount
    BY <1>5, <1>11, <1>12
  <2>. QED
    BY <1>5, <1>11, <1>13, <1>14, <2>1, <2>2 DEF Divided, Q
<1>16. ASSUME honest PROVE \A i \in 1..Len(r.legs) : Honest(r.legs[i])
  BY <1>2, <1>3, <1>11, <1>16 DEF Requotes
<1>. QED
  BY <1>15, <1>16 DEF r, out, legs, honest

(* One round of the split's validation; if a leg fails, the split is       *)
(* answered as it was.                                                     *)
LEMMA SplitValidatedInv ==
  ASSUME IInv, SplitValidated
  PROVE  IInv'
<1>1. PoolsOK /\ AskOK /\ DirectOK /\ MultiOK /\ SplitOK /\ AnswerOK
  BY DEF IInv
<1>2. UNCHANGED <<pools, trades, ask, gasPrice, direct, multi>> /\ answer = Nothing /\ split # Nothing
  BY DEF SplitValidated
<1>3. /\ PoolsOK' /\ AskOK' /\ DirectOK' /\ MultiOK' /\ Seen' = Seen /\ Kept' = Kept
      /\ (trades' = 0) = (trades = 0) /\ ask' = ask
  BY <1>1, <1>2, SamePools, SameKept, SameAsk, SameDirect, SameMulti
<1>4. PICK lost :
        LET v == HopValidated(split.validation, Quoted(split.validation, lost))
        IN IF Validating(v) THEN split' = [split EXCEPT !.validation = v] /\ UNCHANGED answer
           ELSE /\ Answered(IF Revalidated(v) = None THEN split.chosen ELSE Revalidated(v),
                            Sorted, Revalidated(v) # None)
                /\ split' = [split EXCEPT !.validation = v]
  BY DEF SplitValidated
<1>. DEFINE u == split.validation
            s == split.chosen
            v == HopValidated(u, Quoted(u, lost))
            honest == trades = 0
<1>5. /\ split = [chosen |-> s, validation |-> u]
      /\ GoodSplit(s, ask.amount, Seen) /\ ValidationOK(u, Seen, honest)
      /\ u.routes = s.legs /\ SomeV3(u.routes)
  BY <1>1, <1>2 DEF SplitOK
<1>6. /\ split' = [split EXCEPT !.validation = v]
      /\ IF Validating(v) THEN UNCHANGED answer
         ELSE Answered(IF Revalidated(v) = None THEN s ELSE Revalidated(v), Sorted, Revalidated(v) # None)
  BY <1>4
<1>7. ValidationOK(v, Seen, honest) /\ v.routes = u.routes
  <2>1. Asked(u, Quoted(u, lost), honest)
    BY <1>1, <1>5, QuotedFacts
  <2>2. Seen \in SUBSET GoodPools /\ honest \in BOOLEAN
    BY <1>1, SeenFacts
  <2>. HIDE DEF honest, u
  <2>. QED
    BY <1>5, <2>1, <2>2, HopValidatedFacts
<1>. HIDE DEF v, u
<1>8. split' = [chosen |-> s, validation |-> v]
  BY <1>5, <1>6
<1>9. ValidationOK(v, Seen', trades' = 0)
  BY <1>3, <1>7
<1>10. SplitOK'
  <2>1. split'.chosen = s /\ split'.validation = v /\ split' = [chosen |-> split'.chosen, validation |-> split'.validation]
    BY <1>8
  <2>. HIDE DEF s
  <2>. QED
    BY <1>3, <1>5, <1>7, <1>9, <2>1 DEF SplitOK
<1>11. CASE Validating(v)
  <2>1. AnswerOK'
    BY <1>2, <1>6, <1>11 DEF AnswerOK
  <2>. QED
    BY <1>3, <1>10, <2>1 DEF IInv
<1>12. CASE ~Validating(v)
  <2>. DEFINE checked == Revalidated(v) # None
              best == IF Revalidated(v) = None THEN s ELSE Revalidated(v)
  <2>1. Answered(best, Sorted, checked)
    BY <1>6, <1>12
  <2>2. /\ \/ best.legs[1] \in Kept /\ best = Single(best.legs[1])
           \/ Divided(best, ask.amount, Seen)
        /\ checked /\ trades = 0 => \A i \in 1..Len(best.legs) : Honest(best.legs[i])
    <3>1. CASE checked
      <4>1. Len(Validated(v)) = Len(v.routes)
        BY <3>1 DEF Revalidated
      <4>2. Revalidated(v) = Revalued(s, Validated(v))
        BY <4>1 DEF Revalidated, Revalued, AmountsOut
      <4>3. best = Revalued(s, Validated(v))
        BY <3>1, <4>2
      <4>. HIDE DEF s, best, checked
      <4>4. /\ Divided(best, ask.amount, Seen)
            /\ trades = 0 => \A i \in 1..Len(best.legs) : Honest(best.legs[i])
        BY <1>1, <1>5, <1>7, <1>12, <4>1, <4>3, RevalidatedFacts
      <4>. QED
        BY <4>4
    <3>2. CASE ~checked
      <4>1. best = s
        BY <3>2
      <4>2. Divided(s, ask.amount, Seen)
        BY <1>5 DEF GoodSplit
      <4>. QED
        BY <3>2, <4>1, <4>2
    <3>. QED
      BY <3>1, <3>2
  <2>3. checked \in BOOLEAN
    OBVIOUS
  <2>. HIDE DEF best, checked
  <2>4. answer'.kind = "quote" /\ answer'.best = best /\ answer'.checked = checked
    BY <2>1 DEF Answered
  <2>5. /\ \/ best.legs[1] \in Kept' /\ best = Single(best.legs[1])
           \/ Divided(best, ask'.amount, Seen')
        /\ checked /\ trades' = 0 => \A i \in 1..Len(best.legs) : Honest(best.legs[i])
    BY <1>3, <2>2
  <2>6. AnswerOK'
    BY <2>3, <2>4, <2>5 DEF AnswerOK, GoodAnswer
  <2>. QED
    BY <1>3, <1>10, <2>6 DEF IInv
<1>. QED
  BY <1>11, <1>12

(* Every step keeps the invariant.                                         *)
LEMMA NextInv ==
  ASSUME IInv, [Next]_vars
  PROVE  IInv'
<1>1. CASE DirectRead
  BY <1>1, DirectReadInv
<1>2. CASE DirectQuoted
  BY <1>2, DirectQuotedInv
<1>3. CASE MultiRead
  BY <1>3, MultiReadInv
<1>4. CASE MultiValidated
  BY <1>4, MultiValidatedInv
<1>5. CASE ReadFails
  BY <1>5, ReadFailsInv
<1>6. CASE Decide
  BY <1>6, DecideInv
<1>7. CASE SplitValidated
  BY <1>7, SplitValidatedInv
<1>8. CASE \E id \in Traded : Trade(id)
  BY <1>8, TradeInv
<1>9. CASE UNCHANGED vars
  <2>1. PoolsOK /\ AskOK /\ DirectOK /\ MultiOK /\ SplitOK /\ AnswerOK
    BY DEF IInv
  <2>2. UNCHANGED <<pools, trades, ask, gasPrice, direct, multi, split, answer>>
    BY <1>9 DEF vars
  <2>. QED
    BY <2>1, <2>2, SamePools, SameAsk, SameDirect, SameMulti, SameSplit, SameAnswer DEF IInv
<1>. QED
  BY <1>1, <1>2, <1>3, <1>4, <1>5, <1>6, <1>7, <1>8, <1>9 DEF Next, Ended

(* The invariant holds throughout every request, for all pools, markets,   *)
(* routes, amounts and trades: what fetchDirectQuotes, fetchMultiHopQuotes *)
(* and getBestQuoteForTokens hold between two awaits.                      *)
THEOREM Invariance == Spec => []IInv
<1>1. Init => IInv
  BY InitInv
<1>2. IInv /\ [Next]_vars => IInv'
  BY NextInv
<1>. QED
  BY <1>1, <1>2, PTL DEF Spec

(* Quotes of the proof are quotes of TypeOK.                               *)
LEMMA QuoteIsQuote ==
  ASSUME PoolsOK, NEW q \in QuoteSet(Seen)
  PROVE  IsQuote(q)
<1>1. Seen \in SUBSET GoodPools
  BY SeenFacts
<1>2. /\ q.amountIn \in Nat \ {0} /\ q.amountOut \in Nat \ {0} /\ Len(q.path) = Len(q.hops) + 1
      /\ DOMAIN q.hops = 1..Len(q.hops)
      /\ \A i \in 1..Len(q.hops) :
           /\ q.hops[i].amountOut \in Nat /\ q.hops[i].amountOut > 0
           /\ i > 1 => q.hops[i].amountIn = q.hops[i - 1].amountOut
           /\ Between(q.hops[i].pool, q.path[i], q.path[i + 1])
  BY <1>1, QuoteFields
<1>3. ASSUME NEW i \in DOMAIN q.hops
      PROVE  /\ q.hops[i].amountOut \in Nat \ {0}
             /\ Between(q.hops[i].pool, q.path[i], q.path[i + 1])
             /\ i > 1 => q.hops[i].amountIn = q.hops[i - 1].amountOut
  <2>1. i \in 1..Len(q.hops)
    BY <1>2
  <2>2. /\ q.hops[i].amountOut \in Nat /\ q.hops[i].amountOut > 0
        /\ i > 1 => q.hops[i].amountIn = q.hops[i - 1].amountOut
        /\ Between(q.hops[i].pool, q.path[i], q.path[i + 1])
    BY <1>2, <2>1, Zenon
  <2>. QED
    BY <2>2
<1>4. q.amountIn \in Nat \ {0} /\ q.amountOut \in Nat \ {0} /\ Len(q.path) = Len(q.hops) + 1
  BY <1>2
<1>. QED
  BY <1>3, <1>4, Zenon DEF IsQuote

(* The legs of an answer are quotes; several of them are a split.          *)
LEMMA AnswerLegs ==
  ASSUME IInv, answer.kind = "quote"
  PROVE  /\ answer.best.legs \in Seq(QuoteSet(Seen)) /\ Len(answer.best.legs) \in Nat
         /\ DOMAIN answer.best.legs = 1..Len(answer.best.legs)
         /\ Len(answer.best.legs) > 1 => Divided(answer.best, ask.amount, Seen)
         /\ GoodAnswer(answer.best, answer.checked)
<1>. DEFINE s == answer.best
<1>1. GoodAnswer(s, answer.checked)
  BY DEF IInv, AnswerOK, Nothing, Wrong
<1>2. CASE s.legs[1] \in Kept /\ s = Single(s.legs[1])
  <2>. DEFINE q == s.legs[1]
  <2>1. s.legs = <<q>> /\ q \in QuoteSet(Seen)
    BY <1>2 DEF Single, Kept
  <2>. HIDE DEF q
  <2>. QED
    BY <1>1, <2>1
<1>3. CASE Divided(s, ask.amount, Seen)
  <2>1. s.legs \in Seq(QuoteSet(Seen))
    BY <1>3 DEF Divided
  <2>. HIDE DEF s
  <2>. QED
    BY <1>1, <1>3, <2>1, LenProperties DEF s
<1>. QED
  BY <1>1, <1>2, <1>3 DEF GoodAnswer

(* What a request works on is well typed: every quote of fetchDirectQuotes *)
(* and fetchMultiHopQuotes is for the amount asked for, and each of its    *)
(* hops goes through a pool of its two tokens and is fed with what the     *)
(* last one paid, also after the validation.                               *)
THEOREM TypeCorrect == Spec => []TypeOK
<1>1. IInv => TypeOK
  <2>. SUFFICES ASSUME IInv PROVE TypeOK
    OBVIOUS
  <2>1. PoolsOK /\ DirectOK /\ MultiOK
    BY DEF IInv
  <2>2. pools \in [ToSet(Order) -> PoolTypes]
    <3>1. pools \in [ToSet(Order) -> GoodPools] /\ GoodPools \in SUBSET PoolTypes
      BY <2>1 DEF PoolsOK, GoodPools
    <3>. QED
      BY <3>1
  <2>3. answer.kind \in {"none", "error", "null", "quote"}
    BY DEF IInv, AnswerOK, Nothing, Wrong
  <2>4. ASSUME NEW quotes \in Seq(Kept), NEW q \in ToSet(quotes)
        PROVE  IsQuote(q) /\ q.amountIn = ask.amount
    <3>1. q \in Kept
      BY DEF ToSet
    <3>. QED
      BY <2>1, <3>1, QuoteIsQuote DEF Kept
  <2>5. direct.quotes \in Seq(Kept) /\ multi.quotes \in Seq(Kept)
    BY <2>1 DEF DirectOK, MultiOK
  <2>6. ASSUME answer.kind = "quote", NEW q \in ToSet(answer.best.legs)
        PROVE  IsQuote(q)
    <3>1. answer.best.legs \in Seq(QuoteSet(Seen))
      BY <2>6, AnswerLegs
    <3>2. q \in QuoteSet(Seen)
      BY <3>1 DEF ToSet
    <3>. QED
      BY <2>1, <3>2, QuoteIsQuote
  <2>7. direct.stage \in {"reading", "quoting", "done"} /\ multi.stage \in {"reading", "validating", "done"}
    BY <2>1 DEF DirectOK, MultiOK
  <2>. QED
    BY <2>2, <2>3, <2>4, <2>5, <2>6, <2>7 DEF TypeOK
<1>. QED
  BY <1>1, Invariance, PTL

(* Every split that is answered spends the whole amount over different     *)
(* routes, with positive shares that make up 10000, and no leg carries     *)
(* less than minLegRatioBps of it where equal parts do not: the iterations *)
(* of optimizeSplitMPE, its removals, the rounding of buildSplitResult and *)
(* the second validation lose nothing.                                     *)
THEOREM SplitsAreSound == Spec => []SplitSound
<1>1. IInv => SplitSound
  <2>. SUFFICES ASSUME IInv, answer.kind = "quote", Len(answer.best.legs) > 1
                PROVE  LET legs == answer.best.legs IN
                         /\ Plus([i \in DOMAIN legs |-> legs[i].amountIn]) = ask.amount
                         /\ MinimumFits => \A i \in DOMAIN legs : legs[i].amountIn >= MinAllocation(ask.amount)
                         /\ \A i, j \in DOMAIN legs : i # j => Signature(legs[i]) # Signature(legs[j])
                         /\ Plus(answer.best.ratios) = 10000 /\ \A i \in DOMAIN legs : answer.best.ratios[i] > 0
    BY DEF SplitSound
  <2>. DEFINE s == answer.best
              n == Len(s.legs)
  <2>1. Divided(s, ask.amount, Seen) /\ DOMAIN s.legs = 1..n /\ n \in Nat
    BY AnswerLegs
  <2>. HIDE DEF s
  <2>2. /\ s \in [amountIn : Nat, amountOut : Int, legs : Seq(QuoteSet(Seen)), ratios : Seq(Nat \ {0})]
        /\ Len(s.ratios) = n /\ Plus(AmountsIn(s.legs)) = ask.amount
        /\ \A i \in 1..n : s.legs[i].amountIn >= Floor(ask.amount)
        /\ Distinct(s.legs) /\ Plus(s.ratios) = 10000
    BY <2>1 DEF Divided
  <2>3. \A i \in 1..n : s.ratios[i] > 0
    <3>1. s.ratios \in Seq(Nat \ {0})
      BY <2>2
    <3>. QED
      BY <2>2, <3>1
  <2>4. Plus([i \in DOMAIN s.legs |-> s.legs[i].amountIn]) = ask.amount
    BY <2>2 DEF AmountsIn
  <2>5. \A i, j \in DOMAIN s.legs : i # j => Signature(s.legs[i]) # Signature(s.legs[j])
    BY <2>1, <2>2 DEF Distinct
  <2>6. MinimumFits => \A i \in DOMAIN s.legs : s.legs[i].amountIn >= MinAllocation(ask.amount)
    <3>1. MinimumFits => Floor(ask.amount) = MinAllocation(ask.amount)
      BY DEF Floor, SureRatio, MinAllocation
    <3>. QED
      BY <2>1, <2>2, <3>1
  <2>. QED
    BY <2>2, <2>3, <2>4, <2>5, <2>6 DEF s
<1>. QED
  BY <1>1, Invariance, PTL

-----------------------------------------------------------------------------
(* What the legs of an answer are paid.                                    *)

(* A quote whose pools are as the chain's is paid what it says.            *)
LEMMA PaidNowFacts ==
  ASSUME PoolsOK, trades = 0, NEW q \in QuoteSet(Seen), Honest(q)
  PROVE  PaidNow(q) = q.amountOut
<1>. DEFINE n == Len(q.hops)
            pay(i, a) == Pays(pools[q.hops[i].pool.id], q.path[i], a)
            Body(f) == [i \in 0..n |-> IF i = 0 THEN q.amountIn ELSE pay(i, f[i - 1])]
            g == [i \in 0..n |-> IF i = 0 THEN q.amountIn ELSE q.hops[i].amountOut]
<1>1. PaidNow(q) = (CHOOSE f : f = Body(f))[n]
  BY DEF PaidNow
<1>2. Seen \in SUBSET GoodPools
  BY SeenFacts
<1>3. /\ n \in Nat \ {0} /\ q.amountIn = q.hops[1].amountIn /\ q.amountOut = q.hops[n].amountOut
      /\ \A i \in 1..n : q.hops[i].pool \in Seen /\ (i > 1 => q.hops[i].amountIn = q.hops[i - 1].amountOut)
  BY <1>2, QuoteFields
<1>4. ASSUME NEW i \in 1..n PROVE pay(i, q.hops[i].amountIn) = q.hops[i].amountOut
  <2>1. pools[q.hops[i].pool.id] = q.hops[i].pool
    BY <1>3, SeenFacts
  <2>. QED
    BY <2>1 DEF Honest
<1>. HIDE DEF n, pay
<1>5. ASSUME NEW i \in 1..n PROVE g[i] = pay(i, g[i - 1])
  <2>1. i \in 0..n /\ i - 1 \in 0..n /\ i # 0
    BY <1>3
  <2>2. g[i - 1] = q.hops[i].amountIn
    <3>1. CASE i = 1
      BY <1>3, <2>1, <3>1
    <3>2. CASE i # 1
      <4>1. i > 1 /\ i - 1 # 0
        BY <1>3, <3>2
      <4>. QED
        BY <1>3, <2>1, <4>1
    <3>. QED
      BY <3>1, <3>2
  <2>. QED
    BY <1>4, <2>1, <2>2
<1>6. g = Body(g)
  <2>1. \A i \in 0..n : g[i] = IF i = 0 THEN q.amountIn ELSE pay(i, g[i - 1])
    <3>1. \A i \in 0..n : i # 0 => i \in 1..n
      BY <1>3
    <3>. QED
      BY <1>5, <3>1
  <2>. QED
    BY <2>1
<1>7. PICK p : p = CHOOSE f : f = Body(f)
  OBVIOUS
<1>8. p = Body(p)
  <2>. HIDE DEF Body, g
  <2>. QED
    BY <1>6, <1>7
<1>9. p[0] = q.amountIn /\ \A i \in 1..n : p[i] = pay(i, p[i - 1])
  <2>1. 0 \in 0..n /\ \A i \in 1..n : i \in 0..n /\ i # 0
    BY <1>3
  <2>. QED
    BY <1>8, <2>1
<1>10. g[0] = q.amountIn /\ g[n] = q.amountOut
  BY <1>3
<1>. HIDE DEF g, Body
<1>. DEFINE S == {i \in 0..n : p[i] = g[i]}
<1>11. 0 \in S
  BY <1>3, <1>9, <1>10
<1>12. ASSUME NEW i \in 1..n, i - 1 \in S PROVE i \in S
  <2>1. i \in 0..n
    BY <1>3
  <2>. QED
    BY <1>5, <1>9, <1>12, <2>1
<1>13. p[n] = g[n]
  <2>. HIDE DEF S
  <2>1. \A k \in 0..n : k \in S
    BY <1>3, <1>11, <1>12, Counting
  <2>. QED
    BY <1>3, <2>1 DEF S
<1>. QED
  BY <1>1, <1>7, <1>10, <1>13

(* A pool is no better than itself, ...                                    *)
LEMMA NoBetterSame ==
  ASSUME NEW p \in GoodPools, NEW token
  PROVE  NoBetter(p, p, token)
<1>1. p \in PoolTypes /\ p.reserve0 \in Nat /\ p.reserve1 \in Nat
  BY PoolFields
<1>2. p = [p EXCEPT !.reserve0 = p.reserve0, !.reserve1 = p.reserve1]
  BY <1>1 DEF PoolTypes
<1>. QED
  BY <1>1, <1>2 DEF NoBetter, ReserveIn, ReserveOut

(* ... one that is no better is of the same tokens, ...                    *)
LEMMA NoBetterFields ==
  ASSUME NEW p \in GoodPools, NEW q \in GoodPools, NEW token, NoBetter(q, p, token)
  PROVE  /\ q.token0 = p.token0 /\ q.version = p.version /\ q.protocol = p.protocol
         /\ q = [p EXCEPT !.reserve0 = q.reserve0, !.reserve1 = q.reserve1]
<1>1. q = [p EXCEPT !.reserve0 = q.reserve0, !.reserve1 = q.reserve1]
  BY DEF NoBetter
<1>2. p \in PoolTypes
  BY PoolFields
<1>. DEFINE a == q.reserve0
            b == q.reserve1
<1>3. q = [p EXCEPT !.reserve0 = a, !.reserve1 = b]
  BY <1>1
<1>. HIDE DEF a, b
<1>4. q.token0 = p.token0 /\ q.version = p.version /\ q.protocol = p.protocol
  BY <1>2, <1>3 DEF PoolTypes
<1>. QED
  BY <1>1, <1>4

(* ... and no better than one that is no better is no better.              *)
LEMMA NoBetterChain ==
  ASSUME NEW p \in GoodPools, NEW q \in GoodPools, NEW r \in GoodPools, NEW token,
         NoBetter(q, p, token), NoBetter(r, q, token)
  PROVE  NoBetter(r, p, token)
<1>1. /\ q.token0 = p.token0 /\ q.version = p.version
      /\ q = [p EXCEPT !.reserve0 = q.reserve0, !.reserve1 = q.reserve1]
  BY NoBetterFields
<1>2. /\ r.token0 = q.token0 /\ r.version = q.version
      /\ r = [q EXCEPT !.reserve0 = r.reserve0, !.reserve1 = r.reserve1]
  BY NoBetterFields
<1>3. r = [p EXCEPT !.reserve0 = r.reserve0, !.reserve1 = r.reserve1]
  <2>. DEFINE a == q.reserve0
              b == q.reserve1
              c == r.reserve0
              d == r.reserve1
  <2>1. q = [p EXCEPT !.reserve0 = a, !.reserve1 = b] /\ r = [q EXCEPT !.reserve0 = c, !.reserve1 = d]
    BY <1>1, <1>2
  <2>2. p \in PoolTypes
    BY PoolFields
  <2>. HIDE DEF a, b, c, d
  <2>3. r = [p EXCEPT !.reserve0 = c, !.reserve1 = d]
    BY <2>1, <2>2 DEF PoolTypes
  <2>. QED
    BY <2>3 DEF c, d
<1>4. /\ p.reserve0 \in Nat /\ p.reserve1 \in Nat /\ q.reserve0 \in Nat /\ q.reserve1 \in Nat
      /\ r.reserve0 \in Nat /\ r.reserve1 \in Nat
  BY PoolFields
<1>5. CASE p.version = "v2"
  <2>1. /\ ReserveIn(q, token) >= ReserveIn(p, token) /\ ReserveOut(q, token) <= ReserveOut(p, token)
        /\ ReserveIn(r, token) >= ReserveIn(q, token) /\ ReserveOut(r, token) <= ReserveOut(q, token)
    BY <1>1, <1>5 DEF NoBetter
  <2>2. \A x \in {p, q, r} : ReserveIn(x, token) \in Nat /\ ReserveOut(x, token) \in Nat
    BY <1>4 DEF ReserveIn, ReserveOut
  <2>3. ReserveIn(r, token) >= ReserveIn(p, token) /\ ReserveOut(r, token) <= ReserveOut(p, token)
    BY <2>1, <2>2
  <2>. QED
    BY <1>3, <1>5, <2>3 DEF NoBetter
<1>6. CASE p.version # "v2"
  <2>1. q = p /\ r = q
    BY <1>1, <1>6 DEF NoBetter
  <2>. QED
    BY <1>3, <1>6, <2>1 DEF NoBetter
<1>. QED
  BY <1>5, <1>6

-----------------------------------------------------------------------------
(* The pools while an answer is carried out.                               *)
Worlds == [pools : [ToSet(Order) -> GoodPools], amount : Nat, total : Nat]

(* A swap changes one pool, which gets no better for the next that goes    *)
(* the same way.                                                           *)
LEMMA ThroughFacts ==
  ASSUME NEW s \in Worlds, NEW id \in ToSet(Order), NEW token
  PROVE  LET r == Through(s, id, token)
         IN  /\ r \in Worlds /\ r.total = s.total /\ r.amount = Pays(s.pools[id], token, s.amount)
             /\ \A j \in ToSet(Order) : j # id => r.pools[j] = s.pools[j]
             /\ NoBetter(r.pools[id], s.pools[id], token)
<1>. DEFINE pool == s.pools[id]
            next == IF pool.version = "v2" THEN AfterSwap(pool, token, s.amount) ELSE pool
            paid == Pays(pool, token, s.amount)
            r == Through(s, id, token)
<1>1. r = [s EXCEPT !.amount = paid, !.pools[id] = next]
  BY DEF Through
<1>2. pool \in GoodPools /\ s.amount \in Nat /\ s.total \in Nat /\ s.pools \in [ToSet(Order) -> GoodPools]
  BY DEF Worlds
<1>3. next \in GoodPools /\ NoBetter(next, pool, token)
  BY <1>2, AfterSwapFacts, NoBetterSame
<1>4. paid \in Nat
  BY <1>2, PaysType
<1>. HIDE DEF r, next, paid
<1>5. /\ r \in Worlds /\ r.total = s.total /\ r.amount = paid /\ r.pools[id] = next
      /\ \A j \in ToSet(Order) : j # id => r.pools[j] = s.pools[j]
  BY <1>1, <1>2, <1>3, <1>4 DEF Worlds
<1>. QED
  BY <1>3, <1>5 DEF r, paid

Id(leg, i) == leg.hops[i].pool.id

(* A route visits no pool twice.                                           *)
LEMMA LegDistinct ==
  ASSUME PoolsOK, trades = 0, NEW leg \in QuoteSet(Seen), NEW i \in 1..Len(leg.hops), NEW j \in 1..Len(leg.hops),
         Id(leg, i) = Id(leg, j)
  PROVE  i = j
<1>. DEFINE n == Len(leg.hops)
            p == leg.path
<1>1. Seen \in SUBSET GoodPools
  BY SeenFacts
<1>2. /\ n \in Nat /\ Len(p) = n + 1 /\ Chained(p, leg.hops)
      /\ leg.hops[i].pool \in Seen /\ leg.hops[j].pool \in Seen
      /\ Between(leg.hops[i].pool, p[i], p[i + 1]) /\ Between(leg.hops[j].pool, p[j], p[j + 1])
  BY <1>1, QuoteFields
<1>3. leg.hops[i].pool = leg.hops[j].pool
  BY <1>2, SeenFacts DEF Id
<1>4. {p[i], p[i + 1]} = {p[j], p[j + 1]}
  BY <1>2, <1>3 DEF Between
<1>5. \A x, y \in 1..(n + 1) : p[x] = p[y] => x = y
  BY <1>2 DEF Chained
<1>6. i \in 1..(n + 1) /\ i + 1 \in 1..(n + 1) /\ j \in 1..(n + 1) /\ j + 1 \in 1..(n + 1)
  BY <1>2
<1>7. p[i] = p[j] \/ (p[i] = p[j + 1] /\ p[i + 1] = p[j])
  BY <1>4
<1>. HIDE DEF p, n
<1>8. i = j \/ (i = j + 1 /\ i + 1 = j)
  BY <1>5, <1>6, <1>7
<1>. QED
  BY <1>2, <1>8

(* s finds the pools of a leg as the leg was quoted, or no better.         *)
ReadyAt(s, leg, exact, i) ==
  /\ NoBetter(s.pools[Id(leg, i)], leg.hops[i].pool, leg.path[i])
  /\ exact => s.pools[Id(leg, i)] = leg.hops[i].pool

Ready(s, leg, exact) == \A i \in 1..Len(leg.hops) : ReadyAt(s, leg, exact, i)

Carry(leg, k) == IF k = 0 THEN leg.amountIn ELSE leg.hops[k].amountOut

NotUpTo(leg, k, id) == \A i \in 1..k : Id(leg, i) # id

(* r is s after k hops of a leg.                                           *)
Progress(r, s, leg, exact, k) ==
  /\ r \in Worlds /\ r.total = s.total
  /\ r.amount <= Carry(leg, k) /\ (exact => r.amount = Carry(leg, k))
  /\ \A id \in ToSet(Order) : NotUpTo(leg, k, id) => r.pools[id] = s.pools[id]
  /\ \A i \in 1..Len(leg.hops) : NoBetter(r.pools[Id(leg, i)], s.pools[Id(leg, i)], leg.path[i])

(* The pools of a leg are the chain's.                                     *)
LEMMA HopPool ==
  ASSUME PoolsOK, trades = 0, NEW leg \in QuoteSet(Seen), NEW i \in 1..Len(leg.hops)
  PROVE  /\ Id(leg, i) \in ToSet(Order) /\ leg.hops[i].pool \in GoodPools
         /\ leg.hops[i].amountIn \in Nat /\ leg.hops[i].amountOut \in Nat
<1>1. Seen \in SUBSET GoodPools
  BY SeenFacts
<1>2. leg.hops[i].pool \in GoodPools /\ leg.hops[i].amountIn \in Nat /\ leg.hops[i].amountOut \in Nat
  BY <1>1, QuoteFields
<1>. QED
  BY <1>2, PoolFields DEF Id

(* One hop more is paid what it was quoted, or less, and exactly that      *)
(* where every pool is as quoted.                                          *)
LEMMA ThroughHop ==
  ASSUME PoolsOK, trades = 0, NEW leg \in QuoteSet(Seen), Honest(leg), NEW exact \in BOOLEAN,
         NEW s \in Worlds, Ready(s, leg, exact), NEW k \in 1..Len(leg.hops),
         NEW r, Progress(r, s, leg, exact, k - 1)
  PROVE  Progress(Through(r, Id(leg, k), leg.path[k]), s, leg, exact, k)
<1>. DEFINE n == Len(leg.hops)
            id == Id(leg, k)
            token == leg.path[k]
            pool == leg.hops[k].pool
            t == Through(r, id, token)
            O == ToSet(Order)
<1>1. /\ r \in Worlds /\ r.total = s.total
      /\ r.amount <= Carry(leg, k - 1) /\ (exact => r.amount = Carry(leg, k - 1))
      /\ \A x \in O : NotUpTo(leg, k - 1, x) => r.pools[x] = s.pools[x]
      /\ \A i \in 1..n : NoBetter(r.pools[Id(leg, i)], s.pools[Id(leg, i)], leg.path[i])
  BY DEF Progress
<1>2. n \in Nat \ {0} /\ leg.amountIn = leg.hops[1].amountIn
      /\ \A i \in 1..n : i > 1 => leg.hops[i].amountIn = leg.hops[i - 1].amountOut
  <2>1. Seen \in SUBSET GoodPools
    BY SeenFacts
  <2>. QED
    BY <2>1, QuoteFields
<1>3. id \in O /\ pool \in GoodPools /\ leg.hops[k].amountIn \in Nat /\ leg.hops[k].amountOut \in Nat
  BY HopPool
<1>4. ReadyAt(s, leg, exact, k)
  BY DEF Ready
<1>5. /\ t \in Worlds /\ t.total = r.total /\ t.amount = Pays(r.pools[id], token, r.amount)
      /\ \A j \in O : j # id => t.pools[j] = r.pools[j]
      /\ NoBetter(t.pools[id], r.pools[id], token)
  BY <1>1, <1>3, ThroughFacts
<1>. HIDE DEF t, O
<1>6. \A i \in 1..n : i # k => Id(leg, i) # id
  BY LegDistinct
<1>7. r.pools[id] = s.pools[id]
  <2>1. \A i \in 1..(k - 1) : i \in 1..n /\ i # k
    BY <1>2
  <2>2. NotUpTo(leg, k - 1, id)
    BY <1>6, <2>1 DEF NotUpTo
  <2>. QED
    BY <1>1, <1>3, <2>2
<1>8. Carry(leg, k - 1) = leg.hops[k].amountIn
  <2>1. CASE k = 1
    BY <1>2, <2>1 DEF Carry
  <2>2. CASE k # 1
    <3>1. k > 1 /\ k - 1 # 0
      BY <2>2
    <3>. QED
      BY <1>2, <3>1 DEF Carry
  <2>. QED
    BY <2>1, <2>2
<1>9. NoBetter(r.pools[id], pool, token) /\ (exact => r.pools[id] = pool)
  BY <1>4, <1>7 DEF ReadyAt
<1>10. r.pools[id] \in GoodPools /\ r.amount \in Nat
  BY <1>1, <1>3 DEF Worlds, O
<1>11. Pays(pool, token, leg.hops[k].amountIn) = leg.hops[k].amountOut
  BY DEF Honest
<1>12. Carry(leg, k) = leg.hops[k].amountOut
  BY <1>2 DEF Carry
<1>13. t.amount <= Carry(leg, k)
  <2>1. r.amount <= leg.hops[k].amountIn
    BY <1>1, <1>8
  <2>2. Pays(r.pools[id], token, r.amount) <= Pays(pool, token, leg.hops[k].amountIn)
    <3>. HIDE DEF pool, id, token
    <3>. QED
      BY <1>3, <1>9, <1>10, <2>1, PaysMonotone
  <2>. QED
    BY <1>5, <1>11, <1>12, <2>2
<1>14. exact => t.amount = Carry(leg, k)
  BY <1>1, <1>5, <1>8, <1>9, <1>11, <1>12
<1>15. ASSUME NEW x \in O, NotUpTo(leg, k, x) PROVE t.pools[x] = s.pools[x]
  <2>1. k \in 1..k /\ \A i \in 1..(k - 1) : i \in 1..k
    OBVIOUS
  <2>2. x # id /\ NotUpTo(leg, k - 1, x)
    BY <1>15, <2>1 DEF NotUpTo
  <2>. QED
    BY <1>1, <1>5, <2>2
<1>16. ASSUME NEW i \in 1..n PROVE NoBetter(t.pools[Id(leg, i)], s.pools[Id(leg, i)], leg.path[i])
  <2>1. CASE i = k
    BY <1>5, <1>7, <2>1
  <2>2. CASE i # k
    <3>1. Id(leg, i) # id /\ Id(leg, i) \in O
      BY <1>6, <2>2, HopPool DEF O
    <3>. QED
      BY <1>1, <1>5, <3>1
  <2>. QED
    BY <2>1, <2>2
<1>. QED
  BY <1>1, <1>5, <1>13, <1>14, <1>15, <1>16 DEF Progress, t, O

(* r is s after a leg: its quote is paid, or less, but all of it where the *)
(* pools are as it was quoted.                                             *)
Paid(r, s, leg, exact) ==
  /\ r \in Worlds /\ r.total <= s.total + leg.amountOut /\ (exact => r.total = s.total + leg.amountOut)
  /\ \A id \in ToSet(Order) : id \notin Pools(leg) => r.pools[id] = s.pools[id]
  /\ \A i \in 1..Len(leg.hops) : NoBetter(r.pools[Id(leg, i)], s.pools[Id(leg, i)], leg.path[i])

(* So a whole leg is.                                                      *)
LEMMA ThroughLegFacts ==
  ASSUME PoolsOK, trades = 0, NEW leg \in QuoteSet(Seen), Honest(leg), NEW exact \in BOOLEAN,
         NEW s \in Worlds, Ready(s, leg, exact)
  PROVE  Paid(ThroughLeg(s, leg), s, leg, exact)
<1>. DEFINE n == Len(leg.hops)
            start == [s EXCEPT !.amount = leg.amountIn]
            step(i, w) == Through(w, leg.hops[i].pool.id, leg.path[i])
            Body(f) == [i \in 0..n |-> IF i = 0 THEN start ELSE step(i, f[i - 1])]
            G == [i \in 1..n |-> [w \in Worlds |-> step(i, w)]]
            end == (CHOOSE f : f = Body(f))[n]
<1>1. ThroughLeg(s, leg) = [end EXCEPT !.total = @ + end.amount]
  BY DEF ThroughLeg
<1>2. n \in Nat /\ leg.amountIn \in Nat /\ n # 0 /\ leg.amountOut = leg.hops[n].amountOut /\ DOMAIN leg.hops = 1..n
      /\ leg.amountOut \in Nat
  <2>1. Seen \in SUBSET GoodPools
    BY SeenFacts
  <2>2. n \in Nat \ {0} /\ leg.amountIn \in Nat \ {0} /\ leg.amountOut = leg.hops[n].amountOut
        /\ DOMAIN leg.hops = 1..n /\ leg.amountOut \in Nat \ {0}
    BY <2>1, QuoteFields
  <2>. QED
    BY <2>2
<1>3. /\ start \in Worlds /\ start.amount = leg.amountIn /\ start.total = s.total /\ start.pools = s.pools
      /\ s.pools \in [ToSet(Order) -> GoodPools] /\ s.total \in Nat
  BY <1>2 DEF Worlds
<1>4. ASSUME NEW i \in 1..n, NEW w \in Worlds PROVE step(i, w) \in Worlds
  <2>1. Id(leg, i) \in ToSet(Order)
    BY HopPool
  <2>2. Through(w, Id(leg, i), leg.path[i]) \in Worlds
    BY <2>1, ThroughFacts
  <2>. QED
    BY <2>2 DEF Id
<1>5. \A i \in 1..n : \A w : step(i, w) = Through(w, Id(leg, i), leg.path[i])
  BY DEF Id
<1>. HIDE DEF n, start, step
<1>6. G \in [1..n -> [Worlds -> Worlds]]
  BY <1>4
<1>7. PICK g \in [0..n -> Worlds] : Stepwise(g, n, start, G)
  <2>. HIDE DEF G
  <2>. QED
    BY <1>2, <1>3, <1>6, StepsExist, Zenon
<1>8. g = Body(g)
  <2>1. ASSUME NEW k \in 0..n PROVE g[k] = IF k = 0 THEN start ELSE step(k, g[k - 1])
    <3>1. CASE k = 0
      BY <1>7, <3>1 DEF Stepwise
    <3>2. CASE k # 0
      <4>1. k \in 1..n /\ k - 1 \in 0..n
        BY <1>2, <3>2
      <4>2. g[k] = G[k][g[k - 1]]
        <5>. HIDE DEF G
        <5>. QED
          BY <1>7, <4>1 DEF Stepwise
      <4>3. g[k - 1] \in Worlds
        BY <4>1
      <4>. QED
        BY <3>2, <4>1, <4>2, <4>3
    <3>. QED
      BY <3>1, <3>2
  <2>. QED
    BY <2>1
<1>9. PICK p : p = CHOOSE f : f = Body(f)
  OBVIOUS
<1>10. p = Body(p)
  <2>. HIDE DEF Body
  <2>. QED
    BY <1>8, <1>9
<1>11. p[0] = start /\ \A k \in 1..n : p[k] = step(k, p[k - 1])
  <2>1. 0 \in 0..n /\ \A k \in 1..n : k \in 0..n /\ k # 0
    BY <1>2
  <2>. QED
    BY <1>10, <2>1
<1>12. end = p[n]
  BY <1>9
<1>. HIDE DEF Body, end
<1>. DEFINE S == {k \in 0..n : Progress(p[k], s, leg, exact, k)}
<1>13. 0 \in S
  <2>1. \A i \in 1..n : NoBetter(start.pools[Id(leg, i)], s.pools[Id(leg, i)], leg.path[i])
    <3>1. ASSUME NEW i \in 1..n PROVE NoBetter(s.pools[Id(leg, i)], s.pools[Id(leg, i)], leg.path[i])
      <4>1. s.pools[Id(leg, i)] \in GoodPools
        BY <1>3, HopPool DEF n
      <4>. QED
        BY <4>1, NoBetterSame
    <3>. QED
      BY <1>3, <3>1
  <2>2. start.amount <= Carry(leg, 0) /\ start.amount = Carry(leg, 0)
    BY <1>2, <1>3 DEF Carry
  <2>3. Progress(start, s, leg, exact, 0)
    BY <1>3, <2>1, <2>2 DEF Progress, n
  <2>. QED
    BY <1>2, <1>11, <2>3
<1>14. ASSUME NEW k \in 1..n, k - 1 \in S PROVE k \in S
  <2>1. k \in 0..n /\ Progress(p[k - 1], s, leg, exact, k - 1)
    BY <1>2, <1>14
  <2>2. Progress(Through(p[k - 1], Id(leg, k), leg.path[k]), s, leg, exact, k)
    BY <2>1, ThroughHop DEF n
  <2>3. p[k] = Through(p[k - 1], Id(leg, k), leg.path[k])
    BY <1>5, <1>11
  <2>. QED
    BY <2>1, <2>2, <2>3
<1>15. Progress(end, s, leg, exact, n)
  <2>. HIDE DEF S
  <2>1. \A k \in 0..n : k \in S
    BY <1>2, <1>13, <1>14, Counting
  <2>. QED
    BY <1>2, <1>12, <2>1 DEF S
<1>. DEFINE r == ThroughLeg(s, leg)
            all == end.total + end.amount
<1>16. Carry(leg, n) = leg.amountOut
  BY <1>2 DEF Carry
<1>17. /\ end \in Worlds /\ end.total = s.total
       /\ end.amount <= leg.amountOut /\ (exact => end.amount = leg.amountOut)
       /\ \A id \in ToSet(Order) : NotUpTo(leg, n, id) => end.pools[id] = s.pools[id]
       /\ \A i \in 1..n : NoBetter(end.pools[Id(leg, i)], s.pools[Id(leg, i)], leg.path[i])
  BY <1>15, <1>16 DEF Progress, n
<1>18. end.total \in Nat /\ end.amount \in Nat /\ all \in Nat
  BY <1>17 DEF Worlds
<1>19. r = [end EXCEPT !.total = all]
  BY <1>1
<1>20. all <= s.total + leg.amountOut /\ (exact => all = s.total + leg.amountOut)
  BY <1>2, <1>17, <1>18
<1>. HIDE DEF r, all
<1>21. r \in Worlds /\ r.total = all /\ r.pools = end.pools
  BY <1>17, <1>18, <1>19 DEF Worlds
<1>22. \A id \in ToSet(Order) : id \notin Pools(leg) => NotUpTo(leg, n, id)
  BY <1>2 DEF Pools, NotUpTo, Id
<1>23. Paid(r, s, leg, exact)
  BY <1>17, <1>20, <1>21, <1>22 DEF Paid, n
<1>. QED
  BY <1>23 DEF r

(* The legs from k + 1 on find their pools as they were quoted, or no      *)
(* better.                                                                 *)
ReadyFrom(s, legs, exact, k) == \A j \in (k + 1)..Len(legs) : Ready(s, legs[j], exact)

Apart(legs, exact) == IF exact THEN Disjoint(legs) ELSE AllAligned(legs)

AllHonest(legs) == \A i \in 1..Len(legs) : Honest(legs[i])

(* After a leg, the others find their pools as they were if they share     *)
(* none, and no better if they go the same way.                            *)
LEMMA OtherLeg ==
  ASSUME PoolsOK, trades = 0, NEW legs \in Seq(QuoteSet(Seen)), NEW exact \in BOOLEAN, Apart(legs, exact),
         NEW k \in 1..Len(legs), NEW j \in 1..Len(legs), j # k,
         NEW s \in Worlds, Ready(s, legs[j], exact), NEW r, Paid(r, s, legs[k], exact)
  PROVE  Ready(r, legs[j], exact)
<1>. DEFINE p == legs[k]
            q == legs[j]
            n == Len(q.hops)
<1>1. p \in QuoteSet(Seen) /\ q \in QuoteSet(Seen) /\ DOMAIN legs = 1..Len(legs)
  BY LenProperties
<1>2. /\ r \in Worlds
      /\ \A id \in ToSet(Order) : id \notin Pools(p) => r.pools[id] = s.pools[id]
      /\ \A i \in 1..Len(p.hops) : NoBetter(r.pools[Id(p, i)], s.pools[Id(p, i)], p.path[i])
  BY DEF Paid
<1>3. DOMAIN p.hops = 1..Len(p.hops) /\ DOMAIN q.hops = 1..n
  <2>1. Seen \in SUBSET GoodPools
    BY SeenFacts
  <2>. QED
    BY <1>1, <2>1, QuoteFields
<1>4. exact => Pools(q) \cap Pools(p) = {}
  BY <1>1 DEF Apart, Disjoint
<1>5. ~exact => Aligned(p, q)
  BY <1>1 DEF Apart, AllAligned
<1>. HIDE DEF p, q
<1>6. ASSUME NEW i \in 1..n PROVE ReadyAt(r, q, exact, i)
  <2>. DEFINE id == Id(q, i)
              pool == q.hops[i].pool
              token == q.path[i]
  <2>1. id \in ToSet(Order) /\ pool \in GoodPools
    BY <1>1, HopPool
  <2>2. ReadyAt(s, q, exact, i)
    BY DEF Ready, q
  <2>3. CASE id \notin Pools(p)
    BY <1>2, <2>1, <2>2, <2>3 DEF ReadyAt
  <2>4. CASE id \in Pools(p)
    <3>1. id \in Pools(q)
      BY <1>3 DEF Pools, Id
    <3>2. ~exact
      BY <1>4, <2>4, <3>1
    <3>3. PICK h \in 1..Len(p.hops) : Id(p, h) = id
      BY <1>3, <2>4 DEF Pools, Id
    <3>4. p.path[h] = token
      BY <1>3, <1>5, <3>2, <3>3 DEF Aligned, Id
    <3>5. NoBetter(r.pools[id], s.pools[id], token)
      BY <1>2, <3>3, <3>4
    <3>6. NoBetter(s.pools[id], pool, token)
      BY <2>2 DEF ReadyAt
    <3>7. r.pools[id] \in GoodPools /\ s.pools[id] \in GoodPools
      BY <1>2, <2>1 DEF Worlds
    <3>8. NoBetter(r.pools[id], pool, token)
      <4>. HIDE DEF id, pool, token
      <4>. QED
        BY <2>1, <3>5, <3>6, <3>7, NoBetterChain
    <3>. QED
      BY <3>2, <3>8 DEF ReadyAt
  <2>. QED
    BY <2>3, <2>4
<1>. QED
  BY <1>6 DEF Ready, q

(* What the first k legs of an answer promise has been paid, or less.      *)
InTurn(s, legs, exact, sum, k) ==
  /\ s \in Worlds /\ s.total <= sum[k] /\ (exact => s.total = sum[k])
  /\ ReadyFrom(s, legs, exact, k)

(* One leg more.                                                           *)
LEMMA NextLeg ==
  ASSUME PoolsOK, trades = 0, NEW legs \in Seq(QuoteSet(Seen)), AllHonest(legs),
         NEW exact \in BOOLEAN, Apart(legs, exact), NEW k \in 1..Len(legs), NEW s, NEW sum,
         InTurn(s, legs, exact, sum, k - 1), sum[k] \in Int, sum[k - 1] \in Int,
         sum[k] = sum[k - 1] + legs[k].amountOut
  PROVE  InTurn(ThroughLeg(s, legs[k]), legs, exact, sum, k)
<1>. DEFINE leg == legs[k]
            r == ThroughLeg(s, leg)
            n == Len(legs)
<1>1. n \in Nat /\ leg \in QuoteSet(Seen) /\ Honest(leg)
  BY LenProperties DEF AllHonest
<1>2. s \in Worlds /\ s.total <= sum[k - 1] /\ (exact => s.total = sum[k - 1])
      /\ \A j \in k..n : Ready(s, legs[j], exact)
  <2>1. (k - 1) + 1 = k
    BY <1>1
  <2>. QED
    BY <2>1 DEF InTurn, ReadyFrom
<1>3. Ready(s, leg, exact)
  BY <1>1, <1>2
<1>4. leg.amountOut \in Nat
  <2>1. Seen \in SUBSET GoodPools
    BY SeenFacts
  <2>. QED
    BY <1>1, <2>1, QuoteFields
<1>. HIDE DEF leg
<1>5. Paid(r, s, leg, exact)
  BY <1>1, <1>2, <1>3, ThroughLegFacts
<1>. HIDE DEF r
<1>6. ASSUME NEW j \in (k + 1)..n PROVE Ready(r, legs[j], exact)
  <2>1. j \in 1..n /\ j # k /\ j \in k..n
    BY <1>1
  <2>2. Ready(s, legs[j], exact)
    BY <1>2, <2>1
  <2>. QED
    BY <1>2, <1>5, <2>1, <2>2, OtherLeg DEF leg
<1>7. r \in Worlds /\ r.total <= s.total + leg.amountOut /\ (exact => r.total = s.total + leg.amountOut)
  BY <1>5 DEF Paid
<1>8. r.total \in Nat /\ s.total \in Nat
  BY <1>2, <1>7 DEF Worlds
<1>9. r.total <= sum[k] /\ (exact => r.total = sum[k])
  <2>1. sum[k] = sum[k - 1] + leg.amountOut /\ sum[k - 1] \in Int
    BY DEF leg
  <2>. QED
    BY <1>2, <1>4, <1>7, <1>8, <2>1
<1>. QED
  BY <1>6, <1>7, <1>9 DEF InTurn, ReadyFrom, r, leg

(* All legs together are paid what they promise, or no more than that.     *)
LEMMA PaidInTurnFacts ==
  ASSUME PoolsOK, trades = 0, NEW legs \in Seq(QuoteSet(Seen)), AllHonest(legs),
         NEW exact \in BOOLEAN, Apart(legs, exact)
  PROVE  /\ PaidInTurn(legs) <= Plus(AmountsOut(legs))
         /\ exact => PaidInTurn(legs) = Plus(AmountsOut(legs))
<1>. DEFINE m == Len(legs)
            start == [pools |-> pools, amount |-> 0, total |-> 0]
            Body(f) == [k \in 0..m |-> IF k = 0 THEN start ELSE ThroughLeg(f[k - 1], legs[k])]
            out == AmountsOut(legs)
<1>1. PaidInTurn(legs) = (CHOOSE f : f = Body(f))[m].total
  BY DEF PaidInTurn
<1>2. m \in Nat /\ DOMAIN legs = 1..m /\ \A k \in 1..m : legs[k] \in QuoteSet(Seen)
  BY LenProperties
<1>3. Seen \in SUBSET GoodPools
  BY SeenFacts
<1>4. out \in [1..m -> Int] /\ \A k \in 1..m : out[k] = legs[k].amountOut
  <2>1. \A k \in 1..m : legs[k].amountOut \in Int
    BY <1>2, <1>3, QuoteFields
  <2>. QED
    BY <1>2, <2>1 DEF AmountsOut
<1>. HIDE DEF out, m
<1>5. PICK sum \in [0..m -> Int] : Summed(sum, m, out) /\ Plus(out) = sum[m]
  BY <1>2, <1>4, PlusFacts
<1>6. start \in Worlds /\ start.pools = pools /\ start.total = 0
  BY DEF PoolsOK, Worlds
<1>7. ASSUME NEW j \in 1..m PROVE Ready(start, legs[j], exact)
  <2>. DEFINE q == legs[j]
  <2>1. q \in QuoteSet(Seen)
    BY <1>2
  <2>. HIDE DEF q
  <2>2. ASSUME NEW i \in 1..Len(q.hops) PROVE ReadyAt(start, q, exact, i)
    <3>1. q.hops[i].pool \in Seen /\ q.hops[i].pool \in GoodPools
      BY <1>3, <2>1, QuoteFields
    <3>2. start.pools[Id(q, i)] = q.hops[i].pool
      BY <1>6, <3>1, SeenFacts DEF Id
    <3>3. NoBetter(q.hops[i].pool, q.hops[i].pool, q.path[i])
      BY <3>1, NoBetterSame
    <3>. HIDE DEF start
    <3>. QED
      BY <3>2, <3>3 DEF ReadyAt
  <2>. HIDE DEF start
  <2>. QED
    BY <2>2 DEF Ready, q
<1>. HIDE DEF start
<1>8. InTurn(start, legs, exact, sum, 0)
  <2>1. sum[0] = 0
    BY <1>5 DEF Summed
  <2>2. 0 + 1 = 1
    OBVIOUS
  <2>3. ReadyFrom(start, legs, exact, 0)
    BY <1>7, <2>2 DEF ReadyFrom, m
  <2>. QED
    BY <1>6, <2>1, <2>3 DEF InTurn
<1>9. ASSUME NEW k \in 1..m, NEW s, InTurn(s, legs, exact, sum, k - 1)
      PROVE  InTurn(ThroughLeg(s, legs[k]), legs, exact, sum, k)
  <2>1. k \in 0..m /\ k - 1 \in 0..m
    BY <1>2
  <2>2. sum[k] \in Int /\ sum[k - 1] \in Int /\ sum[k] = sum[k - 1] + legs[k].amountOut
    BY <1>4, <1>5, <2>1 DEF Summed
  <2>. QED
    BY <1>9, <2>2, NextLeg DEF m
<1>. DEFINE then(k, s) == ThroughLeg(s, legs[k])
            G == [k \in 1..m |-> [s \in Worlds |-> IF then(k, s) \in Worlds THEN then(k, s) ELSE start]]
<1>10. \A k \in 1..m : \A s \in Worlds : InTurn(s, legs, exact, sum, k - 1) =>
         then(k, s) \in Worlds /\ InTurn(then(k, s), legs, exact, sum, k)
  <2>1. ASSUME NEW k \in 1..m, NEW s \in Worlds, InTurn(s, legs, exact, sum, k - 1)
        PROVE  InTurn(then(k, s), legs, exact, sum, k)
    BY <1>9, <2>1
  <2>. HIDE DEF then
  <2>2. \A x, k : InTurn(x, legs, exact, sum, k) => x \in Worlds
    BY DEF InTurn
  <2>. QED
    BY <2>1, <2>2
<1>11. \A f : Body(f) = [k \in 0..m |-> IF k = 0 THEN start ELSE then(k, f[k - 1])]
  OBVIOUS
<1>. HIDE DEF then
<1>12. G \in [1..m -> [Worlds -> Worlds]]
  BY <1>6
<1>13. PICK g \in [0..m -> Worlds] : Stepwise(g, m, start, G)
  <2>. HIDE DEF G
  <2>. QED
    BY <1>2, <1>6, <1>12, StepsExist, Zenon
<1>14. ASSUME NEW k \in 1..m
       PROVE  /\ k - 1 \in 0..m /\ k \in 0..m /\ k # 0 /\ g[k - 1] \in Worlds
              /\ g[k] = IF then(k, g[k - 1]) \in Worlds THEN then(k, g[k - 1]) ELSE start
  <2>1. k - 1 \in 0..m /\ k \in 0..m /\ k # 0
    BY <1>2
  <2>2. g[k - 1] \in Worlds
    BY <2>1
  <2>3. g[k] = G[k][g[k - 1]]
    <3>. HIDE DEF G
    <3>. QED
      BY <1>13 DEF Stepwise
  <2>4. G[k][g[k - 1]] = IF then(k, g[k - 1]) \in Worlds THEN then(k, g[k - 1]) ELSE start
    BY <2>2
  <2>. QED
    BY <2>1, <2>2, <2>3, <2>4
<1>. HIDE DEF G
<1>. DEFINE S == {k \in 0..m : InTurn(g[k], legs, exact, sum, k)}
<1>15. 0 \in S
  BY <1>2, <1>8, <1>13 DEF Stepwise
<1>16. ASSUME NEW k \in 1..m, k - 1 \in S PROVE k \in S
  <2>1. InTurn(g[k - 1], legs, exact, sum, k - 1)
    BY <1>16
  <2>. QED
    BY <1>10, <1>14, <2>1
<1>17. \A k \in 0..m : InTurn(g[k], legs, exact, sum, k)
  <2>. HIDE DEF S
  <2>1. \A k \in 0..m : k \in S
    BY <1>2, <1>15, <1>16, Counting
  <2>. QED
    BY <2>1 DEF S
<1>18. g = Body(g)
  <2>1. ASSUME NEW k \in 0..m PROVE g[k] = IF k = 0 THEN start ELSE then(k, g[k - 1])
    <3>1. CASE k = 0
      BY <1>13, <3>1 DEF Stepwise
    <3>2. CASE k # 0
      <4>1. k \in 1..m
        BY <1>2, <3>2
      <4>. QED
        BY <1>10, <1>14, <1>17, <3>2, <4>1
    <3>. QED
      BY <3>1, <3>2
  <2>2. g = [k \in 0..m |-> IF k = 0 THEN start ELSE then(k, g[k - 1])]
    BY <2>1
  <2>. HIDE DEF Body
  <2>. QED
    BY <1>11, <2>2
<1>19. PICK p : p = CHOOSE f : f = Body(f)
  OBVIOUS
<1>20. p = Body(p)
  <2>. HIDE DEF Body
  <2>. QED
    BY <1>18, <1>19
<1>21. p = [k \in 0..m |-> IF k = 0 THEN start ELSE then(k, p[k - 1])]
  <2>. HIDE DEF Body
  <2>. QED
    BY <1>11, <1>20
<1>22. PaidInTurn(legs) = p[m].total
  BY <1>1, <1>19
<1>. HIDE DEF Body
<1>23. p[0] = start /\ \A k \in 1..m : p[k] = then(k, p[k - 1])
  <2>1. 0 \in 0..m
    BY <1>2
  <2>2. \A k \in 1..m : k \in 0..m /\ k # 0
    BY <1>2
  <2>3. \A k \in 0..m : p[k] = IF k = 0 THEN start ELSE then(k, p[k - 1])
    BY <1>21, Zenon
  <2>. QED
    BY <2>1, <2>2, <2>3
<1>. DEFINE T == {k \in 0..m : InTurn(p[k], legs, exact, sum, k)}
<1>24. 0 \in T
  BY <1>2, <1>8, <1>23
<1>25. ASSUME NEW k \in 1..m, k - 1 \in T PROVE k \in T
  <2>1. InTurn(p[k - 1], legs, exact, sum, k - 1) /\ k \in 0..m
    BY <1>14, <1>25
  <2>2. p[k - 1] \in Worlds
    BY <2>1 DEF InTurn
  <2>. QED
    BY <1>10, <1>23, <2>1, <2>2
<1>26. InTurn(p[m], legs, exact, sum, m)
  <2>. HIDE DEF T
  <2>1. \A k \in 0..m : k \in T
    BY <1>2, <1>24, <1>25, Counting
  <2>. QED
    BY <1>2, <2>1 DEF T
<1>27. p[m].total <= sum[m] /\ (exact => p[m].total = sum[m])
  BY <1>26 DEF InTurn
<1>. QED
  BY <1>5, <1>22, <1>27 DEF out

(* An answer promises what its legs do.                                    *)
LEMMA AnswerAmount ==
  ASSUME IInv, answer.kind = "quote"
  PROVE  answer.best.amountOut = Plus(AmountsOut(answer.best.legs))
<1>. DEFINE s == answer.best
            q == s.legs[1]
<1>1. \/ q \in Kept /\ s = Single(q)
      \/ Divided(s, ask.amount, Seen)
  BY AnswerLegs DEF GoodAnswer
<1>2. CASE q \in Kept /\ s = Single(q)
  <2>. DEFINE only == AmountsOut(<<q>>)
  <2>1. q \in QuoteSet(Seen) /\ Seen \in SUBSET GoodPools
    BY <1>2, SeenFacts DEF IInv, Kept
  <2>2. q.amountOut \in Int
    BY <2>1, QuoteFields
  <2>. HIDE DEF q, s
  <2>3. s.amountOut = q.amountOut /\ s.legs = <<q>>
    BY <1>2 DEF Single
  <2>4. only \in [1..1 -> Int] /\ only[1] = q.amountOut
    BY <2>2 DEF AmountsOut
  <2>. HIDE DEF only
  <2>5. PICK p \in [0..1 -> Int] : Summed(p, 1, only) /\ Plus(only) = p[1]
    BY <2>4, PlusFacts
  <2>6. p[1] = p[0] + only[1] /\ p[0] = 0
    <3>1. 1 \in 1..1 /\ 1 - 1 = 0
      OBVIOUS
    <3>. QED
      BY <2>5, <3>1 DEF Summed
  <2>7. Plus(only) = q.amountOut
    BY <2>2, <2>4, <2>5, <2>6
  <2>. QED
    BY <2>3, <2>7 DEF s, only
<1>3. CASE Divided(s, ask.amount, Seen)
  BY <1>3 DEF Divided
<1>. QED
  BY <1>1, <1>2, <1>3

(* If nobody trades meanwhile, every leg of a checked answer is paid what  *)
(* getBestQuoteForTokens answers for it, to the last unit, whatever could  *)
(* be read and whichever quoter calls failed; the legs together are paid   *)
(* the answer if they share no pool, and no more than it if they go the    *)
(* same way through V2 pools they share.                                   *)
THEOREM QuotesAreHonest == Spec => []QuoteHonest
<1>1. IInv => QuoteHonest
  <2>. SUFFICES ASSUME IInv, answer.kind = "quote", answer.checked, trades = 0
                PROVE  LET legs == answer.best.legs IN
                         /\ \A i \in DOMAIN legs : PaidNow(legs[i]) = legs[i].amountOut
                         /\ Disjoint(legs) => PaidInTurn(legs) = answer.best.amountOut
                         /\ AllAligned(legs) => PaidInTurn(legs) <= answer.best.amountOut
    BY DEF QuoteHonest
  <2>. DEFINE legs == answer.best.legs
  <2>1. PoolsOK
    BY DEF IInv
  <2>2. legs \in Seq(QuoteSet(Seen)) /\ DOMAIN legs = 1..Len(legs) /\ AllHonest(legs)
    BY AnswerLegs DEF GoodAnswer, AllHonest
  <2>3. answer.best.amountOut = Plus(AmountsOut(legs))
    BY AnswerAmount
  <2>. HIDE DEF legs
  <2>4. \A i \in DOMAIN legs : PaidNow(legs[i]) = legs[i].amountOut
    <3>1. \A i \in DOMAIN legs : legs[i] \in QuoteSet(Seen) /\ Honest(legs[i])
      BY <2>2 DEF AllHonest
    <3>. QED
      BY <2>1, <3>1, PaidNowFacts
  <2>5. ASSUME Disjoint(legs) PROVE PaidInTurn(legs) = Plus(AmountsOut(legs))
    <3>1. Apart(legs, TRUE)
      BY <2>5 DEF Apart
    <3>. QED
      BY <2>1, <2>2, <3>1, PaidInTurnFacts
  <2>6. ASSUME AllAligned(legs) PROVE PaidInTurn(legs) <= Plus(AmountsOut(legs))
    <3>1. Apart(legs, FALSE)
      BY <2>6 DEF Apart
    <3>. QED
      BY <2>1, <2>2, <3>1, PaidInTurnFacts
  <2>. QED
    BY <2>3, <2>4, <2>5, <2>6 DEF legs
<1>. QED
  BY <1>1, Invariance, PTL

-----------------------------------------------------------------------------
(* Every step of a request leaves less to do.                              *)

(* What is validated is not through: some route has hops left.             *)
Going ==
  /\ multi.stage = "validating" => Validating(multi.validation)
  /\ answer = Nothing /\ split # Nothing => Validating(split.validation)

Longest(routes) == Max({Len(routes[r].hops) : r \in DOMAIN routes})

(* There is a longest route, no longer than the search goes, and what is   *)
(* validated is not through until all its hops are.                        *)
LEMMA HopsLeftFacts ==
  ASSUME NEW PS \in SUBSET GoodPools, NEW v, v.routes \in Seq(QuoteSet(PS)), SomeV3(v.routes), v.hop \in Nat
  PROVE  /\ Longest(v.routes) \in 1..(MaxHopDepth + 1)
         /\ HopsLeft(v) = Longest(v.routes) + 1 - v.hop
         /\ Validating(v) <=> v.hop <= Longest(v.routes)
<1>. DEFINE routes == v.routes
            n == Len(routes)
            L == {Len(routes[r].hops) : r \in DOMAIN routes}
            top == MaxHopDepth + 1
            Gaps == {k \in Nat : top - k \in L}
<1>1. DOMAIN routes = 1..n /\ n \in Nat /\ \A r \in 1..n : routes[r] \in QuoteSet(PS)
  BY LenProperties
<1>2. top \in Nat
  BY RouteSearchAssumption
<1>. HIDE DEF top
<1>3. \A r \in 1..n : Len(routes[r].hops) \in 1..top
  BY <1>1, <1>2, QuoteFields DEF top
<1>4. L \in SUBSET (1..top) /\ L # {}
  <2>1. \E r \in DOMAIN routes : TRUE
    BY DEF SomeV3
  <2>. HIDE DEF routes, n
  <2>. QED
    BY <1>1, <1>3, <2>1
<1>5. \A r \in DOMAIN routes : Len(routes[r].hops) \in L
  OBVIOUS
<1>6. \A x \in L : \E r \in DOMAIN routes : x = Len(routes[r].hops)
  OBVIOUS
<1>7. Longest(routes) = Max(L)
  BY DEF Longest
<1>. HIDE DEF L
<1>8. \A x \in L : top - x \in Gaps /\ x \in 1..top
  <2>1. \A x \in 1..top : top - x \in Nat /\ top - (top - x) = x
    BY <1>2
  <2>. QED
    BY <1>4, <2>1
<1>9. PICK k \in Gaps : \A j \in Gaps : k <= j
  <2>1. Gaps \in SUBSET Nat /\ Gaps # {}
    <3>. HIDE DEF Gaps
    <3>1. Gaps # {}
      BY <1>4, <1>8
    <3>2. Gaps \in SUBSET Nat
      BY DEF Gaps
    <3>. QED
      BY <3>1, <3>2
  <2>. HIDE DEF Gaps
  <2>. QED
    BY <2>1, LeastNatural
<1>10. k \in Nat /\ top - k \in L
  OBVIOUS
<1>. HIDE DEF Gaps
<1>11. \A x \in L : top - k >= x
  <2>1. ASSUME NEW x \in L PROVE top - k >= x
    <3>1. k <= top - x /\ x \in 1..top
      BY <1>8, <1>9
    <3>. QED
      BY <1>2, <1>10, <3>1
  <2>. QED
    BY <2>1
<1>12. Max(L) \in L /\ \A x \in L : Max(L) >= x
  <2>1. \E m \in L : \A x \in L : m >= x
    BY <1>10, <1>11
  <2>. QED
    BY <2>1, Zenon DEF Max
<1>. DEFINE m == Longest(routes)
<1>13. m \in 1..top /\ (\E r \in DOMAIN routes : m = Len(routes[r].hops))
       /\ \A r \in DOMAIN routes : m >= Len(routes[r].hops)
  BY <1>4, <1>5, <1>6, <1>7, <1>12, Zenon
<1>14. HopsLeft(v) = m + 1 - v.hop
  BY DEF HopsLeft, Longest
<1>15. Validating(v) <=> v.hop <= m
  <2>1. Validating(v) <=> \E r \in DOMAIN routes : v.hop <= Len(routes[r].hops)
    BY DEF Validating, SomeV3
  <2>2. \A r \in DOMAIN routes : Len(routes[r].hops) \in Nat
    BY <1>1, <1>2, <1>3
  <2>. HIDE DEF m, routes
  <2>. QED
    BY <1>13, <2>1, <2>2
<1>. QED
  BY <1>13, <1>14, <1>15 DEF top

(* What a validation is about, for the lemma above.                        *)
LEMMA MultiRoutes ==
  ASSUME IInv, multi.stage = "validating"
  PROVE  /\ multi.validation.routes \in Seq(QuoteSet(Seen)) /\ SomeV3(multi.validation.routes)
         /\ multi.validation.hop \in Nat /\ Seen \in SUBSET GoodPools
BY SeenFacts DEF IInv, MultiOK, ValidationOK

(* The same of a split that is validated again.                            *)
LEMMA SplitRoutes ==
  ASSUME IInv, split # Nothing
  PROVE  /\ split.validation.routes \in Seq(QuoteSet(Seen)) /\ SomeV3(split.validation.routes)
         /\ split.validation.hop \in Nat /\ Seen \in SUBSET GoodPools
BY SeenFacts DEF IInv, SplitOK, ValidationOK

(* What is validated first.                                                *)
LEMMA StartsValidating ==
  ASSUME NEW PS \in SUBSET GoodPools, NEW routes \in Seq(QuoteSet(PS)), SomeV3(routes)
  PROVE  /\ Validating(Validation(routes)) /\ HopsLeft(Validation(routes)) <= MaxHopDepth + 1
         /\ HopsLeft(Validation(routes)) \in Nat
<1>. DEFINE v == Validation(routes)
            m == Longest(routes)
<1>1. v.routes = routes /\ v.hop = 1
  BY DEF Validation
<1>. HIDE DEF v
<1>2. m \in 1..(MaxHopDepth + 1) /\ HopsLeft(v) = m + 1 - 1 /\ (Validating(v) <=> 1 <= m)
  BY <1>1, HopsLeftFacts
<1>. HIDE DEF m
<1>3. MaxHopDepth \in Nat
  BY RouteSearchAssumption
<1>. QED
  BY <1>2, <1>3 DEF v

(* A validation that is under way has hops left: none is at first, ...     *)
LEMMA GoingInit ==
  ASSUME Init
  PROVE  Going
BY DEF Init, Going

(* ... a round ends the stage if it was the last, ...                      *)
LEMMA GoingOn ==
  ASSUME IInv, Going, MultiValidated
  PROVE  Going'
<1>1. UNCHANGED <<split, answer>>
  BY DEF MultiValidated
<1>2. PICK lost :
        LET v == HopValidated(multi.validation, Quoted(multi.validation, lost))
        IN multi' = IF Validating(v) THEN [multi EXCEPT !.validation = v]
                    ELSE [multi EXCEPT !.validation = v, !.stage = "done", !.quotes = @ \o Validated(v)]
  BY DEF MultiValidated
<1>. DEFINE v == HopValidated(multi.validation, Quoted(multi.validation, lost))
            all == multi.quotes \o Validated(v)
<1>3. multi' = IF Validating(v) THEN [multi EXCEPT !.validation = v]
               ELSE [multi EXCEPT !.validation = v, !.stage = "done", !.quotes = all]
  BY <1>2
<1>. HIDE DEF v, all
<1>4. multi = [stage |-> multi.stage, quotes |-> multi.quotes, validation |-> multi.validation,
               search |-> multi.search]
  BY DEF IInv, MultiOK
<1>5. multi'.stage = "validating" => Validating(multi'.validation)
  BY <1>3, <1>4
<1>. QED
  BY <1>1, <1>5 DEF Going

(* ... and so does every step.                                             *)
LEMMA GoingNext ==
  ASSUME IInv, IInv', Going, [Next]_vars
  PROVE  Going'
<1>1. ASSUME UNCHANGED <<multi, split>>, UNCHANGED answer \/ answer' = Wrong PROVE Going'
  <2>1. answer' = Nothing => answer = Nothing
    BY <1>1 DEF Wrong, Nothing
  <2>. QED
    BY <1>1, <2>1 DEF Going
<1>2. CASE MultiRead
  <2>1. UNCHANGED <<split, answer>>
    BY <1>2 DEF MultiRead
  <2>2. ASSUME multi'.stage = "validating" PROVE Validating(multi'.validation)
    <3>1. PICK routes : multi'.validation = Validation(routes)
      BY <1>2 DEF MultiRead
    <3>2. /\ multi'.validation.routes \in Seq(QuoteSet(Seen')) /\ SomeV3(multi'.validation.routes)
          /\ Seen' \in SUBSET GoodPools
      <4>1. Seen' = Seen /\ Seen \in SUBSET GoodPools
        BY <1>2, SamePools, SeenFacts DEF MultiRead, IInv
      <4>. QED
        BY <2>2, <4>1 DEF IInv, MultiOK, ValidationOK
    <3>3. Validation(routes).routes = routes
      BY DEF Validation
    <3>. QED
      BY <3>1, <3>2, <3>3, StartsValidating
  <2>. QED
    BY <2>1, <2>2 DEF Going
<1>3. CASE MultiValidated
  BY <1>3, GoingOn
<1>4. CASE Decide
  <2>1. UNCHANGED multi /\ answer = Nothing /\ split = Nothing
    BY <1>4 DEF Decide, Deciding
  <2>2. answer' = Nothing => split' = Nothing \/ Validating(split'.validation)
    BY <1>4, <2>1 DEF Decide, Answered, Nothing
  <2>. QED
    BY <2>1, <2>2 DEF Going
<1>5. CASE SplitValidated
  <2>1. UNCHANGED multi /\ answer = Nothing /\ split # Nothing
    BY <1>5 DEF SplitValidated
  <2>2. PICK v : IF Validating(v) THEN split' = [split EXCEPT !.validation = v]
                 ELSE \E best, sorted, checked : Answered(best, sorted, checked)
    BY <1>5 DEF SplitValidated
  <2>3. split = [chosen |-> split.chosen, validation |-> split.validation]
    BY <2>1 DEF IInv, SplitOK
  <2>4. CASE Validating(v)
    BY <2>1, <2>2, <2>3, <2>4 DEF Going
  <2>5. CASE ~Validating(v)
    <3>1. PICK best, sorted, checked : Answered(best, sorted, checked)
      BY <2>2, <2>5
    <3>2. answer'.kind = "quote" /\ Nothing.kind = "none"
      BY <3>1 DEF Answered, Nothing
    <3>. QED
      BY <2>1, <3>2 DEF Going
  <2>. QED
    BY <2>4, <2>5
<1>6. CASE DirectRead
  BY <1>1, <1>6 DEF DirectRead
<1>7. CASE DirectQuoted
  BY <1>1, <1>7 DEF DirectQuoted
<1>8. CASE ReadFails
  BY <1>1, <1>8 DEF ReadFails
<1>9. CASE \E id \in Traded : Trade(id)
  BY <1>1, <1>9 DEF Trade
<1>10. CASE UNCHANGED vars
  BY <1>1, <1>10 DEF vars
<1>. QED
  BY <1>2, <1>3, <1>4, <1>5, <1>6, <1>7, <1>8, <1>9, <1>10 DEF Next, Ended

(* A split is not mistaken for none.                                       *)
LEMMA SplitNotNothing ==
  ASSUME NEW chosen, NEW validation
  PROVE  [chosen |-> chosen, validation |-> validation] # Nothing
<1>. DEFINE s == [chosen |-> chosen, validation |-> validation]
<1>1. DOMAIN s = {"chosen", "validation"} /\ DOMAIN Nothing = {"kind"}
  BY DEF Nothing
<1>. HIDE DEF s, Nothing
<1>2. s # Nothing
  BY <1>1
<1>. QED
  BY <1>2 DEF s

(* The three parts of what is left to do.                                  *)
DirectLeft == CASE direct.stage = "reading" -> 2 [] direct.stage = "quoting" -> 1 [] OTHER -> 0

MultiLeft ==
  CASE multi.stage = "reading" -> MaxHopDepth + 2
    [] multi.stage = "validating" -> HopsLeft(multi.validation) [] OTHER -> 0

SplitLeft == IF split = Nothing THEN MaxHopDepth + 2 ELSE HopsLeft(split.validation)

(* They make up Work, and none is negative while there is no answer.       *)
LEMMA WorkParts ==
  ASSUME IInv, Going
  PROVE  /\ Work = IF answer # Nothing THEN 0 ELSE 1 + DirectLeft + MultiLeft + SplitLeft
         /\ DirectLeft \in 0..2 /\ MultiLeft \in Nat /\ SplitLeft \in Int
         /\ answer = Nothing => SplitLeft \in Nat
<1>1. Work = IF answer # Nothing THEN 0 ELSE 1 + DirectLeft + MultiLeft + SplitLeft
  BY DEF Work, DirectLeft, MultiLeft, SplitLeft
<1>2. DirectLeft \in 0..2
  BY DEF DirectLeft
<1>3. MaxHopDepth \in Nat
  BY RouteSearchAssumption
<1>4. MultiLeft \in Nat
  <2>1. ASSUME multi.stage = "validating" PROVE HopsLeft(multi.validation) \in Nat
    <3>. DEFINE v == multi.validation
    <3>1. /\ v.hop \in Nat /\ v.hop <= Longest(v.routes) /\ Longest(v.routes) \in 1..(MaxHopDepth + 1)
          /\ HopsLeft(v) = Longest(v.routes) + 1 - v.hop
      BY <2>1, MultiRoutes, HopsLeftFacts DEF Going
    <3>. HIDE DEF v
    <3>. QED
      BY <1>3, <3>1 DEF v
  <2>. QED
    BY <1>3, <2>1 DEF MultiLeft
<1>5. SplitLeft \in Int /\ (answer = Nothing => SplitLeft \in Nat)
  <2>1. ASSUME split # Nothing
        PROVE  /\ HopsLeft(split.validation) \in Int
               /\ answer = Nothing => HopsLeft(split.validation) \in Nat
    <3>. DEFINE v == split.validation
    <3>1. /\ v.hop \in Nat /\ Longest(v.routes) \in 1..(MaxHopDepth + 1)
          /\ HopsLeft(v) = Longest(v.routes) + 1 - v.hop
          /\ answer = Nothing => v.hop <= Longest(v.routes)
      BY <2>1, SplitRoutes, HopsLeftFacts DEF Going
    <3>. HIDE DEF v
    <3>. QED
      BY <1>3, <3>1 DEF v
  <2>. QED
    BY <1>3, <2>1 DEF SplitLeft
<1>. QED
  BY <1>1, <1>2, <1>4, <1>5

(* The next hop of a validation leaves one less.                           *)
LEMMA OneHopLess ==
  ASSUME NEW v, v.routes \in Seq(QuoteSet(Seen)), SomeV3(v.routes), v.hop \in Nat,
         NEW honest \in BOOLEAN, ValidationOK(v, Seen, honest), PoolsOK, NEW quoted
  PROVE  /\ HopsLeft(HopValidated(v, quoted)) = HopsLeft(v) - 1 /\ HopsLeft(v) \in Int
         /\ Validating(v) => HopsLeft(v) >= 1
<1>. DEFINE w == HopValidated(v, quoted)
            m == Longest(v.routes)
<1>1. Seen \in SUBSET GoodPools
  BY SeenFacts
<1>2. w.routes = v.routes /\ w.hop = v.hop + 1 /\ w.hop \in Nat
  <2>1. PICK valid, failed : w = [routes |-> v.routes, hop |-> v.hop + 1, valid |-> valid, failed |-> failed]
    BY <1>1, HopValidatedFields
  <2>. QED
    BY <2>1
<1>. HIDE DEF w
<1>3. m \in 1..(MaxHopDepth + 1) /\ HopsLeft(v) = m + 1 - v.hop /\ (Validating(v) <=> v.hop <= m)
  BY <1>1, HopsLeftFacts
<1>4. HopsLeft(w) = m + 1 - (v.hop + 1)
  BY <1>1, <1>2, HopsLeftFacts
<1>. HIDE DEF m
<1>5. MaxHopDepth \in Nat
  BY RouteSearchAssumption
<1>. QED
  BY <1>3, <1>4, <1>5 DEF w

(* An answer leaves nothing to do.                                         *)
LEMMA AnswerEnds ==
  ASSUME IInv, Going, answer = Nothing, answer' # Nothing
  PROVE  Work' < Work
<1>1. Work' = 0
  BY DEF Work
<1>2. Work \in Nat /\ Work > 0
  BY WorkParts
<1>. QED
  BY <1>1, <1>2

(* Of sums, if no part is more and one is less.                            *)
LEMMA LessSum ==
  ASSUME NEW a \in Int, NEW b \in Int, NEW c \in Int, NEW d \in Int, NEW e \in Int, NEW f \in Int,
         a <= d, b <= e, c <= f, a < d \/ b < e \/ c < f
  PROVE  1 + a + b + c < 1 + d + e + f
OBVIOUS

(* Less of one part, and no more of the others, is less.                   *)
LEMMA LessLeft ==
  ASSUME IInv, Going, answer = Nothing, UNCHANGED answer,
         DirectLeft' \in Int, MultiLeft' \in Int, SplitLeft' \in Int,
         DirectLeft' <= DirectLeft, MultiLeft' <= MultiLeft, SplitLeft' <= SplitLeft,
         DirectLeft' < DirectLeft \/ MultiLeft' < MultiLeft \/ SplitLeft' < SplitLeft
  PROVE  Work' < Work
<1>1. Work' = 1 + DirectLeft' + MultiLeft' + SplitLeft'
  BY DEF Work, DirectLeft, MultiLeft, SplitLeft
<1>2. /\ Work = 1 + DirectLeft + MultiLeft + SplitLeft
      /\ DirectLeft \in Int /\ MultiLeft \in Int /\ SplitLeft \in Int
  BY WorkParts
<1>3. PICK a, b, c : a = DirectLeft' /\ b = MultiLeft' /\ c = SplitLeft'
  OBVIOUS
<1>4. PICK d, e, f : d = DirectLeft /\ e = MultiLeft /\ f = SplitLeft
  OBVIOUS
<1>5. 1 + a + b + c < 1 + d + e + f
  <2>1. /\ a \in Int /\ b \in Int /\ c \in Int /\ d \in Int /\ e \in Int /\ f \in Int
        /\ a <= d /\ b <= e /\ c <= f
        /\ a < d \/ b < e \/ c < f
    BY <1>2, <1>3, <1>4, Zenon
  <2>. QED
    BY <2>1, LessSum
<1>. QED
  BY <1>1, <1>2, <1>3, <1>4, <1>5, Zenon

(* Of a part that stays as it is there is no more.                         *)
LEMMA SameLeft ==
  ASSUME NEW a, NEW b \in Int, a = b
  PROVE  a \in Int /\ a <= b
OBVIOUS

(* The reads of the direct pools, and their quotes, ...                    *)
LEMMA DirectEnds ==
  ASSUME IInv, Going, DirectRead \/ DirectQuoted
  PROVE  Work' < Work
<1>1. answer = Nothing /\ UNCHANGED <<multi, split, answer>>
  BY DEF DirectRead, DirectQuoted
<1>2. DirectLeft' \in Int /\ DirectLeft \in Int /\ DirectLeft' < DirectLeft
  <2>1. CASE DirectRead
    <3>1. direct.stage = "reading" /\ direct'.stage \in {"done", "quoting"}
      <4>1. direct.stage = "reading"
        BY <2>1 DEF DirectRead
      <4>2. PICK stage, v3, quotes :
              direct' = [stage |-> IF v3 = << >> THEN "done" ELSE "quoting", v3 |-> v3, quotes |-> quotes]
        BY <2>1 DEF DirectRead
      <4>. QED
        BY <4>1, <4>2
    <3>. QED
      BY <3>1 DEF DirectLeft
  <2>2. CASE DirectQuoted
    <3>1. direct = [stage |-> direct.stage, v3 |-> direct.v3, quotes |-> direct.quotes]
      BY DEF IInv, DirectOK
    <3>2. direct.stage = "quoting"
      BY <2>2 DEF DirectQuoted
    <3>3. PICK quotes : direct' = [direct EXCEPT !.stage = "done", !.quotes = quotes]
      BY <2>2 DEF DirectQuoted
    <3>4. direct'.stage = "done"
      BY <3>1, <3>3
    <3>. QED
      BY <3>2, <3>4 DEF DirectLeft
  <2>. QED
    BY <2>1, <2>2
<1>3. MultiLeft' = MultiLeft /\ SplitLeft' = SplitLeft
  BY <1>1 DEF MultiLeft, SplitLeft
<1>4. MultiLeft \in Int /\ SplitLeft \in Int
  BY WorkParts
<1>5. MultiLeft' \in Int /\ MultiLeft' <= MultiLeft /\ SplitLeft' \in Int /\ SplitLeft' <= SplitLeft
  BY <1>3, <1>4, SameLeft, Zenon
<1>6. DirectLeft' <= DirectLeft
  BY <1>2
<1>. QED
  BY <1>1, <1>2, <1>5, <1>6, LessLeft

(* ... the search of longer routes, ...                                    *)
LEMMA SearchEnds ==
  ASSUME IInv, IInv', Going, MultiRead
  PROVE  Work' < Work
<1>1. answer = Nothing /\ UNCHANGED <<pools, trades, direct, split, answer>> /\ multi.stage = "reading"
  BY DEF MultiRead
<1>2. PICK routes, quotes, search :
        multi' = [ stage |-> IF routes = << >> THEN "done" ELSE "validating", quotes |-> quotes,
                   validation |-> Validation(routes), search |-> search ]
  BY DEF MultiRead
<1>3. MaxHopDepth \in Nat
  BY RouteSearchAssumption
<1>4. MultiLeft = MaxHopDepth + 2
  BY <1>1 DEF MultiLeft
<1>5. MultiLeft' \in Nat /\ MultiLeft' <= MaxHopDepth + 1
  <2>1. multi'.stage = (IF routes = << >> THEN "done" ELSE "validating")
        /\ multi'.validation = Validation(routes)
    BY <1>2
  <2>2. CASE routes = << >>
    BY <1>3, <2>1, <2>2 DEF MultiLeft
  <2>3. CASE routes # << >>
    <3>1. multi'.stage = "validating"
      BY <2>1, <2>3
    <3>2. multi'.validation.routes \in Seq(QuoteSet(Seen')) /\ SomeV3(multi'.validation.routes)
      BY <3>1 DEF IInv, MultiOK, ValidationOK
    <3>3. Seen' = Seen /\ Seen \in SUBSET GoodPools
      BY <1>1, SamePools, SeenFacts DEF IInv
    <3>4. multi'.validation.routes = routes
      BY <2>1 DEF Validation
    <3>5. HopsLeft(Validation(routes)) \in Nat /\ HopsLeft(Validation(routes)) <= MaxHopDepth + 1
      BY <3>2, <3>3, <3>4, StartsValidating
    <3>. QED
      BY <2>1, <3>1, <3>5 DEF MultiLeft
  <2>. QED
    BY <2>2, <2>3
<1>6. DirectLeft' = DirectLeft /\ SplitLeft' = SplitLeft
  BY <1>1 DEF DirectLeft, SplitLeft
<1>7. DirectLeft \in Int /\ SplitLeft \in Int
  BY WorkParts
<1>8. DirectLeft' \in Int /\ DirectLeft' <= DirectLeft /\ SplitLeft' \in Int /\ SplitLeft' <= SplitLeft
  BY <1>6, <1>7, SameLeft, Zenon
<1>9. MultiLeft' \in Int /\ MultiLeft' < MultiLeft /\ MultiLeft' <= MultiLeft
  BY <1>3, <1>4, <1>5
<1>. QED
  BY <1>1, <1>8, <1>9, LessLeft

(* ... each round of their validation, ...                                 *)
LEMMA ValidationEnds ==
  ASSUME IInv, Going, MultiValidated
  PROVE  Work' < Work
<1>1. answer = Nothing /\ UNCHANGED <<direct, split, answer>> /\ multi.stage = "validating"
  BY DEF MultiValidated
<1>2. PICK lost :
        LET v == HopValidated(multi.validation, Quoted(multi.validation, lost))
        IN multi' = IF Validating(v) THEN [multi EXCEPT !.validation = v]
                    ELSE [multi EXCEPT !.validation = v, !.stage = "done", !.quotes = @ \o Validated(v)]
  BY DEF MultiValidated
<1>. DEFINE u == multi.validation
            v == HopValidated(u, Quoted(u, lost))
            all == multi.quotes \o Validated(v)
<1>3. multi' = IF Validating(v) THEN [multi EXCEPT !.validation = v]
               ELSE [multi EXCEPT !.validation = v, !.stage = "done", !.quotes = all]
  BY <1>2
<1>4. HopsLeft(v) = HopsLeft(u) - 1 /\ HopsLeft(u) \in Int /\ HopsLeft(u) >= 1
  <2>1. (trades = 0) \in BOOLEAN /\ ValidationOK(u, Seen, trades = 0) /\ PoolsOK
    BY DEF IInv, MultiOK
  <2>2. Validating(u)
    BY <1>1 DEF Going
  <2>. HIDE DEF u
  <2>3. u.routes \in Seq(QuoteSet(Seen)) /\ SomeV3(u.routes) /\ u.hop \in Nat
    BY <1>1, MultiRoutes DEF u
  <2>. QED
    BY <2>1, <2>2, <2>3, OneHopLess
<1>. HIDE DEF v, all
<1>5. multi = [stage |-> multi.stage, quotes |-> multi.quotes, validation |-> multi.validation,
               search |-> multi.search]
  BY DEF IInv, MultiOK
<1>6. /\ Validating(v) => multi'.stage = "validating" /\ multi'.validation = v
      /\ ~Validating(v) => multi'.stage = "done"
  BY <1>1, <1>3, <1>5
<1>7. MultiLeft = HopsLeft(u)
  BY <1>1 DEF MultiLeft
<1>8. MultiLeft' = IF Validating(v) THEN HopsLeft(v) ELSE 0
  BY <1>6 DEF MultiLeft
<1>. HIDE DEF u
<1>9. MultiLeft' \in Int /\ MultiLeft \in Int /\ MultiLeft' < MultiLeft
  BY <1>4, <1>7, <1>8
<1>10. DirectLeft' = DirectLeft /\ SplitLeft' = SplitLeft
  BY <1>1 DEF DirectLeft, SplitLeft
<1>11. DirectLeft \in Int /\ SplitLeft \in Int
  BY WorkParts
<1>12. DirectLeft' \in Int /\ DirectLeft' <= DirectLeft /\ SplitLeft' \in Int /\ SplitLeft' <= SplitLeft
  BY <1>10, <1>11, SameLeft, Zenon
<1>13. MultiLeft' <= MultiLeft
  BY <1>9
<1>. QED
  BY <1>1, <1>9, <1>12, <1>13, LessLeft

(* ... the decision, unless it answers, ...                                *)
LEMMA DecisionEnds ==
  ASSUME IInv, IInv', Going, Decide
  PROVE  Work' < Work
<1>1. answer = Nothing /\ UNCHANGED <<pools, trades, direct, multi>> /\ split = Nothing
  BY DEF Decide, Deciding
<1>2. \/ answer'.kind \in {"null", "quote"}
      \/ UNCHANGED answer /\ \E best : /\ split' = [chosen |-> best, validation |-> Validation(best.legs)]
                                     /\ Validating(Validation(best.legs))
  BY DEF Decide, Answered
<1>3. CASE answer'.kind \in {"null", "quote"}
  <2>1. answer' # Nothing
    BY <1>3 DEF Nothing
  <2>. QED
    BY <1>1, <2>1, AnswerEnds
<1>4. ASSUME UNCHANGED answer, NEW best, Validating(Validation(best.legs)),
             split' = [chosen |-> best, validation |-> Validation(best.legs)]
      PROVE  Work' < Work
  <2>1. split'.validation = Validation(best.legs)
    BY <1>4
  <2>2. split' # Nothing
    BY <1>4, SplitNotNothing
  <2>3. split'.validation.routes \in Seq(QuoteSet(Seen')) /\ SomeV3(split'.validation.routes)
    BY <2>2 DEF IInv, SplitOK, ValidationOK
  <2>4. Seen' = Seen /\ Seen \in SUBSET GoodPools
    BY <1>1, SamePools, SeenFacts DEF IInv
  <2>5. split'.validation.routes = best.legs
    BY <2>1 DEF Validation
  <2>6. HopsLeft(Validation(best.legs)) \in Nat /\ HopsLeft(Validation(best.legs)) <= MaxHopDepth + 1
    BY <2>3, <2>4, <2>5, StartsValidating
  <2>7. MaxHopDepth \in Nat
    BY RouteSearchAssumption
  <2>8. SplitLeft = MaxHopDepth + 2 /\ SplitLeft' = HopsLeft(Validation(best.legs))
    BY <1>1, <2>1, <2>2 DEF SplitLeft
  <2>9. DirectLeft' = DirectLeft /\ MultiLeft' = MultiLeft
    BY <1>1 DEF DirectLeft, MultiLeft
  <2>10. DirectLeft \in Int /\ MultiLeft \in Int
    BY WorkParts
  <2>11. DirectLeft' \in Int /\ DirectLeft' <= DirectLeft /\ MultiLeft' \in Int /\ MultiLeft' <= MultiLeft
    BY <2>9, <2>10, SameLeft, Zenon
  <2>12. SplitLeft' \in Int /\ SplitLeft' < SplitLeft /\ SplitLeft' <= SplitLeft
    BY <2>6, <2>7, <2>8
  <2>. QED
    BY <1>1, <1>4, <2>11, <2>12, LessLeft
<1>. QED
  BY <1>2, <1>3, <1>4

(* ... and each round of the split's validation, the last of which answers.*)
LEMMA RevalidationEnds ==
  ASSUME IInv, Going, SplitValidated
  PROVE  Work' < Work
<1>1. answer = Nothing /\ UNCHANGED <<direct, multi>> /\ split # Nothing
  BY DEF SplitValidated
<1>2. PICK lost :
        LET v == HopValidated(split.validation, Quoted(split.validation, lost))
        IN IF Validating(v) THEN split' = [split EXCEPT !.validation = v] /\ UNCHANGED answer
           ELSE /\ Answered(IF Revalidated(v) = None THEN split.chosen ELSE Revalidated(v),
                            Sorted, Revalidated(v) # None)
                /\ split' = [split EXCEPT !.validation = v]
  BY DEF SplitValidated
<1>. DEFINE u == split.validation
            v == HopValidated(u, Quoted(u, lost))
<1>3. HopsLeft(v) = HopsLeft(u) - 1 /\ HopsLeft(u) \in Int
  <2>1. (trades = 0) \in BOOLEAN /\ ValidationOK(u, Seen, trades = 0) /\ PoolsOK
    BY <1>1 DEF IInv, SplitOK
  <2>. HIDE DEF u
  <2>2. u.routes \in Seq(QuoteSet(Seen)) /\ SomeV3(u.routes) /\ u.hop \in Nat
    BY <1>1, SplitRoutes DEF u
  <2>. QED
    BY <2>1, <2>2, OneHopLess
<1>4. /\ split' = [split EXCEPT !.validation = v]
      /\ UNCHANGED answer \/ answer'.kind = "quote"
  BY <1>2 DEF Answered
<1>. HIDE DEF v
<1>5. split'.validation = v /\ split' # Nothing
  <2>1. split = [chosen |-> split.chosen, validation |-> u]
    BY <1>1 DEF IInv, SplitOK
  <2>. HIDE DEF u
  <2>2. split' = [chosen |-> split.chosen, validation |-> v]
    BY <1>4, <2>1
  <2>. QED
    BY <2>2, SplitNotNothing
<1>6. CASE UNCHANGED answer
  <2>1. SplitLeft = HopsLeft(u) /\ SplitLeft' = HopsLeft(v)
    BY <1>1, <1>5 DEF SplitLeft
  <2>. HIDE DEF u
  <2>2. DirectLeft' = DirectLeft /\ MultiLeft' = MultiLeft
    BY <1>1 DEF DirectLeft, MultiLeft
  <2>3. DirectLeft \in Int /\ MultiLeft \in Int
    BY WorkParts
  <2>4. DirectLeft' \in Int /\ DirectLeft' <= DirectLeft /\ MultiLeft' \in Int /\ MultiLeft' <= MultiLeft
    BY <2>2, <2>3, SameLeft, Zenon
  <2>5. SplitLeft' \in Int /\ SplitLeft' < SplitLeft /\ SplitLeft' <= SplitLeft
    BY <1>3, <2>1
  <2>. QED
    BY <1>1, <1>6, <2>4, <2>5, LessLeft
<1>7. CASE answer'.kind = "quote"
  <2>1. answer' # Nothing
    BY <1>7 DEF Nothing
  <2>. QED
    BY <1>1, <2>1, AnswerEnds
<1>. QED
  BY <1>4, <1>6, <1>7

(* No request can go on for ever: every step of fetchDirectQuotes,         *)
(* fetchMultiHopQuotes, batchValidateRoutes and getBestQuoteForTokens      *)
(* leaves less to do, a round of either validation one hop of the longest  *)
(* route, and no route is longer than the search goes.                     *)
THEOREM RequestsEnd == Spec => Ends
<1>1. Init => IInv /\ Going
  BY InitInv, GoingInit
<1>2. IInv /\ Going /\ [Next]_vars => IInv' /\ Going'
  BY NextInv, GoingNext
<1>3. IInv /\ IInv' /\ Going /\ [Next]_vars => [trades' = trades => Work' < Work]_vars
  <2>. SUFFICES ASSUME IInv, IInv', Going, Next, trades' = trades
                PROVE  Work' < Work \/ UNCHANGED vars
    OBVIOUS
  <2>1. CASE DirectRead \/ DirectQuoted
    BY <2>1, DirectEnds
  <2>2. CASE MultiRead
    BY <2>2, SearchEnds
  <2>3. CASE MultiValidated
    BY <2>3, ValidationEnds
  <2>4. CASE ReadFails
    <3>1. answer = Nothing /\ answer' # Nothing
      BY <2>4 DEF ReadFails, Wrong, Nothing
    <3>. QED
      BY <3>1, AnswerEnds
  <2>5. CASE Decide
    BY <2>5, DecisionEnds
  <2>6. CASE SplitValidated
    BY <2>6, RevalidationEnds
  <2>7. CASE \E id \in Traded : Trade(id)
    <3>1. trades' = trades + 1 /\ trades \in Nat
      BY <2>7, PriceAssumption DEF Trade, IInv, PoolsOK
    <3>. QED
      BY <3>1
  <2>. QED
    BY <2>1, <2>2, <2>3, <2>4, <2>5, <2>6, <2>7 DEF Next, Ended
<1>. QED
  BY <1>1, <1>2, <1>3, PTL DEF Spec, Ends

-----------------------------------------------------------------------------
(* What the search finds.                                                  *)

(* s has each element of T once, and no other.                             *)
ListOf(s, T) ==
  /\ s \in Seq(T)
  /\ \A i, j \in 1..Len(s) : s[i] = s[j] => i = j
  /\ \A x \in T : \E i \in 1..Len(s) : s[i] = x

(* A function that tells the elements of a set apart.                      *)
Separates(F, A) == \A x, y \in A : F[x] = F[y] => x = y

(* What is picked from a list is listed.                                   *)
LEMMA ListOfPicked ==
  ASSUME NEW T, NEW s, ListOf(s, T), NEW S \in SUBSET (1..Len(s))
  PROVE  ListOf(Picked(s, S), {s[i] : i \in S})
<1>. DEFINE t == Picked(s, S)
            U == {s[i] : i \in S}
            n == Len(t)
<1>1. s \in Seq(T) /\ \A i, j \in 1..Len(s) : s[i] = s[j] => i = j
  BY DEF ListOf
<1>2. t \in Seq(U) /\ Lists(t, s, S)
  BY <1>1, PickedFacts, PickedFrom
<1>. HIDE DEF t
<1>3. PICK e \in [1..n -> S] :
        /\ \A i, j \in 1..n : e[i] = e[j] => i = j
        /\ \A x \in S : \E i \in 1..n : e[i] = x
        /\ \A i \in 1..n : t[i] = s[e[i]]
  BY <1>2 DEF Lists
<1>4. \A i, j \in 1..n : t[i] = t[j] => i = j
  <2>1. \A i \in 1..n : e[i] \in 1..Len(s)
    BY <1>3
  <2>. QED
    BY <1>1, <1>3, <2>1
<1>5. \A x \in U : \E i \in 1..n : t[i] = x
  BY <1>3
<1>. QED
  BY <1>2, <1>4, <1>5 DEF ListOf, t

Image(F, A) == {F[x] : x \in A}

Mapped(F, s) == [i \in DOMAIN s |-> F[s[i]]]

(* The images of what is listed are listed, if they are different.         *)
LEMMA ListOfImages ==
  ASSUME NEW A, NEW s, ListOf(s, A), NEW B, NEW F \in [A -> B], Separates(F, A)
  PROVE  ListOf(<< >> \o Mapped(F, s), Image(F, A))
<1>. DEFINE n == Len(s)
            g == Mapped(F, s)
            T == Image(F, A)
<1>1. /\ n \in Nat /\ DOMAIN s = 1..n /\ \A i \in 1..n : s[i] \in A
      /\ \A i, j \in 1..n : s[i] = s[j] => i = j
      /\ \A x \in A : \E i \in 1..n : s[i] = x
  BY LenProperties DEF ListOf
<1>. HIDE DEF n
<1>2. g \in [1..n -> T] /\ \A i \in 1..n : g[i] = F[s[i]]
  BY <1>1 DEF Mapped, Image
<1>3. \A x \in T : \E i \in 1..n : g[i] = x
  BY <1>1, <1>2 DEF Image
<1>. HIDE DEF g, T
<1>4. \A i, j \in 1..n : g[i] = g[j] => i = j
  BY <1>1, <1>2 DEF Separates
<1>5. << >> \o g = g /\ g \in Seq(T) /\ Len(g) = n
  BY <1>1, <1>2, Listing
<1>. QED
  BY <1>3, <1>4, <1>5 DEF ListOf, g, T

(* Two lists of different things.                                          *)
LEMMA ListOfJoined ==
  ASSUME NEW A, NEW B, A \cap B = {}, NEW s, ListOf(s, A), NEW t, ListOf(t, B)
  PROVE  ListOf(s \o t, A \cup B)
<1>. DEFINE V == A \cup B
            c == s \o t
            m == Len(s)
            n == Len(t)
<1>1. s \in Seq(V) /\ t \in Seq(V) /\ m \in Nat /\ n \in Nat
  BY LenProperties DEF ListOf
<1>2. c \in Seq(V) /\ Joined(s, t, c)
  BY <1>1, JoinedParts
<1>. HIDE DEF c
<1>3. /\ Len(c) = m + n /\ \A i \in 1..m : c[i] = s[i]
      /\ \A i \in 1..n : c[m + i] = t[i]
  BY <1>2 DEF Joined
<1>4. /\ \A i \in 1..m : s[i] \in A
      /\ \A i, j \in 1..m : s[i] = s[j] => i = j
      /\ \A x \in A : \E i \in 1..m : s[i] = x
      /\ \A i \in 1..n : t[i] \in B
      /\ \A i, j \in 1..n : t[i] = t[j] => i = j
      /\ \A x \in B : \E i \in 1..n : t[i] = x
  <2>1. (\A i \in 1..m : s[i] \in A) /\ \A i \in 1..n : t[i] \in B
    BY LenProperties DEF ListOf
  <2>. QED
    BY <2>1 DEF ListOf
<1>. HIDE DEF m, n
<1>5. \A k \in 1..(m + n) : k \in 1..m \/ (k - m \in 1..n /\ m + (k - m) = k)
  BY <1>1
<1>6. ASSUME NEW i \in 1..(m + n), NEW j \in 1..(m + n), c[i] = c[j] PROVE i = j
  <2>1. CASE i \in 1..m /\ j \in 1..m
    BY <1>3, <1>4, <1>6, <2>1
  <2>2. CASE i \in 1..m /\ j \notin 1..m
    <3>1. c[i] \in A /\ c[j] \in B
      BY <1>3, <1>4, <1>5, <2>2
    <3>. QED
      BY <1>6, <3>1
  <2>3. CASE i \notin 1..m /\ j \in 1..m
    <3>1. c[i] \in B /\ c[j] \in A
      BY <1>3, <1>4, <1>5, <2>3
    <3>. QED
      BY <1>6, <3>1
  <2>4. CASE i \notin 1..m /\ j \notin 1..m
    <3>1. /\ i - m \in 1..n /\ j - m \in 1..n /\ m + (i - m) = i /\ m + (j - m) = j
      BY <1>5, <2>4
    <3>2. c[i] = t[i - m] /\ c[j] = t[j - m]
      BY <1>3, <3>1
    <3>3. i - m = j - m
      BY <1>4, <1>6, <3>1, <3>2
    <3>. QED
      BY <3>1, <3>3
  <2>. QED
    BY <2>1, <2>2, <2>3, <2>4
<1>7. ASSUME NEW x \in V PROVE \E i \in 1..(m + n) : c[i] = x
  <2>1. CASE x \in A
    <3>1. PICK i \in 1..m : s[i] = x
      BY <1>4, <2>1
    <3>2. i \in 1..(m + n)
      BY <1>1
    <3>. QED
      BY <1>3, <3>1, <3>2
  <2>2. CASE x \in B
    <3>1. PICK i \in 1..n : t[i] = x
      BY <1>4, <2>2
    <3>2. m + i \in 1..(m + n)
      BY <1>1
    <3>. QED
      BY <1>3, <3>1, <3>2
  <2>. QED
    BY <2>1, <2>2
<1>. QED
  BY <1>2, <1>3, <1>6, <1>7 DEF ListOf, c

(* Sets that share nothing, and all there is in them.                      *)
Parted(T, A) == \A x, y \in A : x # y => T[x] \cap T[y] = {}

Covered(T, A) == UNION {T[x] : x \in A}

(* Lists of different things, joined, list them all.                       *)
LEMMA ListOfFlattened ==
  ASSUME NEW V, NEW n \in Nat, NEW L \in [1..n -> Seq(V)], NEW T,
         \A i \in 1..n : ListOf(L[i], T[i]), Parted(T, 1..n)
  PROVE  ListOf(FlattenSeq(L), Covered(T, 1..n))
<1>. DEFINE All(k) == Covered(T, 1..k)
<1>1. L \in Seq(Seq(V)) /\ Len(L) = n
  OBVIOUS
<1>2. CASE n = 0
  <2>1. L = << >>
    BY <1>1, <1>2, EmptySeq
  <2>2. FlattenSeq(L) = << >>
    BY <2>1 DEF FlattenSeq
  <2>3. All(n) = {}
    BY <1>2 DEF Covered
  <2>4. ListOf(<< >>, {})
    BY DEF ListOf
  <2>. QED
    BY <2>2, <2>3, <2>4, Zenon
<1>3. CASE n # 0
  <2>1. PICK F \in [1..n -> Seq(V)] : JoinsOf(F, L, n) /\ FlattenSeq(L) = F[n]
    BY <1>1, <1>3, FlattenedParts
  <2>. DEFINE S == {k \in 0..(n - 1) : ListOf(F[k + 1], All(k + 1))}
  <2>2. n - 1 \in Nat /\ 1 \in 1..n
    BY <1>3
  <2>3. 0 \in S
    <3>1. All(1) = T[1]
      BY DEF Covered
    <3>2. F[1] = L[1]
      BY <2>1 DEF JoinsOf
    <3>3. ListOf(F[1], All(1))
      BY <2>2, <3>1, <3>2
    <3>4. 0 + 1 = 1 /\ 0 \in 0..(n - 1)
      BY <2>2
    <3>. HIDE DEF All
    <3>. QED
      BY <3>3, <3>4
  <2>4. ASSUME NEW k \in 1..(n - 1), k - 1 \in S PROVE k \in S
    <3>1. k - 1 + 1 = k /\ k \in 0..(n - 1) /\ k + 1 \in 2..n /\ k + 1 \in 1..n /\ k + 1 - 1 = k /\ k \in Nat
      BY <2>2
    <3>2. ListOf(F[k], All(k))
      <4>. HIDE DEF All
      <4>. QED
        BY <2>4, <3>1
    <3>3. F[k + 1] = F[k] \o L[k + 1]
      <4>. DEFINE i == k + 1
      <4>1. i \in 2..n /\ i - 1 = k
        BY <3>1
      <4>. HIDE DEF i
      <4>2. F[i] = F[i - 1] \o L[i]
        BY <2>1, <4>1 DEF JoinsOf
      <4>. QED
        BY <4>1, <4>2 DEF i
    <3>4. All(k) \cap T[k + 1] = {}
      <4>1. \A i \in 1..k : i \in 1..n /\ i # k + 1
        BY <3>1
      <4>. QED
        BY <3>1, <4>1 DEF Parted, Covered
    <3>5. All(k + 1) = All(k) \cup T[k + 1]
      <4>1. \A i \in 1..(k + 1) : i \in 1..k \/ i = k + 1
        BY <3>1
      <4>2. k + 1 \in 1..(k + 1) /\ \A i \in 1..k : i \in 1..(k + 1)
        BY <3>1
      <4>3. All(k + 1) \subseteq All(k) \cup T[k + 1]
        BY <4>1 DEF Covered
      <4>4. All(k) \subseteq All(k + 1) /\ T[k + 1] \subseteq All(k + 1)
        BY <4>2 DEF Covered
      <4>. HIDE DEF All
      <4>. QED
        BY <4>3, <4>4
    <3>6. ListOf(L[k + 1], T[k + 1])
      BY <3>1
    <3>. HIDE DEF All
    <3>7. ListOf(F[k] \o L[k + 1], All(k) \cup T[k + 1])
      BY <3>2, <3>4, <3>6, ListOfJoined
    <3>. QED
      BY <3>1, <3>3, <3>5, <3>7
  <2>. HIDE DEF S
  <2>5. \A k \in 0..(n - 1) : k \in S
    BY <2>2, <2>3, <2>4, Counting
  <2>6. n - 1 \in S /\ n - 1 + 1 = n
    BY <2>2, <2>5
  <2>. HIDE DEF All
  <2>7. ListOf(F[n], All(n))
    BY <2>6 DEF S
  <2>. QED
    BY <2>1, <2>7 DEF All
<1>. QED
  BY <1>2, <1>3

(* What is sorted is listed as before.                                     *)
LEMMA ListOfDescending ==
  ASSUME NEW T, NEW s, ListOf(s, T), NEW key \in [1..Len(s) -> Int]
  PROVE  ListOf(Descending(s, key), T) /\ Len(Descending(s, key)) = Len(s)
<1>. DEFINE t == Descending(s, key)
            n == Len(s)
<1>1. s \in Seq(T) /\ (\A i, j \in 1..n : s[i] = s[j] => i = j) /\ \A x \in T : \E i \in 1..n : s[i] = x
  BY DEF ListOf
<1>2. t \in Seq(T) /\ Len(t) = n /\ Lists(t, s, 1..n)
  BY <1>1, DescendingFacts
<1>. HIDE DEF t, n
<1>3. PICK e \in [1..n -> 1..n] :
        /\ \A i, j \in 1..n : e[i] = e[j] => i = j
        /\ \A x \in 1..n : \E i \in 1..n : e[i] = x
        /\ \A i \in 1..n : t[i] = s[e[i]]
  BY <1>2 DEF Lists
<1>4. ASSUME NEW i \in 1..n, NEW j \in 1..n, t[i] = t[j] PROVE i = j
  <2>1. e[i] \in 1..n /\ e[j] \in 1..n /\ s[e[i]] = s[e[j]]
    BY <1>3, <1>4
  <2>2. e[i] = e[j]
    BY <1>1, <2>1
  <2>. QED
    BY <1>3, <2>2
<1>5. ASSUME NEW x \in T PROVE \E i \in 1..n : t[i] = x
  <2>1. PICK k \in 1..n : s[k] = x
    BY <1>1
  <2>2. PICK i \in 1..n : e[i] = k
    BY <1>3
  <2>. QED
    BY <1>3, <2>1, <2>2
<1>. QED
  BY <1>2, <1>4, <1>5 DEF ListOf, t, n

(* t lists some of T, all of it if the list s of T had no more than n.     *)
CutOf(t, s, n, T) == \E U \in SUBSET T : ListOf(t, U) /\ (Len(s) <= n => U = T)

(* An initial part lists some of what is listed, or all of it.             *)
LEMMA ListOfUpTo ==
  ASSUME NEW T, NEW s, ListOf(s, T), NEW n \in Nat
  PROVE  CutOf(UpTo(s, n), s, n, T)
<1>. DEFINE t == UpTo(s, n)
            m == Len(t)
            U == {t[i] : i \in 1..m}
<1>1. s \in Seq(T) /\ (\A i, j \in 1..Len(s) : s[i] = s[j] => i = j) /\ \A x \in T : \E i \in 1..Len(s) : s[i] = x
  BY DEF ListOf
<1>2. t \in Seq(T) /\ m = Least(Len(s), n) /\ \A i \in 1..m : i \in 1..Len(s) /\ t[i] = s[i]
  BY <1>1, UpToFacts
<1>. HIDE DEF t
<1>3. m \in Nat /\ t \in [1..m -> T]
  BY <1>2, LenProperties
<1>4. U \in SUBSET T /\ \A i, j \in 1..m : t[i] = t[j] => i = j
  <2>1. U \in SUBSET T
    BY <1>3
  <2>2. ASSUME NEW i \in 1..m, NEW j \in 1..m, t[i] = t[j] PROVE i = j
    <3>1. i \in 1..Len(s) /\ j \in 1..Len(s) /\ s[i] = s[j]
      BY <1>2, <2>2
    <3>. QED
      BY <1>1, <3>1
  <2>. QED
    BY <2>1, <2>2
<1>5. ListOf(t, U)
  <2>1. t \in [1..m -> U]
    BY <1>3
  <2>2. t \in Seq(U)
    BY <1>3, <2>1
  <2>. QED
    BY <1>4, <2>2 DEF ListOf
<1>6. ASSUME Len(s) <= n PROVE U = T
  <2>1. m = Len(s)
    BY <1>2, <1>6 DEF Least
  <2>2. \A x \in T : x \in U
    BY <1>1, <1>2, <2>1
  <2>. HIDE DEF U
  <2>. QED
    BY <1>4, <2>2
<1>. QED
  BY <1>4, <1>5, <1>6 DEF CutOf, t

(* The pools of a graph that are not too thin.                             *)
Fluid(N) == {p \in N : Liquid(p)}

(* The hops that pay.                                                      *)
LEMMA ListOfPaying ==
  ASSUME NEW T, NEW hops, ListOf(hops, T)
  PROVE  ListOf(Paying(hops), {h \in T : h.amountOut > 0})
<1>. DEFINE S == {i \in DOMAIN hops : hops[i].amountOut > 0}
            U == {hops[i] : i \in S}
<1>1. /\ DOMAIN hops = 1..Len(hops) /\ \A i \in 1..Len(hops) : hops[i] \in T
      /\ \A x \in T : \E i \in 1..Len(hops) : hops[i] = x
  BY LenProperties DEF ListOf
<1>2. Paying(hops) = Picked(hops, S) /\ S \in SUBSET (1..Len(hops))
  BY <1>1 DEF Paying
<1>3. U = {h \in T : h.amountOut > 0}
  BY <1>1
<1>. HIDE DEF S
<1>4. ListOf(Picked(hops, S), U)
  BY <1>2, ListOfPicked
<1>. QED
  BY <1>2, <1>3, <1>4, Zenon

(* computeLocalQuotes finds every hop between two tokens, once.            *)
LEMMA ListOfLocalHops ==
  ASSUME NEW N \in SUBSET GoodPools, NEW graph, ListOf(graph, N), NEW from, NEW to, NEW amount \in Nat
  PROVE  ListOf(LocalHops(graph, from, to, amount), Steps(Fluid(N), from, to, amount))
<1>. DEFINE S == {i \in DOMAIN graph : Between(graph[i], from, to) /\ Liquid(graph[i])}
            T == {p \in N : Between(p, from, to) /\ Liquid(p)}
            H == Hops(N)
            some == Picked(graph, S)
            F == [p \in T |-> Hop(p, from, amount)]
            g == [i \in DOMAIN some |-> Hop(some[i], from, amount)]
            U == Image(F, T)
<1>1. /\ DOMAIN graph = 1..Len(graph) /\ \A i \in 1..Len(graph) : graph[i] \in N
      /\ \A x \in N : \E i \in 1..Len(graph) : graph[i] = x
  BY LenProperties DEF ListOf
<1>2. LocalHops(graph, from, to, amount) = Paying(<< >> \o g)
  BY DEF LocalHops, Each
<1>3. S \in SUBSET (1..Len(graph)) /\ {graph[i] : i \in S} = T
  BY <1>1
<1>4. \A p \in T : /\ p \in N /\ Hop(p, from, amount) \in H
                    /\ Hop(p, from, amount) = [pool |-> p, amountIn |-> amount, amountOut |-> HopOut(p, from, amount)]
  BY HopType
<1>. HIDE DEF S
<1>5. ListOf(some, T)
  <2>1. ListOf(Picked(graph, S), {graph[i] : i \in S})
    BY <1>3, ListOfPicked
  <2>. HIDE DEF T
  <2>. QED
    BY <1>3, <2>1
<1>. HIDE DEF some
<1>6. F \in [T -> H] /\ Separates(F, T)
  <2>1. F \in [T -> H] /\ \A p \in T : F[p].pool = p
    BY <1>4
  <2>. HIDE DEF F, T
  <2>. QED
    BY <2>1 DEF Separates
<1>7. g = Mapped(F, some)
  <2>1. \A i \in DOMAIN some : some[i] \in T
    BY <1>5, LenProperties DEF ListOf
  <2>. HIDE DEF T
  <2>. QED
    BY <2>1 DEF Mapped
<1>8. U = {h \in Hops(N) : \E p \in T : h = [pool |-> p, amountIn |-> amount, amountOut |-> HopOut(p, from, amount)]}
  BY <1>4 DEF Image
<1>9. {h \in U : h.amountOut > 0} = Steps(Fluid(N), from, to, amount)
  <2>1. ASSUME NEW h \in U, h.amountOut > 0 PROVE h \in Steps(Fluid(N), from, to, amount)
    <3>1. PICK p \in T : h = [pool |-> p, amountIn |-> amount, amountOut |-> HopOut(p, from, amount)] /\ h \in Hops(N)
      BY <1>8, <2>1
    <3>. QED
      BY <2>1, <3>1 DEF Steps, Fluid, Hops
  <2>2. ASSUME NEW h \in Steps(Fluid(N), from, to, amount) PROVE h \in U /\ h.amountOut > 0
    <3>1. /\ h \in Hops(Fluid(N)) /\ Between(h.pool, from, to) /\ h.amountIn = amount /\ h.amountOut > 0
          /\ h.amountOut = HopOut(h.pool, from, amount)
      BY DEF Steps
    <3>2. h.pool \in T /\ h \in Hops(N)
          /\ h = [pool |-> h.pool, amountIn |-> amount, amountOut |-> HopOut(h.pool, from, amount)]
      BY <3>1 DEF Hops, Fluid
    <3>. QED
      BY <1>8, <3>1, <3>2
  <2>. HIDE DEF U
  <2>. QED
    BY <2>1, <2>2
<1>. HIDE DEF F, g, T, H
<1>10. ListOf(<< >> \o g, U)
  BY <1>5, <1>6, <1>7, ListOfImages
<1>. HIDE DEF U
<1>11. ListOf(Paying(<< >> \o g), {h \in U : h.amountOut > 0})
  BY <1>10, ListOfPaying
<1>. QED
  BY <1>2, <1>9, <1>11

(* What is known of a partial route.                                       *)
Along(p, PS, amount, d) ==
  /\ p = [path |-> p.path, hops |-> p.hops]
  /\ p.path \in Seq(Tokens) /\ p.hops \in Seq(Hops(PS)) /\ d \in Nat \ {0}
  /\ Len(p.path) = d + 1 /\ Len(p.hops) = d
  /\ Reached(p) = p.path[d + 1] /\ Carried(p) = p.hops[d].amountOut /\ Carried(p) \in Nat
  /\ p.hops[1].amountIn = amount
  /\ \A i \in 1..d :
       /\ p.hops[i] \in Hops(PS) /\ p.hops[i].pool \in PS
       /\ Between(p.hops[i].pool, p.path[i], p.path[i + 1])
       /\ p.hops[i].amountIn > 0 /\ p.hops[i].amountOut > 0
       /\ i > 1 => p.hops[i].amountIn = p.hops[i - 1].amountOut
       /\ p.hops[i].amountOut = HopOut(p.hops[i].pool, p.path[i], p.hops[i].amountIn)
  /\ \A i \in 1..(d + 1) : p.path[i] \in Tokens
  /\ \A i, j \in 1..(d + 1) : p.path[i] = p.path[j] => i = j

(* A partial route is that.                                                *)
LEMMA BegunFields ==
  ASSUME NEW PS \in SUBSET GoodPools, NEW amount, NEW d, NEW p, Begun(p, PS, amount, d)
  PROVE  Along(p, PS, amount, d)
<1>1. /\ p \in [path : Seq(Tokens), hops : Seq(Hops(PS))]
      /\ Chained(p.path, p.hops) /\ Len(p.hops) = d /\ Estimated(p) /\ p.hops[1].amountIn = amount
  BY DEF Begun
<1>2. p.path \in Seq(Tokens) /\ p.hops \in Seq(Hops(PS)) /\ p = [path |-> p.path, hops |-> p.hops]
  <2>. DEFINE A == Seq(Tokens)
              B == Seq(Hops(PS))
  <2>1. p \in [path : A, hops : B]
    BY <1>1
  <2>. HIDE DEF A, B
  <2>2. p.path \in A /\ p.hops \in B /\ p = [path |-> p.path, hops |-> p.hops]
    BY <2>1
  <2>. QED
    BY <2>2 DEF A, B
<1>3. d \in Nat \ {0} /\ DOMAIN p.hops = 1..d /\ Len(p.path) = d + 1
  BY <1>1, <1>2, LenProperties DEF Chained
<1>4. \A i \in 1..d : p.hops[i] \in Hops(PS)
  BY <1>1, <1>2, <1>3
<1>5. \A i \in 1..d : p.hops[i].pool \in PS /\ p.hops[i].amountOut \in Nat
  BY <1>4 DEF Hops
<1>6. \A i \in 1..(d + 1) : p.path[i] \in Tokens
  <2>1. \A i \in 1..Len(p.path) : p.path[i] \in Tokens
    BY <1>2
  <2>. QED
    BY <1>3, <2>1
<1>7. Reached(p) = p.path[d + 1] /\ Carried(p) = p.hops[d].amountOut /\ Carried(p) \in Nat
  BY <1>1, <1>2, <1>3, <1>5 DEF Reached, Carried, Last
<1>. QED
  BY <1>1, <1>2, <1>3, <1>4, <1>5, <1>6, <1>7 DEF Chained, Estimated, Along

(* A partial route with one more hop.                                      *)
Extends(r, p, token, h, PS, d) ==
  /\ r = [path |-> r.path, hops |-> r.hops]
  /\ r.path \in Seq(Tokens) /\ r.hops \in Seq(Hops(PS)) /\ Len(r.path) = d + 2 /\ Len(r.hops) = d + 1
  /\ r.path[d + 2] = token /\ \A i \in 1..(d + 1) : r.path[i] = p.path[i]
  /\ r.hops[d + 1] = h /\ \A i \in 1..d : r.hops[i] = p.hops[i]

(* What one hop more makes of a partial route.                             *)
LEMMA OnwardFields ==
  ASSUME NEW PS \in SUBSET GoodPools, NEW amount, NEW d, NEW p, Begun(p, PS, amount, d),
         NEW token \in Tokens, NEW h \in Hops(PS)
  PROVE  Extends(Onward(p, token, h), p, token, h, PS, d)
<1>. DEFINE r == Onward(p, token, h)
            path == Append(p.path, token)
            hops == Append(p.hops, h)
<1>1. /\ p.path \in Seq(Tokens) /\ p.hops \in Seq(Hops(PS)) /\ d \in Nat \ {0}
      /\ Len(p.path) = d + 1 /\ Len(p.hops) = d
  BY BegunFields DEF Along
<1>2. /\ path \in Seq(Tokens) /\ Len(path) = d + 2 /\ path[d + 2] = token
      /\ \A i \in 1..(d + 1) : path[i] = p.path[i]
  BY <1>1
<1>3. /\ hops \in Seq(Hops(PS)) /\ Len(hops) = d + 1 /\ hops[d + 1] = h
      /\ \A i \in 1..d : hops[i] = p.hops[i]
  BY <1>1
<1>4. r = [path |-> path, hops |-> hops]
  BY DEF Onward
<1>. HIDE DEF path, hops, r
<1>. QED
  BY <1>2, <1>3, <1>4 DEF Extends, r

(* Lists of the same length with the same elements are the same.           *)
LEMMA SameList ==
  ASSUME NEW A, NEW B, NEW s \in Seq(A), NEW t \in Seq(B), Len(s) = Len(t),
         \A i \in 1..Len(s) : s[i] = t[i]
  PROVE  s = t
<1>1. Len(s) \in Nat /\ s \in [1..Len(s) -> A] /\ t \in [1..Len(s) -> B]
  BY LenProperties
<1>. QED
  BY <1>1

(* Different partial routes, tokens or hops make different routes.         *)
LEMMA OnwardApart ==
  ASSUME NEW PS \in SUBSET GoodPools, NEW amount, NEW d,
         NEW p, Begun(p, PS, amount, d), NEW q, Begun(q, PS, amount, d),
         NEW t \in Tokens, NEW u \in Tokens, NEW g \in Hops(PS), NEW h \in Hops(PS),
         Onward(p, t, g) = Onward(q, u, h)
  PROVE  p = q /\ t = u /\ g = h
<1>. DEFINE r == Onward(p, t, g)
            w == Onward(q, u, h)
<1>1. /\ p = [path |-> p.path, hops |-> p.hops] /\ q = [path |-> q.path, hops |-> q.hops]
      /\ p.path \in Seq(Tokens) /\ p.hops \in Seq(Hops(PS)) /\ q.path \in Seq(Tokens) /\ q.hops \in Seq(Hops(PS))
      /\ d \in Nat \ {0} /\ Len(p.path) = d + 1 /\ Len(p.hops) = d /\ Len(q.path) = d + 1 /\ Len(q.hops) = d
  BY BegunFields DEF Along
<1>2. Extends(r, p, t, g, PS, d)
  BY OnwardFields
<1>3. Extends(w, q, u, h, PS, d)
  BY OnwardFields
<1>4. r = w
  OBVIOUS
<1>. HIDE DEF r, w
<1>5. t = u /\ g = h
  BY <1>2, <1>3, <1>4 DEF Extends
<1>6. \A i \in 1..(d + 1) : p.path[i] = q.path[i]
  BY <1>2, <1>3, <1>4 DEF Extends
<1>7. \A i \in 1..d : p.hops[i] = q.hops[i]
  BY <1>2, <1>3, <1>4 DEF Extends
<1>8. p.path = q.path
  BY <1>1, <1>6, SameList
<1>9. p.hops = q.hops
  BY <1>1, <1>7, SameList
<1>. QED
  BY <1>1, <1>5, <1>8, <1>9

Forks(PS, p, token) == {Onward(p, token, h) : h \in Steps(PS, Reached(p), token, Carried(p))}

(* A partial route goes on to a token in every way, once.                  *)
LEMMA ListOfExtended ==
  ASSUME NEW N \in SUBSET GoodPools, NEW graph, ListOf(graph, N), NEW amount, NEW d,
         NEW p, Begun(p, Fluid(N), amount, d), NEW token \in Tokens
  PROVE  ListOf(Extended(graph, p, token), Forks(Fluid(N), p, token))
<1>. DEFINE L == Fluid(N)
            A == Steps(L, Reached(p), token, Carried(p))
            hops == LocalHops(graph, Reached(p), token, Carried(p))
            F == [h \in A |-> Onward(p, token, h)]
            g == [i \in DOMAIN hops |-> Onward(p, token, hops[i])]
            B == Image(F, A)
<1>1. L \in SUBSET GoodPools
  BY DEF Fluid
<1>2. Carried(p) \in Nat
  BY <1>1, BegunFields DEF Along
<1>3. ListOf(hops, A)
  BY <1>2, ListOfLocalHops
<1>4. Extended(graph, p, token) = << >> \o g
  BY DEF Extended, Each, Onward
<1>5. \A h \in A : h \in Hops(L)
  BY DEF Steps
<1>6. B = Forks(L, p, token)
  BY DEF Forks, Image
<1>. HIDE DEF hops, A, L
<1>7. F \in [A -> B] /\ Separates(F, A)
  <2>1. F \in [A -> B]
    BY DEF Image
  <2>2. ASSUME NEW x \in A, NEW y \in A, F[x] = F[y] PROVE x = y
    <3>1. Onward(p, token, x) = Onward(p, token, y) /\ x \in Hops(L) /\ y \in Hops(L)
      BY <1>5, <2>2
    <3>. QED
      BY <1>1, <3>1, OnwardApart DEF L
  <2>. HIDE DEF F
  <2>. QED
    BY <2>1, <2>2 DEF Separates
<1>8. g = Mapped(F, hops)
  <2>1. \A i \in DOMAIN hops : hops[i] \in A
    BY <1>3, LenProperties DEF ListOf
  <2>. QED
    BY <2>1 DEF Mapped
<1>. HIDE DEF F, g
<1>9. ListOf(<< >> \o Mapped(F, hops), Image(F, A))
  BY <1>3, <1>7, ListOfImages
<1>. QED
  BY <1>4, <1>6, <1>8, <1>9 DEF L

(* Lists made of each element of a list, joined.                           *)
LEMMA ListOfParts ==
  ASSUME NEW A, NEW s, ListOf(s, A), NEW F, NEW T,
         \A x \in A : ListOf(F[x], T[x]), Parted(T, A)
  PROVE  ListOf(FlattenSeq(<< >> \o Mapped(F, s)), Covered(T, A))
<1>. DEFINE n == Len(s)
            V == Covered(T, A)
            L == Mapped(F, s)
            P == [i \in 1..n |-> T[s[i]]]
<1>1. /\ n \in Nat /\ DOMAIN s = 1..n /\ \A i \in 1..n : s[i] \in A
      /\ \A i, j \in 1..n : s[i] = s[j] => i = j
      /\ \A x \in A : \E i \in 1..n : s[i] = x
  BY LenProperties DEF ListOf
<1>. HIDE DEF n
<1>2. \A x \in A : F[x] \in Seq(V)
  <2>1. ASSUME NEW x \in A PROVE F[x] \in Seq(V)
    <3>1. F[x] \in Seq(T[x]) /\ T[x] \subseteq V
      BY DEF ListOf, Covered
    <3>. HIDE DEF V
    <3>. QED
      BY <3>1
  <2>. QED
    BY <2>1
<1>. HIDE DEF V
<1>3. L \in [1..n -> Seq(V)] /\ \A i \in 1..n : L[i] = F[s[i]]
  BY <1>1, <1>2 DEF Mapped
<1>4. << >> \o L = L
  <2>. HIDE DEF L
  <2>. QED
    BY <1>1, <1>3, Listing
<1>5. \A i \in 1..n : ListOf(L[i], P[i])
  <2>. HIDE DEF L
  <2>. QED
    BY <1>1, <1>3
<1>6. Parted(P, 1..n)
  BY <1>1 DEF Parted
<1>7. Covered(P, 1..n) = V
  <2>1. \A i \in 1..n : P[i] = T[s[i]]
    OBVIOUS
  <2>. HIDE DEF P
  <2>2. {P[i] : i \in 1..n} = {T[x] : x \in A}
    BY <1>1, <2>1
  <2>. QED
    BY <2>2 DEF V, Covered
<1>. HIDE DEF L, P
<1>8. ListOf(FlattenSeq(L), Covered(P, 1..n))
  BY <1>1, <1>3, <1>5, <1>6, ListOfFlattened
<1>. QED
  BY <1>4, <1>7, <1>8 DEF L, V

(* The partial routes that go on from p to a token of T that it has not    *)
(* come to, and those that go on from one of A.                            *)
Onto(PS, p, T) == UNION {Forks(PS, p, t) : t \in {u \in T : OffPath(p, u)}}

More(PS, A, T) == UNION {Onto(PS, p, T) : p \in A}

(* ExpandedTo takes every unvisited token and every hop to it, once.       *)
LEMMA ListOfExpandedTo ==
  ASSUME NEW N \in SUBSET GoodPools, NEW graph, ListOf(graph, N), NEW amount, NEW d,
         NEW p, Begun(p, Fluid(N), amount, d), NEW K \in SUBSET Tokens, NEW tokens, ListOf(tokens, K)
  PROVE  ListOf(ExpandedTo(graph, p, tokens), Onto(Fluid(N), p, K))
<1>. DEFINE L == Fluid(N)
            S == {i \in DOMAIN tokens : tokens[i] \notin ToSet(p.path)}
            A == {u \in K : OffPath(p, u)}
            some == Unvisited(tokens, p)
            F == [t \in A |-> Extended(graph, p, t)]
            T == [t \in A |-> Forks(L, p, t)]
            g == [i \in DOMAIN some |-> Extended(graph, p, some[i])]
<1>1. L \in SUBSET GoodPools
  BY DEF Fluid
<1>2. /\ DOMAIN tokens = 1..Len(tokens) /\ \A i \in 1..Len(tokens) : tokens[i] \in K
      /\ \A x \in K : \E i \in 1..Len(tokens) : tokens[i] = x
  BY LenProperties DEF ListOf
<1>3. \A t : t \notin ToSet(p.path) <=> OffPath(p, t)
  <2>1. p.path \in Seq(Tokens)
    BY <1>1, BegunFields DEF Along
  <2>2. DOMAIN p.path = 1..Len(p.path)
    BY <2>1, LenProperties
  <2>. QED
    BY <2>2 DEF OffPath, ToSet
<1>4. S \in SUBSET (1..Len(tokens)) /\ {tokens[i] : i \in S} = A
  BY <1>2, <1>3
<1>5. some = Picked(tokens, S)
  BY DEF Unvisited
<1>. HIDE DEF S, A, some
<1>6. ListOf(some, A)
  BY <1>4, <1>5, ListOfPicked
<1>7. A \subseteq Tokens /\ \A t \in A : t \in K /\ OffPath(p, t)
  BY DEF A, Tokens
<1>8. ExpandedTo(graph, p, tokens) = FlattenSeq(<< >> \o g)
  BY DEF ExpandedTo, Each, some
<1>9. g = Mapped(F, some)
  <2>1. \A i \in DOMAIN some : some[i] \in A
    BY <1>6, LenProperties DEF ListOf
  <2>. QED
    BY <2>1 DEF Mapped
<1>. HIDE DEF L
<1>10. \A t \in A : ListOf(F[t], T[t])
  <2>1. ASSUME NEW t \in A PROVE ListOf(Extended(graph, p, t), Forks(L, p, t))
    BY <1>7, ListOfExtended DEF L
  <2>. QED
    BY <2>1
<1>11. Parted(T, A)
  <2>1. ASSUME NEW t \in A, NEW u \in A, NEW r, r \in Forks(L, p, t), r \in Forks(L, p, u) PROVE t = u
    <3>1. PICK g1 \in Hops(L), h1 \in Hops(L) : r = Onward(p, t, g1) /\ r = Onward(p, u, h1)
      BY <2>1 DEF Forks, Steps
    <3>2. Onward(p, t, g1) = Onward(p, u, h1) /\ t \in Tokens /\ u \in Tokens
      BY <1>7, <3>1
    <3>. QED
      BY <1>1, <3>2, OnwardApart DEF L
  <2>2. ASSUME NEW t \in A, NEW u \in A, t # u PROVE T[t] \cap T[u] = {}
    BY <2>1, <2>2
  <2>. HIDE DEF T
  <2>. QED
    BY <2>2 DEF Parted
<1>12. Covered(T, A) = Onto(L, p, K)
  BY DEF Covered, Onto, A
<1>. HIDE DEF F, T, g
<1>13. ListOf(FlattenSeq(<< >> \o Mapped(F, some)), Covered(T, A))
  BY <1>6, <1>10, <1>11, ListOfParts
<1>. QED
  BY <1>8, <1>9, <1>12, <1>13 DEF L

(* Expanded does so for every partial route.                               *)
LEMMA ListOfExpanded ==
  ASSUME NEW N \in SUBSET GoodPools, NEW graph, ListOf(graph, N), NEW amount, NEW d,
         NEW K \in SUBSET Tokens, NEW tokens, ListOf(tokens, K),
         NEW A, NEW partials, ListOf(partials, A), \A p \in A : Begun(p, Fluid(N), amount, d)
  PROVE  ListOf(Expanded(graph, tokens, partials), More(Fluid(N), A, K))
<1>. DEFINE L == Fluid(N)
            F == [p \in A |-> ExpandedTo(graph, p, tokens)]
            T == [p \in A |-> Onto(L, p, K)]
            g == [i \in DOMAIN partials |-> ExpandedTo(graph, partials[i], tokens)]
<1>1. L \in SUBSET GoodPools
  BY DEF Fluid
<1>2. Expanded(graph, tokens, partials) = FlattenSeq(<< >> \o g)
  BY DEF Expanded, Each
<1>3. g = Mapped(F, partials)
  <2>1. \A i \in DOMAIN partials : partials[i] \in A
    BY LenProperties DEF ListOf
  <2>. QED
    BY <2>1 DEF Mapped
<1>4. \A p \in A : ListOf(F[p], T[p])
  BY ListOfExpandedTo
<1>5. Parted(T, A)
  <2>1. ASSUME NEW p \in A, NEW q \in A, NEW r, r \in Onto(L, p, K), r \in Onto(L, q, K) PROVE p = q
    <3>1. PICK t \in K, u \in K : r \in Forks(L, p, t) /\ r \in Forks(L, q, u)
      BY <2>1 DEF Onto
    <3>2. PICK g1 \in Hops(L), h1 \in Hops(L) : r = Onward(p, t, g1) /\ r = Onward(q, u, h1)
      BY <3>1 DEF Forks, Steps
    <3>3. Onward(p, t, g1) = Onward(q, u, h1) /\ t \in Tokens /\ u \in Tokens
      BY <3>2
    <3>4. Begun(p, L, amount, d) /\ Begun(q, L, amount, d)
      OBVIOUS
    <3>. HIDE DEF L
    <3>. QED
      BY <1>1, <3>3, <3>4, OnwardApart
  <2>2. ASSUME NEW p \in A, NEW q \in A, p # q PROVE T[p] \cap T[q] = {}
    BY <2>1, <2>2
  <2>. HIDE DEF T
  <2>. QED
    BY <2>2 DEF Parted
<1>6. Covered(T, A) = More(L, A, K)
  BY DEF Covered, More
<1>. HIDE DEF F, T, g, L
<1>7. ListOf(FlattenSeq(<< >> \o Mapped(F, partials)), Covered(T, A))
  BY <1>4, <1>5, ListOfParts
<1>. QED
  BY <1>2, <1>3, <1>6, <1>7 DEF L

(* Single hops from a token.                                               *)
OneHop(from, t, h) == [path |-> <<from, t>>, hops |-> <<h>>]

Ones(PS, from, amount, t) == {OneHop(from, t, h) : h \in Steps(PS, from, t, amount)}

Starts(PS, from, amount, T) == UNION {Ones(PS, from, amount, t) : t \in T}

(* The search starts with every single hop to an intermediate token, once. *)
LEMMA ListOfFirst ==
  ASSUME NEW N \in SUBSET GoodPools, NEW graph, ListOf(graph, N), NEW amount \in Nat, NEW from,
         NEW K, NEW tokens, ListOf(tokens, K)
  PROVE  ListOf(FirstPartials(graph, tokens, from, amount), Starts(Fluid(N), from, amount, K))
<1>. DEFINE L == Fluid(N)
            hops(t) == LocalHops(graph, from, t, amount)
            over(t) == Each(hops(t), LAMBDA h : OneHop(from, t, h))
            F == [t \in K |-> over(t)]
            T == [t \in K |-> Ones(L, from, amount, t)]
            g == [i \in DOMAIN tokens |-> over(tokens[i])]
<1>1. FirstPartials(graph, tokens, from, amount) = FlattenSeq(<< >> \o g)
  BY DEF FirstPartials, Each, OneHop
<1>2. \A t, u, g1, h1 : OneHop(from, t, g1) = OneHop(from, u, h1) => t = u /\ g1 = h1
  BY DEF OneHop
<1>3. ASSUME NEW t \in K PROVE ListOf(over(t), Ones(L, from, amount, t))
  <2>. DEFINE A == Steps(L, from, t, amount)
              hs == hops(t)
              G == [h \in A |-> OneHop(from, t, h)]
              f == [i \in DOMAIN hs |-> OneHop(from, t, hs[i])]
              B == Image(G, A)
  <2>1. over(t) = << >> \o f
    BY DEF Each
  <2>2. ListOf(hs, A)
    BY ListOfLocalHops
  <2>3. B = Ones(L, from, amount, t)
    BY DEF Ones, Image
  <2>. HIDE DEF hs, A, L
  <2>4. G \in [A -> B] /\ Separates(G, A)
    <3>1. G \in [A -> B]
      BY DEF Image
    <3>2. ASSUME NEW x \in A, NEW y \in A, G[x] = G[y] PROVE x = y
      BY <1>2, <3>2
    <3>. HIDE DEF G
    <3>. QED
      BY <3>1, <3>2 DEF Separates
  <2>5. f = Mapped(G, hs)
    <3>1. \A i \in DOMAIN hs : hs[i] \in A
      BY <2>2, LenProperties DEF ListOf
    <3>. QED
      BY <3>1 DEF Mapped
  <2>. HIDE DEF G, f, over
  <2>6. ListOf(<< >> \o Mapped(G, hs), Image(G, A))
    BY <2>2, <2>4, ListOfImages
  <2>. QED
    BY <2>1, <2>3, <2>5, <2>6
<1>. HIDE DEF L, over
<1>4. g = Mapped(F, tokens)
  <2>1. \A i \in DOMAIN tokens : tokens[i] \in K
    BY LenProperties DEF ListOf
  <2>. QED
    BY <2>1 DEF Mapped
<1>5. \A t \in K : ListOf(F[t], T[t])
  BY <1>3
<1>6. Parted(T, K)
  <2>1. ASSUME NEW t \in K, NEW u \in K, NEW r, r \in Ones(L, from, amount, t), r \in Ones(L, from, amount, u)
        PROVE  t = u
    BY <1>2, <2>1 DEF Ones
  <2>2. ASSUME NEW t \in K, NEW u \in K, t # u PROVE T[t] \cap T[u] = {}
    BY <2>1, <2>2
  <2>. HIDE DEF T
  <2>. QED
    BY <2>2 DEF Parted
<1>7. Covered(T, K) = Starts(L, from, amount, K)
  BY DEF Covered, Starts
<1>. HIDE DEF F, T, g
<1>8. ListOf(FlattenSeq(<< >> \o Mapped(F, tokens)), Covered(T, K))
  BY <1>5, <1>6, ListOfParts
<1>. QED
  BY <1>1, <1>4, <1>7, <1>8 DEF L

Priced(R, gasFee) == {Quote(r.path, r.hops, gasFee) : r \in R}

IsPartial(r) == r = [path |-> r.path, hops |-> r.hops]

(* Different routes make different quotes.                                 *)
LEMMA PricedApart ==
  ASSUME NEW q, IsPartial(q), NEW r, IsPartial(r), NEW gasFee,
         Quote(q.path, q.hops, gasFee) = Quote(r.path, r.hops, gasFee)
  PROVE  q = r
<1>. DEFINE a == Quote(q.path, q.hops, gasFee)
            b == Quote(r.path, r.hops, gasFee)
<1>1. a.path = q.path /\ a.hops = q.hops /\ b.path = r.path /\ b.hops = r.hops
  BY DEF Quote
<1>2. a = b
  OBVIOUS
<1>. HIDE DEF a, b
<1>. QED
  BY <1>1, <1>2 DEF IsPartial

(* What routes are listed, their quotes are.                               *)
LEMMA ListOfPriced ==
  ASSUME NEW R, NEW rs, ListOf(rs, R), \A r \in R : IsPartial(r), NEW gasFee
  PROVE  ListOf(<< >> \o [i \in DOMAIN rs |-> Quote(rs[i].path, rs[i].hops, gasFee)], Priced(R, gasFee))
<1>. DEFINE F == [r \in R |-> Quote(r.path, r.hops, gasFee)]
            f == [i \in DOMAIN rs |-> Quote(rs[i].path, rs[i].hops, gasFee)]
            B == Image(F, R)
<1>1. B = Priced(R, gasFee)
  BY DEF Image, Priced
<1>2. F \in [R -> B] /\ Separates(F, R)
  <2>1. F \in [R -> B]
    BY DEF Image
  <2>2. ASSUME NEW x \in R, NEW y \in R, F[x] = F[y] PROVE x = y
    <3>1. Quote(x.path, x.hops, gasFee) = Quote(y.path, y.hops, gasFee)
      BY <2>2
    <3>. QED
      BY <3>1, PricedApart
  <2>. HIDE DEF F
  <2>. QED
    BY <2>1, <2>2 DEF Separates
<1>3. f = Mapped(F, rs)
  <2>1. \A i \in DOMAIN rs : rs[i] \in R
    BY LenProperties DEF ListOf
  <2>. QED
    BY <2>1 DEF Mapped
<1>. HIDE DEF F, f
<1>4. ListOf(<< >> \o Mapped(F, rs), Image(F, R))
  BY <1>2, ListOfImages
<1>. QED
  BY <1>1, <1>3, <1>4 DEF f

(* Each depth closes every partial route in every way, once.               *)
LEMMA ListOfClosed ==
  ASSUME NEW N \in SUBSET GoodPools, NEW graph, ListOf(graph, N), NEW amount, NEW d,
         NEW tokenOut \in Tokens, NEW gasFee,
         NEW A, NEW partials, ListOf(partials, A),
         \A p \in A : Begun(p, Fluid(N), amount, d) /\ OffPath(p, tokenOut)
  PROVE  ListOf(Closed(graph, partials, tokenOut, gasFee), Priced(More(Fluid(N), A, {tokenOut}), gasFee))
<1>. DEFINE L == Fluid(N)
            over(p) == Each(Extended(graph, p, tokenOut), LAMBDA r : Quote(r.path, r.hops, gasFee))
            F == [p \in A |-> over(p)]
            T == [p \in A |-> Priced(Forks(L, p, tokenOut), gasFee)]
            g == [i \in DOMAIN partials |-> over(partials[i])]
<1>1. L \in SUBSET GoodPools
  BY DEF Fluid
<1>2. Closed(graph, partials, tokenOut, gasFee) = FlattenSeq(<< >> \o g)
  BY DEF Closed, Each
<1>3. \A p : \A r \in Forks(L, p, tokenOut) : IsPartial(r)
  BY DEF Forks, IsPartial, Onward
<1>4. ASSUME NEW p \in A PROVE ListOf(over(p), Priced(Forks(L, p, tokenOut), gasFee))
  <2>. DEFINE rs == Extended(graph, p, tokenOut)
              f == [i \in DOMAIN rs |-> Quote(rs[i].path, rs[i].hops, gasFee)]
  <2>1. over(p) = << >> \o f
    BY DEF Each
  <2>2. ListOf(rs, Forks(L, p, tokenOut))
    BY ListOfExtended
  <2>. HIDE DEF rs, L, over
  <2>3. ListOf(<< >> \o f, Priced(Forks(L, p, tokenOut), gasFee))
    BY <1>3, <2>2, ListOfPriced
  <2>. QED
    BY <2>1, <2>3
<1>5. Parted(T, A)
  <2>1. ASSUME NEW p \in A, NEW q \in A, NEW x, x \in Priced(Forks(L, p, tokenOut), gasFee),
               x \in Priced(Forks(L, q, tokenOut), gasFee)
        PROVE  p = q
    <3>1. PICK r \in Forks(L, p, tokenOut), w \in Forks(L, q, tokenOut) :
            x = Quote(r.path, r.hops, gasFee) /\ x = Quote(w.path, w.hops, gasFee)
      BY <2>1 DEF Priced
    <3>2. r = w
      BY <1>3, <3>1, PricedApart
    <3>3. PICK g1 \in Hops(L), h1 \in Hops(L) : Onward(p, tokenOut, g1) = Onward(q, tokenOut, h1)
      BY <3>2 DEF Forks, Steps
    <3>4. Begun(p, L, amount, d) /\ Begun(q, L, amount, d)
      OBVIOUS
    <3>. HIDE DEF L
    <3>. QED
      BY <1>1, <3>3, <3>4, OnwardApart
  <2>2. ASSUME NEW p \in A, NEW q \in A, p # q PROVE T[p] \cap T[q] = {}
    BY <2>1, <2>2
  <2>. HIDE DEF T
  <2>. QED
    BY <2>2 DEF Parted
<1>6. Covered(T, A) = Priced(More(L, A, {tokenOut}), gasFee)
  <2>1. \A p \in A : Onto(L, p, {tokenOut}) = Forks(L, p, tokenOut)
    BY DEF Onto
  <2>2. \A r : r \in More(L, A, {tokenOut}) <=> \E p \in A : r \in Forks(L, p, tokenOut)
    BY <2>1 DEF More
  <2>3. \A x : x \in Covered(T, A) <=> \E p \in A : x \in Priced(Forks(L, p, tokenOut), gasFee)
    BY DEF Covered
  <2>. HIDE DEF T, L
  <2>4. \A x : x \in Covered(T, A) <=> x \in Priced(More(L, A, {tokenOut}), gasFee)
    BY <2>2, <2>3 DEF Priced
  <2>. QED
    BY <2>4
<1>. HIDE DEF over, L
<1>7. g = Mapped(F, partials)
  <2>1. \A i \in DOMAIN partials : partials[i] \in A
    BY LenProperties DEF ListOf
  <2>. QED
    BY <2>1 DEF Mapped
<1>8. \A p \in A : ListOf(F[p], T[p])
  BY <1>4
<1>. HIDE DEF F, T, g
<1>9. ListOf(FlattenSeq(<< >> \o Mapped(F, partials)), Covered(T, A))
  BY <1>5, <1>8, ListOfParts
<1>. QED
  BY <1>2, <1>6, <1>7, <1>9 DEF L

(* A single hop is a partial route.                                        *)
LEMMA OneBegun ==
  ASSUME NEW PS \in SUBSET GoodPools, NEW amount \in Nat \ {0}, NEW from \in Tokens, NEW t \in Tokens, t # from,
         NEW h \in Steps(PS, from, t, amount)
  PROVE  LET r == OneHop(from, t, h) IN
         Begun(r, PS, amount, 1) /\ r.path[1] = from /\ r.path[2] = t
<1>. DEFINE path == <<from, t>>
            hops == <<h>>
            r == OneHop(from, t, h)
<1>1. /\ h \in Hops(PS) /\ Between(h.pool, from, t) /\ h.amountIn = amount /\ h.amountOut > 0
      /\ h.amountOut = HopOut(h.pool, from, h.amountIn)
  BY DEF Steps
<1>2. path \in Seq(Tokens) /\ Len(path) = 2 /\ path[1] = from /\ path[2] = t
  OBVIOUS
<1>3. hops \in Seq(Hops(PS)) /\ Len(hops) = 1 /\ hops[1] = h
  BY <1>1
<1>4. r = [path |-> path, hops |-> hops]
  BY DEF OneHop
<1>. HIDE DEF path, hops, r
<1>5. r.path = path /\ r.hops = hops /\ r \in [path : Seq(Tokens), hops : Seq(Hops(PS))]
  BY <1>2, <1>3, <1>4
<1>6. (\A i \in 1..1 : i = 1) /\ (\A i \in 1..2 : i = 1 \/ i = 2) /\ 1 + 1 = 2
  OBVIOUS
<1>7. Chained(path, hops)
  BY <1>1, <1>2, <1>3, <1>6 DEF Chained
<1>8. Estimated(r)
  BY <1>1, <1>2, <1>3, <1>5, <1>6 DEF Estimated
<1>. QED
  BY <1>1, <1>2, <1>3, <1>5, <1>7, <1>8 DEF Begun, r

(* The routes of d hops that begin at from with an amount, go over tokens  *)
(* of K, through pools of PS that pay, and end in U.                       *)
Walks(PS, from, amount, K, d, U) ==
  {p \in [path : Seq(Tokens), hops : Seq(Hops(PS))] :
     /\ Begun(p, PS, amount, d) /\ p.path[1] = from
     /\ (\A i \in 2..d : p.path[i] \in K) /\ p.path[d + 1] \in U}

(* What it is to be one of them.                                           *)
LEMMA WalksFields ==
  ASSUME NEW PS, NEW from, NEW amount, NEW K, NEW d, NEW U, NEW p
  PROVE  p \in Walks(PS, from, amount, K, d, U) <=>
           /\ Begun(p, PS, amount, d) /\ p.path[1] = from
           /\ (\A i \in 2..d : p.path[i] \in K) /\ p.path[d + 1] \in U
BY Zenon DEF Walks, Begun

(* Those of one hop.                                                       *)
LEMMA WalksStart ==
  ASSUME NEW PS \in SUBSET GoodPools, NEW amount \in Nat \ {0}, NEW from \in Tokens, NEW K,
         NEW U \in SUBSET Tokens, from \notin U
  PROVE  Walks(PS, from, amount, K, 1, U) = Starts(PS, from, amount, U)
<1>1. ASSUME NEW r \in Starts(PS, from, amount, U) PROVE r \in Walks(PS, from, amount, K, 1, U)
  <2>1. PICK t \in U : \E h \in Steps(PS, from, t, amount) : r = OneHop(from, t, h)
    BY <1>1 DEF Starts, Ones
  <2>2. t \in Tokens /\ t # from
    BY <2>1
  <2>3. Begun(r, PS, amount, 1) /\ r.path[1] = from /\ r.path[2] = t
    BY <2>1, <2>2, OneBegun
  <2>4. (\A i \in 2..1 : r.path[i] \in K) /\ 1 + 1 = 2
    OBVIOUS
  <2>. QED
    BY <2>1, <2>3, <2>4, WalksFields
<1>2. ASSUME NEW p \in Walks(PS, from, amount, K, 1, U) PROVE p \in Starts(PS, from, amount, U)
  <2>. DEFINE t == p.path[2]
              h == p.hops[1]
  <2>1. Begun(p, PS, amount, 1) /\ p.path[1] = from /\ t \in U
    <3>1. 1 + 1 = 2
      OBVIOUS
    <3>. QED
      BY <1>2, <3>1, WalksFields
  <2>2. /\ p = [path |-> p.path, hops |-> p.hops] /\ p.path \in Seq(Tokens) /\ p.hops \in Seq(Hops(PS))
        /\ Len(p.path) = 2 /\ Len(p.hops) = 1 /\ h \in Hops(PS) /\ Between(h.pool, from, t)
        /\ h.amountIn = amount /\ h.amountOut > 0 /\ h.amountOut = HopOut(h.pool, from, amount)
    <3>1. PICK d : d = 1
      OBVIOUS
    <3>2. Begun(p, PS, amount, d)
      BY <2>1, <3>1
    <3>3. Along(p, PS, amount, d)
      BY <3>2, BegunFields
    <3>4. d + 1 = 2 /\ 1 \in 1..d /\ 1 + 1 = 2
      BY <3>1
    <3>. QED
      BY <2>1, <3>1, <3>3, <3>4 DEF Along
  <2>3. h \in Steps(PS, from, t, amount)
    BY <2>2 DEF Steps
  <2>4. p.path = <<from, t>>
    BY <2>1, <2>2
  <2>5. p.hops = <<h>>
    BY <2>2
  <2>6. p = OneHop(from, t, h)
    BY <2>2, <2>4, <2>5, Zenon DEF OneHop
  <2>. HIDE DEF t, h
  <2>. QED
    BY <2>1, <2>3, <2>6 DEF Starts, Ones
<1>. QED
  BY <1>1, <1>2

(* A route without its last hop.                                           *)
LEMMA Shorter ==
  ASSUME NEW PS \in SUBSET GoodPools, NEW amount, NEW d \in Nat \ {0}, NEW r, Begun(r, PS, amount, d + 1)
  PROVE  LET p == [path |-> [i \in 1..(d + 1) |-> r.path[i]], hops |-> [i \in 1..d |-> r.hops[i]]] IN
         /\ Begun(p, PS, amount, d) /\ OffPath(p, r.path[d + 2])
         /\ r.hops[d + 1] \in Steps(PS, Reached(p), r.path[d + 2], Carried(p))
         /\ r = Onward(p, r.path[d + 2], r.hops[d + 1])
<1>. DEFINE path == [i \in 1..(d + 1) |-> r.path[i]]
            hops == [i \in 1..d |-> r.hops[i]]
            p == [path |-> path, hops |-> hops]
            t == r.path[d + 2]
            h == r.hops[d + 1]
<1>1. /\ r = [path |-> r.path, hops |-> r.hops]
      /\ r.path \in Seq(Tokens) /\ r.hops \in Seq(Hops(PS))
      /\ Len(r.path) = d + 2 /\ Len(r.hops) = d + 1 /\ r.hops[1].amountIn = amount
      /\ \A i \in 1..(d + 1) :
           /\ r.hops[i] \in Hops(PS)
           /\ Between(r.hops[i].pool, r.path[i], r.path[i + 1])
           /\ r.hops[i].amountIn > 0 /\ r.hops[i].amountOut > 0
           /\ i > 1 => r.hops[i].amountIn = r.hops[i - 1].amountOut
           /\ r.hops[i].amountOut = HopOut(r.hops[i].pool, r.path[i], r.hops[i].amountIn)
      /\ \A i \in 1..(d + 2) : r.path[i] \in Tokens
      /\ \A i, j \in 1..(d + 2) : r.path[i] = r.path[j] => i = j
  <2>1. PICK m : m = d + 1
    OBVIOUS
  <2>2. Begun(r, PS, amount, m)
    BY <2>1
  <2>3. Along(r, PS, amount, m)
    BY <2>2, BegunFields
  <2>4. m + 1 = d + 2
    BY <2>1
  <2>. QED
    BY <2>1, <2>3, <2>4, Zenon DEF Along
<1>2. /\ \A i \in 1..d : i \in 1..(d + 1) /\ i + 1 \in 1..(d + 1) /\ (i > 1 => i - 1 \in 1..d)
      /\ \A i \in 1..(d + 1) : i \in 1..(d + 2) /\ i # d + 2
      /\ 1 \in 1..d /\ d + 1 \in 1..(d + 1) /\ d + 1 + 1 = d + 2 /\ d + 1 > 1 /\ d + 1 - 1 = d /\ d \in 1..d
      /\ d + 2 \in 1..(d + 2)
  OBVIOUS
<1>3. path \in Seq(Tokens) /\ Len(path) = d + 1 /\ \A i \in 1..(d + 1) : path[i] = r.path[i]
  <2>1. path \in [1..(d + 1) -> Tokens]
    BY <1>1, <1>2
  <2>. QED
    BY <2>1
<1>4. hops \in Seq(Hops(PS)) /\ Len(hops) = d /\ \A i \in 1..d : hops[i] = r.hops[i]
  <2>1. hops \in [1..d -> Hops(PS)]
    BY <1>1, <1>2
  <2>. QED
    BY <2>1
<1>5. p = [path |-> path, hops |-> hops]
  OBVIOUS
<1>. HIDE DEF path, hops, p
<1>6. p.path = path /\ p.hops = hops /\ p \in [path : Seq(Tokens), hops : Seq(Hops(PS))]
  BY <1>3, <1>4, <1>5
<1>7. Chained(path, hops)
  <2>1. ASSUME NEW i \in 1..d
        PROVE  /\ Between(hops[i].pool, path[i], path[i + 1])
               /\ hops[i].amountIn > 0 /\ hops[i].amountOut > 0
               /\ i > 1 => hops[i].amountIn = hops[i - 1].amountOut
    <3>1. i \in 1..(d + 1) /\ i + 1 \in 1..(d + 1) /\ (i > 1 => i - 1 \in 1..d)
      BY <1>2
    <3>2. hops[i] = r.hops[i] /\ path[i] = r.path[i] /\ path[i + 1] = r.path[i + 1]
          /\ (i > 1 => hops[i - 1] = r.hops[i - 1])
      BY <1>3, <1>4, <3>1
    <3>. QED
      BY <1>1, <3>1, <3>2
  <2>2. \A i, j \in 1..(d + 1) : path[i] = path[j] => i = j
    BY <1>1, <1>2, <1>3
  <2>. QED
    BY <1>3, <1>4, <2>1, <2>2 DEF Chained
<1>8. Estimated(p)
  <2>1. ASSUME NEW i \in 1..d PROVE hops[i].amountOut = HopOut(hops[i].pool, path[i], hops[i].amountIn)
    <3>1. i \in 1..(d + 1) /\ hops[i] = r.hops[i] /\ path[i] = r.path[i]
      BY <1>2, <1>3, <1>4
    <3>. QED
      BY <1>1, <3>1
  <2>. QED
    BY <1>4, <1>6, <2>1 DEF Estimated
<1>9. Begun(p, PS, amount, d)
  BY <1>1, <1>2, <1>4, <1>6, <1>7, <1>8 DEF Begun
<1>10. OffPath(p, t)
  BY <1>1, <1>2, <1>3, <1>6 DEF OffPath
<1>11. Reached(p) = r.path[d + 1] /\ Carried(p) = r.hops[d].amountOut
  <2>1. Along(p, PS, amount, d)
    BY <1>9, BegunFields
  <2>. QED
    BY <1>2, <1>3, <1>4, <1>6, <2>1 DEF Along
<1>12. h \in Steps(PS, Reached(p), t, Carried(p))
  <2>1. /\ h \in Hops(PS) /\ Between(h.pool, r.path[d + 1], t) /\ h.amountOut > 0
        /\ h.amountIn = r.hops[d].amountOut /\ h.amountOut = HopOut(h.pool, r.path[d + 1], h.amountIn)
    <3>1. Between(h.pool, r.path[d + 1], r.path[d + 1 + 1])
      BY <1>1, <1>2
    <3>2. h.amountIn = r.hops[d + 1 - 1].amountOut
      <4>. DEFINE i == d + 1
      <4>1. i \in 1..(d + 1) /\ i > 1
        BY <1>2
      <4>. HIDE DEF i
      <4>2. r.hops[i].amountIn = r.hops[i - 1].amountOut
        BY <1>1, <4>1
      <4>. QED
        BY <4>2 DEF i
    <3>. QED
      BY <1>1, <1>2, <3>1, <3>2
  <2>. HIDE DEF h, t
  <2>. QED
    BY <1>11, <2>1 DEF Steps
<1>13. r = Onward(p, t, h)
  <2>. DEFINE w == Onward(p, t, h)
  <2>1. t \in Tokens /\ h \in Hops(PS)
    BY <1>1, <1>2
  <2>2. Extends(w, p, t, h, PS, d)
    BY <1>9, <2>1, OnwardFields
  <2>. HIDE DEF w
  <2>4. \A i \in 1..(d + 2) : w.path[i] = r.path[i]
    <3>1. \A i \in 1..(d + 2) : i = d + 2 \/ i \in 1..(d + 1)
      OBVIOUS
    <3>. QED
      BY <1>3, <1>6, <2>2, <3>1 DEF Extends
  <2>5. \A i \in 1..(d + 1) : w.hops[i] = r.hops[i]
    <3>1. \A i \in 1..(d + 1) : i = d + 1 \/ i \in 1..d
      OBVIOUS
    <3>. QED
      BY <1>4, <1>6, <2>2, <3>1 DEF Extends
  <2>6. w.path = r.path
    BY <1>1, <2>2, <2>4, SameList DEF Extends
  <2>7. w.hops = r.hops
    <3>1. Len(w.hops) = Len(r.hops) /\ \A i \in 1..Len(w.hops) : w.hops[i] = r.hops[i]
      BY <1>1, <2>2, <2>5 DEF Extends
    <3>2. w.hops \in Seq(Hops(PS)) /\ r.hops \in Seq(Hops(PS))
      BY <1>1, <2>2 DEF Extends
    <3>. QED
      BY <3>1, <3>2, SameList
  <2>8. r = w
    BY <1>1, <2>2, <2>6, <2>7 DEF Extends
  <2>. QED
    BY <2>8 DEF w
<1>. QED
  BY <1>9, <1>10, <1>12, <1>13 DEF p, path, hops

(* Those of one more hop are those that go on from a shorter one.          *)
LEMMA WalksMore ==
  ASSUME NEW PS \in SUBSET GoodPools, NEW amount, NEW from, NEW K \in SUBSET Tokens,
         NEW U \in SUBSET Tokens, NEW d \in Nat \ {0}
  PROVE  Walks(PS, from, amount, K, d + 1, U) = More(PS, Walks(PS, from, amount, K, d, K), U)
<1>. DEFINE A == Walks(PS, from, amount, K, d, K)
            B == Walks(PS, from, amount, K, d + 1, U)
<1>1. ASSUME NEW r \in More(PS, A, U) PROVE r \in B
  <2>1. PICK p \in A, t \in U : OffPath(p, t) /\ r \in Forks(PS, p, t)
    BY <1>1 DEF More, Onto
  <2>2. PICK h \in Steps(PS, Reached(p), t, Carried(p)) : r = Onward(p, t, h)
    BY <2>1 DEF Forks
  <2>3. /\ Begun(p, PS, amount, d) /\ p.path[1] = from
        /\ (\A i \in 2..d : p.path[i] \in K) /\ p.path[d + 1] \in K
    BY <2>1, WalksFields
  <2>4. Begun(r, PS, amount, d + 1)
    BY <2>1, <2>2, <2>3, Longer
  <2>5. r.path[d + 2] = t /\ \A i \in 1..(d + 1) : r.path[i] = p.path[i]
    <3>1. Extends(r, p, t, h, PS, d)
      BY <2>2, <2>3, OnwardFields DEF Steps
    <3>. QED
      BY <3>1 DEF Extends
  <2>6. \A i \in 2..(d + 1) : i \in 1..(d + 1) /\ (i = d + 1 \/ i \in 2..d)
    OBVIOUS
  <2>7. 1 \in 1..(d + 1) /\ d + 1 + 1 = d + 2
    OBVIOUS
  <2>8. r.path[1] = from /\ (\A i \in 2..(d + 1) : r.path[i] \in K) /\ r.path[d + 1 + 1] \in U
    BY <2>1, <2>3, <2>5, <2>6, <2>7
  <2>. QED
    BY <2>4, <2>8, WalksFields
<1>2. ASSUME NEW r \in B PROVE r \in More(PS, A, U)
  <2>. DEFINE p == [path |-> [i \in 1..(d + 1) |-> r.path[i]], hops |-> [i \in 1..d |-> r.hops[i]]]
              t == r.path[d + 2]
              h == r.hops[d + 1]
  <2>1. /\ Begun(r, PS, amount, d + 1) /\ r.path[1] = from
        /\ (\A i \in 2..(d + 1) : r.path[i] \in K) /\ r.path[d + 1 + 1] \in U
    BY <1>2, WalksFields
  <2>2. /\ Begun(p, PS, amount, d) /\ OffPath(p, t)
        /\ h \in Steps(PS, Reached(p), t, Carried(p)) /\ r = Onward(p, t, h)
    BY <2>1, Shorter
  <2>3. \A i \in 1..(d + 1) : p.path[i] = r.path[i]
    OBVIOUS
  <2>. HIDE DEF p
  <2>4. /\ 1 \in 1..(d + 1) /\ d + 1 + 1 = d + 2 /\ d + 1 \in 2..(d + 1) /\ d + 1 \in 1..(d + 1)
        /\ \A i \in 2..d : i \in 2..(d + 1) /\ i \in 1..(d + 1)
    OBVIOUS
  <2>5. p.path[1] = from /\ (\A i \in 2..d : p.path[i] \in K) /\ p.path[d + 1] \in K /\ t \in U
    BY <2>1, <2>3, <2>4
  <2>6. p \in A
    BY <2>2, <2>5, WalksFields
  <2>. HIDE DEF A, t, h
  <2>. QED
    BY <2>2, <2>5, <2>6 DEF More, Onto, Forks
<1>. QED
  BY <1>1, <1>2

(* More to go on from is more to come to.                                  *)
LEMMA MoreMonotone ==
  ASSUME NEW PS, NEW A, NEW B, A \subseteq B, NEW T
  PROVE  More(PS, A, T) \subseteq More(PS, B, T)
BY DEF More

(* What is known of the routes of d hops.                                  *)
LEMMA WalksLength ==
  ASSUME NEW PS \in SUBSET GoodPools, NEW amount, NEW from, NEW K, NEW d, NEW U,
         NEW p \in Walks(PS, from, amount, K, d, U)
  PROVE  IsPartial(p) /\ Len(p.hops) = d /\ Begun(p, PS, amount, d)
<1>1. Begun(p, PS, amount, d)
  BY WalksFields, Zenon
<1>2. Along(p, PS, amount, d)
  BY <1>1, BegunFields
<1>. QED
  BY <1>1, <1>2 DEF Along, IsPartial

(* Partial routes have not come to the token they are to end at.           *)
LEMMA WalksAvoid ==
  ASSUME NEW PS \in SUBSET GoodPools, NEW amount, NEW from, NEW K, NEW d,
         NEW p \in Walks(PS, from, amount, K, d, K), NEW token, token # from, token \notin K
  PROVE  OffPath(p, token)
<1>1. /\ p.path[1] = from /\ (\A i \in 2..d : p.path[i] \in K) /\ p.path[d + 1] \in K
      /\ Begun(p, PS, amount, d)
  BY WalksFields
<1>4. Along(p, PS, amount, d)
  BY <1>1, BegunFields
<1>2. Len(p.path) = d + 1 /\ d \in Nat \ {0}
  BY <1>4 DEF Along
<1>3. \A i \in 1..(d + 1) : i = 1 \/ i \in 2..d \/ i = d + 1
  BY <1>2
<1>. QED
  BY <1>1, <1>2, <1>3 DEF OffPath

(* The whole routes over one to k intermediate tokens.                     *)
Ways(PS, from, to, amount, K, k) == UNION {Walks(PS, from, amount, K, j + 1, {to}) : j \in 1..k}

(* The routes that pruning keeps are some of those there were, or all of   *)
(* them if there were no more than it keeps.                               *)
LEMMA ListOfPruned ==
  ASSUME NEW PS \in SUBSET GoodPools, NEW amount, NEW d, NEW A, NEW partials, ListOf(partials, A),
         \A p \in A : Begun(p, PS, amount, d)
  PROVE  CutOf(Pruned(partials), partials, MaxPartials, A)
<1>. DEFINE n == Len(partials)
            k == [i \in DOMAIN partials |-> Carried(partials[i])]
            key == Each(partials, Carried)
            sorted == Descending(partials, key)
<1>1. n \in Nat /\ DOMAIN partials = 1..n /\ \A i \in 1..n : partials[i] \in A
  BY LenProperties DEF ListOf
<1>2. key = << >> \o k
  BY DEF Each
<1>3. \A p \in A : Carried(p) \in Nat
  BY BegunFields DEF Along
<1>4. k \in [1..n -> Int]
  BY <1>1, <1>3
<1>. HIDE DEF k
<1>5. key \in [1..n -> Int]
  <2>. HIDE DEF key, n
  <2>. QED
    BY <1>1, <1>2, <1>4, Listing
<1>6. Pruned(partials) = UpTo(sorted, MaxPartials)
  BY DEF Pruned
<1>. HIDE DEF key
<1>7. ListOf(sorted, A) /\ Len(sorted) = n
  BY <1>5, ListOfDescending
<1>8. MaxPartials \in Nat
  BY RouteSearchAssumption
<1>. HIDE DEF sorted
<1>9. CutOf(UpTo(sorted, MaxPartials), sorted, MaxPartials, A)
  BY <1>7, <1>8, ListOfUpTo
<1>. QED
  BY <1>6, <1>7, <1>9 DEF CutOf

(* What is known when k depths are searched: the partial routes and the    *)
(* results are listed, and unless some were pruned there are no others.    *)
(* Nothing is pruned before the routes over one token are closed.          *)
FoundAt(s, PS, from, to, amount, K, gasFee, k) ==
  \E A \in SUBSET Walks(PS, from, amount, K, k + 1, K), R \in SUBSET Ways(PS, from, to, amount, K, k) :
    /\ ListOf(s.results, Priced(R, gasFee)) /\ s.pruned \in BOOLEAN
    /\ k < MaxHopDepth => ListOf(s.partials, A)
    /\ k = 0 \/ ~s.pruned => A = Walks(PS, from, amount, K, k + 1, K)
    /\ ~s.pruned => R = Ways(PS, from, to, amount, K, k)
    /\ k > 0 => Walks(PS, from, amount, K, 2, {to}) \subseteq R

(* One depth adds the routes of one hop more.                              *)
LEMMA WaysMore ==
  ASSUME NEW PS, NEW from, NEW to, NEW amount, NEW K, NEW k \in Nat
  PROVE  Ways(PS, from, to, amount, K, k + 1)
           = Ways(PS, from, to, amount, K, k) \cup Walks(PS, from, amount, K, k + 2, {to})
<1>. DEFINE W(j) == Walks(PS, from, amount, K, j + 1, {to})
<1>1. \A j \in 1..(k + 1) : j \in 1..k \/ j = k + 1
  OBVIOUS
<1>2. k + 1 \in 1..(k + 1) /\ \A j \in 1..k : j \in 1..(k + 1)
  OBVIOUS
<1>3. k + 1 + 1 = k + 2
  OBVIOUS
<1>4. W(k + 1) = Walks(PS, from, amount, K, k + 2, {to})
  BY <1>3
<1>. HIDE DEF W
<1>5. UNION {W(j) : j \in 1..(k + 1)} = (UNION {W(j) : j \in 1..k}) \cup W(k + 1)
  BY <1>1, <1>2
<1>. QED
  BY <1>4, <1>5 DEF Ways, W

(* Routes of different lengths are quoted differently.                     *)
LEMMA LongerPriced ==
  ASSUME NEW PS \in SUBSET GoodPools, NEW from, NEW to, NEW amount, NEW K, NEW k \in Nat, NEW gasFee,
         NEW R \in SUBSET Ways(PS, from, to, amount, K, k),
         NEW M \in SUBSET Walks(PS, from, amount, K, k + 2, {to})
  PROVE  Priced(R, gasFee) \cap Priced(M, gasFee) = {} /\ Priced(R \cup M, gasFee) = Priced(R, gasFee) \cup Priced(M, gasFee)
<1>1. ASSUME NEW r \in R PROVE IsPartial(r) /\ Len(r.hops) # k + 2
  <2>1. PICK j \in 1..k : r \in Walks(PS, from, amount, K, j + 1, {to})
    BY DEF Ways
  <2>2. IsPartial(r) /\ Len(r.hops) = j + 1
    <3>. DEFINE d == j + 1
    <3>1. r \in Walks(PS, from, amount, K, d, {to})
      BY <2>1
    <3>. HIDE DEF d
    <3>2. IsPartial(r) /\ Len(r.hops) = d
      BY <3>1, WalksLength
    <3>. QED
      BY <3>2 DEF d
  <2>. QED
    BY <2>2
<1>2. ASSUME NEW m \in M PROVE IsPartial(m) /\ Len(m.hops) = k + 2
  <2>. DEFINE d == k + 2
  <2>1. m \in Walks(PS, from, amount, K, d, {to})
    OBVIOUS
  <2>. HIDE DEF d
  <2>2. IsPartial(m) /\ Len(m.hops) = d
    BY <2>1, WalksLength
  <2>. QED
    BY <2>2 DEF d
<1>3. ASSUME NEW r \in R, NEW m \in M PROVE Quote(r.path, r.hops, gasFee) # Quote(m.path, m.hops, gasFee)
  <2>1. r # m
    BY <1>1, <1>2
  <2>. QED
    BY <1>1, <1>2, <2>1, PricedApart
<1>. QED
  BY <1>3 DEF Priced

(* The search begins with every route of one hop.                          *)
LEMMA FoundFirst ==
  ASSUME NEW N \in SUBSET GoodPools, NEW graph, ListOf(graph, N), NEW amount \in Nat \ {0},
         NEW from \in Tokens, NEW to, NEW K \in SUBSET Tokens, from \notin K,
         NEW tokens, ListOf(tokens, K), NEW gasFee,
         NEW s, s.results = << >>, s.pruned = FALSE, s.partials = FirstPartials(graph, tokens, from, amount)
  PROVE  FoundAt(s, Fluid(N), from, to, amount, K, gasFee, 0)
<1>. DEFINE L == Fluid(N)
            A == Walks(L, from, amount, K, 1, K)
            W == Ways(L, from, to, amount, K, 0)
<1>1. L \in SUBSET GoodPools
  BY DEF Fluid
<1>2. ListOf(s.partials, Starts(L, from, amount, K))
  BY ListOfFirst
<1>. HIDE DEF L
<1>3. A = Starts(L, from, amount, K)
  BY <1>1, WalksStart
<1>4. W = {}
  BY DEF Ways
<1>5. ListOf(s.results, Priced({}, gasFee))
  BY DEF ListOf, Priced
<1>6. 0 + 1 = 1
  OBVIOUS
<1>. DEFINE B == Walks(L, from, amount, K, 0 + 1, K)
<1>7. A = B
  BY <1>6
<1>. HIDE DEF A, W
<1>8. ListOf(s.partials, B) /\ s.pruned = FALSE
  BY <1>2, <1>3, <1>7
<1>9. \E C \in SUBSET B, R \in SUBSET W :
        /\ ListOf(s.results, Priced(R, gasFee)) /\ s.pruned \in BOOLEAN
        /\ 0 < MaxHopDepth => ListOf(s.partials, C)
        /\ 0 = 0 \/ ~s.pruned => C = B
        /\ ~s.pruned => R = W
        /\ 0 > 0 => Walks(L, from, amount, K, 2, {to}) \subseteq R
  <2>. HIDE DEF B
  <2>1. B \in SUBSET B /\ {} \in SUBSET W
    OBVIOUS
  <2>2. ~(0 > 0)
    OBVIOUS
  <2>. QED
    BY <1>4, <1>5, <1>8, <2>1, <2>2
<1>. QED
  BY <1>9 DEF FoundAt, L, B, W

(* Every depth closes the routes that it should, and finds the partial     *)
(* routes of one hop more.                                                 *)
LEMMA FoundDeeper ==
  ASSUME NEW N \in SUBSET GoodPools, NEW graph, ListOf(graph, N), NEW amount \in Nat \ {0},
         NEW from \in Tokens, NEW to \in Tokens, from # to,
         NEW K \in SUBSET Tokens, from \notin K, to \notin K, NEW tokens, ListOf(tokens, K), NEW gasFee,
         NEW k \in Nat, k < MaxHopDepth, NEW s, FoundAt(s, Fluid(N), from, to, amount, K, gasFee, k)
  PROVE  FoundAt(Deeper(s, graph, tokens, to, gasFee, k + 1 = MaxHopDepth),
                 Fluid(N), from, to, amount, K, gasFee, k + 1)
<1>. DEFINE L == Fluid(N)
            W(d, U) == Walks(L, from, amount, K, d, U)
            All(j) == Ways(L, from, to, amount, K, j)
            deepest == k + 1 = MaxHopDepth
            t == Deeper(s, graph, tokens, to, gasFee, deepest)
            closed == Closed(graph, s.partials, to, gasFee)
            kept == Pruned(s.partials)
            longer == Expanded(graph, tokens, kept)
<1>1. PICK A \in SUBSET Walks(L, from, amount, K, k + 1, K), R \in SUBSET Ways(L, from, to, amount, K, k) :
        /\ ListOf(s.results, Priced(R, gasFee)) /\ s.pruned \in BOOLEAN
        /\ k < MaxHopDepth => ListOf(s.partials, A)
        /\ k = 0 \/ ~s.pruned => A = Walks(L, from, amount, K, k + 1, K)
        /\ ~s.pruned => R = Ways(L, from, to, amount, K, k)
        /\ k > 0 => Walks(L, from, amount, K, 2, {to}) \subseteq R
  BY DEF FoundAt
<1>2. PICK d \in Nat \ {0} : d = k + 1
  OBVIOUS
<1>3. /\ A \in SUBSET W(d, K) /\ R \in SUBSET All(k) /\ ListOf(s.results, Priced(R, gasFee))
      /\ s.pruned \in BOOLEAN /\ ListOf(s.partials, A)
      /\ k = 0 \/ ~s.pruned => A = W(d, K)
      /\ ~s.pruned => R = All(k)
      /\ k > 0 => W(2, {to}) \subseteq R
  BY <1>1, <1>2
<1>4. L \in SUBSET GoodPools
  BY DEF Fluid
<1>5. t.results = s.results \o closed /\ t.partials = (IF deepest THEN << >> ELSE longer)
      /\ t.pruned = (s.pruned \/ (~deepest /\ Len(s.partials) > MaxPartials))
  BY DEF Deeper
<1>6. \A p \in A : Begun(p, L, amount, d) /\ OffPath(p, to)
  <2>. HIDE DEF L
  <2>1. ASSUME NEW p \in A PROVE Begun(p, L, amount, d) /\ OffPath(p, to)
    <3>1. p \in Walks(L, from, amount, K, d, K)
      BY <1>3
    <3>. QED
      BY <1>4, <3>1, WalksLength, WalksAvoid
  <2>. QED
    BY <2>1
<1>. DEFINE M == More(L, A, {to})
<1>7. ListOf(closed, Priced(M, gasFee))
  BY <1>3, <1>6, ListOfClosed
<1>. HIDE DEF t, closed, L
<1>8. W(d + 1, {to}) = More(L, W(d, K), {to}) /\ W(d + 1, K) = More(L, W(d, K), K)
  <2>1. {to} \in SUBSET Tokens
    OBVIOUS
  <2>. QED
    BY <1>2, <1>4, <2>1, WalksMore
<1>9. d + 1 = k + 2 /\ k + 1 = d
  BY <1>2
<1>10. M \in SUBSET W(d + 1, {to})
  <2>. HIDE DEF W
  <2>1. A \subseteq W(d, K)
    BY <1>3
  <2>. QED
    BY <1>8, <2>1, MoreMonotone
<1>11. All(d) = All(k) \cup W(d + 1, {to})
  <2>1. All(k + 1) = All(k) \cup W(k + 2, {to})
    BY WaysMore
  <2>. HIDE DEF All, W
  <2>. QED
    BY <1>9, <2>1
<1>12. ListOf(t.results, Priced(R \cup M, gasFee))
  <2>1. M \in SUBSET Walks(L, from, amount, K, k + 2, {to})
    BY <1>9, <1>10
  <2>. HIDE DEF M
  <2>2. /\ Priced(R, gasFee) \cap Priced(M, gasFee) = {}
        /\ Priced(R \cup M, gasFee) = Priced(R, gasFee) \cup Priced(M, gasFee)
    BY <1>3, <1>4, <2>1, LongerPriced
  <2>3. ListOf(s.results \o closed, Priced(R, gasFee) \cup Priced(M, gasFee))
    BY <1>3, <1>7, <2>2, ListOfJoined
  <2>. QED
    BY <1>5, <2>2, <2>3
<1>13. /\ R \cup M \in SUBSET All(d) /\ t.pruned \in BOOLEAN
       /\ ~t.pruned => R \cup M = All(d)
       /\ W(2, {to}) \subseteq R \cup M
  <2>1. ~t.pruned => ~s.pruned
    BY <1>3, <1>5
  <2>2. ~s.pruned => M = W(d + 1, {to})
    BY <1>3, <1>8
  <2>3. k = 0 => M = W(2, {to})
    <3>1. k = 0 => A = W(d, K) /\ d + 1 = 2
      BY <1>2, <1>3
    <3>. QED
      BY <1>8, <3>1
  <2>4. t.pruned \in BOOLEAN
    BY <1>3, <1>5
  <2>5. k = 0 \/ k > 0
    OBVIOUS
  <2>. HIDE DEF M, W, All
  <2>. QED
    BY <1>3, <1>10, <1>11, <2>1, <2>2, <2>3, <2>4, <2>5
<1>14. \E B \in SUBSET W(d + 1, K) : /\ d < MaxHopDepth => ListOf(t.partials, B)
                                     /\ ~t.pruned => B = W(d + 1, K)
  <2>1. CASE deepest
    <3>1. ~(d < MaxHopDepth)
      BY <1>2, <2>1
    <3>. HIDE DEF W
    <3>. QED
      BY <3>1
  <2>2. CASE ~deepest
    <3>1. PICK C \in SUBSET A : ListOf(kept, C) /\ (Len(s.partials) <= MaxPartials => C = A)
      <4>1. \A p \in A : Begun(p, L, amount, d)
        BY <1>6
      <4>2. CutOf(kept, s.partials, MaxPartials, A)
        BY <1>3, <1>4, <4>1, ListOfPruned
      <4>. QED
        BY <4>2 DEF CutOf
    <3>2. ListOf(longer, More(L, C, K))
      <4>1. \A p \in C : Begun(p, Fluid(N), amount, d)
        BY <1>6 DEF L
      <4>. HIDE DEF kept
      <4>2. ListOf(longer, More(Fluid(N), C, K))
        BY <3>1, <4>1, ListOfExpanded
      <4>. QED
        BY <4>2 DEF L
    <3>3. More(L, C, K) \in SUBSET W(d + 1, K)
      <4>. HIDE DEF W
      <4>1. C \subseteq W(d, K)
        BY <1>3
      <4>. QED
        BY <1>8, <4>1, MoreMonotone
    <3>4. ~t.pruned => C = W(d, K)
      <4>1. ~t.pruned => ~s.pruned /\ ~(Len(s.partials) > MaxPartials)
        BY <1>3, <1>5, <2>2
      <4>2. Len(s.partials) \in Nat /\ MaxPartials \in Nat
        BY <1>3, LenProperties, RouteSearchAssumption DEF ListOf
      <4>3. ~(Len(s.partials) > MaxPartials) => Len(s.partials) <= MaxPartials
        BY <4>2
      <4>. HIDE DEF W
      <4>. QED
        BY <1>3, <3>1, <4>1, <4>3
    <3>5. t.partials = longer
      BY <1>5, <2>2
    <3>. HIDE DEF longer, W
    <3>6. ~t.pruned => More(L, C, K) = W(d + 1, K)
      BY <1>8, <3>4
    <3>. WITNESS More(L, C, K) \in SUBSET W(d + 1, K)
    <3>. QED
      BY <3>2, <3>5, <3>6
  <2>. QED
    BY <2>1, <2>2
<1>15. PICK B \in SUBSET Walks(L, from, amount, K, d + 1, K) :
          /\ d < MaxHopDepth => ListOf(t.partials, B)
          /\ ~t.pruned => B = Walks(L, from, amount, K, d + 1, K)
  BY <1>14
<1>. DEFINE Q == R \cup M
<1>16. /\ Q \in SUBSET Ways(L, from, to, amount, K, d) /\ t.pruned \in BOOLEAN
       /\ ListOf(t.results, Priced(Q, gasFee))
       /\ ~t.pruned => Q = Ways(L, from, to, amount, K, d)
       /\ Walks(L, from, amount, K, 2, {to}) \subseteq Q
  BY <1>12, <1>13
<1>. HIDE DEF Q, M
<1>17. d # 0
  BY <1>2
<1>18. FoundAt(t, L, from, to, amount, K, gasFee, d)
  BY <1>15, <1>16, <1>17 DEF FoundAt
<1>. QED
  BY <1>2, <1>18 DEF t, L

(* The elements of a sequence are all different.                           *)
Unrepeated(s) == \A i, j \in 1..Len(s) : s[i] = s[j] => i = j

(* Such a sequence lists its elements.                                     *)
LEMMA ListOfElements ==
  ASSUME NEW T, NEW s \in Seq(T), Unrepeated(s)
  PROVE  ListOf(s, ToSet(s))
<1>1. DOMAIN s = 1..Len(s) /\ s \in [1..Len(s) -> T]
  BY LenProperties
<1>2. ToSet(s) = {s[i] : i \in 1..Len(s)}
  BY <1>1 DEF ToSet
<1>3. s \in [1..Len(s) -> ToSet(s)] /\ Len(s) \in Nat
  BY <1>1, <1>2, LenProperties
<1>4. s \in Seq(ToSet(s))
  BY <1>3
<1>. QED
  BY <1>2, <1>4 DEF ListOf, Unrepeated

(* What is listed are the elements of the list.                            *)
LEMMA ElementsOfList ==
  ASSUME NEW T, NEW s, ListOf(s, T)
  PROVE  ToSet(s) = T /\ DOMAIN s = 1..Len(s)
<1>1. DOMAIN s = 1..Len(s) /\ \A i \in 1..Len(s) : s[i] \in T
  BY LenProperties DEF ListOf
<1>2. \A x \in T : \E i \in 1..Len(s) : s[i] = x
  BY DEF ListOf
<1>. QED
  BY <1>1, <1>2 DEF ToSet

(* A list is as long as what it lists is large.                            *)
LEMMA SizeOfList ==
  ASSUME NEW T, NEW s, ListOf(s, T)
  PROVE  Cardinality(T) = Len(s)
<1>. DEFINE n == Len(s)
<1>1. n \in Nat /\ s \in [1..n -> T]
  BY LenProperties DEF ListOf
<1>2. (\A i, j \in 1..n : s[i] = s[j] => i = j) /\ \A x \in T : \E i \in 1..n : s[i] = x
  BY DEF ListOf
<1>. HIDE DEF n
<1>3. s \in Bijection(1..n, T)
  BY <1>1, <1>2 DEF Bijection, Injection, Surjection, IsInjective
<1>4. ExistsBijection(1..n, T)
  BY <1>3 DEF ExistsBijection
<1>. QED
  BY <1>1, <1>4, FS_CountingElements DEF n

(* The intermediate tokens of a request, each once if the configuration    *)
(* has each once.                                                          *)
LEMMA CandidatesListed ==
  ASSUME Unrepeated(Intermediates), NEW from, NEW to
  PROVE  LET K == ToSet(Candidates(from, to)) IN
         ListOf(Candidates(from, to), K) /\ K \in SUBSET Tokens /\ from \notin K /\ to \notin K
<1>. DEFINE S == {i \in DOMAIN Intermediates : Intermediates[i] \notin {from, to}}
            U == {Intermediates[i] : i \in S}
            c == Candidates(from, to)
<1>1. Intermediates \in Seq(ToSet(Intermediates))
  BY RouteSearchAssumption
<1>2. ListOf(Intermediates, ToSet(Intermediates)) /\ DOMAIN Intermediates = 1..Len(Intermediates)
  BY <1>1, ListOfElements, LenProperties
<1>3. S \in SUBSET (1..Len(Intermediates)) /\ c = Picked(Intermediates, S)
  BY <1>2 DEF Candidates
<1>. HIDE DEF S, c
<1>4. ListOf(c, U)
  BY <1>2, <1>3, ListOfPicked
<1>. HIDE DEF U
<1>5. ListOf(c, ToSet(c))
  BY <1>4, ElementsOfList
<1>6. c \in Seq(Betweens(from, to))
  BY CandidatesFacts DEF c
<1>7. ToSet(c) \subseteq Betweens(from, to)
  <2>1. \A i \in 1..Len(c) : c[i] \in Betweens(from, to)
    BY <1>6
  <2>2. DOMAIN c = 1..Len(c)
    BY <1>6, LenProperties
  <2>. QED
    BY <2>1, <2>2 DEF ToSet
<1>. QED
  BY <1>5, <1>7 DEF Betweens, c

(* The pools of a graph are listed, and told apart by their ids.           *)
Identified(N) == \A p, q \in N : p.id = q.id => p = q

(* The pools that were read are, for factories that give each pool once.   *)
LEMMA GraphListed ==
  ASSUME Unrepeated(Order), PoolsOK, NEW lost
  PROVE  LET N == ToSet(Graph(lost)) IN
         ListOf(Graph(lost), N) /\ N \in SUBSET GoodPools /\ Identified(N)
<1>. DEFINE S == {i \in DOMAIN Order : Order[i] \notin lost /\ pools[Order[i]].version \in ask.versions}
            I == ToSet(Order)
            some == Picked(Order, S)
            J == {Order[i] : i \in S}
            F == [id \in J |-> pools[id]]
            g == [i \in DOMAIN some |-> pools[some[i]]]
            N == Image(F, J)
<1>1. Graph(lost) = << >> \o g
  BY DEF Graph, Each
<1>2. Order \in Seq(I)
  BY PriceAssumption
<1>3. ListOf(Order, I) /\ DOMAIN Order = 1..Len(Order)
  BY <1>2, ListOfElements, LenProperties
<1>4. S \in SUBSET (1..Len(Order))
  BY <1>3
<1>5. J \in SUBSET I
  <2>1. \A i \in 1..Len(Order) : Order[i] \in I
    BY <1>2
  <2>. HIDE DEF I
  <2>. QED
    BY <1>4, <2>1
<1>. HIDE DEF S, I
<1>6. ListOf(some, J)
  BY <1>3, <1>4, ListOfPicked
<1>7. \A id \in I : pools[id] \in GoodPools /\ pools[id].id = id
  BY DEF PoolsOK, I
<1>. HIDE DEF J, some
<1>8. F \in [J -> GoodPools] /\ Separates(F, J) /\ N \in SUBSET GoodPools /\ \A id \in J : F[id].id = id
  BY <1>5, <1>7 DEF Separates, Image
<1>9. g = Mapped(F, some)
  <2>1. \A i \in DOMAIN some : some[i] \in J
    BY <1>6, LenProperties DEF ListOf
  <2>. QED
    BY <2>1 DEF Mapped
<1>10. Identified(N)
  <2>. HIDE DEF F
  <2>. QED
    BY <1>8 DEF Identified, Image
<1>. HIDE DEF F, g, N
<1>11. ListOf(<< >> \o g, Image(F, J))
  BY <1>6, <1>8, <1>9, ListOfImages
<1>12. ListOf(Graph(lost), N)
  BY <1>1, <1>11 DEF N
<1>13. ToSet(Graph(lost)) = N
  BY <1>12, ElementsOfList
<1>. QED
  BY <1>8, <1>10, <1>12, <1>13

(* What the search returns.                                                *)
LEMMA SearchFound ==
  ASSUME NEW N \in SUBSET GoodPools, NEW graph, ListOf(graph, N), NEW amount \in Nat \ {0},
         NEW from \in Tokens, NEW to \in Tokens, from # to, NEW gasFee \in {None} \cup Nat,
         Unrepeated(Intermediates), NEW K, K = ToSet(Candidates(from, to))
  PROVE  FoundAt(Search(graph, from, to, amount, gasFee), Fluid(N), from, to, amount, K, gasFee, MaxHopDepth)
<1>. DEFINE L == Fluid(N)
            tokens == Candidates(from, to)
            n == MaxHopDepth
<1>1. graph \in Seq(N)
  BY DEF ListOf
<1>2. PICK p : /\ Search(graph, from, to, amount, gasFee) = p[MaxHopDepth]
               /\ Deepens(p, graph, from, to, amount, gasFee)
  BY <1>1, SearchSteps
<1>3. /\ p[0].results = << >> /\ p[0].pruned = FALSE
      /\ p[0].partials = FirstPartials(graph, tokens, from, amount)
  <2>1. p[0] = [ results |-> << >>, pruned |-> FALSE,
                 partials |-> FirstPartials(graph, tokens, from, amount) ]
    BY <1>2 DEF Deepens
  <2>. QED
    BY <2>1
<1>4. \A k \in 1..n : p[k] = Deeper(p[k - 1], graph, tokens, to, gasFee, k = n)
  BY <1>2 DEF Deepens
<1>5. ListOf(tokens, K) /\ K \in SUBSET Tokens /\ from \notin K /\ to \notin K
  BY CandidatesListed
<1>. HIDE DEF tokens, Tokens
<1>. DEFINE S == {k \in 0..n : FoundAt(p[k], L, from, to, amount, K, gasFee, k)}
<1>6. n \in Nat
  BY RouteSearchAssumption
<1>. HIDE DEF n
<1>7. 0 \in S
  <2>1. FoundAt(p[0], L, from, to, amount, K, gasFee, 0)
    BY <1>3, <1>5, FoundFirst
  <2>. HIDE DEF L
  <2>. QED
    BY <1>6, <2>1
<1>8. ASSUME NEW k \in 1..n, k - 1 \in S PROVE k \in S
  <2>1. PICK m \in Nat : m = k - 1
    BY <1>6
  <2>2. m < MaxHopDepth /\ m + 1 = k /\ k \in 0..n
    BY <1>6, <2>1 DEF n
  <2>3. FoundAt(p[m], L, from, to, amount, K, gasFee, m)
    BY <1>8, <2>1
  <2>. HIDE DEF S
  <2>4. FoundAt(Deeper(p[m], graph, tokens, to, gasFee, m + 1 = MaxHopDepth), L, from, to, amount, K, gasFee, m + 1)
    BY <1>5, <2>2, <2>3, FoundDeeper
  <2>5. p[k] = Deeper(p[m], graph, tokens, to, gasFee, m + 1 = MaxHopDepth)
    BY <1>4, <2>1, <2>2 DEF n
  <2>. HIDE DEF L
  <2>. QED
    BY <2>2, <2>4, <2>5 DEF S
<1>. HIDE DEF S
<1>9. \A k \in 0..n : k \in S
  BY <1>6, <1>7, <1>8, Counting
<1>10. n \in S
  BY <1>6, <1>9
<1>. QED
  BY <1>2, <1>10 DEF S, n

(* Rolling an amount along a route has one outcome.                        *)
LEMMA RollingUnique ==
  ASSUME NEW q, NEW amount, Len(q.hops) \in Nat \ {0}, NEW r, Rolling(q, amount, r),
         NEW t, Rolling(q, amount, t)
  PROVE  \A i \in 1..Len(q.hops) : r[i] = t[i]
<1>. DEFINE n == Len(q.hops)
            S == {k \in 0..(n - 1) : r[k + 1] = t[k + 1]}
<1>1. n \in Nat \ {0} /\ n - 1 \in Nat
  OBVIOUS
<1>2. ASSUME NEW i \in 1..n
      PROVE  /\ r[i] = Hop(q.hops[i].pool, q.path[i], IF i = 1 THEN amount ELSE r[i - 1].amountOut)
             /\ t[i] = Hop(q.hops[i].pool, q.path[i], IF i = 1 THEN amount ELSE t[i - 1].amountOut)
  BY DEF Rolling
<1>. HIDE DEF n
<1>3. 0 \in S
  <2>1. 1 \in 1..n /\ 0 \in 0..(n - 1) /\ 0 + 1 = 1
    BY <1>1
  <2>2. r[1] = Hop(q.hops[1].pool, q.path[1], amount) /\ t[1] = Hop(q.hops[1].pool, q.path[1], amount)
    BY <1>2, <2>1
  <2>. QED
    BY <2>1, <2>2
<1>4. ASSUME NEW k \in 1..(n - 1), k - 1 \in S PROVE k \in S
  <2>1. PICK i \in 1..n : i = k + 1
    BY <1>1
  <2>2. i # 1 /\ i - 1 = k /\ k - 1 + 1 = k /\ k \in 0..(n - 1)
    BY <1>1, <2>1
  <2>3. r[k] = t[k]
    BY <1>4, <2>2
  <2>4. r[i] = Hop(q.hops[i].pool, q.path[i], r[k].amountOut) /\ t[i] = Hop(q.hops[i].pool, q.path[i], t[k].amountOut)
    BY <1>2, <2>2
  <2>. QED
    BY <2>1, <2>2, <2>3, <2>4
<1>. HIDE DEF S
<1>5. \A k \in 0..(n - 1) : k \in S
  BY <1>1, <1>3, <1>4, Counting
<1>6. ASSUME NEW i \in 1..n PROVE r[i] = t[i]
  <2>1. i - 1 \in 0..(n - 1) /\ i - 1 + 1 = i
    BY <1>1
  <2>. QED
    BY <1>5, <2>1 DEF S
<1>. QED
  BY <1>6 DEF n

(* The hops of a route are what rolling its amount gives.                  *)
LEMMA WalksRolling ==
  ASSUME NEW PS \in SUBSET GoodPools, NEW amount, NEW from, NEW K, NEW d, NEW U,
         NEW w \in Walks(PS, from, amount, K, d, U)
  PROVE  /\ Along(w, PS, amount, d) /\ w.path[1] = from /\ DOMAIN w.hops = 1..d
         /\ Rolling(w, amount, w.hops)
<1>1. Begun(w, PS, amount, d) /\ w.path[1] = from
  BY WalksFields
<1>2. Along(w, PS, amount, d)
  BY <1>1, BegunFields
<1>3. DOMAIN w.hops = 1..d /\ Len(w.hops) = d
  BY <1>2, LenProperties DEF Along
<1>4. ASSUME NEW i \in 1..d
      PROVE  w.hops[i] = Hop(w.hops[i].pool, w.path[i], IF i = 1 THEN amount ELSE w.hops[i - 1].amountOut)
  <2>1. /\ w.hops[i] \in Hops(PS)
        /\ i > 1 => w.hops[i].amountIn = w.hops[i - 1].amountOut
        /\ w.hops[i].amountOut = HopOut(w.hops[i].pool, w.path[i], w.hops[i].amountIn)
    BY <1>2 DEF Along
  <2>2. w.hops[1].amountIn = amount /\ (i = 1 \/ i > 1)
    BY <1>2 DEF Along
  <2>. DEFINE put == IF i = 1 THEN amount ELSE w.hops[i - 1].amountOut
  <2>3. put = w.hops[i].amountIn
    BY <2>1, <2>2
  <2>. HIDE DEF put
  <2>4. w.hops[i] = [pool |-> w.hops[i].pool, amountIn |-> w.hops[i].amountIn, amountOut |-> w.hops[i].amountOut]
    BY <2>1 DEF Hops
  <2>5. w.hops[i] = Hop(w.hops[i].pool, w.path[i], put)
    BY <2>1, <2>3, <2>4 DEF Hop
  <2>. QED
    BY <2>5 DEF put
<1>. QED
  BY <1>1, <1>2, <1>3, <1>4 DEF Rolling

(* The pools of a route, and their ids.                                    *)
PoolsAlong(w) == [i \in DOMAIN w.hops |-> w.hops[i].pool]

Ids(ps) == [i \in DOMAIN ps |-> ps[i].id]

(* A pool and one of its tokens say which the other is.                    *)
LEMMA OtherToken ==
  ASSUME NEW p \in GoodPools, NEW a, NEW b, NEW c, Between(p, a, b), Between(p, a, c)
  PROVE  b = c
<1>1. p.token0 # p.token1
  BY PoolFields
<1>. QED
  BY <1>1 DEF Between

(* Routes from a token are told apart by the ids of their pools.           *)
LEMMA WalksApart ==
  ASSUME NEW PS \in SUBSET GoodPools, Identified(PS), NEW amount, NEW from, NEW K, NEW U,
         NEW d, NEW w \in Walks(PS, from, amount, K, d, U),
         NEW e, NEW v \in Walks(PS, from, amount, K, e, U), Ids(PoolsAlong(w)) = Ids(PoolsAlong(v))
  PROVE  w = v
<1>1. /\ Along(w, PS, amount, d) /\ w.path[1] = from /\ DOMAIN w.hops = 1..d
      /\ Rolling(w, amount, w.hops)
  BY WalksRolling
<1>2. /\ Along(v, PS, amount, e) /\ v.path[1] = from /\ DOMAIN v.hops = 1..e
      /\ Rolling(v, amount, v.hops)
  BY WalksRolling
<1>3. d \in Nat \ {0} /\ e \in Nat \ {0}
  BY <1>1, <1>2 DEF Along
<1>4. d = e
  <2>1. DOMAIN Ids(PoolsAlong(w)) = 1..d /\ DOMAIN Ids(PoolsAlong(v)) = 1..e
    BY <1>1, <1>2 DEF Ids, PoolsAlong
  <2>2. 1..d = 1..e
    BY <2>1
  <2>3. d \in 1..e /\ e \in 1..d
    BY <1>3, <2>2
  <2>. QED
    BY <1>3, <2>3
<1>5. ASSUME NEW i \in 1..d
      PROVE  /\ w.hops[i].pool = v.hops[i].pool /\ w.hops[i].pool \in GoodPools
             /\ Between(w.hops[i].pool, w.path[i], w.path[i + 1])
             /\ Between(v.hops[i].pool, v.path[i], v.path[i + 1])
  <2>1. Ids(PoolsAlong(w))[i] = w.hops[i].pool.id /\ Ids(PoolsAlong(v))[i] = v.hops[i].pool.id
    BY <1>1, <1>2, <1>4 DEF Ids, PoolsAlong
  <2>2. /\ w.hops[i].pool \in PS /\ Between(w.hops[i].pool, w.path[i], w.path[i + 1])
        /\ v.hops[i].pool \in PS /\ Between(v.hops[i].pool, v.path[i], v.path[i + 1])
    BY <1>1, <1>2, <1>4 DEF Along
  <2>3. w.hops[i].pool.id = v.hops[i].pool.id
    BY <2>1
  <2>. QED
    BY <2>2, <2>3 DEF Identified
<1>. DEFINE S == {k \in 0..d : w.path[k + 1] = v.path[k + 1]}
<1>6. 0 \in S
  BY <1>1, <1>2, <1>3
<1>7. ASSUME NEW k \in 1..d, k - 1 \in S PROVE k \in S
  <2>1. k - 1 + 1 = k /\ k \in 0..d
    BY <1>3
  <2>2. w.path[k] = v.path[k]
    BY <1>7, <2>1
  <2>3. /\ w.hops[k].pool \in GoodPools /\ Between(w.hops[k].pool, w.path[k], w.path[k + 1])
        /\ Between(w.hops[k].pool, w.path[k], v.path[k + 1])
    BY <1>5, <2>2
  <2>4. w.path[k + 1] = v.path[k + 1]
    BY <2>3, OtherToken
  <2>. QED
    BY <2>1, <2>4
<1>. HIDE DEF S
<1>8. \A k \in 0..d : k \in S
  BY <1>3, <1>6, <1>7, Counting
<1>9. \A i \in 1..(d + 1) : w.path[i] = v.path[i]
  <2>1. ASSUME NEW i \in 1..(d + 1) PROVE w.path[i] = v.path[i]
    <3>1. i - 1 \in 0..d /\ i - 1 + 1 = i
      BY <1>3
    <3>. QED
      BY <1>8, <3>1 DEF S
  <2>. QED
    BY <2>1
<1>10. /\ w = [path |-> w.path, hops |-> w.hops] /\ v = [path |-> v.path, hops |-> v.hops]
       /\ w.path \in Seq(Tokens) /\ v.path \in Seq(Tokens) /\ Len(w.path) = d + 1 /\ Len(v.path) = d + 1
       /\ w.hops \in Seq(Hops(PS)) /\ v.hops \in Seq(Hops(PS)) /\ Len(w.hops) = d /\ Len(v.hops) = d
  BY <1>1, <1>2, <1>4 DEF Along
<1>11. w.path = v.path
  <2>. HIDE DEF Tokens
  <2>. QED
    BY <1>9, <1>10, SameList
<1>12. Rolling(w, amount, v.hops)
  BY <1>2, <1>5, <1>10, <1>11 DEF Rolling
<1>13. \A i \in 1..d : w.hops[i] = v.hops[i]
  <2>1. Len(w.hops) \in Nat \ {0} /\ Rolling(w, amount, w.hops)
    BY <1>1, <1>3, <1>10
  <2>2. \A i \in 1..Len(w.hops) : w.hops[i] = v.hops[i]
    BY <1>12, <2>1, RollingUnique
  <2>. QED
    BY <1>10, <2>2
<1>14. w.hops = v.hops
  BY <1>10, <1>13, SameList
<1>. QED
  BY <1>10, <1>11, <1>14

(* The path over some tokens.                                              *)
Via(from, ts, to) == <<from>> \o ts \o <<to>>

Passes(path, n, from, ts, to) ==
  /\ path \in Seq(Tokens) /\ Len(path) = n + 2
  /\ path[1] = from /\ path[n + 2] = to /\ \A i \in 1..n : path[i + 1] = ts[i]

(* It leads from the one end over the tokens to the other.                 *)
LEMMA ViaFacts ==
  ASSUME NEW n \in Nat, NEW ts \in [1..n -> Tokens], NEW from \in Tokens, NEW to \in Tokens
  PROVE  Passes(Via(from, ts, to), n, from, ts, to)
<1>. DEFINE a == <<from>>
            b == <<to>>
            m == a \o ts
            path == m \o b
<1>1. a \in Seq(Tokens) /\ b \in Seq(Tokens) /\ ts \in Seq(Tokens) /\ Len(ts) = n
      /\ Len(a) = 1 /\ Len(b) = 1 /\ a[1] = from /\ b[1] = to
  OBVIOUS
<1>. HIDE DEF a, b, Tokens
<1>2. m \in Seq(Tokens) /\ Joined(a, ts, m)
  BY <1>1, JoinedParts
<1>. HIDE DEF m
<1>3. path \in Seq(Tokens) /\ Joined(m, b, path)
  BY <1>1, <1>2, JoinedParts
<1>. HIDE DEF path
<1>4. Len(m) = n + 1 /\ m[1] = from /\ \A i \in 1..n : m[1 + i] = ts[i]
  BY <1>1, <1>2 DEF Joined
<1>5. Len(path) = n + 2
  BY <1>1, <1>3, <1>4 DEF Joined
<1>6. /\ 1 \in 1..(n + 1) /\ n + 2 = n + 1 + 1 /\ 1 \in 1..1
      /\ \A i \in 1..n : i + 1 \in 1..(n + 1) /\ 1 + i = i + 1
  OBVIOUS
<1>7. \A i \in 1..(n + 1) : path[i] = m[i]
  BY <1>3, <1>4 DEF Joined
<1>8. path[n + 2] = to
  BY <1>1, <1>3, <1>4, <1>6 DEF Joined
<1>. QED
  BY <1>3, <1>4, <1>5, <1>6, <1>7, <1>8 DEF Passes, Via, path, m, a, b

(* A path and the pools along it.                                          *)
Bare(path, ps) == [path |-> path, hops |-> [i \in DOMAIN ps |-> [pool |-> ps[i]]]]

(* What it is for pools to be a route over some tokens.                    *)
Routed(ps, N, n, path) ==
  /\ ps \in [1..(n + 1) -> Fluid(N)]
  /\ \A i \in 1..(n + 1) : /\ Between(ps[i], path[i], path[i + 1])
                           /\ Rolled(Bare(path, ps), ask.amount)[i].amountOut > 0

(* RoutesOver are those.                                                   *)
LEMMA RoutesOverFields ==
  ASSUME NEW N \in SUBSET GoodPools, NEW graph, ToSet(graph) = N, NEW n \in Nat, NEW ts \in [1..n -> Tokens],
         TokenIn \in Tokens, TokenOut \in Tokens, NEW path, path = Via(TokenIn, ts, TokenOut), NEW ps
  PROVE  ps \in RoutesOver(graph, ts) <=> Routed(ps, N, n, path)
<1>1. Len(path) = n + 2
  BY ViaFacts DEF Passes
<1>2. n + 2 - 1 = n + 1
  OBVIOUS
<1>3. {p \in ToSet(graph) : Liquid(p)} = Fluid(N)
  BY DEF Fluid
<1>4. ps \in RoutesOver(graph, ts) <=>
        /\ ps \in [1..(Len(path) - 1) -> {p \in ToSet(graph) : Liquid(p)}]
        /\ \A i \in DOMAIN ps : Between(ps[i], path[i], path[i + 1])
        /\ \A i \in DOMAIN ps : Rolled(Bare(path, ps), ask.amount)[i].amountOut > 0
  BY DEF RoutesOver, Via, Bare
<1>5. ps \in RoutesOver(graph, ts) <=>
        /\ ps \in [1..(n + 1) -> Fluid(N)]
        /\ \A i \in DOMAIN ps : Between(ps[i], path[i], path[i + 1])
        /\ \A i \in DOMAIN ps : Rolled(Bare(path, ps), ask.amount)[i].amountOut > 0
  BY <1>1, <1>2, <1>3, <1>4
<1>6. ps \in [1..(n + 1) -> Fluid(N)] => DOMAIN ps = 1..(n + 1)
  OBVIOUS
<1>. QED
  BY <1>5, <1>6 DEF Routed

(* The pools of a route that the search may find are such a route.         *)
LEMMA WalkIsRoute ==
  ASSUME AskOK, NEW N \in SUBSET GoodPools, NEW graph, ToSet(graph) = N,
         NEW K \in SUBSET Tokens, K = ToSet(Candidates(TokenIn, TokenOut)), NEW n \in Nat,
         NEW w \in Walks(Fluid(N), TokenIn, ask.amount, K, n + 1, {TokenOut})
  PROVE  PoolsAlong(w) \in Routes(graph, n)
<1>. DEFINE L == Fluid(N)
            ts == [i \in 1..n |-> w.path[i + 1]]
            path == Via(TokenIn, ts, TokenOut)
            ps == PoolsAlong(w)
            bare == Bare(path, ps)
<1>1. L \in SUBSET GoodPools
  BY DEF Fluid
<1>2. PICK d \in Nat \ {0} : d = n + 1
  OBVIOUS
<1>3. w \in Walks(L, TokenIn, ask.amount, K, d, {TokenOut})
  BY <1>2
<1>. HIDE DEF L
<1>4. /\ Along(w, L, ask.amount, d) /\ w.path[1] = TokenIn /\ DOMAIN w.hops = 1..d
      /\ Rolling(w, ask.amount, w.hops)
  BY <1>1, <1>3, WalksRolling
<1>5. (\A i \in 2..d : w.path[i] \in K) /\ w.path[d + 1] = TokenOut
  BY <1>3, WalksFields
<1>6. /\ w.path \in Seq(Tokens) /\ w.hops \in Seq(Hops(L)) /\ Len(w.path) = d + 1 /\ Len(w.hops) = d
      /\ (\A i, j \in 1..(d + 1) : w.path[i] = w.path[j] => i = j)
      /\ \A i \in 1..d : /\ w.hops[i].pool \in L /\ Between(w.hops[i].pool, w.path[i], w.path[i + 1])
                         /\ w.hops[i].amountOut > 0
  BY <1>4 DEF Along
<1>7. \A i \in 1..n : i + 1 \in 2..d /\ i + 1 \in 1..(d + 1)
  BY <1>2
<1>8. ts \in [1..n -> K] /\ \A i, j \in 1..n : i # j => ts[i] # ts[j]
  <2>1. ts \in [1..n -> K]
    BY <1>5, <1>7
  <2>2. ASSUME NEW i \in 1..n, NEW j \in 1..n, ts[i] = ts[j] PROVE i = j
    <3>1. i + 1 = j + 1
      BY <1>6, <1>7, <2>2
    <3>. QED
      BY <3>1
  <2>. QED
    BY <2>1, <2>2
<1>9. TokenIn \in Tokens /\ TokenOut \in Tokens /\ ask.amount \in Nat
  BY AskFacts
<1>10. ts \in [1..n -> Tokens]
  BY <1>8
<1>11. path = w.path
  <2>1. /\ path \in Seq(Tokens) /\ Len(path) = n + 2
        /\ path[1] = TokenIn /\ path[n + 2] = TokenOut /\ \A i \in 1..n : path[i + 1] = ts[i]
    <3>. HIDE DEF ts, Tokens
    <3>1. Passes(path, n, TokenIn, ts, TokenOut)
      BY <1>9, <1>10, ViaFacts
    <3>. QED
      BY <3>1 DEF Passes
  <2>. HIDE DEF path
  <2>2. n + 2 = d + 1 /\ \A i \in 1..(d + 1) : i = 1 \/ i = n + 2 \/ (i - 1 \in 1..n /\ i - 1 + 1 = i)
    BY <1>2
  <2>3. \A i \in 1..n : path[i + 1] = w.path[i + 1]
    BY <2>1
  <2>4. \A i \in 1..(d + 1) : path[i] = w.path[i]
    <3>. HIDE DEF ts
    <3>1. ASSUME NEW i \in 1..(d + 1) PROVE path[i] = w.path[i]
      <4>1. CASE i = 1
        BY <1>4, <2>1, <4>1
      <4>2. CASE i = n + 2
        BY <1>5, <2>1, <2>2, <4>2
      <4>3. CASE i - 1 \in 1..n /\ i - 1 + 1 = i
        BY <2>3, <4>3
      <4>. QED
        BY <2>2, <4>1, <4>2, <4>3
    <3>. QED
      BY <3>1
  <2>5. Len(path) = Len(w.path) /\ \A i \in 1..Len(path) : path[i] = w.path[i]
    BY <1>6, <2>1, <2>2, <2>4
  <2>. HIDE DEF Tokens
  <2>. QED
    BY <1>6, <2>1, <2>5, SameList
<1>12. ps \in [1..d -> L] /\ \A i \in 1..d : ps[i] = w.hops[i].pool
  BY <1>4, <1>6 DEF PoolsAlong
<1>. HIDE DEF ps, path
<1>13. /\ bare.path = w.path /\ bare.hops = [i \in 1..d |-> [pool |-> ps[i]]]
       /\ Len(bare.hops) = d /\ \A i \in 1..d : bare.hops[i].pool = w.hops[i].pool
  <2>1. bare.path = w.path /\ bare.hops = [i \in 1..d |-> [pool |-> ps[i]]]
    BY <1>11, <1>12 DEF Bare
  <2>2. Len(bare.hops) = d
    BY <2>1
  <2>3. \A i \in 1..d : bare.hops[i].pool = w.hops[i].pool
    BY <1>12, <2>1
  <2>. QED
    BY <2>1, <2>2, <2>3
<1>. HIDE DEF bare
<1>. DEFINE r == Rolled(bare, ask.amount)
<1>14. \A i \in 1..d : r[i] = w.hops[i]
  <2>1. Len(bare.hops) \in Nat \ {0} /\ \A i \in 1..Len(bare.hops) : bare.hops[i].pool \in L
    BY <1>6, <1>13
  <2>2. Rolling(bare, ask.amount, r)
    BY <1>1, <1>9, <2>1, RolledThrough
  <2>3. Rolling(bare, ask.amount, w.hops)
    BY <1>4, <1>6, <1>13 DEF Rolling
  <2>. HIDE DEF r
  <2>4. \A i \in 1..Len(bare.hops) : r[i] = w.hops[i]
    BY <2>1, <2>2, <2>3, RollingUnique
  <2>. QED
    BY <1>13, <2>4
<1>15. ps \in RoutesOver(graph, ts)
  <2>1. \A i \in 1..d : Between(ps[i], path[i], path[i + 1]) /\ r[i].amountOut > 0
    BY <1>6, <1>11, <1>12, <1>14
  <2>2. Routed(ps, N, n, path)
    BY <1>2, <1>12, <2>1 DEF Routed, L, bare
  <2>. HIDE DEF ts
  <2>3. path = Via(TokenIn, ts, TokenOut)
    BY DEF path
  <2>. HIDE DEF Tokens
  <2>. QED
    BY <1>9, <1>10, <2>2, <2>3, RoutesOverFields
<1>. HIDE DEF ts
<1>. QED
  BY <1>8, <1>15 DEF Routes, ps

(* The tokens of a path over different tokens, none of them an end of it,  *)
(* are all different.                                                      *)
LEMMA ViaDistinct ==
  ASSUME NEW K \in SUBSET Tokens, NEW n \in Nat, NEW ts \in [1..n -> K],
         \A i, j \in 1..n : i # j => ts[i] # ts[j],
         NEW from \in Tokens, NEW to \in Tokens, from # to, from \notin K, to \notin K,
         NEW path, Passes(path, n, from, ts, to)
  PROVE  Unrepeated(path)
<1>1. /\ path[1] = from /\ path[n + 2] = to /\ \A i \in 1..n : path[i + 1] = ts[i]
  BY DEF Passes
<1>2. ASSUME NEW i \in 1..(n + 2)
      PROVE  \/ i = 1 /\ path[i] = from
             \/ i = n + 2 /\ path[i] = to
             \/ i - 1 \in 1..n /\ path[i] = ts[i - 1] /\ path[i] \in K
  <2>1. i = 1 \/ i = n + 2 \/ (i - 1 \in 1..n /\ i - 1 + 1 = i)
    OBVIOUS
  <2>2. CASE i - 1 \in 1..n /\ i - 1 + 1 = i
    <3>1. path[i - 1 + 1] = ts[i - 1] /\ ts[i - 1] \in K
      BY <1>1, <2>2
    <3>. QED
      BY <2>2, <3>1
  <2>. QED
    BY <1>1, <2>1, <2>2
<1>3. ASSUME NEW i \in 1..(n + 2), NEW j \in 1..(n + 2), path[i] = path[j] PROVE i = j
  <2>1. CASE i - 1 \in 1..n /\ path[i] = ts[i - 1] /\ path[i] \in K
    <3>1. j - 1 \in 1..n /\ path[j] = ts[j - 1]
      BY <1>2, <1>3, <2>1
    <3>2. i - 1 = j - 1
      BY <1>3, <2>1, <3>1
    <3>. QED
      BY <3>2
  <2>2. CASE i = 1 /\ path[i] = from
    BY <1>2, <1>3, <2>2
  <2>3. CASE i = n + 2 /\ path[i] = to
    BY <1>2, <1>3, <2>3
  <2>. QED
    BY <1>2, <2>1, <2>2, <2>3
<1>4. Len(path) = n + 2
  BY DEF Passes
<1>. QED
  BY <1>3, <1>4 DEF Unrepeated

RoutesOf(W) == {PoolsAlong(w) : w \in W}

(* Every route over intermediate tokens that pays is one that the search   *)
(* may find.                                                               *)
LEMMA RouteIsWalk ==
  ASSUME AskOK, NEW N \in SUBSET GoodPools, NEW graph, ToSet(graph) = N,
         NEW K \in SUBSET Tokens, TokenIn \notin K, TokenOut \notin K,
         NEW n \in Nat, NEW ts \in [1..n -> K], \A i, j \in 1..n : i # j => ts[i] # ts[j],
         NEW ps \in RoutesOver(graph, ts)
  PROVE  ps \in RoutesOf(Walks(Fluid(N), TokenIn, ask.amount, K, n + 1, {TokenOut}))
<1>. DEFINE L == Fluid(N)
            path == Via(TokenIn, ts, TokenOut)
            bare == Bare(path, ps)
            r == Rolled(bare, ask.amount)
            w == [path |-> path, hops |-> r]
<1>1. L \in SUBSET GoodPools
  BY DEF Fluid
<1>2. PICK d \in Nat \ {0} : d = n + 1
  OBVIOUS
<1>3. /\ TokenIn \in Tokens /\ TokenOut \in Tokens /\ TokenIn # TokenOut
      /\ ask.amount \in Nat /\ ask.amount > 0
  BY AskFacts
<1>4. ts \in [1..n -> Tokens]
  OBVIOUS
<1>5. Passes(path, n, TokenIn, ts, TokenOut)
  <2>. HIDE DEF Tokens
  <2>. QED
    BY <1>3, <1>4, ViaFacts
<1>6. Routed(ps, N, n, path)
  <2>1. ps \in RoutesOver(graph, ts) <=> Routed(ps, N, n, path)
    <3>. HIDE DEF Tokens
    <3>. QED
      BY <1>3, <1>4, RoutesOverFields
  <2>. QED
    BY <2>1
<1>7. Unrepeated(path)
  <2>. HIDE DEF Tokens, path
  <2>. QED
    BY <1>3, <1>5, ViaDistinct
<1>8. /\ ps \in [1..d -> L]
      /\ \A i \in 1..d : Between(ps[i], path[i], path[i + 1]) /\ r[i].amountOut > 0
  BY <1>2, <1>6 DEF Routed
<1>. HIDE DEF path, L
<1>9. /\ bare.path = path /\ Len(bare.hops) = d /\ \A i \in 1..d : bare.hops[i].pool = ps[i]
  <2>1. bare.path = path /\ bare.hops = [i \in 1..d |-> [pool |-> ps[i]]]
    BY <1>8 DEF Bare
  <2>2. Len(bare.hops) = d
    BY <2>1
  <2>3. \A i \in 1..d : bare.hops[i].pool = ps[i]
    BY <2>1
  <2>. QED
    BY <2>1, <2>2, <2>3
<1>. HIDE DEF bare
<1>10. r \in Seq(Hops(L)) /\ Len(r) = d /\ Rolling(bare, ask.amount, r)
  <2>1. Len(bare.hops) \in Nat \ {0} /\ \A i \in 1..Len(bare.hops) : bare.hops[i].pool \in L
    BY <1>8, <1>9
  <2>2. /\ r \in Seq(Hops(L)) /\ Len(r) = Len(bare.hops) /\ Rolling(bare, ask.amount, r)
    BY <1>1, <1>3, <2>1, RolledThrough
  <2>. QED
    BY <1>9, <2>2
<1>. HIDE DEF r
<1>11. DOMAIN r = 1..d /\ \A i \in 1..d : r[i] \in Hops(L)
  BY <1>10, LenProperties
<1>12. ASSUME NEW i \in 1..d
       PROVE  /\ r[i].pool = ps[i] /\ r[i].amountIn = (IF i = 1 THEN ask.amount ELSE r[i - 1].amountOut)
              /\ r[i].amountOut = HopOut(ps[i], path[i], r[i].amountIn)
              /\ r[i].amountIn > 0 /\ r[i].amountOut > 0
  <2>. DEFINE put == IF i = 1 THEN ask.amount ELSE r[i - 1].amountOut
  <2>1. put > 0
    <3>1. i # 1 => i - 1 \in 1..d
      BY <1>2
    <3>. QED
      BY <1>3, <1>8, <3>1
  <2>2. r[i] = Hop(bare.hops[i].pool, bare.path[i], put)
    BY <1>9, <1>10 DEF Rolling
  <2>. HIDE DEF put
  <2>3. r[i] = [pool |-> ps[i], amountIn |-> put, amountOut |-> HopOut(ps[i], path[i], put)]
    BY <1>9, <2>2 DEF Hop
  <2>4. r[i].pool = ps[i] /\ r[i].amountIn = put /\ r[i].amountOut = HopOut(ps[i], path[i], put)
    BY <2>3
  <2>. QED
    BY <1>8, <2>1, <2>4 DEF put
<1>13. path \in Seq(Tokens) /\ Len(path) = d + 1 /\ d + 1 = n + 2 /\ d >= 1
  BY <1>2, <1>5 DEF Passes
<1>14. Chained(path, r)
  <2>1. \A i \in 1..d : /\ Between(r[i].pool, path[i], path[i + 1])
                        /\ r[i].amountIn > 0 /\ r[i].amountOut > 0
                        /\ i > 1 => r[i].amountIn = r[i - 1].amountOut
    <3>1. ASSUME NEW i \in 1..d
          PROVE  /\ Between(r[i].pool, path[i], path[i + 1])
                 /\ r[i].amountIn > 0 /\ r[i].amountOut > 0
                 /\ i > 1 => r[i].amountIn = r[i - 1].amountOut
      BY <1>8, <1>12
    <3>. QED
      BY <3>1
  <2>2. Len(r) >= 1 /\ Len(path) = Len(r) + 1
    BY <1>10, <1>13
  <2>3. \A i \in 1..Len(r) : /\ Between(r[i].pool, path[i], path[i + 1])
                             /\ r[i].amountIn > 0 /\ r[i].amountOut > 0
                             /\ i > 1 => r[i].amountIn = r[i - 1].amountOut
    BY <1>10, <2>1
  <2>4. \A i, j \in 1..Len(path) : path[i] = path[j] => i = j
    BY <1>7 DEF Unrepeated
  <2>. QED
    BY <2>2, <2>3, <2>4 DEF Chained
<1>15. Begun(w, L, ask.amount, d)
  <2>1. \A i \in 1..d : r[i].amountOut = HopOut(r[i].pool, path[i], r[i].amountIn)
    BY <1>12
  <2>2. r[1].amountIn = ask.amount
    <3>1. 1 \in 1..d
      BY <1>2
    <3>. QED
      BY <1>12, <3>1
  <2>3. w \in [path : Seq(Tokens), hops : Seq(Hops(L))]
    BY <1>10, <1>13
  <2>4. w.path = path /\ w.hops = r
    OBVIOUS
  <2>. HIDE DEF w
  <2>5. Estimated(w)
    BY <1>10, <2>1, <2>4 DEF Estimated
  <2>. QED
    BY <1>10, <1>14, <2>2, <2>3, <2>4, <2>5 DEF Begun
<1>16. w.path[1] = TokenIn /\ w.path[d + 1] \in {TokenOut} /\ \A i \in 2..d : w.path[i] \in K
  <2>1. path[1] = TokenIn /\ path[d + 1] = TokenOut /\ \A i \in 1..n : path[i + 1] = ts[i]
    BY <1>5, <1>13 DEF Passes
  <2>2. ASSUME NEW i \in 2..d PROVE path[i] \in K
    <3>1. i - 1 \in 1..n /\ i - 1 + 1 = i
      BY <1>2
    <3>2. path[i - 1 + 1] = ts[i - 1]
      BY <2>1, <3>1
    <3>. QED
      BY <3>1, <3>2
  <2>. QED
    BY <2>1, <2>2
<1>17. PoolsAlong(w) = ps
  <2>1. PoolsAlong(w) = [i \in 1..d |-> r[i].pool]
    BY <1>11 DEF PoolsAlong
  <2>2. \A i \in 1..d : r[i].pool = ps[i]
    BY <1>12
  <2>3. ps = [i \in 1..d |-> ps[i]]
    BY <1>8
  <2>. HIDE DEF w
  <2>. QED
    BY <2>1, <2>2, <2>3
<1>. HIDE DEF w
<1>18. w \in Walks(L, TokenIn, ask.amount, K, d, {TokenOut})
  BY <1>15, <1>16, WalksFields
<1>. QED
  BY <1>2, <1>17, <1>18 DEF RoutesOf, L

(* The routes over n intermediate tokens are those that the search may     *)
(* find.                                                                   *)
LEMMA RoutesAreWalks ==
  ASSUME AskOK, NEW N \in SUBSET GoodPools, NEW graph, ToSet(graph) = N,
         NEW K \in SUBSET Tokens, K = ToSet(Candidates(TokenIn, TokenOut)),
         TokenIn \notin K, TokenOut \notin K, NEW n \in Nat
  PROVE  Routes(graph, n) = RoutesOf(Walks(Fluid(N), TokenIn, ask.amount, K, n + 1, {TokenOut}))
<1>. DEFINE W == Walks(Fluid(N), TokenIn, ask.amount, K, n + 1, {TokenOut})
<1>. HIDE DEF Tokens
<1>1. ASSUME NEW w \in W PROVE PoolsAlong(w) \in Routes(graph, n)
  BY WalkIsRoute
<1>2. ASSUME NEW ps \in Routes(graph, n) PROVE ps \in RoutesOf(W)
  <2>1. PICK ts \in {f \in [1..n -> K] : \A i, j \in 1..n : i # j => f[i] # f[j]} : ps \in RoutesOver(graph, ts)
    BY DEF Routes
  <2>2. ts \in [1..n -> K] /\ \A i, j \in 1..n : i # j => ts[i] # ts[j]
    BY <2>1
  <2>3. ps \in RoutesOver(graph, ts)
    BY <2>1
  <2>. QED
    BY <2>2, <2>3, RouteIsWalk
<1>. HIDE DEF W
<1>3. Routes(graph, n) = RoutesOf(W)
  BY <1>1, <1>2 DEF RoutesOf
<1>. QED
  BY <1>3 DEF W

(* The ids of the pools of some routes.                                    *)
Named(R) == {Ids(PoolsAlong(w)) : w \in R}

Signatures(Q) == {Signature(q) : q \in Q}

(* Each route found has a signature of its own, the ids of its pools.      *)
LEMMA SignaturesFacts ==
  ASSUME NEW PS \in SUBSET GoodPools, Identified(PS), NEW from, NEW to, NEW amount, NEW K, NEW k, NEW gasFee,
         NEW R \in SUBSET Ways(PS, from, to, amount, K, k), NEW results, ListOf(results, Priced(R, gasFee))
  PROVE  /\ Signatures(ToSet(results)) = Named(R)
         /\ Cardinality(Named(R)) = Len(results)
<1>. DEFINE Q == Priced(R, gasFee)
            F == [q \in Q |-> Signature(q)]
            g == Mapped(F, results)
<1>1. ToSet(results) = Q
  BY ElementsOfList
<1>2. \A w : Signature(Quote(w.path, w.hops, gasFee)) = Ids(PoolsAlong(w))
  BY DEF Signature, Quote, Ids, PoolsAlong
<1>3. Signatures(Q) = Named(R)
  BY <1>2 DEF Signatures, Named, Priced
<1>4. Image(F, Q) = Named(R)
  BY <1>3 DEF Image, Signatures
<1>5. F \in [Q -> Named(R)] /\ Separates(F, Q)
  <2>1. ASSUME NEW q \in Q, NEW r \in Q, Signature(q) = Signature(r) PROVE q = r
    <3>1. PICK w \in R : q = Quote(w.path, w.hops, gasFee)
      BY DEF Priced
    <3>2. PICK v \in R : r = Quote(v.path, v.hops, gasFee)
      BY DEF Priced
    <3>3. PICK d \in 1..k : w \in Walks(PS, from, amount, K, d + 1, {to})
      BY DEF Ways
    <3>4. PICK e \in 1..k : v \in Walks(PS, from, amount, K, e + 1, {to})
      BY DEF Ways
    <3>5. Ids(PoolsAlong(w)) = Ids(PoolsAlong(v))
      BY <1>2, <2>1, <3>1, <3>2
    <3>6. w = v
      BY <3>3, <3>4, <3>5, WalksApart
    <3>. QED
      BY <3>1, <3>2, <3>6
  <2>. HIDE DEF Q
  <2>2. \A q \in Q : Signature(q) \in Named(R)
    BY <1>3 DEF Signatures
  <2>. QED
    BY <2>1, <2>2 DEF Separates
<1>. HIDE DEF Q, F
<1>6. ListOf(<< >> \o g, Named(R))
  BY <1>4, <1>5, ListOfImages DEF Q
<1>7. Len(<< >> \o g) = Len(results)
  <2>1. DOMAIN results = 1..Len(results) /\ Len(results) \in Nat
    BY LenProperties DEF ListOf
  <2>2. g = [i \in 1..Len(results) |-> F[results[i]]]
    BY <2>1 DEF Mapped
  <2>. DEFINE T == {F[results[i]] : i \in 1..Len(results)}
  <2>3. g \in [1..Len(results) -> T]
    BY <2>2
  <2>. HIDE DEF g, T
  <2>. QED
    BY <2>1, <2>3, Listing
<1>. HIDE DEF g
<1>8. Cardinality(Named(R)) = Len(<< >> \o g)
  BY <1>6, SizeOfList
<1>. QED
  BY <1>1, <1>3, <1>7, <1>8

(* What SearchComplete says of a search.                                   *)
CompleteFor(search) ==
  LET found == {Signature(q) : q \in ToSet(search.results)}
      routes(n) == {[i \in DOMAIN ps |-> ps[i].id] : ps \in Routes(search.graph, n)}
      all == UNION {routes(n) : n \in 1..MaxHopDepth}
  IN /\ routes(1) \subseteq found
     /\ found \subseteq all
     /\ ~search.pruned => found = all
     /\ Len(search.results) = Cardinality(found)

(* The search is complete for every graph that repeats no pool.            *)
LEMMA SearchIsComplete ==
  ASSUME AskOK, Unrepeated(Intermediates), NEW graph, NEW N \in SUBSET GoodPools, Identified(N),
         ListOf(graph, N), NEW found, found = Search(graph, TokenIn, TokenOut, ask.amount, gasPrice),
         NEW search, search.graph = graph, search.results = found.results, search.pruned = found.pruned
  PROVE  CompleteFor(search)
<1>. DEFINE L == Fluid(N)
            K == ToSet(Candidates(TokenIn, TokenOut))
            W(n) == Walks(L, TokenIn, ask.amount, K, n + 1, {TokenOut})
            All == Ways(L, TokenIn, TokenOut, ask.amount, K, MaxHopDepth)
            results == found.results
            routes(n) == {[i \in DOMAIN ps |-> ps[i].id] : ps \in Routes(search.graph, n)}
            got == {Signature(q) : q \in ToSet(search.results)}
            all == UNION {routes(n) : n \in 1..MaxHopDepth}
<1>1. /\ ask.amount \in Nat \ {0} /\ gasPrice \in {None} \cup Nat
      /\ TokenIn \in Tokens /\ TokenOut \in Tokens /\ TokenIn # TokenOut
  BY AskFacts
<1>2. K \in SUBSET Tokens /\ TokenIn \notin K /\ TokenOut \notin K
  BY CandidatesListed
<1>3. L \in SUBSET GoodPools /\ Identified(L) /\ MaxHopDepth \in Nat /\ MaxHopDepth > 0
  BY RouteSearchAssumption DEF Fluid, Identified
<1>4. FoundAt(found, L, TokenIn, TokenOut, ask.amount, K, gasPrice, MaxHopDepth)
  <2>. HIDE DEF Tokens
  <2>. QED
    BY <1>1, SearchFound
<1>5. PICK R \in SUBSET All : /\ ListOf(results, Priced(R, gasPrice))
                              /\ ~found.pruned => R = All
                              /\ Walks(L, TokenIn, ask.amount, K, 2, {TokenOut}) \subseteq R
  BY <1>3, <1>4 DEF FoundAt
<1>6. got = Named(R) /\ Cardinality(Named(R)) = Len(results)
  <2>. HIDE DEF L, K, results
  <2>1. Signatures(ToSet(results)) = Named(R) /\ Cardinality(Named(R)) = Len(results)
    BY <1>3, <1>5, SignaturesFacts
  <2>. QED
    BY <2>1 DEF Signatures, results
<1>7. ToSet(graph) = N
  BY ElementsOfList
<1>8. ASSUME NEW n \in Nat PROVE routes(n) = Named(W(n))
  <2>1. Routes(graph, n) = RoutesOf(W(n))
    <3>. HIDE DEF Tokens
    <3>. QED
      BY <1>1, <1>2, <1>7, RoutesAreWalks
  <2>2. routes(n) = {Ids(ps) : ps \in Routes(graph, n)}
    BY DEF Ids
  <2>. HIDE DEF W
  <2>. QED
    BY <2>1, <2>2 DEF RoutesOf, Named
<1>9. All = UNION {W(n) : n \in 1..MaxHopDepth}
  BY DEF Ways
<1>. HIDE DEF W, routes, All, got
<1>10. all = Named(All)
  <2>1. \A n \in 1..MaxHopDepth : routes(n) = Named(W(n))
    BY <1>8
  <2>. QED
    BY <1>9, <2>1 DEF Named
<1>11. W(1) \subseteq R
  <2>1. 1 + 1 = 2
    OBVIOUS
  <2>. QED
    BY <1>5, <2>1 DEF W
<1>12. Named(W(1)) \subseteq Named(R) /\ Named(R) \subseteq Named(All)
  BY <1>11 DEF Named
<1>13. routes(1) = Named(W(1))
  BY <1>8
<1>. HIDE DEF all
<1>14. /\ routes(1) \subseteq got
       /\ got \subseteq all
       /\ ~search.pruned => got = all
       /\ Len(search.results) = Cardinality(got)
  BY <1>5, <1>6, <1>10, <1>12, <1>13
<1>. QED
  BY <1>14 DEF CompleteFor, routes, got, all

(* The routes there are depend on the request only.                        *)
LEMMA RoutesKept ==
  ASSUME ask' = ask, NEW graph, NEW n
  PROVE  Routes(graph, n)' = Routes(graph, n)
<1>1. ASSUME NEW ts PROVE RoutesOver(graph, ts)' = RoutesOver(graph, ts)
  BY DEF RoutesOver
<1>. QED
  BY <1>1 DEF Routes

(* And so does what is complete.                                           *)
LEMMA CompleteKept ==
  ASSUME ask' = ask, NEW search, CompleteFor(search)
  PROVE  CompleteFor(search)'
<1>1. \A graph, n : Routes(graph, n)' = Routes(graph, n)
  BY RoutesKept
<1>. QED
  BY <1>1 DEF CompleteFor

(* Nothing but the search says what the search found.                      *)
LEMMA SearchKept ==
  ASSUME SearchComplete, ask' = ask, multi'.search = multi.search
  PROVE  SearchComplete'
<1>1. PICK s : s = multi.search
  OBVIOUS
<1>2. s # None => CompleteFor(s)
  BY <1>1 DEF SearchComplete, CompleteFor
<1>3. s # None => CompleteFor(s)'
  BY <1>2, CompleteKept
<1>4. multi'.search = s
  BY <1>1
<1>. QED
  BY <1>3, <1>4 DEF SearchComplete, CompleteFor

(* Reading the graph and searching it.                                     *)
LEMMA MultiReadComplete ==
  ASSUME Unrepeated(Order), Unrepeated(Intermediates), IInv, MultiRead
  PROVE  SearchComplete'
<1>1. PoolsOK /\ AskOK /\ ask' = ask
  BY DEF IInv, MultiRead
<1>2. PICK lost :
        LET found == Search(Graph(lost), TokenIn, TokenOut, ask.amount, gasPrice)
            v3 == ToValidate(found.results)
        IN multi' = [ stage |-> IF v3 = << >> THEN "done" ELSE "validating",
                      quotes |-> Picked(found.results, {i \in DOMAIN found.results : ~HasV3(found.results[i])}),
                      validation |-> Validation(v3),
                      search |-> [graph |-> Graph(lost), results |-> found.results, pruned |-> found.pruned] ]
  BY DEF MultiRead
<1>3. PICK graph : graph = Graph(lost)
  OBVIOUS
<1>4. PICK found : found = Search(graph, TokenIn, TokenOut, ask.amount, gasPrice)
  OBVIOUS
<1>5. PICK s : s = [graph |-> graph, results |-> found.results, pruned |-> found.pruned]
  OBVIOUS
<1>6. multi'.search = s
  BY <1>2, <1>3, <1>4, <1>5
<1>7. PICK N : N = ToSet(graph)
  OBVIOUS
<1>8. ListOf(graph, N) /\ N \in SUBSET GoodPools /\ Identified(N)
  BY <1>1, <1>3, <1>7, GraphListed
<1>9. s.graph = graph /\ s.results = found.results /\ s.pruned = found.pruned
  BY <1>5
<1>10. CompleteFor(s)
  BY <1>1, <1>4, <1>8, <1>9, SearchIsComplete
<1>11. CompleteFor(s)'
  BY <1>1, <1>10, CompleteKept
<1>. QED
  BY <1>6, <1>11 DEF SearchComplete, CompleteFor

(* For every list of pools and of intermediate tokens that repeats         *)
(* nothing, whatever the pools hold and whatever reads fail, the search    *)
(* finds each route over one intermediate token, each longer one up to its *)
(* depth if nothing was pruned, no other, and none twice.                  *)
THEOREM SearchesComplete ==
  Unrepeated(Order) /\ Unrepeated(Intermediates) /\ Spec => []SearchComplete
<1>. SUFFICES ASSUME Unrepeated(Order), Unrepeated(Intermediates) PROVE Spec => []SearchComplete
  OBVIOUS
<1>1. Init => SearchComplete
  <2>. SUFFICES ASSUME Init PROVE SearchComplete
    OBVIOUS
  <2>1. multi.search = None
    BY DEF Init
  <2>. QED
    BY <2>1 DEF SearchComplete
<1>2. IInv /\ SearchComplete /\ [Next]_vars => SearchComplete'
  <2>. SUFFICES ASSUME IInv, SearchComplete, [Next]_vars PROVE SearchComplete'
    OBVIOUS
  <2>1. CASE DirectRead
    BY <2>1, SearchKept DEF DirectRead
  <2>2. CASE DirectQuoted
    BY <2>2, SearchKept DEF DirectQuoted
  <2>3. CASE MultiRead
    BY <2>3, MultiReadComplete
  <2>4. CASE MultiValidated
    <3>1. multi = [stage |-> multi.stage, quotes |-> multi.quotes, validation |-> multi.validation,
                   search |-> multi.search]
      BY DEF IInv, MultiOK
    <3>2. multi'.search = multi.search /\ ask' = ask
      BY <2>4, <3>1 DEF MultiValidated
    <3>. QED
      BY <3>2, SearchKept
  <2>5. CASE ReadFails
    BY <2>5, SearchKept DEF ReadFails
  <2>6. CASE Decide
    BY <2>6, SearchKept DEF Decide
  <2>7. CASE SplitValidated
    BY <2>7, SearchKept DEF SplitValidated
  <2>8. CASE \E id \in Traded : Trade(id)
    BY <2>8, SearchKept DEF Trade
  <2>9. CASE UNCHANGED vars
    BY <2>9, SearchKept DEF vars
  <2>. QED
    BY <2>1, <2>2, <2>3, <2>4, <2>5, <2>6, <2>7, <2>8, <2>9 DEF Next, Ended
<1>. QED
  BY <1>1, <1>2, Invariance, PTL DEF Spec

=============================================================================
