------------------------- MODULE QuoteServerProofs -------------------------
(***************************************************************************)
(* The server keeps its quotes honest for all requests, lifetimes and      *)
(* capacities: the invariants of QuoteServer, and that it implements       *)
(* OfferBook.                                                              *)
(***************************************************************************)
EXTENDS QuoteServer, OrderLemmas

-----------------------------------------------------------------------------
(* The inductive invariant.                                                *)

(* A cached result is found under its own key, and goes off a lifetime     *)
(* after it was priced.                                                    *)
CacheInv ==
  \A k \in DOMAIN cache :
    /\ CacheKey(cache[k].value) = k
    /\ cache[k].expiresAt = cache[k].value.pricedAt + CacheTtl

(* A stored quote was stored while its result could be in the cache, goes  *)
(* off a lifetime later, and no sooner than was announced.                 *)
QuotesInv ==
  \A id \in DOMAIN quotes :
    /\ quotes[id].createdAt <= quotes[id].result.pricedAt + CacheTtl
    /\ quotes[id].createdAt <= now
    /\ quotes[id].expiresAt = quotes[id].createdAt + QuoteTtl
    /\ offers[id] <= quotes[id].expiresAt

(* Identifiers are in the order of creation.                               *)
OrderInv ==
  \A i, j \in DOMAIN quotes : i < j => quotes[i].createdAt <= quotes[j].createdAt

(* A quote that is gone was taken, is past its announced expiry, or was    *)
(* followed by as many quotes as the store can hold.                       *)
KeptInv ==
  \A id \in 1..(nextId - 1) :
    \/ id \in DOMAIN quotes \cup taken
    \/ now > offers[id]
    \/ nextId - 1 - id >= Capacity

StoreInv == QuotesInv /\ OrderInv /\ KeptInv /\ StoreBounded

ServerInv ==
  TypeOK /\ CacheInv /\ StoreInv /\ FreshSwap /\ QuoteHonoured /\ QuoteFitsAsk

-----------------------------------------------------------------------------
(* The operators on maps.                                                  *)

LEMMA WithoutFacts ==
  ASSUME NEW map, NEW keys
  PROVE  /\ DOMAIN Without(map, keys) = DOMAIN map \ keys
         /\ \A k \in DOMAIN map \ keys : Without(map, keys)[k] = map[k]
BY DEF Without, Restrict

LEMMA WithFacts ==
  ASSUME NEW map, NEW key, NEW entry
  PROVE  /\ DOMAIN With(map, key, entry) = DOMAIN map \cup {key}
         /\ With(map, key, entry)[key] = entry
         /\ \A k \in DOMAIN map : k # key => With(map, key, entry)[k] = map[k]
BY DEF With

(* What is dropped from a map is dead.                                     *)
OnlyDeadGo(map, after, time) ==
  /\ DOMAIN after \subseteq DOMAIN map
  /\ \A k \in DOMAIN after : after[k] = map[k]
  /\ \A k \in DOMAIN map : k \in DOMAIN after \/ ~Live(map, k, time)

LEMMA DeadGo ==
  ASSUME NEW map, NEW time, NEW dead, \A k \in dead : ~Live(map, k, time)
  PROVE  OnlyDeadGo(map, Without(map, dead), time)
<1>1. /\ DOMAIN Without(map, dead) = DOMAIN map \ dead
      /\ \A k \in DOMAIN map \ dead : Without(map, dead)[k] = map[k]
  BY WithoutFacts
<1>. QED
  BY <1>1 DEF OnlyDeadGo

LEMMA LookupFacts ==
  ASSUME NEW map, NEW key, NEW time
  PROVE  OnlyDeadGo(map, AfterLookup(map, key, time), time)
<1>1. CASE Live(map, key, time)
  BY <1>1 DEF AfterLookup, OnlyDeadGo
<1>2. CASE ~Live(map, key, time)
  <2>1. OnlyDeadGo(map, Without(map, {key}), time)
    BY <1>2, DeadGo
  <2>. QED
    BY <1>2, <2>1 DEF AfterLookup
<1>. QED
  BY <1>1, <1>2

LEMMA SweptFacts ==
  ASSUME NEW map, NEW time
  PROVE  OnlyDeadGo(map, Swept(map, time), time)
BY DeadGo DEF Swept

(* If identifiers are in the order of creation, the oldest has the least.  *)
LEMMA OldestFacts ==
  ASSUME NEW q, DOMAIN q \in SUBSET Nat, DOMAIN q # {},
         \A id \in DOMAIN q : q[id].createdAt \in Nat,
         \A i, j \in DOMAIN q : i < j => q[i].createdAt <= q[j].createdAt
  PROVE  /\ Oldest(q) \in DOMAIN q
         /\ \A id \in DOMAIN q : Oldest(q) <= id
<1>. DEFINE First(id) ==
       \A other \in DOMAIN q :
         \/ q[id].createdAt < q[other].createdAt
         \/ q[id].createdAt = q[other].createdAt /\ id <= other
<1>1. PICK least \in DOMAIN q : \A id \in DOMAIN q : least <= id
  BY LeastNatural
<1>2. First(least)
  BY <1>1
<1>3. Oldest(q) \in DOMAIN q /\ First(Oldest(q))
  BY <1>2 DEF Oldest
<1>. QED
  BY <1>3

(* A number rounded down to a multiple is no greater.                      *)
LEMMA RoundedDown ==
  ASSUME NEW n \in Nat, NEW m \in Nat \ {0}
  PROVE  (n \div m) * m \in Nat /\ (n \div m) * m <= n
OBVIOUS

-----------------------------------------------------------------------------
(* The store.                                                              *)

(* Its identifiers are numbers that were given out: finitely many.         *)
LEMMA StoreFinite ==
  ASSUME TypeOK, NEW m \in Nat, \A id \in DOMAIN quotes : m <= id
  PROVE  /\ IsFiniteSet(DOMAIN quotes)
         /\ Cardinality(DOMAIN quotes) \in Nat
         /\ m < nextId => Cardinality(DOMAIN quotes) <= nextId - m
<1>1. nextId \in Nat /\ DOMAIN quotes \subseteq 1..(nextId - 1)
  BY ServerAssumption DEF TypeOK
<1>2. DOMAIN quotes \in SUBSET (m..(nextId - 1))
  BY <1>1
<1>3. /\ IsFiniteSet(m..(nextId - 1))
      /\ Cardinality(m..(nextId - 1)) = IF m > nextId - 1 THEN 0 ELSE nextId - 1 - m + 1
  BY <1>1, FS_Interval
<1>4. /\ IsFiniteSet(DOMAIN quotes)
      /\ Cardinality(DOMAIN quotes) <= Cardinality(m..(nextId - 1))
  BY <1>2, <1>3, FS_Subset
<1>5. Cardinality(DOMAIN quotes) \in Nat
  BY <1>4, FS_CardinalityType
<1>. QED
  BY <1>1, <1>3, <1>4, <1>5

(* What is left when room was made: there is room, and what went is as old *)
(* as the store is large.                                                  *)
LEMMA RoomFacts ==
  ASSUME TypeOK, StoreInv
  PROVE  LET room == WithRoom(quotes, Capacity) IN
         /\ DOMAIN room \subseteq DOMAIN quotes
         /\ \A id \in DOMAIN room : room[id] = quotes[id]
         /\ \A id \in DOMAIN quotes : id \in DOMAIN room \/ nextId - id >= Capacity
         /\ IsFiniteSet(DOMAIN room) /\ Cardinality(DOMAIN room) < Capacity
<1>. DEFINE room == WithRoom(quotes, Capacity)
<1>0. nextId \in Nat /\ Capacity \in Nat \ {0} /\ DOMAIN quotes \in SUBSET Nat
  BY ServerAssumption DEF TypeOK
<1>1. IsFiniteSet(DOMAIN quotes) /\ Cardinality(DOMAIN quotes) \in Nat
  <2>1. \A id \in DOMAIN quotes : 0 <= id
    BY <1>0
  <2>. QED
    BY <2>1, StoreFinite
<1>2. CASE Cardinality(DOMAIN quotes) < Capacity
  <2>1. room = quotes
    BY <1>0, <1>1, <1>2 DEF WithRoom
  <2>. QED
    BY <1>1, <1>2, <2>1
<1>3. CASE Cardinality(DOMAIN quotes) >= Capacity
  <2>. DEFINE oldest == Oldest(quotes)
  <2>1. room = Without(quotes, {oldest})
    BY <1>3 DEF WithRoom
  <2>2. DOMAIN quotes # {}
    BY <1>0, <1>1, <1>3, FS_EmptySet
  <2>3. \A id \in DOMAIN quotes : quotes[id].createdAt \in Nat
    BY DEF TypeOK
  <2>4. oldest \in DOMAIN quotes /\ \A id \in DOMAIN quotes : oldest <= id
    BY <1>0, <2>2, <2>3, OldestFacts DEF StoreInv, OrderInv
  <2>5. /\ DOMAIN room = DOMAIN quotes \ {oldest}
        /\ \A id \in DOMAIN quotes \ {oldest} : room[id] = quotes[id]
    <3>1. /\ DOMAIN Without(quotes, {oldest}) = DOMAIN quotes \ {oldest}
          /\ \A id \in DOMAIN quotes \ {oldest} : Without(quotes, {oldest})[id] = quotes[id]
      BY WithoutFacts
    <3>. QED
      BY <2>1, <3>1
  <2>. HIDE DEF room, oldest
  <2>6. oldest \in Nat /\ oldest < nextId
    BY <2>4, <1>0 DEF TypeOK
  <2>7. Cardinality(DOMAIN quotes) <= nextId - oldest
    BY <2>4, <2>6, StoreFinite
  <2>8. IsFiniteSet(DOMAIN room) /\ Cardinality(DOMAIN room) = Cardinality(DOMAIN quotes) - 1
    BY <1>1, <2>4, <2>5, FS_RemoveElement
  <2>9. Cardinality(DOMAIN quotes) <= Capacity
    BY DEF StoreInv, StoreBounded
  <2>10. nextId - oldest >= Capacity
    BY <1>0, <1>1, <1>3, <2>6, <2>7
  <2>11. \A id \in DOMAIN quotes : id \in DOMAIN room \/ nextId - id >= Capacity
    BY <2>5, <2>10
  <2>. QED
    BY <1>0, <1>1, <2>5, <2>8, <2>9, <2>11 DEF room
<1>. QED
  BY <1>0, <1>1, <1>2, <1>3

(* What TypeOK says of the store.                                          *)
StoreTypes ==
  /\ DOMAIN quotes \subseteq 1..(nextId - 1)
  /\ \A id \in DOMAIN quotes :
       quotes[id] \in [result : Results, createdAt : Nat, expiresAt : Nat]
  /\ nextId \in 1..(MaxQuotes + 1)
  /\ now \in Nat
  /\ offers \in [Ids -> Nat]
  /\ taken \subseteq Ids

(* Losing quotes that are dead or taken, and the passage of time.          *)
LEMMA StoreShrinks ==
  ASSUME TypeOK, StoreInv,
         now' \in Nat, now <= now', UNCHANGED <<nextId, offers>>,
         taken \subseteq taken', taken' \subseteq Ids,
         DOMAIN quotes' \subseteq DOMAIN quotes,
         \A id \in DOMAIN quotes' : quotes'[id] = quotes[id],
         \A id \in DOMAIN quotes : id \in DOMAIN quotes' \cup taken' \/ ~Live(quotes, id, now)
  PROVE  StoreTypes' /\ StoreInv'
<1>1. StoreTypes'
  BY DEF TypeOK, StoreTypes
<1>2. QuotesInv' /\ OrderInv'
  BY DEF StoreInv, QuotesInv, OrderInv, TypeOK
<1>3. KeptInv'
  <2>1. ASSUME NEW id \in DOMAIN quotes, ~Live(quotes, id, now) PROVE now' > offers'[id]
    <3>1. /\ quotes[id].expiresAt \in Nat /\ now \in Nat /\ offers[id] \in Nat
          /\ offers[id] <= quotes[id].expiresAt
      <4>1. id \in Ids
        BY ServerAssumption DEF TypeOK, Ids
      <4>. QED
        BY <4>1 DEF TypeOK, StoreInv, QuotesInv
    <3>. QED
      BY <2>1, <3>1 DEF Live
  <2>2. ASSUME NEW id \in 1..(nextId - 1), now > offers[id] PROVE now' > offers'[id]
    <3>1. now \in Nat /\ offers[id] \in Nat
      BY ServerAssumption DEF TypeOK, Ids
    <3>. QED
      BY <2>2, <3>1
  <2>. QED
    BY <2>1, <2>2 DEF StoreInv, KeptInv
<1>4. StoreBounded'
  <2>1. IsFiniteSet(DOMAIN quotes) /\ Cardinality(DOMAIN quotes) \in Nat
    <3>1. \A id \in DOMAIN quotes : 0 <= id
      BY DEF TypeOK
    <3>. QED
      BY <3>1, StoreFinite
  <2>2. /\ IsFiniteSet(DOMAIN quotes')
        /\ Cardinality(DOMAIN quotes') <= Cardinality(DOMAIN quotes)
    BY <2>1, FS_Subset
  <2>3. Cardinality(DOMAIN quotes') \in Nat
    BY <2>2, FS_CardinalityType
  <2>. QED
    BY <2>1, <2>2, <2>3, ServerAssumption DEF StoreInv, StoreBounded
<1>. QED
  BY <1>1, <1>2, <1>3, <1>4 DEF StoreInv

(* A quote is stored, and the store may have to drop its oldest for it.    *)
LEMMA StoreGrows ==
  ASSUME TypeOK, StoreInv, UNCHANGED <<now, taken>>,
         NEW s, NEW ask, NEW result \in Results, Offer(s, ask, result),
         now <= result.pricedAt + CacheTtl
  PROVE  StoreTypes' /\ StoreInv'
<1>. DEFINE room  == WithRoom(quotes, Capacity)
            entry == [result |-> result, createdAt |-> now, expiresAt |-> now + QuoteTtl]
<1>0. /\ nextId \in Ids /\ nextId' = nextId + 1 /\ nextId \in Nat
      /\ offers' = [offers EXCEPT ![nextId] = ((now + QuoteTtl) \div Second) * Second]
      /\ quotes' = With(room, nextId, entry)
  BY DEF Offer, Store, Ids
<1>1. /\ now \in Nat /\ QuoteTtl \in Nat /\ CacheTtl \in Nat /\ Second \in Nat \ {0}
      /\ MaxQuotes \in Nat /\ Capacity \in Nat \ {0}
      /\ DOMAIN quotes \subseteq 1..(nextId - 1) /\ offers \in [Ids -> Nat]
  BY ServerAssumption DEF TypeOK
<1>2. /\ DOMAIN room \subseteq DOMAIN quotes
      /\ \A id \in DOMAIN room : room[id] = quotes[id]
      /\ \A id \in DOMAIN quotes : id \in DOMAIN room \/ nextId - id >= Capacity
      /\ IsFiniteSet(DOMAIN room) /\ Cardinality(DOMAIN room) < Capacity
  BY RoomFacts
<1>. HIDE DEF room, entry
<1>3. /\ DOMAIN quotes' = DOMAIN room \cup {nextId}
      /\ quotes'[nextId] = entry
      /\ \A id \in DOMAIN room : quotes'[id] = quotes[id]
  <2>1. nextId \notin DOMAIN room
    BY <1>0, <1>1, <1>2
  <2>. QED
    BY <1>0, <1>2, <2>1 DEF With
<1>4. /\ entry \in [result : Results, createdAt : Nat, expiresAt : Nat]
      /\ entry.result = result /\ entry.createdAt = now /\ entry.expiresAt = now + QuoteTtl
  BY <1>1 DEF entry
<1>5. /\ offers'[nextId] \in Nat /\ offers'[nextId] <= now + QuoteTtl
      /\ \A id \in Ids : id # nextId => offers'[id] = offers[id]
      /\ offers' \in [Ids -> Nat]
  <2>1. ((now + QuoteTtl) \div Second) * Second \in Nat
        /\ ((now + QuoteTtl) \div Second) * Second <= now + QuoteTtl
    BY <1>1, RoundedDown
  <2>. QED
    BY <1>0, <1>1, <2>1
<1>6. StoreTypes'
  BY <1>0, <1>1, <1>2, <1>3, <1>4, <1>5 DEF TypeOK, StoreTypes, Ids
<1>7. \A id \in DOMAIN room :
        id \in Ids /\ id < nextId /\ quotes'[id] = quotes[id] /\ offers'[id] = offers[id]
  BY <1>0, <1>1, <1>2, <1>3, <1>5 DEF Ids
<1>8. QuotesInv'
  BY <1>1, <1>2, <1>3, <1>4, <1>5, <1>7 DEF StoreInv, QuotesInv
<1>9. OrderInv'
  BY <1>1, <1>2, <1>3, <1>4, <1>7 DEF StoreInv, OrderInv, QuotesInv, TypeOK
<1>10. KeptInv'
  <2>1. ASSUME NEW id \in 1..(nextId' - 1)
        PROVE  \/ id \in DOMAIN quotes' \cup taken'
               \/ now' > offers'[id]
               \/ nextId' - 1 - id >= Capacity
    <3>1. CASE id = nextId
      BY <1>3, <3>1
    <3>2. CASE id # nextId
      <4>1. id \in 1..(nextId - 1) /\ offers'[id] = offers[id]
        BY <1>0, <1>5, <3>2 DEF Ids
      <4>2. \/ id \in DOMAIN quotes \cup taken \/ now > offers[id]
            \/ nextId - 1 - id >= Capacity
        BY <4>1 DEF StoreInv, KeptInv
      <4>. QED
        BY <1>0, <1>1, <1>2, <1>3, <4>1, <4>2
    <3>. QED
      BY <3>1, <3>2
  <2>. QED
    BY <2>1 DEF KeptInv
<1>11. StoreBounded'
  <2>1. Cardinality(DOMAIN room) \in Nat
    BY <1>2, FS_CardinalityType
  <2>2. /\ IsFiniteSet(DOMAIN room \cup {nextId})
        /\ Cardinality(DOMAIN room \cup {nextId})
             = IF nextId \in DOMAIN room THEN Cardinality(DOMAIN room) ELSE Cardinality(DOMAIN room) + 1
    BY <1>2, FS_AddElement
  <2>3. Cardinality(DOMAIN room \cup {nextId}) \in Nat
    BY <2>2, FS_CardinalityType
  <2>. QED
    BY <1>1, <1>2, <1>3, <2>1, <2>2, <2>3 DEF StoreBounded
<1>. QED
  BY <1>6, <1>8, <1>9, <1>10, <1>11 DEF StoreInv

-----------------------------------------------------------------------------
(* Results and requests.                                                   *)

LEMMA PricedFacts ==
  ASSUME NEW ask \in Asks, now \in Nat
  PROVE  /\ Priced(ask) \in Results
         /\ CacheKey(Priced(ask)) = CacheKey(ask)
         /\ Priced(ask).pricedAt = now
<1>1. ask.amount \in Nat /\ ask.slippage \in Int
  BY ServerAssumption
<1>2. ClampSlippage(ask.slippage) \in 0..1000
  BY <1>1 DEF ClampSlippage
<1>. QED
  BY <1>1, <1>2 DEF Priced, Results, CacheKey

(* What a slot knows of the request it is busy with.                       *)
LEMMA RequestParts ==
  ASSUME TypeOK, NEW s \in Slots
  PROVE  /\ request[s].state = "quoting" => request[s].ask \in QuoteAsks
         /\ request[s].state = "pricing" => request[s].ask \in SwapAsks
         /\ request[s].state = "simulating" =>
              /\ request[s].ask \in SwapAsks /\ request[s].id \in Ids \cup {NoId}
              /\ request[s].result \in Results /\ request[s].builtAt \in Nat
BY DEF TypeOK, Requests, Idle

(* The result of a live cache entry may still be stored.                   *)
LEMMA CachedFacts ==
  ASSUME TypeOK, CacheInv, NEW k, Live(cache, k, now)
  PROVE  /\ cache[k].value \in Results
         /\ now <= cache[k].value.pricedAt + CacheTtl
         /\ CacheKey(cache[k].value) = k
BY DEF TypeOK, CacheInv, Live

-----------------------------------------------------------------------------
(* Every step preserves the parts of the invariant.                        *)

CacheTypes ==
  \A k \in DOMAIN cache : cache[k].value \in Results /\ cache[k].expiresAt \in Nat

(* Losing entries.                                                         *)
LEMMA CacheShrinks ==
  ASSUME TypeOK, CacheInv, NEW time, OnlyDeadGo(cache, cache', time)
  PROVE  CacheTypes' /\ CacheInv'
BY DEF TypeOK, CacheInv, CacheTypes, OnlyDeadGo

LEMMA CacheNext == TypeOK /\ CacheInv /\ [Next]_vars => CacheTypes' /\ CacheInv'
<1>. SUFFICES ASSUME TypeOK, CacheInv, [Next]_vars PROVE CacheTypes' /\ CacheInv'
  OBVIOUS
<1>1. ASSUME NEW s \in Slots, NEW ask \in QuoteAsks, QuoteAsked(s, ask)
      PROVE  CacheTypes' /\ CacheInv'
  BY <1>1, LookupFacts, CacheShrinks DEF QuoteAsked
<1>2. ASSUME NEW s \in Slots, QuotePriced(s) PROVE CacheTypes' /\ CacheInv'
  <2>. DEFINE ask   == request[s].ask
              entry == [value |-> Priced(ask), expiresAt |-> now + CacheTtl]
  <2>1. cache' = With(cache, CacheKey(ask), entry)
    BY <1>2 DEF QuotePriced
  <2>2. now \in Nat /\ CacheTtl \in Nat /\ ask \in Asks
    BY <1>2, RequestParts, ServerAssumption DEF QuotePriced, TypeOK, Asks
  <2>3. /\ Priced(ask) \in Results
        /\ CacheKey(Priced(ask)) = CacheKey(ask)
        /\ Priced(ask).pricedAt = now
    BY <2>2, PricedFacts
  <2>4. /\ entry.value = Priced(ask) /\ entry.expiresAt = now + CacheTtl
        /\ entry.expiresAt \in Nat
    BY <2>2
  <2>. HIDE DEF ask, entry
  <2>. QED
    BY <2>1, <2>2, <2>3, <2>4 DEF With, TypeOK, CacheInv, CacheTypes
<1>3. CASE SweepCache
  BY <1>3, SweptFacts, CacheShrinks DEF SweepCache
<1>4. CASE UNCHANGED cache
  BY <1>4 DEF TypeOK, CacheInv, CacheTypes
<1>5. UNCHANGED vars => UNCHANGED cache
  BY DEF vars
<1>. QED
  BY <1>1, <1>2, <1>3, <1>4, <1>5
     DEF Next, QuoteCached, PricingFails, SwapStored, SwapRefused, SwapAsked, SwapPriced,
         SwapAnswered, SweepQuotes, Tick

LEMMA StoreNext ==
  TypeOK /\ CacheInv /\ StoreInv /\ [Next]_vars => StoreTypes' /\ StoreInv'
<1>. SUFFICES ASSUME TypeOK, CacheInv, StoreInv, [Next]_vars
              PROVE  StoreTypes' /\ StoreInv'
  OBVIOUS
<1>0. now \in Nat /\ taken \subseteq Ids /\ CacheTtl \in Nat /\ DOMAIN quotes \subseteq Ids
  BY ServerAssumption DEF TypeOK, Ids
<1>1. ASSUME NEW s \in Slots, NEW ask \in QuoteAsks, QuoteCached(s, ask)
      PROVE  StoreTypes' /\ StoreInv'
  <2>. DEFINE result == cache[CacheKey(ask)].value
  <2>1. /\ Live(cache, CacheKey(ask), now) /\ Offer(s, ask, result)
        /\ UNCHANGED <<now, taken>>
    BY <1>1 DEF QuoteCached
  <2>2. result \in Results /\ now <= result.pricedAt + CacheTtl
    BY <2>1, CachedFacts
  <2>. QED
    BY <2>1, <2>2, StoreGrows
<1>2. ASSUME NEW s \in Slots, QuotePriced(s) PROVE StoreTypes' /\ StoreInv'
  <2>. DEFINE ask == request[s].ask
  <2>1. Offer(s, ask, Priced(ask)) /\ UNCHANGED <<now, taken>>
    BY <1>2 DEF QuotePriced
  <2>2. ask \in Asks
    BY <1>2, RequestParts DEF QuotePriced, Asks
  <2>3. Priced(ask) \in Results /\ now <= Priced(ask).pricedAt + CacheTtl
    BY <1>0, <2>2, PricedFacts
  <2>. QED
    BY <2>1, <2>3, StoreGrows
<1>3. ASSUME NEW s \in Slots, NEW ask \in SwapAsks, NEW id \in Ids, SwapStored(s, ask, id)
      PROVE  StoreTypes' /\ StoreInv'
  <2>1. /\ quotes' = Without(quotes, {id}) /\ taken' = taken \cup {id}
        /\ UNCHANGED <<nextId, now, offers>>
    BY <1>3 DEF SwapStored, AfterConsume
  <2>2. /\ DOMAIN quotes' = DOMAIN quotes \ {id}
        /\ \A k \in DOMAIN quotes \ {id} : quotes'[k] = quotes[k]
    BY <2>1 DEF Without, Restrict
  <2>. QED
    BY <1>0, <2>1, <2>2, StoreShrinks
<1>4. ASSUME OnlyDeadGo(quotes, quotes', now), UNCHANGED <<nextId, now, offers, taken>>
      PROVE  StoreTypes' /\ StoreInv'
  BY <1>0, <1>4, StoreShrinks DEF OnlyDeadGo
<1>5. ASSUME NEW s \in Slots, NEW ask \in SwapAsks, NEW id \in Ids, SwapRefused(s, ask, id)
      PROVE  StoreTypes' /\ StoreInv'
  BY <1>4, <1>5, LookupFacts DEF SwapRefused
<1>6. CASE SweepQuotes
  BY <1>4, <1>6, SweptFacts DEF SweepQuotes
<1>7. CASE UNCHANGED <<quotes, nextId, now, offers, taken>>
  BY <1>4, <1>7 DEF OnlyDeadGo
<1>8. CASE Tick
  BY <1>0, <1>8, StoreShrinks DEF Tick
<1>9. UNCHANGED vars => UNCHANGED <<quotes, nextId, now, offers, taken>>
  BY DEF vars
<1>. QED
  BY <1>1, <1>2, <1>3, <1>5, <1>6, <1>7, <1>8, <1>9
     DEF Next, QuoteAsked, PricingFails, SwapAsked, SwapPriced, SwapAnswered, SweepCache

(* A quote that was stored live from the cache, or priced now, makes a     *)
(* fresh swap.                                                             *)
LEMMA StoredFacts ==
  ASSUME TypeOK, StoreInv, NEW id, Live(quotes, id, now)
  PROVE  /\ quotes[id].result \in Results
         /\ now - quotes[id].result.pricedAt <= CacheTtl + QuoteTtl
<1>1. /\ quotes[id].createdAt <= quotes[id].result.pricedAt + CacheTtl
      /\ now <= quotes[id].createdAt + QuoteTtl
  BY DEF Live, StoreInv, QuotesInv
<1>2. /\ quotes[id].result \in Results /\ quotes[id].createdAt \in Nat
      /\ now \in Nat /\ CacheTtl \in Nat /\ QuoteTtl \in Nat
  BY ServerAssumption DEF Live, TypeOK
<1>3. quotes[id].result.pricedAt \in Nat
  BY <1>2 DEF Results
<1>. QED
  BY <1>1, <1>2, <1>3

RequestInv == request \in [Slots -> Requests] /\ FreshSwap

(* A slot that goes on to something legitimate.                            *)
LEMMA RequestGoes ==
  ASSUME TypeOK, FreshSwap, NEW s \in Slots, NEW to \in Requests,
         request' = [request EXCEPT ![s] = to],
         to.state = "simulating" => to.builtAt - to.result.pricedAt <= CacheTtl + QuoteTtl
  PROVE  RequestInv'
BY DEF TypeOK, FreshSwap, RequestInv

LEMMA RequestBuilds ==
  ASSUME TypeOK, FreshSwap, NEW s \in Slots, NEW ask \in SwapAsks, NEW id \in Ids \cup {NoId},
         NEW result \in Results, now - result.pricedAt <= CacheTtl + QuoteTtl,
         Build(s, ask, id, result)
  PROVE  RequestInv'
<1>. DEFINE to == [ state |-> "simulating", ask |-> ask, id |-> id, result |-> result,
                    builtAt |-> now ]
<1>1. to \in Requests
  BY DEF Requests, TypeOK
<1>2. /\ request' = [request EXCEPT ![s] = to]
      /\ to.builtAt - to.result.pricedAt <= CacheTtl + QuoteTtl
  BY DEF Build, Goes
<1>. QED
  BY <1>1, <1>2, RequestGoes

LEMMA RequestNext == TypeOK /\ StoreInv /\ FreshSwap /\ [Next]_vars => RequestInv'
<1>. SUFFICES ASSUME TypeOK, StoreInv, FreshSwap, [Next]_vars PROVE RequestInv'
  OBVIOUS
<1>0. Idle \in Requests
  BY DEF Requests
<1>1. ASSUME NEW s \in Slots, request' = [request EXCEPT ![s] = Idle] PROVE RequestInv'
  BY <1>0, <1>1, RequestGoes DEF Idle
<1>2. ASSUME NEW s \in Slots, NEW ask \in QuoteAsks, QuoteAsked(s, ask) PROVE RequestInv'
  <2>1. [state |-> "quoting", ask |-> ask] \in Requests
    BY DEF Requests
  <2>. QED
    BY <1>2, <2>1, RequestGoes DEF QuoteAsked, Goes
<1>3. ASSUME NEW s \in Slots, NEW ask \in SwapAsks, SwapAsked(s, ask) PROVE RequestInv'
  <2>1. [state |-> "pricing", ask |-> ask] \in Requests
    BY DEF Requests
  <2>. QED
    BY <1>3, <2>1, RequestGoes DEF SwapAsked, Goes
<1>4. ASSUME NEW s \in Slots, NEW ask \in SwapAsks, NEW id \in Ids, SwapStored(s, ask, id)
      PROVE  RequestInv'
  <2>1. CASE Build(s, ask, id, quotes[id].result)
    <3>1. Live(quotes, id, now)
      BY <1>4 DEF SwapStored
    <3>. QED
      BY <2>1, <3>1, StoredFacts, RequestBuilds
  <2>2. CASE request' = [request EXCEPT ![s] = Idle]
    BY <1>1, <2>2
  <2>. QED
    BY <1>4, <2>1, <2>2 DEF SwapStored, Answers
<1>5. ASSUME NEW s \in Slots, SwapPriced(s) PROVE RequestInv'
  <2>. DEFINE ask == request[s].ask
  <2>1. CASE Build(s, ask, NoId, Priced(ask))
    <3>1. ask \in SwapAsks /\ ask \in Asks
      BY <1>5, RequestParts DEF SwapPriced, Asks
    <3>2. now \in Nat /\ CacheTtl \in Nat /\ QuoteTtl \in Nat
      BY ServerAssumption DEF TypeOK
    <3>3. Priced(ask) \in Results /\ Priced(ask).pricedAt = now
      BY <3>1, <3>2, PricedFacts
    <3>4. now - Priced(ask).pricedAt <= CacheTtl + QuoteTtl
      BY <3>2, <3>3
    <3>. HIDE DEF ask
    <3>. QED
      BY <2>1, <3>1, <3>3, <3>4, RequestBuilds
  <2>2. CASE request' = [request EXCEPT ![s] = Idle]
    BY <1>1, <2>2
  <2>. QED
    BY <1>5, <2>1, <2>2 DEF SwapPriced, Answers
<1>6. CASE UNCHANGED request
  BY <1>6 DEF TypeOK, FreshSwap, RequestInv
<1>7. UNCHANGED vars => UNCHANGED request
  BY DEF vars
<1>. QED
  BY <1>1, <1>2, <1>3, <1>4, <1>5, <1>6, <1>7
     DEF Next, QuoteCached, QuotePriced, PricingFails, SwapRefused, SwapAnswered,
         SweepCache, SweepQuotes, Tick, Offer, Answers

-----------------------------------------------------------------------------
(* Replies.                                                                *)

LEMMA FitsNext == TypeOK /\ CacheInv /\ QuoteFitsAsk /\ [Next]_vars => QuoteFitsAsk'
<1>. SUFFICES ASSUME TypeOK, CacheInv, QuoteFitsAsk, [Next]_vars PROVE QuoteFitsAsk'
  OBVIOUS
<1>1. ASSUME NEW s, NEW ask, NEW result, CacheKey(result) = CacheKey(ask), Offer(s, ask, result)
      PROVE  QuoteFitsAsk'
  <2>1. reply' = [status |-> "quoted", ask |-> ask, result |-> result]
    BY <1>1 DEF Offer, Answers
  <2>2. result.chain = ask.chain /\ result.pair = ask.pair /\ result.amount = ask.amount
    BY <1>1 DEF CacheKey
  <2>. QED
    BY <2>1, <2>2 DEF QuoteFitsAsk
<1>2. ASSUME NEW s \in Slots, NEW ask \in QuoteAsks, QuoteCached(s, ask) PROVE QuoteFitsAsk'
  BY <1>1, <1>2, CachedFacts DEF QuoteCached
<1>3. ASSUME NEW s \in Slots, QuotePriced(s) PROVE QuoteFitsAsk'
  <2>1. request[s].ask \in Asks /\ now \in Nat
    BY <1>3, RequestParts DEF QuotePriced, Asks, TypeOK
  <2>. QED
    BY <1>1, <1>3, <2>1, PricedFacts DEF QuotePriced
<1>4. CASE reply'.status # "quoted"
  BY <1>4 DEF QuoteFitsAsk
<1>5. CASE UNCHANGED vars
  BY <1>5 DEF QuoteFitsAsk, vars
<1>. QED
  BY <1>2, <1>3, <1>4, <1>5
     DEF Next, QuoteAsked, PricingFails, SwapStored, SwapRefused, SwapAsked, SwapPriced,
         SwapAnswered, SweepCache, SweepQuotes, Tick, Build, Goes, Answers, NoReply

LEMMA HonouredNext == TypeOK /\ StoreInv /\ QuoteHonoured /\ [Next]_vars => QuoteHonoured'
<1>. SUFFICES ASSUME TypeOK, StoreInv, QuoteHonoured, [Next]_vars PROVE QuoteHonoured'
  OBVIOUS
<1>1. ASSUME NEW s \in Slots, NEW ask \in SwapAsks, NEW id \in Ids, SwapRefused(s, ask, id)
      PROVE  QuoteHonoured'
  <2>1. /\ reply'.id = id /\ ~Live(quotes, id, now)
        /\ UNCHANGED <<nextId, taken, now, offers>>
    BY <1>1 DEF SwapRefused, Answers
  <2>2. CASE id \in DOMAIN quotes
    <3>1. /\ offers[id] <= quotes[id].expiresAt /\ offers[id] \in Nat
          /\ quotes[id].expiresAt \in Nat /\ now \in Nat
      BY <2>2 DEF TypeOK, StoreInv, QuotesInv
    <3>2. now > offers[id]
      BY <2>1, <2>2, <3>1 DEF Live
    <3>. QED
      BY <2>1, <3>2 DEF QuoteHonoured
  <2>3. CASE id \notin DOMAIN quotes /\ id < nextId
    <3>1. id \in 1..(nextId - 1)
      BY <2>3 DEF TypeOK, Ids
    <3>. QED
      BY <2>1, <2>3, <3>1 DEF StoreInv, KeptInv, QuoteHonoured
  <2>4. CASE id >= nextId
    BY <2>1, <2>4 DEF QuoteHonoured
  <2>. QED
    BY <2>2, <2>3, <2>4 DEF TypeOK, Ids
<1>2. CASE reply'.status \notin {"quote_expired", "quote_not_found"}
  BY <1>2 DEF QuoteHonoured
<1>3. CASE UNCHANGED vars
  BY <1>3 DEF QuoteHonoured, vars
<1>4. ASSUME NEW s, NEW ask, NEW result, Offer(s, ask, result) PROVE QuoteHonoured'
  BY <1>2, <1>4 DEF Offer, Answers
<1>5. ASSUME NEW s, NEW to, Goes(s, to) \/ reply' = NoReply PROVE QuoteHonoured'
  BY <1>2, <1>5 DEF Goes, NoReply
<1>6. ASSUME NEW s, Answers(s, [status |-> "failed"]) PROVE QuoteHonoured'
  BY <1>2, <1>6 DEF Answers
<1>7. ASSUME NEW s \in Slots, SwapAnswered(s) PROVE QuoteHonoured'
  BY <1>2, <1>7 DEF SwapAnswered, Answers
<1>. QED
  BY <1>1, <1>3, <1>4, <1>5, <1>6, <1>7
     DEF Next, QuoteCached, QuoteAsked, QuotePriced, PricingFails, SwapStored, SwapAsked,
         SwapPriced, SweepCache, SweepQuotes, Tick, Build

-----------------------------------------------------------------------------
(* The invariant.                                                          *)

LEMMA InitInv == Init => ServerInv
<1>. SUFFICES ASSUME Init PROVE ServerInv
  OBVIOUS
<1>1. DOMAIN cache = {} /\ DOMAIN quotes = {}
  BY DEF Init
<1>2. request \in [Slots -> Requests] /\ \A s \in Slots : request[s].state # "simulating"
  BY DEF Init, Requests, Idle
<1>3. TypeOK
  BY <1>1, <1>2, ServerAssumption DEF Init, TypeOK, Ids
<1>4. CacheInv /\ QuotesInv /\ OrderInv /\ KeptInv
  BY <1>1 DEF Init, CacheInv, QuotesInv, OrderInv, KeptInv
<1>5. StoreBounded
  BY <1>1, FS_EmptySet, ServerAssumption DEF StoreBounded
<1>6. FreshSwap /\ QuoteHonoured /\ QuoteFitsAsk
  BY <1>2 DEF Init, FreshSwap, QuoteHonoured, QuoteFitsAsk, NoReply
<1>. QED
  BY <1>3, <1>4, <1>5, <1>6 DEF ServerInv, StoreInv

LEMMA NextInv == ServerInv /\ [Next]_vars => ServerInv'
<1>. SUFFICES ASSUME ServerInv, [Next]_vars PROVE ServerInv'
  OBVIOUS
<1>1. CacheTypes' /\ CacheInv'
  BY CacheNext DEF ServerInv
<1>2. StoreTypes' /\ StoreInv'
  BY StoreNext DEF ServerInv
<1>3. RequestInv'
  BY RequestNext DEF ServerInv
<1>4. QuoteHonoured' /\ QuoteFitsAsk'
  BY FitsNext, HonouredNext DEF ServerInv
<1>5. TypeOK'
  BY <1>1, <1>2, <1>3 DEF TypeOK, CacheTypes, StoreTypes, RequestInv
<1>. QED
  BY <1>1, <1>2, <1>3, <1>4, <1>5 DEF ServerInv, RequestInv

LEMMA Invariance == Spec => []ServerInv
BY InitInv, NextInv, PTL DEF Spec

(* The server's state is what its types say.                               *)
THEOREM ServerTypes == Spec => []TypeOK
<1>1. ServerInv => TypeOK
  BY DEF ServerInv
<1>. QED
  BY <1>1, Invariance, PTL

(* No swap is built from prices older than the two lifetimes together.     *)
THEOREM SwapsFresh == Spec => []FreshSwap
<1>1. ServerInv => FreshSwap
  BY DEF ServerInv
<1>. QED
  BY <1>1, Invariance, PTL

(* An unused quote is refused early only if as many newer ones were stored *)
(* as the store can hold.                                                  *)
THEOREM QuotesHonoured == Spec => []QuoteHonoured
<1>1. ServerInv => QuoteHonoured
  BY DEF ServerInv
<1>. QED
  BY <1>1, Invariance, PTL

(* The store keeps to its capacity.                                        *)
THEOREM StoreStaysBounded == Spec => []StoreBounded
<1>1. ServerInv => StoreBounded
  BY DEF ServerInv, StoreInv
<1>. QED
  BY <1>1, Invariance, PTL

(* A quote answers the question it is given to, cached or not.             *)
THEOREM QuotesFit == Spec => []QuoteFitsAsk
<1>1. ServerInv => QuoteFitsAsk
  BY DEF ServerInv
<1>. QED
  BY <1>1, Invariance, PTL

-----------------------------------------------------------------------------
(* The server implements OfferBook.                                        *)

(* What an id stands for, and what a slot claims.                          *)
OfferOf(id) == IF id >= nextId THEN Book!New
               ELSE IF Live(quotes, id, now) THEN Book!Of(quotes[id].result) ELSE Book!Gone

ClaimOf(s) == IF request[s].state = "simulating" /\ request[s].id # NoId
              THEN [id |-> request[s].id, pair |-> request[s].ask.pair, result |-> request[s].result]
              ELSE None

Offers == [id \in Ids |-> OfferOf(id)]
Claims == [s \in Slots |-> ClaimOf(s)]

LEMMA BookInit == Init => Book!Init
BY DEF Init, Book!Init, Book!New, Idle, Ids

LEMMA BookVars ==
  ASSUME Offers' = Offers, Claims' = Claims
  PROVE  UNCHANGED Book!vars
BY DEF Book!vars, Offers, Claims, OfferOf, ClaimOf, Book!New, Book!Of, Book!Gone

(* A result is offered.                                                    *)
LEMMA BookOffers ==
  ASSUME Claims' = Claims, NEW id \in Ids, NEW result, NEW withdrawn \in SUBSET Ids,
         OfferOf(id) = Book!New,
         \A i \in withdrawn : OfferOf(i).status = "open",
         Offers' = [i \in Ids |-> IF i = id THEN Book!Of(result)
                                  ELSE IF i \in withdrawn THEN Book!Gone ELSE OfferOf(i)]
  PROVE  Book!Next
<1>1. withdrawn \in SUBSET Book!Open
  BY DEF Book!Open, OfferOf, Book!New, Book!Of, Book!Gone
<1>2. Book!Offer(id, result, withdrawn)
  BY <1>1 DEF Book!Offer, Offers, Claims, OfferOf, ClaimOf, Book!New, Book!Of, Book!Gone
<1>3. Offers'[id].status = "open" /\ Offers'[id].result = result
  BY DEF Book!Of
<1>. QED
  BY <1>1, <1>2, <1>3 DEF Book!Next, Offers, OfferOf, Book!New, Book!Of, Book!Gone

(* Offers are lost, or none is.                                            *)
LEMMA BookWithdraws ==
  ASSUME Claims' = Claims, NEW withdrawn \in SUBSET Ids,
         \A i \in withdrawn : OfferOf(i).status = "open",
         Offers' = [i \in Ids |-> IF i \in withdrawn THEN Book!Gone ELSE OfferOf(i)]
  PROVE  [Book!Next]_(Book!vars)
<1>1. CASE withdrawn = {}
  BY <1>1, BookVars DEF Offers
<1>2. CASE withdrawn # {}
  <2>1. withdrawn \in SUBSET Book!Open
    BY DEF Book!Open, OfferOf, Book!New, Book!Of, Book!Gone
  <2>2. Book!Withdraw(withdrawn)
    BY <1>2, <2>1 DEF Book!Withdraw, Offers, Claims, OfferOf, ClaimOf, Book!New, Book!Of, Book!Gone
  <2>. QED
    BY <2>1, <2>2 DEF Book!Next
<1>. QED
  BY <1>1, <1>2

(* A client makes a swap of a quote.                                       *)
LEMMA BookRedeems ==
  ASSUME NEW s \in Slots, NEW id \in Ids, NEW result, OfferOf(id) = Book!Of(result),
         Offers' = [Offers EXCEPT ![id] = Book!Gone],
         Claims' = [Claims EXCEPT ![s] = [id |-> id, pair |-> result.pair, result |-> result]]
  PROVE  Book!Next
<1>1. id \in Book!Open
  BY DEF Book!Open, OfferOf, Book!New, Book!Of, Book!Gone
<1>2. Offers[id].result = result
  BY DEF Offers, Book!Of
<1>3. Book!Redeem(s, id, Offers[id].result.pair)
  BY <1>1, <1>2
     DEF Book!Redeem, Offers, Claims, OfferOf, ClaimOf, Book!New, Book!Of, Book!Gone
<1>. QED
  BY <1>1, <1>3 DEF Book!Next, Offers, OfferOf, Book!New, Book!Of, Book!Gone

(* A client has its swap.                                                  *)
LEMMA BookFinishes ==
  ASSUME NEW s \in Slots, Offers' = Offers, Claims' = [Claims EXCEPT ![s] = None]
  PROVE  [Book!Next]_(Book!vars)
<1>1. CASE ClaimOf(s) = None
  <2>1. Claims' = Claims
    BY <1>1 DEF Claims
  <2>. QED
    BY <2>1, BookVars
<1>2. CASE ClaimOf(s) # None
  <2>1. Book!Finish(s)
    BY <1>2 DEF Book!Finish, Offers, Claims, OfferOf, ClaimOf, Book!New, Book!Of, Book!Gone
  <2>. QED
    BY <2>1 DEF Book!Next
<1>. QED
  BY <1>1, <1>2

(* A slot that neither makes nor made a swap of a quote claims nothing.    *)
LEMMA ClaimsKept ==
  ASSUME TypeOK, NEW s \in Slots, NEW to, request' = [request EXCEPT ![s] = to],
         request[s].state # "simulating",
         to.state # "simulating" \/ to.id = NoId
  PROVE  Claims' = Claims
BY DEF TypeOK, Claims, ClaimOf

LEMMA OffersKept ==
  ASSUME OnlyDeadGo(quotes, quotes', now), UNCHANGED <<nextId, now>>
  PROVE  Offers' = Offers
<1>1. ASSUME NEW id \in Ids PROVE OfferOf(id)' = OfferOf(id)
  BY DEF OnlyDeadGo, OfferOf, Live
<1>. QED
  BY <1>1 DEF Offers

(* Storing a quote offers it; room for it is made by a withdrawal.         *)
LEMMA OfferStep ==
  ASSUME ServerInv, NEW s \in Slots, NEW ask, NEW result, Offer(s, ask, result), now' = now,
         request[s].state # "simulating"
  PROVE  Book!Next
<1>. DEFINE room  == WithRoom(quotes, Capacity)
            entry == [result |-> result, createdAt |-> now, expiresAt |-> now + QuoteTtl]
            withdrawn == {i \in Ids : OfferOf(i).status = "open" /\ i \notin DOMAIN room}
<1>1. PICK id \in Ids : /\ id = nextId
                        /\ nextId' = id + 1
                        /\ quotes' = With(room, id, entry)
                        /\ request' = [request EXCEPT ![s] = Idle]
  BY DEF Offer, Store, Answers
<1>2. /\ now \in Nat /\ QuoteTtl \in Nat /\ id \in Nat /\ id >= id /\ ~(id >= id + 1)
      /\ DOMAIN quotes \subseteq 1..(id - 1)
  BY <1>1, ServerAssumption DEF ServerInv, TypeOK, Ids
<1>3. /\ DOMAIN room \subseteq DOMAIN quotes
      /\ \A i \in DOMAIN room : room[i] = quotes[i]
  BY RoomFacts DEF ServerInv
<1>4. entry.result = result /\ now <= entry.expiresAt
  BY <1>2
<1>. HIDE DEF room, entry
<1>5. /\ DOMAIN quotes' = DOMAIN room \cup {id}
      /\ quotes'[id] = entry
      /\ \A i \in DOMAIN room : quotes'[i] = quotes[i]
  BY <1>1, <1>2, <1>3 DEF With
<1>6. OfferOf(id) = Book!New /\ OfferOf(id)' = Book!Of(result)
  BY <1>1, <1>2, <1>4, <1>5 DEF OfferOf, Live, Book!New, Book!Of
<1>7. ASSUME NEW i \in Ids, i # id
      PROVE  OfferOf(i)' = IF i \in withdrawn THEN Book!Gone ELSE OfferOf(i)
  <2>1. CASE i > id
    <3>1. i >= nextId /\ i >= nextId'
      BY <1>1, <1>2, <2>1 DEF Ids
    <3>. QED
      BY <3>1 DEF OfferOf, Book!New
  <2>2. CASE i < id
    <3>1. ~(i >= nextId) /\ ~(i >= nextId')
      BY <1>1, <1>2, <2>2 DEF Ids
    <3>2. CASE i \in DOMAIN room
      BY <1>3, <1>5, <3>1, <3>2 DEF OfferOf, Live
    <3>3. CASE i \notin DOMAIN room
      <4>1. OfferOf(i)' = Book!Gone
        BY <1>5, <1>7, <3>1, <3>3 DEF OfferOf, Live
      <4>. QED
        BY <3>1, <3>3, <4>1 DEF OfferOf, Book!Of, Book!Gone
    <3>. QED
      BY <3>2, <3>3
  <2>. QED
    BY <1>2, <1>7, <2>1, <2>2 DEF Ids
<1>8. Claims' = Claims
  <2>1. Idle.state # "simulating"
    BY DEF Idle
  <2>. QED
    BY <1>1, <2>1, ClaimsKept DEF ServerInv
<1>9. withdrawn \in SUBSET Ids /\ \A i \in withdrawn : OfferOf(i).status = "open"
  OBVIOUS
<1>. HIDE DEF withdrawn
<1>10. Offers' = [i \in Ids |-> IF i = id THEN Book!Of(result)
                                ELSE IF i \in withdrawn THEN Book!Gone ELSE OfferOf(i)]
  BY <1>6, <1>7 DEF Offers
<1>. QED
  BY <1>6, <1>8, <1>9, <1>10, BookOffers

(* A consumed quote makes a swap of its result, or is lost.                *)
LEMMA StoredStep ==
  ASSUME ServerInv, NEW s \in Slots, NEW ask \in SwapAsks, NEW id \in Ids, SwapStored(s, ask, id)
  PROVE  [Book!Next]_(Book!vars)
<1>. DEFINE result == quotes[id].result
<1>1. /\ request[s] = Idle /\ Live(quotes, id, now)
      /\ quotes' = Without(quotes, {id}) /\ UNCHANGED <<nextId, now>>
  BY DEF SwapStored, AfterConsume
<1>2. id \in DOMAIN quotes /\ id < nextId /\ nextId \in Nat /\ id # NoId
  BY <1>1 DEF Live, ServerInv, TypeOK, NoId, Ids
<1>3. OfferOf(id) = Book!Of(result) /\ OfferOf(id)' = Book!Gone
  BY <1>1, <1>2 DEF OfferOf, Live, Without, Restrict, Ids
<1>4. ASSUME NEW i \in Ids, i # id PROVE OfferOf(i)' = OfferOf(i)
  BY <1>1, <1>4 DEF OfferOf, Live, Without, Restrict
<1>5. CASE SameTokens(result, ask) /\ Build(s, ask, id, result)
  <2>1. result.pair = ask.pair
    BY <1>5 DEF SameTokens
  <2>2. Claims' = [Claims EXCEPT ![s] = [id |-> id, pair |-> result.pair, result |-> result]]
    <3>1. request' = [request EXCEPT ![s] =
            [ state |-> "simulating", ask |-> ask, id |-> id, result |-> result, builtAt |-> now ]]
      BY <1>5 DEF Build, Goes
    <3>. QED
      BY <1>2, <2>1, <3>1 DEF Claims, ClaimOf, ServerInv, TypeOK
  <2>3. Offers' = [Offers EXCEPT ![id] = Book!Gone]
    BY <1>3, <1>4 DEF Offers
  <2>. QED
    BY <1>3, <2>2, <2>3, BookRedeems
<1>6. CASE request' = [request EXCEPT ![s] = Idle]
  <2>1. Claims' = Claims
    <3>1. request[s].state # "simulating" /\ Idle.state # "simulating" /\ TypeOK
      BY <1>1 DEF ServerInv, Idle
    <3>. QED
      BY <1>6, <3>1, ClaimsKept
  <2>2. Offers' = [i \in Ids |-> IF i \in {id} THEN Book!Gone ELSE OfferOf(i)]
    BY <1>3, <1>4 DEF Offers
  <2>3. {id} \in SUBSET Ids /\ \A i \in {id} : OfferOf(i).status = "open"
    BY <1>3 DEF Book!Of
  <2>. QED
    BY <2>1, <2>2, <2>3, BookWithdraws
<1>. QED
  BY <1>5, <1>6 DEF SwapStored, Answers

(* Time withdraws the quotes it lets expire.                               *)
LEMMA TickStep ==
  ASSUME ServerInv, Tick
  PROVE  [Book!Next]_(Book!vars)
<1>. DEFINE withdrawn == {i \in Ids : OfferOf(i).status = "open" /\ ~Live(quotes, i, now')}
<1>1. Claims' = Claims /\ UNCHANGED <<quotes, nextId>> /\ now' = now + 1
  BY DEF Tick, Claims, ClaimOf
<1>2. ASSUME NEW i \in Ids
      PROVE  OfferOf(i)' = IF i \in withdrawn THEN Book!Gone ELSE OfferOf(i)
  <2>1. i \in DOMAIN quotes => quotes[i].expiresAt \in Nat /\ now \in Nat
    BY DEF ServerInv, TypeOK
  <2>2. Live(quotes, i, now') => Live(quotes, i, now)
    BY <1>1, <2>1 DEF Live
  <2>. QED
    BY <1>1, <2>2 DEF OfferOf, Live, Book!New, Book!Of, Book!Gone
<1>3. Offers' = [i \in Ids |-> IF i \in withdrawn THEN Book!Gone ELSE OfferOf(i)]
  BY <1>2 DEF Offers
<1>4. withdrawn \in SUBSET Ids /\ \A i \in withdrawn : OfferOf(i).status = "open"
  OBVIOUS
<1>. HIDE DEF withdrawn
<1>. QED
  BY <1>1, <1>3, <1>4, BookWithdraws

LEMMA BookNext == ServerInv /\ [Next]_vars => [Book!Next]_(Book!vars)
<1>. SUFFICES ASSUME ServerInv, [Next]_vars PROVE [Book!Next]_(Book!vars)
  OBVIOUS
<1>1. ASSUME NEW s \in Slots, NEW ask \in QuoteAsks, QuoteCached(s, ask)
      PROVE  [Book!Next]_(Book!vars)
  BY <1>1, OfferStep DEF QuoteCached, Idle
<1>2. ASSUME NEW s \in Slots, QuotePriced(s) PROVE [Book!Next]_(Book!vars)
  BY <1>2, OfferStep DEF QuotePriced
<1>3. ASSUME OnlyDeadGo(quotes, quotes', now), UNCHANGED <<nextId, now>>, Claims' = Claims
      PROVE  [Book!Next]_(Book!vars)
  BY <1>3, OffersKept, BookVars
<1>4. ASSUME NEW s \in Slots, NEW ask \in SwapAsks, NEW id \in Ids, SwapRefused(s, ask, id)
      PROVE  [Book!Next]_(Book!vars)
  <2>1. OnlyDeadGo(quotes, quotes', now) /\ UNCHANGED <<nextId, now>>
    BY <1>4, LookupFacts DEF SwapRefused
  <2>2. Claims' = Claims
    <3>1. request' = [request EXCEPT ![s] = Idle]
      BY <1>4 DEF SwapRefused, Answers
    <3>2. request[s].state # "simulating" /\ Idle.state # "simulating" /\ TypeOK
      BY <1>4 DEF SwapRefused, ServerInv, Idle
    <3>. QED
      BY <3>1, <3>2, ClaimsKept
  <2>. QED
    BY <1>3, <2>1, <2>2
<1>5. CASE SweepQuotes
  <2>1. OnlyDeadGo(quotes, quotes', now) /\ UNCHANGED <<nextId, now>>
    BY <1>5, SweptFacts DEF SweepQuotes
  <2>2. Claims' = Claims
    BY <1>5 DEF SweepQuotes, Claims, ClaimOf
  <2>. QED
    BY <1>3, <2>1, <2>2
<1>6. ASSUME UNCHANGED <<quotes, nextId, now>>, Claims' = Claims
      PROVE  [Book!Next]_(Book!vars)
  BY <1>3, <1>6 DEF OnlyDeadGo
<1>7. ASSUME NEW s \in Slots, NEW to, request' = [request EXCEPT ![s] = to],
             UNCHANGED <<quotes, nextId, now>>,
             request[s].state # "simulating", to.state # "simulating" \/ to.id = NoId
      PROVE  [Book!Next]_(Book!vars)
  BY <1>6, <1>7, ClaimsKept DEF ServerInv
<1>8. ASSUME NEW s \in Slots, NEW ask, QuoteAsked(s, ask) \/ SwapAsked(s, ask)
      PROVE  [Book!Next]_(Book!vars)
  BY <1>7, <1>8 DEF QuoteAsked, SwapAsked, Goes, Idle
<1>9. ASSUME NEW s \in Slots, PricingFails(s) PROVE [Book!Next]_(Book!vars)
  BY <1>7, <1>9 DEF PricingFails, Answers, Idle
<1>10. ASSUME NEW s \in Slots, SwapPriced(s) PROVE [Book!Next]_(Book!vars)
  BY <1>7, <1>10 DEF SwapPriced, Build, Goes, Answers, Idle
<1>11. ASSUME NEW s \in Slots, SwapAnswered(s) PROVE [Book!Next]_(Book!vars)
  <2>1. request' = [request EXCEPT ![s] = Idle] /\ UNCHANGED <<quotes, nextId, now>>
    BY <1>11 DEF SwapAnswered, Answers
  <2>2. Offers' = Offers
    BY <2>1 DEF Offers, OfferOf
  <2>3. Claims' = [Claims EXCEPT ![s] = None]
    BY <2>1 DEF Claims, ClaimOf, ServerInv, TypeOK, Idle
  <2>. QED
    BY <2>2, <2>3, BookFinishes
<1>12. CASE SweepCache \/ UNCHANGED vars
  BY <1>6, <1>12 DEF SweepCache, vars, Claims, ClaimOf
<1>. QED
  BY <1>1, <1>2, <1>4, <1>5, <1>8, <1>9, <1>10, <1>11, <1>12, StoredStep, TickStep DEF Next

(* However requests interleave, expire and evict each other's quotes, the  *)
(* server keeps what OfferBook promises.                                   *)
THEOREM OffersKeptThroughout == Spec => KeepsOffers
<1>. QED
  BY BookInit, BookNext, Invariance, PTL DEF Spec, KeepsOffers, Book!Spec
=============================================================================
