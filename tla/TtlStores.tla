----------------------------- MODULE TtlStores -----------------------------
(***************************************************************************)
(* ttl-cache.ts and quote-store.ts: maps whose entries carry the time they *)
(* expire at.  An entry is good until that time, inclusive; whoever reads  *)
(* an entry past its time deletes it, and a timer deletes the others.      *)
(* Every operator works on the map as it is and gives the map as it will   *)
(* be; now is Date.now().                                                  *)
(***************************************************************************)
EXTENDS Integers, FiniteSets, Functions

(* Variant: entries never go off.                                          *)
AlwaysLive(map, key, now) == key \in DOMAIN map

(* An entry that may still be handed out.                                  *)
Live(map, key, now) == key \in DOMAIN map /\ now <= map[key].expiresAt

Without(map, keys) == Restrict(map, DOMAIN map \ keys)
With(map, key, entry) == [k \in DOMAIN map \cup {key} |-> IF k = key THEN entry ELSE map[k]]

(* What a lookup of the key leaves: a dead entry is dropped.               *)
AfterLookup(map, key, now) == IF Live(map, key, now) THEN map ELSE Without(map, {key})

(* The cleanup timer.                                                      *)
Swept(map, now) == Without(map, {k \in DOMAIN map : ~Live(map, k, now)})

-----------------------------------------------------------------------------
(* QuoteStore.  Identifiers grow with time, so the least is the first of   *)
(* the map's insertion order.                                              *)

Oldest(quotes) ==
  CHOOSE id \in DOMAIN quotes :
    \A other \in DOMAIN quotes :
      \/ quotes[id].createdAt < quotes[other].createdAt
      \/ quotes[id].createdAt = quotes[other].createdAt /\ id <= other

(* Variants: the newest makes way; the limit is noticed one quote late.    *)
WithoutNewest(quotes, capacity) ==
  IF Cardinality(DOMAIN quotes) >= capacity
  THEN Without(quotes, {CHOOSE id \in DOMAIN quotes : \A other \in DOMAIN quotes : id >= other})
  ELSE quotes
RoomLate(quotes, capacity) ==
  IF Cardinality(DOMAIN quotes) > capacity THEN Without(quotes, {Oldest(quotes)}) ELSE quotes

(* A full store drops its oldest quote before it takes another.            *)
WithRoom(quotes, capacity) ==
  IF Cardinality(DOMAIN quotes) >= capacity THEN Without(quotes, {Oldest(quotes)}) ELSE quotes

Store(quotes, capacity, id, result, now, ttl) ==
  With(WithRoom(quotes, capacity), id,
       [result |-> result, createdAt |-> now, expiresAt |-> now + ttl])

(* Variant: a consumed quote stays in the map.                             *)
AfterPeek(quotes, id, now) == AfterLookup(quotes, id, now)

(* consume: a live quote is handed out and deleted, a dead one is deleted. *)
AfterConsume(quotes, id, now) == Without(quotes, {id})

(* isExpired: an id the store does not know counts as expired.             *)
IsExpired(quotes, id, now) == ~Live(quotes, id, now)
=============================================================================
