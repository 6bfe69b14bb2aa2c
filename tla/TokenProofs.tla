---------------------------- MODULE TokenProofs ----------------------------
(***************************************************************************)
(* A request of a client that runs alone tries every primary transport,    *)
(* for any number of requests, transports and fallbacks.  What the token   *)
(* service keeps and answers is right, for any tokens, lists, lifetimes    *)
(* and number of calls, whatever fails; and its requests are requests of   *)
(* the load balancer.                                                      *)
(***************************************************************************)
EXTENDS TokenService, OrderLemmas

-----------------------------------------------------------------------------
(* The client's transports: counting round from the cursor.                *)

LEMMA ModSmall ==
  ASSUME NEW n \in Nat \ {0}, NEW a \in 0..(n - 1)
  PROVE  a % n = a
OBVIOUS

LEMMA ModRange ==
  ASSUME NEW n \in Nat \ {0}, NEW a \in Nat
  PROVE  a % n \in 0..(n - 1)
OBVIOUS

LEMMA ModOver ==
  ASSUME NEW n \in Nat \ {0}, NEW a \in 0..(n - 1)
  PROVE  (a + n) % n = a
OBVIOUS

(* The first n transports from the cursor; a full round is all of them.    *)
Round(n) == {(cursor + i) % Total : i \in 0..(n - 1)}

LEMMA RoundGrows ==
  ASSUME NEW n \in Nat
  PROVE  Round(n + 1) = Round(n) \cup {(cursor + n) % Total}
<1>1. 0..((n + 1) - 1) = 0..(n - 1) \cup {n}
  OBVIOUS
<1>. QED
  BY <1>1 DEF Round

LEMMA RoundIsAll ==
  ASSUME cursor \in Primaries
  PROVE  Round(Total) = Primaries
<1>1. ASSUME NEW i \in 0..(Total - 1) PROVE (cursor + i) % Total \in Primaries
  BY TotalAssumption, ModRange DEF Primaries
<1>2. ASSUME NEW p \in Primaries PROVE \E i \in 0..(Total - 1) : p = (cursor + i) % Total
  <2>1. CASE p >= cursor
    <3>1. p - cursor \in 0..(Total - 1) /\ cursor + (p - cursor) = p
      BY <2>1, TotalAssumption DEF Primaries
    <3>2. p % Total = p
      BY TotalAssumption, ModSmall DEF Primaries
    <3>. QED
      BY <3>1, <3>2
  <2>2. CASE p < cursor
    <3>1. p + Total - cursor \in 0..(Total - 1) /\ cursor + (p + Total - cursor) = p + Total
      BY <2>2, TotalAssumption DEF Primaries
    <3>2. (p + Total) % Total = p
      BY TotalAssumption, ModOver DEF Primaries
    <3>. QED
      BY <3>1, <3>2
  <2>. QED
    BY <2>1, <2>2, TotalAssumption DEF Primaries
<1>. QED
  BY <1>1, <1>2 DEF Round

-----------------------------------------------------------------------------
(* The inductive invariant.                                                *)

(* While a request that runs alone runs, no other does.                    *)
AloneInv == \A r, o \in Requests : alone[r] /\ Active(r) /\ Active(o) => o = r

(* It goes round from where the cursor stands, and those behind it failed. *)
RoundInv ==
  \A r \in Requests :
    alone[r] /\ task[r].state = "primary" =>
      /\ task[r].index = (cursor + task[r].offset) % Total
      /\ failed[r] = Round(task[r].offset)

BalancerInv == TypeOK /\ AloneInv /\ RoundInv /\ UndisturbedTriesAll

LEMMA InitInv == Init => BalancerInv
BY TotalAssumption, ModRange
   DEF Init, BalancerInv, TypeOK, AloneInv, RoundInv, UndisturbedTriesAll, Ready, Tasks, Active,
       GaveUp, Primaries

LEMMA TypeNext == TypeOK /\ [Next]_vars => TypeOK'
<1>. SUFFICES ASSUME TypeOK, [Next]_vars PROVE TypeOK'
  OBVIOUS
<1>. USE TotalAssumption DEF TypeOK
<1>1. ASSUME NEW n \in Nat PROVE n % Total \in Primaries
  BY ModRange DEF Primaries
<1>2. ASSUME NEW offset \in Primaries PROVE Trying(offset) \in Tasks
  BY <1>1 DEF Trying, Tasks, Primaries
<1>3. ASSUME NEW k \in Nat PROVE Outcome(k) \in Tasks
  BY DEF Outcome, Tasks
<1>4. ASSUME NEW r \in Requests, task[r].state = "primary"
      PROVE  task[r].offset \in Primaries /\ task[r].index \in Primaries
  BY <1>4 DEF Tasks, Ready
<1>5. ASSUME NEW r \in Requests, task[r].state = "fallback" PROVE task[r].index \in Nat
  BY <1>5 DEF Tasks, Ready
<1>6. [state |-> "answered"] \in Tasks
  BY DEF Tasks
<1>7. ASSUME NEW r \in Requests, Start(r) PROVE TypeOK'
  <2>1. 0 \in Primaries
    BY DEF Primaries
  <2>2. alone' \in [Requests -> BOOLEAN]
    <3>. DEFINE others == {o \in Requests \ {r} : Active(o)}
    <3>1. alone' = [o \in Requests |->
                      IF o = r THEN others = {} ELSE IF o \in others THEN FALSE ELSE alone[o]]
      BY <1>7 DEF Start
    <3>2. (others = {}) \in BOOLEAN
      OBVIOUS
    <3>. HIDE DEF others
    <3>3. ASSUME NEW o \in Requests
          PROVE  (IF o = r THEN others = {} ELSE IF o \in others THEN FALSE ELSE alone[o]) \in BOOLEAN
      BY <3>2
    <3>. QED
      BY <3>1, <3>3
  <2>3. task' \in [Requests -> Tasks] /\ failed' \in [Requests -> SUBSET Primaries]
    BY <1>2, <1>7, <2>1 DEF Start
  <2>4. calls' \in 0..MaxCalls /\ cursor' \in Primaries
    BY <1>7 DEF Start
  <2>. QED
    BY <2>2, <2>3, <2>4
<1>8. ASSUME NEW r \in Requests, PrimaryAnswers(r) PROVE TypeOK'
  <2>1. task[r].index + 1 \in Nat
    BY <1>4, <1>8 DEF PrimaryAnswers, Primaries
  <2>. QED
    BY <1>1, <1>6, <1>8, <2>1 DEF PrimaryAnswers
<1>9. ASSUME NEW r \in Requests, PrimaryFails(r) PROVE TypeOK'
  <2>1. task[r].offset + 1 \in Primaries
    BY <1>4, <1>9 DEF PrimaryFails, Primaries
  <2>. QED
    BY <1>2, <1>4, <1>9, <2>1 DEF PrimaryFails
<1>10. ASSUME NEW r \in Requests, PrimariesExhausted(r) PROVE TypeOK'
  <2>1. 0 \in Primaries
    BY DEF Primaries
  <2>. QED
    BY <1>3, <1>4, <1>10, <2>1 DEF PrimariesExhausted
<1>11. ASSUME NEW r \in Requests, FallbackAnswers(r) PROVE TypeOK'
  BY <1>6, <1>11 DEF FallbackAnswers
<1>12. ASSUME NEW r \in Requests, FallbackFails(r) PROVE TypeOK'
  BY <1>3, <1>5, <1>12 DEF FallbackFails
<1>13. CASE UNCHANGED vars
  BY <1>13 DEF vars
<1>. QED
  BY <1>7, <1>8, <1>9, <1>10, <1>11, <1>12, <1>13 DEF Next, Reply

(* A request starts: if another one runs, neither is alone any more.       *)
LEMMA StartStep ==
  ASSUME BalancerInv, NEW r \in Requests, Start(r)
  PROVE  AloneInv' /\ RoundInv' /\ UndisturbedTriesAll'
<1>. DEFINE others == {o \in Requests \ {r} : Active(o)}
<1>1. /\ task' = [task EXCEPT ![r] = Trying(0)] /\ UNCHANGED cursor
      /\ failed' = [failed EXCEPT ![r] = {}]
      /\ alone' = [o \in Requests |->
                     IF o = r THEN others = {} ELSE IF o \in others THEN FALSE ELSE alone[o]]
  BY DEF Start
<1>2. ASSUME NEW o \in Requests, o # r
      PROVE  /\ task'[o] = task[o] /\ failed'[o] = failed[o]
             /\ Active(o)' <=> Active(o)
             /\ alone'[o] => alone[o] /\ ~Active(o)
  BY <1>1, <1>2 DEF BalancerInv, TypeOK, Active
<1>3. alone'[r] => \A o \in Requests \ {r} : ~Active(o)
  BY <1>1
<1>4. /\ task'[r].state = "primary" /\ task'[r].offset = 0
      /\ task'[r].index = (cursor' + 0) % Total
      /\ failed'[r] = {}
  BY <1>1 DEF BalancerInv, TypeOK, Trying
<1>5. Round(0)' = {}
  BY DEF Round
<1>. HIDE DEF others
<1>6. AloneInv'
  BY <1>2, <1>3 DEF AloneInv
<1>7. RoundInv'
  BY <1>2, <1>4, <1>5 DEF RoundInv, Active
<1>8. UndisturbedTriesAll'
  BY <1>2, <1>4 DEF BalancerInv, UndisturbedTriesAll, GaveUp
<1>. QED
  BY <1>6, <1>7, <1>8

(* A reply to r leaves the others as they are.                             *)
LEMMA ReplyFrame ==
  ASSUME BalancerInv, NEW r \in Requests, Reply(r)
  PROVE  /\ Active(r) /\ alone' = alone
         /\ \A o \in Requests \ {r} :
              /\ task'[o] = task[o] /\ failed'[o] = failed[o]
              /\ Active(o)' <=> Active(o)
BY DEF Reply, PrimaryAnswers, PrimaryFails, PrimariesExhausted, FallbackAnswers, FallbackFails,
       BalancerInv, TypeOK, Active

(* Where a reply leaves r: if r is alone, the cursor is its own.           *)
LEMMA ReplyOwn ==
  ASSUME BalancerInv, NEW r \in Requests, Reply(r), alone[r]
  PROVE  /\ task'[r].state = "primary" =>
              /\ task'[r].index = (cursor' + task'[r].offset) % Total
              /\ (failed[r] = Round(task[r].offset))'
         /\ GaveUp(r)' => failed'[r] = Primaries
<1>. USE DEF BalancerInv, TypeOK
<1>1. CASE PrimaryAnswers(r) \/ FallbackAnswers(r)
  BY <1>1 DEF PrimaryAnswers, FallbackAnswers, GaveUp
<1>2. CASE task[r].state = "primary" /\ (PrimaryFails(r) \/ PrimariesExhausted(r))
  <2>1. task[r].offset \in Nat /\ task[r].index = (cursor + task[r].offset) % Total
        /\ failed[r] = Round(task[r].offset)
    BY <1>2, TotalAssumption DEF RoundInv, Tasks, Ready, Primaries
  <2>2. failed'[r] = Round(task[r].offset + 1)
    <3>1. failed'[r] = failed[r] \cup {task[r].index}
      BY <1>2 DEF PrimaryFails, PrimariesExhausted
    <3>. QED
      BY <2>1, <3>1, RoundGrows
  <2>3. CASE PrimaryFails(r)
    BY <2>2, <2>3 DEF PrimaryFails, Trying, Round, GaveUp
  <2>4. CASE PrimariesExhausted(r)
    BY <2>2, <2>4, RoundIsAll DEF PrimariesExhausted, Outcome
  <2>. QED
    BY <1>2, <2>3, <2>4
<1>3. CASE FallbackFails(r)
  BY <1>3 DEF FallbackFails, Outcome, UndisturbedTriesAll, GaveUp
<1>. QED
  BY <1>1, <1>2, <1>3 DEF Reply, PrimaryFails, PrimariesExhausted

LEMMA ReplyStep ==
  ASSUME BalancerInv, NEW r \in Requests, Reply(r)
  PROVE  AloneInv' /\ RoundInv' /\ UndisturbedTriesAll'
<1>1. AloneInv'
  BY ReplyFrame DEF BalancerInv, AloneInv
<1>2. RoundInv'
  <2>1. ASSUME NEW o \in Requests, o # r, alone'[o], task'[o].state = "primary" PROVE FALSE
    BY <2>1, ReplyFrame DEF BalancerInv, AloneInv, Active
  <2>. QED
    BY <2>1, ReplyFrame, ReplyOwn DEF RoundInv
<1>3. UndisturbedTriesAll'
  BY ReplyFrame, ReplyOwn DEF BalancerInv, UndisturbedTriesAll, GaveUp
<1>. QED
  BY <1>1, <1>2, <1>3

LEMMA NextInv == BalancerInv /\ [Next]_vars => BalancerInv'
<1>1. CASE UNCHANGED vars
  BY <1>1 DEF vars, BalancerInv, TypeOK, AloneInv, RoundInv, Round, UndisturbedTriesAll, Active,
              GaveUp
<1>. QED
  BY <1>1, TypeNext, StartStep, ReplyStep DEF Next, BalancerInv

LEMMA Invariance == Spec => []BalancerInv
BY InitInv, NextInv, PTL DEF Spec

-----------------------------------------------------------------------------
(* The shared cursor and every index name a transport.                     *)
THEOREM BalancerTypes == Spec => []TypeOK
<1>1. BalancerInv => TypeOK
  BY DEF BalancerInv
<1>. QED
  BY <1>1, Invariance, PTL

(* A request nobody ran beside leaves the primaries only after every one   *)
(* of them failed it.                                                      *)
THEOREM EveryPrimaryTried == Spec => []UndisturbedTriesAll
<1>1. BalancerInv => UndisturbedTriesAll
  BY DEF BalancerInv
<1>. QED
  BY <1>1, Invariance, PTL

-----------------------------------------------------------------------------
(* The token service: its inductive invariant.                             *)

(* What is known of a token, or the coin, is its own.                      *)
Fits(value, a) ==
  /\ value \in Metadatas /\ value.token = a
  /\ a \in Tokens => value.decimals = Decimals[a]

(* An entry was true when it was read, and was on its way to the cache no  *)
(* longer than the slowest one.                                            *)
CacheInv ==
  \A t \in Tokens : cache[t] # None =>
    /\ Fits(cache[t].value, t)
    /\ cache[t].expiresAt \in Nat
    /\ cache[t].value.supply # None => cache[t].value.supply + Ttl + slowest >= cache[t].expiresAt

Recent(value, began) ==
  value.supply # None => value.supply >= began \/ value.supply + Ttl + slowest > began

Gaps(c) == {i \in DOMAIN call[c].asked : call[c].results[i] = None}

(* A call knows of what it was asked what was in the cache when it began,  *)
(* and lists the places of the rest, all of them tokens.                   *)
Called(c) ==
  /\ DOMAIN call[c] = {"stage", "asked", "results", "missing", "began"}
  /\ call[c].asked \in Lists /\ call[c].began \in 0..clock
  /\ call[c].results \in Seq(Metadatas \cup {None})
  /\ Len(call[c].results) = Len(call[c].asked)
  /\ \A i \in DOMAIN call[c].asked :
       \/ call[c].results[i] = None /\ call[c].asked[i] \in Tokens
       \/ Fits(call[c].results[i], call[c].asked[i]) /\ Recent(call[c].results[i], call[c].began)
  /\ call[c].stage \in {"client", "reading", "answered", "failed"}
  /\ call[c].stage = "answered" => Gaps(c) = {}
  /\ call[c].stage \in {"client", "reading"} =>
       /\ call[c].missing \in [1..Cardinality(Gaps(c)) -> Gaps(c)]
       /\ \A k \in Gaps(c) : \E i \in DOMAIN call[c].missing : call[c].missing[i] = k

CallInv == \A c \in Requests : call[c] = Sleeping \/ Called(c)

TokenInv ==
  /\ clock \in 0..MaxTime /\ slowest \in 0..MaxTime
  /\ DOMAIN call = Requests
  /\ CacheInv /\ CallInv

(* Time passes, and the slowest value is slower, for a call that stays.    *)
LEMMA CalledKept ==
  ASSUME TokenInv, NEW c, Called(c), call'[c] = call[c], clock' \in Nat, clock <= clock',
         slowest' \in Nat, slowest <= slowest'
  PROVE  Called(c)'
<1>1. Gaps(c)' = Gaps(c)
  BY DEF Gaps
<1>2. clock \in Nat /\ slowest \in Nat /\ Ttl \in Nat
  BY TokenAssumption DEF TokenInv
<1>3. call[c].began \in 0..clock'
  BY <1>2 DEF Called
<1>4. ASSUME NEW value, NEW a, Fits(value, a), Recent(value, call[c].began)
      PROVE  Recent(value, call[c].began)'
  <2>1. value.supply # None => value.supply \in Nat
    BY <1>4 DEF Fits, Metadatas
  <2>. QED
    BY <1>2, <1>3, <1>4, <2>1 DEF Recent
<1>. QED
  BY <1>1, <1>3, <1>4 DEF Called

LEMMA TokenInit == ServiceInit => TokenInv
<1>. SUFFICES ASSUME ServiceInit PROVE TokenInv
  OBVIOUS
<1>1. clock = 0 /\ slowest = 0 /\ clock \in 0..MaxTime /\ slowest \in 0..MaxTime
  BY TokenAssumption DEF ServiceInit
<1>2. CallInv /\ DOMAIN call = Requests
  BY DEF ServiceInit, CallInv
<1>3. ASSUME NEW t \in Tokens, cache[t] # None
      PROVE  cache[t].value = Preload(t) /\ cache[t].expiresAt = Ttl
  BY <1>3 DEF ServiceInit
<1>4. ASSUME NEW t \in Tokens PROVE Fits(Preload(t), t) /\ Preload(t).supply = None
  BY TokenAssumption DEF Fits, Preload, Metadatas
<1>5. CacheInv
  BY <1>3, <1>4, TokenAssumption DEF CacheInv
<1>. QED
  BY <1>1, <1>2, <1>5 DEF TokenInv

-----------------------------------------------------------------------------
(* A call begins.                                                          *)

LEMMA KnownFacts ==
  ASSUME TokenInv, NEW a \in Tokens \cup {Native}
  PROVE  \/ Known(a) = None /\ a \in Tokens
         \/ Fits(Known(a), a) /\ Recent(Known(a), clock)
<1>1. CASE a = Native
  <2>1. Fits(NativeToken, Native) /\ NativeToken.supply = None
    BY TokenAssumption DEF Fits, NativeToken, Metadatas
  <2>. QED
    BY <1>1, <2>1 DEF Known, Recent
<1>2. CASE a # Native
  <2>1. a \in Tokens
    BY <1>2
  <2>2. CASE Live(a)
    <3>1. /\ Known(a) = cache[a].value /\ Fits(cache[a].value, a)
          /\ cache[a].expiresAt \in Nat /\ cache[a].expiresAt > clock
          /\ cache[a].value.supply # None => cache[a].value.supply + Ttl + slowest >= cache[a].expiresAt
      BY <1>2, <2>1, <2>2 DEF Known, Live, TokenInv, CacheInv
    <3>2. cache[a].value.supply # None => cache[a].value.supply \in Nat
      BY <3>1 DEF Fits, Metadatas
    <3>3. Recent(cache[a].value, clock)
      BY <3>1, <3>2, TokenAssumption DEF Recent, TokenInv
    <3>. QED
      BY <3>1, <3>3
  <2>3. CASE ~Live(a)
    BY <1>2, <2>1, <2>3 DEF Known
  <2>. QED
    BY <2>2, <2>3
<1>. QED
  BY <1>1, <1>2

LEMMA AskStep ==
  ASSUME TokenInv, NEW c \in Requests, NEW asked \in Lists, Ask(c, asked)
  PROVE  TokenInv'
<1>a. PICK given : given = [i \in DOMAIN asked |-> Known(asked[i])]
  OBVIOUS
<1>b. PICK missing : missing = {i \in DOMAIN asked : given[i] = None}
  OBVIOUS
<1>c. PICK to :
        to = [ stage |-> IF missing = {} THEN "answered" ELSE "client", asked |-> asked,
               results |-> given, missing |-> Ascending(missing), began |-> clock ]
  OBVIOUS
<1>1. /\ call' = [call EXCEPT ![c] = to]
      /\ UNCHANGED <<clock, cache, slowest>>
  BY <1>a, <1>b, <1>c DEF Ask
<1>2. /\ asked \in Seq(Tokens \cup {Native}) /\ DOMAIN asked = 1..Len(asked) /\ Len(asked) \in Nat
      /\ \A i \in DOMAIN asked : asked[i] \in Tokens \cup {Native}
  BY TokenAssumption
<1>3. \A i \in DOMAIN asked :
        \/ given[i] = None /\ asked[i] \in Tokens
        \/ Fits(given[i], asked[i]) /\ Recent(given[i], clock)
  BY <1>2, <1>a, KnownFacts
<1>4. given \in Seq(Metadatas \cup {None}) /\ Len(given) = Len(asked)
  <2>1. given = [i \in 1..Len(asked) |-> given[i]]
    BY <1>2, <1>a
  <2>2. \A i \in 1..Len(asked) : given[i] \in Metadatas \cup {None}
    BY <1>2, <1>3 DEF Fits
  <2>. QED
    BY <1>2, <2>1, <2>2
<1>5. /\ Ascending(missing) \in [1..Cardinality(missing) -> missing]
      /\ \A k \in missing : \E i \in 1..Cardinality(missing) : Ascending(missing)[i] = k
  <2>1. missing \in SUBSET (1..Len(asked)) /\ missing \in SUBSET Int
    BY <1>2, <1>b
  <2>2. IsFiniteSet(1..Len(asked))
    BY <1>2, FS_Interval
  <2>3. IsFiniteSet(missing)
    BY <2>1, <2>2, FS_Subset
  <2>. QED
    BY <2>1, <2>3, AscendingFacts
<1>6. /\ DOMAIN to = {"stage", "asked", "results", "missing", "began"}
      /\ to.stage = (IF missing = {} THEN "answered" ELSE "client") /\ to.asked = asked
      /\ to.results = given /\ to.missing = Ascending(missing) /\ to.began = clock
  BY <1>c
<1>8. call'[c] = to /\ DOMAIN call' = Requests /\ \A d \in Requests \ {c} : call'[d] = call[d]
  BY <1>1 DEF TokenInv
<1>9. Gaps(c)' = missing
  BY <1>6, <1>8, <1>b DEF Gaps
<1>10. clock \in Nat
  BY DEF TokenInv
<1>11. Called(c)'
  <2>1. \A i \in DOMAIN asked :
          \/ given[i] = None /\ asked[i] \in Tokens
          \/ Fits(given[i], asked[i]) /\ Recent(given[i], clock)'
    BY <1>1, <1>3 DEF Recent
  <2>2. /\ call'[c].stage \in {"client", "answered"} /\ call'[c].began \in 0..clock'
        /\ call'[c].stage = "answered" => missing = {}
    BY <1>1, <1>6, <1>8, <1>10
  <2>3. DOMAIN Ascending(missing) = 1..Cardinality(missing)
    BY <1>5
  <2>4. /\ call'[c].asked = asked /\ call'[c].results = given /\ call'[c].began = clock
        /\ call'[c].missing = Ascending(missing)
        /\ DOMAIN call'[c] = {"stage", "asked", "results", "missing", "began"}
    BY <1>6, <1>8
  <2>5. \A i \in DOMAIN call'[c].asked :
          \/ call'[c].results[i] = None /\ call'[c].asked[i] \in Tokens
          \/ /\ Fits(call'[c].results[i], call'[c].asked[i])
             /\ Recent(call[c].results[i], call[c].began)'
    BY <1>1, <2>1, <2>4 DEF Recent
  <2>6. /\ call'[c].missing \in [1..Cardinality(Gaps(c)') -> Gaps(c)']
        /\ \A k \in Gaps(c)' : \E i \in DOMAIN call'[c].missing : call'[c].missing[i] = k
    BY <1>5, <1>9, <2>3, <2>4
  <2>. QED
    BY <1>4, <1>9, <2>2, <2>4, <2>5, <2>6 DEF Called
<1>12. \A d \in Requests \ {c} : call'[d] = Sleeping \/ Called(d)'
  BY <1>1, <1>8, CalledKept DEF TokenInv, CallInv
<1>. QED
  BY <1>1, <1>8, <1>11, <1>12 DEF TokenInv, CacheInv, CallInv

-----------------------------------------------------------------------------
(* A call goes on.                                                         *)

LEMMA StageStep ==
  ASSUME TokenInv, NEW c \in Requests, Called(c), call[c].stage = "client",
         NEW stage \in {"reading", "failed"}, call' = [call EXCEPT ![c].stage = stage],
         UNCHANGED <<clock, cache, slowest>>
  PROVE  TokenInv'
<1>. PICK to : to = [call[c] EXCEPT !.stage = stage]
  OBVIOUS
<1>1. /\ DOMAIN to = DOMAIN call[c] /\ to.stage = stage
      /\ to.asked = call[c].asked /\ to.results = call[c].results
      /\ to.missing = call[c].missing /\ to.began = call[c].began
  BY DEF Called
<1>2. call'[c] = to /\ DOMAIN call' = Requests /\ \A d \in Requests \ {c} : call'[d] = call[d]
  BY DEF TokenInv
<1>3. Gaps(c)' = Gaps(c)
  BY <1>1, <1>2 DEF Gaps
<1>4. Called(c)'
  BY <1>1, <1>2, <1>3 DEF Called, Recent
<1>5. \A d \in Requests \ {c} : call'[d] = Sleeping \/ Called(d)'
  BY <1>2, CalledKept DEF TokenInv, CallInv
<1>. QED
  BY <1>2, <1>4, <1>5 DEF TokenInv, CacheInv, CallInv

(* What the multicall gives of each token: nothing, or what is so.         *)
Honest(wanted, results, at) ==
  \A i \in DOMAIN wanted :
    /\ Field(results, i, 1) \in {None, wanted[i]}
    /\ Field(results, i, 2) \in {None, wanted[i]}
    /\ Field(results, i, 3) \in {None, Decimals[wanted[i]]}
    /\ Field(results, i, 4) \in {None, at}

LEMMA ReadingHonest ==
  ASSUME NEW n \in Nat, NEW wanted \in [1..n -> Tokens], NEW at, NEW lost
  PROVE  Honest(wanted, Reading(wanted, at, lost), at)
<1>1. Len(wanted) = n
  OBVIOUS
<1>2. ASSUME NEW i \in 1..n, NEW f \in 1..4
      PROVE  /\ 4 * (i - 1) + f \in 1..(4 * Len(wanted))
             /\ ((4 * (i - 1) + f - 1) \div 4) + 1 = i
             /\ ((4 * (i - 1) + f - 1) % 4) + 1 = f
  BY <1>1, <1>2
<1>3. ASSUME NEW i \in 1..n, NEW f \in 1..4
      PROVE  Field(Reading(wanted, at, lost), i, f) =
               IF Fields[f] \in lost[wanted[i]] THEN None
               ELSE CASE Fields[f] = "decimals" -> Decimals[wanted[i]]
                      [] Fields[f] = "supply" -> at [] OTHER -> wanted[i]
  <2>1. PICK k : k = 4 * (i - 1) + f
    OBVIOUS
  <2>2. k \in 1..(4 * Len(wanted)) /\ ((k - 1) \div 4) + 1 = i /\ ((k - 1) % 4) + 1 = f
    BY <1>2, <2>1
  <2>3. Field(Reading(wanted, at, lost), i, f) = Reading(wanted, at, lost)[k]
    BY <2>1 DEF Field
  <2>. QED
    BY <2>2, <2>3 DEF Reading
<1>4. /\ Fields[1] = "symbol" /\ Fields[2] = "name"
      /\ Fields[3] = "decimals" /\ Fields[4] = "supply"
  BY DEF Fields
<1>. QED
  BY <1>3, <1>4 DEF Honest

LEMMA MetadataFacts ==
  ASSUME NEW wanted, NEW results, NEW at \in Nat, Honest(wanted, results, at), NEW i \in DOMAIN wanted,
         wanted[i] \in Tokens, Field(results, i, 3) # None
  PROVE  /\ Fits(Metadata(results, i, wanted[i]), wanted[i])
         /\ Metadata(results, i, wanted[i]).supply \in {None, at}
<1>. DEFINE t == wanted[i]
            symbol == Decoded(Field(results, i, 1), Unknown)
            name == Decoded(Field(results, i, 2), symbol)
<1>1. symbol \in Tokens \cup {Unknown} /\ name \in Tokens \cup {Unknown}
  BY DEF Honest, Decoded
<1>2. Field(results, i, 3) = Decimals[t] /\ Decimals[t] \in Nat /\ Field(results, i, 4) \in {None, at}
  BY TokenAssumption DEF Honest
<1>3. Metadata(results, i, t) = [ token |-> t, symbol |-> symbol, name |-> name,
                                  decimals |-> Field(results, i, 3), supply |-> Field(results, i, 4) ]
  BY DEF Metadata
<1>. HIDE DEF symbol, name
<1>. QED
  BY <1>1, <1>2, <1>3 DEF Fits, Metadatas

LEMMA SilenceHonest ==
  ASSUME NEW n \in Nat, NEW wanted \in [1..n -> Tokens], NEW at
  PROVE  Honest(wanted, [f \in 1..(4 * Len(wanted)) |-> None], at)
<1>1. Len(wanted) = n
  OBVIOUS
<1>2. ASSUME NEW i \in 1..n, NEW f \in 1..4 PROVE 4 * (i - 1) + f \in 1..(4 * Len(wanted))
  BY <1>1
<1>. QED
  BY <1>2 DEF Honest, Field

(* The places of what is read are gaps, and each gap is one of them.       *)
LEMMA WantedFacts ==
  ASSUME TokenInv, NEW c \in Requests, Called(c), call[c].stage = "reading"
  PROVE  /\ Cardinality(Gaps(c)) \in Nat
         /\ call[c].missing \in [1..Cardinality(Gaps(c)) -> Gaps(c)]
         /\ Wanted(c) \in [1..Cardinality(Gaps(c)) -> Tokens]
         /\ \A i \in 1..Cardinality(Gaps(c)) : Wanted(c)[i] = call[c].asked[call[c].missing[i]]
         /\ \A k \in Gaps(c) : \E i \in 1..Cardinality(Gaps(c)) : call[c].missing[i] = k
<1>1. /\ call[c].missing \in [1..Cardinality(Gaps(c)) -> Gaps(c)]
      /\ \A k \in Gaps(c) : \E i \in DOMAIN call[c].missing : call[c].missing[i] = k
  BY DEF Called
<1>2. ASSUME NEW k \in Gaps(c) PROVE call[c].asked[k] \in Tokens
  BY NullAssumption DEF Called, Gaps, Fits
<1>3. Cardinality(Gaps(c)) \in Nat
  <2>1. call[c].asked \in Seq(Tokens \cup {Native})
    BY TokenAssumption DEF Called
  <2>2. Gaps(c) \in SUBSET (1..Len(call[c].asked)) /\ IsFiniteSet(1..Len(call[c].asked))
    BY <2>1, FS_Interval DEF Gaps
  <2>3. IsFiniteSet(Gaps(c))
    BY <2>2, FS_Subset
  <2>. QED
    BY <2>3, FS_CardinalityType
<1>. QED
  BY <1>1, <1>2, <1>3 DEF Wanted

LEMMA DigestStep ==
  ASSUME TokenInv, NEW c \in Requests, Called(c), call[c].stage = "reading",
         NEW results, NEW at \in call[c].began..clock, Honest(Wanted(c), results, at),
         Digest(c, results, at), clock' = clock
  PROVE  TokenInv'
<1>a. PICK n : n = Cardinality(Gaps(c))
  OBVIOUS
<1>b. PICK wanted : wanted = Wanted(c)
  OBVIOUS
<1>c. PICK fails : fails = {i \in DOMAIN wanted : Field(results, i, 3) = None}
  OBVIOUS
<1>d. PICK reached : reached = {i \in DOMAIN wanted : \A j \in fails : i < j}
  OBVIOUS
<1>e. PICK read : read = [i \in DOMAIN wanted |-> Metadata(results, i, wanted[i])]
  OBVIOUS
<1>1. /\ cache' = [t \in Tokens |->
                     IF \E i \in reached : wanted[i] = t
                     THEN [ value |-> read[CHOOSE i \in reached : wanted[i] = t],
                            expiresAt |-> clock + Ttl ]
                     ELSE cache[t]]
      /\ slowest' = IF reached # {} /\ clock - at > slowest THEN clock - at ELSE slowest
      /\ call' = [call EXCEPT ![c] =
                    IF fails # {} THEN [@ EXCEPT !.stage = "failed"]
                    ELSE [@ EXCEPT !.stage = "answered", !.results = Filled(c, read)]]
  BY <1>b, <1>c, <1>d, <1>e DEF Digest
<1>2. /\ n \in Nat /\ wanted \in [1..n -> Tokens]
      /\ call[c].missing \in [1..n -> Gaps(c)]
      /\ \A i \in 1..n : wanted[i] = call[c].asked[call[c].missing[i]]
      /\ \A k \in Gaps(c) : \E i \in 1..n : call[c].missing[i] = k
  BY <1>a, <1>b, WantedFacts
<1>3. /\ clock \in Nat /\ slowest \in Nat /\ Ttl \in Nat /\ MaxTime \in Nat
      /\ clock <= MaxTime /\ slowest <= MaxTime
      /\ call[c].began \in 0..clock /\ at \in Nat /\ at <= clock /\ call[c].began <= at
  BY TokenAssumption DEF TokenInv, Called
<1>4. ASSUME NEW i \in 1..n, i \notin fails
      PROVE  Fits(read[i], wanted[i]) /\ read[i].supply \in {None, at}
  BY <1>2, <1>3, <1>4, <1>b, <1>c, <1>e, MetadataFacts
<1>5. reached \subseteq 1..n /\ \A i \in reached : i \notin fails
  BY <1>2, <1>d
<1>6. /\ slowest' \in 0..MaxTime /\ slowest <= slowest'
      /\ reached # {} => clock - at <= slowest'
  BY <1>1, <1>3
<1>7. CacheInv'
  <2>1. ASSUME NEW t \in Tokens, \E i \in reached : wanted[i] = t
        PROVE  /\ Fits(cache'[t].value, t) /\ cache'[t].expiresAt \in Nat
               /\ cache'[t].value.supply # None =>
                    cache'[t].value.supply + Ttl + slowest' >= cache'[t].expiresAt
    <3>1. PICK i \in reached : i = (CHOOSE j \in reached : wanted[j] = t) /\ wanted[i] = t
      BY <2>1
    <3>2. cache'[t] = [value |-> read[i], expiresAt |-> clock + Ttl]
      BY <1>1, <2>1, <3>1
    <3>3. Fits(read[i], t) /\ read[i].supply \in {None, at}
      BY <1>4, <1>5, <3>1
    <3>. QED
      BY <1>3, <1>6, <3>2, <3>3
  <2>2. ASSUME NEW t \in Tokens, ~ \E i \in reached : wanted[i] = t, cache'[t] # None
        PROVE  /\ Fits(cache'[t].value, t) /\ cache'[t].expiresAt \in Nat
               /\ cache'[t].value.supply # None =>
                    cache'[t].value.supply + Ttl + slowest' >= cache'[t].expiresAt
    <3>1. cache'[t] = cache[t]
      BY <1>1, <2>2
    <3>2. /\ Fits(cache[t].value, t) /\ cache[t].expiresAt \in Nat
          /\ cache[t].value.supply # None => cache[t].value.supply + Ttl + slowest >= cache[t].expiresAt
      BY <2>2, <3>1 DEF TokenInv, CacheInv
    <3>3. cache[t].value.supply # None => cache[t].value.supply \in Nat
      BY <3>2 DEF Fits, Metadatas
    <3>. QED
      BY <1>3, <1>6, <3>1, <3>2, <3>3
  <2>. QED
    BY <2>1, <2>2 DEF CacheInv
<1>8. DOMAIN call' = Requests /\ \A d \in Requests \ {c} : call'[d] = call[d]
  BY <1>1 DEF TokenInv
<1>9. /\ \A i \in DOMAIN call[c].asked :
           \/ call[c].results[i] = None /\ call[c].asked[i] \in Tokens
           \/ Fits(call[c].results[i], call[c].asked[i]) /\ Recent(call[c].results[i], call[c].began)
      /\ DOMAIN call[c] = {"stage", "asked", "results", "missing", "began"}
      /\ call[c].asked \in Lists
      /\ call[c].results \in Seq(Metadatas \cup {None}) /\ Len(call[c].results) = Len(call[c].asked)
  BY DEF Called
<1>10. ASSUME NEW value, NEW a, Fits(value, a), Recent(value, call[c].began)
       PROVE  value.supply # None => value.supply >= call[c].began \/ value.supply + Ttl + slowest' > call[c].began
  <2>1. value.supply # None => value.supply \in Nat
    BY <1>10 DEF Fits, Metadatas
  <2>. QED
    BY <1>3, <1>6, <1>10, <2>1 DEF Recent
<1>11. ASSUME fails # {} PROVE Called(c)'
  <2>1. PICK to : to = [call[c] EXCEPT !.stage = "failed"]
    OBVIOUS
  <2>2. /\ DOMAIN to = DOMAIN call[c] /\ to.stage = "failed"
        /\ to.asked = call[c].asked /\ to.results = call[c].results
        /\ to.missing = call[c].missing /\ to.began = call[c].began
    BY <1>9, <2>1
  <2>3. call'[c] = to
    BY <1>1, <1>11, <2>1 DEF TokenInv
  <2>. QED
    BY <1>3, <1>9, <1>10, <2>2, <2>3 DEF Called, Recent
<1>12. ASSUME fails = {} PROVE Called(c)'
  <2>1. PICK to : to = [call[c] EXCEPT !.stage = "answered", !.results = Filled(c, read)]
    OBVIOUS
  <2>2. PICK filled : filled = Filled(c, read)
    OBVIOUS
  <2>3. /\ DOMAIN to = DOMAIN call[c] /\ to.stage = "answered"
        /\ to.asked = call[c].asked /\ to.results = filled
        /\ to.missing = call[c].missing /\ to.began = call[c].began
    BY <1>9, <2>1, <2>2
  <2>4. call'[c] = to
    BY <1>1, <1>12, <2>1 DEF TokenInv
  <2>5. /\ filled = [k \in DOMAIN call[c].asked |-> filled[k]]
        /\ \A k \in DOMAIN call[c].asked :
             filled[k] = IF call[c].results[k] # None THEN call[c].results[k]
                         ELSE read[CHOOSE i \in DOMAIN read : call[c].missing[i] = k]
    BY <2>2 DEF Filled
  <2>6. ASSUME NEW k \in DOMAIN call[c].asked
        PROVE  /\ Fits(filled[k], call[c].asked[k])
               /\ filled[k].supply # None =>
                    filled[k].supply >= call[c].began \/ filled[k].supply + Ttl + slowest' > call[c].began
    <3>1. CASE call[c].results[k] # None
      BY <1>9, <1>10, <2>5, <3>1
    <3>2. CASE call[c].results[k] = None
      <4>1. k \in Gaps(c) /\ DOMAIN read = 1..n
        BY <1>2, <1>e, <3>2 DEF Gaps
      <4>2. PICK i \in 1..n : /\ i = (CHOOSE j \in DOMAIN read : call[c].missing[j] = k)
                              /\ call[c].missing[i] = k
        BY <1>2, <4>1
      <4>3. filled[k] = read[i] /\ wanted[i] = call[c].asked[k]
        BY <1>2, <2>5, <3>2, <4>2
      <4>4. Fits(read[i], wanted[i]) /\ read[i].supply \in {None, at}
        BY <1>4, <1>12, <4>2
      <4>. QED
        BY <1>3, <4>3, <4>4
    <3>. QED
      BY <3>1, <3>2
  <2>7. filled \in Seq(Metadatas \cup {None}) /\ Len(filled) = Len(call[c].asked)
    <3>1. call[c].asked \in Seq(Tokens \cup {Native})
      BY <1>9, TokenAssumption
    <3>2. DOMAIN call[c].asked = 1..Len(call[c].asked) /\ Len(call[c].asked) \in Nat
      BY <3>1
    <3>3. \A k \in 1..Len(call[c].asked) : filled[k] \in Metadatas \cup {None}
      BY <2>6, <3>2 DEF Fits
    <3>. QED
      BY <2>5, <3>2, <3>3
  <2>8. Gaps(c)' = {}
    BY <2>3, <2>4, <2>6, NullAssumption DEF Gaps, Fits
  <2>. QED
    BY <1>3, <1>9, <2>3, <2>4, <2>6, <2>7, <2>8 DEF Called, Recent
<1>13. \A d \in Requests \ {c} : call'[d] = Sleeping \/ Called(d)'
  BY <1>3, <1>6, <1>8, CalledKept DEF TokenInv, CallInv
<1>. QED
  BY <1>3, <1>6, <1>7, <1>8, <1>11, <1>12, <1>13 DEF TokenInv, CallInv

-----------------------------------------------------------------------------
(* The steps together.                                                     *)

LEMMA TickStep == TokenInv /\ Tick => TokenInv'
<1>. SUFFICES ASSUME TokenInv, Tick PROVE TokenInv'
  OBVIOUS
<1>1. /\ clock' \in 0..MaxTime /\ clock' \in Nat /\ clock <= clock'
      /\ slowest \in Nat /\ slowest' = slowest /\ cache' = cache /\ call' = call
  BY TokenAssumption DEF Tick, TokenInv
<1>2. CacheInv' /\ slowest' \in 0..MaxTime /\ DOMAIN call' = Requests
  BY <1>1 DEF TokenInv, CacheInv
<1>3. \A c \in Requests : call'[c] = Sleeping \/ Called(c)'
  BY <1>1, CalledKept DEF TokenInv, CallInv
<1>. QED
  BY <1>1, <1>2, <1>3 DEF TokenInv, CallInv

LEMMA ReceivedStep ==
  ASSUME TokenInv, NEW c \in Requests, Received(c)
  PROVE  TokenInv'
<1>1. call[c].stage = "reading" /\ Called(c) /\ clock' = clock
  BY DEF Received, TokenInv, CallInv, Sleeping
<1>2. PICK n \in Nat : Wanted(c) \in [1..n -> Tokens]
  BY <1>1, WantedFacts
<1>3. call[c].began \in 0..clock /\ clock \in Nat
  BY <1>1 DEF Called, TokenInv
<1>4. CASE Heard(c)
  <2>1. PICK at \in call[c].began..clock, lost \in [ToSet(Wanted(c)) -> Losses] :
          Digest(c, Reading(Wanted(c), at, lost), at)
    BY <1>4 DEF Heard
  <2>2. Honest(Wanted(c), Reading(Wanted(c), at, lost), at)
    BY <1>2, ReadingHonest
  <2>. QED
    BY <1>1, <2>1, <2>2, DigestStep
<1>5. CASE Digest(c, [f \in 1..(4 * Len(Wanted(c))) |-> None], clock)
  <2>1. Honest(Wanted(c), [f \in 1..(4 * Len(Wanted(c))) |-> None], clock)
    BY <1>2, SilenceHonest
  <2>2. clock \in call[c].began..clock
    BY <1>3
  <2>. QED
    BY <1>1, <1>5, <2>1, <2>2, DigestStep
<1>. QED
  BY <1>4, <1>5 DEF Received

LEMMA TokenStep == TokenInv /\ [ServiceNext]_serviceVars => TokenInv'
<1>. SUFFICES ASSUME TokenInv, [ServiceNext]_serviceVars PROVE TokenInv'
  OBVIOUS
<1>1. ASSUME UNCHANGED tokenVars PROVE TokenInv'
  <2>1. /\ clock' = clock /\ cache' = cache /\ call' = call /\ slowest' = slowest
        /\ clock \in Nat /\ slowest \in Nat
    BY <1>1 DEF tokenVars, TokenInv
  <2>2. \A c \in Requests : call'[c] = Sleeping \/ Called(c)'
    BY <2>1, CalledKept DEF TokenInv, CallInv
  <2>. QED
    BY <2>1, <2>2 DEF TokenInv, CacheInv, CallInv
<1>2. ASSUME NEW c \in Requests, Proceed(c) PROVE TokenInv'
  <2>1. CASE Request(c)
    <3>1. Called(c) /\ call[c].stage = "client"
      BY <2>1 DEF Request, TokenInv, CallInv, Sleeping
    <3>. QED
      BY <2>1, <3>1, StageStep DEF Request
  <2>2. CASE NoClient(c)
    <3>1. Called(c) /\ call[c].stage = "client"
      BY <2>2 DEF NoClient, TokenInv, CallInv, Sleeping
    <3>. QED
      BY <2>2, <3>1, StageStep DEF NoClient
  <2>. QED
    BY <1>2, <2>1, <2>2, ReceivedStep DEF Proceed
<1>3. UNCHANGED serviceVars \/ (\E c \in Requests : Transport(c)) => UNCHANGED tokenVars
  BY DEF serviceVars, Transport
<1>. QED
  BY <1>1, <1>2, <1>3, TickStep, AskStep DEF ServiceNext

LEMMA TokenInvariance == ServiceSpec => []TokenInv
BY TokenInit, TokenStep, PTL DEF ServiceSpec

(* What the service does to a client is a step of the client.              *)
LEMMA ClientStep == [ServiceNext]_serviceVars => [Next]_vars
BY DEF ServiceNext, serviceVars, clientVars, Tick, Ask, Proceed, Request, NoClient, Received,
       Transport, Next

LEMMA ClientInvariance == ServiceSpec => []BalancerInv
<1>1. ServiceInit => BalancerInv
  BY InitInv DEF ServiceInit
<1>2. BalancerInv /\ [ServiceNext]_serviceVars => BalancerInv'
  BY ClientStep, NextInv
<1>. QED
  BY <1>1, <1>2, PTL DEF ServiceSpec

-----------------------------------------------------------------------------
(* What is kept and answered has a symbol, a name and decimals.            *)
THEOREM TokensAlwaysTyped == ServiceSpec => []TokensTyped
<1>1. ASSUME TokenInv PROVE TokensTyped
  <2>1. ASSUME NEW c \in Requests, call[c].stage = "answered", NEW v \in Answer(c) PROVE v \in Metadatas
    <3>1. Called(c)
      BY <1>1, <2>1 DEF TokenInv, CallInv, Sleeping
    <3>2. DOMAIN call[c].results = DOMAIN call[c].asked
      BY <3>1, TokenAssumption DEF Called
    <3>. QED
      BY <2>1, <3>1, <3>2 DEF Called, Gaps, Answer, Fits
  <2>2. \A t \in Tokens : cache[t] # None => cache[t].value \in Metadatas
    BY <1>1 DEF TokenInv, CacheInv, Fits
  <2>3. \A c \in Requests : call[c].stage \in {"idle", "client", "reading", "answered", "failed"}
    BY <1>1 DEF TokenInv, CallInv, Called, Sleeping
  <2>. QED
    BY <1>1, <2>1, <2>2, <2>3 DEF TokenInv, TokensTyped
<1>. QED
  BY <1>1, TokenInvariance, PTL

(* A caller gets the tokens it asked for, one for one and in its order.    *)
THEOREM AnswersFit == ServiceSpec => []AnswerFits
<1>1. ASSUME TokenInv, NEW c \in Requests, call[c].stage = "answered"
      PROVE  /\ Len(call[c].results) = Len(call[c].asked)
             /\ \A i \in DOMAIN call[c].asked : call[c].results[i].token = call[c].asked[i]
  <2>1. Called(c)
    BY <1>1 DEF TokenInv, CallInv, Sleeping
  <2>. QED
    BY <1>1, <2>1 DEF Called, Gaps, Fits
<1>2. TokenInv => AnswerFits
  BY <1>1 DEF AnswerFits
<1>. QED
  BY <1>2, TokenInvariance, PTL

(* The decimals that are kept or answered are the token's own.             *)
THEOREM DecimalsStayTrue == ServiceSpec => []DecimalsTrue
<1>1. ASSUME TokenInv PROVE DecimalsTrue
  <2>1. ASSUME NEW c \in Requests, call[c].stage = "answered", NEW v \in Answer(c), v.token # Native
        PROVE  v.decimals = Decimals[v.token]
    <3>1. Called(c)
      BY <1>1, <2>1 DEF TokenInv, CallInv, Sleeping
    <3>2. DOMAIN call[c].results = DOMAIN call[c].asked
      BY <3>1, TokenAssumption DEF Called
    <3>3. PICK i \in DOMAIN call[c].asked : v = call[c].results[i] /\ Fits(v, call[c].asked[i])
      BY <2>1, <3>1, <3>2 DEF Called, Gaps, Answer
    <3>4. call[c].asked \in Seq(Tokens \cup {Native})
      BY <3>1, TokenAssumption DEF Called
    <3>5. call[c].asked[i] \in Tokens \cup {Native}
      BY <3>4
    <3>. QED
      BY <2>1, <3>3, <3>5 DEF Fits
  <2>. QED
    BY <1>1, <2>1 DEF TokenInv, CacheInv, Fits, DecimalsTrue
<1>. QED
  BY <1>1, TokenInvariance, PTL

(* What a call answers was true no longer ago, when the call began, than   *)
(* the lifetime and the longest time a value took to reach the cache.      *)
THEOREM AnswersFresh == ServiceSpec => []AnswerFresh
<1>1. ASSUME TokenInv, NEW c \in Requests, call[c].stage = "answered", NEW v \in Answer(c),
             v.supply # None
      PROVE  v.supply >= call[c].began \/ v.supply + Ttl + slowest > call[c].began
  <2>1. Called(c)
    BY <1>1 DEF TokenInv, CallInv, Sleeping
  <2>2. DOMAIN call[c].results = DOMAIN call[c].asked
    BY <2>1, TokenAssumption DEF Called
  <2>. QED
    BY <1>1, <2>1, <2>2 DEF Called, Gaps, Answer, Recent
<1>2. TokenInv => AnswerFresh
  BY <1>1 DEF AnswerFresh
<1>. QED
  BY <1>2, TokenInvariance, PTL

(* The client's cursor and indices name transports, however the service    *)
(* uses it.                                                                *)
THEOREM ClientTypes == ServiceSpec => []TypeOK
<1>1. BalancerInv => TypeOK
  BY DEF BalancerInv
<1>. QED
  BY <1>1, ClientInvariance, PTL

(* A multicall nobody ran beside leaves the primaries only after every one *)
(* of them failed it.                                                      *)
THEOREM MulticallTriesAll == ServiceSpec => []UndisturbedTriesAll
<1>1. BalancerInv => UndisturbedTriesAll
  BY DEF BalancerInv
<1>. QED
  BY <1>1, ClientInvariance, PTL
=============================================================================
