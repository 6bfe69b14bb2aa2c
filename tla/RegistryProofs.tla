--------------------------- MODULE RegistryProofs ---------------------------
(***************************************************************************)
(* Callers of the registry share one download, are given each endpoint     *)
(* once, the best first, and downloads keep their distance, for any        *)
(* chains, lists, probes, lifetimes and number of callers.                 *)
(***************************************************************************)
EXTENDS RpcRegistry, OrderLemmas

-----------------------------------------------------------------------------
(* Lists of distinct endpoints.                                            *)

Distinct(urls) == urls \in Seq(Urls) /\ \A i, j \in DOMAIN urls : urls[i] = urls[j] => i = j

LEMMA DedupeFacts ==
  ASSUME NEW urls \in Seq(Urls)
  PROVE  Distinct(Dedupe(urls))
<1>. DEFINE S == {i \in DOMAIN urls : \A j \in 1..(i - 1) : urls[j] # urls[i]}
            n == Cardinality(S)
            firsts == Ascending(S)
<1>1. DOMAIN urls = 1..Len(urls) /\ Len(urls) \in Nat
  OBVIOUS
<1>2. IsFiniteSet(S) /\ S \in SUBSET Int
  <2>1. IsFiniteSet(1..Len(urls)) /\ S \in SUBSET (1..Len(urls))
    BY <1>1, FS_Interval
  <2>. QED
    BY <2>1, FS_Subset
<1>3. /\ n \in Nat /\ firsts \in [1..n -> S]
      /\ \A i, j \in 1..n : firsts[i] = firsts[j] => i = j
  <2>. HIDE DEF S
  <2>. QED
    BY <1>2, AscendingFacts
<1>4. ASSUME NEW i \in S, NEW j \in S, urls[i] = urls[j] PROVE i = j
  BY <1>1, <1>4
<1>5. Dedupe(urls) = [k \in DOMAIN firsts |-> urls[firsts[k]]]
  BY DEF Dedupe
<1>6. \A i \in S : urls[i] \in Urls
  BY <1>1
<1>. HIDE DEF S, n, firsts
<1>7. Dedupe(urls) = [k \in 1..n |-> urls[firsts[k]]]
  BY <1>3, <1>5
<1>8. \A k \in 1..n : Dedupe(urls)[k] \in Urls
  BY <1>3, <1>6, <1>7
<1>9. Dedupe(urls) \in Seq(Urls) /\ DOMAIN Dedupe(urls) = 1..n
  BY <1>3, <1>7, <1>8
<1>. QED
  BY <1>3, <1>4, <1>7, <1>9 DEF Distinct

(* Lists of the same endpoints are of the same length.                     *)
LEMMA DistinctCount ==
  ASSUME NEW urls, Distinct(urls)
  PROVE  Cardinality(ToSet(urls)) = Len(urls)
<1>1. /\ urls \in Seq(Urls) /\ DOMAIN urls = 1..Len(urls) /\ Len(urls) \in Nat
      /\ \A i, j \in 1..Len(urls) : urls[i] = urls[j] => i = j
  BY DEF Distinct
<1>2. /\ \A i \in 1..Len(urls) : urls[i] \in ToSet(urls)
      /\ \A u \in ToSet(urls) : \E i \in 1..Len(urls) : urls[i] = u
  BY <1>1 DEF ToSet
<1>3. urls \in [1..Len(urls) -> ToSet(urls)]
  BY <1>1, <1>2
<1>4. urls \in Surjection(1..Len(urls), ToSet(urls)) /\ urls \in Injection(1..Len(urls), ToSet(urls))
  BY <1>1, <1>2, <1>3 DEF Surjection, Injection, IsInjective
<1>5. IsFiniteSet(1..Len(urls)) /\ Cardinality(1..Len(urls)) = Len(urls)
  BY <1>1, FS_Interval
<1>. QED
  BY <1>4, <1>5, FS_Surjection

LEMMA SameLength ==
  ASSUME NEW a, NEW b, Distinct(a), Distinct(b), ToSet(a) = ToSet(b)
  PROVE  Len(a) = Len(b)
BY DistinctCount

-----------------------------------------------------------------------------
(* The ranking of endpoints by their probes.                               *)

Places(urls, results) ==
  Enumerated(DOMAIN urls, {p \in (DOMAIN urls) \X (DOMAIN urls) : Precedes(results, p[1], p[2])})

LEMMA RankedFacts ==
  ASSUME NEW urls, Distinct(urls), NEW results \in [DOMAIN urls -> Outcomes]
  PROVE  /\ Distinct(Ranked(urls, results)) /\ Len(Ranked(urls, results)) = Len(urls)
         /\ ToSet(Ranked(urls, results)) = ToSet(urls)
         /\ \A k \in DOMAIN urls : /\ Places(urls, results)[k] \in DOMAIN urls
                                   /\ Ranked(urls, results)[k] = urls[Places(urls, results)[k]]
         /\ \A k, j \in DOMAIN urls :
              k < j => Precedes(results, Places(urls, results)[k], Places(urls, results)[j])
<1>. DEFINE D == DOMAIN urls
            R == {p \in D \X D : Precedes(results, p[1], p[2])}
            n == Len(urls)
            order == Places(urls, results)
            ranked == Ranked(urls, results)
<1>1. /\ D = 1..n /\ n \in Nat /\ \A i \in D : urls[i] \in Urls
      /\ \A i, j \in D : urls[i] = urls[j] => i = j
  BY DEF Distinct
<1>2. \A i, j \in D : <<i, j>> \in R <=> Precedes(results, i, j)
  OBVIOUS
<1>3. ASSUME NEW i \in D
      PROVE  results[i].ok \in BOOLEAN /\ results[i].latency \in Nat /\ results[i].rate \in Int
  BY RegistryAssumption
<1>4. IsFiniteSet(D) /\ Cardinality(D) = n
  <2>1. IsFiniteSet(1..n) /\ Cardinality(1..n) = IF 1 > n THEN 0 ELSE n - 1 + 1
    BY <1>1, FS_Interval
  <2>. QED
    BY <1>1, <2>1
<1>5. order = Enumerated(D, R) /\ ranked = [k \in D |-> urls[order[k]]]
  BY DEF Places, Ranked
<1>. HIDE DEF D, R, n, order, ranked
<1>6. StrictOrder(D, R)
  <2>1. \A i \in D : ~Precedes(results, i, i)
    BY <1>1, <1>3 DEF Precedes
  <2>2. ASSUME NEW i \in D, NEW j \in D, NEW k \in D, Precedes(results, i, j), Precedes(results, j, k)
        PROVE  Precedes(results, i, k)
    BY <1>1, <1>3, <2>2 DEF Precedes
  <2>3. ASSUME NEW i \in D, NEW j \in D, i # j PROVE Precedes(results, i, j) \/ Precedes(results, j, i)
    BY <1>1, <1>3, <2>3 DEF Precedes
  <2>. QED
    BY <1>2, <2>1, <2>2, <2>3 DEF StrictOrder
<1>7. /\ order \in [D -> D]
      /\ \A i, j \in D : i < j => <<order[i], order[j]>> \in R
      /\ \A i, j \in D : order[i] = order[j] => i = j
      /\ \A x \in D : \E i \in D : order[i] = x
  <2>1. /\ Enumerated(D, R) \in [1..Cardinality(D) -> D]
        /\ \A i, j \in 1..Cardinality(D) :
             i < j => <<Enumerated(D, R)[i], Enumerated(D, R)[j]>> \in R
        /\ \A i, j \in 1..Cardinality(D) : Enumerated(D, R)[i] = Enumerated(D, R)[j] => i = j
        /\ \A x \in D : \E i \in 1..Cardinality(D) : Enumerated(D, R)[i] = x
    BY <1>4, <1>6, EnumeratedFacts
  <2>2. 1..Cardinality(D) = D
    BY <1>1, <1>4
  <2>. QED
    BY <1>5, <2>1, <2>2
<1>8. ranked \in Seq(Urls) /\ Len(ranked) = n /\ DOMAIN ranked = D
  <2>1. ranked = [k \in 1..n |-> urls[order[k]]] /\ \A k \in 1..n : urls[order[k]] \in Urls
    BY <1>1, <1>5, <1>7
  <2>2. ranked \in [1..n -> Urls]
    BY <2>1
  <2>. QED
    BY <1>1, <2>1, <2>2
<1>9. Distinct(ranked)
  <2>1. ASSUME NEW i \in D, NEW j \in D, ranked[i] = ranked[j] PROVE i = j
    <3>1. order[i] \in D /\ order[j] \in D /\ urls[order[i]] = urls[order[j]]
      BY <1>5, <1>7, <2>1
    <3>. QED
      BY <1>1, <1>7, <3>1
  <2>. QED
    BY <1>8, <2>1 DEF Distinct
<1>10. ToSet(ranked) = ToSet(urls)
  <2>1. ToSet(urls) = {urls[i] : i \in D} /\ ToSet(ranked) = {ranked[k] : k \in D}
    BY <1>8 DEF ToSet, D
  <2>. QED
    BY <1>5, <1>7, <2>1
<1>11. \A k, j \in D : k < j => Precedes(results, order[k], order[j])
  BY <1>2, <1>7
<1>. QED
  BY <1>5, <1>7, <1>8, <1>9, <1>10, <1>11 DEF D, n, order, ranked

-----------------------------------------------------------------------------
(* The inductive invariant.                                                *)

Waiting(t) == t.state = "waiting" /\ t.chain \in Chains

(* The indices taken so far are those below next; each is being probed or  *)
(* has its result.                                                         *)
InProbes(t) ==
  /\ DOMAIN t = {"state", "chain", "urls", "probes", "next", "results"}
  /\ t.state = "probing" /\ t.chain \in Chains /\ Distinct(t.urls)
  /\ t.next \in 1..(Len(t.urls) + 1)
  /\ t.probes \cup DOMAIN t.results = 1..(t.next - 1)
  /\ t.probes \cap DOMAIN t.results = {}
  /\ \A i \in DOMAIN t.results : t.results[i] \in Outcomes

(* A call that is done gives back what it was to rank, in the order of its *)
(* probes if it made any.                                                  *)
Finished(a) ==
  /\ a.state = "done"
  /\ Distinct(a.merged) /\ Distinct(a.urls) /\ ToSet(a.urls) = ToSet(a.merged)
  /\ \/ a.results = << >>
     \/ a.results \in [DOMAIN a.merged -> Outcomes] /\ a.urls = Ranked(a.merged, a.results)

CallsInv ==
  /\ DOMAIN task = Callers
  /\ \A c \in Callers : task[c] = Idle \/ Waiting(task[c]) \/ InProbes(task[c])

AnswersInv == \A a \in answers : Finished(a)

(* A ranking is of the endpoints its signature names.                      *)
RankingsInv ==
  /\ DOMAIN rankings \subseteq Chains
  /\ \A ch \in DOMAIN rankings :
       Distinct(rankings[ch].urls) /\ ToSet(rankings[ch].urls) = rankings[ch].signature

Shorter == IF FailureTtl < ListTtl THEN FailureTtl ELSE ListTtl

(* The list is good for the shorter lifetime after a download ended.       *)
ListInv ==
  /\ list.expiresAt \in Nat
  /\ DOMAIN list = {"expiresAt", "urls"} /\ list.urls \in [Chains -> Seq(Urls)]
  /\ list.expiresAt = 0 \/ list.expiresAt >= settledAt + Shorter

RegistryInv ==
  /\ now \in Nat /\ calls \in Nat /\ settledAt \in Nat
  /\ inFlight \in BOOLEAN /\ clients \subseteq Chains
  /\ OneDownload /\ ListInv /\ RankingsInv /\ CallsInv /\ AnswersInv

LEMMA RegistryInit == Init => RegistryInv
<1>. SUFFICES ASSUME Init PROVE RegistryInv
  OBVIOUS
<1>1. ListInv
  BY DEF Init, ListInv
<1>2. RankingsInv
  BY DEF Init, RankingsInv
<1>3. CallsInv /\ AnswersInv /\ OneDownload
  BY DEF Init, CallsInv, AnswersInv, OneDownload
<1>. QED
  BY <1>1, <1>2, <1>3 DEF Init, RegistryInv

-----------------------------------------------------------------------------
(* Calls that go on.                                                       *)

Onward(t) == t = Idle \/ Waiting(t) \/ InProbes(t) \/ Finished(t)

LEMMA ContinueStep ==
  ASSUME NEW next, \A c \in Callers : Onward(next[c]), Continue(next)
  PROVE  CallsInv' /\ AnswersInv'
<1>1. \A c \in Callers : next[c].state # "done" => next[c] = Idle \/ Waiting(next[c]) \/ InProbes(next[c])
  BY DEF Onward, Finished
<1>2. ASSUME NEW c \in Callers, next[c].state = "done" PROVE Finished(next[c])
  BY <1>2 DEF Onward, Idle, Waiting, InProbes
<1>3. CallsInv'
  BY <1>1 DEF Continue, CallsInv
<1>4. AnswersInv'
  BY <1>2 DEF Continue, AnswersInv
<1>. QED
  BY <1>3, <1>4

LEMMA ResumedFacts ==
  ASSUME RegistryInv, NEW ch \in Chains, NEW known, known[ch] \in Seq(Urls)
  PROVE  Onward(Resumed(ch, known))
<1>. PICK urls : urls = Dedupe(Configured[ch] \o known[ch])
  OBVIOUS
<1>1. Distinct(urls)
  <2>1. Configured[ch] \o known[ch] \in Seq(Urls)
    BY RegistryAssumption
  <2>. QED
    BY <2>1, DedupeFacts
<1>2. Resumed(ch, known) =
        IF urls = << >> THEN Done(urls, urls, << >>)
        ELSE IF RankingGood(ch, urls) THEN Done(urls, rankings[ch].urls, << >>)
        ELSE Probing(ch, urls)
  BY DEF Resumed
<1>3. Finished(Done(urls, urls, << >>))
  BY <1>1 DEF Finished, Done
<1>4. ASSUME RankingGood(ch, urls) PROVE Finished(Done(urls, rankings[ch].urls, << >>))
  BY <1>1, <1>4 DEF Finished, Done, RankingGood, Signature, RegistryInv, RankingsInv
<1>5. InProbes(Probing(ch, urls))
  <2>. PICK first : first = IF Len(urls) < MaxProbes THEN Len(urls) ELSE MaxProbes
    OBVIOUS
  <2>1. first \in 0..Len(urls) /\ Len(urls) \in Nat
    BY <1>1, RegistryAssumption DEF Distinct
  <2>2. Probing(ch, urls) =
          [ state |-> "probing", chain |-> ch, urls |-> urls, probes |-> 1..first,
            next |-> first + 1, results |-> << >> ]
    BY DEF Probing
  <2>. QED
    BY <1>1, <2>1, <2>2 DEF InProbes
<1>. QED
  BY <1>2, <1>3, <1>4, <1>5 DEF Onward

LEMMA Stays ==
  ASSUME RegistryInv, NEW c \in Callers
  PROVE  Onward(task[c])
BY DEF RegistryInv, CallsInv, Onward

(* One call goes on, the others stay.                                      *)
LEMMA OneStep ==
  ASSUME RegistryInv, NEW c \in Callers, NEW t, Onward(t), Continue([task EXCEPT ![c] = t])
  PROVE  CallsInv' /\ AnswersInv'
<1>1. \A d \in Callers : [task EXCEPT ![c] = t][d] = IF d = c THEN t ELSE task[d]
  BY DEF RegistryInv, CallsInv
<1>2. \A d \in Callers : Onward([task EXCEPT ![c] = t][d])
  BY <1>1, Stays
<1>. QED
  BY <1>2, ContinueStep

LEMMA ResolveStep ==
  ASSUME RegistryInv, NEW c \in Callers, NEW ch \in Chains, Resolve(c, ch), clients' \subseteq Chains
  PROVE  RegistryInv'
<1>1. CASE AwaitList(c, ch)
  <2>1. Onward([state |-> "waiting", chain |-> ch])
    BY DEF Onward, Waiting
  <2>2. CallsInv' /\ AnswersInv'
    BY <1>1, <2>1, OneStep DEF AwaitList
  <2>3. OneDownload' /\ inFlight' \in BOOLEAN
    BY <1>1 DEF AwaitList, RegistryInv, OneDownload
  <2>. QED
    BY <2>2, <2>3 DEF Resolve, RegistryInv, ListInv, RankingsInv
<1>2. CASE Known(c, ch)
  <2>1. Distinct(Dedupe(Configured[ch]))
    BY RegistryAssumption, DedupeFacts
  <2>2. Finished(Done(Dedupe(Configured[ch]), Dedupe(Configured[ch]), << >>))
    BY <2>1 DEF Finished, Done
  <2>3. Onward(Resumed(ch, list.urls))
    BY ResumedFacts DEF RegistryInv, ListInv
  <2>4. CallsInv' /\ AnswersInv'
    BY <1>2, <2>2, <2>3, OneStep DEF Known, Onward
  <2>5. OneDownload' /\ inFlight' = inFlight
    BY <1>2 DEF Known, RegistryInv, OneDownload
  <2>. QED
    BY <2>4, <2>5 DEF Resolve, RegistryInv, ListInv, RankingsInv
<1>. QED
  BY <1>1, <1>2 DEF Resolve

-----------------------------------------------------------------------------
(* A download ends.                                                        *)

LEMMA ReleasedStep ==
  ASSUME RegistryInv, downloads > 0, NEW known, \A ch \in Chains : known[ch] \in Seq(Urls),
         Released(known), ListInv'
  PROVE  RegistryInv'
<1>1. ASSUME NEW c \in Callers, task[c].state = "waiting" PROVE Onward(Resumed(task[c].chain, known))
  <2>1. task[c].chain \in Chains
    BY <1>1 DEF RegistryInv, CallsInv, Idle, Waiting, InProbes
  <2>. QED
    BY <2>1, ResumedFacts
<1>2. CallsInv' /\ AnswersInv'
  <2>. DEFINE next == [c \in Callers |-> IF task[c].state = "waiting"
                                         THEN Resumed(task[c].chain, known) ELSE task[c]]
  <2>1. \A c \in Callers : Onward(next[c])
    BY <1>1, Stays
  <2>2. Continue(next)
    BY DEF Released
  <2>. HIDE DEF next
  <2>. QED
    BY <2>1, <2>2, ContinueStep
<1>3. OneDownload' /\ inFlight' \in BOOLEAN
  <2>1. downloads = 1
    BY DEF RegistryInv, OneDownload
  <2>2. ~inFlight' /\ inFlight' \in BOOLEAN /\ downloads' = downloads - 1
    BY DEF Released
  <2>3. downloads' = 0
    BY <2>1, <2>2
  <2>. QED
    BY <2>2, <2>3 DEF OneDownload
<1>. QED
  BY <1>2, <1>3 DEF Released, RegistryInv, RankingsInv

LEMMA ArrivesStep == RegistryInv /\ ListArrives => RegistryInv'
<1>. SUFFICES ASSUME RegistryInv, ListArrives PROVE RegistryInv'
  OBVIOUS
<1>1. PICK found \in Lists : /\ list' = [expiresAt |-> now + ListTtl,
                                        urls |-> [ch \in Chains |-> Dedupe(found[ch])]]
                             /\ Released(found)
  BY DEF ListArrives
<1>2. \A ch \in Chains : found[ch] \in Seq(Urls) /\ Dedupe(found[ch]) \in Seq(Urls)
  BY RegistryAssumption, DedupeFacts DEF Distinct
<1>3. ListInv'
  <2>1. settledAt' = now /\ now \in Nat
    BY <1>1 DEF Released, RegistryInv
  <2>2. list'.expiresAt = now + ListTtl /\ DOMAIN list' = {"expiresAt", "urls"}
        /\ list'.urls = [ch \in Chains |-> Dedupe(found[ch])]
    BY <1>1
  <2>3. Shorter <= ListTtl /\ ListTtl \in Nat /\ Shorter \in Nat
    BY RegistryAssumption DEF Shorter
  <2>. QED
    BY <1>2, <2>1, <2>2, <2>3 DEF ListInv
<1>. QED
  BY <1>1, <1>2, <1>3, ReleasedStep DEF ListArrives

LEMMA FailsStep == RegistryInv /\ ListFails => RegistryInv'
<1>. SUFFICES ASSUME RegistryInv, ListFails PROVE RegistryInv'
  OBVIOUS
<1>1. \A ch \in Chains : list.urls[ch] \in Seq(Urls)
  BY DEF RegistryInv, ListInv
<1>2. ListInv'
  <2>1. settledAt' = now /\ now \in Nat
    BY DEF ListFails, Released, RegistryInv
  <2>2. /\ DOMAIN list' = {"expiresAt", "urls"}
        /\ list'.expiresAt = now + FailureTtl /\ list'.urls = list.urls
    BY DEF ListFails, RegistryInv, ListInv
  <2>3. Shorter <= FailureTtl /\ FailureTtl \in Nat /\ Shorter \in Nat
    BY RegistryAssumption DEF Shorter
  <2>. QED
    BY <2>1, <2>2, <2>3 DEF ListInv, RegistryInv
<1>. QED
  BY <1>1, <1>2, ReleasedStep DEF ListFails

-----------------------------------------------------------------------------
(* A probe ends.                                                           *)

LEMMA ProbedFacts ==
  ASSUME NEW t, InProbes(t), NEW i \in t.probes, NEW o \in Outcomes
  PROVE  LET u == Probed(t, i, o)
         IN InProbes(u) /\ (u.probes = {} => u.results \in [DOMAIN u.urls -> Outcomes])
<1>. DEFINE left == t.next <= Len(t.urls)
<1>. PICK probes : probes = (t.probes \ {i}) \cup IF left THEN {t.next} ELSE {}
  OBVIOUS
<1>. PICK next : next = IF left THEN t.next + 1 ELSE t.next
  OBVIOUS
<1>. PICK results : results = [k \in DOMAIN t.results \cup {i} |-> IF k = i THEN o ELSE t.results[k]]
  OBVIOUS
<1>. PICK u : u = Probed(t, i, o)
  OBVIOUS
<1>1. /\ DOMAIN t = {"state", "chain", "urls", "probes", "next", "results"}
      /\ t.state = "probing" /\ t.chain \in Chains /\ Distinct(t.urls)
      /\ t.next \in 1..(Len(t.urls) + 1) /\ Len(t.urls) \in Nat /\ DOMAIN t.urls = 1..Len(t.urls)
      /\ t.probes \cup DOMAIN t.results = 1..(t.next - 1)
      /\ t.probes \cap DOMAIN t.results = {}
      /\ \A k \in DOMAIN t.results : t.results[k] \in Outcomes
  BY DEF InProbes, Distinct
<1>2. u = [t EXCEPT !.probes = probes, !.next = next, !.results = results]
  BY <1>1 DEF Probed
<1>3. /\ DOMAIN u = DOMAIN t /\ u.state = t.state /\ u.chain = t.chain /\ u.urls = t.urls
      /\ u.probes = probes /\ u.next = next /\ u.results = results
  BY <1>1, <1>2
<1>4. DOMAIN results = DOMAIN t.results \cup {i} /\ \A k \in DOMAIN results : results[k] \in Outcomes
  BY <1>1
<1>5. next \in 1..(Len(t.urls) + 1)
  BY <1>1
<1>6. probes \cup DOMAIN results = 1..(next - 1) /\ probes \cap DOMAIN results = {}
  <2>1. CASE left
    <3>1. 1..(next - 1) = 1..(t.next - 1) \cup {t.next} /\ t.next \notin 1..(t.next - 1)
      BY <1>1, <2>1
    <3>. QED
      BY <1>1, <1>4, <2>1, <3>1
  <2>2. CASE ~left
    BY <1>1, <1>4, <2>2
  <2>. QED
    BY <2>1, <2>2
<1>7. InProbes(u)
  BY <1>1, <1>3, <1>4, <1>5, <1>6 DEF InProbes
<1>8. ASSUME probes = {} PROVE results \in [DOMAIN t.urls -> Outcomes]
  <2>1. ~left /\ next - 1 = Len(t.urls)
    BY <1>1, <1>8
  <2>2. DOMAIN results = DOMAIN t.urls
    BY <1>1, <1>6, <1>8, <2>1
  <2>. QED
    BY <1>4, <2>2
<1>. QED
  BY <1>3, <1>7, <1>8

LEMMA ProbeStep == ASSUME RegistryInv, NEW c \in Callers, ProbeEnds(c) PROVE RegistryInv'
<1>1. InProbes(task[c])
  BY DEF ProbeEnds, RegistryInv, CallsInv, Idle, Waiting
<1>2. PICK t \in {Probed(task[c], i, o) : i \in task[c].probes, o \in Outcomes} :
        KeepProbing(c, t) \/ KeepRanking(c, t)
  BY DEF ProbeEnds
<1>3. InProbes(t) /\ (t.probes = {} => t.results \in [DOMAIN t.urls -> Outcomes])
  BY <1>1, ProbedFacts
<1>4. UNCHANGED <<now, list, inFlight, downloads, clients, calls, settledAt>>
  BY DEF ProbeEnds
<1>5. CASE KeepProbing(c, t)
  <2>1. CallsInv' /\ AnswersInv'
    BY <1>3, <1>5, OneStep DEF KeepProbing, Onward
  <2>. QED
    BY <1>4, <1>5, <2>1 DEF KeepProbing, RegistryInv, OneDownload, ListInv, RankingsInv
<1>6. CASE KeepRanking(c, t)
  <2>. PICK best : best = Ranked(t.urls, t.results)
    OBVIOUS
  <2>1. Distinct(t.urls) /\ t.results \in [DOMAIN t.urls -> Outcomes] /\ t.chain \in Chains
    BY <1>3, <1>6 DEF KeepRanking, InProbes
  <2>2. Distinct(best) /\ ToSet(best) = ToSet(t.urls)
    BY <2>1, RankedFacts
  <2>3. Finished(Done(t.urls, best, t.results))
    BY <2>1, <2>2 DEF Finished, Done
  <2>4. CallsInv' /\ AnswersInv'
    BY <1>6, <2>3, OneStep DEF KeepRanking, Onward
  <2>5. RankingsInv'
    <3>1. rankings' = [ ch \in DOMAIN rankings \cup {t.chain} |->
                          IF ch = t.chain
                          THEN [expiresAt |-> now + RankTtl, signature |-> Signature(t.urls), urls |-> best]
                          ELSE rankings[ch] ]
      BY <1>6 DEF KeepRanking
    <3>. QED
      BY <2>1, <2>2, <3>1 DEF RegistryInv, RankingsInv, Signature
  <2>. QED
    BY <1>4, <2>4, <2>5 DEF RegistryInv, OneDownload, ListInv
<1>. QED
  BY <1>2, <1>5, <1>6

LEMMA RegistryStep == RegistryInv /\ [Next]_vars => RegistryInv'
<1>. SUFFICES ASSUME RegistryInv, [Next]_vars PROVE RegistryInv'
  OBVIOUS
<1>1. CASE UNCHANGED vars
  BY <1>1 DEF vars, RegistryInv, OneDownload, ListInv, RankingsInv, CallsInv, AnswersInv
<1>2. ASSUME NEW c \in Callers, NEW ch \in Chains, GetClient(c, ch) PROVE RegistryInv'
  <2>1. clients' \subseteq Chains
    BY <1>2 DEF GetClient, RegistryInv
  <2>. QED
    BY <1>2, <2>1, ResolveStep DEF GetClient
<1>3. ASSUME NEW c \in Callers, NEW ch \in Chains, SelectUrls(c, ch) PROVE RegistryInv'
  <2>1. clients' \subseteq Chains
    BY <1>3 DEF SelectUrls, RegistryInv
  <2>. QED
    BY <1>3, <2>1, ResolveStep DEF SelectUrls
<1>4. CASE Tick
  <2>1. CallsInv' /\ AnswersInv'
    BY <1>4, Stays, ContinueStep DEF Tick
  <2>. QED
    BY <1>4, <2>1 DEF Tick, RegistryInv, OneDownload, ListInv, RankingsInv
<1>. QED
  BY <1>1, <1>2, <1>3, <1>4, ProbeStep, ArrivesStep, FailsStep DEF Next

LEMMA RegistryInvariance == Spec => []RegistryInv
BY RegistryInit, RegistryStep, PTL DEF Spec

-----------------------------------------------------------------------------
(* Results and probes are of indices that exist, and no index is being     *)
(* probed that has a result.                                               *)
THEOREM RegistryTyped == Spec => []TypeOK
<1>1. ASSUME RegistryInv PROVE TypeOK
  <2>1. ASSUME NEW c \in Callers, task[c].state = "probing"
        PROVE  /\ task[c].probes \subseteq DOMAIN task[c].urls
               /\ DOMAIN task[c].results \subseteq DOMAIN task[c].urls \ task[c].probes
    <3>1. InProbes(task[c])
      BY <1>1, <2>1 DEF RegistryInv, CallsInv, Idle, Waiting
    <3>2. DOMAIN task[c].urls = 1..Len(task[c].urls) /\ Len(task[c].urls) \in Nat
      BY <3>1 DEF InProbes, Distinct
    <3>3. 1..(task[c].next - 1) \subseteq DOMAIN task[c].urls
      BY <3>1, <3>2 DEF InProbes
    <3>. QED
      BY <3>1, <3>3 DEF InProbes
  <2>2. downloads \in Nat
    BY <1>1 DEF RegistryInv, OneDownload
  <2>3. DOMAIN list.urls = Chains
    BY <1>1 DEF RegistryInv, ListInv
  <2>. QED
    BY <1>1, <2>1, <2>2, <2>3 DEF TypeOK, RegistryInv, ListInv, RankingsInv
<1>. QED
  BY <1>1, RegistryInvariance, PTL

(* However many callers find the list stale at the same time, it is        *)
(* downloaded once.                                                        *)
THEOREM DownloadedOnce == Spec => []OneDownload
<1>1. RegistryInv => OneDownload
  BY DEF RegistryInv
<1>. QED
  BY <1>1, RegistryInvariance, PTL

(* A call gives back each endpoint it was to rank exactly once.            *)
THEOREM ResultsComplete == Spec => []ResultComplete
<1>1. ASSUME RegistryInv, NEW a \in answers
      PROVE  Len(a.urls) = Len(a.merged) /\ ToSet(a.urls) = ToSet(a.merged)
  BY <1>1, SameLength DEF RegistryInv, AnswersInv, Finished
<1>2. RegistryInv => ResultComplete
  BY <1>1 DEF ResultComplete
<1>. QED
  BY <1>2, RegistryInvariance, PTL

(* In a new ranking no endpoint that failed its probe precedes one that    *)
(* answered, and none that answered precedes a faster one.                 *)
THEOREM HealthyAlwaysFirst == Spec => []HealthyFirst
<1>1. ASSUME RegistryInv, NEW a \in answers, a.results # << >>,
             NEW j \in DOMAIN a.urls, NEW k \in 1..(j - 1)
      PROVE  LET result(i) == a.results[CHOOSE m \in DOMAIN a.merged : a.merged[m] = a.urls[i]]
             IN result(j).ok => result(k).ok /\ result(k).latency <= result(j).latency
  <2>. DEFINE place(i) == CHOOSE m \in DOMAIN a.merged : a.merged[m] = a.urls[i]
  <2>. PICK order : order = Places(a.merged, a.results)
    OBVIOUS
  <2>1. /\ Distinct(a.merged) /\ Distinct(a.urls) /\ ToSet(a.urls) = ToSet(a.merged)
        /\ a.results \in [DOMAIN a.merged -> Outcomes] /\ a.urls = Ranked(a.merged, a.results)
    BY <1>1 DEF RegistryInv, AnswersInv, Finished
  <2>2. /\ \A i \in DOMAIN a.merged : order[i] \in DOMAIN a.merged /\ a.urls[i] = a.merged[order[i]]
        /\ \A m, i \in DOMAIN a.merged : m < i => Precedes(a.results, order[m], order[i])
    <3>1. /\ \A i \in DOMAIN a.merged :
               /\ Places(a.merged, a.results)[i] \in DOMAIN a.merged
               /\ Ranked(a.merged, a.results)[i] = a.merged[Places(a.merged, a.results)[i]]
          /\ \A m, i \in DOMAIN a.merged :
               m < i => Precedes(a.results, Places(a.merged, a.results)[m], Places(a.merged, a.results)[i])
      BY <2>1, RankedFacts
    <3>. QED
      BY <2>1, <3>1
  <2>3. /\ Len(a.urls) = Len(a.merged) /\ Len(a.urls) \in Nat
        /\ DOMAIN a.urls = 1..Len(a.urls) /\ DOMAIN a.merged = DOMAIN a.urls
    BY <2>1, SameLength DEF Distinct
  <2>4. ASSUME NEW i \in DOMAIN a.merged PROVE place(i) = order[i]
    <3>1. order[i] \in DOMAIN a.merged /\ a.merged[order[i]] = a.urls[i]
      BY <2>2
    <3>2. place(i) \in DOMAIN a.merged /\ a.merged[place(i)] = a.urls[i]
      BY <3>1
    <3>. HIDE DEF place
    <3>. QED
      BY <2>1, <3>1, <3>2 DEF Distinct
  <2>5. k \in DOMAIN a.merged /\ j \in DOMAIN a.merged /\ k < j
    BY <2>3
  <2>6. Precedes(a.results, place(k), place(j)) /\ place(k) \in DOMAIN a.merged /\ place(j) \in DOMAIN a.merged
    <3>1. place(k) = order[k] /\ place(j) = order[j]
      BY <2>4, <2>5
    <3>. HIDE DEF place
    <3>. QED
      BY <2>2, <2>5, <3>1
  <2>7. \A i \in DOMAIN a.merged : a.results[i].ok \in BOOLEAN /\ a.results[i].latency \in Nat
    BY <2>1, RegistryAssumption
  <2>. HIDE DEF place
  <2>8. a.results[place(j)].ok =>
          a.results[place(k)].ok /\ a.results[place(k)].latency <= a.results[place(j)].latency
    BY <2>6, <2>7 DEF Precedes
  <2>. QED
    BY <2>8 DEF place
<1>2. RegistryInv => HealthyFirst
  BY <1>1 DEF HealthyFirst
<1>. QED
  BY <1>2, RegistryInvariance, PTL

(* After a download ends, well or badly, the next one is not started       *)
(* before the shorter of the two lifetimes is over.                        *)
THEOREM DownloadsPaced == Spec => Paced
<1>1. ASSUME RegistryInv, [Next]_vars, downloads' > downloads
      PROVE  \/ list.expiresAt = 0
             \/ now >= settledAt + IF FailureTtl < ListTtl THEN FailureTtl ELSE ListTtl
  <2>1. downloads \in Nat
    BY <1>1 DEF RegistryInv, OneDownload
  <2>2. ASSUME NEW c \in Callers, NEW ch \in Chains, Resolve(c, ch) PROVE ~Fresh
    <3>1. downloads' # downloads
      BY <1>1, <2>1
    <3>. QED
      BY <2>2, <3>1 DEF Resolve, AwaitList, Known
  <2>3. ~Fresh
    <3>1. downloads' # downloads /\ downloads' # downloads - 1
      BY <1>1, <2>1
    <3>. QED
      <4>1. ASSUME ListArrives \/ ListFails PROVE downloads' = downloads - 1
        BY <4>1 DEF ListArrives, ListFails, Released
      <4>2. ASSUME Tick \/ UNCHANGED vars \/ \E c \in Callers : ProbeEnds(c)
            PROVE  downloads' = downloads
        BY <4>2 DEF Tick, vars, ProbeEnds
      <4>3. PICK c \in Callers, ch \in Chains : GetClient(c, ch) \/ SelectUrls(c, ch)
        BY <1>1, <3>1, <4>1, <4>2 DEF Next
      <4>. QED
        BY <2>2, <4>3 DEF GetClient, SelectUrls
  <2>4. now >= list.expiresAt /\ now \in Nat /\ settledAt \in Nat /\ list.expiresAt \in Nat
    BY <1>1, <2>3 DEF Fresh, RegistryInv, ListInv
  <2>5. list.expiresAt = 0 \/ list.expiresAt >= settledAt + Shorter
    BY <1>1 DEF RegistryInv, ListInv
  <2>6. Shorter \in Nat /\ Shorter = IF FailureTtl < ListTtl THEN FailureTtl ELSE ListTtl
    BY RegistryAssumption DEF Shorter
  <2>. QED
    BY <2>4, <2>5, <2>6
<1>2. RegistryInv /\ [Next]_vars =>
        [downloads' > downloads =>
           \/ list.expiresAt = 0
           \/ now >= settledAt + IF FailureTtl < ListTtl THEN FailureTtl ELSE ListTtl]_vars
  BY <1>1
<1>. QED
  BY <1>2, RegistryInvariance, PTL DEF Spec, Paced
=============================================================================
