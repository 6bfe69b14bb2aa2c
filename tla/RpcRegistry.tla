---------------------------- MODULE RpcRegistry ----------------------------
(***************************************************************************)
(* rpc-registry.ts and the client cache of clients.ts: which endpoints a   *)
(* chain's client uses.  Callers share one download of the public list;    *)
(* each then merges it with the configured endpoints and ranks them with a *)
(* pool of probes, unless a ranking of the same endpoints is still good.   *)
(* A step runs from one await to the next.                                 *)
(*                                                                         *)
(* A URL stands for all its spellings (trimmed, lower case).  A probe is   *)
(* bounded by its timeout; the download of the list is not.                *)
(***************************************************************************)
EXTENDS Integers, Sequences, FiniteSets, SequencesExt, Orders

CONSTANTS
  Chains,       \* chains the server knows
  Urls,         \* endpoints
  Configured,   \* Configured[ch]: rpcUrls, then fallbackRpcUrls
  Private,      \* chains with disablePublicRpcRegistry
  Lists,        \* what the public list may say: [Chains -> sequences of URLs]
  Outcomes,     \* how a probe may end: [ok, latency, rate]
  Callers,      \* bound: calls of resolveRpcUrls at a time
  MaxProbes,    \* MAX_PROBE_CONCURRENCY
  ListTtl, FailureTtl, RankTtl,   \* the three lifetimes
  MaxCalls,     \* bound: calls in a behaviour
  MaxTime       \* bound: the clock runs from 0 to MaxTime

ASSUME RegistryAssumption ==
  /\ Private \subseteq Chains
  /\ \A ch \in Chains : Configured[ch] \in Seq(Urls) /\ \A found \in Lists : found[ch] \in Seq(Urls)
  /\ MaxProbes \in Nat \ {0}
  /\ ListTtl \in Nat /\ FailureTtl \in Nat /\ RankTtl \in Nat
  /\ \A o \in Outcomes : o.ok \in BOOLEAN /\ o.latency \in Nat /\ o.rate \in Int

VARIABLES
  now,         \* Date.now()
  list,        \* cache: [expiresAt, urls]
  inFlight,    \* a refresh is announced to later callers
  downloads,   \* refreshes that run
  rankings,    \* rankingCache
  clients,     \* clientCache: chains whose client was asked for
  task,        \* what each call is doing
  calls,       \* calls so far
  answers,     \* what calls were given by the last step
  settledAt    \* history: when a download last ended

vars == <<now, list, inFlight, downloads, rankings, clients, task, calls, answers, settledAt>>

Idle == [state |-> "idle"]

Init ==
  /\ now = 0
  /\ list = [expiresAt |-> 0, urls |-> [ch \in Chains |-> << >>]]
  /\ inFlight = FALSE
  /\ downloads = 0
  /\ rankings = << >>
  /\ clients = {}
  /\ task = [c \in Callers |-> Idle]
  /\ calls = 0
  /\ answers = {}
  /\ settledAt = 0

-----------------------------------------------------------------------------
(* Merging and ranking.                                                    *)

(* The first of each URL, in the order they came.                          *)
Dedupe(urls) ==
  LET firsts == Ascending({i \in DOMAIN urls : \A j \in 1..(i - 1) : urls[j] # urls[i]})
  IN [k \in DOMAIN firsts |-> urls[firsts[k]]]

Signature(urls) == ToSet(urls)

(* Variants: whichever URLs the ranking is of; a failure ranked by its     *)
(* latency like an answer.                                                 *)
AnyRanking(ch, urls) == ch \in DOMAIN rankings /\ now < rankings[ch].expiresAt
ByLatency(urls, results) ==
  LET sooner == {p \in (DOMAIN urls) \X (DOMAIN urls) :
                   \/ results[p[1]].latency < results[p[2]].latency
                   \/ results[p[1]].latency = results[p[2]].latency /\ p[1] < p[2]}
  IN [k \in DOMAIN urls |-> urls[Enumerated(DOMAIN urls, sooner)[k]]]

(* A ranking is reused for the same set of URLs only.                      *)
RankingGood(ch, urls) ==
  /\ ch \in DOMAIN rankings
  /\ rankings[ch].signature = Signature(urls)
  /\ now < rankings[ch].expiresAt

(* Those that answered, fastest first, then by what is left of their rate  *)
(* limit; the others follow as they came.  i < j stands for the names.     *)
Precedes(results, i, j) ==
  \/ results[i].ok /\ ~results[j].ok
  \/ ~results[i].ok /\ ~results[j].ok /\ i < j
  \/ /\ results[i].ok /\ results[j].ok
     /\ \/ results[i].latency < results[j].latency
        \/ /\ results[i].latency = results[j].latency
           /\ \/ results[i].rate > results[j].rate
              \/ results[i].rate = results[j].rate /\ i < j

Ranked(urls, results) ==
  LET order == Enumerated(DOMAIN urls,
                 {p \in (DOMAIN urls) \X (DOMAIN urls) : Precedes(results, p[1], p[2])})
  IN [k \in DOMAIN urls |-> urls[order[k]]]

(* The end of a call: merged is what it was to rank, results its probes.   *)
Done(merged, urls, results) ==
  [state |-> "done", merged |-> merged, urls |-> urls, results |-> results]

(* Calls go on as given by next; those that are done have their answer.    *)
Continue(next) ==
  /\ task' = [c \in Callers |-> IF next[c].state = "done" THEN Idle ELSE next[c]]
  /\ answers' = {next[c] : c \in {d \in Callers : next[d].state = "done"}}

(* Variant: the cursor is moved one short of the indices taken.            *)
TakenTwice(ch, urls) ==
  LET first == IF Len(urls) < MaxProbes THEN Len(urls) ELSE MaxProbes
  IN [ state |-> "probing", chain |-> ch, urls |-> urls, probes |-> 1..first,
       next |-> first, results |-> << >> ]

(* Workers take the first indices at once, each its next when it is free.  *)
Probing(ch, urls) ==
  LET first == IF Len(urls) < MaxProbes THEN Len(urls) ELSE MaxProbes
  IN [ state |-> "probing", chain |-> ch, urls |-> urls, probes |-> 1..first,
       next |-> first + 1, results |-> << >> ]

(* What a call does once the list is there: known[ch] is the chain's part. *)
Resumed(ch, known) ==
  LET urls == Dedupe(Configured[ch] \o known[ch])
  IN IF urls = << >> THEN Done(urls, urls, << >>)
     ELSE IF RankingGood(ch, urls) THEN Done(urls, rankings[ch].urls, << >>)
     ELSE Probing(ch, urls)

-----------------------------------------------------------------------------
(* resolveRpcUrls, with ensureChainlistCache.                              *)

Fresh == now < list.expiresAt

(* Variant: nobody looks whether a refresh is under way.                   *)
EveryCaller(c, ch) ==
  /\ ch \notin Private /\ ~Fresh
  /\ inFlight' = TRUE
  /\ downloads' = downloads + 1
  /\ Continue([task EXCEPT ![c] = [state |-> "waiting", chain |-> ch]])

(* A stale list: the caller waits for the refresh under way, or starts it. *)
AwaitList(c, ch) ==
  /\ ch \notin Private /\ ~Fresh
  /\ inFlight' = TRUE
  /\ downloads' = IF inFlight THEN downloads ELSE downloads + 1
  /\ Continue([task EXCEPT ![c] = [state |-> "waiting", chain |-> ch]])

Known(c, ch) ==
  /\ ch \in Private \/ Fresh
  /\ Continue([task EXCEPT ![c] =
       IF ch \in Private THEN Done(Dedupe(Configured[ch]), Dedupe(Configured[ch]), << >>)
       ELSE Resumed(ch, list.urls)])
  /\ UNCHANGED <<inFlight, downloads>>

Resolve(c, ch) ==
  /\ task[c] = Idle
  /\ calls < MaxCalls
  /\ calls' = calls + 1
  /\ AwaitList(c, ch) \/ Known(c, ch)
  /\ UNCHANGED <<now, list, rankings, settledAt>>

(* getPublicClient: the first request for a chain builds its client, every *)
(* later one is given the same promise.                                    *)
GetClient(c, ch) ==
  /\ ch \notin clients
  /\ clients' = clients \cup {ch}
  /\ Resolve(c, ch)

(* DefaultRpcSelector resolves afresh each time.                           *)
SelectUrls(c, ch) == Resolve(c, ch) /\ UNCHANGED clients

-----------------------------------------------------------------------------
(* refreshCache ends; everybody who waited goes on with what is known now. *)

(* Variant: those who wait are not told.                                   *)
NobodyTold(known) ==
  /\ inFlight' = FALSE
  /\ downloads' = downloads - 1
  /\ settledAt' = now
  /\ Continue(task)
  /\ UNCHANGED <<now, rankings, clients, calls>>

Released(known) ==
  /\ inFlight' = FALSE
  /\ downloads' = downloads - 1
  /\ settledAt' = now
  /\ Continue([c \in Callers |-> IF task[c].state = "waiting"
                                 THEN Resumed(task[c].chain, known) ELSE task[c]])
  /\ UNCHANGED <<now, rankings, clients, calls>>

ListArrives ==
  /\ downloads > 0
  /\ \E found \in Lists :
       /\ list' = [expiresAt |-> now + ListTtl,
                   urls |-> [ch \in Chains |-> Dedupe(found[ch])]]
       /\ Released(found)

(* Variant: the failure is logged and that is all.                         *)
FailureForgotten ==
  /\ downloads > 0
  /\ UNCHANGED list
  /\ Released(list.urls)

ListFails ==
  /\ downloads > 0
  /\ list' = [list EXCEPT !.expiresAt = now + FailureTtl]
  /\ Released(list.urls)

-----------------------------------------------------------------------------
(* evaluateRpcEndpoints, then the rest of getRankedRpcUrls.                *)

(* The worker that probed urls[i] takes the next one, if any is left.      *)
Probed(t, i, o) ==
  LET left == t.next <= Len(t.urls)
  IN [t EXCEPT !.probes  = (@ \ {i}) \cup IF left THEN {t.next} ELSE {},
               !.next    = IF left THEN @ + 1 ELSE @,
               !.results = [k \in DOMAIN @ \cup {i} |-> IF k = i THEN o ELSE @[k]]]

(* There are other probes to wait for.                                     *)
KeepProbing(c, t) ==
  /\ t.probes # {}
  /\ Continue([task EXCEPT ![c] = t])
  /\ UNCHANGED rankings

(* Every probe ended: the ranking is kept, and given to the caller.        *)
KeepRanking(c, t) ==
  LET best == Ranked(t.urls, t.results)
  IN /\ t.probes = {}
     /\ Continue([task EXCEPT ![c] = Done(t.urls, best, t.results)])
     /\ rankings' =
          [ ch \in DOMAIN rankings \cup {t.chain} |->
              IF ch = t.chain
              THEN [expiresAt |-> now + RankTtl, signature |-> Signature(t.urls), urls |-> best]
              ELSE rankings[ch] ]

ProbeEnds(c) ==
  /\ task[c].state = "probing"
  /\ \E t \in {Probed(task[c], i, o) : i \in task[c].probes, o \in Outcomes} :
       KeepProbing(c, t) \/ KeepRanking(c, t)
  /\ UNCHANGED <<now, list, inFlight, downloads, clients, calls, settledAt>>

Tick ==
  /\ now < MaxTime
  /\ now' = now + 1
  /\ Continue(task)
  /\ UNCHANGED <<list, inFlight, downloads, rankings, clients, calls, settledAt>>

Next ==
  \/ \E c \in Callers :
       (\E ch \in Chains : GetClient(c, ch) \/ SelectUrls(c, ch)) \/ ProbeEnds(c)
  \/ ListArrives \/ ListFails \/ Tick

(* Every probe ends: AbortController cuts it off after five seconds.       *)
Spec == Init /\ [][Next]_vars /\ \A c \in Callers : WF_vars(ProbeEnds(c))

-----------------------------------------------------------------------------
(* Types of the registry's state: results and probes are of indices that   *)
(* exist, and no index is being probed that has a result.                  *)
TypeOK ==
  /\ now \in Nat /\ calls \in Nat /\ downloads \in Nat /\ settledAt \in Nat
  /\ inFlight \in BOOLEAN
  /\ list.expiresAt \in Nat /\ DOMAIN list.urls = Chains
  /\ DOMAIN rankings \subseteq Chains /\ clients \subseteq Chains
  /\ \A c \in Callers : task[c].state = "probing" =>
       /\ task[c].probes \subseteq DOMAIN task[c].urls
       /\ DOMAIN task[c].results \subseteq DOMAIN task[c].urls \ task[c].probes

(* However many callers find the list stale at the same time, it is        *)
(* downloaded once, and somebody is told of it as long as it runs.         *)
OneDownload == downloads = IF inFlight THEN 1 ELSE 0

(* A call gives back each endpoint it was to rank exactly once, although   *)
(* the ranking may be another call's and the list may have changed since.  *)
ResultComplete ==
  \A a \in answers :
    Len(a.urls) = Len(a.merged) /\ ToSet(a.urls) = ToSet(a.merged)

(* In a new ranking no endpoint that failed its probe precedes one that    *)
(* answered, and none that answered precedes a faster one.                 *)
HealthyFirst ==
  \A a \in answers : a.results # << >> =>
    LET result(k) == a.results[CHOOSE i \in DOMAIN a.merged : a.merged[i] = a.urls[k]]
    IN \A j \in DOMAIN a.urls : \A k \in 1..(j - 1) : result(j).ok =>
         result(k).ok /\ result(k).latency <= result(j).latency

(* After a download ends, well or badly, the next one is not started       *)
(* before the shorter of the two lifetimes is over.                        *)
Paced ==
  [][downloads' > downloads =>
       \/ list.expiresAt = 0
       \/ now >= settledAt + IF FailureTtl < ListTtl THEN FailureTtl ELSE ListTtl]_vars

(* If the download never hangs for ever, every call is answered: probes    *)
(* end, and a list that arrives or fails releases everyone who waits.      *)
Resolved == []<>(downloads = 0) => \A c \in Callers : (task[c] # Idle ~> task[c] = Idle)
=============================================================================
