----------------------------- MODULE TokenService -----------------------------
(***************************************************************************)
(* token-service.ts: what is known of tokens, cached for a lifetime, over  *)
(* the client of one chain.  A call answers from the cache what it can and *)
(* reads the rest in one multicall, a request to the client's transports   *)
(* (LoadBalancer); other calls run between its steps.                      *)
(*                                                                         *)
(* Addresses are compared whatever their spelling: a token here is an      *)
(* address in its checksum form.  The supply of a token stands for the     *)
(* time of the block it was read at.                                       *)
(***************************************************************************)
EXTENDS LoadBalancer, Orders, Sequences, SequencesExt

CONSTANTS
  Tokens,      \* token contracts
  Decimals,    \* their decimals
  Native,      \* NATIVE_ADDRESS
  Preloaded,   \* tokens the configuration lists, with the right decimals
  Ttl,         \* ttlMs, in ticks of the clock
  Unknown,     \* 'UNKNOWN'
  None,        \* null, undefined: what a failed read leaves
  Lists,       \* the lists of addresses that are asked for
  Losses,      \* which fields of a token may fail together
  MaxAsks,     \* bound: calls in a behaviour
  MaxTime      \* bound: the clock

Fields == << "symbol", "name", "decimals", "supply" >>

ASSUME TokenAssumption ==
  /\ Native \notin Tokens /\ None \notin Tokens /\ Unknown \notin Tokens
  /\ Decimals \in [Tokens -> Nat]
  /\ Preloaded \subseteq Tokens
  /\ Ttl \in Nat /\ MaxAsks \in Nat /\ MaxTime \in Nat
  /\ Lists \subseteq Seq(Tokens \cup {Native})
  /\ Losses \subseteq SUBSET ToSet(Fields)

VARIABLES
  clock,     \* Date.now()
  cache,     \* cache: [value, expiresAt] or None
  call,      \* what each call is doing
  asks,      \* calls so far
  slowest    \* history: the longest a value was on its way to the cache

tokenVars   == <<clock, cache, call, asks, slowest>>
clientVars  == vars
serviceVars == <<tokenVars, clientVars>>

(* Variant: whatever there is.                                             *)
Undecoded(text, fallback) == text

(* A text that was not read, or is blank once decoded (None), is replaced. *)
Decoded(text, fallback) == IF text = None THEN fallback ELSE text

(* The native coin is known without a read.                                *)
NativeToken ==
  [token |-> Native, symbol |-> Native, name |-> Native, decimals |-> 18, supply |-> None]

(* A token of the configuration, whose supply is not known.                *)
Preload(t) == [token |-> t, symbol |-> t, name |-> t, decimals |-> Decimals[t], supply |-> None]

Sleeping == [stage |-> "idle"]

ServiceInit ==
  /\ Init
  /\ clock = 0
  /\ cache = [t \in Tokens |->
                IF t \in Preloaded THEN [value |-> Preload(t), expiresAt |-> Ttl] ELSE None]
  /\ call = [c \in Requests |-> Sleeping]
  /\ asks = 0 /\ slowest = 0

Tick ==
  /\ clock < MaxTime
  /\ clock' = clock + 1
  /\ UNCHANGED <<cache, call, asks, slowest, clientVars>>

-----------------------------------------------------------------------------
(* Variant: an entry is as good as its presence.                           *)
StillThere(t) == cache[t] # None

Live(t) == cache[t] # None /\ cache[t].expiresAt > clock

Known(a) == IF a = Native THEN NativeToken ELSE IF Live(a) THEN cache[a].value ELSE None

(* A call begins: what is known now is taken now, and the positions of the *)
(* rest are noted.  If nothing is missing the call is over.                *)
Ask(c, list) ==
  /\ call[c].stage \in {"idle", "answered", "failed"}
  /\ asks < MaxAsks
  /\ asks' = asks + 1
  /\ LET given   == [i \in DOMAIN list |-> Known(list[i])]
         missing == {i \in DOMAIN list : given[i] = None}
     IN call' = [call EXCEPT ![c] =
          [ stage |-> IF missing = {} THEN "answered" ELSE "client", asked |-> list,
            results |-> given, missing |-> Ascending(missing), began |-> clock ]]
  /\ UNCHANGED <<clock, cache, slowest, clientVars>>

(* The client is there, and is sent the multicall; or there is none.       *)
Request(c) ==
  /\ call[c].stage = "client"
  /\ Start(c)
  /\ call' = [call EXCEPT ![c].stage = "reading"]
  /\ UNCHANGED <<clock, cache, asks, slowest>>

NoClient(c) ==
  /\ call[c].stage = "client"
  /\ call' = [call EXCEPT ![c].stage = "failed"]
  /\ UNCHANGED <<clock, cache, asks, slowest, clientVars>>

(* The transports at work.                                                 *)
Transport(c) == Reply(c) /\ UNCHANGED tokenVars

-----------------------------------------------------------------------------
(* What the chain says of the tokens at a block, four fields each; fields  *)
(* may fail by themselves, in tokens that are not what they should be.     *)
Reading(wanted, at, lost) ==
  [ n \in 1..(4 * Len(wanted)) |->
      LET t == wanted[((n - 1) \div 4) + 1]
          f == Fields[((n - 1) % 4) + 1]
      IN IF f \in lost[t] THEN None
         ELSE CASE f = "decimals" -> Decimals[t] [] f = "supply" -> at [] OTHER -> t ]

(* Variant: the stride of three fields.                                    *)
ThreeFields(results, i, f) == results[3 * (i - 1) + f]

Field(results, i, f) == results[4 * (i - 1) + f]

Metadata(results, i, t) ==
  LET symbol == Decoded(Field(results, i, 1), Unknown)
  IN [ token |-> t, symbol |-> symbol, name |-> Decoded(Field(results, i, 2), symbol),
       decimals |-> Field(results, i, 3), supply |-> Field(results, i, 4) ]

Wanted(c) == [i \in DOMAIN call[c].missing |-> call[c].asked[call[c].missing[i]]]

(* Variant: a token goes to the place it had among the missing.            *)
InOrder(c, read) == [k \in DOMAIN call[c].asked |->
  IF k \in DOMAIN read THEN read[k] ELSE call[c].results[k]]

(* Every token that was read goes to the position it was asked at.         *)
Filled(c, read) == [k \in DOMAIN call[c].asked |->
  IF call[c].results[k] # None THEN call[c].results[k]
  ELSE read[CHOOSE i \in DOMAIN read : call[c].missing[i] = k]]

(* The loop over the results: each token is cached as it is reached; one   *)
(* without decimals ends the call, and those after it are not looked at.   *)
Digest(c, results, at) ==
  LET wanted  == Wanted(c)
      fails   == {i \in DOMAIN wanted : Field(results, i, 3) = None}
      reached == {i \in DOMAIN wanted : \A j \in fails : i < j}
      read    == [i \in DOMAIN wanted |-> Metadata(results, i, wanted[i])]
  IN /\ cache' = [t \in Tokens |->
                    IF \E i \in reached : wanted[i] = t
                    THEN [ value |-> read[CHOOSE i \in reached : wanted[i] = t],
                           expiresAt |-> clock + Ttl ]
                    ELSE cache[t]]
     /\ slowest' = IF reached # {} /\ clock - at > slowest THEN clock - at ELSE slowest
     /\ call' = [call EXCEPT ![c] =
                   IF fails # {} THEN [@ EXCEPT !.stage = "failed"]
                   ELSE [@ EXCEPT !.stage = "answered", !.results = Filled(c, read)]]

(* The nodes answered as of some block since the request was sent.         *)
Heard(c) ==
  \E at \in call[c].began..clock, lost \in [ToSet(Wanted(c)) -> Losses] :
    Digest(c, Reading(Wanted(c), at, lost), at)

(* Variant: that every transport failed is not noticed.                    *)
FailureUnheard(c) ==
  /\ call[c].stage = "reading" /\ task[c].state = "answered"
  /\ Heard(c)
  /\ UNCHANGED <<clock, asks, clientVars>>

(* The request is over; if every transport failed, every field did         *)
(* (allowFailure).                                                         *)
Received(c) ==
  /\ call[c].stage = "reading"
  /\ \/ task[c].state = "answered" /\ Heard(c)
     \/ task[c].state = "failed" /\ Digest(c, [f \in 1..(4 * Len(Wanted(c))) |-> None], clock)
  /\ UNCHANGED <<clock, asks, clientVars>>

-----------------------------------------------------------------------------
Proceed(c) == Request(c) \/ NoClient(c) \/ Received(c)

ServiceNext ==
  \/ Tick
  \/ \E c \in Requests :
       (\E list \in Lists : Ask(c, list)) \/ Proceed(c) \/ Transport(c)

(* A transport answers or times out, and the event loop runs what awaits   *)
(* it.  Nothing makes the promise of a client settle: building one awaits  *)
(* a download without a timeout (RpcRegistry), so Request and NoClient may *)
(* never come.                                                             *)
ServiceSpec ==
  /\ ServiceInit /\ [][ServiceNext]_serviceVars
  /\ \A c \in Requests : WF_serviceVars(Received(c)) /\ WF_serviceVars(Transport(c))

-----------------------------------------------------------------------------
Metadatas ==
  [ token : Tokens \cup {Native}, symbol : Tokens \cup {Native, Unknown},
    name : Tokens \cup {Native, Unknown}, decimals : Nat, supply : Nat \cup {None} ]

ASSUME NullAssumption == None \notin Metadatas

Answer(c) == {call[c].results[i] : i \in DOMAIN call[c].results}

(* Types of the cache and of the calls: whatever fields a token failed to  *)
(* give, what is kept and answered has a symbol, a name and decimals.      *)
TokensTyped ==
  /\ clock \in 0..MaxTime /\ slowest \in 0..MaxTime
  /\ \A t \in Tokens : cache[t] # None => cache[t].value \in Metadatas
  /\ \A c \in Requests :
       /\ call[c].stage \in {"idle", "client", "reading", "answered", "failed"}
       /\ call[c].stage = "answered" => Answer(c) \subseteq Metadatas

(* A caller gets the tokens it asked for, one for one and in its order,    *)
(* whichever of them were cached, native, read or asked for twice.         *)
AnswerFits ==
  \A c \in Requests : call[c].stage = "answered" =>
    /\ Len(call[c].results) = Len(call[c].asked)
    /\ \A i \in DOMAIN call[c].asked : call[c].results[i].token = call[c].asked[i]

(* Amounts are scaled by the decimals: those that are kept or answered are *)
(* the token's own, even when fields of its neighbours, or calls half way  *)
(* through their results, failed.                                          *)
DecimalsTrue ==
  /\ \A t \in Tokens : cache[t] # None => cache[t].value.decimals = Decimals[t]
  /\ \A c \in Requests : call[c].stage = "answered" =>
       \A v \in Answer(c) : v.token # Native => v.decimals = Decimals[v.token]

(* What a call answers was true no longer ago, when the call began, than   *)
(* the lifetime and the longest time a value took to reach the cache.      *)
AnswerFresh ==
  \A c \in Requests : call[c].stage = "answered" =>
    \A v \in Answer(c) : v.supply # None =>
      v.supply >= call[c].began \/ v.supply + Ttl + slowest > call[c].began

(* A call that has its client ends, however its transports fail and        *)
(* whatever other calls do, even if they wait for a client for ever.       *)
TokensAnswered ==
  \A c \in Requests : call[c].stage = "reading" ~> call[c].stage \in {"answered", "failed"}
=============================================================================
