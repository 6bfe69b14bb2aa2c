---------------------------- MODULE LoadBalancer ----------------------------
(***************************************************************************)
(* clients.ts: a chain's client sends each JSON-RPC request to one of its  *)
(* primary transports, starting from a cursor all requests share, tries    *)
(* the next one when it fails, and falls back to the remaining transports  *)
(* in order when all primaries have failed.  Requests run concurrently;    *)
(* the cursor may move at every await.                                     *)
(*                                                                         *)
(* A transport (viem's http) answers or fails, at the latest at its        *)
(* timeout; viem's own retries of the same transport are one try here, and *)
(* viem's fallback is modelled as clients.ts uses it, in order.            *)
(***************************************************************************)
EXTENDS Integers, FiniteSets

CONSTANTS
  Requests,    \* requests a client may have in flight
  Total,       \* primary transports, numbered from 0
  Fallbacks,   \* fallback transports
  MaxCalls     \* bound: requests made in a behaviour

ASSUME TotalAssumption == Total \in Nat \ {0} /\ Fallbacks \in Nat /\ MaxCalls \in Nat

VARIABLES
  cursor,     \* where the next request starts
  task,       \* what each request is doing
  calls,      \* how many requests were made
  failed,     \* history: primaries that failed a request since it started
  alone       \* history: no other request ran while this one did

vars == <<cursor, task, calls, failed, alone>>

Primaries == 0..(Total - 1)

Ready == [state |-> "ready"]

(* The loop reads the cursor anew for every try.                           *)
Trying(offset) ==
  [state |-> "primary", offset |-> offset, index |-> (cursor + offset) % Total]

Active(r) == task[r].state \in {"primary", "fallback"}

Init ==
  /\ cursor = 0
  /\ task = [r \in Requests |-> Ready]
  /\ calls = 0
  /\ failed = [r \in Requests |-> {}]
  /\ alone = [r \in Requests |-> TRUE]

-----------------------------------------------------------------------------
Start(r) ==
  /\ ~Active(r)
  /\ calls < MaxCalls
  /\ calls' = calls + 1
  /\ task' = [task EXCEPT ![r] = Trying(0)]
  /\ failed' = [failed EXCEPT ![r] = {}]
  /\ LET others == {o \in Requests \ {r} : Active(o)} IN
       alone' = [o \in Requests |->
                   IF o = r THEN others = {} ELSE IF o \in others THEN FALSE ELSE alone[o]]
  /\ UNCHANGED cursor

(* Variant: the cursor runs past the last transport.                       *)
CursorRuns(r) ==
  /\ task[r].state = "primary"
  /\ cursor' = task[r].index + 1
  /\ task' = [task EXCEPT ![r] = [state |-> "answered"]]
  /\ UNCHANGED <<calls, failed, alone>>

(* The transport answers: the next request starts behind it.               *)
PrimaryAnswers(r) ==
  /\ task[r].state = "primary"
  /\ cursor' = (task[r].index + 1) % Total
  /\ task' = [task EXCEPT ![r] = [state |-> "answered"]]
  /\ UNCHANGED <<calls, failed, alone>>

(* Variants: tries go round without end; a try counted that was not made.  *)
RetriesForever(r) ==
  /\ task[r].state = "primary"
  /\ task' = [task EXCEPT ![r] = Trying((task[r].offset + 1) % Total)]
  /\ failed' = [failed EXCEPT ![r] = @ \cup {task[r].index}]
  /\ UNCHANGED <<cursor, calls, alone>>
SkipsOne(r) ==
  /\ task[r].state = "primary"
  /\ task[r].offset + 1 < Total
  /\ task' = [task EXCEPT ![r] = Trying((task[r].offset + 2) % Total)]
  /\ failed' = [failed EXCEPT ![r] = @ \cup {task[r].index}]
  /\ UNCHANGED <<cursor, calls, alone>>

PrimaryFails(r) ==
  /\ task[r].state = "primary"
  /\ task[r].offset + 1 < Total
  /\ task' = [task EXCEPT ![r] = Trying(task[r].offset + 1)]
  /\ failed' = [failed EXCEPT ![r] = @ \cup {task[r].index}]
  /\ UNCHANGED <<cursor, calls, alone>>

Outcome(k) == IF k < Fallbacks THEN [state |-> "fallback", index |-> k] ELSE [state |-> "failed"]

(* "All load balanced transports failed": the fallbacks are left.          *)
PrimariesExhausted(r) ==
  /\ task[r].state = "primary"
  /\ task[r].offset + 1 = Total
  /\ cursor' = 0
  /\ task' = [task EXCEPT ![r] = Outcome(0)]
  /\ failed' = [failed EXCEPT ![r] = @ \cup {task[r].index}]
  /\ UNCHANGED <<calls, alone>>

FallbackAnswers(r) ==
  /\ task[r].state = "fallback"
  /\ task' = [task EXCEPT ![r] = [state |-> "answered"]]
  /\ UNCHANGED <<cursor, calls, failed, alone>>

FallbackFails(r) ==
  /\ task[r].state = "fallback"
  /\ task' = [task EXCEPT ![r] = Outcome(task[r].index + 1)]
  /\ UNCHANGED <<cursor, calls, failed, alone>>

Reply(r) ==
  \/ PrimaryAnswers(r) \/ PrimaryFails(r) \/ PrimariesExhausted(r)
  \/ FallbackAnswers(r) \/ FallbackFails(r)

Next == \E r \in Requests : Start(r) \/ Reply(r)

(* A transport always answers in the end: http times out.                  *)
Spec == Init /\ [][Next]_vars /\ \A r \in Requests : WF_vars(Reply(r))

-----------------------------------------------------------------------------
Tasks ==
  {Ready, [state |-> "answered"], [state |-> "failed"]}
    \cup [state : {"primary"}, offset : Primaries, index : Primaries]
    \cup [state : {"fallback"}, index : 0..(Fallbacks - 1)]

(* Types: the shared cursor and every index name a transport.              *)
TypeOK ==
  /\ cursor \in Primaries
  /\ task \in [Requests -> Tasks]
  /\ calls \in 0..MaxCalls
  /\ failed \in [Requests -> SUBSET Primaries]
  /\ alone \in [Requests -> BOOLEAN]

GaveUp(r) == task[r].state = "failed" \/ task[r].state = "fallback"

(* A request nobody ran beside leaves the primaries only after every one   *)
(* of them failed it, wherever the cursor stood when it started.           *)
UndisturbedTriesAll == \A r \in Requests : GaveUp(r) /\ alone[r] => failed[r] = Primaries

(* Every request is answered, or fails, in the end: neither a moving       *)
(* cursor nor a reset one keeps a request going round.                     *)
Answered == \A r \in Requests : Active(r) ~> ~Active(r)

(* When a request leaves the primaries, all of them have failed it.        *)
AllFailed == \A r \in Requests : GaveUp(r) => failed[r] = Primaries
=============================================================================
