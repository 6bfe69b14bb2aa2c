------------------------------ MODULE Executor ------------------------------
(***************************************************************************)
(* AequiExecutor.sol: one transaction pulls the caller's tokens, approves  *)
(* routers, performs a list of calls (writing its own balance into some of *)
(* them), revokes the approvals and sends back whatever its balances grew  *)
(* by.  Every loop iteration is a step; a failed check reverts everything. *)
(*                                                                         *)
(* chain is the committed state of the blockchain, mem the state as the    *)
(* running transaction has changed it so far; they agree between           *)
(* transactions.  Routers, the wrapped native token and ERC-20 tokens are  *)
(* external: they do what the executor's calls rely on, or revert.         *)
(***************************************************************************)
EXTENDS Integers, Sequences, FiniteSets, Calldata

CONSTANTS
  Tokens,     \* ERC-20 tokens
  WETH,       \* the wrapped native token, one of Tokens
  ETH,        \* the native coin
  NoToken,    \* address(0) as injectToken
  Users,      \* accounts that send transactions
  Self,       \* the executor's own address
  Routers,    \* spenders the executor approves
  Swaps,      \* the transactions that exist, as the swap builder makes them
  Wealth,     \* Wealth[a][u]: what user u first holds of asset a
  MaxUint,    \* the infinite allowance
  Surplus,    \* by how much a router may pay more than amountOutMin
  Strays,     \* amounts that strangers send to the executor
  MaxTime,    \* bound: block timestamps run from 0 to MaxTime
  MaxTxs      \* bound: transactions and stray payments in a behaviour

Assets   == Tokens \cup {ETH}
Accounts == Users \cup {Self}

(* Swap calls go to routers, the others to the wrapped native token.       *)
Call ==
  { c \in [ target : Routers \cup {WETH}, kind : Kinds, value : Nat,
            injectToken : Tokens \cup {NoToken}, injectOffset : Nat,
            tokenIn : Tokens, tokenOut : Tokens, recipient : Accounts,
            words : [Numbers -> Nat] ] :
      c.kind \in SwapKinds => c.target \in Routers }

Pull == [token : Tokens, amount : Nat]

Approval == [token : Tokens, spender : Routers, amount : Nat, revokeAfter : BOOLEAN]

(* What the builder returns, with who asked for it (by) and what for. The  *)
(* executor reads only pulls, approvals, calls and flush.  floor is what   *)
(* the calldata itself insists on; direct says that the last router pays   *)
(* the recipient and not the executor.                                     *)
SwapTransaction ==
  [ by : Users, recipient : Users, direct : BOOLEAN,
    assetIn : Assets, assetOut : Assets, amountIn : Nat,
    amountOutMinimum : Nat, floor : Nat, value : Nat, deadline : Nat,
    pulls : Seq(Pull), approvals : Seq(Approval),
    calls : Seq(Call), flush : Seq(Tokens) ]

ASSUME AssetsAssumption ==
  /\ WETH \in Tokens /\ ETH \notin Tokens /\ NoToken \notin Tokens
  /\ Self \notin Users
  /\ MaxUint \in Nat /\ MaxTime \in Nat /\ MaxTxs \in Nat
  /\ Surplus \subseteq Nat /\ Strays \subseteq Nat
  /\ Wealth \in [Assets -> [Users -> Nat]]

ASSUME SwapsAssumption == Swaps # {} /\ Swaps \subseteq SwapTransaction

Flushed(s, t) == \E k \in 1..Len(s.flush) : s.flush[k] = t

(* What the executor needs of whoever builds its transactions: any token   *)
(* it is sent on the way is in the list of tokens to flush.                *)
ASSUME FlushAssumption ==
  \A s \in Swaps :
    /\ \A k \in 1..Len(s.pulls) : Flushed(s, s.pulls[k].token)
    /\ \A k \in 1..Len(s.calls) :
         /\ s.calls[k].kind \in SwapKinds /\ s.calls[k].recipient = Self
              => Flushed(s, s.calls[k].tokenOut)
         /\ s.calls[k].kind = "deposit" => Flushed(s, WETH)

VARIABLES
  chain,    \* [bal, grant, allowance] after the last transaction
  mem,      \* the same inside the running transaction
  paused,   \* Pausable
  now,      \* block.timestamp
  phase,    \* where execute is: which loop, or "idle"
  step,     \* index of the loop
  cur,      \* the running, else the last, transaction
  before,   \* tokenBalancesBefore and ethBalanceBefore
  outcome,  \* how the last transaction ended
  started   \* transactions and stray payments so far

vars == <<chain, mem, paused, now, phase, step, cur, before, outcome, started>>

-----------------------------------------------------------------------------
(* The world: balances, what users granted the executor, what the executor *)
(* granted routers.                                                        *)

World ==
  [ bal       : [Assets -> [Accounts -> Nat]],
    grant     : [Users -> [Tokens -> Nat]],
    allowance : [Tokens -> [Routers -> Nat]] ]

Phases   == {"idle", "pull", "approve", "call", "revoke", "flush", "eth"}
Outcomes == {"none", "done", "paused", "funds", "slippage", "expired",
             "allowance", "balance", "zero", "offset", "garbled"}

Snapshot == [tokens : Seq(Nat), eth : Nat]
NoSnapshot == [tokens |-> << >>, eth |-> 0]

Init ==
  /\ chain = [ bal |-> [a \in Assets |-> [x \in Accounts |->
                          IF x = Self THEN 0 ELSE Wealth[a][x]]],
               grant |-> [u \in Users |-> [t \in Tokens |-> 0]],
               allowance |-> [t \in Tokens |-> [r \in Routers |-> 0]] ]
  /\ mem = chain
  /\ paused = FALSE
  /\ now = 0
  /\ phase = "idle"
  /\ step = 1
  /\ cur = CHOOSE s \in Swaps : TRUE
  /\ before = NoSnapshot
  /\ outcome = "none"
  /\ started = 0

Held(a) == mem.bal[a][Self]

(* n of asset a leave account x; n of asset a reach account x.             *)
Debit(b, a, x, n)  == [b EXCEPT ![a][x] = @ - n]
Credit(b, a, x, n) == [b EXCEPT ![a][x] = @ + n]

-----------------------------------------------------------------------------
(* execute(...), from the modifiers to the loops.                          *)

Work(ph) ==
  CASE ph = "pull"    -> cur.pulls
    [] ph = "approve" -> cur.approvals
    [] ph = "call"    -> cur.calls
    [] ph = "revoke"  -> cur.approvals
    [] ph = "flush"   -> cur.flush

Following ==
  [ pull |-> "approve", approve |-> "call", call |-> "revoke",
    revoke |-> "flush", flush |-> "eth" ]

(* whenNotPaused fails: the transaction reverts before it does anything.   *)
ExecutePaused(s) ==
  /\ phase = "idle"
  /\ paused
  /\ cur' = s
  /\ outcome' = "paused"
  /\ UNCHANGED <<chain, mem, paused, now, phase, step, before, started>>

(* The balances are noted before the pulls, so that the caller's unspent   *)
(* input counts as growth; msg.value has arrived and is left out.          *)
Execute(s) ==
  /\ phase = "idle"
  /\ ~paused
  /\ started < MaxTxs
  /\ mem.bal[ETH][s.by] >= s.value
  /\ started' = started + 1
  /\ cur' = s
  /\ before' = [tokens |-> [k \in 1..Len(s.flush) |-> Held(s.flush[k])], eth |-> Held(ETH)]
  /\ mem' = [mem EXCEPT !.bal =
               Credit(Debit(mem.bal, ETH, s.by, s.value), ETH, Self, s.value)]
  /\ phase' = "pull"
  /\ step' = 1
  /\ UNCHANGED <<chain, paused, now, outcome>>

(* A loop body is running and has its next element.                        *)
Turn(ph) == phase = ph /\ step <= Len(Work(ph))

Advance ==
  /\ step' = step + 1
  /\ UNCHANGED <<chain, paused, now, phase, cur, before, outcome, started>>

EndLoop ==
  /\ phase \in DOMAIN Following
  /\ step > Len(Work(phase))
  /\ phase' = Following[phase]
  /\ step' = 1
  /\ UNCHANGED <<chain, mem, paused, now, cur, before, outcome, started>>

(* The EVM undoes the whole transaction.                                   *)
Revert(why) ==
  /\ mem' = chain
  /\ phase' = "idle"
  /\ step' = 1
  /\ before' = NoSnapshot
  /\ outcome' = why
  /\ UNCHANGED <<chain, paused, now, cur, started>>

(* An ERC-20 lowers an allowance it spends, except an infinite one.        *)
Spend(granted, n) == IF granted = MaxUint THEN granted ELSE granted - n

CanPull(p) == mem.bal[p.token][cur.by] >= p.amount /\ mem.grant[cur.by][p.token] >= p.amount

PullToken ==
  /\ Turn("pull")
  /\ LET p == cur.pulls[step] IN
       /\ CanPull(p)
       /\ mem' = [mem EXCEPT
                    !.bal = Credit(Debit(mem.bal, p.token, cur.by, p.amount),
                                   p.token, Self, p.amount),
                    !.grant[cur.by][p.token] = Spend(@, p.amount)]
  /\ Advance

PullFails ==
  /\ Turn("pull")
  /\ ~CanPull(cur.pulls[step])
  /\ Revert("funds")

(* forceApprove sets the allowance whatever it was.                        *)
SetApproval ==
  /\ Turn("approve")
  /\ LET a == cur.approvals[step] IN
       mem' = [mem EXCEPT !.allowance[a.token][a.spender] = a.amount]
  /\ Advance

(* Variant: the flag is read the wrong way round.                          *)
RevokesTheOthers ==
  /\ Turn("revoke")
  /\ LET a == cur.approvals[step] IN
       mem' = IF a.revokeAfter
              THEN mem
              ELSE [mem EXCEPT !.allowance[a.token][a.spender] = 0]
  /\ Advance

RevokeApproval ==
  /\ Turn("revoke")
  /\ LET a == cur.approvals[step] IN
       mem' = IF a.revokeAfter
              THEN [mem EXCEPT !.allowance[a.token][a.spender] = 0]
              ELSE mem
  /\ Advance

-----------------------------------------------------------------------------
(* _performCalls.                                                          *)

Injects(c) == c.injectToken # NoToken

(* The checks made before the call, in the order they are made.            *)
InjectionFault(c) ==
  IF ~Injects(c) THEN "ok"
  ELSE IF Held(c.injectToken) = 0 THEN "zero"
  ELSE IF c.injectOffset < 4 \/ c.injectOffset + 32 > DataLength(c.kind) THEN "offset"
  ELSE IF WordAt(c.kind, c.injectOffset) \notin Numbers THEN "garbled"
  ELSE "ok"

(* The calldata words as the target receives them.                         *)
Sent(c) == IF Injects(c) THEN Overwrite(c, Held(c.injectToken)) ELSE c.words

(* What makes the target revert. Router02's struct carries no deadline.    *)
TargetFault(c, w) ==
  CASE c.kind = "deposit"  -> IF Held(ETH) < c.value THEN "balance" ELSE "ok"
    [] c.kind = "withdraw" -> IF Held(WETH) < w["amountIn"] THEN "balance" ELSE "ok"
    [] OTHER ->
         IF c.kind # "v3r02" /\ now > w["deadline"] THEN "expired"
         ELSE IF mem.allowance[c.tokenIn][c.target] < w["amountIn"] THEN "allowance"
         ELSE IF Held(c.tokenIn) < w["amountIn"] THEN "balance"
         ELSE "ok"

Fault(c) == IF InjectionFault(c) # "ok" THEN InjectionFault(c) ELSE TargetFault(c, Sent(c))

(* A router takes exactly amountIn and pays at least amountOutMin.         *)
SwapCall ==
  /\ Turn("call")
  /\ LET c == cur.calls[step]
         w == Sent(c)
     IN /\ c.kind \in SwapKinds
        /\ Fault(c) = "ok"
        /\ \E extra \in Surplus :
             mem' = [mem EXCEPT
                       !.bal = Credit(Debit(mem.bal, c.tokenIn, Self, w["amountIn"]),
                                      c.tokenOut, c.recipient, w["amountOutMin"] + extra),
                       !.allowance[c.tokenIn][c.target] = Spend(@, w["amountIn"])]
  /\ Advance

(* WETH.deposit with the call's value, WETH.withdraw of the word sent.     *)
WrapCall ==
  /\ Turn("call")
  /\ LET c == cur.calls[step] IN
       /\ c.kind = "deposit"
       /\ Fault(c) = "ok"
       /\ mem' = [mem EXCEPT !.bal =
                    Credit(Debit(mem.bal, ETH, Self, c.value), WETH, Self, c.value)]
  /\ Advance

UnwrapCall ==
  /\ Turn("call")
  /\ LET c == cur.calls[step]
         n == Sent(c)["amountIn"]
     IN /\ c.kind = "withdraw"
        /\ Fault(c) = "ok"
        /\ mem' = [mem EXCEPT !.bal = Credit(Debit(mem.bal, WETH, Self, n), ETH, Self, n)]
  /\ Advance

(* A check of the executor, or the target, fails; a router may also find   *)
(* that the pool now pays less than amountOutMin.                          *)
CallFails ==
  /\ Turn("call")
  /\ LET c == cur.calls[step] IN
       \/ Fault(c) # "ok" /\ Revert(Fault(c))
       \/ Fault(c) = "ok" /\ c.kind \in SwapKinds /\ Revert("slippage")

-----------------------------------------------------------------------------
(* _flushDeltas: growth goes to msg.sender, token by token, the coin last. *)

(* Variants: the operands swapped, nothing sent when there was something   *)
(* before, everything sent whatever there was before.                      *)
SwappedGrowth(held, was) == IF held > was THEN was - held ELSE 0
FreshGrowth(held, was)   == IF was = 0 THEN held ELSE 0
WholeBalance(held, was)  == held

Growth(held, was) == IF held > was THEN held - was ELSE 0

FlushToken ==
  /\ Turn("flush")
  /\ LET t == cur.flush[step]
         n == Growth(Held(t), before.tokens[step])
     IN mem' = [mem EXCEPT !.bal = Credit(Debit(mem.bal, t, Self, n), t, cur.by, n)]
  /\ Advance

Commit ==
  /\ phase = "eth"
  /\ LET n == Growth(Held(ETH), before.eth) IN
       mem' = [mem EXCEPT !.bal = Credit(Debit(mem.bal, ETH, Self, n), ETH, cur.by, n)]
  /\ chain' = mem'
  /\ phase' = "idle"
  /\ step' = 1
  /\ before' = NoSnapshot
  /\ outcome' = "done"
  /\ UNCHANGED <<paused, now, cur, started>>

-----------------------------------------------------------------------------
(* Between transactions.                                                   *)

Between(world) ==
  /\ phase = "idle"
  /\ chain' = world
  /\ mem' = world
  /\ UNCHANGED <<phase, step, cur, before, outcome>>

(* A user approves the executor for a swap's input, as the API builds it:  *)
(* for the exact amount or without limit.                                  *)
ApproveExecutor(s) ==
  /\ s.assetIn \in Tokens
  /\ \E n \in {s.amountIn, MaxUint} : Between([chain EXCEPT !.grant[s.by][s.assetIn] = n])
  /\ UNCHANGED <<paused, now, started>>

(* receive() and plain token transfers: anybody may pay the executor.      *)
Donate(a, n) ==
  /\ started < MaxTxs
  /\ started' = started + 1
  /\ Between([chain EXCEPT !.bal = Credit(chain.bal, a, Self, n)])
  /\ UNCHANGED <<paused, now>>

(* rescueFunds and rescueETH: the owner takes it to an outside account.    *)
Rescue(a) ==
  /\ \E n \in 1..chain.bal[a][Self] : Between([chain EXCEPT !.bal = Debit(chain.bal, a, Self, n)])
  /\ UNCHANGED <<paused, now, started>>

(* pause reverts when paused, unpause when not.                            *)
TogglePause ==
  /\ Between(chain)
  /\ paused' = ~paused
  /\ UNCHANGED <<now, started>>

Tick ==
  /\ now < MaxTime
  /\ Between(chain)
  /\ now' = now + 1
  /\ UNCHANGED <<paused, started>>

-----------------------------------------------------------------------------
Transaction ==
  \/ EndLoop \/ PullToken \/ PullFails \/ SetApproval
  \/ SwapCall \/ WrapCall \/ UnwrapCall \/ CallFails
  \/ RevokeApproval \/ FlushToken \/ Commit

Environment ==
  \/ \E s \in Swaps : Execute(s) \/ ExecutePaused(s) \/ ApproveExecutor(s)
  \/ \E a \in Assets : Rescue(a) \/ \E n \in Strays : Donate(a, n)
  \/ TogglePause \/ Tick

Next == Transaction \/ Environment

Spec == Init /\ [][Next]_vars

-----------------------------------------------------------------------------
(* Types of the executor's state.                                          *)
TypeOK ==
  /\ chain \in World /\ mem \in World
  /\ paused \in BOOLEAN
  /\ now \in Nat
  /\ phase \in Phases
  /\ step \in Nat \ {0}
  /\ cur \in Swaps
  /\ before \in Snapshot
  /\ outcome \in Outcomes
  /\ started \in Nat

(* An approval that somebody asked to be left in place.                    *)
Kept(t, r) ==
  \E s \in Swaps : \E k \in 1..Len(s.approvals) :
    /\ s.approvals[k].token = t /\ s.approvals[k].spender = r
    /\ ~s.approvals[k].revokeAfter

(* Between transactions no router may spend anything of the executor's,    *)
(* unless a transaction asked for it: what one caller leaves approved      *)
(* could be taken from the next one.                                       *)
NoStandingAllowance ==
  phase = "idle" =>
    \A t \in Tokens, r \in Routers : chain.allowance[t][r] # 0 => Kept(t, r)

(* A transaction that commits leaves the executor nothing it did not hold  *)
(* before: unspent input, intermediate tokens, output and coins all leave. *)
NothingStranded ==
  [][phase = "eth" => \A a \in Assets : chain'.bal[a][Self] <= chain.bal[a][Self]]_vars

(* What the executor held before a transaction stays with it, except an    *)
(* asset some call is told to spend all of: that sweeps earlier funds too. *)
PriorFundsKept ==
  [][phase = "eth" =>
       \A a \in Assets :
         \/ chain'.bal[a][Self] >= chain.bal[a][Self]
         \/ \E k \in 1..Len(cur.calls) : cur.calls[k].injectToken = a]_vars
=============================================================================
