-------------------------- MODULE SettlementProofs --------------------------
(***************************************************************************)
(* What the swap builder makes of a quote is a sound plan: the obligations *)
(* under which executing a transaction settles a swap hold for a single    *)
(* route and for a split, for every path, number of legs and of hops,      *)
(* router, buffer, slippage and minimum, with the coin at either end or    *)
(* not. And the plan fits together: its merged approvals are enough for    *)
(* its calls, and its injections follow what they inject. Next the         *)
(* executor, for every set of tokens, users, routers and transactions: its *)
(* state is well typed, no allowance outlives a transaction that did not   *)
(* ask for it, and nothing a transaction brought stays behind. Then the    *)
(* refinement: executing transactions of sound plan settles swaps, the     *)
(* builder and the executor together implement Settlement, for all tokens, *)
(* users, routers, amounts and plans; the invariant follows what the       *)
(* running transaction has gained or lost for every account so far,        *)
(* against what its plan says at that point. Last, plans that fit          *)
(* together: while the transaction runs, what is allowed and what is held  *)
(* is enough for the calls to come.                                        *)
(***************************************************************************)
EXTENDS SwapExecution, OrderLemmas

-----------------------------------------------------------------------------
(* Planned(s, a) is any function that starts as it does and moves by the   *)
(* flows of the calls.                                                     *)
LEMMA PlannedIs ==
  ASSUME NEW s, NEW a, Len(s.calls) \in Nat, NEW g \in [0..Len(s.calls) -> Int],
         g[0] = IF a = s.assetIn THEN s.amountIn ELSE 0,
         \A k \in 1..Len(s.calls) : g[k] = g[k - 1] + Flow(s.calls[k], a)
  PROVE  \A k \in 0..Len(s.calls) : Planned(s, a)[k] = g[k]
<1>. DEFINE n == Len(s.calls)
            start == IF a = s.assetIn THEN s.amountIn ELSE 0
            Body(f) == [k \in 0..n |-> IF k = 0 THEN start ELSE f[k - 1] + Flow(s.calls[k], a)]
<1>1. g = Body(g)
  <2>1. ASSUME NEW k \in 0..n PROVE g[k] = Body(g)[k]
    <3>1. CASE k = 0
      BY <3>1
    <3>2. CASE k # 0
      <4>1. k \in 1..n
        BY <3>2
      <4>2. g[k] = g[k - 1] + Flow(s.calls[k], a)
        BY <4>1
      <4>. QED
        BY <3>2, <4>2
    <3>. QED
      BY <3>1, <3>2
  <2>. HIDE DEF start
  <2>. QED
    BY <2>1
<1>2. PICK p : p = Planned(s, a)
  OBVIOUS
<1>3. p = Body(p)
  <2>1. p = CHOOSE f : f = Body(f)
    BY <1>2 DEF Planned
  <2>. HIDE DEF Body
  <2>. QED
    BY <1>1, <2>1
<1>4. \A k \in 0..n : p[k] = IF k = 0 THEN start ELSE p[k - 1] + Flow(s.calls[k], a)
  <2>. HIDE DEF start, n
  <2>. QED
    BY <1>3
<1>. DEFINE Other == {k \in 0..n : p[k] # g[k]}
<1>5. Other = {}
  <2>1. SUFFICES ASSUME Other # {} PROVE FALSE
    OBVIOUS
  <2>2. Other \in SUBSET Nat
    OBVIOUS
  <2>3. PICK k \in Other : \A j \in Other : k <= j
    <3>. HIDE DEF Other
    <3>. QED
      BY <2>1, <2>2, LeastNatural
  <2>4. k \in 0..n /\ p[k] # g[k]
    BY <2>3
  <2>5. CASE k = 0
    BY <1>4, <2>4, <2>5
  <2>6. CASE k # 0
    <3>1. k \in 1..n /\ k - 1 \in 0..n /\ ~(k <= k - 1)
      BY <2>4, <2>6
    <3>2. k - 1 \notin Other
      <4>. HIDE DEF Other
      <4>. QED
        BY <2>3, <3>1
    <3>3. p[k - 1] = g[k - 1]
      BY <3>1, <3>2
    <3>4. g[k] = g[k - 1] + Flow(s.calls[k], a)
      BY <3>1
    <3>5. p[k] = p[k - 1] + Flow(s.calls[k], a)
      BY <1>4, <2>4, <2>6
    <3>. QED
      BY <2>4, <3>3, <3>4, <3>5
  <2>. QED
    BY <2>5, <2>6
<1>. QED
  BY <1>2, <1>5

-----------------------------------------------------------------------------
(* The hops' amounts.                                                      *)

(* What the first hop of a route spends: all of the input, also where a hop*)
(* is capped at what it was quoted for.                                    *)
LEMMA FirstHop ==
  ASSUME NEW q, SimpleRoute(q), \A i \in 1..Len(q.hops) : q.hops[i].amountIn > 0,
         NEW x \in Int, NEW capped \in BOOLEAN, capped => q.hops[1].amountIn = x
  PROVE  Builder!HopAmounts(q, x, capped)[1].in = x
<1>. DEFINE n == Len(q.hops)
            Body(f) ==
              [i \in 1..n |->
                 LET h         == q.hops[i]
                     available == IF i = 1 THEN x ELSE f[i - 1].out
                     offered   == IF capped /\ h.amountIn <= available THEN h.amountIn ELSE available
                     in        == Builder!Buffered(i, offered)
                 IN [available |-> available, in |-> in, out |-> (h.amountOut * in) \div h.amountIn]]
            V == [available : Int, in : Int, out : Int]
            Value(i, v) ==
                 LET h         == q.hops[i]
                     available == v.out
                     offered   == IF capped /\ h.amountIn <= available THEN h.amountIn ELSE available
                     in        == Builder!Buffered(i, offered)
                 IN [available |-> available, in |-> in, out |-> (h.amountOut * in) \div h.amountIn]
            G == [i \in 1..n |-> [v \in V |-> Value(i, v)]]
            start == [available |-> 0, in |-> 0, out |-> x]
<1>1. n \in Nat /\ x \in Int /\ start \in V /\ 1 \in 1..n
      /\ \A i \in 1..n : q.hops[i].amountIn \in Nat /\ q.hops[i].amountOut \in Nat
                           /\ q.hops[i].amountIn > 0
  <2>1. /\ q.hops \in Seq(Hops) /\ q.hops # << >> /\ x \in Int
        /\ \A i \in 1..n : q.hops[i].amountIn > 0
    BY DEF SimpleRoute
  <2>2. n \in Nat /\ 1 \in 1..n
    BY <2>1
  <2>3. \A i \in 1..n : q.hops[i] \in Hops
    BY <2>1
  <2>4. start \in V
    BY <2>1
  <2>. HIDE DEF start, V, n
  <2>. QED
    BY <2>1, <2>2, <2>3, <2>4 DEF Hops
<1>2. \A i \in 1..n, v \in V : Value(i, v) \in V
  <2>1. ASSUME NEW i \in 1..n, NEW y \in Int PROVE Builder!Buffered(i, y) \in Int
    BY BufferAssumption DEF Builder!Buffered, Builder!Bps
  <2>2. ASSUME NEW i \in 1..n, NEW v \in V PROVE Value(i, v) \in V
    <3>. DEFINE h == q.hops[i]
                y == IF capped /\ h.amountIn <= v.out THEN h.amountIn ELSE v.out
                z == Builder!Buffered(i, y)
    <3>1. v.out \in Int /\ h.amountIn \in Int /\ h.amountOut \in Int /\ h.amountIn > 0
      BY <1>1
    <3>2. y \in Int
      BY <3>1
    <3>3. z \in Int
      BY <3>2, <2>1
    <3>4. (h.amountOut * z) \div h.amountIn \in Int
      <4>. HIDE DEF h, z
      <4>. QED
        BY <3>1, <3>3
    <3>. QED
      BY <3>1, <3>3, <3>4
  <2>. QED
    BY <2>2
<1>3. G \in [1..n -> [V -> V]]
  <2>. HIDE DEF Value, V, n
  <2>. QED
    BY <1>2
<1>4. PICK f \in [0..n -> V] : f[0] = start /\ \A k \in 1..n : f[k] = G[k][f[k - 1]]
  <2>1. n \in Nat /\ start \in V
    BY <1>1
  <2>2. \E f \in [0..n -> V] : Stepwise(f, n, start, G)
    <3>. HIDE DEF G, V, n, start
    <3>. QED
      BY <2>1, <1>3, StepsExist
  <2>. HIDE DEF G, V, n, start
  <2>. QED
    BY <2>2 DEF Stepwise
<1>. DEFINE g == [i \in 1..n |-> f[i]]
<1>5. g = Body(g)
  <2>1. ASSUME NEW i \in 1..n PROVE f[i] = Value(i, f[i - 1])
    <3>1. i - 1 \in 0..n
      BY <1>1
    <3>2. f[i - 1] \in V
      BY <3>1, <1>4
    <3>. HIDE DEF Value, V, n
    <3>. QED
      BY <1>4, <3>2
  <2>2. ASSUME NEW i \in 1..n PROVE i = 1 => f[i - 1].out = x
    BY <1>4
  <2>3. ASSUME NEW i \in 1..n, i # 1 PROVE g[i - 1] = f[i - 1]
    BY <1>1, <2>3
  <2>4. ASSUME NEW i \in 1..n PROVE f[i] = Body(g)[i]
    <3>1. (IF i = 1 THEN x ELSE g[i - 1].out) = f[i - 1].out
      BY <2>2, <2>3
    <3>. HIDE DEF g, n
    <3>. QED
      BY <2>1, <3>1
  <2>. QED
    BY <2>4
<1>6. Builder!HopAmounts(q, x, capped) = CHOOSE a : a = Body(a)
  BY DEF Builder!HopAmounts
<1>7. PICK a : a = Builder!HopAmounts(q, x, capped)
  OBVIOUS
<1>8. a = Body(a)
  <2>. HIDE DEF Body, g
  <2>. QED
    BY <1>5, <1>6, <1>7
<1>9. capped => q.hops[1].amountIn = x
  OBVIOUS
<1>10. a[1].in = Builder!Buffered(1, x)
  <2>1. a[1] = Body(a)[1]
    BY <1>8
  <2>2. 1 \in 1..n /\ x <= x
    BY <1>1
  <2>3. Body(a)[1].in = Builder!Buffered(1, x)
    <3>. HIDE DEF n
    <3>. QED
      BY <2>2, <1>9
  <2>. QED
    BY <2>1, <2>3
<1>11. Builder!Buffered(1, x) = x
  BY DEF Builder!Buffered
<1>. QED
  BY <1>7, <1>10, <1>11

(* The call of a route's hop: it injects the amount it spends and no other *)
(* word; the first hop spends the whole input, the last one insists on the *)
(* whole minimum.                                                          *)
RouteCall(q, i, c, x, min, to, deadline) ==
  /\ c.kind \in SwapKinds
  /\ c.injectToken = (IF i > 1 THEN q.path[i] ELSE NoToken)
  /\ Injects(c) => WordAt(c.kind, c.injectOffset) = "amountIn"
  /\ c.tokenIn = q.path[i] /\ c.tokenOut = q.path[i + 1]
  /\ c.recipient = (IF i = Len(q.hops) THEN to ELSE Self)
  /\ i = 1 => c.words["amountIn"] = x
  /\ i = Len(q.hops) => c.words["amountOutMin"] = min
  /\ c.words["deadline"] = deadline

(* What a call of a route says, hop by hop.                                *)
LEMMA RouteCallFacts ==
  ASSUME NEW q, SimpleRoute(q), \A i \in 1..Len(q.hops) : q.hops[i].amountIn > 0,
         NEW x \in Int, NEW capped \in BOOLEAN, capped => q.hops[1].amountIn = x,
         NEW min, NEW to, NEW deadline, NEW i \in 1..Len(q.hops)
  PROVE  RouteCall(q, i, Builder!RouteCalls(q, Builder!HopAmounts(q, x, capped), min, to, deadline)[i],
                   x, min, to, deadline)
<1>. DEFINE amounts == Builder!HopAmounts(q, x, capped)
            c == Builder!RouteCalls(q, amounts, min, to, deadline)[i]
<1>1. amounts[1].in = x
  BY FirstHop
<1>. HIDE DEF amounts
<1>2. /\ c.kind = q.hops[i].kind
      /\ c.injectToken = IF i > 1 THEN q.path[i] ELSE NoToken
      /\ c.injectOffset = IF i > 1 THEN Builder!InjectOffset(q.hops[i].kind) ELSE 0
      /\ c.tokenIn = q.path[i] /\ c.tokenOut = q.path[i + 1]
      /\ c.recipient = (IF i = Len(q.hops) THEN to ELSE Self)
      /\ c.words["amountIn"] = amounts[i].in
      /\ c.words["amountOutMin"]
           = Builder!DeriveHopMinOut(amounts[i].out, min, q.amountOut, i = Len(q.hops))
      /\ c.words["deadline"] = deadline
  BY DEF Builder!RouteCalls, Builder!HopCall
<1>3. c.kind \in SwapKinds
  <2>1. q.hops[i] \in Hops
    BY DEF SimpleRoute
  <2>. QED
    BY <1>2, <2>1 DEF Hops
<1>4. Injects(c) => WordAt(c.kind, c.injectOffset) = "amountIn"
  <2>1. SUFFICES ASSUME Injects(c) PROVE WordAt(c.kind, Builder!InjectOffset(c.kind)) = "amountIn"
    BY <1>2 DEF Injects
  <2>2. \A k \in SwapKinds : WordAt(k, Builder!InjectOffset(k)) = "amountIn"
    BY DEF SwapKinds, WordAt, Layout, Builder!InjectOffset
  <2>. HIDE DEF c
  <2>. QED
    BY <1>3, <2>2
<1>5. i = Len(q.hops) => c.words["amountOutMin"] = min
  BY <1>2 DEF Builder!DeriveHopMinOut
<1>. HIDE DEF c
<1>6. RouteCall(q, i, c, x, min, to, deadline)
  BY <1>1, <1>2, <1>3, <1>4, <1>5 DEF RouteCall
<1>. QED
  BY <1>6 DEF c, amounts
-----------------------------------------------------------------------------
(* Sums.                                                                   *)

Sums(g, n, s) == g[0] = 0 /\ \A k \in 1..n : g[k] = g[k - 1] + s[k]

(* Total of a sequence is the last of its partial sums.                    *)
LEMMA TotalFacts ==
  ASSUME NEW n \in Nat, NEW s \in [1..n -> Int]
  PROVE  \E g \in [0..n -> Int] : Sums(g, n, s) /\ Builder!Total(s) = g[n]
<1>. DEFINE G == [k \in 1..n |-> [v \in Int |-> v + s[k]]]
            Body(f) == [k \in 0..Len(s) |-> IF k = 0 THEN 0 ELSE f[k - 1] + s[k]]
<1>1. Len(s) = n
  OBVIOUS
<1>2. G \in [1..n -> [Int -> Int]]
  <2>1. \A k \in 1..n : [v \in Int |-> v + s[k]] \in [Int -> Int]
    OBVIOUS
  <2>. QED
    BY <2>1
<1>3. PICK g \in [0..n -> Int] : Stepwise(g, n, 0, G)
  <2>1. 0 \in Int
    OBVIOUS
  <2>. HIDE DEF G
  <2>. QED
    BY <1>2, <2>1, StepsExist, Zenon
<1>4. Sums(g, n, s)
  <2>1. ASSUME NEW k \in 1..n PROVE g[k] = g[k - 1] + s[k]
    <3>1. k - 1 \in 0..n
      OBVIOUS
    <3>2. g[k] = G[k][g[k - 1]]
      <4>. HIDE DEF G
      <4>. QED
        BY <1>3 DEF Stepwise
    <3>. QED
      BY <3>1, <3>2
  <2>. QED
    BY <1>3, <2>1 DEF Stepwise, Sums
<1>5. g = Body(g)
  <2>1. ASSUME NEW k \in 0..n PROVE g[k] = IF k = 0 THEN 0 ELSE g[k - 1] + s[k]
    <3>1. k # 0 => k \in 1..n
      OBVIOUS
    <3>. QED
      BY <1>4, <3>1 DEF Sums
  <2>. QED
    BY <1>1, <2>1
<1>6. PICK p : p = CHOOSE f : f = Body(f)
  OBVIOUS
<1>7. p = Body(p)
  <2>. HIDE DEF Body
  <2>. QED
    BY <1>5, <1>6
<1>8. Builder!Total(s) = p[n]
  BY <1>1, <1>6 DEF Builder!Total
<1>9. \A k \in 0..n : p[k] = IF k = 0 THEN 0 ELSE p[k - 1] + s[k]
  BY <1>1, <1>7
<1>. DEFINE S == {k \in 0..n : p[k] = g[k]}
<1>10. \A k \in 0..n : k \in S
  <2>1. 0 \in S
    BY <1>4, <1>9 DEF Sums
  <2>2. ASSUME NEW k \in 1..n, k - 1 \in S PROVE k \in S
    <3>1. k \in 0..n /\ k # 0 /\ p[k - 1] = g[k - 1]
      BY <2>2
    <3>2. p[k] = p[k - 1] + s[k] /\ g[k] = g[k - 1] + s[k]
      BY <1>4, <1>9, <3>1 DEF Sums
    <3>. QED
      BY <3>1, <3>2
  <2>. HIDE DEF S
  <2>. QED
    BY <2>1, <2>2, Counting
<1>. QED
  BY <1>4, <1>8, <1>10

(* FlattenSeq joins the first two sequences, and each to what came before. *)
LEMMA FlattenFacts ==
  ASSUME NEW m \in Nat \ {0}, NEW V, NEW L \in [1..m -> Seq(V)]
  PROVE  \E F \in [1..m -> Seq(V)] : JoinsOf(F, L, m) /\ Builder!FlattenSeq(L) = F[m]
<1>. DEFINE Body(f) == [i \in 1..Len(L) |-> IF i = 1 THEN L[i] ELSE f[i - 1] \o L[i]]
<1>1. Len(L) = m
  OBVIOUS
<1>2. PICK F \in [1..m -> Seq(V)] : JoinsOf(F, L, m)
  BY PrefixesExist
<1>3. F = Body(F)
  <2>1. ASSUME NEW i \in 1..m PROVE F[i] = IF i = 1 THEN L[i] ELSE F[i - 1] \o L[i]
    <3>1. i # 1 => i \in 2..m
      OBVIOUS
    <3>. QED
      BY <1>2, <3>1 DEF JoinsOf
  <2>. QED
    BY <1>1, <2>1
<1>4. PICK p : p = CHOOSE g : g = Body(g)
  OBVIOUS
<1>5. p = Body(p)
  <2>. HIDE DEF Body
  <2>. QED
    BY <1>3, <1>4
<1>6. Flattens(p, L, m)
  BY <1>1, <1>5 DEF Flattens
<1>7. Builder!FlattenSeq(L) = p[m]
  BY <1>1, <1>4 DEF Builder!FlattenSeq
<1>. HIDE DEF Body
<1>8. p[m] = F[m]
  BY <1>2, <1>6, PrefixesUnique, Zenon
<1>. QED
  BY <1>2, <1>7, <1>8

-----------------------------------------------------------------------------
(* What lists of calls add.                                                *)

(* h is what the calls of c add to the executor's holding of a, up to each.*)
AddsWith(c, a, h) ==
  h[0] = 0 /\ \A k \in 1..Len(c) : Flow(c[k], a) \in Int /\ h[k] = h[k - 1] + Flow(c[k], a)

AddsTo(c, a, v) == \E h \in [0..Len(c) -> Int] : AddsWith(c, a, h) /\ h[Len(c)] = v

(* The first n of them add v, all of them x.                               *)
AddsUpTo(c, a, n, v, x) ==
  \E h \in [0..Len(c) -> Int] : AddsWith(c, a, h) /\ h[n] = v /\ h[Len(c)] = x

(* What two lists of calls add up to, one after the other.                 *)
LEMMA AddsJoined ==
  ASSUME NEW c, NEW d, NEW cd, Len(c) \in Nat, Len(d) \in Nat, Joined(c, d, cd),
         NEW a, NEW v \in Int, NEW w \in Int, AddsTo(c, a, v), AddsTo(d, a, w)
  PROVE  AddsUpTo(cd, a, Len(c), v, v + w)
<1>. DEFINE m == Len(c)
            n == Len(d)
<1>1. PICK f \in [0..m -> Int] :
        f[0] = 0 /\ f[m] = v /\ \A k \in 1..m : Flow(c[k], a) \in Int /\ f[k] = f[k - 1] + Flow(c[k], a)
  BY DEF AddsTo, AddsWith
<1>2. PICK g \in [0..n -> Int] :
        g[0] = 0 /\ g[n] = w /\ \A k \in 1..n : Flow(d[k], a) \in Int /\ g[k] = g[k - 1] + Flow(d[k], a)
  BY DEF AddsTo, AddsWith
<1>3. Len(cd) = m + n /\ (\A i \in 1..m : cd[i] = c[i]) /\ (\A i \in 1..n : cd[m + i] = d[i])
  BY DEF Joined
<1>4. m \in Nat /\ n \in Nat
  OBVIOUS
<1>. HIDE DEF m, n
<1>. DEFINE h == [k \in 0..(m + n) |-> IF k <= m THEN f[k] ELSE v + g[k - m]]
<1>6. h \in [0..(m + n) -> Int]
  <2>1. ASSUME NEW k \in 0..(m + n) PROVE (IF k <= m THEN f[k] ELSE v + g[k - m]) \in Int
    <3>1. CASE k <= m
      BY <1>1, <1>4, <3>1
    <3>2. CASE ~(k <= m)
      <4>1. k - m \in 0..n
        BY <1>4, <3>2
      <4>. QED
        BY <1>2, <3>2, <4>1
    <3>. QED
      BY <3>1, <3>2
  <2>. QED
    BY <2>1
<1>7. \A k \in 0..(m + n) : h[k] = IF k <= m THEN f[k] ELSE v + g[k - m]
  OBVIOUS
<1>. HIDE DEF h
<1>8. h[0] = 0 /\ h[m] = v
  <2>1. 0 \in 0..(m + n) /\ 0 <= m /\ m \in 0..(m + n) /\ m <= m
    BY <1>4
  <2>. QED
    BY <1>1, <1>7, <2>1
<1>9. \A k \in 0..n : h[m + k] = v + g[k]
  <2>. SUFFICES ASSUME NEW k \in 0..n PROVE h[m + k] = v + g[k]
    OBVIOUS
  <2>1. m + k \in 0..(m + n) /\ m + k - m = k
    BY <1>4
  <2>2. CASE k = 0
    <3>1. m + k = m
      BY <1>4, <2>2
    <3>2. h[m + k] = v /\ g[k] = 0
      BY <1>2, <1>8, <2>2, <3>1
    <3>. QED
      BY <3>2
  <2>3. CASE k # 0
    <3>1. ~(m + k <= m)
      BY <1>4, <2>3
    <3>. DEFINE i == m + k
    <3>2. i \in 0..(m + n) /\ ~(i <= m) /\ i - m = k
      BY <1>4, <3>1
    <3>. HIDE DEF i
    <3>3. h[i] = v + g[k]
      BY <1>7, <3>2
    <3>. QED
      BY <3>3 DEF i
  <2>. QED
    BY <2>2, <2>3
<1>10. h[m + n] = v + w
  <2>1. n \in 0..n
    BY <1>4
  <2>. QED
    BY <1>2, <1>9, <2>1
<1>11. ASSUME NEW k \in 1..(m + n) PROVE Flow(cd[k], a) \in Int /\ h[k] = h[k - 1] + Flow(cd[k], a)
  <2>1. CASE k <= m
    <3>1. k \in 1..m /\ k \in 0..(m + n) /\ k - 1 \in 0..(m + n) /\ k - 1 <= m
      BY <1>4, <2>1
    <3>2. h[k] = f[k] /\ h[k - 1] = f[k - 1] /\ cd[k] = c[k]
      BY <1>3, <1>7, <2>1, <3>1
    <3>. QED
      BY <1>1, <3>1, <3>2
  <2>2. CASE ~(k <= m)
    <3>1. k - m \in 1..n /\ k - m \in 0..n /\ (k - m) - 1 \in 0..n
          /\ m + (k - m) = k /\ m + ((k - m) - 1) = k - 1
      BY <1>4, <2>2
    <3>2. h[k] = v + g[k - m] /\ h[k - 1] = v + g[(k - m) - 1]
      <4>1. h[m + (k - m)] = v + g[k - m]
        BY <1>9, <3>1
      <4>2. h[m + ((k - m) - 1)] = v + g[(k - m) - 1]
        BY <1>9, <3>1
      <4>. QED
        BY <3>1, <4>1, <4>2
    <3>3. g[k - m] = g[(k - m) - 1] + Flow(d[k - m], a)
      BY <1>2, <3>1
    <3>4. cd[k] = d[k - m]
      BY <1>3, <3>1
    <3>5. g[k - m] \in Int /\ g[(k - m) - 1] \in Int
      BY <1>2, <3>1
    <3>6. PICK x \in Int : x = Flow(cd[k], a)
      BY <1>2, <3>1, <3>4
    <3>7. g[k - m] = g[(k - m) - 1] + x
      BY <3>3, <3>4, <3>6
    <3>8. h[k] = h[k - 1] + x
      BY <3>2, <3>5, <3>7
    <3>. QED
      BY <3>6, <3>8
  <2>. QED
    BY <2>1, <2>2
<1>12. AddsWith(cd, a, h)
  BY <1>3, <1>8, <1>11 DEF AddsWith
<1>13. h \in [0..Len(cd) -> Int] /\ h[Len(cd)] = v + w
  BY <1>3, <1>6, <1>10
<1>. QED
  BY <1>8, <1>12, <1>13 DEF AddsUpTo, m

(* What the two lists add up to, without the place in between.             *)
LEMMA AddsBoth ==
  ASSUME NEW c, NEW d, NEW cd, Len(c) \in Nat, Len(d) \in Nat, Joined(c, d, cd),
         NEW a, NEW v \in Int, NEW w \in Int, AddsTo(c, a, v), AddsTo(d, a, w)
  PROVE  AddsTo(cd, a, v + w)
<1>1. AddsUpTo(cd, a, Len(c), v, v + w)
  BY AddsJoined
<1>. QED
  BY <1>1 DEF AddsUpTo, AddsTo

(* One call adds its flow.                                                 *)
LEMMA AddsOne ==
  ASSUME NEW c, Len(c) \in 0..1, NEW a, NEW v \in Int,
         IF Len(c) = 1 THEN Flow(c[1], a) = v ELSE v = 0
  PROVE  AddsTo(c, a, v)
<1>. DEFINE h == [k \in 0..Len(c) |-> IF k = 0 THEN 0 ELSE v]
<1>1. h \in [0..Len(c) -> Int]
  OBVIOUS
<1>2. h[0] = 0 /\ h[Len(c)] = v
  OBVIOUS
<1>3. ASSUME NEW k \in 1..Len(c) PROVE Flow(c[k], a) \in Int /\ h[k] = h[k - 1] + Flow(c[k], a)
  <2>1. k = 1 /\ Len(c) = 1 /\ k - 1 = 0
    OBVIOUS
  <2>2. h[1] = v /\ h[0] = 0
    BY <2>1
  <2>. QED
    BY <2>1, <2>2
<1>. HIDE DEF h
<1>4. AddsWith(c, a, h)
  BY <1>2, <1>3 DEF AddsWith
<1>. QED
  BY <1>1, <1>2, <1>4 DEF AddsTo

(* So a plan's holding of a, after its first n calls and after all.        *)
LEMMA PlannedAdds ==
  ASSUME NEW s, NEW a, Len(s.calls) \in Nat, s.amountIn \in Int,
         NEW n \in 0..Len(s.calls), NEW v \in Int, NEW x \in Int,
         AddsUpTo(s.calls, a, n, v, x)
  PROVE  LET start == IF a = s.assetIn THEN s.amountIn ELSE 0
         IN  Planned(s, a)[n] = start + v /\ Planned(s, a)[Len(s.calls)] = start + x
<1>. DEFINE m == Len(s.calls)
            start == IF a = s.assetIn THEN s.amountIn ELSE 0
<1>1. PICK h \in [0..m -> Int] : AddsWith(s.calls, a, h) /\ h[n] = v /\ h[m] = x
  BY DEF AddsUpTo
<1>2. start \in Int /\ m \in Nat
  OBVIOUS
<1>. DEFINE g == [k \in 0..m |-> start + h[k]]
<1>3. g \in [0..m -> Int]
  BY <1>1, <1>2
<1>4. \A k \in 0..m : g[k] = start + h[k]
  OBVIOUS
<1>. HIDE DEF g, start, m
<1>5. g[0] = start
  BY <1>1, <1>2, <1>4 DEF AddsWith
<1>6. ASSUME NEW k \in 1..m PROVE g[k] = g[k - 1] + Flow(s.calls[k], a)
  <2>1. k \in 0..m /\ k - 1 \in 0..m
    BY <1>2
  <2>2. Flow(s.calls[k], a) \in Int /\ h[k] = h[k - 1] + Flow(s.calls[k], a)
    BY <1>1 DEF AddsWith, m
  <2>3. h[k - 1] \in Int /\ g[k] = start + h[k] /\ g[k - 1] = start + h[k - 1]
    BY <1>1, <1>4, <2>1
  <2>. QED
    BY <1>2, <2>2, <2>3
<1>7. \A k \in 0..m : Planned(s, a)[k] = g[k]
  BY <1>2, <1>3, <1>5, <1>6, PlannedIs DEF m, start
<1>8. n \in 0..m /\ m \in 0..m
  BY <1>2 DEF m
<1>. QED
  BY <1>1, <1>4, <1>7, <1>8 DEF m, start

-----------------------------------------------------------------------------
(* Routes.                                                                 *)

(* Calls from first to last: each swaps, injects only the amount it spends *)
(* and only a token on the way, and either ends at last, where it pays to, *)
(* or has the next call spend all that it brings.                          *)
Chained(c, first, last, to, deadline) ==
  \A p \in 1..Len(c) :
    /\ c[p].kind \in SwapKinds
    /\ Injects(c[p]) => WordAt(c[p].kind, c[p].injectOffset) = "amountIn"
    /\ c[p].injectToken \in {NoToken, c[p].tokenIn} \ {first, last}
    /\ c[p].tokenIn \in Tokens \ {last} /\ c[p].tokenOut \in Tokens \ {first}
    /\ c[p].words["deadline"] = deadline
    /\ \/ c[p].tokenOut = last /\ c[p].recipient = to /\ (to # Self => p = Len(c))
       \/ /\ c[p].tokenOut # last /\ c[p].recipient = Self
          /\ p < Len(c) /\ c[p + 1].injectToken = c[p].tokenOut

(* The fixed amounts of c: where it injects nothing, it takes x of first   *)
(* and brings y of last.                                                   *)
Gives(c, first, last, x, y) ==
  \A a : (\A p \in 1..Len(c) : c[p].injectToken # a) =>
    AddsTo(c, a, IF a = first THEN 0 - x ELSE IF a = last THEN y ELSE 0)

(* A simple route has a token more than hops, all different.               *)
LEMMA RouteShape ==
  ASSUME NEW q, SimpleRoute(q)
  PROVE  LET n == Len(q.hops)
         IN /\ n \in Nat /\ n >= 1 /\ Len(q.path) = n + 1
            /\ \A i \in 1..(n + 1) : q.path[i] \in Tokens /\ q.path[i] # NoToken
            /\ \A i, j \in 1..(n + 1) : i # j => q.path[i] # q.path[j]
<1>. DEFINE n == Len(q.hops)
<1>1. /\ q.path \in Seq(Tokens) /\ q.hops \in Seq(Hops) /\ q.hops # << >>
      /\ Len(q.path) = n + 1
      /\ \A i, j \in 1..Len(q.path) : q.path[i] = q.path[j] => i = j
  BY DEF SimpleRoute
<1>2. n \in Nat /\ n >= 1
  BY <1>1
<1>3. \A i \in 1..(n + 1) : q.path[i] \in Tokens /\ q.path[i] # NoToken
  BY <1>1, AssetsAssumption
<1>. QED
  BY <1>1, <1>2, <1>3

Routed(q, c, x, min, to, deadline) ==
  /\ Len(c) = Len(q.hops)
  /\ Chained(c, q.path[1], q.path[Len(q.path)], to, deadline)
  /\ Gives(c, q.path[1], q.path[Len(q.path)], x, IF to = Self THEN min ELSE 0)
  /\ c[Len(c)].tokenOut = q.path[Len(q.path)] /\ c[Len(c)].words["amountOutMin"] = min

(* The calls of a route hand the input on from token to token.             *)
LEMMA RouteChained ==
  ASSUME NEW q, SimpleRoute(q), \A i \in 1..Len(q.hops) : q.hops[i].amountIn > 0,
         NEW x \in Int, NEW capped \in BOOLEAN, capped => q.hops[1].amountIn = x,
         NEW min \in Int, NEW to, NEW deadline
  PROVE  Routed(q, Builder!RouteCalls(q, Builder!HopAmounts(q, x, capped), min, to, deadline),
                x, min, to, deadline)
<1>. DEFINE n == Len(q.hops)
            c == Builder!RouteCalls(q, Builder!HopAmounts(q, x, capped), min, to, deadline)
            first == q.path[1]
            last == q.path[n + 1]
<1>1. /\ n \in Nat /\ n >= 1 /\ Len(q.path) = n + 1
      /\ \A i \in 1..(n + 1) : q.path[i] \in Tokens /\ q.path[i] # NoToken
      /\ \A i, j \in 1..(n + 1) : i # j => q.path[i] # q.path[j]
  BY RouteShape
<1>2. Len(c) = n
  BY <1>1 DEF Builder!RouteCalls
<1>3. \A i \in 1..n : RouteCall(q, i, c[i], x, min, to, deadline)
  BY RouteCallFacts
<1>. HIDE DEF c, n
<1>4. ASSUME NEW p \in 1..n
      PROVE  /\ c[p].kind \in SwapKinds
             /\ Injects(c[p]) => WordAt(c[p].kind, c[p].injectOffset) = "amountIn"
             /\ c[p].injectToken \in {NoToken, c[p].tokenIn} \ {first, last}
             /\ c[p].tokenIn \in Tokens \ {last} /\ c[p].tokenOut \in Tokens \ {first}
             /\ c[p].words["deadline"] = deadline
  <2>1. RouteCall(q, p, c[p], x, min, to, deadline)
    BY <1>3
  <2>2. p \in 1..(n + 1) /\ p + 1 \in 1..(n + 1) /\ n + 1 \in 1..(n + 1) /\ 1 \in 1..(n + 1)
        /\ p # n + 1 /\ p + 1 # 1
    BY <1>1
  <2>3. c[p].tokenIn = q.path[p] /\ c[p].tokenOut = q.path[p + 1]
        /\ c[p].injectToken = (IF p > 1 THEN q.path[p] ELSE NoToken)
    BY <2>1 DEF RouteCall
  <2>4. q.path[p] # last /\ q.path[p + 1] # first /\ first # NoToken /\ last # NoToken
        /\ q.path[p] \in Tokens /\ q.path[p + 1] \in Tokens
    BY <1>1, <2>2
  <2>5. p > 1 => q.path[p] # first
    BY <1>1, <2>2
  <2>. QED
    BY <2>1, <2>3, <2>4, <2>5 DEF RouteCall
<1>5. ASSUME NEW p \in 1..n
      PROVE  \/ c[p].tokenOut = last /\ c[p].recipient = to /\ (to # Self => p = n)
             \/ /\ c[p].tokenOut # last /\ c[p].recipient = Self
                /\ p < n /\ c[p + 1].injectToken = c[p].tokenOut
  <2>1. RouteCall(q, p, c[p], x, min, to, deadline)
    BY <1>3
  <2>2. CASE p = n
    BY <2>1, <2>2 DEF RouteCall, n
  <2>3. CASE p # n
    <3>1. p + 1 \in 1..n /\ p < n /\ p + 1 > 1 /\ p + 1 \in 1..(n + 1) /\ n + 1 \in 1..(n + 1)
          /\ p + 1 # n + 1
      BY <1>1, <2>3
    <3>2. RouteCall(q, p + 1, c[p + 1], x, min, to, deadline)
      BY <1>3, <3>1
    <3>3. q.path[p + 1] # last
      BY <1>1, <3>1
    <3>4. c[p + 1].injectToken = q.path[p + 1]
      BY <3>1, <3>2 DEF RouteCall
    <3>. QED
      BY <2>1, <2>3, <3>1, <3>3, <3>4 DEF RouteCall, n
  <2>. QED
    BY <2>2, <2>3
<1>6. Chained(c, first, last, to, deadline)
  BY <1>2, <1>4, <1>5 DEF Chained
<1>7. c[n].tokenOut = last /\ c[n].words["amountOutMin"] = min
  <2>1. n \in 1..n
    BY <1>1
  <2>. QED
    BY <1>3, <2>1 DEF RouteCall, n
<1>. DEFINE y == IF to = Self THEN min ELSE 0
<1>8. ASSUME NEW a, \A p \in 1..n : c[p].injectToken # a
      PROVE  AddsTo(c, a, IF a = first THEN 0 - x ELSE IF a = last THEN y ELSE 0)
  <2>. DEFINE v == IF a = first THEN 0 - x ELSE 0
              w == IF a = last THEN y ELSE 0
              h == [k \in 0..n |-> (IF k > 0 THEN v ELSE 0) + (IF k = n THEN w ELSE 0)]
  <2>1. v \in Int /\ w \in Int /\ first # last
    <3>1. 1 \in 1..(n + 1) /\ n + 1 \in 1..(n + 1) /\ 1 # n + 1
      BY <1>1
    <3>. QED
      BY <1>1, <3>1
  <2>2. ASSUME NEW k \in 1..n
        PROVE  Flow(c[k], a) = (IF k = 1 THEN v ELSE 0) + (IF k = n THEN w ELSE 0)
    <3>1. RouteCall(q, k, c[k], x, min, to, deadline) /\ c[k].kind \in SwapKinds /\ c[k].kind # "deposit"
      BY <1>3 DEF RouteCall, SwapKinds
    <3>2. c[k].tokenIn = q.path[k] /\ c[k].tokenOut = q.path[k + 1]
      BY <3>1 DEF RouteCall
    <3>3. k > 1 => q.path[k] # a
      <4>1. k > 1 => c[k].injectToken = q.path[k]
        BY <3>1 DEF RouteCall
      <4>. QED
        BY <1>8, <4>1
    <3>4. k # n => q.path[k + 1] # a
      <4>1. SUFFICES ASSUME k # n PROVE q.path[k + 1] # a
        OBVIOUS
      <4>2. k + 1 \in 1..n /\ k + 1 > 1
        BY <1>1, <4>1
      <4>3. c[k + 1].injectToken = q.path[k + 1]
        BY <1>3, <4>2 DEF RouteCall
      <4>. QED
        BY <1>8, <4>2, <4>3
    <3>5. (k = 1 => q.path[k] = first) /\ (k = n => q.path[k + 1] = last)
      OBVIOUS
    <3>. DEFINE spends == c[k].tokenIn = a
                pays   == c[k].tokenOut = a /\ c[k].recipient = Self
    <3>6. Flow(c[k], a) = (IF pays THEN c[k].words["amountOutMin"] ELSE 0)
                          - (IF spends THEN c[k].words["amountIn"] ELSE 0) + 0 - 0
      BY <3>1, Zenon DEF Flow
    <3>7. spends => k = 1 /\ a = first /\ c[k].words["amountIn"] = x
      <4>1. spends => ~(k > 1)
        BY <3>2, <3>3
      <4>2. ~(k > 1) => k = 1
        OBVIOUS
      <4>3. k = 1 => c[k].words["amountIn"] = x
        BY <3>1 DEF RouteCall
      <4>. QED
        BY <3>2, <3>5, <4>1, <4>2, <4>3, Zenon
    <3>8. pays => k = n /\ a = last /\ to = Self /\ c[k].words["amountOutMin"] = min
      <4>1. k = n => c[k].recipient = to /\ c[k].words["amountOutMin"] = min
        BY <3>1 DEF RouteCall, n
      <4>. QED
        BY <3>2, <3>4, <3>5, <4>1, Zenon
    <3>9. k = 1 /\ a = first => spends
      BY <3>2, <3>5, Zenon
    <3>10. k = n /\ a = last /\ to = Self => pays
      <4>1. k = n => c[k].recipient = to
        BY <3>1 DEF RouteCall, n
      <4>. QED
        BY <3>2, <3>5, <4>1, Zenon
    <3>11. (IF spends THEN c[k].words["amountIn"] ELSE 0) = (IF k = 1 THEN 0 - v ELSE 0)
      <4>1. CASE spends
        BY <3>7, <4>1
      <4>2. CASE ~spends
        <5>1. k = 1 => v = 0
          BY <3>9, <4>2
        <5>. HIDE DEF spends, v
        <5>. QED
          BY <4>2, <5>1
      <4>. QED
        BY <4>1, <4>2
    <3>12. (IF pays THEN c[k].words["amountOutMin"] ELSE 0) = (IF k = n THEN w ELSE 0)
      <4>1. CASE pays
        BY <3>8, <4>1
      <4>2. CASE ~pays
        BY <3>10, <4>2
      <4>. QED
        BY <4>1, <4>2
    <3>. HIDE DEF spends, pays, v, w
    <3>. QED
      BY <2>1, <3>6, <3>11, <3>12
  <2>. HIDE DEF v, w
  <2>3. h \in [0..n -> Int] /\ \A k \in 0..n : h[k] = (IF k > 0 THEN v ELSE 0) + (IF k = n THEN w ELSE 0)
    BY <2>1
  <2>. HIDE DEF h
  <2>4. h[0] = 0 /\ h[n] = v + w
    BY <1>1, <2>1, <2>3
  <2>5. ASSUME NEW k \in 1..n PROVE Flow(c[k], a) \in Int /\ h[k] = h[k - 1] + Flow(c[k], a)
    <3>1. k \in 0..n /\ k - 1 \in 0..n /\ k > 0 /\ k - 1 # n /\ (k - 1 > 0 <=> k # 1)
      BY <1>1
    <3>2. h[k] = v + (IF k = n THEN w ELSE 0) /\ h[k - 1] = (IF k = 1 THEN 0 ELSE v)
      <4>1. h[k] = (IF k > 0 THEN v ELSE 0) + (IF k = n THEN w ELSE 0)
        BY <2>3, <3>1
      <4>2. h[k - 1] = (IF k - 1 > 0 THEN v ELSE 0) + (IF k - 1 = n THEN w ELSE 0)
        BY <2>3, <3>1
      <4>3. (IF k - 1 > 0 THEN v ELSE 0) + (IF k - 1 = n THEN w ELSE 0) = (IF k = 1 THEN 0 ELSE v)
        BY <2>1, <3>1
      <4>. QED
        BY <3>1, <4>1, <4>2, <4>3
    <3>3. Flow(c[k], a) = (IF k = 1 THEN v ELSE 0) + (IF k = n THEN w ELSE 0)
      BY <2>2
    <3>4. PICK t \in Int : t = (IF k = n THEN w ELSE 0)
      BY <2>1
    <3>5. CASE k = 1
      BY <2>1, <3>2, <3>3, <3>4, <3>5
    <3>6. CASE k # 1
      BY <2>1, <3>2, <3>3, <3>4, <3>6
    <3>. QED
      BY <3>5, <3>6
  <2>6. AddsWith(c, a, h)
    BY <1>2, <2>4, <2>5 DEF AddsWith
  <2>7. AddsTo(c, a, v + w)
    BY <1>2, <2>3, <2>4, <2>6 DEF AddsTo
  <2>8. v + w = IF a = first THEN 0 - x ELSE IF a = last THEN y ELSE 0
    BY <2>1 DEF v, w
  <2>. QED
    BY <2>7, <2>8
<1>9. Gives(c, first, last, x, y)
  BY <1>2, <1>8 DEF Gives
<1>. QED
  BY <1>1, <1>2, <1>6, <1>7, <1>9 DEF n, c, Routed

(* Calls that lead from one token to another, twice over, still do.        *)
LEMMA ChainedJoined ==
  ASSUME NEW c, NEW d, NEW cd, Len(c) \in Nat, Len(d) \in Nat, Joined(c, d, cd),
         NEW first, NEW last, NEW deadline,
         Chained(c, first, last, Self, deadline), Chained(d, first, last, Self, deadline)
  PROVE  Chained(cd, first, last, Self, deadline)
<1>. DEFINE m == Len(c)
            n == Len(d)
            Good(x, p) ==
              /\ x[p].kind \in SwapKinds
              /\ Injects(x[p]) => WordAt(x[p].kind, x[p].injectOffset) = "amountIn"
              /\ x[p].injectToken \in {NoToken, x[p].tokenIn} \ {first, last}
              /\ x[p].tokenIn \in Tokens \ {last} /\ x[p].tokenOut \in Tokens \ {first}
              /\ x[p].words["deadline"] = deadline /\ x[p].recipient = Self
            Goes(x, p) == p < Len(x) /\ x[p + 1].injectToken = x[p].tokenOut
<1>1. Len(cd) = m + n /\ (\A i \in 1..m : cd[i] = c[i]) /\ (\A i \in 1..n : cd[m + i] = d[i])
  BY DEF Joined
<1>2. m \in Nat /\ n \in Nat
  OBVIOUS
<1>4. ASSUME NEW p \in 1..m PROVE Good(c, p) /\ (c[p].tokenOut # last => Goes(c, p))
  BY Zenon DEF Chained
<1>5. ASSUME NEW p \in 1..n PROVE Good(d, p) /\ (d[p].tokenOut # last => Goes(d, p))
  BY Zenon DEF Chained
<1>6. ASSUME NEW p \in 1..(m + n)
      PROVE  Good(cd, p) /\ (cd[p].tokenOut # last => Goes(cd, p))
  <2>1. CASE p <= m
    <3>1. p \in 1..m
      BY <1>2, <2>1
    <3>2. Good(cd, p)
      BY <1>1, <1>4, <3>1
    <3>3. ASSUME cd[p].tokenOut # last PROVE Goes(cd, p)
      <4>1. Goes(c, p)
        BY <1>1, <1>4, <3>1, <3>3
      <4>2. p + 1 \in 1..m /\ p < m + n
        BY <1>2, <3>1, <4>1
      <4>. QED
        BY <1>1, <3>1, <4>1, <4>2
    <3>. HIDE DEF Good, Goes
    <3>. QED
      BY <3>2, <3>3, Zenon
  <2>2. CASE ~(p <= m)
    <3>. DEFINE i == p - m
    <3>1. i \in 1..n /\ p = m + i
      BY <1>2, <2>2
    <3>2. cd[p] = d[i]
      BY <1>1, <3>1
    <3>3. Good(cd, p)
      <4>. HIDE DEF i
      <4>. QED
        BY <1>5, <3>1, <3>2
    <3>4. ASSUME cd[p].tokenOut # last PROVE Goes(cd, p)
      <4>1. Goes(d, i)
        <5>. HIDE DEF i, Goes, Good
        <5>. QED
          BY <1>5, <3>1, <3>2, <3>4
      <4>2. i + 1 \in 1..n /\ p < m + n /\ p + 1 = m + (i + 1)
        BY <1>2, <3>1, <4>1
      <4>3. cd[p + 1] = d[i + 1]
        BY <1>1, <4>2
      <4>. QED
        BY <1>1, <3>2, <4>1, <4>2, <4>3
    <3>. HIDE DEF Good, Goes, i
    <3>. QED
      BY <3>3, <3>4, Zenon
  <2>. QED
    BY <2>1, <2>2
<1>7. ASSUME NEW p \in 1..Len(cd) PROVE Good(cd, p) /\ (cd[p].tokenOut # last => Goes(cd, p))
  BY <1>1, <1>6, Zenon
<1>. QED
  BY <1>7, Zenon DEF Chained

(* What two lists of calls take and give, they take and give together.     *)
LEMMA GivesJoined ==
  ASSUME NEW c, NEW d, NEW cd, Len(c) \in Nat, Len(d) \in Nat, Joined(c, d, cd),
         NEW first, NEW last, NEW x1 \in Int, NEW x2 \in Int, NEW y1 \in Int, NEW y2 \in Int,
         Gives(c, first, last, x1, y1), Gives(d, first, last, x2, y2)
  PROVE  Gives(cd, first, last, x1 + x2, y1 + y2)
<1>. SUFFICES ASSUME NEW a, \A p \in 1..Len(cd) : cd[p].injectToken # a
              PROVE  AddsTo(cd, a, IF a = first THEN 0 - (x1 + x2) ELSE IF a = last THEN y1 + y2 ELSE 0)
  BY DEF Gives
<1>. DEFINE v == IF a = first THEN 0 - x1 ELSE IF a = last THEN y1 ELSE 0
            w == IF a = first THEN 0 - x2 ELSE IF a = last THEN y2 ELSE 0
<1>1. AddsTo(c, a, v)
  <2>1. ASSUME NEW p \in 1..Len(c) PROVE c[p].injectToken # a
    <3>1. p \in 1..Len(cd) /\ cd[p] = c[p]
      BY DEF Joined
    <3>. QED
      BY <3>1
  <2>. QED
    BY <2>1 DEF Gives
<1>2. AddsTo(d, a, w)
  <2>1. ASSUME NEW p \in 1..Len(d) PROVE d[p].injectToken # a
    <3>1. Len(c) + p \in 1..Len(cd) /\ cd[Len(c) + p] = d[p]
      BY DEF Joined
    <3>. QED
      BY <3>1
  <2>. QED
    BY <2>1 DEF Gives
<1>3. v \in Int /\ w \in Int
  OBVIOUS
<1>4. v + w = IF a = first THEN 0 - (x1 + x2) ELSE IF a = last THEN y1 + y2 ELSE 0
  OBVIOUS
<1>. HIDE DEF v, w
<1>5. AddsTo(cd, a, v + w)
  BY <1>1, <1>2, <1>3, AddsBoth
<1>. QED
  BY <1>4, <1>5

-----------------------------------------------------------------------------
(* Slippage leaves a natural number.                                       *)

(* A share of an amount is at most the amount.                             *)
LEMMA Share ==
  ASSUME NEW x \in Nat, NEW bps \in 0..Builder!Bps
  PROVE  (x * bps) \div Builder!Bps \in 0..x
<1>. USE DEF Builder!Bps
<1>1. x * bps \in Nat
  OBVIOUS
<1>2. x * bps <= x * 10000
  <2>1. x * (10000 - bps) \in Nat
    OBVIOUS
  <2>2. x * (10000 - bps) = x * 10000 - x * bps
    OBVIOUS
  <2>3. x * 10000 \in Int
    OBVIOUS
  <2>. QED
    BY <1>1, <2>1, <2>2, <2>3
<1>3. PICK p \in Nat : p = x * bps
  BY <1>1
<1>4. PICK d \in Int : d = p \div 10000
  OBVIOUS
<1>5. 10000 * d <= p /\ p < 10000 * d + 10000
  BY <1>4
<1>6. p <= x * 10000
  BY <1>2, <1>3
<1>7. d \in 0..x
  BY <1>5, <1>6
<1>. QED
  BY <1>3, <1>4, <1>7

(* A part of an amount is at most all of its basis points.                 *)
LEMMA Quotient ==
  ASSUME NEW x \in Nat \ {0}, NEW y \in Int, y <= x
  PROVE  (y * 10000) \div x \in Int /\ (y * 10000) \div x <= 10000
<1>1. PICK p \in Int : p = y * 10000
  OBVIOUS
<1>2. p <= 10000 * x
  BY <1>1
<1>3. PICK d \in Int : d = p \div x
  OBVIOUS
<1>4. x * d <= p
  BY <1>3
<1>5. d <= 10000
  <2>1. SUFFICES ASSUME d >= 10001 PROVE FALSE
    OBVIOUS
  <2>2. x * (d - 10001) >= 0 /\ x * (d - 10001) = x * d - x * 10001
    BY <2>1
  <2>3. x * d \in Int
    OBVIOUS
  <2>. QED
    BY <1>2, <1>4, <2>2, <2>3
<1>. QED
  BY <1>1, <1>3, <1>5

(* The minimum of a swap is a natural number.                              *)
LEMMA MinimumType ==
  ASSUME NEW r, Quoted(r)
  PROVE  Builder!AmountOutMinimum(r) \in Nat
<1>. DEFINE x == r.quote.amountOut
            b == Builder!ClampSlippage(r.slippageBps)
<1>1. x \in Nat /\ r.amountOutMin \in Nat /\ r.slippageBps \in Int
  BY DEF Quoted, SimpleRoute
<1>2. b \in 0..Builder!Bps
  <2>1. PICK i \in Int : i = r.slippageBps
    BY <1>1
  <2>2. b = IF i < 0 THEN 0 ELSE IF i > 1000 THEN 1000 ELSE i
    BY <2>1 DEF Builder!ClampSlippage
  <2>. HIDE DEF b
  <2>3. b <= 1000 /\ b >= 0 /\ b \in Int
    BY <2>1, <2>2
  <2>. QED
    BY <2>3 DEF Builder!Bps
<1>. HIDE DEF x, b
<1>3. (x * b) \div Builder!Bps \in 0..x
  BY <1>1, <1>2, Share, Zenon
<1>4. PICK y \in 0..x : y = (x * b) \div Builder!Bps
  BY <1>3
<1>5. Builder!ApplySlippage(x, b) = x \/ Builder!ApplySlippage(x, b) = x - y
  BY <1>4 DEF Builder!ApplySlippage
<1>6. Builder!ApplySlippage(x, b) \in Nat
  BY <1>1, <1>4, <1>5
<1>7. Builder!AmountOutMinimum(r)
        = IF r.amountOutMin > 0 THEN r.amountOutMin ELSE Builder!ApplySlippage(x, b)
  BY DEF Builder!AmountOutMinimum, x, b
<1>. QED
  BY <1>1, <1>6, <1>7

(* A leg is never told to insist on less than nothing.                     *)
LEMMA LegMinType ==
  ASSUME NEW r, Quoted(r), NEW leg, SimpleRoute(leg)
  PROVE  Builder!LegMinOut(leg, Builder!LegSlippageBps(r.quote, Builder!AmountOutMinimum(r))) \in Nat
<1>. DEFINE x == r.quote.amountOut
            min == Builder!AmountOutMinimum(r)
            bps == Builder!LegSlippageBps(r.quote, min)
            y == leg.amountOut
<1>1. x \in Nat /\ y \in Nat /\ min \in Nat
  BY MinimumType DEF Quoted, SimpleRoute
<1>2. bps \in 0..Builder!Bps
  <2>1. CASE x > 0
    <3>1. x \in Nat \ {0} /\ x - min \in Int /\ x - min <= x
      BY <1>1, <2>1
    <3>. DEFINE z == x - min
    <3>2. PICK u \in Int : u = (z * 10000) \div x /\ u <= 10000
      <4>. HIDE DEF x, min, z
      <4>. QED
        BY <3>1, Quotient DEF z
    <3>3. bps = IF u < 100 THEN 100 ELSE u
      BY <2>1, <3>2 DEF Builder!LegSlippageBps, Builder!Bps
    <3>. HIDE DEF bps
    <3>4. 0 <= bps /\ bps <= 10000 /\ bps \in Int
      BY <3>2, <3>3
    <3>. QED
      BY <3>4 DEF Builder!Bps
  <2>2. CASE ~(x > 0)
    <3>1. bps = 100
      BY <2>2 DEF Builder!LegSlippageBps
    <3>. HIDE DEF bps
    <3>. QED
      BY <3>1 DEF Builder!Bps
  <2>. QED
    BY <2>1, <2>2
<1>. HIDE DEF bps, y
<1>3. (y * bps) \div Builder!Bps \in 0..y
  BY <1>1, <1>2, Share, Zenon
<1>5. PICK s \in 0..y : s = (y * bps) \div Builder!Bps
  BY <1>3
<1>4. Builder!LegMinOut(leg, bps) = IF y > 0 THEN y - s ELSE 0
  BY <1>5 DEF Builder!LegMinOut, y
<1>. QED
  BY <1>1, <1>5, <1>4 DEF bps

-----------------------------------------------------------------------------
(* Splits.                                                                 *)

(* What its legs give, joined, adds up.                                    *)
LEMMA LegsJoined ==
  ASSUME NEW m \in Nat \ {0}, NEW V, NEW L \in [1..m -> Seq(V)],
         NEW first, NEW last, NEW deadline,
         NEW x \in [1..m -> Int], NEW y \in [1..m -> Int],
         \A k \in 1..m : /\ Chained(L[k], first, last, Self, deadline)
                         /\ Gives(L[k], first, last, x[k], y[k])
  PROVE  LET c == Builder!FlattenSeq(L)
         IN /\ c \in Seq(V) /\ Builder!Total(x) \in Int /\ Builder!Total(y) \in Int
            /\ Chained(c, first, last, Self, deadline)
            /\ Gives(c, first, last, Builder!Total(x), Builder!Total(y))
<1>1. PICK F \in [1..m -> Seq(V)] : JoinsOf(F, L, m) /\ Builder!FlattenSeq(L) = F[m]
  BY FlattenFacts
<1>2. PICK g \in [0..m -> Int] : Sums(g, m, x) /\ Builder!Total(x) = g[m]
  <2>1. m \in Nat
    OBVIOUS
  <2>. QED
    BY <2>1, TotalFacts, Zenon
<1>3. PICK h \in [0..m -> Int] : Sums(h, m, y) /\ Builder!Total(y) = h[m]
  <2>1. m \in Nat
    OBVIOUS
  <2>. QED
    BY <2>1, TotalFacts, Zenon
<1>. DEFINE P(k) == Chained(F[k], first, last, Self, deadline) /\ Gives(F[k], first, last, g[k], h[k])
            S == {k \in 0..(m - 1) : P(k + 1)}
<1>4. P(1)
  <2>1. 1 \in 1..m /\ 0 \in 0..m /\ 1 - 1 = 0
    OBVIOUS
  <2>2. g[1] = g[0] + x[1] /\ h[1] = h[0] + y[1] /\ g[0] = 0 /\ h[0] = 0
    BY <1>2, <1>3, <2>1 DEF Sums
  <2>3. g[1] = x[1] /\ h[1] = y[1]
    BY <2>1, <2>2
  <2>4. F[1] = L[1]
    BY <1>1 DEF JoinsOf
  <2>. QED
    BY <2>1, <2>3, <2>4
<1>5. ASSUME NEW k \in 1..(m - 1), P(k) PROVE P(k + 1)
  <2>. DEFINE i == k + 1
  <2>1. k \in 1..m /\ i \in 2..m /\ i \in 1..m /\ i - 1 = k /\ k \in 0..m
    OBVIOUS
  <2>. HIDE DEF i
  <2>2. PICK p \in Seq(V), t \in Seq(V) : p = F[k] /\ t = L[i]
    BY <1>1, <2>1
  <2>3. Joined(F[k], L[i], F[i])
    <3>1. F[i] = F[k] \o L[i]
      BY <1>1, <2>1 DEF JoinsOf
    <3>2. Joined(p, t, p \o t)
      BY JoinedParts, Zenon
    <3>. QED
      BY <2>2, <3>1, <3>2, Zenon
  <2>4. Len(F[k]) \in Nat /\ Len(L[i]) \in Nat
    <3>1. Len(p) \in Nat /\ Len(t) \in Nat
      BY LenProperties, Zenon
    <3>. QED
      BY <2>2, <3>1
  <2>5. Chained(F[k], first, last, Self, deadline) /\ Chained(L[i], first, last, Self, deadline)
    BY <1>5, <2>1
  <2>6. Chained(F[i], first, last, Self, deadline)
    BY <2>3, <2>4, <2>5, ChainedJoined, Zenon
  <2>7. g[k] \in Int /\ h[k] \in Int /\ x[i] \in Int /\ y[i] \in Int
    BY <1>2, <1>3, <2>1
  <2>8. Gives(F[k], first, last, g[k], h[k]) /\ Gives(L[i], first, last, x[i], y[i])
    BY <1>5, <2>1
  <2>9. Gives(F[i], first, last, g[k] + x[i], h[k] + y[i])
    BY <2>3, <2>4, <2>7, <2>8, GivesJoined, Zenon
  <2>10. g[i] = g[k] + x[i] /\ h[i] = h[k] + y[i]
    BY <1>2, <1>3, <2>1 DEF Sums
  <2>. QED
    BY <2>6, <2>9, <2>10 DEF i
<1>. HIDE DEF P
<1>6. \A k \in 0..(m - 1) : k \in S
  <2>1. 0 \in S /\ m - 1 \in Nat
    BY <1>4
  <2>2. ASSUME NEW k \in 1..(m - 1), k - 1 \in S PROVE k \in S
    <3>1. k - 1 + 1 = k /\ k \in 0..(m - 1)
      OBVIOUS
    <3>2. P(k)
      BY <2>2, <3>1
    <3>. QED
      BY <1>5, <3>1, <3>2
  <2>. HIDE DEF S
  <2>. QED
    BY <2>1, <2>2, Counting
<1>7. P(m)
  <2>1. m - 1 \in 0..(m - 1) /\ m - 1 + 1 = m
    OBVIOUS
  <2>2. P(m - 1 + 1)
    BY <1>6, <2>1
  <2>. QED
    BY <2>1, <2>2
<1>8. F[m] \in Seq(V) /\ g[m] \in Int /\ h[m] \in Int
  BY <1>1, <1>2, <1>3
<1>. QED
  BY <1>1, <1>2, <1>3, <1>7, <1>8 DEF P

(* Natural numbers add up to one.                                          *)
LEMMA TotalOfNats ==
  ASSUME NEW n \in Nat, NEW s \in [1..n -> Nat]
  PROVE  Builder!Total(s) \in Nat
<1>1. s \in [1..n -> Int]
  OBVIOUS
<1>2. PICK g \in [0..n -> Int] : Sums(g, n, s) /\ Builder!Total(s) = g[n]
  BY <1>1, TotalFacts, Zenon
<1>. DEFINE S == {k \in 0..n : g[k] >= 0}
<1>3. \A k \in 0..n : k \in S
  <2>1. 0 \in S
    BY <1>2 DEF Sums
  <2>2. ASSUME NEW k \in 1..n, k - 1 \in S PROVE k \in S
    <3>1. k \in 0..n /\ k - 1 \in 0..n /\ g[k - 1] >= 0 /\ s[k] \in Nat
      BY <2>2
    <3>2. g[k] = g[k - 1] + s[k]
      BY <1>2 DEF Sums
    <3>. QED
      BY <3>1, <3>2
  <2>. HIDE DEF S
  <2>. QED
    BY <2>1, <2>2, Counting
<1>4. n \in 0..n /\ g[n] >= 0
  BY <1>3
<1>. QED
  BY <1>2, <1>4

(* The last leg takes what the others leave, so all take the whole input.  *)
LEMMA LegInputs ==
  ASSUME NEW q, NEW m \in Nat \ {0}, Len(q.splits) = m, q.amountIn \in Int,
         \A k \in 1..m : q.splits[k].amountIn \in Int
  PROVE  LET x == [k \in 1..m |-> Builder!LegAmountIn(q, k)]
         IN  x \in [1..m -> Int] /\ Builder!Total(x) = q.amountIn
<1>. DEFINE n == m - 1
            s == [j \in 1..n |-> q.splits[j].amountIn]
            x == [k \in 1..m |-> Builder!LegAmountIn(q, k)]
<1>1. n \in Nat /\ s \in [1..n -> Int] /\ m = n + 1
  OBVIOUS
<1>2. \A j \in 1..n : s[j] = q.splits[j].amountIn
  OBVIOUS
<1>3. PICK g \in [0..n -> Int] : Sums(g, n, s) /\ Builder!Total(s) = g[n]
  <2>. HIDE DEF n, s
  <2>. QED
    BY <1>1, TotalFacts, Zenon
<1>4. \A k \in 1..m : Builder!LegAmountIn(q, k) = IF k = m THEN q.amountIn - g[n] ELSE q.splits[k].amountIn
  BY <1>3 DEF Builder!LegAmountIn
<1>. HIDE DEF s
<1>5. g[n] \in Int
  BY <1>1, <1>3
<1>6. \A k \in 1..m : x[k] = IF k = m THEN q.amountIn - g[n] ELSE q.splits[k].amountIn
  BY <1>4
<1>7. x \in [1..m -> Int]
  BY <1>4, <1>5
<1>. HIDE DEF x
<1>8. PICK h \in [0..m -> Int] : Sums(h, m, x) /\ Builder!Total(x) = h[m]
  <2>1. m \in Nat
    OBVIOUS
  <2>. QED
    BY <1>7, <2>1, TotalFacts, Zenon
<1>. HIDE DEF n
<1>. DEFINE S == {k \in 0..n : h[k] = g[k]}
<1>9. \A k \in 0..n : k \in S
  <2>1. 0 \in S
    BY <1>1, <1>3, <1>8 DEF Sums
  <2>2. ASSUME NEW k \in 1..n, k - 1 \in S PROVE k \in S
    <3>1. k \in 0..n /\ k \in 1..m /\ k # m /\ h[k - 1] = g[k - 1]
      BY <1>1, <2>2
    <3>2. g[k] = g[k - 1] + s[k] /\ h[k] = h[k - 1] + x[k]
      BY <1>3, <1>8, <3>1 DEF Sums
    <3>3. x[k] = q.splits[k].amountIn
      BY <1>6, <3>1
    <3>4. s[k] = q.splits[k].amountIn
      BY <1>2
    <3>5. h[k] = g[k]
      BY <3>1, <3>2, <3>3, <3>4, Zenon
    <3>. QED
      BY <3>1, <3>5
  <2>. HIDE DEF S
  <2>. QED
    BY <1>1, <2>1, <2>2, Counting
<1>10. h[n] = g[n]
  <2>1. n \in 0..n
    BY <1>1
  <2>. QED
    BY <1>9, <2>1
<1>11. h[m] = h[m - 1] + x[m] /\ m - 1 = n /\ x[m] = q.amountIn - g[n]
  <2>1. m \in 1..m
    OBVIOUS
  <2>. QED
    BY <1>1, <1>6, <1>8, <2>1 DEF Sums
<1>12. h[m] = q.amountIn
  BY <1>5, <1>10, <1>11
<1>. QED
  BY <1>7, <1>8, <1>12 DEF x

-----------------------------------------------------------------------------
(* Transactions: a list of calls from the first token of the quote's path  *)
(* to the last one, between the calls that wrap and unwrap the coin.       *)

DepositCall(r) == Builder!WethCall("deposit", r.quote.amountIn, NoToken, 0)

WithdrawCall == Builder!WethCall("withdraw", 0, WETH, 4)

Wraps(r) == IF r.nativeIn THEN 1 ELSE 0

Unwraps(r) == IF r.nativeOut THEN 1 ELSE 0

First(r) == r.quote.path[1]

Final(r) == r.quote.path[Len(r.quote.path)]

Fields(r, s) ==
  /\ First(r) \in Tokens /\ Final(r) \in Tokens /\ First(r) # Final(r)
  /\ r.nativeIn \in BOOLEAN /\ (r.nativeIn => First(r) = WETH)
  /\ r.nativeOut \in BOOLEAN /\ (r.nativeOut => Final(r) = WETH)
  /\ r.quote.amountIn \in Nat /\ s.amountIn = r.quote.amountIn
  /\ s.recipient \in Users /\ s.floor \in Nat
  /\ s.direct \in BOOLEAN /\ (s.direct => ~r.nativeOut)
  /\ s.assetIn = (IF r.nativeIn THEN ETH ELSE First(r))
  /\ s.assetOut = (IF r.nativeOut THEN ETH ELSE Final(r))
  /\ s.value = (IF r.nativeIn THEN r.quote.amountIn ELSE 0) /\ s.pulls = Builder!Pulls(r)

Enclosed(r, s, c) ==
  /\ Len(c) \in Nat
  /\ \E w : Joined(Builder!Wrap(r), c, w) /\ Joined(w, Builder!Unwrap(r), s.calls)

Swapping(r, s, c) ==
  /\ Fields(r, s) /\ Enclosed(r, s, c)
  /\ Chained(c, First(r), Final(r), IF s.direct THEN s.recipient ELSE Self, s.deadline)
  /\ Gives(c, First(r), Final(r), s.amountIn, IF s.direct THEN 0 ELSE s.floor)
  /\ s.direct =>
       Len(c) > 0 /\ c[Len(c)].tokenOut = Final(r) /\ c[Len(c)].words["amountOutMin"] = s.floor

(* The calls that wrap and unwrap the coin.                                *)
LEMMA WrapFacts ==
  ASSUME NEW r
  PROVE  /\ DepositCall(r).kind = "deposit" /\ ~Injects(DepositCall(r))
         /\ DepositCall(r).value = r.quote.amountIn /\ DepositCall(r).injectToken = NoToken
         /\ WithdrawCall.kind = "withdraw" /\ WithdrawCall.injectToken = WETH
         /\ WordAt("withdraw", WithdrawCall.injectOffset) = "amountIn"
         /\ "deposit" \notin SwapKinds /\ "withdraw" \notin SwapKinds /\ "deposit" # "withdraw"
BY DEF DepositCall, WithdrawCall, Builder!WethCall, Injects, WordAt, Layout, SwapKinds

(* They are there when the coin is asked for.                              *)
LEMMA WrapCalls ==
  ASSUME NEW r, r.nativeIn \in BOOLEAN, r.nativeOut \in BOOLEAN
  PROVE  /\ Len(Builder!Wrap(r)) = Wraps(r) /\ Len(Builder!Unwrap(r)) = Unwraps(r)
         /\ r.nativeIn => Builder!Wrap(r)[1] = DepositCall(r)
         /\ r.nativeOut => Builder!Unwrap(r)[1] = WithdrawCall
         /\ Wraps(r) \in 0..1 /\ Unwraps(r) \in 0..1
         /\ (Wraps(r) = 1 <=> r.nativeIn) /\ (Unwraps(r) = 1 <=> r.nativeOut)
<1>1. CASE r.nativeIn
  BY <1>1 DEF Builder!Wrap, Builder!Unwrap, Wraps, Unwraps, DepositCall, WithdrawCall
<1>2. CASE ~r.nativeIn
  BY <1>2 DEF Builder!Wrap, Builder!Unwrap, Wraps, Unwraps, DepositCall, WithdrawCall
<1>. QED
  BY <1>1, <1>2

(* Where each call is in the transaction.                                  *)
LEMMA CallsAt ==
  ASSUME NEW r, NEW s, NEW c, Fields(r, s), Enclosed(r, s, c)
  PROVE  LET n == Len(c) IN
         /\ Len(s.calls) = Wraps(r) + n + Unwraps(r)
         /\ r.nativeIn => s.calls[1] = DepositCall(r)
         /\ \A p \in 1..n : s.calls[Wraps(r) + p] = c[p]
         /\ r.nativeOut => s.calls[Wraps(r) + n + 1] = WithdrawCall
         /\ \A k \in CallsOf(s) :
              \/ r.nativeIn /\ k = 1
              \/ \E p \in 1..n : k = Wraps(r) + p
              \/ r.nativeOut /\ k = Wraps(r) + n + 1
<1>. DEFINE n == Len(c)
            a == Builder!Wrap(r)
            u == Builder!Unwrap(r)
            all == s.calls
<1>1. PICK w : Joined(a, c, w) /\ Joined(w, u, all)
  BY DEF Enclosed
<1>2. /\ Len(a) = Wraps(r) /\ Len(u) = Unwraps(r)
      /\ r.nativeIn => a[1] = DepositCall(r)
      /\ r.nativeOut => u[1] = WithdrawCall
      /\ Wraps(r) \in 0..1 /\ Unwraps(r) \in 0..1 /\ n \in Nat
      /\ (Wraps(r) = 1 <=> r.nativeIn) /\ (Unwraps(r) = 1 <=> r.nativeOut)
  BY WrapCalls DEF Fields, Enclosed
<1>3. /\ Len(w) = Len(a) + n
      /\ \A i \in 1..Len(a) : w[i] = a[i]
      /\ \A i \in 1..n : w[Len(a) + i] = c[i]
  BY <1>1 DEF Joined
<1>4. /\ Len(all) = Len(w) + Len(u)
      /\ \A i \in 1..Len(w) : all[i] = w[i]
      /\ \A i \in 1..Len(u) : all[Len(w) + i] = u[i]
  BY <1>1 DEF Joined
<1>. HIDE DEF n, a, u, all
<1>5. Len(all) = Wraps(r) + n + Unwraps(r)
  BY <1>2, <1>3, <1>4
<1>6. ASSUME r.nativeIn PROVE all[1] = DepositCall(r)
  <2>1. 1 \in 1..Len(a) /\ 1 \in 1..Len(w)
    BY <1>2, <1>3, <1>6
  <2>. QED
    BY <1>2, <1>3, <1>4, <1>6, <2>1
<1>7. ASSUME NEW p \in 1..n PROVE all[Wraps(r) + p] = c[p]
  <2>1. Wraps(r) + p \in 1..Len(w) /\ Wraps(r) = Len(a)
    BY <1>2, <1>3
  <2>. QED
    BY <1>3, <1>4, <2>1
<1>8. ASSUME r.nativeOut PROVE all[Wraps(r) + n + 1] = WithdrawCall
  <2>1. 1 \in 1..Len(u) /\ Wraps(r) + n + 1 = Len(w) + 1
    BY <1>2, <1>3, <1>8
  <2>. QED
    BY <1>2, <1>4, <1>8, <2>1
<1>9. ASSUME NEW k \in 1..Len(all)
      PROVE  \/ r.nativeIn /\ k = 1
             \/ \E p \in 1..n : k = Wraps(r) + p
             \/ r.nativeOut /\ k = Wraps(r) + n + 1
  <2>1. CASE k <= Wraps(r)
    BY <1>2, <2>1
  <2>2. CASE k > Wraps(r) /\ k <= Wraps(r) + n
    <3>1. k - Wraps(r) \in 1..n /\ k = Wraps(r) + (k - Wraps(r))
      BY <1>2, <2>2
    <3>. QED
      BY <3>1
  <2>3. CASE k > Wraps(r) + n
    BY <1>2, <1>5, <2>3
  <2>. QED
    BY <1>2, <2>1, <2>2, <2>3
<1>. QED
  BY <1>5, <1>6, <1>7, <1>8, <1>9 DEF CallsOf, n, all

(* The input is brought once.                                              *)
LEMMA SwapInput ==
  ASSUME NEW r, NEW s, Fields(r, s)
  PROVE  SoundInput(s)
<1>1. s.assetIn # s.assetOut
  BY AssetsAssumption DEF Fields
<1>2. CASE r.nativeIn
  <2>1. s.assetIn = ETH /\ s.value = s.amountIn /\ s.pulls = << >>
    BY <1>2 DEF Fields, Builder!Pulls
  <2>. QED
    BY <1>1, <2>1 DEF SoundInput
<1>3. CASE ~r.nativeIn
  <2>1. s.assetIn = First(r) /\ s.value = 0 /\ First(r) # ETH
        /\ s.pulls = << [token |-> s.assetIn, amount |-> s.amountIn] >>
    BY <1>3, AssetsAssumption DEF Fields, Builder!Pulls, First
  <2>. QED
    BY <1>1, <2>1 DEF SoundInput
<1>. QED
  BY <1>2, <1>3

(* Each call is sound.                                                     *)
LEMMA SwapSoundCall ==
  ASSUME NEW r, NEW s, NEW c, Swapping(r, s, c), NEW k \in CallsOf(s)
  PROVE  SoundCall(s, k)
<1>. DEFINE n == Len(c)
            x == s.calls[k]
<1>1. /\ Len(s.calls) = Wraps(r) + n + Unwraps(r)
      /\ r.nativeIn => s.calls[1] = DepositCall(r)
      /\ \A p \in 1..n : s.calls[Wraps(r) + p] = c[p]
      /\ r.nativeOut => s.calls[Wraps(r) + n + 1] = WithdrawCall
      /\ \/ r.nativeIn /\ k = 1
         \/ \E p \in 1..n : k = Wraps(r) + p
         \/ r.nativeOut /\ k = Wraps(r) + n + 1
  BY CallsAt DEF Swapping
<1>2. Fields(r, s) /\ n \in Nat
  BY DEF Swapping, Enclosed
<1>3. /\ Wraps(r) \in 0..1 /\ Unwraps(r) \in 0..1
      /\ (Wraps(r) = 1 <=> r.nativeIn) /\ (Unwraps(r) = 1 <=> r.nativeOut)
  BY <1>2, WrapCalls DEF Fields
<1>4. /\ First(r) # Final(r) /\ First(r) # ETH /\ Final(r) # ETH
      /\ First(r) # NoToken /\ Final(r) # NoToken /\ WETH # NoToken /\ ETH # WETH
  BY <1>2, AssetsAssumption DEF Fields
<1>5. CASE r.nativeIn /\ k = 1
  <2>1. x = DepositCall(r)
    BY <1>1, <1>5
  <2>2. x.kind = "deposit" /\ ~Injects(x)
    BY <2>1, WrapFacts
  <2>3. s.assetIn = ETH /\ s.assetOut # WETH
    <3>1. First(r) = WETH
      BY <1>2, <1>5 DEF Fields
    <3>. QED
      BY <1>2, <1>4, <1>5, <3>1 DEF Fields
  <2>. HIDE DEF x
  <2>4. /\ "deposit" \notin SwapKinds /\ "deposit" # "withdraw" /\ "withdraw" \notin SwapKinds
    BY WrapFacts
  <2>. QED
    BY <2>2, <2>3, <2>4 DEF SoundCall, x
<1>6. CASE r.nativeOut /\ k = Wraps(r) + n + 1
  <2>1. x = WithdrawCall
    BY <1>1, <1>6
  <2>2. x.kind = "withdraw" /\ x.injectToken = WETH /\ WordAt(x.kind, x.injectOffset) = "amountIn"
    BY <2>1, WrapFacts
  <2>3. s.assetOut = ETH /\ k = Len(s.calls)
    BY <1>1, <1>2, <1>3, <1>6 DEF Fields
  <2>4. /\ "deposit" \notin SwapKinds /\ "deposit" # "withdraw" /\ "withdraw" \notin SwapKinds
    BY WrapFacts
  <2>. HIDE DEF x
  <2>. QED
    BY <2>2, <2>3, <2>4 DEF SoundCall, x
<1>7. CASE \E p \in 1..n : k = Wraps(r) + p
  <2>1. PICK p \in 1..n : k = Wraps(r) + p
    BY <1>7
  <2>2. x = c[p]
    BY <1>1, <2>1
  <2>. DEFINE to == IF s.direct THEN s.recipient ELSE Self
  <2>3. /\ x.kind \in SwapKinds
        /\ Injects(x) => WordAt(x.kind, x.injectOffset) = "amountIn"
        /\ x.injectToken \in {NoToken, x.tokenIn}
        /\ x.tokenIn \in Tokens \ {Final(r)} /\ x.tokenOut \in Tokens \ {First(r)}
        /\ x.words["deadline"] = s.deadline
        /\ \/ x.tokenOut = Final(r) /\ x.recipient = to /\ (to # Self => p = n)
           \/ x.tokenOut # Final(r) /\ x.recipient = Self /\ p < n
    <3>. HIDE DEF to
    <3>. QED
      BY <2>2 DEF Swapping, Chained, to
  <2>. HIDE DEF x, to
  <2>4. x.tokenIn # s.assetOut /\ x.tokenOut # s.assetIn
    <3>1. x.tokenIn # ETH /\ x.tokenOut # ETH
      BY <2>3, AssetsAssumption
    <3>2. s.assetIn \in {ETH, First(r)} /\ s.assetOut \in {ETH, Final(r)}
      BY <1>2 DEF Fields
    <3>. QED
      BY <2>3, <3>1, <3>2
  <2>5. CASE s.direct
    <3>1. Unwraps(r) = 0 /\ s.assetOut = Final(r) /\ to = s.recipient /\ to # Self
      BY <1>2, <1>3, <2>5, AssetsAssumption DEF Fields, to
    <3>2. k = Len(s.calls) <=> p = n
      BY <1>1, <1>2, <1>3, <2>1, <3>1
    <3>3. IF k = Len(s.calls) THEN x.recipient = s.recipient
          ELSE x.recipient = Self /\ x.tokenOut # s.assetOut
      BY <2>3, <3>1, <3>2
    <3>4. x.kind # "deposit" /\ x.kind # "withdraw"
      BY <2>3, WrapFacts
    <3>. QED
      BY <2>3, <2>4, <2>5, <3>3, <3>4 DEF SoundCall, x
  <2>6. CASE ~s.direct
    <3>1. x.recipient = Self
      BY <2>3, <2>6 DEF to
    <3>4. x.kind # "deposit" /\ x.kind # "withdraw"
      BY <2>3, WrapFacts
    <3>. QED
      BY <2>3, <2>4, <2>6, <3>1, <3>4 DEF SoundCall, x
  <2>. QED
    BY <1>2, <2>5, <2>6 DEF Fields
<1>. QED
  BY <1>1, <1>5, <1>6, <1>7

(* What is planned of an asset that nothing on the way injects: all that   *)
(* is brought is spent, except of the token the swap ends with.            *)
LEMMA SwapPlanned ==
  ASSUME NEW r, NEW s, NEW c, Swapping(r, s, c), NEW a \in Assets,
         \A p \in 1..Len(c) : c[p].injectToken # a
  PROVE  LET total == IF a = Final(r) /\ ~s.direct THEN s.floor ELSE 0
         IN /\ Planned(s, a)[Wraps(r) + Len(c)] = total
            /\ Planned(s, a)[Len(s.calls)] = total
<1>. DEFINE b == Builder!Wrap(r)
            u == Builder!Unwrap(r)
            x == s.amountIn
            y == IF s.direct THEN 0 ELSE s.floor
            start == IF a = s.assetIn THEN x ELSE 0
            in == IF ~r.nativeIn THEN 0 ELSE IF a = WETH THEN x ELSE IF a = ETH THEN 0 - x ELSE 0
            out == IF a = First(r) THEN 0 - x ELSE IF a = Final(r) THEN y ELSE 0
<1>1. Fields(r, s) /\ Len(c) \in Nat
  BY DEF Swapping, Enclosed
<1>2. /\ Len(b) = Wraps(r) /\ Len(u) = Unwraps(r)
      /\ r.nativeIn => b[1] = DepositCall(r)
      /\ r.nativeOut => u[1] = WithdrawCall
      /\ Wraps(r) \in 0..1 /\ Unwraps(r) \in 0..1
      /\ (Wraps(r) = 1 <=> r.nativeIn) /\ (Unwraps(r) = 1 <=> r.nativeOut)
  BY <1>1, WrapCalls DEF Fields
<1>3. PICK w : Joined(b, c, w) /\ Joined(w, u, s.calls)
  BY DEF Swapping, Enclosed
<1>4. x \in Nat /\ y \in Nat /\ start \in Int /\ in \in Int /\ out \in Int /\ x = r.quote.amountIn
  BY <1>1 DEF Fields
<1>5. AddsTo(b, a, in)
  <2>1. ASSUME r.nativeIn PROVE Flow(b[1], a) = in
    <3>1. DepositCall(r).kind = "deposit" /\ "deposit" \notin SwapKinds /\ DepositCall(r).value = x
      BY <1>4, WrapFacts
    <3>2. ETH # WETH
      BY AssetsAssumption
    <3>3. Flow(DepositCall(r), a) = 0 - 0 + (IF a = WETH THEN x ELSE 0) - (IF a = ETH THEN x ELSE 0)
      BY <3>1, Zenon DEF Flow
    <3>. HIDE DEF x
    <3>4. Flow(DepositCall(r), a) = in
      BY <1>4, <2>1, <3>2, <3>3
    <3>. QED
      BY <1>2, <2>1, <3>4
  <2>2. ASSUME ~r.nativeIn PROVE in = 0
    BY <2>2
  <2>3. IF Len(b) = 1 THEN Flow(b[1], a) = in ELSE in = 0
    <3>. HIDE DEF b, in
    <3>. QED
      BY <1>2, <2>1, <2>2
  <2>4. Len(b) \in 0..1
    BY <1>2
  <2>. HIDE DEF b, in
  <2>. QED
    BY <1>4, <2>3, <2>4, AddsOne
<1>6. AddsTo(u, a, 0)
  <2>1. ASSUME r.nativeOut PROVE Flow(u[1], a) = 0
    <3>1. WithdrawCall.kind = "withdraw" /\ "withdraw" \notin SwapKinds /\ "withdraw" # "deposit"
      BY WrapFacts
    <3>2. Flow(WithdrawCall, a) = 0 - 0 + 0 - 0
      BY <3>1, Zenon DEF Flow
    <3>. QED
      BY <1>2, <2>1, <3>2
  <2>2. IF Len(u) = 1 THEN Flow(u[1], a) = 0 ELSE 0 = 0
    <3>. HIDE DEF u
    <3>. QED
      BY <1>2, <2>1
  <2>3. Len(u) \in 0..1
    BY <1>2
  <2>. HIDE DEF u
  <2>. QED
    BY <2>2, <2>3, AddsOne
<1>7. AddsTo(c, a, out)
  BY DEF Swapping, Gives
<1>8. Len(b) \in Nat /\ Len(u) \in Nat /\ Len(w) = Wraps(r) + Len(c) /\ Len(w) \in Nat
  BY <1>1, <1>2, <1>3 DEF Joined
<1>. HIDE DEF b, u, x, y, start, in, out
<1>9. AddsTo(w, a, in + out)
  BY <1>1, <1>3, <1>4, <1>5, <1>7, <1>8, AddsBoth
<1>. DEFINE z == in + out
<1>10. AddsUpTo(s.calls, a, Len(w), z, z + 0)
  <2>1. z \in Int /\ 0 \in Int
    BY <1>4
  <2>2. AddsTo(w, a, z)
    BY <1>9
  <2>. HIDE DEF z
  <2>. QED
    BY <1>3, <1>6, <1>8, <2>1, <2>2, AddsJoined
<1>11. Len(s.calls) \in Nat /\ Len(w) \in 0..Len(s.calls)
  <2>1. Len(s.calls) = Len(w) + Len(u)
    BY <1>3 DEF Joined
  <2>. QED
    BY <1>8, <2>1
<1>12. z \in Int /\ z + 0 = z /\ s.amountIn \in Int
  BY <1>4 DEF x
<1>13. Planned(s, a)[Len(w)] = start + z /\ Planned(s, a)[Len(s.calls)] = start + z
  <2>1. AddsUpTo(s.calls, a, Len(w), z, z)
    BY <1>10, <1>12
  <2>. HIDE DEF z
  <2>. QED
    BY <1>11, <1>12, <2>1, PlannedAdds DEF start, x
<1>14. start + z = IF a = Final(r) /\ ~s.direct THEN s.floor ELSE 0
  <2>1. /\ First(r) # Final(r) /\ First(r) # ETH /\ Final(r) # ETH /\ ETH # WETH
        /\ r.nativeIn => First(r) = WETH
    BY <1>1, AssetsAssumption DEF Fields
  <2>2. start + z = IF a = Final(r) THEN y ELSE 0
    <3>1. CASE r.nativeIn
      <4>1. s.assetIn = ETH /\ First(r) = WETH
        BY <1>1, <3>1 DEF Fields
      <4>. QED
        BY <1>4, <2>1, <3>1, <4>1 DEF start, in, out
    <3>2. CASE ~r.nativeIn
      <4>1. s.assetIn = First(r)
        BY <1>1, <3>2 DEF Fields
      <4>. QED
        BY <1>4, <2>1, <3>2, <4>1 DEF start, in, out
    <3>. QED
      BY <3>1, <3>2
  <2>. QED
    BY <2>2 DEF y
<1>. QED
  BY <1>8, <1>13, <1>14

(* The minima add up to the floor.                                         *)
LEMMA SwapOutput ==
  ASSUME NEW r, NEW s, NEW c, Swapping(r, s, c)
  PROVE  SoundOutput(s)
<1>. DEFINE n == Len(c)
            m == Len(s.calls)
<1>1. /\ m = Wraps(r) + n + Unwraps(r)
      /\ r.nativeIn => s.calls[1] = DepositCall(r)
      /\ \A p \in 1..n : s.calls[Wraps(r) + p] = c[p]
      /\ r.nativeOut => s.calls[Wraps(r) + n + 1] = WithdrawCall
      /\ \A k \in CallsOf(s) :
           \/ r.nativeIn /\ k = 1
           \/ \E p \in 1..n : k = Wraps(r) + p
           \/ r.nativeOut /\ k = Wraps(r) + n + 1
  BY CallsAt DEF Swapping
<1>2. Fields(r, s) /\ n \in Nat
  BY DEF Swapping, Enclosed
<1>3. /\ Wraps(r) \in 0..1 /\ Unwraps(r) \in 0..1
      /\ (Wraps(r) = 1 <=> r.nativeIn) /\ (Unwraps(r) = 1 <=> r.nativeOut)
  BY <1>2, WrapCalls DEF Fields
<1>4. \A p \in 1..n : c[p].injectToken # Final(r) /\ c[p].kind \in SwapKinds
  BY DEF Swapping, Chained
<1>5. Final(r) \in Assets /\ Final(r) # ETH /\ Final(r) # NoToken
  BY <1>2, AssetsAssumption DEF Fields, Assets
<1>6. CASE s.direct
  <2>1. Unwraps(r) = 0 /\ s.assetOut = Final(r) /\ n > 0 /\ c[n].tokenOut = Final(r)
        /\ c[n].words["amountOutMin"] = s.floor
    BY <1>2, <1>3, <1>6 DEF Fields, Swapping
  <2>2. n \in 1..n /\ m = Wraps(r) + n /\ m > 0
    BY <1>1, <1>2, <1>3, <2>1
  <2>3. s.calls[m] = c[n] /\ c[n].kind \in SwapKinds
    BY <1>1, <1>4, <2>2
  <2>4. s.calls[m].words["amountOutMin"] >= s.floor
    <3>1. s.floor \in Nat
      BY <1>2 DEF Fields
    <3>. QED
      BY <2>1, <2>3, <3>1
  <2>. QED
    BY <1>6, <2>1, <2>2, <2>3, <2>4 DEF SoundOutput, Pays
<1>7. CASE ~s.direct /\ ~r.nativeOut
  <2>1. s.assetOut = Final(r) /\ s.floor \in Nat
    BY <1>2, <1>7 DEF Fields
  <2>2. Planned(s, s.assetOut)[m] = s.floor
    BY <1>4, <1>5, <1>7, <2>1, SwapPlanned
  <2>3. Planned(s, s.assetOut)[m] >= s.floor
    BY <2>1, <2>2
  <2>. QED
    BY <1>5, <1>7, <2>1, <2>3 DEF SoundOutput
<1>8. CASE ~s.direct /\ r.nativeOut
  <2>1. s.assetOut = ETH /\ Final(r) = WETH /\ s.floor \in Nat
    BY <1>2, <1>8 DEF Fields
  <2>2. m = Wraps(r) + n + 1 /\ m > 0 /\ m - 1 = Wraps(r) + n
    BY <1>1, <1>2, <1>3, <1>8
  <2>3. s.calls[m].kind = "withdraw"
    BY <1>1, <1>8, <2>2, WrapFacts
  <2>4. Planned(s, WETH)[m - 1] = s.floor
    BY <1>4, <1>5, <1>8, <2>1, <2>2, SwapPlanned
  <2>5. Planned(s, WETH)[m - 1] >= s.floor
    BY <2>1, <2>4
  <2>6. ASSUME NEW k \in 1..(m - 1) PROVE s.calls[k].injectToken # WETH
    <3>1. k \in CallsOf(s) /\ k # Wraps(r) + n + 1
      BY <1>2, <1>3, <2>2 DEF CallsOf
    <3>2. CASE r.nativeIn /\ k = 1
      <4>1. s.calls[k].injectToken = NoToken
        BY <1>1, <3>2, WrapFacts
      <4>. QED
        BY <1>5, <2>1, <4>1
    <3>3. CASE \E p \in 1..n : k = Wraps(r) + p
      BY <1>1, <1>4, <2>1, <3>3
    <3>. QED
      BY <1>1, <3>1, <3>2, <3>3
  <2>. QED
    BY <1>8, <2>1, <2>2, <2>3, <2>5, <2>6 DEF SoundOutput
<1>. QED
  BY <1>2, <1>6, <1>7, <1>8 DEF Fields

(* A token on the way is spent.                                            *)
LEMMA SwapMiddle ==
  ASSUME NEW r, NEW s, NEW c, Swapping(r, s, c), NEW t \in Tokens \ {s.assetIn, s.assetOut}
  PROVE  SoundMiddle(s, t)
<1>. DEFINE n == Len(c)
            m == Len(s.calls)
<1>1. /\ m = Wraps(r) + n + Unwraps(r)
      /\ r.nativeIn => s.calls[1] = DepositCall(r)
      /\ \A p \in 1..n : s.calls[Wraps(r) + p] = c[p]
      /\ r.nativeOut => s.calls[Wraps(r) + n + 1] = WithdrawCall
      /\ \A k \in CallsOf(s) :
           \/ r.nativeIn /\ k = 1
           \/ \E p \in 1..n : k = Wraps(r) + p
           \/ r.nativeOut /\ k = Wraps(r) + n + 1
  BY CallsAt DEF Swapping
<1>2. Fields(r, s) /\ n \in Nat
  BY DEF Swapping, Enclosed
<1>3. /\ Wraps(r) \in 0..1 /\ Unwraps(r) \in 0..1
      /\ (Wraps(r) = 1 <=> r.nativeIn) /\ (Unwraps(r) = 1 <=> r.nativeOut)
  BY <1>2, WrapCalls DEF Fields
<1>4. ASSUME NEW p \in 1..n
      PROVE  /\ c[p].kind \in SwapKinds /\ c[p].injectToken \notin {First(r), Final(r)}
             /\ c[p].tokenOut # First(r)
             /\ c[p].tokenOut = Final(r) \/ (p < n /\ c[p + 1].injectToken = c[p].tokenOut)
  BY DEF Swapping, Chained
<1>5. CASE r.nativeIn /\ t = WETH
  <2>1. First(r) = t /\ Final(r) # t /\ ~r.nativeOut /\ t # NoToken /\ t \in Assets
    BY <1>2, <1>5, AssetsAssumption DEF Fields, Assets
  <2>2. ASSUME NEW k \in CallsOf(s) PROVE s.calls[k].injectToken # t /\ ~Pays(s.calls[k], t)
    <3>1. CASE k = 1
      BY <1>1, <1>5, <2>1, <3>1, WrapFacts DEF Pays
    <3>2. CASE \E p \in 1..n : k = Wraps(r) + p
      <4>1. PICK p \in 1..n : k = Wraps(r) + p
        BY <3>2
      <4>2. s.calls[k] = c[p]
        BY <1>1, <4>1
      <4>. QED
        BY <1>4, <2>1, <4>2 DEF Pays
    <3>. QED
      BY <1>1, <2>1, <3>1, <3>2
  <2>3. Planned(s, t)[m] = 0
    <3>1. \A p \in 1..n : c[p].injectToken # t
      BY <1>4, <2>1
    <3>. QED
      BY <2>1, <3>1, SwapPlanned
  <2>4. Planned(s, t)[m] <= 0
    BY <2>3
  <2>. QED
    BY <2>2, <2>4 DEF SoundMiddle, UsedUp, Untouched
<1>6. CASE ~(r.nativeIn /\ t = WETH)
  <2>1. ASSUME NEW k \in CallsOf(s), Brings(s.calls[k], t)
        PROVE  \E j \in CallsOf(s) : j > k /\ s.calls[j].injectToken = t
    <3>1. CASE r.nativeIn /\ k = 1
      <4>1. s.calls[k].kind = "deposit" /\ "deposit" \notin SwapKinds
        BY <1>1, <3>1, WrapFacts
      <4>. QED
        BY <1>6, <2>1, <3>1, <4>1 DEF Brings, Pays
    <3>2. CASE r.nativeOut /\ k = Wraps(r) + n + 1
      <4>1. s.calls[k].kind = "withdraw" /\ "withdraw" \notin SwapKinds /\ "withdraw" # "deposit"
        BY <1>1, <3>2, WrapFacts
      <4>. QED
        BY <2>1, <4>1 DEF Brings, Pays
    <3>3. CASE \E p \in 1..n : k = Wraps(r) + p
      <4>1. PICK p \in 1..n : k = Wraps(r) + p
        BY <3>3
      <4>2. s.calls[k] = c[p]
        BY <1>1, <4>1
      <4>3. c[p].tokenOut = t
        <5>1. "deposit" \notin SwapKinds
          BY WrapFacts
        <5>. QED
          BY <1>4, <2>1, <4>2, <5>1 DEF Brings, Pays
      <4>4. CASE t = Final(r)
        <5>1. r.nativeOut /\ t = WETH
          BY <1>2, <4>4 DEF Fields
        <5>. DEFINE j == Wraps(r) + n + 1
        <5>2. j \in 1..m /\ j > k
          BY <1>1, <1>2, <1>3, <4>1, <5>1
        <5>3. s.calls[j].injectToken = t
          BY <1>1, <5>1, WrapFacts
        <5>. HIDE DEF j
        <5>. QED
          BY <5>2, <5>3 DEF CallsOf
      <4>5. CASE t # Final(r)
        <5>. DEFINE j == Wraps(r) + (p + 1)
        <5>1. p + 1 \in 1..n /\ c[p + 1].injectToken = t
          BY <1>2, <1>4, <4>3, <4>5
        <5>2. j \in 1..m /\ j > k
          BY <1>1, <1>2, <1>3, <4>1, <5>1
        <5>3. s.calls[j].injectToken = t
          BY <1>1, <5>1
        <5>. HIDE DEF j
        <5>. QED
          BY <5>2, <5>3 DEF CallsOf
      <4>. QED
        BY <4>4, <4>5
    <3>. QED
      BY <1>1, <3>1, <3>2, <3>3
  <2>. QED
    BY <2>1 DEF SoundMiddle
<1>. QED
  BY <1>5, <1>6

(* Fixed amounts are covered.                                              *)
LEMMA SwapCovered ==
  ASSUME NEW r, NEW s, NEW c, Swapping(r, s, c), NEW a \in Assets, Untouched(s, a)
  PROVE  Planned(s, a)[Len(s.calls)] >= 0
<1>1. \A p \in 1..Len(c) : c[p].injectToken # a
  <2>1. ASSUME NEW p \in 1..Len(c) PROVE c[p].injectToken # a
    <3>1. /\ s.calls[Wraps(r) + p] = c[p]
          /\ Len(s.calls) = Wraps(r) + Len(c) + Unwraps(r) /\ Len(c) \in Nat
      BY CallsAt DEF Swapping, Enclosed
    <3>2. Wraps(r) \in 0..1 /\ Unwraps(r) \in 0..1
      BY WrapCalls DEF Swapping, Fields
    <3>3. Wraps(r) + p \in CallsOf(s)
      BY <3>1, <3>2 DEF CallsOf
    <3>. QED
      BY <3>1, <3>3 DEF Untouched
  <2>. QED
    BY <2>1
<1>2. Planned(s, a)[Len(s.calls)] = IF a = Final(r) /\ ~s.direct THEN s.floor ELSE 0
  BY <1>1, SwapPlanned
<1>3. s.floor \in Nat
  BY DEF Swapping, Fields
<1>. QED
  BY <1>2, <1>3

(* Together: calls that exchange the input for the floor are a sound plan. *)
LEMMA SwappingIsSound ==
  ASSUME NEW r, NEW s, NEW c, Swapping(r, s, c)
  PROVE  SoundPlan(s)
<1>1. SoundInput(s)
  BY SwapInput DEF Swapping
<1>2. \A k \in CallsOf(s) : SoundCall(s, k)
  BY SwapSoundCall
<1>3. SoundOutput(s)
  BY SwapOutput
<1>4. \A t \in Tokens \ {s.assetIn, s.assetOut} : SoundMiddle(s, t)
  BY SwapMiddle
<1>5. \A a \in Assets : Untouched(s, a) => Planned(s, a)[Len(s.calls)] >= 0
  BY SwapCovered
<1>. QED
  BY <1>1, <1>2, <1>3, <1>4, <1>5 DEF SoundPlan

-----------------------------------------------------------------------------
(* What the builders make.                                                 *)

(* The calls between wrapping and unwrapping.                              *)
LEMMA Wrapping ==
  ASSUME NEW r, r.nativeIn \in BOOLEAN, r.nativeOut \in BOOLEAN, NEW V, NEW c \in Seq(V),
         NEW s, s.calls = Builder!Wrap(r) \o c \o Builder!Unwrap(r)
  PROVE  Enclosed(r, s, c)
<1>. DEFINE W == V \cup {DepositCall(r), WithdrawCall}
            b == Builder!Wrap(r)
            u == Builder!Unwrap(r)
<1>1. c \in Seq(W)
  <2>1. V \subseteq W
    OBVIOUS
  <2>. HIDE DEF W
  <2>. QED
    BY <2>1
<1>2. b \in Seq(W)
  <2>1. b = << DepositCall(r) >> \/ b = << >>
    BY DEF Builder!Wrap, DepositCall
  <2>2. DepositCall(r) \in W
    OBVIOUS
  <2>. HIDE DEF b, W
  <2>3. PICK d \in W : d = DepositCall(r)
    BY <2>2
  <2>4. << d >> \in Seq(W) /\ << >> \in Seq(W)
    OBVIOUS
  <2>. QED
    BY <2>1, <2>3, <2>4
<1>3. u \in Seq(W)
  <2>1. u = << WithdrawCall >> \/ u = << >>
    BY DEF Builder!Unwrap, WithdrawCall
  <2>2. WithdrawCall \in W
    OBVIOUS
  <2>. HIDE DEF u, W
  <2>3. PICK d \in W : d = WithdrawCall
    BY <2>2
  <2>4. << d >> \in Seq(W) /\ << >> \in Seq(W)
    OBVIOUS
  <2>. QED
    BY <2>1, <2>3, <2>4
<1>. HIDE DEF W, b, u
<1>4. b \o c \in Seq(W) /\ Joined(b, c, b \o c)
  BY <1>1, <1>2, JoinedParts, Zenon
<1>5. Joined(b \o c, u, b \o c \o u)
  BY <1>3, <1>4, JoinedParts, Zenon
<1>6. Len(c) \in Nat
  OBVIOUS
<1>. QED
  BY <1>4, <1>5, <1>6 DEF b, u, Enclosed

(* The fields of a transaction, and its calls between wraps.               *)
LEMMA TransactionParts ==
  ASSUME NEW r, Quoted(r), NEW direct \in BOOLEAN, direct => ~r.nativeOut, NEW floor \in Nat,
         NEW V, NEW c \in Seq(V), NEW approvals, NEW flush
  PROVE  LET s == Builder!Transaction(r, direct, floor, approvals, c, flush)
         IN /\ Fields(r, s) /\ Enclosed(r, s, c)
            /\ s.direct = direct /\ s.recipient = r.recipient /\ s.floor = floor
            /\ s.amountIn = r.quote.amountIn /\ s.deadline = r.deadline
            /\ s.approvals = approvals
<1>. DEFINE s == Builder!Transaction(r, direct, floor, approvals, c, flush)
            q == r.quote
<1>1. /\ s.direct = direct /\ s.recipient = r.recipient /\ s.floor = floor
      /\ s.assetIn = (IF r.nativeIn THEN ETH ELSE First(r))
      /\ s.assetOut = (IF r.nativeOut THEN ETH ELSE Final(r))
      /\ s.amountIn = q.amountIn /\ s.value = (IF r.nativeIn THEN q.amountIn ELSE 0)
      /\ s.deadline = r.deadline /\ s.pulls = Builder!Pulls(r) /\ s.approvals = approvals
      /\ s.calls = Builder!Wrap(r) \o c \o Builder!Unwrap(r)
  BY DEF Builder!Transaction, Builder!Last, First, Final
<1>. HIDE DEF s
<1>2. /\ SimpleRoute(q) /\ r.recipient \in Users
      /\ r.nativeIn \in BOOLEAN /\ (r.nativeIn => First(r) = WETH)
      /\ r.nativeOut \in BOOLEAN /\ (r.nativeOut => Final(r) = WETH)
  BY DEF Quoted, First, Final
<1>3. First(r) \in Tokens /\ Final(r) \in Tokens /\ First(r) # Final(r) /\ q.amountIn \in Nat
  <2>. DEFINE n == Len(q.hops)
  <2>1. /\ n \in Nat /\ n >= 1 /\ Len(q.path) = n + 1
        /\ \A i \in 1..(n + 1) : q.path[i] \in Tokens /\ q.path[i] # NoToken
        /\ \A i, j \in 1..(n + 1) : i # j => q.path[i] # q.path[j]
    BY <1>2, RouteShape
  <2>2. 1 \in 1..(n + 1) /\ n + 1 \in 1..(n + 1) /\ 1 # n + 1
    BY <2>1
  <2>3. q.amountIn \in Nat
    BY <1>2 DEF SimpleRoute
  <2>. HIDE DEF n
  <2>. QED
    BY <2>1, <2>2, <2>3 DEF First, Final
<1>4. Fields(r, s)
  BY <1>1, <1>2, <1>3 DEF Fields
<1>5. Enclosed(r, s, c)
  <2>1. s.calls = Builder!Wrap(r) \o c \o Builder!Unwrap(r)
    BY <1>1
  <2>. QED
    BY <1>2, <2>1, Wrapping
<1>. QED
  BY <1>1, <1>4, <1>5 DEF s

(* A transaction around calls that exchange the input for the floor.       *)
LEMMA TransactionIsSound ==
  ASSUME NEW r, Quoted(r), NEW direct \in BOOLEAN, direct => ~r.nativeOut, NEW floor \in Nat,
         NEW V, NEW c \in Seq(V), NEW approvals, NEW flush,
         Chained(c, First(r), Final(r), IF direct THEN r.recipient ELSE Self, r.deadline),
         Gives(c, First(r), Final(r), r.quote.amountIn, IF direct THEN 0 ELSE floor),
         direct => Len(c) > 0 /\ c[Len(c)].tokenOut = Final(r) /\ c[Len(c)].words["amountOutMin"] = floor
  PROVE  SoundPlan(Builder!Transaction(r, direct, floor, approvals, c, flush))
<1>1. PICK s : s = Builder!Transaction(r, direct, floor, approvals, c, flush)
  OBVIOUS
<1>2. /\ Fields(r, s) /\ Enclosed(r, s, c)
      /\ s.direct = direct /\ s.recipient = r.recipient /\ s.floor = floor
      /\ s.amountIn = r.quote.amountIn /\ s.deadline = r.deadline
  BY <1>1, TransactionParts
<1>3. Swapping(r, s, c)
  BY <1>2 DEF Swapping
<1>. QED
  BY <1>1, <1>3, SwappingIsSound

(* The calls of a route are a sequence.                                    *)
IsSeq(c) == c \in Seq({c[i] : i \in DOMAIN c})

LEMMA RouteIsSeq ==
  ASSUME NEW q, SimpleRoute(q), NEW amounts, NEW min, NEW to, NEW deadline
  PROVE  IsSeq(Builder!RouteCalls(q, amounts, min, to, deadline))
<1>. DEFINE c == Builder!RouteCalls(q, amounts, min, to, deadline)
            V == {c[i] : i \in DOMAIN c}
            n == Len(q.hops)
<1>1. n \in Nat
  BY RouteShape
<1>2. c = [i \in 1..n |-> c[i]]
  BY DEF Builder!RouteCalls
<1>. HIDE DEF c
<1>3. DOMAIN c = 1..n
  BY <1>2
<1>4. \A i \in 1..n : c[i] \in V
  BY <1>3
<1>. HIDE DEF n, V
<1>5. c \in [1..n -> V]
  BY <1>2, <1>4
<1>6. c \in Seq(V)
  BY <1>1, <1>5
<1>. QED
  BY <1>6 DEF c, V, IsSeq

(* The calls of a single route.                                            *)
SingleTo(r) == IF r.nativeOut THEN Self ELSE r.recipient

SingleAmounts(r) == Builder!HopAmounts(r.quote, r.quote.amountIn, TRUE)

SingleCalls(r) ==
  Builder!RouteCalls(r.quote, SingleAmounts(r), Builder!AmountOutMinimum(r), SingleTo(r), r.deadline)

(* They exchange the input, for at least the minimum.                      *)
LEMMA SingleParts ==
  ASSUME NEW r, Quoted(r), ~Builder!IsSplit(r.quote), Builder!CanBuild(r)
  PROVE  LET c   == SingleCalls(r)
             min == Builder!AmountOutMinimum(r)
             to  == SingleTo(r)
         IN /\ min \in Nat /\ IsSeq(c) /\ Len(c) > 0
            /\ Chained(c, First(r), Final(r), to, r.deadline)
            /\ Gives(c, First(r), Final(r), r.quote.amountIn, IF to = Self THEN min ELSE 0)
            /\ c[Len(c)].tokenOut = Final(r) /\ c[Len(c)].words["amountOutMin"] = min
            /\ to = (IF ~r.nativeOut THEN r.recipient ELSE Self) /\ (to = Self <=> r.nativeOut)
            /\ SimpleRoute(r.quote) /\ r.nativeOut \in BOOLEAN
<1>. DEFINE q == r.quote
            min == Builder!AmountOutMinimum(r)
            to == SingleTo(r)
            c == SingleCalls(r)
<1>1. /\ SimpleRoute(q) /\ q.amountIn \in Int /\ r.recipient \in Users
      /\ q.hops[1].amountIn = q.amountIn /\ r.nativeOut \in BOOLEAN
  BY DEF Quoted, SimpleRoute, Builder!IsSplit
<1>2. \A i \in 1..Len(q.hops) : q.hops[i].amountIn > 0
  BY DEF Builder!CanBuild, Builder!RoutePlanned
<1>3. min \in Nat /\ min \in Int
  BY MinimumType
<1>4. IsSeq(c)
  BY <1>1, RouteIsSeq DEF SingleCalls
<1>5. Routed(q, c, q.amountIn, min, to, r.deadline)
  <2>1. TRUE \in BOOLEAN /\ (TRUE => q.hops[1].amountIn = q.amountIn)
    BY <1>1
  <2>. HIDE DEF min, to, q
  <2>2. Routed(q, Builder!RouteCalls(q, Builder!HopAmounts(q, q.amountIn, TRUE), min, to, r.deadline),
               q.amountIn, min, to, r.deadline)
    BY <1>1, <1>2, <1>3, <2>1, RouteChained
  <2>. QED
    BY <2>2 DEF SingleCalls, SingleAmounts, q, min, to
<1>6. Len(q.hops) \in Nat /\ Len(q.hops) >= 1
  BY <1>1, RouteShape
<1>7. to = (IF ~r.nativeOut THEN r.recipient ELSE Self) /\ (to = Self <=> r.nativeOut)
  BY <1>1, AssetsAssumption DEF SingleTo
<1>. HIDE DEF c, min, to
<1>8. Len(c) > 0
  BY <1>5, <1>6 DEF Routed
<1>. QED
  BY <1>1, <1>3, <1>4, <1>5, <1>7, <1>8 DEF Routed, First, Final, c, min, to

(* A single route is a sound plan.                                         *)
LEMMA SinglesAreSound ==
  ASSUME NEW r, Quoted(r), ~Builder!IsSplit(r.quote), Builder!CanBuild(r)
  PROVE  SoundPlan(Builder!Build(r))
<1>. DEFINE min == Builder!AmountOutMinimum(r)
            to == SingleTo(r)
            c == SingleCalls(r)
            direct == ~r.nativeOut
<1>1. PICK approvals, flush :
        Builder!Build(r) = Builder!Transaction(r, direct, min, approvals, c, flush)
  BY DEF Builder!Build, Builder!BuildSingle, SingleCalls, SingleAmounts, SingleTo
<1>2. /\ min \in Nat /\ IsSeq(c) /\ Len(c) > 0
      /\ Chained(c, First(r), Final(r), to, r.deadline)
      /\ Gives(c, First(r), Final(r), r.quote.amountIn, IF to = Self THEN min ELSE 0)
      /\ c[Len(c)].tokenOut = Final(r) /\ c[Len(c)].words["amountOutMin"] = min
      /\ to = (IF ~r.nativeOut THEN r.recipient ELSE Self) /\ (to = Self <=> r.nativeOut)
      /\ r.nativeOut \in BOOLEAN
  BY SingleParts
<1>3. PICK V : c \in Seq(V)
  BY <1>2 DEF IsSeq
<1>4. /\ direct \in BOOLEAN /\ (direct => ~r.nativeOut) /\ to = (IF direct THEN r.recipient ELSE Self)
      /\ (IF to = Self THEN min ELSE 0) = (IF direct THEN 0 ELSE min)
  BY <1>2
<1>. HIDE DEF min, to, c, direct
<1>5. Gives(c, First(r), Final(r), r.quote.amountIn, IF direct THEN 0 ELSE min)
      /\ Chained(c, First(r), Final(r), IF direct THEN r.recipient ELSE Self, r.deadline)
  BY <1>2, <1>4
<1>. QED
  BY <1>1, <1>2, <1>3, <1>4, <1>5, TransactionIsSound

(* One leg of a split: it takes its share of the input and brings at least *)
(* its own minimum.                                                        *)
LEMMA LegFacts ==
  ASSUME NEW r, Quoted(r), Builder!IsSplit(r.quote), Builder!CanBuild(r),
         NEW k \in 1..Len(r.quote.splits), Builder!LegAmountIn(r.quote, k) \in Int
  PROVE  LET q   == r.quote
             leg == q.splits[k]
             x   == Builder!LegAmountIn(q, k)
             min == Builder!LegMinOut(leg, Builder!LegSlippageBps(q, Builder!AmountOutMinimum(r)))
             c   == Builder!RouteCalls(leg, Builder!HopAmounts(leg, x, FALSE), min, Self, r.deadline)
         IN /\ min \in Nat /\ IsSeq(c)
            /\ Chained(c, First(r), Final(r), Self, r.deadline)
            /\ Gives(c, First(r), Final(r), x, min)
<1>. DEFINE q   == r.quote
            leg == q.splits[k]
            x   == Builder!LegAmountIn(q, k)
            min == Builder!LegMinOut(leg, Builder!LegSlippageBps(q, Builder!AmountOutMinimum(r)))
            c   == Builder!RouteCalls(leg, Builder!HopAmounts(leg, x, FALSE), min, Self, r.deadline)
<1>1. /\ SimpleRoute(leg) /\ leg.path[1] = First(r) /\ leg.path[Len(leg.path)] = Final(r)
      /\ k \in DOMAIN q.splits
  BY DEF Quoted, First, Final
<1>2. \A i \in 1..Len(leg.hops) : leg.hops[i].amountIn > 0
  <2>1. \A i \in DOMAIN leg.hops : leg.hops[i].amountIn > 0
    BY <1>1 DEF Builder!CanBuild
  <2>2. DOMAIN leg.hops = 1..Len(leg.hops)
    BY <1>1 DEF SimpleRoute
  <2>. QED
    BY <2>1, <2>2
<1>3. min \in Nat
  BY <1>1, LegMinType
<1>. HIDE DEF q, leg, x, min
<1>4. IsSeq(c)
  BY <1>1, RouteIsSeq
<1>5. Routed(leg, c, x, min, Self, r.deadline)
  <2>1. FALSE \in BOOLEAN /\ (FALSE => leg.hops[1].amountIn = x) /\ x \in Int /\ min \in Int
    BY <1>3 DEF x, q
  <2>. QED
    BY <1>1, <1>2, <2>1, RouteChained
<1>. HIDE DEF c
<1>6. /\ Chained(c, First(r), Final(r), Self, r.deadline)
      /\ Gives(c, First(r), Final(r), x, min)
  BY <1>1, <1>5 DEF Routed
<1>. QED
  BY <1>3, <1>4, <1>6 DEF c, min, x, leg, q

(* The legs of a split: what each takes and insists on, its approvals and  *)
(* its calls.                                                              *)
Legs(r) == 1..Len(r.quote.splits)

LegInput(r) == [k \in Legs(r) |-> Builder!LegAmountIn(r.quote, k)]

LegMinimum(r) ==
  LET bps == Builder!LegSlippageBps(r.quote, Builder!AmountOutMinimum(r))
  IN  [k \in Legs(r) |-> Builder!LegMinOut(r.quote.splits[k], bps)]

LegAmounts(r) == [k \in Legs(r) |-> Builder!HopAmounts(r.quote.splits[k], LegInput(r)[k], FALSE)]

LegCalls(r) ==
  [k \in Legs(r) |->
     Builder!RouteCalls(r.quote.splits[k], LegAmounts(r)[k], LegMinimum(r)[k], Self, r.deadline)]

LegApprovals(r) ==
  [k \in Legs(r) |-> Builder!RouteApprovals(r.quote.splits[k], LegAmounts(r)[k])]

(* A split is built of its legs, one after the other.                      *)
LEMMA BuiltSplit ==
  ASSUME NEW r, Builder!IsSplit(r.quote)
  PROVE  \E flush :
           Builder!Build(r) =
             Builder!Transaction(r, FALSE, Builder!Total(LegMinimum(r)),
               Builder!MergeApprovals(Builder!FlattenSeq(LegApprovals(r))),
               Builder!FlattenSeq(LegCalls(r)), flush)
<1>. DEFINE q       == r.quote
            legs    == 1..Len(q.splits)
            bps     == Builder!LegSlippageBps(q, Builder!AmountOutMinimum(r))
            amounts == [k \in legs |-> Builder!HopAmounts(q.splits[k], Builder!LegAmountIn(q, k), FALSE)]
            min     == [k \in legs |-> Builder!LegMinOut(q.splits[k], bps)]
            calls   == [k \in legs |->
                          Builder!RouteCalls(q.splits[k], amounts[k], min[k], Self, r.deadline)]
            approvals == [k \in legs |-> Builder!RouteApprovals(q.splits[k], amounts[k])]
<1>1. PICK flush :
        Builder!Build(r) =
          Builder!Transaction(r, FALSE, Builder!Total(min),
            Builder!MergeApprovals(Builder!FlattenSeq(approvals)), Builder!FlattenSeq(calls), flush)
  BY DEF Builder!Build, Builder!BuildSplit
<1>2. min = LegMinimum(r) /\ amounts = LegAmounts(r)
  BY DEF LegMinimum, LegAmounts, LegInput, Legs
<1>3. calls = LegCalls(r) /\ approvals = LegApprovals(r)
  <2>. HIDE DEF min, amounts
  <2>. QED
    BY <1>2 DEF LegCalls, LegApprovals, Legs
<1>. HIDE DEF min, calls, approvals
<1>. QED
  BY <1>1, <1>2, <1>3

(* Together they exchange the input, for at least all they insist on.      *)
LEMMA SplitParts ==
  ASSUME NEW r, Quoted(r), Builder!IsSplit(r.quote), Builder!CanBuild(r)
  PROVE  LET c == Builder!FlattenSeq(LegCalls(r))
             m == Len(r.quote.splits)
         IN /\ m \in Nat \ {0} /\ Builder!Total(LegMinimum(r)) \in Nat
            /\ LegCalls(r) \in [1..m -> Seq(UNION {{LegCalls(r)[k][i] : i \in DOMAIN LegCalls(r)[k]} : k \in 1..m})]
            /\ Chained(c, First(r), Final(r), Self, r.deadline)
            /\ Gives(c, First(r), Final(r), r.quote.amountIn, Builder!Total(LegMinimum(r)))
<1>. DEFINE q   == r.quote
            m   == Len(q.splits)
            min == LegMinimum(r)
            x   == LegInput(r)
            L   == LegCalls(r)
            V   == UNION {{L[k][i] : i \in DOMAIN L[k]} : k \in 1..m}
            c   == Builder!FlattenSeq(L)
<1>2. m \in Nat \ {0} /\ q.amountIn \in Int /\ \A k \in 1..m : q.splits[k].amountIn \in Int
  BY DEF Quoted, SimpleRoute, Builder!CanBuild
<1>3. x \in [1..m -> Int] /\ Builder!Total(x) = q.amountIn
  <2>1. x = [k \in 1..m |-> Builder!LegAmountIn(q, k)]
    BY DEF LegInput, Legs
  <2>. HIDE DEF q, x
  <2>. QED
    BY <1>2, <2>1, LegInputs
<1>4. ASSUME NEW k \in 1..m
      PROVE  /\ min[k] \in Nat /\ IsSeq(L[k])
             /\ Chained(L[k], First(r), Final(r), Self, r.deadline)
             /\ Gives(L[k], First(r), Final(r), x[k], min[k])
  <2>1. x[k] = Builder!LegAmountIn(q, k) /\ Builder!LegAmountIn(q, k) \in Int
    <3>1. x[k] \in Int /\ x[k] = Builder!LegAmountIn(q, k)
      BY <1>3 DEF LegInput, Legs
    <3>. QED
      BY <3>1
  <2>. DEFINE leg == q.splits[k]
              y   == Builder!LegMinOut(leg, Builder!LegSlippageBps(q, Builder!AmountOutMinimum(r)))
              d   == Builder!RouteCalls(leg, Builder!HopAmounts(leg, Builder!LegAmountIn(q, k), FALSE),
                                        y, Self, r.deadline)
  <2>2. /\ y \in Nat /\ IsSeq(d)
        /\ Chained(d, First(r), Final(r), Self, r.deadline)
        /\ Gives(d, First(r), Final(r), Builder!LegAmountIn(q, k), y)
    BY <2>1, LegFacts
  <2>3. L[k] = d /\ min[k] = y
    BY DEF LegCalls, LegAmounts, LegInput, LegMinimum, Legs
  <2>. HIDE DEF L, min, x, d, y
  <2>. QED
    BY <2>1, <2>2, <2>3
<1>t. min = [k \in 1..m |-> min[k]] /\ L = [k \in 1..m |-> L[k]]
  BY DEF LegMinimum, LegCalls, Legs
<1>. HIDE DEF q, m, min, L, x
<1>5. min \in [1..m -> Nat] /\ min \in [1..m -> Int]
  BY <1>4, <1>t
<1>6. Builder!Total(min) \in Nat
  BY <1>2, <1>5, TotalOfNats
<1>7. L \in [1..m -> Seq(V)]
  <2>2. ASSUME NEW k \in 1..m PROVE L[k] \in Seq(V)
    <3>. DEFINE U == {L[k][i] : i \in DOMAIN L[k]}
    <3>1. U \subseteq V
      OBVIOUS
    <3>2. L[k] \in Seq(U)
      BY <1>4 DEF IsSeq
    <3>. HIDE DEF U, V
    <3>. QED
      BY <3>1, <3>2
  <2>. HIDE DEF V
  <2>. QED
    BY <1>t, <2>2
<1>8. /\ Chained(c, First(r), Final(r), Self, r.deadline)
      /\ Gives(c, First(r), Final(r), Builder!Total(x), Builder!Total(min))
  <2>. HIDE DEF V
  <2>. QED
    BY <1>2, <1>3, <1>4, <1>5, <1>7, LegsJoined
<1>. QED
  BY <1>2, <1>3, <1>6, <1>7, <1>8 DEF q, m, min, L, x

(* A split is a sound plan.                                                *)
LEMMA SplitsAreSound ==
  ASSUME NEW r, Quoted(r), Builder!IsSplit(r.quote), Builder!CanBuild(r)
  PROVE  SoundPlan(Builder!Build(r))
<1>. DEFINE c == Builder!FlattenSeq(LegCalls(r))
            L == LegCalls(r)
            m == Len(r.quote.splits)
            V == UNION {{L[k][i] : i \in DOMAIN L[k]} : k \in 1..m}
            floor == Builder!Total(LegMinimum(r))
<1>1. PICK approvals, flush :
        Builder!Build(r) = Builder!Transaction(r, FALSE, floor, approvals, c, flush)
  BY BuiltSplit
<1>2. /\ m \in Nat \ {0} /\ floor \in Nat /\ L \in [1..m -> Seq(V)]
      /\ Chained(c, First(r), Final(r), Self, r.deadline)
      /\ Gives(c, First(r), Final(r), r.quote.amountIn, floor)
  BY SplitParts
<1>. HIDE DEF L, V, floor, m
<1>3. c \in Seq(V)
  <2>1. PICK F \in [1..m -> Seq(V)] : JoinsOf(F, L, m) /\ Builder!FlattenSeq(L) = F[m]
    BY <1>2, FlattenFacts
  <2>2. m \in 1..m
    BY <1>2
  <2>. QED
    BY <2>1, <2>2 DEF L
<1>. HIDE DEF c
<1>4. FALSE \in BOOLEAN /\ (FALSE => ~r.nativeOut)
      /\ Chained(c, First(r), Final(r), IF FALSE THEN r.recipient ELSE Self, r.deadline)
      /\ Gives(c, First(r), Final(r), r.quote.amountIn, IF FALSE THEN 0 ELSE floor)
  BY <1>2
<1>. QED
  BY <1>1, <1>2, <1>3, <1>4, TransactionIsSound

(* Whatever the builder makes of a quote is a sound plan: for a route and  *)
(* for a split, for every path, number of legs and hops, router, buffer,   *)
(* slippage and minimum, from the coin or to the coin, its injections,     *)
(* fixed amounts and minimum words fit one another.                        *)
THEOREM BuiltPlansAreSound ==
  ASSUME NEW r, Quoted(r), Builder!CanBuild(r)
  PROVE  SoundPlan(Builder!Build(r))
BY SinglesAreSound, SplitsAreSound

-----------------------------------------------------------------------------
(* Merged approvals.                                                       *)

SamePair(a, b) == a.token = b.token /\ a.spender = b.spender

OncePerPair(M) == \A i, j \in 1..Len(M) : SamePair(M[i], M[j]) => i = j

(* Of the first k approvals in A, f is what b still has to allow after     *)
(* each: at least what the next one on the same pair asks for.             *)
Allows(f, A, k, b) ==
  \A i \in 1..k : f[i - 1] >= f[i] + (IF SamePair(A[i], b) THEN A[i].amount ELSE 0)

(* b is enough for the first k approvals in A that are on its pair.        *)
EnoughFor(b, A, k) ==
  \/ b.amount = MaxUint
  \/ /\ \A i \in 1..k : SamePair(A[i], b) => A[i].amount # MaxUint
     /\ \E f \in [0..k -> Nat] : Allows(f, A, k, b) /\ b.amount >= f[0]

(* M has one approval per pair, and it is enough for the first k in A.     *)
MergeOf(M, A, k) ==
  /\ M \in Seq(Approval) /\ OncePerPair(M)
  /\ \A i \in 1..k : \E j \in 1..Len(M) : SamePair(A[i], M[j])
  /\ \A j \in 1..Len(M) : EnoughFor(M[j], A, k)

(* An approval on another pair changes nothing.                            *)
LEMMA EnoughStill ==
  ASSUME NEW A \in Seq(Approval), NEW k \in 1..Len(A), NEW b \in Approval,
         EnoughFor(b, A, k - 1), ~SamePair(A[k], b)
  PROVE  EnoughFor(b, A, k)
<1>1. CASE b.amount = MaxUint
  BY <1>1 DEF EnoughFor
<1>2. CASE b.amount # MaxUint
  <2>1. PICK f \in [0..(k - 1) -> Nat] : Allows(f, A, k - 1, b) /\ b.amount >= f[0]
    BY <1>2 DEF EnoughFor
  <2>. DEFINE g == [i \in 0..k |-> IF i = k THEN 0 ELSE f[i]]
  <2>2. k \in Nat /\ k >= 1
    OBVIOUS
  <2>3. \A i \in 0..k : i # k => i \in 0..(k - 1)
    BY <2>2
  <2>4. g \in [0..k -> Nat]
    BY <2>3
  <2>5. ASSUME NEW i \in 1..k PROVE g[i - 1] >= g[i] + (IF SamePair(A[i], b) THEN A[i].amount ELSE 0)
    <3>1. i - 1 \in 0..(k - 1) /\ i - 1 \in 0..k /\ i - 1 # k /\ i \in 0..k
      BY <2>2
    <3>2. g[i - 1] = f[i - 1] /\ f[i - 1] \in Nat
      BY <3>1
    <3>3. CASE i = k
      <4>1. g[i] = 0 /\ ~SamePair(A[i], b)
        BY <3>1, <3>3
      <4>. HIDE DEF g
      <4>. QED
        BY <3>2, <4>1
    <3>4. CASE i # k
      <4>1. i \in 1..(k - 1) /\ g[i] = f[i]
        BY <3>1, <3>4
      <4>2. f[i - 1] >= f[i] + (IF SamePair(A[i], b) THEN A[i].amount ELSE 0)
        BY <2>1, <4>1 DEF Allows
      <4>. HIDE DEF g
      <4>. QED
        BY <3>2, <4>1, <4>2
    <3>. QED
      BY <3>3, <3>4
  <2>6. g[0] = f[0]
    BY <2>2
  <2>7. ASSUME NEW i \in 1..k, SamePair(A[i], b) PROVE A[i].amount # MaxUint
    <3>1. i # k
      BY <2>7
    <3>2. i \in 1..(k - 1)
      BY <2>2, <3>1
    <3>. QED
      BY <1>2, <2>7, <3>2 DEF EnoughFor
  <2>. HIDE DEF g
  <2>. QED
    BY <2>1, <2>4, <2>5, <2>6, <2>7 DEF EnoughFor, Allows
<1>. QED
  BY <1>1, <1>2

(* An approval on the pair adds to what is allowed.                        *)
LEMMA EnoughMore ==
  ASSUME NEW A \in Seq(Approval), NEW k \in 1..Len(A), NEW b \in Approval, NEW d \in Approval,
         EnoughFor(b, A, k - 1), SamePair(b, d),
         d.amount = Builder!AddAllowance(b.amount, A[k].amount)
  PROVE  EnoughFor(d, A, k)
<1>1. /\ A[k] \in Approval /\ b.amount \in Nat /\ A[k].amount \in Nat /\ MaxUint \in Nat
      /\ d.amount \in Nat
  <2>1. A[k] \in Approval
    OBVIOUS
  <2>. QED
    BY <2>1, AssetsAssumption DEF Approval
<1>2. CASE ~(b.amount < MaxUint /\ A[k].amount < MaxUint)
  BY <1>2 DEF Builder!AddAllowance, EnoughFor
<1>3. CASE b.amount < MaxUint /\ A[k].amount < MaxUint
  <2>1. d.amount = b.amount + A[k].amount /\ b.amount # MaxUint /\ A[k].amount # MaxUint
    BY <1>1, <1>3 DEF Builder!AddAllowance
  <2>2. PICK f \in [0..(k - 1) -> Nat] : Allows(f, A, k - 1, b) /\ b.amount >= f[0]
    BY <2>1 DEF EnoughFor
  <2>. DEFINE n == A[k].amount
              g == [i \in 0..k |-> IF i = k THEN 0 ELSE f[i] + n]
  <2>3. k \in Nat /\ k >= 1
    OBVIOUS
  <2>4. \A i \in 0..k : i # k => i \in 0..(k - 1) /\ f[i] + n \in Nat
    BY <1>1, <2>3
  <2>. HIDE DEF n
  <2>5. g \in [0..k -> Nat]
    BY <2>4
  <2>6. \A i : SamePair(A[i], d) <=> SamePair(A[i], b)
    BY DEF SamePair
  <2>7. ASSUME NEW i \in 1..k PROVE g[i - 1] >= g[i] + (IF SamePair(A[i], d) THEN A[i].amount ELSE 0)
    <3>1. i - 1 \in 0..(k - 1) /\ i - 1 \in 0..k /\ i - 1 # k /\ i \in 0..k
      BY <2>3
    <3>2. g[i - 1] = f[i - 1] + n /\ f[i - 1] \in Nat /\ n \in Nat
      BY <1>1, <3>1 DEF n
    <3>3. CASE i = k
      <4>1. g[i] = 0 /\ A[i].amount = n
        BY <3>1, <3>3 DEF n
      <4>. HIDE DEF g
      <4>. QED
        BY <3>2, <4>1
    <3>4. CASE i # k
      <4>1. i \in 1..(k - 1) /\ g[i] = f[i] + n /\ f[i] \in Nat /\ i \in 1..Len(A)
        BY <3>1, <3>4
      <4>2. f[i - 1] >= f[i] + (IF SamePair(A[i], b) THEN A[i].amount ELSE 0)
        BY <2>2, <4>1 DEF Allows
      <4>3. A[i].amount \in Nat
        <5>1. A[i] \in Approval
          BY <4>1
        <5>. QED
          BY <5>1 DEF Approval
      <4>. HIDE DEF g
      <4>. QED
        BY <2>6, <3>2, <4>1, <4>2, <4>3
    <3>. QED
      BY <3>3, <3>4
  <2>8. g[0] = f[0] + n /\ f[0] \in Nat
    BY <2>3
  <2>9. d.amount >= g[0]
    <3>. HIDE DEF g
    <3>. QED
      BY <1>1, <2>1, <2>2, <2>8 DEF n
  <2>10. ASSUME NEW i \in 1..k, SamePair(A[i], d) PROVE A[i].amount # MaxUint
    <3>1. CASE i = k
      BY <2>1, <3>1
    <3>2. CASE i # k
      <4>1. i \in 1..(k - 1)
        BY <2>3, <3>2
      <4>. QED
        BY <2>1, <2>6, <2>10, <4>1 DEF EnoughFor
    <3>. QED
      BY <3>1, <3>2
  <2>. HIDE DEF g
  <2>. QED
    BY <2>5, <2>7, <2>9, <2>10 DEF EnoughFor, Allows
<1>. QED
  BY <1>2, <1>3

(* An approval is enough for itself when there was none on its pair.       *)
LEMMA EnoughNew ==
  ASSUME NEW A \in Seq(Approval), NEW k \in 1..Len(A), NEW n \in 0..Len(A), k <= n,
         \A i \in 1..n : SamePair(A[i], A[k]) => i = k
  PROVE  EnoughFor(A[k], A, n)
<1>1. A[k] \in Approval /\ A[k].amount \in Nat /\ k \in Nat /\ k >= 1 /\ n \in Nat
  <2>1. A[k] \in Approval
    OBVIOUS
  <2>. QED
    BY <2>1 DEF Approval
<1>2. CASE A[k].amount = MaxUint
  BY <1>2 DEF EnoughFor
<1>3. CASE A[k].amount # MaxUint
  <2>. DEFINE f == [i \in 0..n |-> IF i < k THEN A[k].amount ELSE 0]
  <2>1. f \in [0..n -> Nat]
    BY <1>1
  <2>2. ASSUME NEW i \in 1..n PROVE f[i - 1] >= f[i] + (IF SamePair(A[i], A[k]) THEN A[i].amount ELSE 0)
    <3>1. i - 1 \in 0..n /\ i \in 0..n
      BY <1>1
    <3>2. f[i] = (IF i < k THEN A[k].amount ELSE 0) /\ f[i - 1] = IF i - 1 < k THEN A[k].amount ELSE 0
      BY <3>1
    <3>. HIDE DEF f
    <3>3. CASE i = k
      BY <1>1, <3>2, <3>3
    <3>4. CASE i # k
      <4>1. ~SamePair(A[i], A[k]) /\ (i < k => i - 1 < k)
        BY <1>1, <3>4
      <4>. QED
        BY <1>1, <3>2, <4>1
    <3>. QED
      BY <3>3, <3>4
  <2>3. f[0] = A[k].amount
    BY <1>1
  <2>4. \A i \in 1..n : SamePair(A[i], A[k]) => A[i].amount # MaxUint
    BY <1>3
  <2>5. Allows(f, A, n, A[k]) /\ A[k].amount >= f[0]
    <3>. HIDE DEF f
    <3>. QED
      BY <1>1, <2>2, <2>3 DEF Allows
  <2>. HIDE DEF f
  <2>. QED
    BY <2>1, <2>4, <2>5 DEF EnoughFor
<1>. QED
  BY <1>2, <1>3

(* One more approval.                                                      *)
LEMMA MergeStep ==
  ASSUME NEW A \in Seq(Approval), NEW k \in 1..Len(A), NEW M, MergeOf(M, A, k - 1)
  PROVE  MergeOf(Builder!MergeApproval(M, A[k]), A, k)
<1>. DEFINE a == A[k]
            N == Builder!MergeApproval(M, a)
            m == Len(M)
<1>1. /\ M \in Seq(Approval) /\ m \in Nat /\ DOMAIN M = 1..m /\ a \in Approval
      /\ k \in Nat /\ k >= 1
  BY DEF MergeOf
<1>2. \A i, j \in 1..m : SamePair(M[i], M[j]) => i = j
  BY DEF MergeOf, OncePerPair
<1>3. \A i \in 1..(k - 1) : \E j \in 1..m : SamePair(A[i], M[j])
  BY DEF MergeOf
<1>4. \A j \in 1..m : EnoughFor(M[j], A, k - 1) /\ M[j] \in Approval
  BY <1>1 DEF MergeOf
<1>5. \A i \in 1..k : i = k \/ i \in 1..(k - 1)
  BY <1>1
<1>6. a = A[k]
  OBVIOUS
<1>. HIDE DEF m, a
<1>7. CASE \E j \in 1..m : SamePair(M[j], a)
  <2>. DEFINE New(j) == [M[j] EXCEPT !.amount = Builder!AddAllowance(@, a.amount)]
              At(j) == IF SamePair(M[j], a) THEN New(j) ELSE M[j]
  <2>1. N = [j \in 1..m |-> At(j)]
    BY <1>1, <1>7 DEF Builder!MergeApproval, SamePair
  <2>2. ASSUME NEW j \in 1..m
        PROVE  /\ At(j) \in Approval /\ SamePair(At(j), M[j])
               /\ At(j).token = M[j].token /\ At(j).spender = M[j].spender
               /\ SamePair(M[j], a) => At(j).amount = Builder!AddAllowance(M[j].amount, a.amount)
    <3>1. M[j] \in Approval /\ a.amount \in Nat /\ M[j].amount \in Nat /\ MaxUint \in Nat
      BY <1>1, <1>4, AssetsAssumption DEF Approval
    <3>2. Builder!AddAllowance(M[j].amount, a.amount) \in Nat
      BY <3>1 DEF Builder!AddAllowance
    <3>. QED
      BY <3>1, <3>2 DEF Approval, SamePair
  <2>. HIDE DEF At
  <2>3. N \in Seq(Approval) /\ Len(N) = m /\ \A j \in 1..m : N[j] = At(j)
    BY <1>1, <2>1, <2>2
  <2>. HIDE DEF N
  <2>4. OncePerPair(N)
    <3>. SUFFICES ASSUME NEW i \in 1..m, NEW j \in 1..m, SamePair(N[i], N[j]) PROVE i = j
      BY <2>3 DEF OncePerPair
    <3>1. SamePair(M[i], M[j])
      BY <2>2, <2>3 DEF SamePair
    <3>. QED
      BY <1>2, <3>1
  <2>5. ASSUME NEW i \in 1..k PROVE \E j \in 1..Len(N) : SamePair(A[i], N[j])
    <3>1. PICK j \in 1..m : SamePair(A[i], M[j])
      BY <1>3, <1>5, <1>6, <1>7 DEF SamePair
    <3>. QED
      BY <2>2, <2>3, <3>1 DEF SamePair
  <2>6. ASSUME NEW j \in 1..m PROVE EnoughFor(N[j], A, k)
    <3>1. EnoughFor(M[j], A, k - 1) /\ M[j] \in Approval /\ N[j] \in Approval
      BY <1>4, <2>2, <2>3
    <3>2. CASE SamePair(M[j], a)
      <4>1. SamePair(M[j], N[j]) /\ N[j].amount = Builder!AddAllowance(M[j].amount, A[k].amount)
        BY <1>6, <2>2, <2>3, <3>2 DEF SamePair
      <4>. QED
        BY <3>1, <4>1, EnoughMore
    <3>3. CASE ~SamePair(M[j], a)
      <4>1. ~SamePair(A[k], M[j]) /\ N[j] = M[j]
        BY <1>6, <2>3, <3>3 DEF SamePair, At
      <4>. QED
        BY <3>1, <4>1, EnoughStill
    <3>. QED
      BY <3>2, <3>3
  <2>. QED
    BY <2>3, <2>4, <2>5, <2>6 DEF MergeOf, N, a
<1>8. CASE ~\E j \in 1..m : SamePair(M[j], a)
  <2>1. N = Append(M, a)
    BY <1>1, <1>8 DEF Builder!MergeApproval, SamePair
  <2>2. N \in Seq(Approval) /\ Len(N) = m + 1 /\ N[m + 1] = a /\ \A j \in 1..m : N[j] = M[j]
    BY <1>1, <2>1 DEF m
  <2>3. \A j \in 1..(m + 1) : j = m + 1 \/ j \in 1..m
    BY <1>1
  <2>. HIDE DEF N
  <2>4. OncePerPair(N)
    <3>. SUFFICES ASSUME NEW i \in 1..(m + 1), NEW j \in 1..(m + 1), SamePair(N[i], N[j]) PROVE i = j
      BY <2>2 DEF OncePerPair
    <3>. QED
      BY <1>2, <1>8, <2>2, <2>3 DEF SamePair
  <2>5. ASSUME NEW i \in 1..k PROVE \E j \in 1..Len(N) : SamePair(A[i], N[j])
    <3>0. m + 1 \in 1..(m + 1) /\ \A j \in 1..m : j \in 1..(m + 1)
      BY <1>1
    <3>1. CASE i = k
      BY <1>6, <2>2, <3>0, <3>1 DEF SamePair
    <3>2. CASE i # k
      BY <1>3, <1>5, <2>2, <3>0, <3>2
    <3>. QED
      BY <3>1, <3>2
  <2>6. ASSUME NEW j \in 1..(m + 1) PROVE EnoughFor(N[j], A, k)
    <3>1. CASE j = m + 1
      <4>1. ASSUME NEW i \in 1..k, SamePair(A[i], A[k]) PROVE i = k
        BY <1>3, <1>5, <1>6, <1>8, <4>1 DEF SamePair
      <4>2. k \in 0..Len(A) /\ k <= k
        BY <1>1
      <4>3. EnoughFor(A[k], A, k)
        BY <4>1, <4>2, EnoughNew
      <4>. QED
        BY <1>6, <2>2, <3>1, <4>3
    <3>2. CASE j # m + 1
      <4>1. j \in 1..m /\ N[j] = M[j]
        BY <2>2, <2>3, <3>2
      <4>2. EnoughFor(M[j], A, k - 1) /\ M[j] \in Approval /\ ~SamePair(A[k], M[j])
        BY <1>4, <1>6, <1>8, <4>1 DEF SamePair
      <4>. QED
        BY <4>1, <4>2, EnoughStill
    <3>. QED
      BY <3>1, <3>2
  <2>. QED
    BY <2>2, <2>4, <2>5, <2>6 DEF MergeOf, N, a
<1>. QED
  BY <1>7, <1>8

(* Merged, a list of approvals has one for every pair of a token and a     *)
(* spender, and it is enough for all that the list asks for on that pair.  *)
LEMMA MergeFacts ==
  ASSUME NEW A \in Seq(Approval)
  PROVE  MergeOf(Builder!MergeApprovals(A), A, Len(A))
<1>. DEFINE n == Len(A)
            V == Seq(Approval)
            Body(f) == [k \in 0..n |-> IF k = 0 THEN << >> ELSE Builder!MergeApproval(f[k - 1], A[k])]
            G == [k \in 1..n |-> [v \in V |-> Builder!MergeApproval(v, A[k])]]
<1>1. n \in Nat /\ << >> \in V /\ \A k \in 1..n : A[k] \in Approval
  OBVIOUS
<1>. HIDE DEF n
<1>2. ASSUME NEW v \in V, NEW a \in Approval PROVE Builder!MergeApproval(v, a) \in V
  <2>1. ASSUME NEW j \in DOMAIN v
        PROVE  v[j] \in Approval /\ [v[j] EXCEPT !.amount = Builder!AddAllowance(@, a.amount)] \in Approval
    <3>1. v[j] \in Approval
      OBVIOUS
    <3>2. a.amount \in Nat /\ v[j].amount \in Nat /\ MaxUint \in Nat
      BY <3>1, AssetsAssumption DEF Approval
    <3>3. Builder!AddAllowance(v[j].amount, a.amount) \in Nat
      BY <3>2 DEF Builder!AddAllowance
    <3>. QED
      BY <3>1, <3>3 DEF Approval
  <2>2. Append(v, a) \in V
    OBVIOUS
  <2>3. PICK len \in Nat : DOMAIN v = 1..len
    OBVIOUS
  <2>. DEFINE same(j) == v[j].token = a.token /\ v[j].spender = a.spender
              w == [j \in DOMAIN v |->
                      IF same(j) THEN [v[j] EXCEPT !.amount = Builder!AddAllowance(@, a.amount)]
                      ELSE v[j]]
  <2>4. w \in V
    <3>1. \A j \in 1..len : w[j] \in Approval
      BY <2>1, <2>3
    <3>2. w = [j \in 1..len |-> w[j]]
      BY <2>3
    <3>. HIDE DEF w
    <3>3. w \in [1..len -> Approval]
      BY <3>1, <3>2
    <3>. QED
      BY <3>3
  <2>. QED
    BY <2>2, <2>4 DEF Builder!MergeApproval
<1>3. G \in [1..n -> [V -> V]]
  <2>. HIDE DEF V
  <2>. QED
    BY <1>1, <1>2
<1>4. PICK f \in [0..n -> V] : f[0] = << >> /\ \A k \in 1..n : f[k] = Builder!MergeApproval(f[k - 1], A[k])
  <2>1. PICK f \in [0..n -> V] : Stepwise(f, n, << >>, G)
    <3>. HIDE DEF G, V
    <3>. QED
      BY <1>1, <1>3, StepsExist
  <2>2. ASSUME NEW k \in 1..n PROVE f[k] = Builder!MergeApproval(f[k - 1], A[k])
    <3>1. k - 1 \in 0..n
      BY <1>1
    <3>2. f[k - 1] \in V /\ f[k] = G[k][f[k - 1]]
      <4>. HIDE DEF G, V
      <4>. QED
        BY <2>1, <3>1 DEF Stepwise
    <3>. HIDE DEF V
    <3>. QED
      BY <3>2
  <2>. QED
    BY <2>1, <2>2 DEF Stepwise
<1>5. f = Body(f)
  <2>1. ASSUME NEW k \in 0..n PROVE f[k] = IF k = 0 THEN << >> ELSE Builder!MergeApproval(f[k - 1], A[k])
    <3>1. k # 0 => k \in 1..n
      BY <1>1
    <3>. QED
      BY <1>4, <3>1
  <2>. HIDE DEF V
  <2>. QED
    BY <2>1
<1>6. PICK p : p = CHOOSE g : g = Body(g)
  OBVIOUS
<1>7. p = Body(p)
  <2>. HIDE DEF Body
  <2>. QED
    BY <1>5, <1>6
<1>8. Builder!MergeApprovals(A) = p[n]
  BY <1>6 DEF Builder!MergeApprovals, n
<1>9. \A k \in 0..n : p[k] = IF k = 0 THEN << >> ELSE Builder!MergeApproval(p[k - 1], A[k])
  BY <1>7
<1>. HIDE DEF Body
<1>. DEFINE S == {k \in 0..n : MergeOf(p[k], A, k)}
<1>10. 0 \in S
  <2>1. p[0] = << >> /\ 0 \in 0..n
    <3>1. 0 \in 0..n
      BY <1>1
    <3>2. p[0] = IF 0 = 0 THEN << >> ELSE Builder!MergeApproval(p[0 - 1], A[0])
      BY <1>9, <3>1, Zenon
    <3>. QED
      BY <3>1, <3>2
  <2>2. MergeOf(<< >>, A, 0)
    BY DEF MergeOf, OncePerPair
  <2>. QED
    BY <2>1, <2>2
<1>11. ASSUME NEW k \in 1..n, k - 1 \in S PROVE k \in S
  <2>1. k \in 0..n /\ k # 0 /\ k \in 1..Len(A)
    BY <1>1 DEF n
  <2>2. MergeOf(p[k - 1], A, k - 1)
    BY <1>11
  <2>3. MergeOf(Builder!MergeApproval(p[k - 1], A[k]), A, k)
    BY <2>1, <2>2, MergeStep
  <2>4. p[k] = Builder!MergeApproval(p[k - 1], A[k])
    BY <1>9, <2>1
  <2>. QED
    BY <2>1, <2>3, <2>4
<1>12. n \in S
  <2>. HIDE DEF S
  <2>1. \A k \in 0..n : k \in S
    BY <1>1, <1>10, <1>11, Counting
  <2>. QED
    BY <1>1, <2>1
<1>. QED
  BY <1>8, <1>12 DEF n

(* A list that names every pair once needs no merging.                     *)
LEMMA MergedAlready ==
  ASSUME NEW A \in Seq(Approval), OncePerPair(A)
  PROVE  MergeOf(A, A, Len(A))
<1>1. Len(A) \in Nat /\ Len(A) \in 0..Len(A)
  OBVIOUS
<1>2. ASSUME NEW j \in 1..Len(A) PROVE EnoughFor(A[j], A, Len(A))
  <2>1. j <= Len(A) /\ \A i \in 1..Len(A) : SamePair(A[i], A[j]) => i = j
    BY DEF OncePerPair
  <2>. QED
    BY <1>1, <2>1, EnoughNew
<1>. QED
  BY <1>2 DEF MergeOf, SamePair

-----------------------------------------------------------------------------
(* Approvals and calls that belong together.                               *)

(* What the router of a call must be allowed.                              *)
ApprovalFor(c) ==
  [ token |-> c.tokenIn, spender |-> c.target,
    amount |-> IF Injects(c) THEN MaxUint ELSE c.words["amountIn"], revokeAfter |-> TRUE ]

(* The injected word lies within the calldata.                             *)
InPlace(c) == Injects(c) => c.injectOffset >= 4 /\ c.injectOffset + 32 <= DataLength(c.kind)

(* A holds an approval for each call of c; a call that injects spends what *)
(* the one before it brings, the others spend first.                       *)
Suited(A, c, first) ==
  /\ Len(A) = Len(c)
  /\ \A p \in 1..Len(c) :
       /\ A[p] = ApprovalFor(c[p])
       /\ InPlace(c[p])
       /\ IF Injects(c[p])
          THEN p > 1 /\ c[p - 1].tokenOut = c[p].injectToken /\ c[p - 1].recipient = Self
          ELSE c[p].tokenIn = first

(* The approvals and the calls of a route belong together.                 *)
LEMMA RouteSuited ==
  ASSUME NEW q, SimpleRoute(q), NEW amounts, NEW min, NEW to, NEW deadline
  PROVE  LET A == Builder!RouteApprovals(q, amounts)
         IN /\ Suited(A, Builder!RouteCalls(q, amounts, min, to, deadline), q.path[1])
            /\ OncePerPair(A)
            /\ A = [p \in 1..Len(q.hops) |-> A[p]]
<1>. DEFINE n == Len(q.hops)
            A == Builder!RouteApprovals(q, amounts)
            c == Builder!RouteCalls(q, amounts, min, to, deadline)
<1>1. /\ n \in Nat /\ n >= 1 /\ Len(q.path) = n + 1
      /\ \A i \in 1..(n + 1) : q.path[i] \in Tokens /\ q.path[i] # NoToken
      /\ \A i, j \in 1..(n + 1) : i # j => q.path[i] # q.path[j]
  BY RouteShape
<1>2. Len(c) = n /\ Len(A) = n /\ A = [p \in 1..n |-> A[p]]
  BY <1>1 DEF Builder!RouteCalls, Builder!RouteApprovals
<1>3. ASSUME NEW p \in 1..n
      PROVE  /\ c[p].target = q.hops[p].router /\ c[p].kind = q.hops[p].kind
             /\ c[p].injectToken = (IF p > 1 THEN q.path[p] ELSE NoToken)
             /\ c[p].injectOffset = (IF p > 1 THEN Builder!InjectOffset(q.hops[p].kind) ELSE 0)
             /\ c[p].tokenIn = q.path[p] /\ c[p].tokenOut = q.path[p + 1]
             /\ c[p].recipient = (IF p = n THEN to ELSE Self)
             /\ c[p].words["amountIn"] = amounts[p].in
             /\ A[p] = [ token |-> q.path[p], spender |-> q.hops[p].router,
                         amount |-> IF p > 1 THEN MaxUint ELSE amounts[p].in, revokeAfter |-> TRUE ]
  BY DEF Builder!RouteCalls, Builder!RouteApprovals, Builder!HopCall, Builder!HopApproval
<1>t. ASSUME NEW p \in 1..n PROVE A[p].token = q.path[p]
  BY DEF Builder!RouteApprovals, Builder!HopApproval
<1>4. ASSUME NEW p \in 1..n PROVE q.hops[p].kind \in SwapKinds
  <2>1. q.hops[p] \in Hops
    BY DEF SimpleRoute
  <2>. QED
    BY <2>1 DEF Hops
<1>. HIDE DEF n, A, c
<1>5. ASSUME NEW p \in 1..n PROVE Injects(c[p]) <=> p > 1
  <2>1. p \in 1..(n + 1)
    BY <1>1
  <2>. QED
    BY <1>1, <1>3, <2>1 DEF Injects
<1>6. ASSUME NEW p \in 1..n PROVE InPlace(c[p])
  <2>1. SUFFICES ASSUME Injects(c[p])
                 PROVE  c[p].injectOffset >= 4 /\ c[p].injectOffset + 32 <= DataLength(c[p].kind)
    BY DEF InPlace
  <2>2. \A k \in SwapKinds : Builder!InjectOffset(k) >= 4 /\ Builder!InjectOffset(k) + 32 <= DataLength(k)
    <3>1. /\ DataLength("v2") = 4 + 32 * 8 /\ DataLength("v3") = 4 + 32 * 8
          /\ DataLength("v3r02") = 4 + 32 * 7
      BY DEF DataLength, Layout
    <3>2. /\ Builder!InjectOffset("v2") = 4 /\ Builder!InjectOffset("v3r02") = 132
          /\ Builder!InjectOffset("v3") = 164
      BY DEF Builder!InjectOffset
    <3>. QED
      BY <3>1, <3>2 DEF SwapKinds
  <2>3. c[p].injectOffset = Builder!InjectOffset(c[p].kind)
    BY <1>3, <1>5, <2>1
  <2>. QED
    BY <1>3, <1>4, <2>2, <2>3
<1>7. ASSUME NEW p \in 1..n PROVE A[p] = ApprovalFor(c[p])
  BY <1>3, <1>5 DEF ApprovalFor
<1>8. ASSUME NEW p \in 1..n
      PROVE  IF Injects(c[p])
             THEN p > 1 /\ c[p - 1].tokenOut = c[p].injectToken /\ c[p - 1].recipient = Self
             ELSE c[p].tokenIn = q.path[1]
  <2>1. CASE p > 1
    <3>1. p - 1 \in 1..n /\ p - 1 # n /\ p - 1 + 1 = p
      BY <1>1, <2>1
    <3>. QED
      BY <1>3, <1>5, <2>1, <3>1
  <2>2. CASE ~(p > 1)
    <3>1. p = 1
      BY <1>1, <2>2
    <3>. QED
      BY <1>3, <1>5, <2>2, <3>1
  <2>. QED
    BY <2>1, <2>2
<1>9. ASSUME NEW i \in 1..n, NEW j \in 1..n, SamePair(A[i], A[j]) PROVE i = j
  <2>1. i \in 1..(n + 1) /\ j \in 1..(n + 1)
    BY <1>1
  <2>2. q.path[i] = q.path[j]
    <3>1. A[i].token = q.path[i] /\ A[j].token = q.path[j]
      BY <1>t
    <3>. QED
      BY <1>9, <3>1 DEF SamePair
  <2>. QED
    BY <1>1, <2>1, <2>2
<1>10. Suited(A, c, q.path[1])
  BY <1>2, <1>6, <1>7, <1>8 DEF Suited
<1>. QED
  BY <1>2, <1>9, <1>10 DEF OncePerPair, A, c, n

(* Two routes, one after the other.                                        *)
LEMMA SuitedJoined ==
  ASSUME NEW A, NEW B, NEW AB, NEW c, NEW d, NEW cd, NEW first,
         Len(c) \in Nat, Len(d) \in Nat, Joined(A, B, AB), Joined(c, d, cd),
         Suited(A, c, first), Suited(B, d, first)
  PROVE  Suited(AB, cd, first)
<1>. DEFINE m == Len(c)
            n == Len(d)
            Fed(x, p) ==
              IF Injects(x[p]) THEN p > 1 /\ x[p - 1].tokenOut = x[p].injectToken /\ x[p - 1].recipient = Self
              ELSE x[p].tokenIn = first
<1>1. /\ m \in Nat /\ n \in Nat /\ Len(A) = m /\ Len(B) = n /\ Len(cd) = m + n /\ Len(AB) = m + n
      /\ \A p \in 1..m : cd[p] = c[p] /\ AB[p] = A[p]
      /\ \A p \in 1..n : cd[m + p] = d[p] /\ AB[m + p] = B[p]
  BY DEF Joined, Suited
<1>2. ASSUME NEW p \in 1..m PROVE A[p] = ApprovalFor(c[p]) /\ InPlace(c[p]) /\ Fed(c, p)
  BY Zenon DEF Suited
<1>3. ASSUME NEW p \in 1..n PROVE B[p] = ApprovalFor(d[p]) /\ InPlace(d[p]) /\ Fed(d, p)
  BY Zenon DEF Suited
<1>. HIDE DEF m, n
<1>4. ASSUME NEW p \in 1..(m + n) PROVE AB[p] = ApprovalFor(cd[p]) /\ InPlace(cd[p]) /\ Fed(cd, p)
  <2>1. CASE p <= m
    <3>1. p \in 1..m /\ (p > 1 => p - 1 \in 1..m)
      BY <1>1, <2>1
    <3>2. A[p] = ApprovalFor(c[p]) /\ InPlace(c[p]) /\ cd[p] = c[p] /\ AB[p] = A[p]
      BY <1>1, <1>2, <3>1
    <3>3. p > 1 => cd[p - 1] = c[p - 1]
      BY <1>1, <3>1
    <3>4. Fed(c, p)
      BY <1>2, <3>1
    <3>. QED
      BY <3>2, <3>3, <3>4
  <2>2. CASE ~(p <= m)
    <3>1. PICK i \in 1..n : i = p - m
      BY <1>1, <2>2
    <3>2. p = m + i /\ (i > 1 => i - 1 \in 1..n /\ p - 1 = m + (i - 1) /\ p > 1)
      BY <1>1, <3>1
    <3>3. B[i] = ApprovalFor(d[i]) /\ InPlace(d[i]) /\ cd[p] = d[i] /\ AB[p] = B[i]
      BY <1>1, <1>3, <3>2
    <3>4. i > 1 => cd[p - 1] = d[i - 1] /\ p > 1
      BY <1>1, <3>2
    <3>5. Fed(d, i)
      BY <1>3
    <3>. QED
      BY <3>3, <3>4, <3>5
  <2>. QED
    BY <2>1, <2>2
<1>. QED
  BY <1>1, <1>4 DEF Suited

(* The legs of a split one after the other.                                *)
LEMMA SuitedLegs ==
  ASSUME NEW m \in Nat \ {0}, NEW U, NEW V, NEW M \in [1..m -> Seq(U)], NEW L \in [1..m -> Seq(V)],
         NEW first, \A k \in 1..m : Suited(M[k], L[k], first)
  PROVE  /\ Suited(Builder!FlattenSeq(M), Builder!FlattenSeq(L), first)
         /\ Builder!FlattenSeq(M) \in Seq(U) /\ Builder!FlattenSeq(L) \in Seq(V)
<1>1. PICK F \in [1..m -> Seq(V)] : JoinsOf(F, L, m) /\ Builder!FlattenSeq(L) = F[m]
  BY FlattenFacts
<1>2. PICK E \in [1..m -> Seq(U)] : JoinsOf(E, M, m) /\ Builder!FlattenSeq(M) = E[m]
  BY FlattenFacts
<1>. DEFINE P(k) == Suited(E[k], F[k], first)
            S == {k \in 0..(m - 1) : P(k + 1)}
<1>3. P(1)
  <2>1. 1 \in 1..m
    OBVIOUS
  <2>2. F[1] = L[1] /\ E[1] = M[1]
    BY <1>1, <1>2 DEF JoinsOf
  <2>. QED
    BY <2>1, <2>2
<1>4. ASSUME NEW k \in 1..(m - 1), P(k) PROVE P(k + 1)
  <2>. DEFINE i == k + 1
  <2>1. k \in 1..m /\ i \in 2..m /\ i \in 1..m /\ i - 1 = k
    OBVIOUS
  <2>. HIDE DEF i
  <2>2. PICK p \in Seq(V), t \in Seq(V) : p = F[k] /\ t = L[i]
    BY <1>1, <2>1
  <2>3. PICK a \in Seq(U), b \in Seq(U) : a = E[k] /\ b = M[i]
    BY <1>2, <2>1
  <2>4. Joined(p, t, p \o t) /\ Joined(a, b, a \o b)
    BY JoinedParts, Zenon
  <2>5. F[i] = p \o t /\ E[i] = a \o b
    BY <1>1, <1>2, <2>1, <2>2, <2>3 DEF JoinsOf
  <2>6. Len(p) \in Nat /\ Len(t) \in Nat
    BY LenProperties, Zenon
  <2>7. Suited(a, p, first) /\ Suited(b, t, first)
    BY <1>4, <2>1, <2>2, <2>3
  <2>8. Suited(a \o b, p \o t, first)
    BY <2>4, <2>6, <2>7, SuitedJoined, Zenon
  <2>. QED
    BY <2>5, <2>8 DEF i
<1>. HIDE DEF P
<1>5. \A k \in 0..(m - 1) : k \in S
  <2>1. 0 \in S /\ m - 1 \in Nat
    BY <1>3
  <2>2. ASSUME NEW k \in 1..(m - 1), k - 1 \in S PROVE k \in S
    <3>1. k - 1 + 1 = k /\ k \in 0..(m - 1)
      OBVIOUS
    <3>2. P(k)
      BY <2>2, <3>1
    <3>. QED
      BY <1>4, <3>1, <3>2
  <2>. HIDE DEF S
  <2>. QED
    BY <2>1, <2>2, Counting
<1>6. P(m)
  <2>1. m - 1 \in 0..(m - 1) /\ m - 1 + 1 = m
    OBVIOUS
  <2>2. P(m - 1 + 1)
    BY <1>5, <2>1
  <2>. QED
    BY <2>1, <2>2
<1>7. F[m] \in Seq(V) /\ E[m] \in Seq(U)
  BY <1>1, <1>2
<1>. QED
  BY <1>1, <1>2, <1>6, <1>7 DEF P

-----------------------------------------------------------------------------
(* Plans that fit together.                                                *)

(* The call spends under the allowance that b gives.                       *)
Asks(c, b) == c.kind \in SwapKinds /\ c.tokenIn = b.token /\ c.target = b.spender

(* f is what b still has to allow after each of the calls of s.            *)
Lasts(f, s, b) ==
  \A k \in CallsOf(s) :
    f[k - 1] >= f[k] + (IF Asks(s.calls[k], b) THEN s.calls[k].words["amountIn"] ELSE 0)

(* What b allows is enough for the calls of s that ask for it: it is       *)
(* infinite, or none of them injects and the fixed amounts fit into it.    *)
Affords(b, s) ==
  \/ b.amount = MaxUint
  \/ /\ \A k \in CallsOf(s) : Asks(s.calls[k], b) => ~Injects(s.calls[k])
     /\ \E f \in [0..Len(s.calls) -> Nat] : Lasts(f, s, b) /\ b.amount >= f[0]

(* A call that injects follows the one that brings what it spends. A fixed *)
(* amount is of a token that nothing injects and no later call brings.     *)
FittingCall(s, k) ==
  LET c == s.calls[k] IN
    /\ InPlace(c)
    /\ Injects(c) =>
         k > 1 /\ Pays(s.calls[k - 1], c.injectToken) /\ s.calls[k - 1].recipient = Self
    /\ ~Injects(c) /\ c.kind \in SwapKinds =>
         /\ Untouched(s, c.tokenIn)
         /\ \A j \in CallsOf(s) : j >= k => ~Brings(s.calls[j], c.tokenIn)
    /\ c.kind = "deposit" => k = 1 /\ c.value = s.amountIn

FittingPlan(s) ==
  /\ \A k \in CallsOf(s) : FittingCall(s, k)
  /\ OncePerPair(s.approvals)
  /\ \A k \in CallsOf(s) :
       s.calls[k].kind \in SwapKinds =>
         \E j \in 1..Len(s.approvals) : Asks(s.calls[k], s.approvals[j])
  /\ \A j \in 1..Len(s.approvals) : Affords(s.approvals[j], s)

(* Calls between wrapping and unwrapping, and what they say of the whole.  *)
Fitted(r, s, c, A, to) ==
  /\ Fields(r, s) /\ Enclosed(r, s, c) /\ Len(c) >= 1
  /\ Chained(c, First(r), Final(r), to, s.deadline) /\ (r.nativeOut => to = Self)
  /\ Suited(A, c, First(r)) /\ MergeOf(s.approvals, A, Len(A))

(* Their calls fit.                                                        *)
LEMMA FittedCalls ==
  ASSUME NEW r, NEW s, NEW c, NEW A, NEW to, Fitted(r, s, c, A, to)
  PROVE  \A k \in CallsOf(s) : FittingCall(s, k)
<1>. DEFINE n == Len(c)
            w == Wraps(r)
            first == First(r)
            last == Final(r)
<1>1. /\ Len(s.calls) = w + n + Unwraps(r)
      /\ r.nativeIn => s.calls[1] = DepositCall(r)
      /\ \A p \in 1..n : s.calls[w + p] = c[p]
      /\ r.nativeOut => s.calls[w + n + 1] = WithdrawCall
      /\ \A k \in CallsOf(s) :
           \/ r.nativeIn /\ k = 1
           \/ \E p \in 1..n : k = w + p
           \/ r.nativeOut /\ k = w + n + 1
  BY CallsAt DEF Fitted
<1>2. /\ w \in 0..1 /\ (w = 1 <=> r.nativeIn) /\ n \in Nat /\ n >= 1
      /\ first \in Tokens /\ last \in Tokens /\ first # last
      /\ (r.nativeOut => last = WETH /\ to = Self) /\ s.amountIn = r.quote.amountIn
  BY WrapCalls DEF Fitted, Fields, Enclosed
<1>3. /\ DepositCall(r).kind = "deposit" /\ ~Injects(DepositCall(r))
      /\ DepositCall(r).value = r.quote.amountIn /\ DepositCall(r).injectToken = NoToken
      /\ WithdrawCall.kind = "withdraw" /\ WithdrawCall.injectToken = WETH
      /\ "deposit" \notin SwapKinds /\ "withdraw" \notin SwapKinds /\ "deposit" # "withdraw"
  BY WrapFacts
<1>4. ASSUME NEW p \in 1..n
      PROVE  /\ c[p].kind \in SwapKinds
             /\ c[p].injectToken # first /\ c[p].injectToken \in {NoToken, c[p].tokenIn}
             /\ c[p].tokenOut # first
             /\ p = n => c[p].tokenOut = last /\ c[p].recipient = to
  <2>1. ~(n < n)
    BY <1>2
  <2>. QED
    BY <2>1 DEF Fitted, Chained
<1>5. ASSUME NEW p \in 1..n
      PROVE  /\ InPlace(c[p])
             /\ IF Injects(c[p])
                THEN p > 1 /\ c[p - 1].tokenOut = c[p].injectToken /\ c[p - 1].recipient = Self
                ELSE c[p].tokenIn = first
  BY DEF Fitted, Suited
<1>6. InPlace(WithdrawCall)
  <2>1. DataLength("withdraw") = 4 + 32 * 1
    BY DEF DataLength, Layout
  <2>2. WithdrawCall.kind = "withdraw" /\ WithdrawCall.injectOffset = 4
    BY DEF WithdrawCall, Builder!WethCall
  <2>. QED
    BY <2>1, <2>2 DEF InPlace
<1>. HIDE DEF n, w, first, last
<1>7. Untouched(s, first)
  <2>. SUFFICES ASSUME NEW k \in CallsOf(s) PROVE s.calls[k].injectToken # first
    BY DEF Untouched
  <2>1. NoToken # first
    BY <1>2, AssetsAssumption
  <2>2. CASE r.nativeIn /\ k = 1
    BY <1>1, <1>3, <2>1, <2>2
  <2>3. CASE \E p \in 1..n : k = w + p
    BY <1>1, <1>4, <2>3
  <2>4. CASE r.nativeOut /\ k = w + n + 1
    BY <1>1, <1>2, <1>3, <2>4
  <2>. QED
    BY <1>1, <2>2, <2>3, <2>4
<1>8. ASSUME NEW j \in CallsOf(s), j > w PROVE ~Brings(s.calls[j], first)
  <2>1. CASE r.nativeIn /\ j = 1
    BY <1>2, <1>8, <2>1
  <2>2. ASSUME NEW p \in 1..n, j = w + p PROVE ~Brings(s.calls[j], first)
    <3>1. s.calls[j] = c[p] /\ c[p].kind \in SwapKinds /\ c[p].tokenOut # first
      BY <1>1, <1>4, <2>2
    <3>. QED
      BY <1>3, <3>1 DEF Brings, Pays
  <2>3. CASE r.nativeOut /\ j = w + n + 1
    <3>1. s.calls[j].kind = "withdraw"
      BY <1>1, <1>3, <2>3
    <3>. QED
      BY <1>3, <3>1 DEF Brings, Pays
  <2>. QED
    BY <1>1, <2>1, <2>2, <2>3
<1>. SUFFICES ASSUME NEW k \in CallsOf(s) PROVE FittingCall(s, k)
  OBVIOUS
<1>9. CASE r.nativeIn /\ k = 1
  <2>1. s.calls[k] = DepositCall(r)
    BY <1>1, <1>9
  <2>. QED
    BY <1>2, <1>3, <1>9, <2>1 DEF FittingCall, InPlace
<1>10. ASSUME NEW p \in 1..n, k = w + p PROVE FittingCall(s, k)
  <2>1. s.calls[k] = c[p] /\ c[p].kind \in SwapKinds /\ InPlace(c[p]) /\ c[p].kind # "deposit"
    BY <1>1, <1>3, <1>4, <1>5, <1>10
  <2>2. ASSUME Injects(c[p])
        PROVE  k > 1 /\ Pays(s.calls[k - 1], c[p].injectToken) /\ s.calls[k - 1].recipient = Self
    <3>1. p > 1 /\ c[p - 1].tokenOut = c[p].injectToken /\ c[p - 1].recipient = Self
      BY <1>5, <2>2
    <3>2. p - 1 \in 1..n /\ k - 1 = w + (p - 1) /\ k > 1
      BY <1>2, <1>10, <3>1
    <3>3. s.calls[k - 1] = c[p - 1] /\ c[p - 1].kind \in SwapKinds
      BY <1>1, <1>4, <3>2
    <3>. QED
      BY <3>1, <3>2, <3>3 DEF Pays
  <2>3. ASSUME ~Injects(c[p])
        PROVE  /\ Untouched(s, c[p].tokenIn)
               /\ \A j \in CallsOf(s) : j >= k => ~Brings(s.calls[j], c[p].tokenIn)
    <3>1. c[p].tokenIn = first
      BY <1>5, <2>3
    <3>2. ASSUME NEW j \in CallsOf(s), j >= k PROVE ~Brings(s.calls[j], first)
      <4>1. j \in Int
        BY DEF CallsOf
      <4>2. j > w
        BY <1>2, <1>10, <3>2, <4>1
      <4>. QED
        BY <1>8, <4>2
    <3>. QED
      BY <1>7, <3>1, <3>2
  <2>. QED
    BY <2>1, <2>2, <2>3 DEF FittingCall
<1>11. CASE r.nativeOut /\ k = w + n + 1
  <2>1. s.calls[k] = WithdrawCall
    BY <1>1, <1>11
  <2>2. n \in 1..n /\ k - 1 = w + n /\ k > 1
    BY <1>2, <1>11
  <2>3. s.calls[k - 1] = c[n] /\ c[n].kind \in SwapKinds /\ c[n].tokenOut = WETH /\ c[n].recipient = Self
    BY <1>1, <1>2, <1>4, <1>11, <2>2
  <2>4. Injects(WithdrawCall)
    BY <1>3, AssetsAssumption DEF Injects
  <2>. QED
    BY <1>3, <1>6, <2>1, <2>2, <2>3, <2>4 DEF FittingCall, Pays
<1>. QED
  BY <1>1, <1>9, <1>10, <1>11

(* Their approvals are enough.                                             *)
LEMMA FittedApprovals ==
  ASSUME NEW r, NEW s, NEW c, NEW A, NEW to, Fitted(r, s, c, A, to)
  PROVE  /\ OncePerPair(s.approvals)
         /\ \A k \in CallsOf(s) :
              s.calls[k].kind \in SwapKinds =>
                \E j \in 1..Len(s.approvals) : Asks(s.calls[k], s.approvals[j])
         /\ \A j \in 1..Len(s.approvals) : Affords(s.approvals[j], s)
<1>. DEFINE n == Len(c)
            w == Wraps(r)
            len == Len(s.calls)
<1>1. /\ len = w + n + Unwraps(r)
      /\ r.nativeIn => s.calls[1] = DepositCall(r)
      /\ \A p \in 1..n : s.calls[w + p] = c[p]
      /\ r.nativeOut => s.calls[w + n + 1] = WithdrawCall
      /\ \A k \in 1..len :
           \/ r.nativeIn /\ k = 1
           \/ \E p \in 1..n : k = w + p
           \/ r.nativeOut /\ k = w + n + 1
  BY CallsAt DEF Fitted, CallsOf
<1>2. /\ w \in 0..1 /\ (w = 1 <=> r.nativeIn) /\ n \in Nat /\ n >= 1
      /\ Unwraps(r) \in 0..1 /\ (Unwraps(r) = 1 <=> r.nativeOut)
  BY WrapCalls DEF Fitted, Fields, Enclosed
<1>3. /\ DepositCall(r).kind \notin SwapKinds /\ WithdrawCall.kind \notin SwapKinds
  BY WrapFacts
<1>4. ASSUME NEW p \in 1..n
      PROVE  /\ c[p].kind \in SwapKinds
             /\ A[p].token = c[p].tokenIn /\ A[p].spender = c[p].target
             /\ A[p].amount = IF Injects(c[p]) THEN MaxUint ELSE c[p].words["amountIn"]
  <2>1. c[p].kind \in SwapKinds /\ A[p] = ApprovalFor(c[p])
    BY DEF Fitted, Chained, Suited
  <2>. QED
    BY <2>1 DEF ApprovalFor
<1>5. /\ Len(A) = n
      /\ \A i \in 1..n : \E j \in 1..Len(s.approvals) : SamePair(A[i], s.approvals[j])
      /\ \A j \in 1..Len(s.approvals) : EnoughFor(s.approvals[j], A, n)
      /\ OncePerPair(s.approvals)
  <2>1. Len(A) = n
    BY DEF Fitted, Suited
  <2>2. MergeOf(s.approvals, A, n)
    BY <2>1 DEF Fitted
  <2>. QED
    BY <2>1, <2>2 DEF MergeOf
<1>. HIDE DEF n, w, len
<1>6. ASSUME NEW p \in 1..n, NEW b PROVE Asks(c[p], b) <=> SamePair(A[p], b)
  BY <1>4 DEF Asks, SamePair
<1>7. ASSUME NEW k \in 1..len PROVE s.calls[k].kind \in SwapKinds => \E p \in 1..n : k = w + p
  BY <1>1, <1>3
<1>8. ASSUME NEW k \in CallsOf(s), s.calls[k].kind \in SwapKinds
      PROVE  \E j \in 1..Len(s.approvals) : Asks(s.calls[k], s.approvals[j])
  <2>1. PICK p \in 1..n : k = w + p
    BY <1>7, <1>8 DEF CallsOf, len
  <2>2. PICK j \in 1..Len(s.approvals) : SamePair(A[p], s.approvals[j])
    BY <1>5
  <2>. QED
    BY <1>1, <1>6, <2>1, <2>2
<1>9. ASSUME NEW j \in 1..Len(s.approvals) PROVE Affords(s.approvals[j], s)
  <2>. DEFINE b == s.approvals[j]
  <2>1. EnoughFor(b, A, n)
    BY <1>5
  <2>. HIDE DEF b
  <2>2. CASE b.amount = MaxUint
    BY <2>2 DEF Affords, b
  <2>3. CASE b.amount # MaxUint
    <3>1. /\ \A i \in 1..n : SamePair(A[i], b) => A[i].amount # MaxUint
          /\ \E f \in [0..n -> Nat] : Allows(f, A, n, b) /\ b.amount >= f[0]
      BY <2>1, <2>3 DEF EnoughFor
    <3>2. PICK f \in [0..n -> Nat] : Allows(f, A, n, b) /\ b.amount >= f[0]
      BY <3>1
    <3>3. ASSUME NEW p \in 1..n, Asks(c[p], b)
          PROVE  ~Injects(c[p]) /\ A[p].amount = c[p].words["amountIn"]
      BY <1>4, <1>6, <3>1, <3>3
    <3>4. ASSUME NEW k \in 1..len, Asks(s.calls[k], b) PROVE ~Injects(s.calls[k])
      <4>1. PICK p \in 1..n : k = w + p
        BY <1>7, <3>4 DEF Asks
      <4>. QED
        BY <1>1, <3>3, <3>4, <4>1
    <3>. DEFINE at(k) == IF k <= w THEN 0 ELSE IF k <= w + n THEN k - w ELSE n
                g == [k \in 0..len |-> f[at(k)]]
    <3>5. \A k \in 0..len : at(k) \in 0..n
      BY <1>1, <1>2
    <3>6. g \in [0..len -> Nat] /\ g[0] = f[0]
      <4>1. 0 \in 0..len /\ at(0) = 0
        BY <1>1, <1>2
      <4>. HIDE DEF at
      <4>. QED
        BY <3>5, <4>1
    <3>7. ASSUME NEW k \in 1..len
          PROVE  g[k - 1] >= g[k] + (IF Asks(s.calls[k], b) THEN s.calls[k].words["amountIn"] ELSE 0)
      <4>1. k - 1 \in 0..len /\ k \in 0..len
        BY <1>1, <1>2
      <4>2. g[k] = f[at(k)] /\ g[k - 1] = f[at(k - 1)] /\ f[at(k)] \in Nat /\ f[at(k - 1)] \in Nat
        <5>. HIDE DEF at
        <5>. QED
          BY <3>5, <4>1
      <4>3. CASE s.calls[k].kind \notin SwapKinds
        <5>1. ~Asks(s.calls[k], b)
          BY <4>3 DEF Asks
        <5>2. at(k) = at(k - 1)
          <6>1. (r.nativeIn /\ k = 1) \/ (r.nativeOut /\ k = w + n + 1)
            BY <1>1, <1>4, <4>3
          <6>. QED
            BY <1>2, <6>1
        <5>. HIDE DEF at, g
        <5>. QED
          BY <4>2, <5>1, <5>2
      <4>4. CASE s.calls[k].kind \in SwapKinds
        <5>1. PICK p \in 1..n : k = w + p
          BY <1>7, <4>4
        <5>2. at(k) = p /\ at(k - 1) = p - 1 /\ s.calls[k] = c[p]
          BY <1>1, <1>2, <5>1
        <5>3. f[p - 1] >= f[p] + (IF SamePair(A[p], b) THEN A[p].amount ELSE 0)
          BY <3>2 DEF Allows
        <5>. HIDE DEF at, g
        <5>4. CASE Asks(c[p], b)
          <6>1. SamePair(A[p], b) /\ A[p].amount = c[p].words["amountIn"]
            BY <1>6, <3>3, <5>4
          <6>. QED
            BY <4>2, <5>2, <5>3, <5>4, <6>1
        <5>5. CASE ~Asks(c[p], b)
          <6>1. ~SamePair(A[p], b)
            BY <1>6, <5>5
          <6>. QED
            BY <4>2, <5>2, <5>3, <5>5, <6>1
        <5>. QED
          BY <5>4, <5>5
      <4>. QED
        BY <4>3, <4>4
    <3>8. Lasts(g, s, b)
      <4>. HIDE DEF g
      <4>. QED
        BY <3>7 DEF Lasts, CallsOf, len
    <3>9. \A k \in CallsOf(s) : Asks(s.calls[k], b) => ~Injects(s.calls[k])
      BY <3>4 DEF CallsOf, len
    <3>10. b.amount >= g[0] /\ g \in [0..Len(s.calls) -> Nat]
      <4>. HIDE DEF g
      <4>. QED
        BY <3>2, <3>6 DEF len
    <3>. HIDE DEF g
    <3>11. Affords(b, s)
      BY <3>8, <3>9, <3>10 DEF Affords
    <3>. QED
      BY <3>11 DEF b
  <2>. QED
    BY <2>2, <2>3
<1>. QED
  BY <1>5, <1>8, <1>9

(* Together they are a fitting plan.                                       *)
LEMMA FittedFits ==
  ASSUME NEW r, NEW s, NEW c, NEW A, NEW to, Fitted(r, s, c, A, to)
  PROVE  FittingPlan(s)
BY FittedCalls, FittedApprovals DEF FittingPlan

(* The approvals of a transaction's calls are approvals.                   *)
LEMMA ApprovalsTyped ==
  ASSUME NEW r, NEW s, NEW c, NEW A, NEW first, NEW last, NEW to, NEW deadline,
         Fields(r, s), Enclosed(r, s, c), s.calls \in Seq(Call),
         Chained(c, first, last, to, deadline), Suited(A, c, first),
         NEW n \in Nat, Len(c) = n, A = [p \in 1..n |-> A[p]]
  PROVE  A \in Seq(Approval)
<1>1. /\ Len(s.calls) = Wraps(r) + n + Unwraps(r)
      /\ \A p \in 1..n : s.calls[Wraps(r) + p] = c[p]
  BY CallsAt
<1>2. Wraps(r) \in 0..1 /\ Unwraps(r) \in 0..1
  BY WrapCalls DEF Fields
<1>3. ASSUME NEW p \in 1..n PROVE A[p] \in Approval
  <2>1. Wraps(r) + p \in 1..Len(s.calls)
    BY <1>1, <1>2
  <2>2. s.calls[Wraps(r) + p] \in Call
    BY <2>1
  <2>3. c[p] \in Call /\ c[p].kind \in SwapKinds /\ A[p] = ApprovalFor(c[p])
    BY <1>1, <2>2 DEF Chained, Suited
  <2>4. PICK d \in Call : d = c[p]
    BY <2>3
  <2>5. d.tokenIn \in Tokens /\ d.target \in Routers /\ d.words["amountIn"] \in Nat
    BY <2>3, <2>4 DEF Call, Numbers
  <2>6. (IF Injects(d) THEN MaxUint ELSE d.words["amountIn"]) \in Nat
    BY <2>5, AssetsAssumption
  <2>7. ApprovalFor(d) \in Approval
    <3>1. PICK n1 \in Nat : n1 = (IF Injects(d) THEN MaxUint ELSE d.words["amountIn"])
      BY <2>6
    <3>2. ApprovalFor(d) = [token |-> d.tokenIn, spender |-> d.target, amount |-> n1, revokeAfter |-> TRUE]
      BY <3>1 DEF ApprovalFor
    <3>. QED
      BY <2>5, <3>2 DEF Approval
  <2>. QED
    BY <2>3, <2>4, <2>7
<1>4. A \in [1..n -> Approval]
  BY <1>3
<1>. QED
  BY <1>4

(* A single route fits together.                                           *)
LEMMA SinglesFit ==
  ASSUME NEW r, Quoted(r), ~Builder!IsSplit(r.quote), Builder!CanBuild(r),
         Builder!Build(r) \in SwapTransaction
  PROVE  FittingPlan(Builder!Build(r))
<1>. DEFINE min == Builder!AmountOutMinimum(r)
            to == SingleTo(r)
            c == SingleCalls(r)
            A == Builder!RouteApprovals(r.quote, SingleAmounts(r))
            direct == ~r.nativeOut
            s == Builder!Build(r)
<1>1. PICK flush : s = Builder!Transaction(r, direct, min, A, c, flush)
  BY DEF Builder!Build, Builder!BuildSingle, SingleCalls, SingleAmounts, SingleTo
<1>2. /\ min \in Nat /\ IsSeq(c) /\ Len(c) > 0
      /\ Chained(c, First(r), Final(r), to, r.deadline)
      /\ (to = Self <=> r.nativeOut) /\ SimpleRoute(r.quote) /\ r.nativeOut \in BOOLEAN
  BY SingleParts
<1>3. PICK V : c \in Seq(V)
  BY <1>2 DEF IsSeq
<1>4. Suited(A, c, First(r)) /\ OncePerPair(A) /\ A = [p \in 1..Len(r.quote.hops) |-> A[p]]
  BY <1>2, RouteSuited DEF SingleCalls, First
<1>5. Len(c) = Len(r.quote.hops) /\ Len(c) \in Nat
  <2>1. Len(r.quote.hops) \in Nat
    BY <1>2, RouteShape
  <2>. QED
    BY <2>1 DEF SingleCalls, Builder!RouteCalls
<1>. HIDE DEF min, to, c, A, s
<1>6. Fields(r, s) /\ Enclosed(r, s, c) /\ s.deadline = r.deadline /\ s.approvals = A
  <2>1. direct \in BOOLEAN /\ (direct => ~r.nativeOut)
    BY <1>2
  <2>. HIDE DEF direct
  <2>. QED
    BY <1>1, <1>2, <1>3, <2>1, TransactionParts
<1>7. s.calls \in Seq(Call)
  BY DEF SwapTransaction, s
<1>8. A \in Seq(Approval)
  BY <1>2, <1>4, <1>5, <1>6, <1>7, ApprovalsTyped
<1>9. MergeOf(s.approvals, A, Len(A))
  BY <1>4, <1>6, <1>8, MergedAlready
<1>10. Fitted(r, s, c, A, to)
  BY <1>2, <1>4, <1>5, <1>6, <1>9 DEF Fitted
<1>11. FittingPlan(s)
  BY <1>10, FittedFits
<1>. QED
  BY <1>11 DEF s

(* A split fits together.                                                  *)
LEMMA SplitsFit ==
  ASSUME NEW r, Quoted(r), Builder!IsSplit(r.quote), Builder!CanBuild(r),
         Builder!Build(r) \in SwapTransaction
  PROVE  FittingPlan(Builder!Build(r))
<1>. DEFINE c == Builder!FlattenSeq(LegCalls(r))
            A == Builder!FlattenSeq(LegApprovals(r))
            L == LegCalls(r)
            M == LegApprovals(r)
            m == Len(r.quote.splits)
            V == UNION {{L[k][i] : i \in DOMAIN L[k]} : k \in 1..m}
            U == UNION {{M[k][i] : i \in DOMAIN M[k]} : k \in 1..m}
            floor == Builder!Total(LegMinimum(r))
            s == Builder!Build(r)
<1>1. PICK flush : s = Builder!Transaction(r, FALSE, floor, Builder!MergeApprovals(A), c, flush)
  BY BuiltSplit
<1>2. /\ m \in Nat \ {0} /\ floor \in Nat /\ L \in [1..m -> Seq(V)]
      /\ Chained(c, First(r), Final(r), Self, r.deadline)
  BY SplitParts
<1>3. ASSUME NEW k \in 1..m
      PROVE  /\ Suited(M[k], L[k], First(r)) /\ M[k] \in Seq({M[k][i] : i \in DOMAIN M[k]})
             /\ Len(L[k]) >= 1
  <2>. DEFINE leg == r.quote.splits[k]
  <2>1. SimpleRoute(leg) /\ leg.path[1] = First(r)
    BY DEF Quoted, First
  <2>. HIDE DEF leg
  <2>2. M[k] = Builder!RouteApprovals(leg, LegAmounts(r)[k])
        /\ L[k] = Builder!RouteCalls(leg, LegAmounts(r)[k], LegMinimum(r)[k], Self, r.deadline)
    BY DEF LegApprovals, LegCalls, Legs, leg
  <2>3. PICK a, n : a = M[k] /\ n = Len(leg.hops)
    OBVIOUS
  <2>4. n \in Nat /\ n >= 1
    BY <2>1, <2>3, RouteShape
  <2>5. Suited(a, L[k], First(r)) /\ a = [p \in 1..n |-> a[p]]
    BY <2>1, <2>2, <2>3, RouteSuited
  <2>6. a \in Seq({a[i] : i \in DOMAIN a})
    <3>. DEFINE W == {a[i] : i \in DOMAIN a}
    <3>1. \A i \in 1..n : a[i] \in W
      BY <2>5
    <3>. HIDE DEF W
    <3>2. a \in [1..n -> W]
      BY <2>5, <3>1
    <3>3. a \in Seq(W)
      BY <2>4, <3>2
    <3>. QED
      BY <3>3 DEF W
  <2>7. Len(L[k]) = n
    BY <2>2, <2>3, <2>4 DEF Builder!RouteCalls
  <2>. HIDE DEF M, L
  <2>. QED
    BY <2>3, <2>4, <2>5, <2>6, <2>7
<1>4. M \in [1..m -> Seq(U)]
  <2>1. M = [k \in 1..m |-> M[k]]
    BY DEF LegApprovals, Legs
  <2>2. ASSUME NEW k \in 1..m PROVE M[k] \in Seq(U)
    <3>. DEFINE W == {M[k][i] : i \in DOMAIN M[k]}
    <3>1. W \subseteq U
      OBVIOUS
    <3>2. M[k] \in Seq(W)
      BY <1>3
    <3>. HIDE DEF W, U, M
    <3>. QED
      BY <3>1, <3>2
  <2>. HIDE DEF U, M
  <2>. QED
    BY <2>1, <2>2
<1>. HIDE DEF L, M, V, U, floor, m, s
<1>5. Suited(A, c, First(r)) /\ A \in Seq(U) /\ c \in Seq(V)
  <2>1. Suited(Builder!FlattenSeq(M), Builder!FlattenSeq(L), First(r))
        /\ Builder!FlattenSeq(M) \in Seq(U) /\ Builder!FlattenSeq(L) \in Seq(V)
    BY <1>2, <1>3, <1>4, SuitedLegs
  <2>. QED
    BY <2>1 DEF L, M
<1>6. Len(c) >= 1
  <2>1. PICK F \in [1..m -> Seq(V)] : JoinsOf(F, L, m) /\ Builder!FlattenSeq(L) = F[m]
    BY <1>2, FlattenFacts
  <2>2. m \in 1..m
    BY <1>2
  <2>3. CASE m = 1
    <3>1. F[m] = L[m]
      BY <2>1, <2>3 DEF JoinsOf
    <3>. QED
      BY <1>3, <2>1, <2>2, <3>1 DEF L
  <2>4. CASE m # 1
    <3>1. m \in 2..m /\ m - 1 \in 1..m
      BY <1>2, <2>4
    <3>2. F[m] = F[m - 1] \o L[m]
      BY <2>1, <3>1 DEF JoinsOf
    <3>3. PICK p \in Seq(V), t \in Seq(V) : p = F[m - 1] /\ t = L[m]
      BY <1>2, <2>1, <2>2, <3>1
    <3>4. Len(p \o t) = Len(p) + Len(t) /\ Len(p) \in Nat /\ Len(t) \in Nat
      OBVIOUS
    <3>5. Len(t) >= 1
      BY <1>3, <2>2, <3>3
    <3>6. Len(p \o t) >= 1
      BY <3>4, <3>5
    <3>7. c = p \o t
      BY <2>1, <3>2, <3>3 DEF L
    <3>. QED
      BY <3>6, <3>7
  <2>. QED
    BY <2>3, <2>4
<1>. HIDE DEF A, c
<1>7. PICK n \in Nat : n = Len(c)
  BY <1>5
<1>8. A = [p \in 1..n |-> A[p]]
  <2>1. Len(A) = n
    BY <1>5, <1>7 DEF Suited
  <2>. QED
    BY <1>5, <2>1
<1>9. Fields(r, s) /\ Enclosed(r, s, c) /\ s.deadline = r.deadline
      /\ s.approvals = Builder!MergeApprovals(A)
  <2>1. PICK direct \in BOOLEAN : direct = FALSE
    OBVIOUS
  <2>2. PICK merged : merged = Builder!MergeApprovals(A)
    OBVIOUS
  <2>3. s = Builder!Transaction(r, direct, floor, merged, c, flush) /\ (direct => ~r.nativeOut)
    BY <1>1, <2>1, <2>2
  <2>4. floor \in Nat /\ c \in Seq(V)
    BY <1>2, <1>5
  <2>. QED
    BY <2>2, <2>3, <2>4, TransactionParts
<1>10. s.calls \in Seq(Call)
  BY DEF SwapTransaction, s
<1>11. A \in Seq(Approval)
  BY <1>2, <1>5, <1>7, <1>8, <1>9, <1>10, ApprovalsTyped
<1>12. MergeOf(s.approvals, A, Len(A))
  BY <1>9, <1>11, MergeFacts
<1>13. Fitted(r, s, c, A, Self)
  BY <1>2, <1>5, <1>6, <1>9, <1>12 DEF Fitted
<1>14. FittingPlan(s)
  BY <1>13, FittedFits
<1>. QED
  BY <1>14 DEF s

(* Whatever the builder makes of a quote fits together: its approvals are  *)
(* enough for its calls, one per token and router, its injections write    *)
(* within the calldata what the call before has brought, and its fixed     *)
(* amounts are of a token that only the input brings.                      *)
THEOREM BuiltPlansFit ==
  ASSUME NEW r, Quoted(r), Builder!CanBuild(r), Builder!Build(r) \in SwapTransaction
  PROVE  FittingPlan(Builder!Build(r))
BY SinglesFit, SplitsFit

-----------------------------------------------------------------------------
(* The executor.                                                           *)

Balances == [Assets -> [Accounts -> Nat]]

(* The snapshot of the running transaction has one entry per flushed token. *)
SnapshotInv == phase # "idle" => Len(before.tokens) = Len(cur.flush)

TypeInv == TypeOK /\ SnapshotInv

-----------------------------------------------------------------------------
(* Moving amounts.                                                         *)

(* Taking what is there leaves natural numbers.                            *)
LEMMA DebitType ==
  ASSUME NEW b \in Balances, NEW a \in Assets, NEW x \in Accounts, NEW n \in Nat,
         b[a][x] >= n
  PROVE  Debit(b, a, x, n) \in Balances
BY DEF Debit, Balances

(* Adding to an account leaves natural numbers.                            *)
LEMMA CreditType ==
  ASSUME NEW b \in Balances, NEW a \in Assets, NEW x \in Accounts, NEW n \in Nat
  PROVE  Credit(b, a, x, n) \in Balances
BY DEF Credit, Balances

(* Where an amount went, account by account.                               *)
LEMMA DebitValue ==
  ASSUME NEW b \in Balances, NEW a \in Assets, NEW x \in Accounts, NEW n \in Nat,
         NEW c \in Assets, NEW y \in Accounts
  PROVE  Debit(b, a, x, n)[c][y] = IF c = a /\ y = x THEN b[a][x] - n ELSE b[c][y]
BY DEF Debit, Balances

(* Where an amount arrived, account by account.                            *)
LEMMA CreditValue ==
  ASSUME NEW b \in Balances, NEW a \in Assets, NEW x \in Accounts, NEW n \in Nat,
         NEW c \in Assets, NEW y \in Accounts
  PROVE  Credit(b, a, x, n)[c][y] = IF c = a /\ y = x THEN b[a][x] + n ELSE b[c][y]
BY DEF Credit, Balances

(* An amount moved from an account that has it to another one.             *)
LEMMA MoveType ==
  ASSUME NEW b \in Balances, NEW a \in Assets, NEW x \in Accounts, NEW n \in Nat,
         b[a][x] >= n,
         NEW c \in Assets, NEW y \in Accounts, NEW m \in Nat
  PROVE  Credit(Debit(b, a, x, n), c, y, m) \in Balances
BY DebitType, CreditType

(* Growth is a natural number, at most what is held, and takes the held    *)
(* amount down to what it was.                                             *)
LEMMA GrowthBound ==
  ASSUME NEW held \in Nat, NEW was \in Nat
  PROVE  /\ Growth(held, was) \in Nat
         /\ held >= Growth(held, was)
         /\ held - Growth(held, was) <= was
BY DEF Growth

(* What is left of an allowance, and that nothing becomes something.       *)
LEMMA SpendType ==
  ASSUME NEW granted \in Nat, NEW n \in Nat, granted >= n
  PROVE  Spend(granted, n) \in Nat /\ (Spend(granted, n) # 0 => granted # 0)
BY AssetsAssumption DEF Spend

-----------------------------------------------------------------------------
(* Type correctness.                                                       *)

(* The parts of a transaction are what their types say.                    *)
LEMMA SwapParts ==
  ASSUME NEW s \in Swaps
  PROVE  /\ s.by \in Users /\ s.by \in Accounts /\ s.value \in Nat
         /\ s.amountIn \in Nat /\ s.assetIn \in Assets
         /\ s.pulls \in Seq(Pull)
         /\ s.approvals \in Seq(Approval)
         /\ s.calls \in Seq(Call)
         /\ s.flush \in Seq(Tokens)
BY SwapsAssumption DEF SwapTransaction, Accounts

(* The initial state is well typed.                                        *)
LEMMA InitType == Init => TypeInv
<1>1. ASSUME Init PROVE chain \in World
  BY <1>1, AssetsAssumption DEF Init, World, Accounts, Assets
<1>2. Init => before \in Snapshot
  BY DEF Init, NoSnapshot, Snapshot
<1>3. (CHOOSE s \in Swaps : TRUE) \in Swaps
  BY SwapsAssumption
<1>4. SUFFICES ASSUME Init PROVE TypeOK /\ SnapshotInv
  BY DEF TypeInv
<1>5. mem = chain /\ chain \in World
  BY <1>1, <1>4 DEF Init
<1>6. /\ now \in Nat /\ step \in Nat \ {0} /\ started \in Nat
      /\ phase \in Phases /\ outcome \in Outcomes
  BY <1>4 DEF Init, Phases, Outcomes
<1>9. paused \in BOOLEAN
  BY <1>4, Zenon DEF Init
<1>7. cur \in Swaps /\ before \in Snapshot
  BY <1>2, <1>3, <1>4 DEF Init
<1>8. TypeOK
  BY <1>5, <1>6, <1>7, <1>9 DEF TypeOK
<1>. QED
  BY <1>4, <1>8 DEF Init, SnapshotInv

(* A world whose balances are replaced by balances is a world.             *)
LEMMA WorldBal ==
  ASSUME NEW w \in World, NEW b \in Balances
  PROVE  [w EXCEPT !.bal = b] \in World
BY DEF World, Balances
(* Its balances replaced by what is left after moving an amount.           *)
LEMMA WorldMove ==
  ASSUME NEW w \in World,
         NEW a \in Assets, NEW x \in Accounts, NEW n \in Nat, w.bal[a][x] >= n,
         NEW c \in Assets, NEW y \in Accounts, NEW m \in Nat
  PROVE  [w EXCEPT !.bal = Credit(Debit(w.bal, a, x, n), c, y, m)] \in World
<1>1. w.bal \in Balances
  BY DEF World, Balances
<1>. QED
  BY <1>1, MoveType, WorldBal

(* A world with one allowance set is a world.                              *)
LEMMA WorldAllowance ==
  ASSUME NEW w \in World, NEW t \in Tokens, NEW r \in Routers, NEW n \in Nat
  PROVE  [w EXCEPT !.allowance[t][r] = n] \in World
BY DEF World

(* A world with one grant set is a world.                                  *)
LEMMA WorldGrant ==
  ASSUME NEW w \in World, NEW u \in Users, NEW t \in Tokens, NEW n \in Nat
  PROVE  [w EXCEPT !.grant[u][t] = n] \in World
BY DEF World

(* The amounts in a world are natural numbers.                             *)
LEMMA WorldNat ==
  ASSUME NEW w \in World
  PROVE  /\ \A a \in Assets, x \in Accounts : w.bal[a][x] \in Nat
         /\ \A u \in Users, t \in Tokens : w.grant[u][t] \in Nat
         /\ \A t \in Tokens, r \in Routers : w.allowance[t][r] \in Nat
BY DEF World

(* A loop body that leaves a world behind keeps the types.                 *)
LEMMA AdvanceType ==
  ASSUME TypeInv, Advance, mem' \in World
  PROVE  TypeInv'
BY DEF TypeInv, TypeOK, SnapshotInv, Advance

(* A revert keeps the types.                                               *)
LEMMA RevertType ==
  ASSUME TypeInv, NEW why \in Outcomes, Revert(why)
  PROVE  TypeInv'
<1>1. before' \in Snapshot
  BY DEF Revert, NoSnapshot, Snapshot
<1>. QED
  BY <1>1 DEF TypeInv, TypeOK, SnapshotInv, Revert, Phases

(* So does what happens between transactions.                              *)
LEMMA BetweenType ==
  ASSUME TypeInv, NEW w \in World, Between(w),
         paused' \in BOOLEAN, now' \in Nat, started' \in Nat
  PROVE  TypeInv'
BY DEF TypeInv, TypeOK, SnapshotInv, Between

-----------------------------------------------------------------------------
(* The element a loop body works on.                                       *)

(* The executor and the users have accounts.                               *)
LEMMA SelfAccount == Self \in Accounts /\ \A u \in Users : u \in Accounts
BY DEF Accounts

(* What each loop runs over.                                               *)
LEMMA Loops ==
  /\ Work("pull") = cur.pulls /\ Work("approve") = cur.approvals
  /\ Work("call") = cur.calls /\ Work("revoke") = cur.approvals
  /\ Work("flush") = cur.flush
BY DEF Work

(* The pull that is due.                                                   *)
LEMMA TurnPull ==
  ASSUME TypeInv, Turn("pull")
  PROVE  /\ step \in 1..Len(cur.pulls)
         /\ cur.pulls[step].token \in Tokens /\ cur.pulls[step].amount \in Nat
<1>1. cur.pulls \in Seq(Pull)
  BY SwapParts DEF TypeInv, TypeOK
<1>2. step \in 1..Len(cur.pulls)
  BY <1>1, Loops DEF TypeInv, TypeOK, Turn
<1>3. cur.pulls[step] \in Pull
  BY <1>1, <1>2
<1>. QED
  BY <1>2, <1>3 DEF Pull

(* The approval that is to be set or revoked.                              *)
LEMMA TurnApproval ==
  ASSUME TypeInv, Turn("approve") \/ Turn("revoke")
  PROVE  /\ step \in 1..Len(cur.approvals)
         /\ cur.approvals[step] \in Approval
         /\ cur.approvals[step].token \in Tokens
         /\ cur.approvals[step].spender \in Routers
         /\ cur.approvals[step].amount \in Nat
<1>1. cur.approvals \in Seq(Approval)
  BY SwapParts DEF TypeInv, TypeOK
<1>2. step \in 1..Len(cur.approvals)
  BY <1>1, Loops DEF TypeInv, TypeOK, Turn
<1>3. cur.approvals[step] \in Approval
  BY <1>1, <1>2
<1>. QED
  BY <1>2, <1>3 DEF Approval

(* The call that is due.                                                   *)
LEMMA TurnCall ==
  ASSUME TypeInv, Turn("call")
  PROVE  /\ step \in 1..Len(cur.calls)
         /\ cur.calls[step] \in Call
<1>1. cur.calls \in Seq(Call)
  BY SwapParts DEF TypeInv, TypeOK
<1>2. step \in 1..Len(cur.calls)
  BY <1>1, Loops DEF TypeInv, TypeOK, Turn
<1>. QED
  BY <1>1, <1>2

(* The token that is to be flushed, and its snapshot.                      *)
LEMMA TurnFlush ==
  ASSUME TypeInv, Turn("flush")
  PROVE  /\ step \in 1..Len(cur.flush)
         /\ cur.flush[step] \in Tokens
         /\ before.tokens[step] \in Nat
<1>4. cur.flush \in Seq(Tokens)
  BY SwapParts DEF TypeInv, TypeOK
<1>1. step \in 1..Len(cur.flush)
  BY <1>4, Loops DEF TypeInv, TypeOK, Turn
<1>2. before.tokens \in Seq(Nat)
  BY DEF TypeInv, TypeOK, Snapshot
<1>3. Len(before.tokens) = Len(cur.flush)
  BY DEF TypeInv, SnapshotInv, Turn
<1>. QED
  BY <1>1, <1>2, <1>3, <1>4

(* The words a target receives are numbers, whatever was overwritten.      *)
LEMMA SentType ==
  ASSUME TypeInv, NEW c \in Call
  PROVE  /\ Sent(c)["amountIn"] \in Nat
         /\ Sent(c)["amountOutMin"] \in Nat
<1>1. ASSUME Injects(c) PROVE Held(c.injectToken) \in Nat
  <2>1. c.injectToken \in Assets
    BY <1>1 DEF Call, Injects, Assets
  <2>. QED
    BY <2>1, WorldNat, SelfAccount DEF TypeInv, TypeOK, Held
<1>2. c.words \in [Numbers -> Nat]
  BY DEF Call
<1>3. Sent(c) \in [Numbers -> Nat]
  <2>1. CASE Injects(c)
    BY <2>1, <1>1, <1>2 DEF Sent, Overwrite
  <2>2. CASE ~Injects(c)
    BY <2>2, <1>2 DEF Sent
  <2>. QED
    BY <2>1, <2>2
<1>. QED
  BY <1>3 DEF Numbers

(* The facts of a call that goes through: the amounts are numbers, its     *)
(* tokens are tokens, and the executor holds what it spends.               *)
LEMMA SwapCallFacts ==
  ASSUME TypeInv, NEW c \in Call, c.kind \in SwapKinds, Fault(c) = "ok"
  PROVE  /\ c.tokenIn \in Tokens /\ c.tokenOut \in Tokens
         /\ c.recipient \in Accounts /\ c.target \in Routers
         /\ Held(c.tokenIn) >= Sent(c)["amountIn"]
         /\ mem.allowance[c.tokenIn][c.target] >= Sent(c)["amountIn"]
<1>1. c.tokenIn \in Tokens /\ c.tokenOut \in Tokens /\ c.recipient \in Accounts
  BY DEF Call
<1>2. TargetFault(c, Sent(c)) = "ok"
  BY DEF Fault
<1>3. c.kind # "deposit" /\ c.kind # "withdraw"
  BY DEF SwapKinds
<1>4. ~(mem.allowance[c.tokenIn][c.target] < Sent(c)["amountIn"])
      /\ ~(Held(c.tokenIn) < Sent(c)["amountIn"])
  BY <1>2, <1>3 DEF TargetFault
<1>5. c.tokenIn \in Assets /\ c.target \in Routers
  BY DEF Call, Assets
<1>6. Held(c.tokenIn) \in Nat /\ mem.allowance[c.tokenIn][c.target] \in Nat
  BY <1>1, <1>5, WorldNat, SelfAccount DEF TypeInv, TypeOK, Held
<1>7. Sent(c)["amountIn"] \in Nat
  BY SentType
<1>. QED
  BY <1>1, <1>4, <1>5, <1>6, <1>7

(* A wrapping or unwrapping that goes through is covered.                  *)
LEMMA WrapCallFacts ==
  ASSUME TypeInv, NEW c \in Call, Fault(c) = "ok"
  PROVE  /\ c.kind = "deposit" => c.value \in Nat /\ Held(ETH) >= c.value
         /\ c.kind = "withdraw" => Held(WETH) >= Sent(c)["amountIn"]
<1>1. TargetFault(c, Sent(c)) = "ok"
  BY DEF Fault
<1>2. ETH \in Assets /\ WETH \in Assets
  BY AssetsAssumption DEF Assets
<1>3. Held(ETH) \in Nat /\ Held(WETH) \in Nat
  BY <1>2, WorldNat, SelfAccount DEF TypeInv, TypeOK, Held
<1>4. c.value \in Nat /\ Sent(c)["amountIn"] \in Nat
  BY SentType DEF Call
<1>5. c.kind = "deposit" => ~(Held(ETH) < c.value)
  BY <1>1 DEF TargetFault
<1>6. c.kind = "withdraw" => ~(Held(WETH) < Sent(c)["amountIn"])
  BY <1>1 DEF TargetFault
<1>. QED
  BY <1>3, <1>4, <1>5, <1>6

(* Every reason for a revert is an outcome.                                *)
LEMMA FaultType ==
  ASSUME NEW c \in Call, Fault(c) # "ok"
  PROVE  Fault(c) \in Outcomes
<1>1. InjectionFault(c) \in {"ok", "zero", "offset", "garbled"}
  BY DEF InjectionFault
<1>2. TargetFault(c, Sent(c)) \in {"ok", "balance", "expired", "allowance"}
  BY DEF TargetFault
<1>. QED
  BY <1>1, <1>2 DEF Fault, Outcomes

-----------------------------------------------------------------------------
(* One step of the executor keeps the types: one case per action.          *)
LEMMA NextType == TypeInv /\ [Next]_vars => TypeInv'
<1>. SUFFICES ASSUME TypeInv, [Next]_vars PROVE TypeInv'
  OBVIOUS
<1>w. /\ mem \in World /\ chain \in World /\ mem.bal \in Balances
      /\ \A a \in Assets : Held(a) \in Nat
  BY WorldNat, SelfAccount DEF TypeInv, TypeOK, World, Balances, Held
<1>a. ETH \in Assets /\ WETH \in Assets /\ Tokens \subseteq Assets
  BY AssetsAssumption DEF Assets
<1>1. CASE EndLoop
  <2>1. phase' \in Phases /\ step' = 1
    BY <1>1 DEF EndLoop, Following, Phases
  <2>2. phase # "idle"
    BY <1>1 DEF EndLoop, Following
  <2>. QED
    BY <1>1, <2>1, <2>2 DEF EndLoop, TypeInv, TypeOK, SnapshotInv
<1>2. CASE PullToken
  <2>. DEFINE p == cur.pulls[step]
  <2>1. p.token \in Tokens /\ p.amount \in Nat /\ cur.by \in Users /\ cur.by \in Accounts
    BY <1>2, TurnPull, SwapParts DEF PullToken, TypeInv, TypeOK
  <2>2. mem.bal[p.token][cur.by] >= p.amount /\ mem.grant[cur.by][p.token] >= p.amount
    BY <1>2 DEF PullToken, CanPull
  <2>. DEFINE b == Credit(Debit(mem.bal, p.token, cur.by, p.amount), p.token, Self, p.amount)
              g == Spend(mem.grant[cur.by][p.token], p.amount)
  <2>3. b \in Balances
    BY <2>1, <2>2, <1>w, <1>a, MoveType, SelfAccount
  <2>4. g \in Nat
    BY <2>1, <2>2, <1>w, WorldNat, SpendType
  <2>5. mem' = [[mem EXCEPT !.bal = b] EXCEPT !.grant[cur.by][p.token] = g]
    BY <1>2, <1>w DEF PullToken, World
  <2>6. mem' \in World
    BY <2>1, <2>3, <2>4, <2>5, <1>w, WorldBal, WorldGrant
  <2>. QED
    BY <2>6, <1>2, AdvanceType DEF PullToken
<1>3. CASE PullFails
  BY <1>3, RevertType DEF PullFails, Outcomes
<1>4. CASE SetApproval
  <2>1. mem' \in World
    BY <1>4, <1>w, TurnApproval, WorldAllowance DEF SetApproval
  <2>. QED
    BY <2>1, <1>4, AdvanceType DEF SetApproval
<1>5. CASE RevokeApproval
  <2>1. mem' \in World
    BY <1>5, <1>w, TurnApproval, WorldAllowance DEF RevokeApproval
  <2>. QED
    BY <2>1, <1>5, AdvanceType DEF RevokeApproval
<1>6. CASE SwapCall
  <2>. DEFINE c == cur.calls[step]
              n == Sent(c)["amountIn"]
              m == Sent(c)["amountOutMin"]
  <2>1. /\ c \in Call /\ c.kind \in SwapKinds /\ Fault(c) = "ok"
    BY <1>6, TurnCall DEF SwapCall
  <2>2. PICK extra \in Surplus :
          mem' = [mem EXCEPT
                    !.bal = Credit(Debit(mem.bal, c.tokenIn, Self, n),
                                   c.tokenOut, c.recipient, m + extra),
                    !.allowance[c.tokenIn][c.target] = Spend(@, n)]
    BY <1>6 DEF SwapCall
  <2>3. /\ c.tokenIn \in Tokens /\ c.tokenOut \in Tokens /\ c.recipient \in Accounts
        /\ c.target \in Routers /\ n \in Nat /\ m + extra \in Nat
    BY <2>1, SwapCallFacts, SentType, AssetsAssumption
  <2>4. mem.bal[c.tokenIn][Self] >= n /\ mem.allowance[c.tokenIn][c.target] >= n
    BY <2>1, SwapCallFacts DEF Held
  <2>. DEFINE b == Credit(Debit(mem.bal, c.tokenIn, Self, n), c.tokenOut, c.recipient, m + extra)
              g == Spend(mem.allowance[c.tokenIn][c.target], n)
  <2>5. b \in Balances
    BY <2>3, <2>4, <1>w, <1>a, MoveType, SelfAccount
  <2>6. g \in Nat
    BY <2>3, <2>4, <1>w, WorldNat, SpendType
  <2>7. mem' = [[mem EXCEPT !.bal = b] EXCEPT !.allowance[c.tokenIn][c.target] = g]
    BY <2>2, <1>w DEF World
  <2>8. mem' \in World
    BY <2>3, <2>5, <2>6, <2>7, <1>w, WorldBal, WorldAllowance
  <2>. QED
    BY <2>8, <1>6, AdvanceType DEF SwapCall
<1>7. CASE WrapCall
  <2>. DEFINE c == cur.calls[step]
  <2>1. c \in Call /\ c.kind = "deposit" /\ Fault(c) = "ok"
    BY <1>7, TurnCall DEF WrapCall
  <2>2. c.value \in Nat /\ mem.bal[ETH][Self] >= c.value
    BY <2>1, WrapCallFacts DEF Held
  <2>3. mem' = [mem EXCEPT !.bal =
                  Credit(Debit(mem.bal, ETH, Self, c.value), WETH, Self, c.value)]
    BY <1>7 DEF WrapCall
  <2>4. mem' \in World
    BY <2>2, <2>3, <1>w, <1>a, WorldMove, SelfAccount
  <2>. QED
    BY <2>4, <1>7, AdvanceType DEF WrapCall
<1>8. CASE UnwrapCall
  <2>. DEFINE c == cur.calls[step]
              n == Sent(c)["amountIn"]
  <2>1. c \in Call /\ c.kind = "withdraw" /\ Fault(c) = "ok"
    BY <1>8, TurnCall DEF UnwrapCall
  <2>2. n \in Nat /\ mem.bal[WETH][Self] >= n
    BY <2>1, WrapCallFacts, SentType DEF Held
  <2>3. mem' = [mem EXCEPT !.bal = Credit(Debit(mem.bal, WETH, Self, n), ETH, Self, n)]
    BY <1>8 DEF UnwrapCall
  <2>4. mem' \in World
    BY <2>2, <2>3, <1>w, <1>a, WorldMove, SelfAccount
  <2>. QED
    BY <2>4, <1>8, AdvanceType DEF UnwrapCall
<1>9. CASE CallFails
  <2>. DEFINE c == cur.calls[step]
  <2>1. c \in Call
    BY <1>9, TurnCall DEF CallFails
  <2>2. \E why \in Outcomes : Revert(why)
    <3>1. CASE Fault(c) # "ok"
      BY <3>1, <2>1, <1>9, FaultType DEF CallFails
    <3>2. CASE Fault(c) = "ok"
      BY <3>2, <1>9 DEF CallFails, Outcomes
    <3>. QED
      BY <3>1, <3>2
  <2>. QED
    BY <2>2, RevertType
<1>10. CASE FlushToken
  <2>. DEFINE t == cur.flush[step]
              n == Growth(Held(t), before.tokens[step])
  <2>1. t \in Assets /\ before.tokens[step] \in Nat
    BY <1>10, <1>a, TurnFlush DEF FlushToken
  <2>2. n \in Nat /\ mem.bal[t][Self] >= n
    BY <2>1, <1>w, GrowthBound DEF Held
  <2>3. mem' = [mem EXCEPT !.bal = Credit(Debit(mem.bal, t, Self, n), t, cur.by, n)]
    BY <1>10 DEF FlushToken
  <2>4. cur.by \in Accounts
    BY SwapParts DEF TypeInv, TypeOK
  <2>5. mem' \in World
    BY <2>1, <2>2, <2>3, <2>4, <1>w, WorldMove, SelfAccount
  <2>. QED
    BY <2>5, <1>10, AdvanceType DEF FlushToken
<1>11. CASE Commit
  <2>. DEFINE n == Growth(Held(ETH), before.eth)
  <2>1. before.eth \in Nat /\ cur.by \in Accounts
    BY SwapParts DEF TypeInv, TypeOK, Snapshot
  <2>2. n \in Nat /\ mem.bal[ETH][Self] >= n
    BY <2>1, <1>w, <1>a, GrowthBound DEF Held
  <2>3. mem' = [mem EXCEPT !.bal = Credit(Debit(mem.bal, ETH, Self, n), ETH, cur.by, n)]
    BY <1>11 DEF Commit
  <2>4. mem' \in World
    BY <2>1, <2>2, <2>3, <1>w, <1>a, WorldMove, SelfAccount
  <2>5. before' \in Snapshot
    BY <1>11 DEF Commit, NoSnapshot, Snapshot
  <2>. QED
    BY <2>4, <2>5, <1>11 DEF Commit, TypeInv, TypeOK, SnapshotInv, Phases, Outcomes
<1>12. ASSUME NEW s \in Swaps, Execute(s) PROVE TypeInv'
  <2>1. s.by \in Accounts /\ s.value \in Nat /\ s.flush \in Seq(Tokens)
    BY SwapParts
  <2>2. mem' = [mem EXCEPT !.bal =
                  Credit(Debit(mem.bal, ETH, s.by, s.value), ETH, Self, s.value)]
    BY <1>12 DEF Execute
  <2>3. mem' \in World
    BY <2>1, <2>2, <1>12, <1>w, <1>a, WorldMove, SelfAccount DEF Execute
  <2>4. before' \in Snapshot /\ Len(before'.tokens) = Len(s.flush)
    <3>1. Len(s.flush) \in Nat
      BY <2>1
    <3>. DEFINE list == [k \in 1..Len(s.flush) |-> Held(s.flush[k])]
    <3>2. \A k \in 1..Len(s.flush) : Held(s.flush[k]) \in Nat
      BY <2>1, <1>a, <1>w
    <3>3. list \in Seq(Nat) /\ Len(list) = Len(s.flush)
      BY <3>1, <3>2
    <3>4. before' = [tokens |-> list, eth |-> Held(ETH)]
      BY <1>12 DEF Execute
    <3>. QED
      BY <3>3, <3>4, <1>a, <1>w DEF Snapshot
  <2>. QED
    BY <2>3, <2>4, <1>12 DEF Execute, TypeInv, TypeOK, SnapshotInv, Phases
<1>13. ASSUME NEW s \in Swaps, ExecutePaused(s) PROVE TypeInv'
  BY <1>13 DEF ExecutePaused, TypeInv, TypeOK, SnapshotInv, Outcomes
<1>14. ASSUME NEW s \in Swaps, ApproveExecutor(s) PROVE TypeInv'
  <2>2. PICK n \in {s.amountIn, MaxUint} :
          Between([chain EXCEPT !.grant[s.by][s.assetIn] = n])
    BY <1>14 DEF ApproveExecutor
  <2>3. n \in Nat
    BY SwapParts, AssetsAssumption
  <2>1. [chain EXCEPT !.grant[s.by][s.assetIn] = n] \in World
    BY <1>14, <2>3, <1>w, SwapParts, WorldGrant DEF ApproveExecutor
  <2>. QED
    BY <2>1, <2>2, <1>14, BetweenType DEF ApproveExecutor, TypeInv, TypeOK
<1>15. ASSUME NEW a \in Assets, Rescue(a) PROVE TypeInv'
  <2>1. PICK n \in 1..chain.bal[a][Self] :
          Between([chain EXCEPT !.bal = Debit(chain.bal, a, Self, n)])
    BY <1>15 DEF Rescue
  <2>2. chain.bal \in Balances /\ n \in Nat /\ chain.bal[a][Self] >= n
    BY <1>w, WorldNat, SelfAccount DEF World, Balances
  <2>3. [chain EXCEPT !.bal = Debit(chain.bal, a, Self, n)] \in World
    BY <2>2, <1>w, DebitType, WorldBal, SelfAccount
  <2>. QED
    BY <2>1, <2>3, <1>15, BetweenType DEF Rescue, TypeInv, TypeOK
<1>16. ASSUME NEW a \in Assets, NEW n \in Strays, Donate(a, n) PROVE TypeInv'
  <2>1. chain.bal \in Balances /\ n \in Nat
    BY <1>w, AssetsAssumption DEF World, Balances
  <2>2. [chain EXCEPT !.bal = Credit(chain.bal, a, Self, n)] \in World
    BY <2>1, <1>w, CreditType, WorldBal, SelfAccount
  <2>. QED
    BY <2>2, <1>16, BetweenType DEF Donate, TypeInv, TypeOK
<1>17. CASE TogglePause
  <2>1. paused' \in BOOLEAN
    BY <1>17, Zenon DEF TogglePause
  <2>. QED
    BY <2>1, <1>17, <1>w, BetweenType DEF TogglePause, TypeInv, TypeOK
<1>18. CASE Tick
  BY <1>18, <1>w, BetweenType DEF Tick, TypeInv, TypeOK
<1>19. CASE UNCHANGED vars
  BY <1>19 DEF vars, TypeInv, TypeOK, SnapshotInv
<1>. QED
  BY <1>1, <1>2, <1>3, <1>4, <1>5, <1>6, <1>7, <1>8, <1>9, <1>10, <1>11, <1>12,
     <1>13, <1>14, <1>15, <1>16, <1>17, <1>18, <1>19
  DEF Next, Transaction, Environment

(* The executor's state is always well typed: balances and allowances stay *)
(* natural numbers, so no step spends what is not there.                   *)
THEOREM ExecutorTypes == Spec => []TypeOK
<1>1. TypeInv => TypeOK
  BY DEF TypeInv
<1>. QED
  BY <1>1, InitType, NextType, PTL DEF Spec

-----------------------------------------------------------------------------
(* What the two safety properties rest on.                                 *)

(* Between transactions the working state is the committed one.            *)
Settled == phase = "idle" => mem = chain

(* The revoking loop has an approval of t to r yet to visit.               *)
RevokedLater(t, r) ==
  \E k \in 1..Len(cur.approvals) :
    /\ cur.approvals[k].token = t /\ cur.approvals[k].spender = r
    /\ \/ phase \in {"approve", "call"}
       \/ phase = "revoke" /\ k >= step

(* Every allowance is one that was asked for, or is about to be revoked.   *)
AllowanceInv ==
  /\ Settled
  /\ \A t \in Tokens, r \in Routers : chain.allowance[t][r] # 0 => Kept(t, r)
  /\ \A t \in Tokens, r \in Routers :
       mem.allowance[t][r] # 0 => Kept(t, r) \/ RevokedLater(t, r)

(* The flushing loop has token t yet to visit.                             *)
FlushedLater(t) ==
  \E k \in 1..Len(cur.flush) :
    /\ cur.flush[k] = t
    /\ \/ phase \in {"pull", "approve", "call", "revoke"}
       \/ phase = "flush" /\ k >= step

(* What was noted before the pulls is what the chain holds.                *)
Noted ==
  phase # "idle" =>
    /\ \A k \in 1..Len(cur.flush) : before.tokens[k] = chain.bal[cur.flush[k]][Self]
    /\ before.eth = chain.bal[ETH][Self]

(* Whatever the executor holds more of than it did is about to be flushed. *)
FlushInv ==
  /\ Settled
  /\ Noted
  /\ \A t \in Tokens : mem.bal[t][Self] > chain.bal[t][Self] => FlushedLater(t)

-----------------------------------------------------------------------------
(* No standing allowance.                                                  *)

(* Nothing is allowed at first.                                            *)
LEMMA AllowanceInit == Init => AllowanceInv
BY DEF Init, AllowanceInv, Settled

(* A loop body other than the revoking one, which grants nothing.          *)
LEMMA AllowanceAdvance ==
  ASSUME AllowanceInv, Advance, phase \notin {"idle", "revoke"},
         \A t \in Tokens, r \in Routers :
           mem'.allowance[t][r] # 0 => mem.allowance[t][r] # 0
  PROVE  AllowanceInv'
BY DEF AllowanceInv, Settled, RevokedLater, Kept, Advance

(* A revert restores the allowances of before.                             *)
LEMMA AllowanceRevert ==
  ASSUME AllowanceInv, NEW why, Revert(why)
  PROVE  AllowanceInv'
BY DEF AllowanceInv, Settled, Kept, Revert

(* Between transactions no allowance changes.                              *)
LEMMA AllowanceBetween ==
  ASSUME AllowanceInv, NEW w, Between(w), w.allowance = chain.allowance
  PROVE  AllowanceInv'
BY DEF AllowanceInv, Settled, Kept, Between

(* Replacing the balances of a world leaves its allowances alone.          *)
LEMMA WorldFrame ==
  ASSUME NEW w \in World
  PROVE  /\ \A b : [w EXCEPT !.bal = b].allowance = w.allowance
         /\ \A b : [w EXCEPT !.bal = b].bal = b
BY DEF World

(* The entry that is set, and the entries that are not.                    *)
LEMMA AllowanceValue ==
  ASSUME NEW w \in World, NEW t \in Tokens, NEW r \in Routers, NEW n \in Nat,
         NEW t1 \in Tokens, NEW r1 \in Routers
  PROVE  [w EXCEPT !.allowance[t][r] = n].allowance[t1][r1]
           = IF t1 = t /\ r1 = r THEN n ELSE w.allowance[t1][r1]
BY DEF World

(* A router's allowance only shrinks when it spends it.                    *)
LEMMA AllowanceSwap ==
  ASSUME TypeInv, SwapCall, NEW t \in Tokens, NEW r \in Routers,
         mem'.allowance[t][r] # 0
  PROVE  mem.allowance[t][r] # 0
<1>. DEFINE c == cur.calls[step]
            n == Sent(c)["amountIn"]
<1>1. c \in Call /\ c.kind \in SwapKinds /\ Fault(c) = "ok"
  BY TurnCall DEF SwapCall
<1>2. PICK b :
        mem' = [mem EXCEPT !.bal = b, !.allowance[c.tokenIn][c.target] = Spend(@, n)]
  BY DEF SwapCall
<1>3. /\ c.tokenIn \in Tokens /\ c.target \in Routers /\ n \in Nat
      /\ mem.allowance[c.tokenIn][c.target] >= n
  BY <1>1, SwapCallFacts, SentType
<1>. DEFINE g == Spend(mem.allowance[c.tokenIn][c.target], n)
<1>4. mem \in World /\ mem.allowance[c.tokenIn][c.target] \in Nat
  BY <1>3, WorldNat DEF TypeInv, TypeOK
<1>5. mem'.allowance[t][r] = IF t = c.tokenIn /\ r = c.target THEN g ELSE mem.allowance[t][r]
  BY <1>2, <1>3, <1>4 DEF World
<1>6. g # 0 => mem.allowance[c.tokenIn][c.target] # 0
  BY <1>3, <1>4, SpendType
<1>. QED
  BY <1>5, <1>6

(* One case per action: only approvals raise allowances.                   *)
LEMMA AllowanceNext == TypeInv /\ AllowanceInv /\ [Next]_vars => AllowanceInv'
<1>. SUFFICES ASSUME TypeInv, AllowanceInv, [Next]_vars PROVE AllowanceInv'
  OBVIOUS
<1>w. mem \in World /\ chain \in World /\ cur \in Swaps /\ step \in Nat
  BY DEF TypeInv, TypeOK
<1>1. CASE EndLoop
  <2>1. /\ phase' = Following[phase] /\ step' = 1 /\ phase \in DOMAIN Following
        /\ UNCHANGED <<mem, chain, cur>>
    BY <1>1 DEF EndLoop
  <2>2. phase = "revoke" => step > Len(cur.approvals)
    BY <1>1, Loops DEF EndLoop
  <2>3. cur.approvals \in Seq(Approval)
    BY <1>w, SwapParts
  <2>4. ASSUME NEW t \in Tokens, NEW r \in Routers, RevokedLater(t, r)
        PROVE  RevokedLater(t, r)'
    BY <2>1, <2>2, <2>3, <2>4, <1>w DEF RevokedLater, Following
  <2>5. phase' # "idle"
    BY <2>1 DEF Following
  <2>. QED
    BY <2>1, <2>4, <2>5 DEF AllowanceInv, Settled, Kept
<1>2. CASE PullToken
  <2>1. mem'.allowance = mem.allowance
    BY <1>2, <1>w DEF PullToken, World
  <2>. QED
    BY <2>1, <1>2, AllowanceAdvance DEF PullToken, Turn
<1>3. CASE PullFails
  BY <1>3, AllowanceRevert DEF PullFails
<1>4. CASE SetApproval
  <2>. DEFINE a == cur.approvals[step]
  <2>1. /\ step \in 1..Len(cur.approvals)
        /\ a.token \in Tokens /\ a.spender \in Routers /\ a.amount \in Nat
    BY <1>4, TurnApproval DEF SetApproval
  <2>2. /\ mem' = [mem EXCEPT !.allowance[a.token][a.spender] = a.amount]
        /\ phase = "approve" /\ Advance
    BY <1>4 DEF SetApproval, Turn
  <2>3. ASSUME NEW t \in Tokens, NEW r \in Routers, mem'.allowance[t][r] # 0
        PROVE  Kept(t, r) \/ RevokedLater(t, r)
    <3>1. CASE t = a.token /\ r = a.spender
      BY <3>1, <2>1, <2>2 DEF RevokedLater
    <3>2. CASE ~(t = a.token /\ r = a.spender)
      BY <3>2, <2>1, <2>2, <2>3, <1>w, AllowanceValue DEF AllowanceInv
    <3>. QED
      BY <3>1, <3>2
  <2>. QED
    BY <2>2, <2>3 DEF AllowanceInv, Settled, RevokedLater, Kept, Advance
<1>5. CASE RevokeApproval
  <2>. DEFINE a == cur.approvals[step]
  <2>1. /\ step \in 1..Len(cur.approvals)
        /\ a.token \in Tokens /\ a.spender \in Routers /\ a \in Approval
    BY <1>5, TurnApproval DEF RevokeApproval
  <2>2. /\ mem' = IF a.revokeAfter
                  THEN [mem EXCEPT !.allowance[a.token][a.spender] = 0] ELSE mem
        /\ phase = "revoke" /\ Advance
    BY <1>5 DEF RevokeApproval, Turn
  <2>3. ASSUME NEW t \in Tokens, NEW r \in Routers, mem'.allowance[t][r] # 0
        PROVE  Kept(t, r) \/ RevokedLater(t, r)'
    <3>1. CASE t = a.token /\ r = a.spender
      <4>1. ASSUME a.revokeAfter PROVE FALSE
        <5>1. mem' = [mem EXCEPT !.allowance[a.token][a.spender] = 0]
          BY <4>1, <2>2, Zenon
        <5>2. mem'.allowance[t][r] = 0
          BY <5>1, <3>1, <2>1, <1>w, AllowanceValue
        <5>. QED
          BY <5>2, <2>3
      <4>. QED
        BY <4>1, <3>1, <2>1, <1>w DEF Kept
    <3>2. CASE ~(t = a.token /\ r = a.spender)
      <4>1. mem.allowance[t][r] # 0
        BY <3>2, <2>1, <2>2, <2>3, <1>w, AllowanceValue
      <4>2. Kept(t, r) \/ RevokedLater(t, r)
        BY <4>1 DEF AllowanceInv
      <4>3. RevokedLater(t, r) => RevokedLater(t, r)'
        BY <3>2, <2>1, <2>2, <1>w DEF RevokedLater, Advance
      <4>. QED
        BY <4>2, <4>3
    <3>. QED
      BY <3>1, <3>2
  <2>. QED
    BY <2>2, <2>3 DEF AllowanceInv, Settled, Kept, Advance
<1>6. CASE SwapCall
  BY <1>6, AllowanceSwap, AllowanceAdvance DEF SwapCall, Turn
<1>7. CASE WrapCall
  <2>1. mem'.allowance = mem.allowance
    BY <1>7, <1>w, WorldFrame DEF WrapCall
  <2>. QED
    BY <2>1, <1>7, AllowanceAdvance DEF WrapCall, Turn
<1>8. CASE UnwrapCall
  <2>1. mem'.allowance = mem.allowance
    BY <1>8, <1>w, WorldFrame DEF UnwrapCall
  <2>. QED
    BY <2>1, <1>8, AllowanceAdvance DEF UnwrapCall, Turn
<1>9. CASE CallFails
  BY <1>9, AllowanceRevert DEF CallFails
<1>10. CASE FlushToken
  <2>1. mem'.allowance = mem.allowance
    BY <1>10, <1>w, WorldFrame DEF FlushToken
  <2>. QED
    BY <2>1, <1>10, AllowanceAdvance DEF FlushToken, Turn
<1>11. CASE Commit
  <2>1. mem'.allowance = mem.allowance /\ chain' = mem' /\ phase = "eth" /\ phase' = "idle"
    BY <1>11, <1>w, WorldFrame DEF Commit
  <2>2. \A t \in Tokens, r \in Routers : ~RevokedLater(t, r)
    BY <2>1 DEF RevokedLater
  <2>. QED
    BY <2>1, <2>2 DEF AllowanceInv, Settled, Kept
<1>12. ASSUME NEW s \in Swaps, Execute(s) PROVE AllowanceInv'
  <2>1. /\ mem'.allowance = mem.allowance /\ chain' = chain
        /\ phase = "idle" /\ phase' = "pull"
    BY <1>12, <1>w, WorldFrame DEF Execute
  <2>2. \A t \in Tokens, r \in Routers : ~RevokedLater(t, r)
    BY <2>1 DEF RevokedLater
  <2>. QED
    BY <2>1, <2>2 DEF AllowanceInv, Settled, Kept
<1>13. ASSUME NEW s \in Swaps, ExecutePaused(s) PROVE AllowanceInv'
  BY <1>13 DEF ExecutePaused, AllowanceInv, Settled, Kept
<1>14. ASSUME NEW s \in Swaps, ApproveExecutor(s) PROVE AllowanceInv'
  <2>2. PICK n : Between([chain EXCEPT !.grant[s.by][s.assetIn] = n])
    BY <1>14 DEF ApproveExecutor
  <2>. DEFINE w == [chain EXCEPT !.grant[s.by][s.assetIn] = n]
  <2>1. Between(w) /\ w.allowance = chain.allowance
    BY <2>2, <1>w DEF World
  <2>. QED
    BY <2>1, AllowanceBetween
<1>15. ASSUME NEW a \in Assets, Rescue(a) PROVE AllowanceInv'
  BY <1>15, <1>w, WorldFrame, AllowanceBetween DEF Rescue
<1>16. ASSUME NEW a \in Assets, NEW n \in Strays, Donate(a, n) PROVE AllowanceInv'
  BY <1>16, <1>w, WorldFrame, AllowanceBetween DEF Donate
<1>17. CASE TogglePause
  BY <1>17, AllowanceBetween DEF TogglePause
<1>18. CASE Tick
  BY <1>18, AllowanceBetween DEF Tick
<1>19. CASE UNCHANGED vars
  BY <1>19 DEF vars, AllowanceInv, Settled, RevokedLater, Kept
<1>. QED
  BY <1>1, <1>2, <1>3, <1>4, <1>5, <1>6, <1>7, <1>8, <1>9, <1>10, <1>11, <1>12,
     <1>13, <1>14, <1>15, <1>16, <1>17, <1>18, <1>19
  DEF Next, Transaction, Environment

(* Whatever transactions are executed, in whatever order, once one is over *)
(* no router may spend anything of the executor's unless a transaction     *)
(* asked for its approval to stay.                                         *)
THEOREM AllowancesRevoked == Spec => []NoStandingAllowance
<1>1. AllowanceInv => NoStandingAllowance
  BY DEF AllowanceInv, NoStandingAllowance
<1>2. Init => TypeInv /\ AllowanceInv
  BY InitType, AllowanceInit
<1>3. TypeInv /\ AllowanceInv /\ [Next]_vars => (TypeInv /\ AllowanceInv)'
  BY NextType, AllowanceNext
<1>. QED
  BY <1>1, <1>2, <1>3, PTL DEF Spec

-----------------------------------------------------------------------------
(* Nothing stranded.                                                       *)

(* Nothing is to be flushed at first.                                      *)
LEMMA FlushInit == Init => FlushInv
<1>. SUFFICES ASSUME Init PROVE FlushInv
  OBVIOUS
<1>1. mem = chain /\ phase = "idle" /\ mem \in World
  BY InitType DEF Init, TypeInv, TypeOK
<1>2. \A t \in Tokens : mem.bal[t][Self] \in Nat
  BY <1>1, WorldNat, SelfAccount DEF Assets
<1>. QED
  BY <1>1, <1>2 DEF FlushInv, Settled, Noted

(* What the executor holds is a natural number.                            *)
LEMMA SelfHolds ==
  ASSUME TypeInv, NEW a \in Assets
  PROVE  mem.bal[a][Self] \in Nat /\ chain.bal[a][Self] \in Nat
BY WorldNat, SelfAccount DEF TypeInv, TypeOK

(* A loop body before the flush that raises only what will be flushed.     *)
LEMMA FlushAdvance ==
  ASSUME TypeInv, TypeInv', FlushInv, Advance,
         phase \in {"pull", "approve", "call", "revoke"},
         \A t \in Tokens : mem'.bal[t][Self] > mem.bal[t][Self] => Flushed(cur, t)
  PROVE  FlushInv'
<1>1. /\ UNCHANGED <<chain, phase, cur, before>>
  BY DEF Advance
<1>2. ASSUME NEW t \in Tokens, mem'.bal[t][Self] > chain.bal[t][Self]
      PROVE  FlushedLater(t)'
  <2>1. t \in Assets
    BY DEF Assets
  <2>2. mem.bal[t][Self] \in Nat /\ chain.bal[t][Self] \in Nat /\ mem'.bal[t][Self] \in Nat
    BY <2>1, WorldNat, SelfAccount DEF TypeInv, TypeOK
  <2>3. \/ mem.bal[t][Self] > chain.bal[t][Self]
        \/ mem'.bal[t][Self] > mem.bal[t][Self]
    BY <1>2, <2>2
  <2>4. Flushed(cur, t)
    BY <2>3 DEF FlushInv, FlushedLater, Flushed
  <2>. QED
    BY <1>1, <2>4 DEF FlushedLater, Flushed
<1>. QED
  BY <1>1, <1>2 DEF FlushInv, Settled, Noted

(* A revert leaves nothing to flush.                                       *)
LEMMA FlushRevert ==
  ASSUME TypeInv, NEW why, Revert(why)
  PROVE  FlushInv'
<1>1. \A t \in Tokens : chain.bal[t][Self] \in Nat
  BY SelfHolds DEF Assets
<1>. QED
  BY <1>1 DEF FlushInv, Settled, Noted, Revert

(* Neither does what happens between transactions.                         *)
LEMMA FlushBetween ==
  ASSUME TypeInv', NEW w, Between(w)
  PROVE  FlushInv'
<1>1. /\ mem' = chain' /\ phase' = "idle"
  BY DEF Between
<1>2. \A t \in Tokens : mem'.bal[t][Self] \in Nat
  BY WorldNat, SelfAccount DEF TypeInv, TypeOK, Assets
<1>. QED
  BY <1>1, <1>2 DEF FlushInv, Settled, Noted

(* n of a leaves the executor and m of c reach account y: the executor     *)
(* then holds more of c at most, and only if y is the executor.            *)
LEMMA MoveRaises ==
  ASSUME NEW b \in Balances, NEW a \in Assets, NEW x \in Accounts, NEW n \in Nat,
         b[a][x] >= n, NEW c \in Assets, NEW y \in Accounts, NEW m \in Nat,
         NEW t \in Assets,
         Credit(Debit(b, a, x, n), c, y, m)[t][Self] > b[t][Self]
  PROVE  t = c /\ y = Self
<1>1. Debit(b, a, x, n) \in Balances
  BY DebitType
<1>2. Credit(Debit(b, a, x, n), c, y, m)[t][Self]
        = IF t = c /\ Self = y THEN Debit(b, a, x, n)[c][y] + m
          ELSE Debit(b, a, x, n)[t][Self]
  BY <1>1, CreditValue, SelfAccount
<1>3. Debit(b, a, x, n)[t][Self] = IF t = a /\ Self = x THEN b[a][x] - n ELSE b[t][Self]
  BY DebitValue, SelfAccount
<1>4. b[t][Self] \in Nat /\ b[a][x] \in Nat
  BY SelfAccount DEF Balances
<1>. QED
  BY <1>2, <1>3, <1>4

(* What an account keeps of what is moved from the executor to another.    *)
LEMMA PaidOut ==
  ASSUME NEW b \in Balances, NEW a \in Assets, NEW u \in Users, NEW n \in Nat,
         b[a][Self] >= n, NEW t \in Assets
  PROVE  Credit(Debit(b, a, Self, n), a, u, n)[t][Self]
           = IF t = a THEN b[a][Self] - n ELSE b[t][Self]
<1>1. Debit(b, a, Self, n) \in Balances /\ u \in Accounts /\ u # Self /\ Self \in Accounts
  BY DebitType, SelfAccount, AssetsAssumption
<1>2. Credit(Debit(b, a, Self, n), a, u, n)[t][Self] = Debit(b, a, Self, n)[t][Self]
  BY <1>1, CreditValue
<1>. QED
  BY <1>1, <1>2, DebitValue

(* Every call raises a balance of the executor's only in a flushed token.  *)
LEMMA FlushCall ==
  ASSUME TypeInv, SwapCall \/ WrapCall \/ UnwrapCall,
         NEW t \in Tokens, mem'.bal[t][Self] > mem.bal[t][Self]
  PROVE  Flushed(cur, t)
<1>. DEFINE c == cur.calls[step]
            n == Sent(c)["amountIn"]
            m == Sent(c)["amountOutMin"]
<1>w. mem \in World /\ mem.bal \in Balances
  BY DEF TypeInv, TypeOK, World, Balances
<1>a. ETH \in Assets /\ WETH \in Tokens /\ WETH \in Assets /\ Tokens \subseteq Assets
      /\ ETH \notin Tokens
  BY AssetsAssumption DEF Assets
<1>c. c \in Call /\ step \in 1..Len(cur.calls) /\ cur \in Swaps
  BY TurnCall DEF SwapCall, WrapCall, UnwrapCall, TypeInv, TypeOK
<1>f. /\ c.kind \in SwapKinds /\ c.recipient = Self => Flushed(cur, c.tokenOut)
      /\ c.kind = "deposit" => Flushed(cur, WETH)
  BY <1>c, FlushAssumption
<1>1. CASE SwapCall
  <2>1. c.kind \in SwapKinds /\ Fault(c) = "ok"
    BY <1>1 DEF SwapCall
  <2>2. PICK extra \in Surplus :
          mem' = [mem EXCEPT
                    !.bal = Credit(Debit(mem.bal, c.tokenIn, Self, n),
                                   c.tokenOut, c.recipient, m + extra),
                    !.allowance[c.tokenIn][c.target] = Spend(@, n)]
    BY <1>1 DEF SwapCall
  <2>3. mem'.bal = Credit(Debit(mem.bal, c.tokenIn, Self, n),
                          c.tokenOut, c.recipient, m + extra)
    BY <2>2, <1>w DEF World
  <2>4. /\ c.tokenIn \in Assets /\ c.tokenOut \in Assets /\ c.recipient \in Accounts
        /\ n \in Nat /\ m + extra \in Nat /\ mem.bal[c.tokenIn][Self] >= n
    BY <2>1, <1>c, <1>a, SwapCallFacts, SentType, AssetsAssumption DEF Held
  <2>5. t = c.tokenOut /\ c.recipient = Self
    BY <2>3, <2>4, <1>w, <1>a, MoveRaises, SelfAccount
  <2>. QED
    BY <2>1, <2>5, <1>f
<1>2. CASE WrapCall
  <2>1. c.kind = "deposit" /\ Fault(c) = "ok"
    BY <1>2 DEF WrapCall
  <2>2. c.value \in Nat /\ mem.bal[ETH][Self] >= c.value
    BY <2>1, <1>c, WrapCallFacts DEF Held
  <2>3. mem'.bal = Credit(Debit(mem.bal, ETH, Self, c.value), WETH, Self, c.value)
    BY <1>2, <1>w, WorldFrame DEF WrapCall
  <2>4. t = WETH
    BY <2>2, <2>3, <1>w, <1>a, MoveRaises, SelfAccount
  <2>. QED
    BY <2>1, <2>4, <1>f
<1>3. CASE UnwrapCall
  <2>1. c.kind = "withdraw" /\ Fault(c) = "ok"
    BY <1>3 DEF UnwrapCall
  <2>2. n \in Nat /\ mem.bal[WETH][Self] >= n
    BY <2>1, <1>c, WrapCallFacts, SentType DEF Held
  <2>3. mem'.bal = Credit(Debit(mem.bal, WETH, Self, n), ETH, Self, n)
    BY <1>3, <1>w, WorldFrame DEF UnwrapCall
  <2>4. t = ETH
    BY <2>2, <2>3, <1>w, <1>a, MoveRaises, SelfAccount
  <2>. QED
    BY <2>4, <1>a
<1>. QED
  BY <1>1, <1>2, <1>3

(* One case per action: what has grown is still to be flushed.             *)
LEMMA FlushNext == TypeInv /\ TypeInv' /\ FlushInv /\ [Next]_vars => FlushInv'
<1>. SUFFICES ASSUME TypeInv, TypeInv', FlushInv, [Next]_vars PROVE FlushInv'
  OBVIOUS
<1>w. /\ mem \in World /\ chain \in World /\ mem.bal \in Balances
      /\ cur \in Swaps /\ step \in Nat /\ cur.by \in Users /\ cur.by \in Accounts
      /\ cur.flush \in Seq(Tokens)
  BY SwapParts DEF TypeInv, TypeOK, World, Balances
<1>a. ETH \in Assets /\ Tokens \subseteq Assets /\ ETH \notin Tokens
  BY AssetsAssumption DEF Assets
<1>1. CASE EndLoop
  <2>1. /\ phase' = Following[phase] /\ step' = 1 /\ phase \in DOMAIN Following
        /\ UNCHANGED <<mem, chain, cur, before>>
    BY <1>1 DEF EndLoop
  <2>2. phase = "flush" => step > Len(cur.flush)
    BY <1>1, Loops DEF EndLoop
  <2>3. ASSUME NEW t \in Tokens, FlushedLater(t)
        PROVE  FlushedLater(t)'
    BY <2>1, <2>2, <2>3, <1>w DEF FlushedLater, Following
  <2>4. phase' # "idle" /\ phase # "idle"
    BY <2>1 DEF Following
  <2>. QED
    BY <2>1, <2>3, <2>4 DEF FlushInv, Settled, Noted
<1>2. CASE PullToken
  <2>. DEFINE p == cur.pulls[step]
  <2>1. p.token \in Tokens /\ p.amount \in Nat /\ step \in 1..Len(cur.pulls)
    BY <1>2, TurnPull DEF PullToken
  <2>2. mem.bal[p.token][cur.by] >= p.amount
    BY <1>2 DEF PullToken, CanPull
  <2>3. mem'.bal = Credit(Debit(mem.bal, p.token, cur.by, p.amount), p.token, Self, p.amount)
    BY <1>2, <1>w DEF PullToken, World
  <2>4. ASSUME NEW t \in Tokens, mem'.bal[t][Self] > mem.bal[t][Self]
        PROVE  Flushed(cur, t)
    <3>1. t = p.token
      BY <2>1, <2>2, <2>3, <2>4, <1>w, <1>a, MoveRaises, SelfAccount
    <3>. QED
      BY <3>1, <2>1, <1>w, FlushAssumption
  <2>. QED
    BY <2>4, <1>2, FlushAdvance DEF PullToken, Turn
<1>3. CASE PullFails
  BY <1>3, FlushRevert DEF PullFails
<1>4. CASE SetApproval \/ RevokeApproval
  <2>. DEFINE p == cur.approvals[step]
  <2>4. \/ mem' = [mem EXCEPT !.allowance[p.token][p.spender] = p.amount]
        \/ mem' = [mem EXCEPT !.allowance[p.token][p.spender] = 0]
        \/ mem' = mem
    <3>1. CASE p.revokeAfter
      BY <3>1, <1>4, Zenon DEF SetApproval, RevokeApproval
    <3>2. CASE ~p.revokeAfter
      BY <3>2, <1>4, Zenon DEF SetApproval, RevokeApproval
    <3>. QED
      BY <3>1, <3>2
  <2>1. mem'.bal = mem.bal
    BY <2>4, <1>w DEF World
  <2>2. \A t \in Tokens : mem.bal[t][Self] \in Nat
    BY <1>a, SelfHolds
  <2>3. \A t \in Tokens : ~(mem'.bal[t][Self] > mem.bal[t][Self])
    BY <2>1, <2>2
  <2>. QED
    BY <2>3, <1>4, FlushAdvance DEF SetApproval, RevokeApproval, Turn
<1>6. CASE SwapCall \/ WrapCall \/ UnwrapCall
  BY <1>6, FlushCall, FlushAdvance DEF SwapCall, WrapCall, UnwrapCall, Turn
<1>9. CASE CallFails
  BY <1>9, FlushRevert DEF CallFails
<1>10. CASE FlushToken
  <2>. DEFINE f == cur.flush[step]
              n == Growth(Held(f), before.tokens[step])
  <2>1. step \in 1..Len(cur.flush) /\ f \in Tokens /\ before.tokens[step] \in Nat
    BY <1>10, TurnFlush DEF FlushToken
  <2>2. /\ n \in Nat /\ mem.bal[f][Self] >= n
        /\ mem.bal[f][Self] - n <= before.tokens[step]
    BY <2>1, <1>a, SelfHolds, GrowthBound DEF Held
  <2>3. mem'.bal = Credit(Debit(mem.bal, f, Self, n), f, cur.by, n)
    BY <1>10, <1>w, WorldFrame DEF FlushToken
  <2>4. before.tokens[step] = chain.bal[f][Self] /\ phase = "flush" /\ Advance
    BY <2>1, <1>10 DEF FlushInv, Noted, FlushToken, Turn
  <2>5. ASSUME NEW t \in Tokens, mem'.bal[t][Self] > chain.bal[t][Self]
        PROVE  FlushedLater(t)'
    <3>1. mem'.bal[t][Self] = IF t = f THEN mem.bal[f][Self] - n ELSE mem.bal[t][Self]
      BY <2>1, <2>2, <2>3, <1>w, <1>a, PaidOut
    <3>2. mem.bal[f][Self] \in Nat /\ chain.bal[f][Self] \in Nat
      BY <2>1, <1>a, SelfHolds
    <3>3. t # f
      BY <3>1, <3>2, <2>2, <2>4, <2>5
    <3>4. FlushedLater(t)
      BY <3>1, <3>3, <2>5 DEF FlushInv
    <3>. QED
      BY <3>3, <3>4, <2>4, <1>w DEF FlushedLater, Advance
  <2>. QED
    BY <2>4, <2>5 DEF FlushInv, Settled, Noted, Advance
<1>11. CASE Commit
  <2>1. phase' = "idle" /\ mem' = chain'
    BY <1>11 DEF Commit
  <2>2. \A t \in Tokens : mem'.bal[t][Self] \in Nat
    BY <1>a, WorldNat, SelfAccount DEF TypeInv, TypeOK
  <2>. QED
    BY <2>1, <2>2 DEF FlushInv, Settled, Noted
<1>12. ASSUME NEW s \in Swaps, Execute(s) PROVE FlushInv'
  <2>1. /\ s.by \in Users /\ s.by \in Accounts /\ s.value \in Nat
        /\ s.flush \in Seq(Tokens)
    BY SwapParts
  <2>2. /\ mem'.bal = Credit(Debit(mem.bal, ETH, s.by, s.value), ETH, Self, s.value)
        /\ mem.bal[ETH][s.by] >= s.value
    BY <1>12, <1>w, WorldFrame DEF Execute
  <2>3. /\ chain' = chain /\ mem = chain /\ cur' = s /\ phase' = "pull"
        /\ before' = [ tokens |-> [k \in 1..Len(s.flush) |-> Held(s.flush[k])],
                       eth |-> Held(ETH) ]
    BY <1>12 DEF Execute, FlushInv, Settled
  <2>4. \A t \in Tokens : ~(mem'.bal[t][Self] > mem.bal[t][Self])
    BY <2>1, <2>2, <1>w, <1>a, MoveRaises, SelfAccount
  <2>5. Noted'
    BY <2>3 DEF Noted, Held
  <2>. QED
    BY <2>3, <2>4, <2>5 DEF FlushInv, Settled
<1>13. ASSUME NEW s \in Swaps, ExecutePaused(s) PROVE FlushInv'
  <2>1. \A t \in Tokens : mem.bal[t][Self] \in Nat
    BY <1>a, SelfHolds
  <2>. QED
    BY <2>1, <1>13 DEF ExecutePaused, FlushInv, Settled, Noted
<1>14. ASSUME NEW s \in Swaps, ApproveExecutor(s) PROVE FlushInv'
  BY <1>14, FlushBetween DEF ApproveExecutor
<1>15. ASSUME NEW a \in Assets, Rescue(a) PROVE FlushInv'
  BY <1>15, FlushBetween DEF Rescue
<1>16. ASSUME NEW a \in Assets, NEW n \in Strays, Donate(a, n) PROVE FlushInv'
  BY <1>16, FlushBetween DEF Donate
<1>17. CASE TogglePause
  BY <1>17, FlushBetween DEF TogglePause
<1>18. CASE Tick
  BY <1>18, FlushBetween DEF Tick
<1>19. CASE UNCHANGED vars
  BY <1>19 DEF vars, FlushInv, Settled, Noted, FlushedLater
<1>. QED
  BY <1>1, <1>2, <1>3, <1>4, <1>6, <1>9, <1>10, <1>11, <1>12,
     <1>13, <1>14, <1>15, <1>16, <1>17, <1>18, <1>19
  DEF Next, Transaction, Environment

(* After the flush loop comes the commit and nothing else.                 *)
LEMMA EthCommits ==
  ASSUME phase = "eth", [Next]_vars, ~ UNCHANGED vars
  PROVE  Commit
BY DEF Next, Transaction, Environment, EndLoop, Following, Turn, PullToken, PullFails,
       SetApproval, SwapCall, WrapCall, UnwrapCall, CallFails, RevokeApproval,
       FlushToken, Execute, ExecutePaused, ApproveExecutor, Rescue, Donate,
       TogglePause, Tick, Between

(* At the moment of the commit every token is back to what it was, and the *)
(* growth of the coin leaves with the commit itself.                       *)
LEMMA CommitStep ==
  ASSUME TypeInv, FlushInv, [Next]_vars
  PROVE  [phase = "eth" => \A a \in Assets : chain'.bal[a][Self] <= chain.bal[a][Self]]_vars
<1>. SUFFICES ASSUME phase = "eth", ~ UNCHANGED vars, NEW a \in Assets
              PROVE  chain'.bal[a][Self] <= chain.bal[a][Self]
  OBVIOUS
<1>1. Commit
  BY EthCommits
<1>. DEFINE n == Growth(Held(ETH), before.eth)
<1>2. /\ mem \in World /\ mem.bal \in Balances /\ cur.by \in Users
      /\ before.eth \in Nat /\ ETH \in Assets
  BY SwapParts DEF TypeInv, TypeOK, World, Balances, Snapshot, Assets
<1>3. n \in Nat /\ mem.bal[ETH][Self] >= n /\ mem.bal[ETH][Self] - n <= before.eth
  BY <1>2, SelfHolds, GrowthBound DEF Held
<1>4. chain'.bal = Credit(Debit(mem.bal, ETH, Self, n), ETH, cur.by, n)
  BY <1>1, <1>2, WorldFrame DEF Commit
<1>5. chain'.bal[a][Self] = IF a = ETH THEN mem.bal[ETH][Self] - n ELSE mem.bal[a][Self]
  BY <1>2, <1>3, <1>4, PaidOut
<1>6. before.eth = chain.bal[ETH][Self]
  BY DEF FlushInv, Noted
<1>7. mem.bal[a][Self] \in Nat /\ chain.bal[a][Self] \in Nat
  BY SelfHolds
<1>8. a # ETH => mem.bal[a][Self] <= chain.bal[a][Self]
  BY <1>7 DEF FlushInv, FlushedLater, Assets
<1>. QED
  BY <1>3, <1>5, <1>6, <1>7, <1>8

(* Whatever its calls do, a transaction that commits leaves the executor   *)
(* holding no more of any asset than it held before, provided its flush    *)
(* list names every token its pulls and calls bring in.                    *)
THEOREM NothingLeftBehind == Spec => NothingStranded
<1>1. Init => TypeInv /\ FlushInv
  BY InitType, FlushInit
<1>2. TypeInv /\ FlushInv /\ [Next]_vars => (TypeInv /\ FlushInv)'
  BY NextType, FlushNext
<1>3. TypeInv /\ FlushInv /\ [Next]_vars
        => [phase = "eth" => \A a \in Assets : chain'.bal[a][Self] <= chain.bal[a][Self]]_vars
  BY CommitStep
<1>. QED
  BY <1>1, <1>2, <1>3, PTL DEF Spec, NothingStranded

-----------------------------------------------------------------------------
(* What a plan adds up to.                                                 *)

(* What a call adds is a number.                                           *)
LEMMA FlowType ==
  ASSUME NEW c \in Call, NEW a \in Assets
  PROVE  Flow(c, a) \in Int
<1>1. c.value \in Nat /\ c.words["amountIn"] \in Nat /\ c.words["amountOutMin"] \in Nat
  BY DEF Call, Numbers
<1>. QED
  BY <1>1 DEF Flow

(* The running sum of a plan begins with the input, and each call adds its *)
(* flow: Planned is defined for every plan and asset.                      *)
LEMMA PlannedFacts ==
  ASSUME NEW s \in Swaps, NEW a \in Assets
  PROVE  /\ Planned(s, a)[0] = IF a = s.assetIn THEN s.amountIn ELSE 0
         /\ \A k \in CallsOf(s) : Planned(s, a)[k] = Planned(s, a)[k - 1] + Flow(s.calls[k], a)
         /\ \A k \in 0..Len(s.calls) : Planned(s, a)[k] \in Int
<1>. DEFINE n == Len(s.calls)
            start == IF a = s.assetIn THEN s.amountIn ELSE 0
            G == [k \in 1..n |-> [v \in Int |-> v + Flow(s.calls[k], a)]]
<1>1. n \in Nat /\ start \in Int /\ \A k \in 1..n : Flow(s.calls[k], a) \in Int
  BY SwapParts, FlowType
<1>2. G \in [1..n -> [Int -> Int]]
  <2>. HIDE DEF n
  <2>. QED
    BY <1>1
<1>3. PICK f \in [0..n -> Int] : Stepwise(f, n, start, G)
  <2>. HIDE DEF n, start, G
  <2>. QED
    BY <1>1, <1>2, StepsExist
<1>4. f[0] = start /\ \A k \in 1..n : f[k - 1] \in Int /\ f[k] = f[k - 1] + Flow(s.calls[k], a)
  <2>1. ASSUME NEW k \in 1..n PROVE k - 1 \in 0..n /\ f[k] = G[k][f[k - 1]]
    <3>1. k - 1 \in 0..n
      BY <1>1
    <3>. HIDE DEF n, start, G
    <3>. QED
      BY <1>3, <3>1 DEF Stepwise
  <2>2. ASSUME NEW k \in 1..n PROVE f[k - 1] \in Int /\ f[k] = f[k - 1] + Flow(s.calls[k], a)
    BY <2>1
  <2>. QED
    BY <1>3, <2>2 DEF Stepwise
<1>5. \A k \in 0..n : Planned(s, a)[k] = f[k]
  <2>. HIDE DEF start
  <2>. QED
    BY <1>1, <1>4, PlannedIs DEF start
<1>6. \A k \in CallsOf(s) : k \in 1..n /\ k \in 0..n /\ k - 1 \in 0..n
  BY <1>1 DEF CallsOf
<1>7. 0 \in 0..n
  BY <1>1
<1>. HIDE DEF n, start, G
<1>. QED
  BY <1>4, <1>5, <1>6, <1>7 DEF n, start
-----------------------------------------------------------------------------
(* The invariant.                                                          *)

(* What the running transaction has added to an account so far.            *)
Gain(a, x) == mem.bal[a][x] - chain.bal[a][x]

(* And what it will have added after the step that is taken.               *)
After(a, x) == mem'.bal[a][x] - chain.bal[a][x]

Payee(s) == Abstract!Payee(s)

Bringing == phase \in {"pull", "approve", "call"}

PullPending == phase = "pull" /\ step <= Len(cur.pulls)

Done ==
  CASE phase \in {"pull", "approve"} -> 0
    [] phase = "call"                -> step - 1
    [] OTHER                         -> Len(cur.calls)

(* No call so far has injected a.                                          *)
Spared(a) == \A k \in CallsOf(cur) : k <= Done => cur.calls[k].injectToken # a

(* The sender has paid, once, and gets back no more than that.             *)
SenderInv ==
  /\ PullPending => \A a \in Assets, x \in Accounts : Gain(a, x) = 0
  /\ Gain(cur.assetIn, cur.by) <= 0 /\ Gain(cur.assetIn, cur.by) >= -cur.amountIn
  /\ Gain(cur.assetIn, cur.by) + Gain(cur.assetIn, Self) <= 0

BystanderInv ==
  \A a \in Assets, u \in Users :
    \/ a = cur.assetIn /\ u = cur.by
    \/ a = cur.assetOut /\ u = Payee(cur)
    \/ Gain(a, u) = 0

(* As long as the executor is still acquiring: it has what was planned.    *)
PlanInv ==
  Bringing /\ ~PullPending =>
    \A a \in Assets : Spared(a) =>
      /\ Gain(a, Self) >= Planned(cur, a)[Done]
      /\ a \in Tokens /\ (\A k \in CallsOf(cur) : ~Pays(cur.calls[k], a))
           => Gain(a, Self) = Planned(cur, a)[Done]

(* All that is brought of a token on the way is going to be spent.         *)
SpentLater(t) == \E j \in CallsOf(cur) : j > Done /\ cur.calls[j].injectToken = t

Middle(t) == t \in Tokens \ {cur.assetIn, cur.assetOut}

MiddleInv ==
  /\ \A t \in Tokens :
       Middle(t) /\ Gain(t, Self) > 0 => Bringing /\ (SpentLater(t) \/ UsedUp(cur, t))
  /\ ETH \notin {cur.assetIn, cur.assetOut} => Gain(ETH, Self) <= 0
  /\ cur.direct => Gain(cur.assetOut, Self) <= 0

(* The payee gets what the calldata insists on, through the executor or    *)
(* directly; a coin comes out of the last call, which unwraps it.          *)
PayeeInv ==
  /\ Gain(cur.assetOut, Payee(cur)) >= 0
  /\ cur.direct /\ Done = Len(cur.calls) => Gain(cur.assetOut, Payee(cur)) >= cur.floor
  /\ Bringing /\ cur.assetOut = ETH =>
       /\ Gain(ETH, Self) >= 0
       /\ Done = Len(cur.calls) => Gain(ETH, Self) >= cur.floor
  /\ ~Bringing /\ ~cur.direct =>
       Gain(cur.assetOut, cur.by) + Gain(cur.assetOut, Self) >= cur.floor

(* Assets that nothing injects are not drawn on beyond what was brought.   *)
KeptInv ==
  ~Bringing => \A a \in Assets : Untouched(cur, a) => Gain(a, Self) >= 0

StepInv == phase = "call" => step <= Len(cur.calls) + 1

SettleInv ==
  phase # "idle" =>
    StepInv /\ SenderInv /\ BystanderInv /\ PlanInv /\ MiddleInv /\ PayeeInv /\ KeptInv

-----------------------------------------------------------------------------
(* Where the amounts are after a move from one account to another.         *)
LEMMA MoveValue ==
  ASSUME NEW b \in Balances, NEW a \in Assets, NEW x \in Accounts, NEW n \in Nat,
         b[a][x] >= n, NEW c \in Assets, NEW y \in Accounts, NEW m \in Nat,
         NEW t \in Assets, NEW z \in Accounts
  PROVE  Credit(Debit(b, a, x, n), c, y, m)[t][z]
           = b[t][z] - (IF t = a /\ z = x THEN n ELSE 0) + (IF t = c /\ z = y THEN m ELSE 0)
<1>1. Debit(b, a, x, n) \in Balances
  BY DebitType
<1>2. Credit(Debit(b, a, x, n), c, y, m)[t][z]
        = IF t = c /\ z = y THEN Debit(b, a, x, n)[c][y] + m ELSE Debit(b, a, x, n)[t][z]
  BY <1>1, CreditValue
<1>3. Debit(b, a, x, n)[t][z] = IF t = a /\ z = x THEN b[a][x] - n ELSE b[t][z]
  BY DebitValue
<1>4. b[t][z] \in Nat /\ b[a][x] \in Nat
  BY DEF Balances
<1>. QED
  BY <1>2, <1>3, <1>4

(* The parts of a sound plan, gathered.                                    *)
LEMMA PlanFacts ==
  ASSUME NEW s \in Swaps, SoundPlans
  PROVE  /\ SoundPlan(s)
         /\ s.by \in Users /\ Payee(s) \in Users
         /\ s.assetIn \in Assets /\ s.assetOut \in Assets /\ s.assetIn # s.assetOut
         /\ s.amountIn \in Nat /\ s.floor \in Nat /\ s.value \in Nat
         /\ s.direct \in BOOLEAN /\ Len(s.calls) \in Nat
         /\ Payee(s) = IF s.direct THEN s.recipient ELSE s.by
<1>1. SoundPlan(s) /\ s \in SwapTransaction
  BY SwapsAssumption DEF SoundPlans
<1>2. s.by \in Users /\ s.recipient \in Users /\ s.direct \in BOOLEAN /\ s.assetIn # s.assetOut
  BY <1>1 DEF SwapTransaction, SoundPlan, SoundInput
<1>3. Payee(s) = IF s.direct THEN s.recipient ELSE s.by
  BY DEF Payee, Abstract!Payee
<1>4. Payee(s) \in Users
  BY <1>2, <1>3
<1>5. Len(s.calls) \in Nat
  BY SwapParts
<1>. QED
  BY <1>1, <1>2, <1>3, <1>4, <1>5 DEF SwapTransaction

(* What the plan says about the output, case by case.                      *)
LEMMA OutputFacts ==
  ASSUME NEW s \in Swaps, SoundPlans
  PROVE  /\ s.direct => /\ Len(s.calls) > 0 /\ Pays(s.calls[Len(s.calls)], s.assetOut)
                        /\ s.calls[Len(s.calls)].words["amountOutMin"] >= s.floor
         /\ ~s.direct /\ s.assetOut # ETH => Planned(s, s.assetOut)[Len(s.calls)] >= s.floor
         /\ ~s.direct /\ s.assetOut = ETH =>
              /\ Len(s.calls) > 0 /\ s.calls[Len(s.calls)].kind = "withdraw"
              /\ Planned(s, WETH)[Len(s.calls) - 1] >= s.floor
              /\ \A k \in 1..(Len(s.calls) - 1) : s.calls[k].injectToken # WETH
         /\ s.direct => s.assetOut # ETH
<1>1. SoundOutput(s) /\ s.direct \in BOOLEAN
  BY PlanFacts DEF SoundPlan
<1>2. CASE s.direct
  <2>1. /\ Len(s.calls) > 0 /\ Pays(s.calls[Len(s.calls)], s.assetOut)
        /\ s.calls[Len(s.calls)].words["amountOutMin"] >= s.floor
    BY <1>1, <1>2 DEF SoundOutput
  <2>2. Len(s.calls) \in 1..Len(s.calls) /\ s.calls \in Seq(Call)
    BY <2>1, SwapParts
  <2>3. s.calls[Len(s.calls)] \in Call
    BY <2>2
  <2>4. s.assetOut \in Tokens
    BY <2>1, <2>3 DEF Pays, Call
  <2>5. s.assetOut # ETH
    BY <2>4, AssetsAssumption
  <2>. QED
    BY <1>2, <2>1, <2>5
<1>3. CASE ~s.direct
  BY <1>1, <1>3 DEF SoundOutput
<1>. QED
  BY <1>1, <1>2, <1>3

(* Nothing injects an output that is a token.                              *)
LEMMA OutNotInjected ==
  ASSUME NEW s \in Swaps, SoundPlans, s.assetOut # ETH
  PROVE  Untouched(s, s.assetOut)
<1>. SUFFICES ASSUME NEW k \in CallsOf(s), s.calls[k].injectToken = s.assetOut PROVE FALSE
  BY DEF Untouched
<1>1. SoundCall(s, k)
  BY PlanFacts DEF SoundPlan
<1>2. s.calls[k] \in Call /\ s.assetOut \in Tokens
  BY SwapParts, PlanFacts DEF CallsOf, Assets
<1>3. s.calls[k].kind \in SwapKinds \/ s.calls[k].kind = "deposit" \/ s.calls[k].kind = "withdraw"
  BY <1>2 DEF Call, Kinds, SwapKinds
<1>4. Injects(s.calls[k]) /\ s.assetOut # NoToken
  BY <1>2, AssetsAssumption DEF Injects
<1>. QED
  BY <1>1, <1>2, <1>3, <1>4 DEF SoundCall

(* Accounts and assets, gathered.                                          *)
LEMMA AccountFacts ==
  /\ Self \in Accounts /\ Self \notin Users /\ Users \subseteq Accounts
  /\ ETH \in Assets /\ WETH \in Tokens /\ Tokens \subseteq Assets /\ ETH \notin Tokens
  /\ Assets = Tokens \cup {ETH}
BY AssetsAssumption DEF Accounts, Assets

(* Execute takes at most the coin that was announced.                      *)
LEMMA SettleExecute ==
  ASSUME TypeInv, FlushInv, SoundPlans, NEW s \in Swaps, Execute(s)
  PROVE  SettleInv'
<1>1. /\ phase = "idle" /\ mem = chain /\ chain' = chain
      /\ cur' = s /\ phase' = "pull" /\ step' = 1
  BY DEF Execute, FlushInv, Settled
<1>2. /\ chain \in World /\ chain.bal \in Balances
      /\ \A a \in Assets, x \in Accounts : chain.bal[a][x] \in Nat
  BY WorldNat DEF TypeInv, TypeOK, World, Balances
<1>3. /\ mem'.bal = Credit(Debit(mem.bal, ETH, s.by, s.value), ETH, Self, s.value)
      /\ mem.bal[ETH][s.by] >= s.value
  BY <1>1, <1>2, WorldFrame DEF Execute
<1>p. /\ s.by \in Users /\ s.by \in Accounts /\ Payee(s) \in Users /\ s.by # Self
      /\ s.assetIn \in Assets /\ s.assetOut \in Assets /\ s.assetIn # s.assetOut
      /\ s.amountIn \in Nat /\ s.value \in Nat /\ s.floor \in Nat
      /\ Payee(cur)' = Payee(s) /\ Payee(s) \in Accounts /\ Payee(s) # Self
  BY <1>1, PlanFacts, AccountFacts DEF Payee, Abstract!Payee
<1>4. \A a \in Assets, x \in Accounts :
        mem'.bal[a][x] = chain.bal[a][x] - (IF a = ETH /\ x = s.by THEN s.value ELSE 0)
                          + (IF a = ETH /\ x = Self THEN s.value ELSE 0)
  <2>1. /\ mem'.bal = Credit(Debit(chain.bal, ETH, s.by, s.value), ETH, Self, s.value)
        /\ chain.bal[ETH][s.by] >= s.value
    BY <1>1, <1>3
  <2>2. \A t \in Assets, z \in Accounts :
          Credit(Debit(chain.bal, ETH, s.by, s.value), ETH, Self, s.value)[t][z]
            = chain.bal[t][z] - (IF t = ETH /\ z = s.by THEN s.value ELSE 0)
                + (IF t = ETH /\ z = Self THEN s.value ELSE 0)
    <3>1. /\ chain.bal \in Balances /\ ETH \in Assets /\ s.by \in Accounts /\ s.value \in Nat
          /\ chain.bal[ETH][s.by] >= s.value /\ Self \in Accounts
      BY <1>2, <1>p, <2>1, AccountFacts
    <3>. QED
      BY <3>1, MoveValue
  <2>. QED
    BY <2>1, <2>2
<1>5. \/ s.assetIn = ETH /\ s.value = s.amountIn /\ s.pulls = << >>
      \/ s.assetIn # ETH /\ s.value = 0
           /\ s.pulls = << [token |-> s.assetIn, amount |-> s.amountIn] >>
  BY PlanFacts DEF SoundPlan, SoundInput
<1>6. PullPending' <=> s.assetIn # ETH
  BY <1>1, <1>5 DEF PullPending
<1>7. Done' = 0 /\ Bringing'
  BY <1>1 DEF Done, Bringing
<1>g. \A a \in Assets, x \in Accounts :
        Gain(a, x)' = IF a # s.assetIn THEN 0
                      ELSE IF s.assetIn # ETH THEN 0
                      ELSE IF x = s.by THEN -s.amountIn
                      ELSE IF x = Self THEN s.amountIn ELSE 0
  BY <1>1, <1>2, <1>4, <1>5, <1>p DEF Gain
<1>8. StepInv' /\ KeptInv'
  BY <1>1, <1>7 DEF StepInv, KeptInv
<1>9. SenderInv'
  <2>1. /\ Gain(s.assetIn, s.by)' = IF s.assetIn = ETH THEN -s.amountIn ELSE 0
        /\ Gain(s.assetIn, Self)' = IF s.assetIn = ETH THEN s.amountIn ELSE 0
    BY <1>g, <1>p, AccountFacts
  <2>2. PullPending' => \A a \in Assets, x \in Accounts : Gain(a, x)' = 0
    BY <1>6, <1>g
  <2>. QED
    BY <1>1, <1>p, <2>1, <2>2 DEF SenderInv, Gain
<1>10. BystanderInv'
  BY <1>1, <1>2, <1>4, <1>5, PlanFacts, AccountFacts DEF BystanderInv, Gain
<1>11. PlanInv'
  <2>1. ASSUME NEW a \in Assets, ~PullPending'
        PROVE  Gain(a, Self)' = Planned(s, a)[0]
    BY <2>1, <1>6, <1>g, <1>p, AccountFacts, PlannedFacts
  <2>2. \A a \in Assets : Planned(s, a)[0] \in Int
    BY <1>p, PlannedFacts
  <2>. QED
    BY <1>1, <1>7, <2>1, <2>2 DEF PlanInv, Gain
<1>12. MiddleInv'
  <2>1. \A a \in Assets : a # s.assetIn => Gain(a, Self)' = 0
    BY <1>g, AccountFacts
  <2>. QED
    BY <1>1, <1>p, <2>1, AccountFacts DEF MiddleInv, Middle, Gain
<1>13. PayeeInv'
  <2>1. Gain(s.assetOut, Payee(s))' = 0 /\ (s.assetOut = ETH => Gain(ETH, Self)' = 0)
    BY <1>g, <1>p, AccountFacts
  <2>2. (s.direct \/ s.assetOut = ETH) => Done' # Len(s.calls)
    BY <1>7, OutputFacts
  <2>. QED
    BY <1>1, <1>7, <1>p, <2>1, <2>2 DEF PayeeInv, Gain
<1>. QED
  BY <1>8, <1>9, <1>10, <1>11, <1>12, <1>13 DEF SettleInv
-----------------------------------------------------------------------------
(* Loops that move nothing, and the ends of loops.                         *)

(* Approvals move nothing.                                                 *)
LEMMA SettleStill ==
  ASSUME SettleInv, Advance, mem'.bal = mem.bal, phase \in {"approve", "revoke"}
  PROVE  SettleInv'
<1>1. /\ UNCHANGED <<chain, phase, cur>> /\ ~PullPending /\ ~PullPending'
      /\ Bringing' = Bringing /\ Done' = Done
  BY DEF Advance, PullPending, Bringing, Done
<1>2. StepInv' /\ SenderInv /\ BystanderInv /\ PlanInv /\ MiddleInv /\ PayeeInv /\ KeptInv
  BY DEF SettleInv, StepInv, Advance
<1>3. SenderInv' /\ BystanderInv'
  BY <1>1, <1>2 DEF SenderInv, BystanderInv, Gain, Payee, Abstract!Payee
<1>4. PlanInv'
  BY <1>1, <1>2 DEF PlanInv, Gain, Spared
<1>5. MiddleInv' /\ KeptInv'
  BY <1>1, <1>2 DEF MiddleInv, Middle, KeptInv, SpentLater, Gain
<1>6. PayeeInv'
  BY <1>1, <1>2 DEF PayeeInv, Gain, Payee, Abstract!Payee
<1>. QED
  BY <1>2, <1>3, <1>4, <1>5, <1>6 DEF SettleInv

(* When the calls are done, the plan is what the executor has.             *)
LEMMA SettleEndLoop ==
  ASSUME TypeInv, SoundPlans, SettleInv, EndLoop
  PROVE  SettleInv'
<1>1. /\ phase' = Following[phase] /\ phase \in DOMAIN Following /\ step > Len(Work(phase))
      /\ UNCHANGED <<chain, mem, cur>> /\ step' = 1
  BY DEF EndLoop
<1>2. phase # "idle" /\ ~PullPending /\ ~PullPending'
  <2>1. phase = "pull" => step > Len(cur.pulls)
    BY <1>1, Loops
  <2>2. cur.pulls \in Seq(Pull) /\ step \in Nat
    BY SwapParts DEF TypeInv, TypeOK
  <2>. QED
    BY <1>1, <2>1, <2>2 DEF PullPending, Following
<1>3. StepInv /\ SenderInv /\ BystanderInv /\ PlanInv /\ MiddleInv /\ PayeeInv /\ KeptInv
  BY <1>2 DEF SettleInv
<1>p. /\ cur \in Swaps /\ cur.by \in Users /\ Payee(cur) \in Users
      /\ cur.assetIn \in Assets /\ cur.assetOut \in Assets /\ cur.assetIn # cur.assetOut
      /\ cur.floor \in Nat /\ Len(cur.calls) \in Nat /\ cur.direct \in BOOLEAN
      /\ \A a \in Assets, x \in Accounts : mem.bal[a][x] \in Nat /\ chain.bal[a][x] \in Nat
      /\ Self \in Accounts /\ Users \subseteq Accounts /\ step \in Nat
  BY PlanFacts, AccountFacts, WorldNat DEF TypeInv, TypeOK
<1>4. SenderInv' /\ BystanderInv'
  BY <1>1, <1>2, <1>3 DEF SenderInv, BystanderInv, Gain, Payee, Abstract!Payee
<1>5. CASE phase # "call"
  <2>1. Bringing' = Bringing /\ Done' = Done
    BY <1>1, <1>5 DEF Bringing, Done, Following
  <2>2. StepInv'
    BY <1>1, <1>p DEF StepInv
  <2>3. PlanInv'
    <3>1. phase # "flush" => ~PullPending /\ Bringing' = Bringing
      BY <1>2, <2>1
    <3>. QED
      BY <1>1, <1>2, <1>3, <2>1 DEF PlanInv, Gain, Spared
  <2>4. MiddleInv' /\ KeptInv'
    BY <1>1, <1>3, <2>1 DEF MiddleInv, Middle, KeptInv, SpentLater, Gain
  <2>5. PayeeInv'
    BY <1>1, <1>3, <2>1 DEF PayeeInv, Gain, Payee, Abstract!Payee
  <2>. QED
    BY <1>4, <2>2, <2>3, <2>4, <2>5 DEF SettleInv
<1>6. CASE phase = "call"
  <2>1. Bringing /\ ~Bringing' /\ Done = Len(cur.calls) /\ Done' = Done /\ phase' = "revoke"
    BY <1>1, <1>3, <1>6, <1>p, Loops DEF Bringing, Done, Following, StepInv
  <2>2. ASSUME NEW a \in Assets, Untouched(cur, a)
        PROVE  /\ Gain(a, Self) >= Planned(cur, a)[Len(cur.calls)]
               /\ a \in Tokens /\ (\A k \in CallsOf(cur) : ~Pays(cur.calls[k], a))
                    => Gain(a, Self) = Planned(cur, a)[Len(cur.calls)]
    BY <1>2, <1>3, <2>1, <2>2 DEF PlanInv, Spared, Untouched
  <2>3. \A a \in Assets : Planned(cur, a)[Len(cur.calls)] \in Int /\ Gain(a, Self) \in Int
    BY <1>p, PlannedFacts DEF Gain
  <2>4. StepInv' /\ PlanInv'
    BY <2>1 DEF StepInv, PlanInv
  <2>5. KeptInv'
    <3>1. ASSUME NEW a \in Assets, Untouched(cur, a) PROVE Gain(a, Self) >= 0
      <4>1. Planned(cur, a)[Len(cur.calls)] >= 0
        BY <1>p, <3>1, PlanFacts DEF SoundPlan
      <4>. QED
        BY <2>2, <2>3, <3>1, <4>1
    <3>. QED
      BY <1>1, <3>1 DEF KeptInv, Gain
  <2>6. ~(\E t \in Tokens : SpentLater(t))
    BY <1>p, <2>1 DEF SpentLater, CallsOf
  <2>7. ASSUME NEW t \in Tokens, Middle(t) PROVE ~(Gain(t, Self) > 0)
    <3>. SUFFICES ASSUME Gain(t, Self) > 0 PROVE FALSE
      OBVIOUS
    <3>1. /\ Untouched(cur, t) /\ \A k \in CallsOf(cur) : ~Pays(cur.calls[k], t)
          /\ Planned(cur, t)[Len(cur.calls)] <= 0
      BY <1>3, <2>6, <2>7 DEF MiddleInv, UsedUp
    <3>2. t \in Assets
      BY AccountFacts
    <3>3. Gain(t, Self) = Planned(cur, t)[Len(cur.calls)]
      BY <2>2, <3>1, <3>2
    <3>. QED
      BY <2>3, <3>1, <3>2, <3>3
  <2>8. MiddleInv'
    BY <1>1, <1>3, <2>7 DEF MiddleInv, Middle, Gain
  <2>9. ASSUME ~cur.direct PROVE Gain(cur.assetOut, cur.by) + Gain(cur.assetOut, Self) >= cur.floor
    <3>1. Payee(cur) = cur.by
      BY <1>p, <2>9, PlanFacts
    <3>2. Gain(cur.assetOut, cur.by) >= 0
      BY <1>3, <3>1 DEF PayeeInv
    <3>3. Gain(cur.assetOut, cur.by) \in Int /\ Gain(cur.assetOut, Self) \in Int
      BY <1>p DEF Gain
    <3>4. Gain(cur.assetOut, Self) >= cur.floor
      <4>1. CASE cur.assetOut = ETH
        BY <1>3, <2>1, <4>1 DEF PayeeInv
      <4>2. CASE cur.assetOut # ETH
        <5>1. Planned(cur, cur.assetOut)[Len(cur.calls)] >= cur.floor
          BY <1>p, <2>9, <4>2, OutputFacts
        <5>2. Untouched(cur, cur.assetOut)
          BY <1>p, <4>2, OutNotInjected
        <5>. QED
          BY <1>p, <2>2, <2>3, <5>1, <5>2
      <4>. QED
        BY <4>1, <4>2
    <3>. QED
      BY <1>p, <3>2, <3>3, <3>4
  <2>10. PayeeInv'
    BY <1>1, <1>3, <2>1, <2>9 DEF PayeeInv, Gain, Payee, Abstract!Payee
  <2>. QED
    BY <1>4, <2>4, <2>5, <2>8, <2>10 DEF SettleInv
<1>. QED
  BY <1>5, <1>6
-----------------------------------------------------------------------------
(* The input is pulled, once.                                              *)

(* The pull takes amountIn of the input from the sender, once.             *)
LEMMA SettlePull ==
  ASSUME TypeInv, SoundPlans, SettleInv, PullToken
  PROVE  SettleInv'
<1>. DEFINE p == cur.pulls[step]
            in == cur.assetIn
<1>1. /\ phase = "pull" /\ step \in 1..Len(cur.pulls) /\ step' = step + 1
      /\ UNCHANGED <<chain, phase, cur>>
  BY TurnPull DEF PullToken, Turn, Advance
<1>2. StepInv /\ SenderInv /\ BystanderInv /\ PlanInv /\ MiddleInv /\ PayeeInv /\ KeptInv
  BY <1>1 DEF SettleInv
<1>p. /\ cur \in Swaps /\ cur.by \in Users /\ Payee(cur) \in Users
      /\ in \in Assets /\ cur.assetOut \in Assets /\ in # cur.assetOut
      /\ cur.amountIn \in Nat /\ cur.floor \in Nat /\ Len(cur.calls) \in Nat /\ cur.direct \in BOOLEAN
      /\ \A a \in Assets, x \in Accounts : mem.bal[a][x] \in Nat /\ chain.bal[a][x] \in Nat
      /\ Self \in Accounts /\ Self \notin Users /\ Users \subseteq Accounts /\ cur.by \in Accounts
      /\ mem \in World /\ mem.bal \in Balances
  BY PlanFacts, AccountFacts, WorldNat DEF TypeInv, TypeOK, World, Balances
<1>3. /\ in # ETH /\ cur.pulls = << [token |-> in, amount |-> cur.amountIn] >>
      /\ SoundInput(cur)
  BY <1>1, <1>p, PlanFacts DEF SoundPlan, SoundInput
<1>4. step = 1 /\ p.token = in /\ p.amount = cur.amountIn /\ PullPending /\ ~PullPending'
  BY <1>1, <1>3 DEF PullPending
<1>5. \A a \in Assets, x \in Accounts : mem.bal[a][x] = chain.bal[a][x]
  <2>. TAKE a \in Assets, x \in Accounts
  <2>1. Gain(a, x) = 0
    BY <1>2, <1>4 DEF SenderInv
  <2>. QED
    BY <2>1, <1>p DEF Gain
<1>6. /\ mem'.bal = Credit(Debit(mem.bal, in, cur.by, cur.amountIn), in, Self, cur.amountIn)
      /\ mem.bal[in][cur.by] >= cur.amountIn
  BY <1>4, <1>p DEF PullToken, CanPull, World
<1>7. \A a \in Assets, x \in Accounts :
        mem'.bal[a][x] = chain.bal[a][x] - (IF a = in /\ x = cur.by THEN cur.amountIn ELSE 0)
                          + (IF a = in /\ x = Self THEN cur.amountIn ELSE 0)
  <2>1. \A a \in Assets, x \in Accounts :
          Credit(Debit(mem.bal, in, cur.by, cur.amountIn), in, Self, cur.amountIn)[a][x]
            = mem.bal[a][x] - (IF a = in /\ x = cur.by THEN cur.amountIn ELSE 0)
                + (IF a = in /\ x = Self THEN cur.amountIn ELSE 0)
    <3>. HIDE DEF in
    <3>1. /\ mem.bal \in Balances /\ in \in Assets /\ cur.by \in Accounts /\ cur.amountIn \in Nat
          /\ mem.bal[in][cur.by] >= cur.amountIn /\ Self \in Accounts
      BY <1>p, <1>6
    <3>. QED
      BY <3>1, MoveValue
  <2>. QED
    BY <1>5, <1>6, <2>1
<1>8. Done' = 0 /\ Bringing' /\ Done = 0
  BY <1>1 DEF Done, Bringing
<1>g. \A a \in Assets, x \in Accounts :
        Gain(a, x)' = IF a # in THEN 0
                      ELSE IF x = cur.by THEN -cur.amountIn
                      ELSE IF x = Self THEN cur.amountIn ELSE 0
  BY <1>1, <1>7, <1>p DEF Gain
<1>9. StepInv' /\ KeptInv'
  BY <1>1, <1>8 DEF StepInv, KeptInv
<1>10. SenderInv'
  <2>1. Gain(in, cur.by)' = -cur.amountIn /\ Gain(in, Self)' = cur.amountIn
    BY <1>1, <1>g, <1>p DEF Gain
  <2>. QED
    BY <1>1, <1>p, <1>4, <2>1 DEF SenderInv, Gain
<1>11. BystanderInv'
  BY <1>1, <1>g, <1>p DEF BystanderInv, Gain
<1>12. PlanInv'
  <2>1. \A a \in Assets : Gain(a, Self)' = Planned(cur, a)[0] /\ Planned(cur, a)[0] \in Int
    BY <1>g, <1>p, PlannedFacts
  <2>. QED
    BY <1>1, <1>8, <2>1 DEF PlanInv, Gain
<1>13. MiddleInv'
  <2>1. \A a \in Assets : a # in => Gain(a, Self)' = 0
    BY <1>g, <1>p
  <2>. QED
    BY <1>1, <1>p, <2>1, AccountFacts DEF MiddleInv, Middle, Gain
<1>14. PayeeInv'
  <2>1. Gain(cur.assetOut, Payee(cur))' = 0 /\ (cur.assetOut = ETH => Gain(ETH, Self)' = 0)
    BY <1>1, <1>g, <1>p, AccountFacts DEF Gain, Payee, Abstract!Payee
  <2>2. (cur.direct \/ cur.assetOut = ETH) => Done' # Len(cur.calls)
    BY <1>8, <1>p, OutputFacts
  <2>. QED
    BY <1>1, <1>8, <1>p, <2>1, <2>2 DEF PayeeInv, Gain, Payee, Abstract!Payee
<1>. QED
  BY <1>9, <1>10, <1>11, <1>12, <1>13, <1>14 DEF SettleInv
-----------------------------------------------------------------------------
(* The calls.                                                              *)

(* A call that runs: what is known at that point of the plan.              *)
LEMMA CallFacts ==
  ASSUME TypeInv, SoundPlans, SettleInv, Turn("call"), Advance
  PROVE  /\ step \in CallsOf(cur) /\ cur.calls[step] \in Call /\ SoundCall(cur, step)
         /\ Done = step - 1 /\ Done' = step /\ Bringing /\ Bringing' /\ ~PullPending /\ ~PullPending'
         /\ UNCHANGED <<chain, phase, cur>>
         /\ StepInv' /\ KeptInv'
         /\ SenderInv /\ BystanderInv /\ PlanInv /\ MiddleInv /\ PayeeInv
<1>1. step \in CallsOf(cur) /\ cur.calls[step] \in Call /\ phase = "call"
  BY TurnCall DEF CallsOf, Turn
<1>2. cur \in Swaps /\ SoundCall(cur, step)
  BY <1>1, PlanFacts DEF SoundPlan, TypeInv, TypeOK
<1>3. /\ UNCHANGED <<chain, phase, cur>> /\ step' = step + 1
  BY DEF Advance
<1>4. step \in Nat /\ Len(cur.calls) \in Nat /\ step <= Len(cur.calls)
  BY <1>1, <1>2, PlanFacts DEF CallsOf
<1>5. /\ Done = step - 1 /\ Done' = step /\ Bringing /\ Bringing' /\ ~PullPending /\ ~PullPending'
  BY <1>1, <1>3, <1>4 DEF Done, Bringing, PullPending
<1>6. StepInv' /\ KeptInv'
  BY <1>3, <1>4, <1>5 DEF StepInv, KeptInv
<1>7. SenderInv /\ BystanderInv /\ PlanInv /\ MiddleInv /\ PayeeInv
  BY <1>1 DEF SettleInv
<1>. QED
  BY <1>1, <1>2, <1>3, <1>5, <1>6, <1>7

(* A call takes n of A from the executor and pays m of C to y.             *)
Moves(A, n, C, y, m) ==
  \A a \in Assets, x \in Accounts :
    mem'.bal[a][x] = mem.bal[a][x] - (IF a = A /\ x = Self THEN n ELSE 0)
                       + (IF a = C /\ x = y THEN m ELSE 0)

(* The two sides of the move are those of a sound plan.                    *)
SidesFit(A, C, y) ==
  /\ A # cur.assetOut /\ C # cur.assetIn
  /\ C = ETH => cur.assetOut = ETH
  /\ y # Self => cur.direct /\ y = Payee(cur) /\ C = cur.assetOut
  /\ cur.direct /\ C = cur.assetOut => y # Self
  /\ C \in Tokens /\ y = Self => Brings(cur.calls[step], C)

LastFits(C, y, m) ==
  step = Len(cur.calls) =>
    /\ cur.direct => y = Payee(cur) /\ C = cur.assetOut /\ m >= cur.floor
    /\ cur.assetOut = ETH => C = ETH /\ y = Self /\ m >= cur.floor

(* What is injected is spent whole.                                        *)
InjectionFits(A, n) ==
  \A t \in Tokens : cur.calls[step].injectToken = t => A = t /\ n = mem.bal[t][Self]

Change(A, n, C, y, m, a) == (IF a = C /\ y = Self THEN m ELSE 0) - (IF a = A THEN n ELSE 0)

FlowFits(A, n, C, y, m) ==
  \A a \in Assets : cur.calls[step].injectToken # a =>
    /\ Change(A, n, C, y, m, a) >= Flow(cur.calls[step], a)
    /\ a \in Tokens /\ ~Pays(cur.calls[step], a) =>
         Change(A, n, C, y, m, a) = Flow(cur.calls[step], a)

(* A call that takes n of A from the executor and pays m of C to y, as a   *)
(* sound plan has it, keeps the invariant.                                 *)
LEMMA SettleCall ==
  ASSUME TypeInv, SoundPlans, SettleInv, Turn("call"), Advance,
         NEW A \in Assets, NEW n \in Nat, NEW C \in Assets, NEW y \in Accounts, NEW m \in Nat,
         Moves(A, n, C, y, m), SidesFit(A, C, y), LastFits(C, y, m), InjectionFits(A, n),
         FlowFits(A, n, C, y, m)
  PROVE  SettleInv'
<1>. DEFINE c == cur.calls[step]
<1>1. /\ step \in CallsOf(cur) /\ c \in Call /\ SoundCall(cur, step)
      /\ Done = step - 1 /\ Done' = step /\ Bringing /\ Bringing' /\ ~PullPending /\ ~PullPending'
      /\ UNCHANGED <<chain, phase, cur>>
      /\ StepInv' /\ KeptInv'
      /\ SenderInv /\ BystanderInv /\ PlanInv /\ MiddleInv /\ PayeeInv
  BY CallFacts
<1>p. /\ cur \in Swaps /\ cur.by \in Users /\ Payee(cur) \in Users
      /\ cur.assetIn \in Assets /\ cur.assetOut \in Assets /\ cur.assetIn # cur.assetOut
      /\ cur.amountIn \in Nat /\ cur.floor \in Nat /\ Len(cur.calls) \in Nat /\ cur.direct \in BOOLEAN
      /\ \A a \in Assets, x \in Accounts : mem.bal[a][x] \in Nat /\ chain.bal[a][x] \in Nat
      /\ Self \in Accounts /\ Self \notin Users /\ Users \subseteq Accounts /\ cur.by \in Accounts
      /\ Payee(cur) \in Accounts /\ Tokens \subseteq Assets /\ ETH \in Assets
  BY PlanFacts, AccountFacts, WorldNat DEF TypeInv, TypeOK
<1>2. ASSUME NEW a \in Assets, NEW x \in Accounts
      PROVE  /\ Gain(a, x) \in Int /\ After(a, x) \in Int
             /\ After(a, x) = Gain(a, x) - (IF a = A /\ x = Self THEN n ELSE 0)
                                + (IF a = C /\ x = y THEN m ELSE 0)
  BY <1>p DEF Gain, Moves, After
<1>q. Self \in Accounts /\ n \in Nat /\ m \in Nat
  BY <1>p
<1>r. ASSUME NEW a \in Assets
      PROVE  /\ Gain(a, Self) \in Int /\ After(a, Self) \in Int
             /\ After(a, Self) = Gain(a, Self) + Change(A, n, C, y, m, a)
             /\ Change(A, n, C, y, m, a) \in Int
             /\ ~(a = C /\ y = Self) => After(a, Self) <= Gain(a, Self)
  <2>1. /\ Gain(a, Self) \in Int /\ After(a, Self) \in Int
        /\ After(a, Self) = Gain(a, Self) - (IF a = A /\ Self = Self THEN n ELSE 0)
                                + (IF a = C /\ Self = y THEN m ELSE 0)
    BY <1>2, <1>q
  <2>. QED
    BY <1>q, <2>1 DEF Change
<1>s. ASSUME NEW a \in Assets, NEW u \in Users
      PROVE  /\ Gain(a, u) \in Int /\ After(a, u) \in Int
             /\ After(a, u) = IF a = C /\ u = y THEN Gain(a, u) + m ELSE Gain(a, u)
  <2>1. u \in Accounts /\ u # Self
    BY <1>p
  <2>2. /\ Gain(a, u) \in Int /\ After(a, u) \in Int
        /\ After(a, u) = Gain(a, u) - (IF a = A /\ u = Self THEN n ELSE 0)
                                + (IF a = C /\ u = y THEN m ELSE 0)
    BY <1>2, <2>1
  <2>. QED
    BY <1>q, <2>1, <2>2
<1>3. SenderInv'
  <2>. DEFINE in == cur.assetIn
  <2>1. /\ Gain(in, cur.by) <= 0 /\ Gain(in, cur.by) >= -cur.amountIn
        /\ Gain(in, cur.by) + Gain(in, Self) <= 0
    BY <1>1 DEF SenderInv
  <2>2. After(in, cur.by) = Gain(in, cur.by) /\ After(in, Self) <= Gain(in, Self)
    <3>1. ~(in = C)
      BY DEF SidesFit
    <3>. QED
      BY <1>p, <1>r, <1>s, <3>1
  <2>3. After(in, cur.by) \in Int /\ After(in, Self) \in Int
        /\ Gain(in, Self) \in Int /\ Gain(in, cur.by) \in Int
    BY <1>p, <1>r, <1>s
  <2>4. /\ After(in, cur.by) <= 0 /\ After(in, cur.by) >= -cur.amountIn
        /\ After(in, cur.by) + After(in, Self) <= 0
    BY <1>p, <2>1, <2>2, <2>3
  <2>. QED
    BY <1>1, <2>4 DEF SenderInv, Gain, After
<1>4. BystanderInv'
  <2>1. ASSUME NEW a \in Assets, NEW u \in Users,
               ~(a = cur.assetIn /\ u = cur.by), ~(a = cur.assetOut /\ u = Payee(cur))
        PROVE  After(a, u) = 0
    <3>1. Gain(a, u) = 0
      BY <1>1, <2>1 DEF BystanderInv
    <3>2. u # Self /\ ~(a = C /\ u = y) /\ u \in Accounts
      BY <1>p, <2>1 DEF SidesFit
    <3>. QED
      BY <1>s, <3>1, <3>2
  <2>. QED
    BY <1>1, <2>1 DEF BystanderInv, Gain, Payee, Abstract!Payee, After
<1>5. PlanInv'
  <2>1. ASSUME NEW a \in Assets, Spared(a)' PROVE Spared(a) /\ c.injectToken # a
    <3>1. step \in CallsOf(cur) /\ step \in Int /\ \A k \in CallsOf(cur) : k \in Int
      BY <1>1, <1>p DEF CallsOf
    <3>2. \A k \in CallsOf(cur) : k <= step => cur.calls[k].injectToken # a
      BY <1>1, <2>1 DEF Spared
    <3>. QED
      BY <1>1, <3>1, <3>2 DEF Spared
  <2>2. ASSUME NEW a \in Assets, Spared(a)'
        PROVE  /\ After(a, Self) >= Planned(cur, a)[step]
               /\ a \in Tokens /\ (\A k \in CallsOf(cur) : ~Pays(cur.calls[k], a))
                    => After(a, Self) = Planned(cur, a)[step]
    <3>. DEFINE change == Change(A, n, C, y, m, a)
    <3>1. /\ Gain(a, Self) >= Planned(cur, a)[step - 1]
          /\ a \in Tokens /\ (\A k \in CallsOf(cur) : ~Pays(cur.calls[k], a))
               => Gain(a, Self) = Planned(cur, a)[step - 1]
      BY <1>1, <2>1, <2>2 DEF PlanInv
    <3>2. /\ change >= Flow(c, a)
          /\ a \in Tokens /\ ~Pays(c, a) => change = Flow(c, a)
      BY <2>1, <2>2 DEF FlowFits
    <3>3. /\ Planned(cur, a)[step] = Planned(cur, a)[step - 1] + Flow(c, a)
          /\ Planned(cur, a)[step - 1] \in Int /\ Flow(c, a) \in Int
      <4>1. step - 1 \in 0..Len(cur.calls)
        BY <1>1, <1>p DEF CallsOf
      <4>2. c \in Call
        BY <1>1
      <4>3. Flow(c, a) \in Int
        BY <4>2, FlowType
      <4>. QED
        BY <1>1, <1>p, <4>1, <4>3, PlannedFacts
    <3>4. After(a, Self) = Gain(a, Self) + change /\ Gain(a, Self) \in Int /\ change \in Int
      BY <1>r
    <3>. HIDE DEF change, c
    <3>. QED
      BY <1>1, <3>1, <3>2, <3>3, <3>4 DEF c
  <2>. QED
    BY <1>1, <2>2 DEF PlanInv, Gain, After
<1>6. MiddleInv'
  <2>1. ASSUME NEW a \in Assets, ~(a = C /\ y = Self)
        PROVE  After(a, Self) <= Gain(a, Self)
    BY <1>r, <2>1
  <2>2. ASSUME NEW t \in Tokens, Middle(t), After(t, Self) > 0
        PROVE  (\E j \in CallsOf(cur) : j > step /\ cur.calls[j].injectToken = t) \/ UsedUp(cur, t)
    <3>1. CASE t = C /\ y = Self
      <4>1. Brings(c, t) /\ SoundMiddle(cur, t)
        BY <1>p, <2>2, <3>1, PlanFacts DEF SoundPlan, Middle, SidesFit
      <4>. QED
        BY <1>1, <4>1 DEF SoundMiddle
    <3>2. CASE ~(t = C /\ y = Self)
      <4>0. After(t, Self) <= Gain(t, Self) /\ Gain(t, Self) \in Int /\ After(t, Self) \in Int
        BY <1>p, <1>r, <3>2
      <4>1. Gain(t, Self) > 0
        BY <2>2, <4>0
      <4>2. SpentLater(t) \/ UsedUp(cur, t)
        BY <1>1, <2>2, <4>1 DEF MiddleInv
      <4>3. c.injectToken # t
        <5>1. ASSUME c.injectToken = t PROVE FALSE
          <6>1. t = A /\ n = mem.bal[t][Self] /\ t \in Assets
            BY <1>p, <5>1 DEF InjectionFits
          <6>2. After(t, Self) = Gain(t, Self) - n
            BY <1>r, <3>2, <6>1 DEF Change
          <6>3. mem.bal[t][Self] \in Nat /\ chain.bal[t][Self] \in Nat
            BY <1>p, <6>1
          <6>. QED
            BY <2>2, <6>1, <6>2, <6>3 DEF Gain
        <5>. QED
          BY <5>1
      <4>4. step \in Int /\ \A k \in CallsOf(cur) : k \in Int
        BY <1>1, <1>p DEF CallsOf
      <4>5. ASSUME NEW j \in CallsOf(cur), j > step - 1, cur.calls[j].injectToken = t
            PROVE  j > step
        <5>1. j # step
          BY <4>3, <4>5
        <5>. QED
          BY <4>4, <4>5, <5>1
      <4>. QED
        BY <1>1, <4>2, <4>5 DEF SpentLater
    <3>. QED
      BY <3>1, <3>2
  <2>3. ASSUME NEW a \in Assets, C = a => y # Self, Gain(a, Self) <= 0
        PROVE  After(a, Self) <= 0
    <3>1. After(a, Self) <= Gain(a, Self) /\ Gain(a, Self) \in Int /\ After(a, Self) \in Int
      BY <1>r, <2>3
    <3>. QED
      BY <2>3, <3>1
  <2>4. ETH \notin {cur.assetIn, cur.assetOut} => After(ETH, Self) <= 0
    BY <1>1, <1>p, <2>3 DEF MiddleInv, SidesFit
  <2>5. cur.direct => After(cur.assetOut, Self) <= 0
    BY <1>1, <1>p, <2>3 DEF MiddleInv, SidesFit
  <2>. QED
    BY <1>1, <2>2, <2>4, <2>5 DEF MiddleInv, Middle, Gain, SpentLater, After
<1>7. PayeeInv'
  <2>. DEFINE out == cur.assetOut
              to == Payee(cur)
  <2>1. Gain(out, to) >= 0 /\ to # Self /\ to \in Users /\ out \in Assets /\ A # out
    BY <1>1, <1>p DEF PayeeInv, SidesFit
  <2>2. /\ After(out, to) = IF out = C /\ to = y THEN Gain(out, to) + m ELSE Gain(out, to)
        /\ Gain(out, to) \in Int
    BY <1>s, <2>1
  <2>3. After(out, to) >= 0
    <3>. HIDE DEF out, to
    <3>. QED
      BY <1>q, <2>1, <2>2
  <2>4. ASSUME cur.direct, step = Len(cur.calls) PROVE After(out, to) >= cur.floor
    <3>1. to = y /\ C = out /\ m >= cur.floor
      BY <2>4 DEF LastFits
    <3>. HIDE DEF to, out
    <3>. QED
      BY <1>p, <2>1, <2>2, <3>1
  <2>5. ASSUME out = ETH
        PROVE  After(ETH, Self) >= 0 /\ (step = Len(cur.calls) => After(ETH, Self) >= cur.floor)
    <3>1. Gain(ETH, Self) >= 0
      BY <1>1, <2>5 DEF PayeeInv
    <3>2. After(ETH, Self) = Gain(ETH, Self) + (IF ETH = C /\ y = Self THEN m ELSE 0)
          /\ Gain(ETH, Self) \in Int
      <4>1. Change(A, n, C, y, m, ETH) = IF ETH = C /\ y = Self THEN m ELSE 0
        BY <1>q, <2>1, <2>5 DEF Change
      <4>. QED
        BY <1>p, <1>r, <4>1
    <3>3. step = Len(cur.calls) => C = ETH /\ y = Self /\ m >= cur.floor
      BY <2>5 DEF LastFits
    <3>. QED
      BY <1>p, <3>1, <3>2, <3>3
  <2>. QED
    BY <1>1, <2>3, <2>4, <2>5 DEF PayeeInv, Gain, Payee, Abstract!Payee, After
<1>. QED
  BY <1>1, <1>3, <1>4, <1>5, <1>6, <1>7 DEF SettleInv
(* What a target receives of a sound call.                                 *)
LEMMA SentWords ==
  ASSUME TypeInv, NEW c \in Call, Injects(c) => WordAt(c.kind, c.injectOffset) = "amountIn"
  PROVE  /\ Sent(c)["amountIn"] = IF Injects(c) THEN Held(c.injectToken) ELSE c.words["amountIn"]
         /\ Sent(c)["amountOutMin"] = c.words["amountOutMin"]
         /\ Sent(c)["deadline"] = c.words["deadline"]
BY DEF Sent, Overwrite, Numbers


(* A router's payment.                                                     *)
LEMMA SettleSwap ==
  ASSUME TypeInv, SoundPlans, SettleInv, SwapCall
  PROVE  SettleInv'
<1>. DEFINE c == cur.calls[step]
            n == Sent(c)["amountIn"]
            w == c.words["amountOutMin"]
<1>1. Turn("call") /\ Advance /\ c.kind \in SwapKinds /\ Fault(c) = "ok"
  BY DEF SwapCall
<1>2. c \in Call /\ SoundCall(cur, step) /\ step \in CallsOf(cur)
  BY <1>1, CallFacts
<1>p. /\ cur \in Swaps /\ cur.floor \in Nat /\ cur.direct \in BOOLEAN
      /\ mem \in World /\ mem.bal \in Balances /\ w \in Nat /\ c.words["amountIn"] \in Nat
      /\ Payee(cur) = IF cur.direct THEN cur.recipient ELSE cur.by
      /\ Self \in Accounts /\ Self \notin Users /\ Payee(cur) \in Users
      /\ ETH \notin Tokens /\ Tokens \subseteq Assets
  BY <1>2, PlanFacts, AccountFacts DEF TypeInv, TypeOK, World, Balances, Call, Numbers
<1>3. /\ Injects(c) => c.injectToken = c.tokenIn
      /\ c.injectToken \in {NoToken, c.tokenIn}
      /\ c.tokenIn # cur.assetOut /\ c.tokenOut # cur.assetIn
      /\ IF cur.direct /\ step = Len(cur.calls) THEN c.recipient = cur.recipient
         ELSE c.recipient = Self /\ (cur.direct => c.tokenOut # cur.assetOut)
      /\ Injects(c) => WordAt(c.kind, c.injectOffset) = "amountIn"
  BY <1>1, <1>2 DEF SoundCall, Injects
<1>4. /\ n = IF Injects(c) THEN Held(c.tokenIn) ELSE c.words["amountIn"]
      /\ Sent(c)["amountOutMin"] = w
  BY <1>2, <1>3, SentWords
<1>5. /\ c.tokenIn \in Tokens /\ c.tokenOut \in Tokens /\ c.recipient \in Accounts
      /\ n \in Nat /\ mem.bal[c.tokenIn][Self] >= n
  BY <1>1, <1>2, SwapCallFacts, SentType DEF Held
<1>6. PICK extra \in Surplus :
        mem' = [mem EXCEPT
                  !.bal = Credit(Debit(mem.bal, c.tokenIn, Self, n),
                                 c.tokenOut, c.recipient, Sent(c)["amountOutMin"] + extra),
                  !.allowance[c.tokenIn][c.target] = Spend(@, n)]
  BY DEF SwapCall
<1>. DEFINE m == w + extra
<1>7. m \in Nat /\ m >= w /\ c.tokenIn \in Assets /\ c.tokenOut \in Assets
  BY <1>5, <1>p, AssetsAssumption
<1>8. mem'.bal = Credit(Debit(mem.bal, c.tokenIn, Self, n), c.tokenOut, c.recipient, m)
  BY <1>4, <1>6, <1>p DEF World
<1>9. Moves(c.tokenIn, n, c.tokenOut, c.recipient, m)
  <2>. HIDE DEF c, n, m
  <2>1. /\ mem.bal \in Balances /\ c.tokenIn \in Assets /\ n \in Nat /\ m \in Nat
        /\ mem.bal[c.tokenIn][Self] >= n /\ Self \in Accounts
        /\ c.tokenOut \in Assets /\ c.recipient \in Accounts
    BY <1>5, <1>7, <1>p
  <2>2. \A a \in Assets, x \in Accounts :
          Credit(Debit(mem.bal, c.tokenIn, Self, n), c.tokenOut, c.recipient, m)[a][x]
            = mem.bal[a][x] - (IF a = c.tokenIn /\ x = Self THEN n ELSE 0)
                + (IF a = c.tokenOut /\ x = c.recipient THEN m ELSE 0)
    BY <2>1, MoveValue
  <2>. QED
    BY <1>8, <2>2 DEF Moves
<1>10. Pays(c, c.tokenOut) /\ c.kind # "deposit" /\ c.kind # "withdraw"
  BY <1>1 DEF Pays, SwapKinds
<1>11. cur.direct /\ step = Len(cur.calls) =>
         /\ c.recipient = Payee(cur) /\ c.tokenOut = cur.assetOut /\ w >= cur.floor
  BY <1>3, <1>p, OutputFacts DEF Pays
<1>12. SidesFit(c.tokenIn, c.tokenOut, c.recipient)
  BY <1>3, <1>5, <1>10, <1>11, <1>p DEF SidesFit, Brings
<1>13. LastFits(c.tokenOut, c.recipient, m)
  <2>1. cur.assetOut = ETH => step # Len(cur.calls)
    BY <1>10, <1>p, OutputFacts
  <2>2. cur.direct /\ step = Len(cur.calls) => m >= cur.floor
    <3>. HIDE DEF m, w
    <3>1. w >= cur.floor /\ m >= w /\ m \in Nat /\ w \in Nat /\ cur.floor \in Nat => m >= cur.floor
      OBVIOUS
    <3>. QED
      BY <1>7, <1>11, <1>p, <3>1
  <2>. QED
    BY <1>11, <2>1, <2>2 DEF LastFits
<1>14. InjectionFits(c.tokenIn, n)
  BY <1>3, <1>4, AssetsAssumption DEF InjectionFits, Injects, Held
<1>15. FlowFits(c.tokenIn, n, c.tokenOut, c.recipient, m)
  <2>. SUFFICES ASSUME NEW a \in Assets, c.injectToken # a
                PROVE  /\ Change(c.tokenIn, n, c.tokenOut, c.recipient, m, a) >= Flow(c, a)
                       /\ a \in Tokens /\ ~Pays(c, a) =>
                            Change(c.tokenIn, n, c.tokenOut, c.recipient, m, a) = Flow(c, a)
    BY DEF FlowFits
  <2>1. a = c.tokenIn => n = c.words["amountIn"]
    BY <1>3, <1>4 DEF Injects
  <2>2. Flow(c, a) = (IF c.tokenOut = a /\ c.recipient = Self THEN w ELSE 0)
                       - (IF c.tokenIn = a THEN c.words["amountIn"] ELSE 0)
    <3>1. Flow(c, a) = (IF c.tokenOut = a /\ c.recipient = Self THEN w ELSE 0)
                       - (IF c.tokenIn = a THEN c.words["amountIn"] ELSE 0) + 0 - 0
      BY <1>1, <1>10 DEF Flow
    <3>. QED
      BY <3>1, <1>p
  <2>3. Pays(c, a) <=> c.tokenOut = a
    BY <1>1 DEF Pays
  <2>. HIDE DEF c, n, m, w
  <2>. QED
    BY <1>5, <1>7, <1>p, <2>1, <2>2, <2>3 DEF Change
<1>16. c.tokenIn \in Assets /\ n \in Nat /\ c.tokenOut \in Assets /\ c.recipient \in Accounts
       /\ m \in Nat /\ Turn("call") /\ Advance
  BY <1>1, <1>5, <1>7
<1>. HIDE DEF c, n, m
<1>. QED
  BY <1>9, <1>12, <1>13, <1>14, <1>15, <1>16, SettleCall

(* The deposit.                                                            *)
LEMMA SettleWrap ==
  ASSUME TypeInv, SoundPlans, SettleInv, WrapCall
  PROVE  SettleInv'
<1>. DEFINE c == cur.calls[step]
            n == c.value
<1>1. Turn("call") /\ Advance /\ c.kind = "deposit" /\ Fault(c) = "ok"
  BY DEF WrapCall
<1>2. c \in Call /\ SoundCall(cur, step) /\ step \in CallsOf(cur)
  BY <1>1, CallFacts
<1>p. /\ cur \in Swaps /\ cur.direct \in BOOLEAN /\ cur.assetIn # cur.assetOut
      /\ mem \in World /\ mem.bal \in Balances /\ n \in Nat
      /\ Self \in Accounts /\ ETH \notin Tokens /\ WETH \in Tokens /\ WETH # ETH
      /\ ETH \in Assets /\ WETH \in Assets
  BY <1>2, PlanFacts, AccountFacts DEF TypeInv, TypeOK, World, Balances, Call
<1>3. ~Injects(c) /\ cur.assetIn = ETH /\ cur.assetOut # WETH /\ cur.assetOut # ETH
  BY <1>1, <1>2, <1>p DEF SoundCall
<1>4. mem.bal[ETH][Self] >= n
  BY <1>1, <1>2, WrapCallFacts DEF Held
<1>5. mem'.bal = Credit(Debit(mem.bal, ETH, Self, n), WETH, Self, n)
  BY <1>p, WorldFrame DEF WrapCall
<1>6. Moves(ETH, n, WETH, Self, n)
  <2>. HIDE DEF c, n
  <2>1. \A a \in Assets, x \in Accounts :
          Credit(Debit(mem.bal, ETH, Self, n), WETH, Self, n)[a][x]
            = mem.bal[a][x] - (IF a = ETH /\ x = Self THEN n ELSE 0)
                + (IF a = WETH /\ x = Self THEN n ELSE 0)
    BY <1>p, <1>4, MoveValue
  <2>. QED
    BY <1>5, <2>1 DEF Moves
<1>7. Brings(c, WETH) /\ \A t : ~Pays(c, t)
  BY <1>1 DEF Brings, Pays, SwapKinds
<1>8. SidesFit(ETH, WETH, Self)
  BY <1>3, <1>7, <1>p DEF SidesFit
<1>9. LastFits(WETH, Self, n)
  <2>1. cur.direct => step # Len(cur.calls)
    BY <1>7, <1>p, OutputFacts
  <2>. QED
    BY <1>3, <2>1 DEF LastFits
<1>10. InjectionFits(ETH, n)
  BY <1>3, AssetsAssumption DEF InjectionFits, Injects
<1>11. FlowFits(ETH, n, WETH, Self, n)
  <2>1. ASSUME NEW a \in Assets PROVE Change(ETH, n, WETH, Self, n, a) = Flow(c, a)
    <3>1. Flow(c, a) = 0 - 0 + (IF a = WETH THEN n ELSE 0) - (IF a = ETH THEN n ELSE 0)
      BY <1>1 DEF Flow, SwapKinds
    <3>. HIDE DEF c, n
    <3>. QED
      BY <1>p, <3>1 DEF Change
  <2>2. \A a \in Assets : Change(ETH, n, WETH, Self, n, a) \in Int
    BY <1>p DEF Change
  <2>. HIDE DEF n
  <2>. QED
    BY <2>1, <2>2 DEF FlowFits
<1>. HIDE DEF n
<1>. QED
  BY <1>1, <1>6, <1>8, <1>9, <1>10, <1>11, <1>p, SettleCall

(* The withdrawal, which is told to unwrap all the executor holds.         *)
LEMMA SettleUnwrap ==
  ASSUME TypeInv, SoundPlans, SettleInv, UnwrapCall
  PROVE  SettleInv'
<1>. DEFINE c == cur.calls[step]
            n == Sent(c)["amountIn"]
<1>1. Turn("call") /\ Advance /\ c.kind = "withdraw" /\ Fault(c) = "ok"
  BY DEF UnwrapCall
<1>2. c \in Call /\ SoundCall(cur, step) /\ step \in CallsOf(cur)
  BY <1>1, CallFacts
<1>p. /\ cur \in Swaps /\ cur.direct \in BOOLEAN /\ cur.assetIn # cur.assetOut
      /\ cur.floor \in Nat /\ Len(cur.calls) \in Nat
      /\ mem \in World /\ mem.bal \in Balances /\ n \in Nat
      /\ Self \in Accounts /\ ETH \notin Tokens /\ WETH \in Tokens /\ WETH # ETH
      /\ ETH \in Assets /\ WETH \in Assets /\ NoToken \notin Tokens
      /\ mem.bal[WETH][Self] \in Nat /\ chain.bal[WETH][Self] \in Nat
  BY <1>2, PlanFacts, AccountFacts, AssetsAssumption, SentType, SelfHolds
     DEF TypeInv, TypeOK, World, Balances
<1>3. /\ c.injectToken = WETH /\ cur.assetOut = ETH /\ step = Len(cur.calls)
      /\ Injects(c) => WordAt(c.kind, c.injectOffset) = "amountIn"
  BY <1>1, <1>2 DEF SoundCall
<1>4. Injects(c) /\ n = mem.bal[WETH][Self]
  BY <1>2, <1>3, <1>p, SentWords DEF Injects, Held
<1>5. mem'.bal = Credit(Debit(mem.bal, WETH, Self, n), ETH, Self, n)
  BY <1>p, WorldFrame DEF UnwrapCall
<1>6. Moves(WETH, n, ETH, Self, n)
  <2>. HIDE DEF c, n
  <2>1. mem.bal[WETH][Self] >= n
    BY <1>4, <1>p
  <2>2. \A a \in Assets, x \in Accounts :
          Credit(Debit(mem.bal, WETH, Self, n), ETH, Self, n)[a][x]
            = mem.bal[a][x] - (IF a = WETH /\ x = Self THEN n ELSE 0)
                + (IF a = ETH /\ x = Self THEN n ELSE 0)
    BY <1>p, <2>1, MoveValue
  <2>. QED
    BY <1>5, <2>2 DEF Moves
<1>7. \A t : ~Pays(c, t)
  BY <1>1 DEF Pays, SwapKinds
<1>8. ~cur.direct
  BY <1>3, <1>p, OutputFacts
<1>9. SidesFit(WETH, ETH, Self)
  BY <1>3, <1>8, <1>p DEF SidesFit
<1>10. LastFits(ETH, Self, n)
  <2>1. /\ Len(cur.calls) > 0 /\ Planned(cur, WETH)[Len(cur.calls) - 1] >= cur.floor
        /\ \A k \in 1..(Len(cur.calls) - 1) : cur.calls[k].injectToken # WETH
    BY <1>3, <1>8, <1>p, OutputFacts
  <2>2. Done = step - 1 /\ Bringing /\ ~PullPending /\ PlanInv
    BY <1>1, CallFacts
  <2>3. Spared(WETH)
    BY <1>3, <1>p, <2>1, <2>2 DEF Spared, CallsOf
  <2>4. Gain(WETH, Self) >= Planned(cur, WETH)[Len(cur.calls) - 1]
    BY <1>3, <1>p, <2>2, <2>3 DEF PlanInv
  <2>5. Len(cur.calls) - 1 \in 0..Len(cur.calls)
    BY <1>p, <2>1
  <2>6. Planned(cur, WETH)[Len(cur.calls) - 1] \in Int
    BY <1>p, <2>5, PlannedFacts
  <2>7. n >= cur.floor
    <3>1. Gain(WETH, Self) = mem.bal[WETH][Self] - chain.bal[WETH][Self]
      BY DEF Gain
    <3>. HIDE DEF n
    <3>. QED
      BY <1>4, <1>p, <2>1, <2>4, <2>6, <3>1
  <2>. QED
    BY <1>8, <2>7 DEF LastFits
<1>11. InjectionFits(WETH, n)
  BY <1>3, <1>4 DEF InjectionFits
<1>12. FlowFits(WETH, n, ETH, Self, n)
  <2>. SUFFICES ASSUME NEW a \in Assets, a # WETH
                PROVE  /\ Change(WETH, n, ETH, Self, n, a) >= Flow(c, a)
                       /\ a \in Tokens => Change(WETH, n, ETH, Self, n, a) = Flow(c, a)
    BY <1>3 DEF FlowFits
  <2>1. Flow(c, a) = 0 - 0 + 0 - 0
    BY <1>1 DEF Flow, SwapKinds
  <2>. HIDE DEF c, n
  <2>. QED
    BY <1>p, <2>1 DEF Change
<1>. HIDE DEF n
<1>. QED
  BY <1>1, <1>6, <1>9, <1>10, <1>11, <1>12, <1>p, SettleCall

-----------------------------------------------------------------------------
(* When the growth of f is paid to the sender: what she had to pay is      *)
(* still bounded by amountIn, and only f moves, from the executor to her.  *)
LEMMA GrowthPaid ==
  ASSUME TypeInv, SoundPlans, SettleInv, phase # "idle", NEW f \in Assets, NEW n,
         n = IF Gain(f, Self) > 0 THEN Gain(f, Self) ELSE 0,
         mem'.bal = Credit(Debit(mem.bal, f, Self, n), f, cur.by, n)
  PROVE  /\ n \in Nat
         /\ \A a \in Assets, x \in Accounts :
              /\ Gain(a, x) \in Int /\ After(a, x) \in Int
              /\ After(a, x) = Gain(a, x) - (IF a = f /\ x = Self THEN n ELSE 0)
                                  + (IF a = f /\ x = cur.by THEN n ELSE 0)
         /\ After(cur.assetIn, cur.by) <= 0 /\ After(cur.assetIn, cur.by) >= -cur.amountIn
         /\ \A a \in Assets : After(a, cur.by) + After(a, Self) = Gain(a, cur.by) + Gain(a, Self)
         /\ \A a \in Assets, u \in Users : After(a, u) >= Gain(a, u) /\ Gain(a, u) \in Int
         /\ \A a \in Assets :
              /\ After(a, Self) <= Gain(a, Self) /\ (Gain(a, Self) >= 0 => After(a, Self) >= 0)
              /\ After(a, Self) > 0 => Gain(a, Self) > 0
              /\ a # f => After(a, Self) = Gain(a, Self)
              /\ a = f => After(a, Self) <= 0
<1>p. /\ cur.by \in Users /\ cur.by \in Accounts /\ cur.by # Self
      /\ cur.assetIn \in Assets /\ cur.amountIn \in Nat
      /\ \A a \in Assets, x \in Accounts : mem.bal[a][x] \in Nat /\ chain.bal[a][x] \in Nat
      /\ Self \in Accounts /\ Users \subseteq Accounts
      /\ mem \in World /\ mem.bal \in Balances
  BY PlanFacts, AccountFacts, WorldNat DEF TypeInv, TypeOK, World, Balances
<1>3. SenderInv
  BY DEF SettleInv
<1>4. n = IF Gain(f, Self) > 0 THEN Gain(f, Self) ELSE 0
  OBVIOUS
<1>5. n \in Nat /\ mem.bal[f][Self] >= n
  BY <1>4, <1>p DEF Gain
<1>6. mem'.bal = Credit(Debit(mem.bal, f, Self, n), f, cur.by, n)
  OBVIOUS
<1>7. \A a \in Assets, x \in Accounts :
        /\ Gain(a, x) \in Int /\ After(a, x) \in Int
        /\ After(a, x) = Gain(a, x) - (IF a = f /\ x = Self THEN n ELSE 0)
                           + (IF a = f /\ x = cur.by THEN n ELSE 0)
  <2>1. \A a \in Assets, x \in Accounts :
          mem'.bal[a][x] = mem.bal[a][x] - (IF a = f /\ x = Self THEN n ELSE 0)
                             + (IF a = f /\ x = cur.by THEN n ELSE 0)
    <3>1. /\ mem.bal \in Balances /\ f \in Assets /\ n \in Nat /\ mem.bal[f][Self] >= n
          /\ Self \in Accounts /\ cur.by \in Accounts
      BY <1>5, <1>p
    <3>2. \A a \in Assets, x \in Accounts :
            Credit(Debit(mem.bal, f, Self, n), f, cur.by, n)[a][x]
              = mem.bal[a][x] - (IF a = f /\ x = Self THEN n ELSE 0)
                  + (IF a = f /\ x = cur.by THEN n ELSE 0)
      BY <3>1, MoveValue
    <3>. QED
      BY <1>6, <3>2
  <2>2. ASSUME NEW a \in Assets, NEW x \in Accounts
        PROVE  /\ Gain(a, x) \in Int /\ After(a, x) \in Int
               /\ After(a, x) = Gain(a, x) - (IF a = f /\ x = Self THEN n ELSE 0)
                                  + (IF a = f /\ x = cur.by THEN n ELSE 0)
    <3>1. mem.bal[a][x] \in Nat /\ chain.bal[a][x] \in Nat /\ n \in Nat
      BY <1>5, <1>p
    <3>2. mem'.bal[a][x] = mem.bal[a][x] - (IF a = f /\ x = Self THEN n ELSE 0)
                             + (IF a = f /\ x = cur.by THEN n ELSE 0)
      BY <2>1
    <3>. QED
      BY <3>1, <3>2 DEF Gain, After
  <2>. QED
    BY <2>2
<1>8. After(cur.assetIn, cur.by) <= 0 /\ After(cur.assetIn, cur.by) >= -cur.amountIn
  <2>1. /\ Gain(cur.assetIn, cur.by) <= 0 /\ Gain(cur.assetIn, cur.by) >= -cur.amountIn
        /\ Gain(cur.assetIn, cur.by) + Gain(cur.assetIn, Self) <= 0
    BY <1>3 DEF SenderInv
  <2>2. /\ Gain(cur.assetIn, cur.by) \in Int /\ After(cur.assetIn, cur.by) \in Int
        /\ Gain(cur.assetIn, Self) \in Int
        /\ After(cur.assetIn, cur.by)
             = Gain(cur.assetIn, cur.by) + (IF cur.assetIn = f THEN n ELSE 0)
    <3>1. /\ Gain(cur.assetIn, cur.by) \in Int /\ After(cur.assetIn, cur.by) \in Int
          /\ Gain(cur.assetIn, Self) \in Int
          /\ After(cur.assetIn, cur.by)
               = Gain(cur.assetIn, cur.by) - (IF cur.assetIn = f /\ cur.by = Self THEN n ELSE 0)
                   + (IF cur.assetIn = f /\ cur.by = cur.by THEN n ELSE 0)
      BY <1>7, <1>p
    <3>2. cur.by # Self
      BY <1>p
    <3>. QED
      BY <3>1, <3>2, <1>5
  <2>3. cur.assetIn = f => n = IF Gain(cur.assetIn, Self) > 0 THEN Gain(cur.assetIn, Self) ELSE 0
    BY <1>4
  <2>. QED
    BY <2>1, <2>2, <2>3, <1>p
<1>s. \A a \in Assets : After(a, cur.by) + After(a, Self) = Gain(a, cur.by) + Gain(a, Self)
  BY <1>5, <1>7, <1>p
<1>u. \A a \in Assets, u \in Users : After(a, u) >= Gain(a, u) /\ Gain(a, u) \in Int
  <2>1. ASSUME NEW a \in Assets, NEW u \in Users
        PROVE  After(a, u) >= Gain(a, u) /\ Gain(a, u) \in Int
    <3>1. u \in Accounts /\ u # Self
      BY AccountFacts
    <3>2. /\ Gain(a, u) \in Int /\ After(a, u) \in Int
          /\ After(a, u) = Gain(a, u) - (IF a = f /\ u = Self THEN n ELSE 0)
                             + (IF a = f /\ u = cur.by THEN n ELSE 0)
      BY <1>7, <3>1
    <3>. QED
      BY <3>1, <3>2, <1>5
  <2>. QED
    BY <2>1
<1>d. \A a \in Assets :
        /\ After(a, Self) <= Gain(a, Self) /\ (Gain(a, Self) >= 0 => After(a, Self) >= 0)
        /\ After(a, Self) > 0 => Gain(a, Self) > 0
        /\ a # f => After(a, Self) = Gain(a, Self)
  <2>1. ASSUME NEW a \in Assets
        PROVE  /\ After(a, Self) = Gain(a, Self) - (IF a = f THEN n ELSE 0)
               /\ Gain(a, Self) \in Int /\ After(a, Self) \in Int
    <3>1. /\ Gain(a, Self) \in Int /\ After(a, Self) \in Int
          /\ After(a, Self) = Gain(a, Self) - (IF a = f /\ Self = Self THEN n ELSE 0)
                                + (IF a = f /\ Self = cur.by THEN n ELSE 0)
      BY <1>7, <1>p
    <3>2. Self # cur.by
      BY <1>p
    <3>. QED
      BY <3>1, <3>2, <1>5
  <2>2. ASSUME NEW a \in Assets
        PROVE  a = f => n = IF Gain(a, Self) > 0 THEN Gain(a, Self) ELSE 0
    BY <1>4
  <2>. QED
    BY <2>1, <2>2, <1>5
<1>e. \A a \in Assets : a = f => After(a, Self) <= 0
  <2>1. ASSUME NEW a \in Assets, a = f PROVE After(a, Self) <= 0
    <3>1. /\ Gain(a, Self) \in Int
          /\ After(a, Self) = Gain(a, Self) - (IF a = f /\ Self = Self THEN n ELSE 0)
                                + (IF a = f /\ Self = cur.by THEN n ELSE 0)
      BY <1>7, <1>p
    <3>2. Self # cur.by
      BY <1>p
    <3>. QED
      BY <2>1, <3>1, <3>2, <1>4
  <2>. QED
    BY <2>1
<1>. QED
  BY <1>5, <1>7, <1>8, <1>s, <1>u, <1>d, <1>e

(* A growing token goes to the sender: at that point it can only be the    *)
(* input, which was hers, or the output, which is owed to her.             *)
LEMMA SettleFlush ==
  ASSUME TypeInv, FlushInv, SoundPlans, SettleInv, FlushToken
  PROVE  SettleInv'
<1>. DEFINE f == cur.flush[step]
            n == Growth(Held(f), before.tokens[step])
<1>1. /\ phase = "flush" /\ Advance /\ step \in 1..Len(cur.flush) /\ f \in Tokens
      /\ before.tokens[step] = chain.bal[f][Self]
  BY TurnFlush DEF FlushToken, Turn, FlushInv, Noted
<1>2. /\ UNCHANGED <<chain, phase, cur>> /\ ~Bringing /\ ~Bringing' /\ ~PullPending /\ ~PullPending'
      /\ Done = Len(cur.calls) /\ Done' = Len(cur.calls)
  BY <1>1 DEF Advance, Bringing, PullPending, Done
<1>3. /\ SenderInv /\ BystanderInv /\ MiddleInv /\ PayeeInv /\ KeptInv
  BY <1>1 DEF SettleInv
<1>p. /\ cur \in Swaps /\ cur.by \in Users /\ Payee(cur) \in Users /\ cur.by \in Accounts
      /\ cur.by # Self /\ Payee(cur) # Self
      /\ cur.assetIn \in Assets /\ cur.assetOut \in Assets /\ cur.assetIn # cur.assetOut
      /\ cur.amountIn \in Nat /\ cur.floor \in Nat /\ cur.direct \in BOOLEAN
      /\ Payee(cur) = IF cur.direct THEN cur.recipient ELSE cur.by
      /\ \A a \in Assets, x \in Accounts : mem.bal[a][x] \in Nat /\ chain.bal[a][x] \in Nat
      /\ Self \in Accounts /\ Users \subseteq Accounts /\ f \in Assets /\ f # ETH /\ ETH \in Assets
      /\ mem \in World /\ mem.bal \in Balances
  BY <1>1, PlanFacts, AccountFacts, WorldNat DEF TypeInv, TypeOK, World, Balances
<1>4. n = IF Gain(f, Self) > 0 THEN Gain(f, Self) ELSE 0
  BY <1>1, <1>p DEF Gain, Growth, Held
<1>5. mem'.bal = Credit(Debit(mem.bal, f, Self, n), f, cur.by, n)
  BY <1>p, WorldFrame DEF FlushToken
<1>. HIDE DEF n, f
<1>6. SettleInv /\ phase # "idle"
  BY <1>1
<1>7. /\ n \in Nat
      /\ \A a \in Assets, x \in Accounts :
           /\ Gain(a, x) \in Int /\ After(a, x) \in Int
           /\ After(a, x) = Gain(a, x) - (IF a = f /\ x = Self THEN n ELSE 0)
                               + (IF a = f /\ x = cur.by THEN n ELSE 0)
      /\ After(cur.assetIn, cur.by) <= 0 /\ After(cur.assetIn, cur.by) >= -cur.amountIn
      /\ \A a \in Assets : After(a, cur.by) + After(a, Self) = Gain(a, cur.by) + Gain(a, Self)
      /\ \A a \in Assets, u \in Users : After(a, u) >= Gain(a, u) /\ Gain(a, u) \in Int
      /\ \A a \in Assets :
           /\ After(a, Self) <= Gain(a, Self) /\ (Gain(a, Self) >= 0 => After(a, Self) >= 0)
           /\ After(a, Self) > 0 => Gain(a, Self) > 0
           /\ a # f => After(a, Self) = Gain(a, Self)
  BY <1>4, <1>5, <1>6, <1>p, GrowthPaid
<1>9. SenderInv'
  <2>1. After(cur.assetIn, cur.by) + After(cur.assetIn, Self) <= 0
    BY <1>3, <1>7, <1>p DEF SenderInv
  <2>. QED
    BY <1>2, <1>7, <2>1 DEF SenderInv, Gain, After
<1>10. BystanderInv'
  <2>. SUFFICES ASSUME NEW a \in Assets, NEW u \in Users,
                       ~(a = cur.assetIn /\ u = cur.by), ~(a = cur.assetOut /\ u = Payee(cur))
                PROVE  After(a, u) = 0
    BY <1>2 DEF BystanderInv, Gain, Payee, Abstract!Payee, After
  <2>1. Gain(a, u) = 0
    BY <1>3 DEF BystanderInv
  <2>2. ASSUME a = f, u = cur.by PROVE ~(Gain(f, Self) > 0)
    <3>1. CASE f = cur.assetOut
      <4>1. cur.direct
        BY <2>2, <3>1, <1>p
      <4>. QED
        BY <3>1, <4>1, <1>3, <1>7, <1>p DEF MiddleInv
    <3>2. CASE f # cur.assetOut
      <4>1. Middle(f)
        BY <2>2, <3>2, <1>1, <1>p DEF Middle, Assets
      <4>. QED
        BY <4>1, <1>1, <1>2, <1>3 DEF MiddleInv
    <3>. QED
      BY <3>1, <3>2
  <2>3. u # Self /\ u \in Accounts
    BY AccountFacts
  <2>. QED
    BY <2>1, <2>2, <2>3, <1>4, <1>7
<1>11. MiddleInv'
  <2>1. ASSUME NEW t \in Tokens, Middle(t) PROVE ~(After(t, Self) > 0)
    BY <2>1, <1>2, <1>3, <1>7, AccountFacts DEF MiddleInv
  <2>2. ETH \notin {cur.assetIn, cur.assetOut} => After(ETH, Self) <= 0
    BY <1>3, <1>7, <1>p DEF MiddleInv
  <2>3. cur.direct => After(cur.assetOut, Self) <= 0
    <3>1. Gain(cur.assetOut, Self) \in Int /\ After(cur.assetOut, Self) \in Int
      BY <1>7, <1>p
    <3>. QED
      BY <1>3, <1>7, <1>p, <3>1 DEF MiddleInv
  <2>. QED
    BY <1>2, <2>1, <2>2, <2>3 DEF MiddleInv, Middle, Gain, After
<1>12. PayeeInv'
  <2>1. After(cur.assetOut, Payee(cur)) >= 0
        /\ (cur.direct => After(cur.assetOut, Payee(cur)) >= cur.floor)
    <3>1. /\ Gain(cur.assetOut, Payee(cur)) >= 0
          /\ cur.direct => Gain(cur.assetOut, Payee(cur)) >= cur.floor
      BY <1>2, <1>3 DEF PayeeInv
    <3>2. /\ After(cur.assetOut, Payee(cur)) >= Gain(cur.assetOut, Payee(cur))
          /\ After(cur.assetOut, Payee(cur)) \in Int /\ Gain(cur.assetOut, Payee(cur)) \in Int
      BY <1>7, <1>p
    <3>. QED
      BY <3>1, <3>2, <1>p
  <2>2. ~cur.direct => After(cur.assetOut, cur.by) + After(cur.assetOut, Self) >= cur.floor
    BY <1>2, <1>3, <1>7, <1>p DEF PayeeInv
  <2>. QED
    BY <1>2, <2>1, <2>2 DEF PayeeInv, Gain, Payee, Abstract!Payee, After
<1>13. KeptInv' /\ StepInv' /\ PlanInv'
  <2>1. \A a \in Assets : Untouched(cur, a) => After(a, Self) >= 0
    BY <1>2, <1>3, <1>7 DEF KeptInv
  <2>. QED
    BY <1>1, <1>2, <2>1 DEF KeptInv, StepInv, PlanInv, Gain, After
<1>. QED
  BY <1>9, <1>10, <1>11, <1>12, <1>13 DEF SettleInv

(* Between transactions there is nothing to say.                           *)
LEMMA SettleInit == Init => SettleInv
BY DEF Init, SettleInv

(* Every step keeps the invariant.                                         *)
LEMMA SettleNext ==
  ASSUME TypeInv, FlushInv, SoundPlans, SettleInv, [Next]_vars
  PROVE  SettleInv'
<1>w. mem \in World
  BY DEF TypeInv, TypeOK
<1>1. CASE EndLoop
  BY <1>1, SettleEndLoop
<1>2. CASE PullToken
  BY <1>2, SettlePull
<1>3. CASE SetApproval
  <2>. DEFINE a == cur.approvals[step]
  <2>1. mem' = [mem EXCEPT !.allowance[a.token][a.spender] = a.amount]
    BY <1>3 DEF SetApproval
  <2>2. mem'.bal = mem.bal
    BY <2>1, <1>w DEF World
  <2>. QED
    BY <2>2, <1>3, SettleStill DEF SetApproval, Turn
<1>4. CASE RevokeApproval
  <2>. DEFINE a == cur.approvals[step]
  <2>1. mem' = [mem EXCEPT !.allowance[a.token][a.spender] = 0] \/ mem' = mem
    <3>1. CASE a.revokeAfter
      BY <3>1, <1>4, Zenon DEF RevokeApproval
    <3>2. CASE ~a.revokeAfter
      BY <3>2, <1>4, Zenon DEF RevokeApproval
    <3>. QED
      BY <3>1, <3>2
  <2>2. mem'.bal = mem.bal
    BY <2>1, <1>w DEF World
  <2>. QED
    BY <2>2, <1>4, SettleStill DEF RevokeApproval, Turn
<1>5. CASE SwapCall
  BY <1>5, SettleSwap
<1>6. CASE WrapCall
  BY <1>6, SettleWrap
<1>7. CASE UnwrapCall
  BY <1>7, SettleUnwrap
<1>8. CASE FlushToken
  BY <1>8, SettleFlush
<1>9. ASSUME NEW s \in Swaps, Execute(s) PROVE SettleInv'
  BY <1>9, SettleExecute
<1>10. CASE PullFails \/ CallFails \/ Commit
  BY <1>10 DEF PullFails, CallFails, Commit, Revert, SettleInv
<1>11. CASE TogglePause \/ Tick
  BY <1>11 DEF TogglePause, Tick, Between, SettleInv
<1>12. ASSUME NEW s \in Swaps, ExecutePaused(s) \/ ApproveExecutor(s) PROVE SettleInv'
  BY <1>12 DEF ExecutePaused, ApproveExecutor, Between, SettleInv
<1>13. ASSUME NEW a \in Assets, Rescue(a) \/ \E n \in Strays : Donate(a, n) PROVE SettleInv'
  BY <1>13 DEF Rescue, Donate, Between, SettleInv
<1>14. CASE UNCHANGED vars
  BY <1>14 DEF vars, SettleInv, StepInv, SenderInv, BystanderInv, PlanInv, MiddleInv, Middle,
       PayeeInv, KeptInv, Gain, Payee, Abstract!Payee, Bringing, PullPending, Done, Spared,
       SpentLater
<1>. QED
  BY <1>1, <1>2, <1>3, <1>4, <1>5, <1>6, <1>7, <1>8, <1>9, <1>10, <1>11, <1>12, <1>13, <1>14
  DEF Next, Transaction, Environment

-----------------------------------------------------------------------------
(* The commit.                                                             *)

(* At the commit the growth of the coin is paid, and the gains become the  *)
(* changes of the chain.                                                   *)
LEMMA CommitFacts ==
  ASSUME TypeInv, FlushInv, SoundPlans, SettleInv, Commit
  PROVE  /\ \A a \in Assets, x \in Accounts : After(a, x) = chain'.bal[a][x] - chain.bal[a][x]
         /\ \A a \in Assets, x \in Accounts : After(a, x) \in Int
         /\ After(cur.assetIn, cur.by) \in (-cur.amountIn)..0
         /\ After(cur.assetOut, Payee(cur)) >= cur.floor
         /\ \A a \in Assets, u \in Users :
              \/ a = cur.assetIn /\ u = cur.by
              \/ a = cur.assetOut /\ u = Payee(cur)
              \/ After(a, u) = 0
         /\ \A a \in Assets : Untouched(cur, a) => After(a, Self) >= 0
<1>. DEFINE n == Growth(Held(ETH), before.eth)
<1>1. /\ phase = "eth" /\ chain' = mem' /\ before.eth = chain.bal[ETH][Self]
  BY DEF Commit, FlushInv, Noted
<1>2. ~Bringing /\ Done = Len(cur.calls)
  BY <1>1 DEF Bringing, Done
<1>3. /\ SenderInv /\ BystanderInv /\ MiddleInv /\ PayeeInv /\ KeptInv
  BY <1>1 DEF SettleInv
<1>p. /\ cur \in Swaps /\ cur.by \in Users /\ Payee(cur) \in Users /\ cur.by \in Accounts
      /\ cur.by # Self
      /\ cur.assetIn \in Assets /\ cur.assetOut \in Assets /\ cur.assetIn # cur.assetOut
      /\ cur.amountIn \in Nat /\ cur.floor \in Nat /\ cur.direct \in BOOLEAN
      /\ Payee(cur) = IF cur.direct THEN cur.recipient ELSE cur.by
      /\ \A a \in Assets, x \in Accounts : mem.bal[a][x] \in Nat /\ chain.bal[a][x] \in Nat
      /\ Self \in Accounts /\ Users \subseteq Accounts /\ ETH \in Assets /\ ETH \notin Tokens
      /\ Assets = Tokens \cup {ETH}
      /\ mem \in World /\ mem.bal \in Balances
  BY <1>1, PlanFacts, AccountFacts, WorldNat DEF TypeInv, TypeOK, World, Balances
<1>4. n = IF Gain(ETH, Self) > 0 THEN Gain(ETH, Self) ELSE 0
  BY <1>1, <1>p DEF Gain, Growth, Held
<1>5. mem'.bal = Credit(Debit(mem.bal, ETH, Self, n), ETH, cur.by, n)
  BY <1>p, WorldFrame DEF Commit
<1>. HIDE DEF n
<1>6. SettleInv /\ phase # "idle"
  BY <1>1
<1>7. /\ n \in Nat
      /\ \A a \in Assets, x \in Accounts :
           /\ Gain(a, x) \in Int /\ After(a, x) \in Int
           /\ After(a, x) = Gain(a, x) - (IF a = ETH /\ x = Self THEN n ELSE 0)
                               + (IF a = ETH /\ x = cur.by THEN n ELSE 0)
      /\ After(cur.assetIn, cur.by) <= 0 /\ After(cur.assetIn, cur.by) >= -cur.amountIn
      /\ \A a \in Assets : After(a, cur.by) + After(a, Self) = Gain(a, cur.by) + Gain(a, Self)
      /\ \A a \in Assets, u \in Users : After(a, u) >= Gain(a, u) /\ Gain(a, u) \in Int
      /\ \A a \in Assets :
           /\ After(a, Self) <= Gain(a, Self) /\ (Gain(a, Self) >= 0 => After(a, Self) >= 0)
           /\ After(a, Self) > 0 => Gain(a, Self) > 0
           /\ a # ETH => After(a, Self) = Gain(a, Self)
           /\ a = ETH => After(a, Self) <= 0
  BY <1>4, <1>5, <1>6, <1>p, GrowthPaid
<1>8. After(cur.assetIn, cur.by) \in (-cur.amountIn)..0
  <2>1. After(cur.assetIn, cur.by) \in Int
    BY <1>7, <1>p
  <2>. QED
    BY <2>1, <1>7, <1>p
<1>9. \A a \in Assets : After(a, Self) <= 0
  <2>1. ASSUME NEW t \in Tokens PROVE After(t, Self) <= 0
    <3>1. t \in Assets /\ t # ETH
      BY <1>p
    <3>2. ~(mem.bal[t][Self] > chain.bal[t][Self])
      BY <1>1 DEF FlushInv, FlushedLater
    <3>3. Gain(t, Self) <= 0
      BY <3>1, <3>2, <1>p DEF Gain
    <3>. QED
      BY <3>1, <3>3, <1>7
  <2>. QED
    BY <2>1, <1>7, <1>p
<1>10. After(cur.assetOut, Payee(cur)) >= cur.floor
  <2>1. CASE cur.direct
    <3>1. Gain(cur.assetOut, Payee(cur)) >= cur.floor
      BY <2>1, <1>2, <1>3 DEF PayeeInv
    <3>2. /\ After(cur.assetOut, Payee(cur)) >= Gain(cur.assetOut, Payee(cur))
          /\ After(cur.assetOut, Payee(cur)) \in Int /\ Gain(cur.assetOut, Payee(cur)) \in Int
      BY <1>7, <1>p
    <3>. QED
      BY <3>1, <3>2, <1>p
  <2>2. CASE ~cur.direct
    <3>1. Gain(cur.assetOut, cur.by) + Gain(cur.assetOut, Self) >= cur.floor
      BY <2>2, <1>2, <1>3 DEF PayeeInv
    <3>2. /\ After(cur.assetOut, cur.by) + After(cur.assetOut, Self)
               = Gain(cur.assetOut, cur.by) + Gain(cur.assetOut, Self)
          /\ After(cur.assetOut, cur.by) \in Int /\ After(cur.assetOut, Self) \in Int
          /\ After(cur.assetOut, Self) <= 0
      BY <1>7, <1>9, <1>p
    <3>3. Payee(cur) = cur.by
      BY <2>2, <1>p
    <3>. QED
      BY <3>1, <3>2, <3>3, <1>p
  <2>. QED
    BY <2>1, <2>2
<1>11. ASSUME NEW a \in Assets, NEW u \in Users,
              ~(a = cur.assetIn /\ u = cur.by), ~(a = cur.assetOut /\ u = Payee(cur))
       PROVE  After(a, u) = 0
  <2>1. Gain(a, u) = 0
    BY <1>3, <1>11 DEF BystanderInv
  <2>2. ASSUME a = ETH, u = cur.by PROVE ~(Gain(ETH, Self) > 0)
    <3>1. CASE ETH = cur.assetOut
      <4>1. cur.direct
        BY <2>2, <3>1, <1>11, <1>p
      <4>. QED
        BY <3>1, <4>1, <1>3, <1>7, <1>p DEF MiddleInv
    <3>2. CASE ETH # cur.assetOut
      <4>1. ETH \notin {cur.assetIn, cur.assetOut}
        BY <2>2, <3>2, <1>11
      <4>. QED
        BY <4>1, <1>3, <1>7, <1>p DEF MiddleInv
    <3>. QED
      BY <3>1, <3>2
  <2>3. u # Self /\ u \in Accounts
    BY AccountFacts
  <2>. QED
    BY <2>1, <2>2, <2>3, <1>4, <1>7
<1>12. \A a \in Assets : Untouched(cur, a) => After(a, Self) >= 0
  BY <1>2, <1>3, <1>7 DEF KeptInv
<1>13. \A a \in Assets, x \in Accounts : After(a, x) = chain'.bal[a][x] - chain.bal[a][x]
  BY <1>1 DEF After
<1>. QED
  BY <1>7, <1>8, <1>10, <1>11, <1>12, <1>13

(* Only a commit changes what users hold.                                  *)
LEMMA LedgerStill ==
  ASSUME TypeInv, [Next]_vars, ~Commit
  PROVE  UNCHANGED Ledger
<1>w. chain \in World /\ chain.bal \in Balances /\ \A a \in Assets, x \in Accounts : chain.bal[a][x] \in Nat
  BY WorldNat DEF TypeInv, TypeOK, World, Balances
<1>1. CASE chain' = chain
  BY <1>1 DEF Ledger
<1>2. ASSUME NEW s \in Swaps, ApproveExecutor(s) PROVE UNCHANGED Ledger
  <2>1. PICK n : chain' = [chain EXCEPT !.grant[s.by][s.assetIn] = n]
    BY <1>2 DEF ApproveExecutor, Between
  <2>2. chain'.bal = chain.bal
    BY <2>1, <1>w DEF World
  <2>. QED
    BY <2>2 DEF Ledger
<1>3. ASSUME NEW a \in Assets, NEW b, chain'.bal = b,
             \A t \in Assets, u \in Users : b[t][u] = chain.bal[t][u]
      PROVE  UNCHANGED Ledger
  BY <1>3 DEF Ledger
<1>4. ASSUME NEW a \in Assets, Rescue(a) PROVE UNCHANGED Ledger
  <2>1. PICK n \in 1..chain.bal[a][Self] : chain' = [chain EXCEPT !.bal = Debit(chain.bal, a, Self, n)]
    BY <1>4 DEF Rescue, Between
  <2>2. chain'.bal = Debit(chain.bal, a, Self, n)
    BY <2>1, <1>w, WorldFrame
  <2>3. n \in Nat /\ chain.bal[a][Self] >= n
    BY <2>1, <1>w, AccountFacts
  <2>4. \A t \in Assets, u \in Users : Debit(chain.bal, a, Self, n)[t][u] = chain.bal[t][u]
    BY <2>3, <1>w, DebitValue, AccountFacts
  <2>. QED
    BY <2>2, <2>4, <1>3
<1>5. ASSUME NEW a \in Assets, NEW n \in Strays, Donate(a, n) PROVE UNCHANGED Ledger
  <2>1. chain' = [chain EXCEPT !.bal = Credit(chain.bal, a, Self, n)]
    BY <1>5 DEF Donate, Between
  <2>2. chain'.bal = Credit(chain.bal, a, Self, n)
    BY <2>1, <1>w, WorldFrame
  <2>3. n \in Nat
    BY AssetsAssumption
  <2>4. \A t \in Assets, u \in Users : Credit(chain.bal, a, Self, n)[t][u] = chain.bal[t][u]
    BY <2>3, <1>w, CreditValue, AccountFacts
  <2>. QED
    BY <2>2, <2>4, <1>3
<1>6. CASE Transaction \/ (\E s \in Swaps : Execute(s) \/ ExecutePaused(s)) \/ TogglePause \/ Tick
             \/ UNCHANGED vars
  BY <1>1, <1>6 DEF Transaction, EndLoop, PullToken, PullFails, SetApproval, SwapCall, WrapCall,
       UnwrapCall, CallFails, RevokeApproval, FlushToken, Advance, Revert, Execute, ExecutePaused,
       TogglePause, Tick, Between, vars
<1>. QED
  BY <1>2, <1>4, <1>5, <1>6 DEF Next, Environment

(* A commit is a settlement of the transaction that was running.           *)
LEMMA LedgerStep ==
  ASSUME TypeInv, FlushInv, SoundPlans, SettleInv, [Next]_vars
  PROVE  [Abstract!Next]_Ledger
<1>1. CASE ~Commit
  BY <1>1, LedgerStill
<1>2. CASE Commit
  <2>1. \A a \in Assets, u \in Users : Abstract!Change(a, u) = After(a, u)
    BY <1>2, CommitFacts, AccountFacts DEF Abstract!Change, Ledger
  <2>2. /\ cur \in Swaps /\ cur.by \in Users /\ Payee(cur) \in Users
        /\ cur.assetIn \in Assets /\ cur.assetOut \in Assets
    BY PlanFacts DEF TypeInv, TypeOK
  <2>3. /\ After(cur.assetIn, cur.by) \in (-cur.amountIn)..0
        /\ After(cur.assetOut, Payee(cur)) >= cur.floor
        /\ \A a \in Assets, u \in Users :
              \/ a = cur.assetIn /\ u = cur.by
              \/ a = cur.assetOut /\ u = Payee(cur)
              \/ After(a, u) = 0
    BY <1>2, CommitFacts
  <2>4. Abstract!Settle(cur)
    BY <2>1, <2>2, <2>3 DEF Abstract!Settle, Payee
  <2>. QED
    BY <2>2, <2>4 DEF Abstract!Next
<1>. QED
  BY <1>1, <1>2

(* What users hold at first is their wealth.                               *)
LEMMA LedgerInit == Init => Abstract!Init
<1>. SUFFICES ASSUME Init PROVE Ledger = Wealth
  BY DEF Abstract!Init
<1>1. \A a \in Assets, u \in Users : chain.bal[a][u] = Wealth[a][u]
  BY AccountFacts DEF Init
<1>2. Wealth \in [Assets -> [Users -> Nat]]
  BY AssetsAssumption
<1>3. ASSUME NEW a \in Assets PROVE [u \in Users |-> chain.bal[a][u]] = Wealth[a]
  <2>1. Wealth[a] \in [Users -> Nat]
    BY <1>2
  <2>. QED
    BY <2>1, <1>1
<1>. QED
  BY <1>2, <1>3 DEF Ledger

(* The invariant holds of every behaviour.                                 *)
LEMMA SettleInvariance == SoundPlans /\ Spec => [](TypeInv /\ FlushInv /\ SettleInv)
<1>. SUFFICES ASSUME SoundPlans PROVE Spec => [](TypeInv /\ FlushInv /\ SettleInv)
  OBVIOUS
<1>1. Init => TypeInv /\ FlushInv /\ SettleInv
  BY InitType, FlushInit, SettleInit
<1>2. TypeInv /\ FlushInv /\ SettleInv /\ [Next]_vars => (TypeInv /\ FlushInv /\ SettleInv)'
  BY NextType, FlushNext, SettleNext
<1>. QED
  BY <1>1, <1>2, PTL DEF Spec

(* Whatever the pools pay, whatever the executor held before, and whatever *)
(* fails: seen by the users, a transaction whose plan is sound is one      *)
(* settlement, or nothing at all.                                          *)
THEOREM SwapsSettle == SoundPlans /\ Spec => Settles
<1>. SUFFICES ASSUME SoundPlans PROVE Spec => Settles
  OBVIOUS
<1>1. Spec => [](TypeInv /\ FlushInv /\ SettleInv)
  BY SettleInvariance
<1>2. TypeInv /\ FlushInv /\ SettleInv /\ [Next]_vars => [Abstract!Next]_Ledger
  BY LedgerStep
<1>. QED
  BY <1>1, <1>2, LedgerInit, PTL DEF Spec, Settles, Abstract!Spec

(* A sound plan leaves the executor at least what it held of any asset     *)
(* that none of its calls is told to spend all of.                         *)
THEOREM PriorFundsStay == SoundPlans /\ Spec => PriorFundsKept
<1>. SUFFICES ASSUME SoundPlans PROVE Spec => PriorFundsKept
  OBVIOUS
<1>. DEFINE Stay == phase = "eth" =>
              \A a \in Assets :
                \/ chain'.bal[a][Self] >= chain.bal[a][Self]
                \/ \E k \in 1..Len(cur.calls) : cur.calls[k].injectToken = a
<1>1. Spec => [](TypeInv /\ FlushInv /\ SettleInv)
  BY SettleInvariance
<1>2. TypeInv /\ FlushInv /\ SettleInv /\ [Next]_vars => [Stay]_vars
  <2>. SUFFICES ASSUME TypeInv, FlushInv, SettleInv, [Next]_vars, phase = "eth", ~ UNCHANGED vars
                PROVE  Stay
    OBVIOUS
  <2>1. Commit
    BY EthCommits
  <2>2. \A a \in Assets : After(a, Self) = chain'.bal[a][Self] - chain.bal[a][Self]
                            /\ (Untouched(cur, a) => After(a, Self) >= 0)
    BY <2>1, CommitFacts, SelfAccount
  <2>3. \A a \in Assets : chain.bal[a][Self] \in Nat /\ chain'.bal[a][Self] \in Nat
    <3>1. TypeInv'
      BY NextType
    <3>. QED
      BY <3>1, SelfHolds, WorldNat, SelfAccount DEF TypeInv, TypeOK
  <2>4. ASSUME NEW a \in Assets, Untouched(cur, a)
        PROVE  chain'.bal[a][Self] >= chain.bal[a][Self]
    BY <2>2, <2>3, <2>4
  <2>. QED
    BY <2>4 DEF Untouched, CallsOf
<1>. QED
  BY <1>1, <1>2, PTL DEF Spec, PriorFundsKept

-----------------------------------------------------------------------------
(* Deadlines.                                                              *)

(* What routers have executed so far, they executed in time.               *)
DatedInv ==
  phase # "idle" =>
    \A k \in CallsOf(cur) :
      k <= Done /\ cur.calls[k].kind \in SwapKinds \ {"v3r02"} => now <= cur.deadline

(* A router that is told a deadline and runs is on time.                   *)
LEMMA CallInTime ==
  ASSUME TypeInv, SoundPlans, SwapCall, cur.calls[step].kind # "v3r02"
  PROVE  now <= cur.deadline
<1>. DEFINE c == cur.calls[step]
<1>1. /\ c \in Call /\ step \in CallsOf(cur) /\ cur \in Swaps
      /\ c.kind \in SwapKinds /\ c.kind # "v3r02" /\ Fault(c) = "ok"
  BY TurnCall DEF SwapCall, CallsOf, TypeInv, TypeOK
<1>2. SoundCall(cur, step)
  BY <1>1, PlanFacts DEF SoundPlan
<1>3. c.words["deadline"] = cur.deadline /\ (Injects(c) => WordAt(c.kind, c.injectOffset) = "amountIn")
  BY <1>1, <1>2 DEF SoundCall
<1>4. Sent(c)["deadline"] = cur.deadline
  BY <1>1, <1>3, SentWords
<1>5. TargetFault(c, Sent(c)) = "ok"
  BY <1>1 DEF Fault
<1>6. ~(now > Sent(c)["deadline"])
  BY <1>1, <1>5 DEF TargetFault, SwapKinds
<1>7. now \in Nat /\ cur.deadline \in Nat
  BY <1>1, SwapsAssumption DEF TypeInv, TypeOK, SwapTransaction
<1>. QED
  BY <1>4, <1>6, <1>7

(* The clock stands still while a transaction runs.                        *)
LEMMA DatedNext ==
  ASSUME TypeInv, SoundPlans, DatedInv, [Next]_vars
  PROVE  DatedInv'
<1>w. step \in Nat \ {0} /\ Len(cur.calls) \in Nat
  BY PlanFacts DEF TypeInv, TypeOK
<1>1. CASE SwapCall
  <2>1. /\ phase = "call" /\ UNCHANGED <<cur, now, phase>> /\ step' = step + 1
    BY <1>1 DEF SwapCall, Turn, Advance
  <2>2. ASSUME NEW k \in CallsOf(cur), k <= Done', cur.calls[k].kind \in SwapKinds \ {"v3r02"}
        PROVE  now <= cur.deadline
    <3>1. k <= step
      BY <2>1, <2>2, <1>w DEF Done
    <3>2. CASE k = step
      BY <3>2, <1>1, <2>2, CallInTime
    <3>3. CASE k # step
      BY <3>1, <3>3, <2>1, <2>2, <1>w DEF DatedInv, Done, CallsOf
    <3>. QED
      BY <3>2, <3>3
  <2>. QED
    BY <2>1, <2>2 DEF DatedInv, CallsOf
<1>2. CASE WrapCall \/ UnwrapCall
  <2>1. /\ phase = "call" /\ UNCHANGED <<cur, now, phase>> /\ step' = step + 1
        /\ cur.calls[step].kind \notin SwapKinds
    BY <1>2 DEF WrapCall, UnwrapCall, Turn, Advance, SwapKinds
  <2>. QED
    BY <2>1, <1>w DEF DatedInv, Done, CallsOf
<1>3. CASE EndLoop
  <2>1. /\ UNCHANGED <<cur, now>> /\ phase' = Following[phase] /\ phase \in DOMAIN Following
        /\ step' = 1 /\ (phase = "call" => step > Len(cur.calls))
    BY <1>3, Loops DEF EndLoop
  <2>2. \A k \in CallsOf(cur) : k <= Done' => k <= Done
    BY <2>1, <1>w DEF Done, CallsOf, Following
  <2>3. phase # "idle"
    BY <2>1 DEF Following
  <2>. QED
    BY <2>1, <2>2, <2>3 DEF DatedInv, CallsOf
<1>4. CASE PullToken \/ SetApproval \/ RevokeApproval \/ FlushToken
  BY <1>4 DEF PullToken, SetApproval, RevokeApproval, FlushToken, Turn, Advance, DatedInv, Done, CallsOf
<1>5. ASSUME NEW s \in Swaps, Execute(s) PROVE DatedInv'
  BY <1>5 DEF Execute, DatedInv, Done, CallsOf
<1>6. CASE PullFails \/ CallFails \/ Commit \/ TogglePause \/ Tick
  BY <1>6 DEF PullFails, CallFails, Commit, Revert, TogglePause, Tick, Between, DatedInv
<1>7. ASSUME NEW s \in Swaps, ExecutePaused(s) \/ ApproveExecutor(s) PROVE DatedInv'
  BY <1>7 DEF ExecutePaused, ApproveExecutor, Between, DatedInv
<1>8. ASSUME NEW a \in Assets, Rescue(a) \/ \E n \in Strays : Donate(a, n) PROVE DatedInv'
  BY <1>8 DEF Rescue, Donate, Between, DatedInv
<1>9. CASE UNCHANGED vars
  BY <1>9 DEF vars, DatedInv, Done, CallsOf
<1>. QED
  BY <1>1, <1>2, <1>3, <1>4, <1>5, <1>6, <1>7, <1>8, <1>9 DEF Next, Transaction, Environment

(* However late it is mined and however many of its amounts are injected,  *)
(* a transaction of sound plan that goes through a router with a deadline  *)
(* does not commit after it.                                               *)
THEOREM ExecutedInTime == SoundPlans /\ Spec => InTime
<1>. SUFFICES ASSUME SoundPlans PROVE Spec => InTime
  OBVIOUS
<1>1. Init => TypeInv /\ DatedInv
  BY InitType DEF Init, DatedInv
<1>2. TypeInv /\ DatedInv /\ [Next]_vars => (TypeInv /\ DatedInv)'
  BY NextType, DatedNext
<1>3. TypeInv /\ DatedInv => (phase = "eth" /\ Dated(cur) => now <= cur.deadline)
  <2>. SUFFICES ASSUME TypeInv, DatedInv, phase = "eth", Dated(cur) PROVE now <= cur.deadline
    OBVIOUS
  <2>1. PICK k \in DOMAIN cur.calls : cur.calls[k].kind \in SwapKinds \ {"v3r02"}
    BY DEF Dated
  <2>2. k \in CallsOf(cur) /\ k <= Done
    BY SwapParts DEF TypeInv, TypeOK, CallsOf, Done
  <2>. QED
    BY <2>1, <2>2 DEF DatedInv
<1>. QED
  BY <1>1, <1>2, <1>3, PTL DEF Spec, InTime

-----------------------------------------------------------------------------
(* The transactions of the builder.                                        *)

(* The transactions are the builder's.                                     *)
Built == Swaps \subseteq BuiltSwaps

(* The plans of the builder are sound.                                     *)
LEMMA BuiltSound == Built => SoundPlans
<1>. SUFFICES ASSUME Built, NEW s \in Swaps PROVE SoundPlan(s)
  BY DEF SoundPlans
<1>1. PICK r \in Requests : Builder!CanBuild(r) /\ s = Builder!Build(r)
  BY DEF Built, BuiltSwaps
<1>2. Quoted(r)
  BY RequestsAssumption
<1>. QED
  BY <1>1, <1>2, BuiltPlansAreSound

(* What the executor is given to execute is always a sound plan: nothing   *)
(* need be assumed of the builder's plans.                                 *)
THEOREM PlansStaySound == Built /\ Spec => []PlanSound
<1>. SUFFICES ASSUME Built PROVE Spec => []PlanSound
  OBVIOUS
<1>1. TypeInv => PlanSound
  BY BuiltSound DEF TypeInv, TypeOK, PlanSound, SoundPlans
<1>. QED
  BY <1>1, InitType, NextType, PTL DEF Spec

(* Builder and executor together settle swaps, keep what the executor held *)
(* before, and keep to the deadlines they gave.                            *)
THEOREM BuiltSwapsSettle == Built /\ Spec => Settles /\ PriorFundsKept /\ InTime
<1>. SUFFICES ASSUME Built PROVE Spec => Settles /\ PriorFundsKept /\ InTime
  OBVIOUS
<1>1. SoundPlans
  BY BuiltSound
<1>. QED
  BY <1>1, SwapsSettle, PriorFundsStay, ExecutedInTime

-----------------------------------------------------------------------------
(* Plans that fit are executed without a hitch.                            *)

FittingPlans == \A s \in Swaps : FittingPlan(s)

(* What a pair of a token and a router is allowed.                         *)
Allowed(b) == mem.allowance[b.token][b.spender]

ApprovedInv ==
  phase = "approve" =>
    \A j \in 1..Len(cur.approvals) : j < step => Allowed(cur.approvals[j]) = cur.approvals[j].amount

(* What is still allowed on the pair of b is enough for the calls to come. *)
Affordable(b) ==
  \/ Allowed(b) = MaxUint
  \/ /\ \A k \in CallsOf(cur) : Asks(cur.calls[k], b) => ~Injects(cur.calls[k])
     /\ \E f \in [0..Len(cur.calls) -> Nat] : Lasts(f, cur, b) /\ Allowed(b) >= f[step - 1]

AffordInv == phase = "call" => \A j \in 1..Len(cur.approvals) : Affordable(cur.approvals[j])

(* There is something to inject.                                           *)
BroughtInv ==
  phase = "call" /\ step <= Len(cur.calls) /\ Injects(cur.calls[step])
    => Held(cur.calls[step].injectToken) > 0

FitInv == PlanFits /\ ApprovedInv /\ AffordInv /\ BroughtInv

(* A fixed amount is covered by what is planned when it is spent.          *)
LEMMA PlannedCovers ==
  ASSUME NEW s \in Swaps, SoundPlans, FittingPlan(s), NEW k \in CallsOf(s),
         s.calls[k].kind \in SwapKinds, ~Injects(s.calls[k])
  PROVE  /\ Planned(s, s.calls[k].tokenIn)[k - 1] >= s.calls[k].words["amountIn"]
         /\ Untouched(s, s.calls[k].tokenIn) /\ s.calls[k].tokenIn \in Tokens
<1>. DEFINE n == Len(s.calls)
            t == s.calls[k].tokenIn
            x == s.calls[k].words["amountIn"]
            P(i) == Planned(s, t)[i]
<1>1. n \in Nat /\ k \in 1..n /\ s.calls \in Seq(Call)
  BY SwapParts DEF CallsOf
<1>2. \A j \in 1..n : s.calls[j] \in Call
  BY <1>1
<1>3. t \in Tokens /\ t \in Assets /\ x \in Nat
  BY <1>1, <1>2 DEF Call, Numbers, Assets
<1>4. Untouched(s, t) /\ \A j \in 1..n : j >= k => ~Brings(s.calls[j], t)
  BY DEF FittingPlan, FittingCall, CallsOf
<1>5. Planned(s, t)[n] >= 0
  BY <1>3, <1>4, PlanFacts DEF SoundPlan
<1>. HIDE DEF n, t, x
<1>6. /\ \A j \in 1..n : P(j) = P(j - 1) + Flow(s.calls[j], t)
      /\ \A j \in 0..n : P(j) \in Int
  BY <1>3, PlannedFacts DEF CallsOf, n
<1>7. ASSUME NEW j \in 1..n, j >= k PROVE Flow(s.calls[j], t) <= 0
  <2>. DEFINE c == s.calls[j]
  <2>1. c \in Call /\ ~Brings(c, t)
    BY <1>2, <1>4, <1>7
  <2>. HIDE DEF c
  <2>2. c.words["amountIn"] \in Nat /\ c.value \in Nat
    BY <2>1 DEF Call, Numbers
  <2>3. ~(c.kind \in SwapKinds /\ c.tokenOut = t) /\ ~(c.kind = "deposit" /\ t = WETH)
    BY <2>1 DEF Brings, Pays
  <2>4. t # ETH
    BY <1>3, AssetsAssumption
  <2>5. Flow(c, t) = 0 - (IF c.kind \in SwapKinds /\ c.tokenIn = t THEN c.words["amountIn"] ELSE 0) + 0 - 0
    BY <2>3, <2>4 DEF Flow
  <2>. QED
    BY <2>2, <2>5 DEF c
<1>8. Flow(s.calls[k], t) = 0 - x
  <2>1. ~Brings(s.calls[k], t) /\ k >= k
    BY <1>1, <1>4
  <2>2. s.calls[k].tokenOut # t /\ s.calls[k].kind # "deposit"
    BY <2>1 DEF Brings, Pays, SwapKinds
  <2>3. Flow(s.calls[k], t) = 0 - x + 0 - 0
    BY <2>2 DEF Flow, t, x
  <2>. QED
    BY <1>3, <2>3
<1>. HIDE DEF P
<1>. DEFINE S == {i \in 0..(n - k) : P(n - i) >= 0}
<1>9. \A i \in 0..(n - k) : i \in S
  <2>1. n - k \in Nat /\ 0 \in 0..(n - k) /\ n - 0 = n
    BY <1>1
  <2>2. 0 \in S
    BY <1>5, <2>1 DEF P
  <2>3. ASSUME NEW i \in 1..(n - k), i - 1 \in S PROVE i \in S
    <3>. DEFINE j == n - (i - 1)
    <3>1. i \in 0..(n - k) /\ j \in 1..n /\ j >= k /\ j - 1 = n - i /\ j \in 0..n /\ n - i \in 0..n
      BY <1>1
    <3>2. P(j) >= 0
      BY <2>3
    <3>. HIDE DEF j
    <3>3. P(j) = P(n - i) + Flow(s.calls[j], t) /\ Flow(s.calls[j], t) <= 0
      BY <1>6, <1>7, <3>1
    <3>4. P(j) \in Int /\ P(n - i) \in Int /\ Flow(s.calls[j], t) \in Int
      BY <1>2, <1>3, <1>6, <3>1, FlowType
    <3>5. P(n - i) >= 0
      BY <3>2, <3>3, <3>4
    <3>. QED
      BY <3>1, <3>5
  <2>. HIDE DEF S
  <2>. QED
    BY <2>1, <2>2, <2>3, Counting
<1>10. P(k) >= 0
  <2>1. n - k \in 0..(n - k) /\ n - (n - k) = k
    BY <1>1
  <2>2. n - k \in S
    BY <1>9, <2>1
  <2>. QED
    BY <2>1, <2>2
<1>11. P(k) = P(k - 1) + (0 - x) /\ P(k) \in Int /\ P(k - 1) \in Int
  <2>1. k \in 0..n /\ k - 1 \in 0..n
    BY <1>1
  <2>. QED
    BY <1>1, <1>6, <1>8, <2>1
<1>12. P(k - 1) >= x
  BY <1>3, <1>10, <1>11
<1>. QED
  BY <1>3, <1>4, <1>12 DEF P, t, x

(* While calls are made, the executor holds what is planned of an asset    *)
(* that nothing has injected.                                              *)
LEMMA HeldPlanned ==
  ASSUME TypeInv, SettleInv, phase = "call", NEW a \in Assets, Spared(a)
  PROVE  Planned(cur, a)[step - 1] \in Int => Held(a) >= Planned(cur, a)[step - 1]
<1>1. PlanInv /\ Bringing /\ ~PullPending /\ Done = step - 1
  BY DEF SettleInv, Bringing, PullPending, Done
<1>2. Gain(a, Self) >= Planned(cur, a)[step - 1]
  BY <1>1 DEF PlanInv
<1>3. mem.bal[a][Self] \in Nat /\ chain.bal[a][Self] \in Nat
  BY WorldNat, SelfAccount DEF TypeInv, TypeOK
<1>. HIDE DEF Planned
<1>. QED
  BY <1>2, <1>3 DEF Gain, Held

(* The call to be made, in the plan and in the state.                      *)
LEMMA NextCall ==
  ASSUME TypeInv, SoundPlans, SettleInv, FittingPlans, Turn("call")
  PROVE  LET c == cur.calls[step]
         IN /\ c \in Call /\ step \in CallsOf(cur) /\ cur \in Swaps /\ phase = "call"
            /\ FittingPlan(cur) /\ FittingCall(cur, step) /\ step \in 1..Len(cur.calls)
            /\ Len(cur.calls) \in Nat
            /\ Injects(c) => WordAt(c.kind, c.injectOffset) = "amountIn"
            /\ c.kind = "deposit" => ~Injects(c) /\ cur.assetIn = ETH
            /\ c.kind = "withdraw" => c.injectToken = WETH
            /\ c.kind \in SwapKinds => c.injectToken \in {NoToken, c.tokenIn}
            /\ Sent(c)["amountIn"] = IF Injects(c) THEN Held(c.injectToken) ELSE c.words["amountIn"]
            /\ Sent(c)["amountIn"] \in Nat /\ Sent(c)["amountOutMin"] = c.words["amountOutMin"]
<1>. DEFINE c == cur.calls[step]
<1>1. /\ c \in Call /\ step \in CallsOf(cur) /\ cur \in Swaps /\ phase = "call"
      /\ Len(cur.calls) \in Nat
  BY TurnCall, SwapParts DEF CallsOf, Turn, TypeInv, TypeOK
<1>2. SoundCall(cur, step)
  BY <1>1, PlanFacts DEF SoundPlan
<1>3. FittingPlan(cur) /\ FittingCall(cur, step)
  BY <1>1 DEF FittingPlans, FittingPlan
<1>4. /\ Injects(c) => WordAt(c.kind, c.injectOffset) = "amountIn"
      /\ c.kind = "deposit" => ~Injects(c) /\ cur.assetIn = ETH
      /\ c.kind = "withdraw" => c.injectToken = WETH
      /\ c.kind \in SwapKinds => c.injectToken \in {NoToken, c.tokenIn}
  BY <1>2 DEF SoundCall
<1>5. /\ Sent(c)["amountIn"] = IF Injects(c) THEN Held(c.injectToken) ELSE c.words["amountIn"]
      /\ Sent(c)["amountIn"] \in Nat /\ Sent(c)["amountOutMin"] = c.words["amountOutMin"]
  BY <1>1, <1>4, SentWords, SentType
<1>. QED
  BY <1>1, <1>3, <1>4, <1>5 DEF CallsOf

(* The executor holds what the next call spends.                           *)
LEMMA HeldFits ==
  ASSUME TypeInv, SoundPlans, SettleInv, FittingPlans, Turn("call")
  PROVE  LET c == cur.calls[step]
         IN /\ c.kind \in SwapKinds => Held(c.tokenIn) >= Sent(c)["amountIn"]
            /\ c.kind = "deposit" => Held(ETH) >= c.value
            /\ c.kind = "withdraw" => Held(WETH) >= Sent(c)["amountIn"]
<1>. DEFINE c == cur.calls[step]
            n == Sent(c)["amountIn"]
<1>1. /\ c \in Call /\ step \in CallsOf(cur) /\ cur \in Swaps /\ phase = "call"
      /\ FittingPlan(cur) /\ FittingCall(cur, step) /\ step \in 1..Len(cur.calls)
      /\ c.kind = "deposit" => ~Injects(c) /\ cur.assetIn = ETH
      /\ c.kind = "withdraw" => c.injectToken = WETH
      /\ c.kind \in SwapKinds => c.injectToken \in {NoToken, c.tokenIn}
      /\ n = IF Injects(c) THEN Held(c.injectToken) ELSE c.words["amountIn"]
      /\ n \in Nat
  BY NextCall
<1>. HIDE DEF c, n
<1>2. ASSUME Injects(c) PROVE n >= Held(c.injectToken) /\ Held(c.injectToken) >= n
  BY <1>1, <1>2
<1>3. ASSUME c.kind \in SwapKinds PROVE Held(c.tokenIn) >= n
  <2>1. CASE Injects(c)
    <3>1. c.injectToken = c.tokenIn
      BY <1>1, <1>3, <2>1 DEF Injects
    <3>. QED
      BY <1>2, <2>1, <3>1
  <2>2. CASE ~Injects(c)
    <3>. DEFINE t == c.tokenIn
    <3>1. Planned(cur, t)[step - 1] >= n /\ Untouched(cur, t) /\ t \in Tokens
      BY <1>1, <1>3, <2>2, PlannedCovers DEF c
    <3>2. t \in Assets /\ Spared(t)
      BY <3>1 DEF Assets, Untouched, Spared
    <3>3. step - 1 \in 0..Len(cur.calls)
      BY <1>1
    <3>4. Planned(cur, t)[step - 1] \in Int
      BY <1>1, <3>2, <3>3, PlannedFacts
    <3>5. Held(t) >= Planned(cur, t)[step - 1]
      BY <1>1, <3>2, <3>4, HeldPlanned
    <3>6. Held(t) \in Nat
      BY <3>2, WorldNat, SelfAccount DEF TypeInv, TypeOK, Held
    <3>. HIDE DEF t, Planned
    <3>7. Held(t) >= n
      BY <1>1, <3>1, <3>4, <3>5, <3>6
    <3>. QED
      BY <3>7 DEF t
  <2>. QED
    BY <2>1, <2>2
<1>4. ASSUME c.kind = "deposit" PROVE Held(ETH) >= c.value
  <2>1. step = 1 /\ c.value = cur.amountIn /\ cur.assetIn = ETH
    BY <1>1, <1>4 DEF FittingCall, c
  <2>2. ETH \in Assets /\ Spared(ETH) /\ cur.amountIn \in Nat
    <3>1. \A k \in CallsOf(cur) : ~(k <= Done)
      BY <1>1, <2>1 DEF Done, CallsOf
    <3>. QED
      BY <1>1, <3>1, PlanFacts DEF Spared, Assets
  <2>3. Planned(cur, ETH)[step - 1] = cur.amountIn
    BY <1>1, <2>1, <2>2, PlannedFacts
  <2>4. Held(ETH) >= Planned(cur, ETH)[step - 1]
    BY <1>1, <2>2, <2>3, HeldPlanned
  <2>. QED
    BY <2>1, <2>3, <2>4
<1>5. ASSUME c.kind = "withdraw" PROVE Held(WETH) >= n
  <2>1. c.injectToken = WETH /\ Injects(c)
    BY <1>1, <1>5, AssetsAssumption DEF Injects
  <2>. QED
    BY <1>2, <2>1
<1>. QED
  BY <1>3, <1>4, <1>5 DEF c, n

(* And the router is still allowed to take it.                             *)
LEMMA AllowanceFits ==
  ASSUME TypeInv, SoundPlans, SettleInv, FittingPlans, FitInv, Bounded, Turn("call"),
         cur.calls[step].kind \in SwapKinds
  PROVE  mem.allowance[cur.calls[step].tokenIn][cur.calls[step].target]
           >= Sent(cur.calls[step])["amountIn"]
<1>. DEFINE c == cur.calls[step]
            n == Sent(c)["amountIn"]
            held == Held(c.tokenIn)
            got == mem.allowance[c.tokenIn][c.target]
<1>1. /\ c \in Call /\ step \in CallsOf(cur) /\ cur \in Swaps /\ phase = "call"
      /\ FittingPlan(cur) /\ step \in 1..Len(cur.calls) /\ Len(cur.calls) \in Nat
      /\ n = (IF Injects(c) THEN Held(c.injectToken) ELSE c.words["amountIn"])
      /\ n \in Nat
  BY NextCall
<1>2. held >= n
  BY HeldFits
<1>3. c.tokenIn \in Tokens /\ c.target \in Routers
  BY <1>1 DEF Call
<1>4. held \in Nat /\ held <= MaxUint /\ MaxUint \in Nat /\ got \in Nat
  <2>1. c.tokenIn \in Assets /\ mem \in World
    BY <1>3 DEF Assets, TypeInv, TypeOK
  <2>. QED
    BY <1>3, <2>1, WorldNat, SelfAccount, AssetsAssumption DEF Held, Bounded
<1>5. PICK j \in 1..Len(cur.approvals) : Asks(c, cur.approvals[j])
  BY <1>1 DEF FittingPlan
<1>. DEFINE b == cur.approvals[j]
<1>6. Affordable(b) /\ got = Allowed(b)
  BY <1>1, <1>5 DEF FitInv, AffordInv, Asks, Allowed
<1>. HIDE DEF b, n, held
<1>7. CASE got = MaxUint
  <2>. HIDE DEF got
  <2>. QED
    BY <1>1, <1>2, <1>4, <1>7 DEF n, got
<1>8. CASE got # MaxUint
  <2>1. ~Injects(c)
    BY <1>1, <1>5, <1>6, <1>8 DEF Affordable, b
  <2>2. PICK f \in [0..Len(cur.calls) -> Nat] : Lasts(f, cur, b) /\ Allowed(b) >= f[step - 1]
    BY <1>6, <1>8 DEF Affordable
  <2>3. f[step - 1] >= f[step] + c.words["amountIn"]
    BY <1>1, <1>5, <2>2 DEF Lasts, b
  <2>4. step \in 0..Len(cur.calls) /\ step - 1 \in 0..Len(cur.calls)
    BY <1>1
  <2>5. f[step] \in Nat /\ f[step - 1] \in Nat /\ n = c.words["amountIn"]
    BY <1>1, <2>1, <2>4
  <2>. HIDE DEF got, c
  <2>6. got >= n
    BY <1>1, <1>4, <1>6, <2>2, <2>3, <2>5
  <2>. QED
    BY <2>6 DEF got, n, c
<1>. QED
  BY <1>7, <1>8

(* The executor can make the next call: only the deadline can stop it.     *)
LEMMA FaultFits ==
  ASSUME TypeInv, SoundPlans, SettleInv, FittingPlans, FitInv, Bounded, Turn("call")
  PROVE  Fault(cur.calls[step]) \in {"ok", "expired"}
<1>. DEFINE c == cur.calls[step]
            n == Sent(c)["amountIn"]
<1>1. /\ c \in Call /\ phase = "call" /\ FittingCall(cur, step) /\ step \in 1..Len(cur.calls)
      /\ Injects(c) => WordAt(c.kind, c.injectOffset) = "amountIn"
      /\ n \in Nat
  BY NextCall
<1>2. /\ c.kind \in SwapKinds => Held(c.tokenIn) >= n
      /\ c.kind = "deposit" => Held(ETH) >= c.value
      /\ c.kind = "withdraw" => Held(WETH) >= n
  BY HeldFits
<1>3. c.kind \in SwapKinds => mem.allowance[c.tokenIn][c.target] >= n
  BY AllowanceFits
<1>4. InjectionFault(c) = "ok"
  <2>1. CASE ~Injects(c)
    BY <2>1 DEF InjectionFault
  <2>2. CASE Injects(c)
    <3>1. Held(c.injectToken) > 0
      BY <1>1, <2>2 DEF FitInv, BroughtInv
    <3>2. c.injectOffset >= 4 /\ c.injectOffset + 32 <= DataLength(c.kind)
      BY <1>1, <2>2 DEF FittingCall, InPlace
    <3>3. c.injectToken \in Assets
      BY <1>1, <2>2 DEF Call, Injects, Assets
    <3>4. Held(c.injectToken) \in Nat
      BY <3>3, WorldNat, SelfAccount DEF TypeInv, TypeOK, Held
    <3>5. c.injectOffset \in Nat /\ DataLength(c.kind) \in Nat
      <4>1. c.kind \in Kinds /\ c.injectOffset \in Nat
        BY <1>1 DEF Call
      <4>2. \A k \in Kinds : DataLength(k) \in Nat
        <5>1. /\ DataLength("v2") = 4 + 32 * 8 /\ DataLength("v3") = 4 + 32 * 8
              /\ DataLength("v3r02") = 4 + 32 * 7 /\ DataLength("deposit") = 4 + 32 * 0
              /\ DataLength("withdraw") = 4 + 32 * 1
          BY DEF DataLength, Layout
        <5>. QED
          BY <5>1 DEF Kinds
      <4>. QED
        BY <4>1, <4>2
    <3>6. WordAt(c.kind, c.injectOffset) \in Numbers
      BY <1>1, <2>2 DEF Numbers
    <3>. HIDE DEF c
    <3>7. ~(Held(c.injectToken) = 0) /\ ~(c.injectOffset < 4 \/ c.injectOffset + 32 > DataLength(c.kind))
      BY <3>1, <3>2, <3>4, <3>5
    <3>. QED
      BY <2>2, <3>6, <3>7 DEF InjectionFault
  <2>. QED
    BY <2>1, <2>2
<1>5. TargetFault(c, Sent(c)) \in {"ok", "expired"}
  <2>1. c.kind \in SwapKinds \/ c.kind = "deposit" \/ c.kind = "withdraw"
    BY <1>1 DEF Call, Kinds, SwapKinds
  <2>2. ETH \in Assets /\ WETH \in Assets /\ (c.kind \in SwapKinds => c.tokenIn \in Assets
          /\ c.tokenIn \in Tokens /\ c.target \in Routers) /\ c.value \in Nat
    BY <1>1, AssetsAssumption DEF Assets, Call
  <2>3. Held(ETH) \in Nat /\ Held(WETH) \in Nat
    BY <2>2, WorldNat, SelfAccount DEF TypeInv, TypeOK, Held
  <2>4. c.kind \in SwapKinds => Held(c.tokenIn) \in Nat /\ mem.allowance[c.tokenIn][c.target] \in Nat
    BY <2>2, WorldNat, SelfAccount DEF TypeInv, TypeOK, Held
  <2>5. CASE c.kind \in SwapKinds
    <3>1. c.kind # "deposit" /\ c.kind # "withdraw"
      BY <2>5 DEF SwapKinds
    <3>2. ~(Held(c.tokenIn) < n) /\ ~(mem.allowance[c.tokenIn][c.target] < n)
      <4>. HIDE DEF c, n
      <4>. QED
        BY <1>1, <1>2, <1>3, <2>4, <2>5
    <3>. QED
      BY <3>1, <3>2 DEF TargetFault
  <2>6. CASE c.kind = "deposit"
    <3>1. ~(Held(ETH) < c.value)
      <4>. HIDE DEF c
      <4>. QED
        BY <1>2, <2>2, <2>3, <2>6
    <3>. QED
      BY <2>6, <3>1 DEF TargetFault
  <2>7. CASE c.kind = "withdraw"
    <3>1. ~(Held(WETH) < n)
      <4>. HIDE DEF c, n
      <4>. QED
        BY <1>1, <1>2, <2>3, <2>7
    <3>. QED
      BY <2>7, <3>1 DEF TargetFault
  <2>. QED
    BY <2>1, <2>5, <2>6, <2>7
<1>. QED
  BY <1>4, <1>5 DEF Fault

(* Outside the two loops only the outcome matters.                         *)
LEMMA FitOutside ==
  ASSUME PlanFits', phase' \notin {"approve", "call"}
  PROVE  FitInv'
BY DEF FitInv, ApprovedInv, AffordInv, BroughtInv

(* Once all approvals are set, each of them allows all it was asked for.   *)
LEMMA FitEndLoop ==
  ASSUME TypeInv, FittingPlans, FitInv, EndLoop
  PROVE  FitInv'
<1>1. /\ UNCHANGED <<mem, cur, outcome>> /\ step' = 1
      /\ phase \in DOMAIN Following /\ phase' = Following[phase] /\ step > Len(Work(phase))
  BY DEF EndLoop
<1>2. PlanFits'
  BY <1>1 DEF FitInv, PlanFits
<1>3. cur \in Swaps /\ Len(cur.approvals) \in Nat /\ Len(cur.calls) \in Nat /\ step \in Nat
  BY SwapParts DEF TypeInv, TypeOK
<1>4. CASE phase = "pull"
  <2>1. phase' = "approve"
    BY <1>1, <1>4 DEF Following
  <2>2. ApprovedInv'
    BY <1>1, <1>3, <2>1 DEF ApprovedInv
  <2>. QED
    BY <1>2, <2>1, <2>2 DEF FitInv, AffordInv, BroughtInv
<1>5. CASE phase = "approve"
  <2>1. phase' = "call" /\ step > Len(cur.approvals)
    BY <1>1, <1>5, Loops DEF Following
  <2>2. FittingPlan(cur)
    BY <1>3 DEF FittingPlans
  <2>3. ASSUME NEW j \in 1..Len(cur.approvals) PROVE Affordable(cur.approvals[j])'
    <3>. DEFINE b == cur.approvals[j]
    <3>1. j < step
      BY <1>3, <2>1
    <3>2. Allowed(b) = b.amount
      BY <1>5, <3>1 DEF FitInv, ApprovedInv
    <3>3. Affords(b, cur)
      BY <2>2 DEF FittingPlan
    <3>4. Allowed(b)' = b.amount /\ b' = b /\ step' - 1 = 0 /\ cur' = cur
      BY <1>1, <3>2 DEF Allowed
    <3>5. CASE b.amount = MaxUint
      BY <3>4, <3>5 DEF Affordable
    <3>6. ASSUME \A k \in CallsOf(cur) : Asks(cur.calls[k], b) => ~Injects(cur.calls[k]),
                 NEW f \in [0..Len(cur.calls) -> Nat], Lasts(f, cur, b), b.amount >= f[0]
          PROVE  Affordable(b)'
      BY <3>4, <3>6 DEF Affordable
    <3>. QED
      BY <3>3, <3>5, <3>6 DEF Affords
  <2>4. AffordInv'
    BY <1>1, <2>3 DEF AffordInv
  <2>5. BroughtInv'
    <3>1. 1 <= Len(cur.calls) => ~Injects(cur.calls[1])
      BY <1>3, <2>2 DEF FittingPlan, FittingCall, CallsOf
    <3>. QED
      BY <1>1, <3>1 DEF BroughtInv
  <2>. QED
    BY <1>2, <2>1, <2>4, <2>5 DEF FitInv, ApprovedInv
<1>6. CASE phase \notin {"pull", "approve"}
  <2>1. phase' \notin {"approve", "call"}
    BY <1>1, <1>6 DEF Following
  <2>. QED
    BY <1>2, <2>1, FitOutside
<1>. QED
  BY <1>4, <1>5, <1>6

(* An approval is not set again for another call.                          *)
LEMMA FitApproval ==
  ASSUME TypeInv, FittingPlans, FitInv, SetApproval
  PROVE  FitInv'
<1>. DEFINE a == cur.approvals[step]
<1>1. /\ phase = "approve" /\ UNCHANGED <<phase, cur, outcome>> /\ step' = step + 1
      /\ mem' = [mem EXCEPT !.allowance[a.token][a.spender] = a.amount]
      /\ Turn("approve")
  BY DEF SetApproval, Turn, Advance
<1>2. /\ step \in 1..Len(cur.approvals) /\ a.token \in Tokens /\ a.spender \in Routers
      /\ a.amount \in Nat
  BY <1>1, TurnApproval
<1>3. OncePerPair(cur.approvals) /\ cur.approvals \in Seq(Approval) /\ mem \in World
  BY SwapParts DEF FittingPlans, FittingPlan, TypeInv, TypeOK
<1>4. ASSUME NEW j \in 1..Len(cur.approvals), j < step + 1
      PROVE  Allowed(cur.approvals[j])' = cur.approvals[j].amount
  <2>. DEFINE b == cur.approvals[j]
  <2>1. b \in Approval
    BY <1>3
  <2>2. b.token \in Tokens /\ b.spender \in Routers
    BY <2>1 DEF Approval
  <2>3. mem'.allowance[b.token][b.spender]
          = IF b.token = a.token /\ b.spender = a.spender THEN a.amount
            ELSE mem.allowance[b.token][b.spender]
    BY <1>1, <1>2, <1>3, <2>2, AllowanceValue
  <2>4. CASE j = step
    BY <1>1, <2>3, <2>4 DEF Allowed
  <2>5. CASE j # step
    <3>1. j < step
      BY <1>2, <1>4, <2>5
    <3>2. ~SamePair(b, a)
      BY <1>2, <1>3, <2>5 DEF OncePerPair
    <3>3. Allowed(b) = b.amount
      BY <1>1, <3>1 DEF FitInv, ApprovedInv
    <3>. QED
      BY <1>1, <2>3, <3>2, <3>3 DEF Allowed, SamePair
  <2>. QED
    BY <2>4, <2>5
<1>5. ApprovedInv'
  BY <1>1, <1>4 DEF ApprovedInv
<1>. QED
  BY <1>1, <1>5 DEF FitInv, PlanFits, AffordInv, BroughtInv

(* A call uses up of an allowance what it spends under it, and leaves the  *)
(* calls after it what they ask for.                                       *)
LEMMA StillAffordable ==
  ASSUME TypeInv, NEW b, Affordable(b), Turn("call"), step' = step + 1, cur' = cur,
         Allowed(b) = MaxUint => Allowed(b)' = MaxUint,
         ~Asks(cur.calls[step], b) => Allowed(b)' = Allowed(b),
         Allowed(b) # MaxUint /\ Asks(cur.calls[step], b) /\ ~Injects(cur.calls[step])
           => Allowed(b)' = Allowed(b) - cur.calls[step].words["amountIn"],
         Allowed(b) \in Nat, b' = b
  PROVE  Affordable(b)'
<1>. DEFINE c == cur.calls[step]
            x == c.words["amountIn"]
<1>1. step \in 1..Len(cur.calls) /\ step \in CallsOf(cur) /\ Len(cur.calls) \in Nat /\ c \in Call
  BY TurnCall, SwapParts DEF CallsOf, TypeInv, TypeOK
<1>2. x \in Nat
  BY <1>1 DEF Call, Numbers
<1>3. CASE Allowed(b) = MaxUint
  BY <1>3 DEF Affordable
<1>4. CASE Allowed(b) # MaxUint
  <2>1. \A k \in CallsOf(cur) : Asks(cur.calls[k], b) => ~Injects(cur.calls[k])
    BY <1>4 DEF Affordable
  <2>2. PICK f \in [0..Len(cur.calls) -> Nat] : Lasts(f, cur, b) /\ Allowed(b) >= f[step - 1]
    BY <1>4 DEF Affordable
  <2>3. f[step - 1] >= f[step] + (IF Asks(c, b) THEN x ELSE 0)
    BY <1>1, <2>2 DEF Lasts
  <2>4. step \in 0..Len(cur.calls) /\ step - 1 \in 0..Len(cur.calls) /\ step' - 1 = step
    BY <1>1
  <2>5. f[step] \in Nat /\ f[step - 1] \in Nat
    BY <2>4
  <2>6. Allowed(b)' = Allowed(b) - (IF Asks(c, b) THEN x ELSE 0)
    <3>1. CASE Asks(c, b)
      BY <1>1, <1>4, <2>1, <3>1
    <3>2. CASE ~Asks(c, b)
      BY <3>2
    <3>. QED
      BY <3>1, <3>2
  <2>7. PICK y \in Nat : y = IF Asks(c, b) THEN x ELSE 0
    BY <1>2
  <2>8. Allowed(b)' >= f[step]
    <3>1. Allowed(b)' = Allowed(b) - y /\ f[step - 1] >= f[step] + y
      BY <2>3, <2>6, <2>7
    <3>2. PICK p \in Nat, q \in Nat, z \in Nat : p = Allowed(b) /\ q = f[step - 1] /\ z = f[step]
      BY <2>5
    <3>3. p >= q /\ q >= z + y
      BY <2>2, <3>1, <3>2
    <3>4. p - y >= z
      BY <2>7, <3>2, <3>3
    <3>. QED
      BY <3>1, <3>2, <3>4
  <2>9. Lasts(f, cur, b)' <=> Lasts(f, cur, b)
    BY DEF Lasts, CallsOf, Asks
  <2>. QED
    BY <2>1, <2>2, <2>4, <2>8, <2>9 DEF Affordable, CallsOf, Asks, Injects
<1>. QED
  BY <1>3, <1>4

(* What a router's call leaves of the allowances, and brings.              *)
LEMMA SwapMoves ==
  ASSUME TypeInv, SwapCall
  PROVE  LET c == cur.calls[step]
             n == Sent(c)["amountIn"]
         IN /\ c \in Call /\ c.kind \in SwapKinds /\ Turn("call") /\ step' = step + 1
            /\ UNCHANGED <<phase, cur, outcome>>
            /\ \A t \in Tokens, r \in Routers :
                 mem'.allowance[t][r] =
                   IF t = c.tokenIn /\ r = c.target THEN Spend(mem.allowance[t][r], n)
                   ELSE mem.allowance[t][r]
            /\ c.recipient = Self /\ Sent(c)["amountOutMin"] > 0 => mem'.bal[c.tokenOut][Self] > 0
<1>. DEFINE c == cur.calls[step]
            n == Sent(c)["amountIn"]
            m == Sent(c)["amountOutMin"]
<1>w. mem \in World /\ mem.bal \in Balances
  BY DEF TypeInv, TypeOK, World, Balances
<1>1. /\ c \in Call /\ c.kind \in SwapKinds /\ Fault(c) = "ok"
      /\ Turn("call") /\ step' = step + 1 /\ UNCHANGED <<phase, cur, outcome>>
  BY TurnCall DEF SwapCall, Advance
<1>2. PICK extra \in Surplus :
        mem' = [mem EXCEPT
                  !.bal = Credit(Debit(mem.bal, c.tokenIn, Self, n),
                                 c.tokenOut, c.recipient, m + extra),
                  !.allowance[c.tokenIn][c.target] = Spend(@, n)]
  BY DEF SwapCall
<1>3. /\ c.tokenIn \in Tokens /\ c.tokenOut \in Tokens /\ c.recipient \in Accounts
      /\ c.tokenIn \in Assets /\ c.tokenOut \in Assets
      /\ c.target \in Routers /\ n \in Nat /\ m \in Nat /\ extra \in Nat /\ m + extra \in Nat
  BY <1>1, SwapCallFacts, SentType, AssetsAssumption DEF Assets
<1>4. mem.bal[c.tokenIn][Self] >= n /\ mem.allowance[c.tokenIn][c.target] >= n
  BY <1>1, SwapCallFacts DEF Held
<1>. DEFINE b == Credit(Debit(mem.bal, c.tokenIn, Self, n), c.tokenOut, c.recipient, m + extra)
            g == Spend(mem.allowance[c.tokenIn][c.target], n)
            w == [mem EXCEPT !.bal = b]
<1>5. b \in Balances
  BY <1>3, <1>4, <1>w, MoveType, SelfAccount
<1>6. g \in Nat
  BY <1>3, <1>4, <1>w, WorldNat, SpendType
<1>7. mem' = [w EXCEPT !.allowance[c.tokenIn][c.target] = g]
  BY <1>2, <1>w DEF World
<1>8. w \in World /\ w.allowance = mem.allowance /\ w.bal = b
  BY <1>5, <1>w, WorldBal, WorldFrame
<1>9. mem'.bal = b
  BY <1>7, <1>8 DEF World
<1>10. ASSUME NEW t \in Tokens, NEW r \in Routers
       PROVE  mem'.allowance[t][r] = IF t = c.tokenIn /\ r = c.target
                                     THEN Spend(mem.allowance[t][r], n)
                                     ELSE mem.allowance[t][r]
  <2>. HIDE DEF b, w, c, n, g
  <2>1. mem'.allowance[t][r] = IF t = c.tokenIn /\ r = c.target THEN g ELSE w.allowance[t][r]
    <3>1. PICK v \in World, h \in Nat, in \in Tokens, to \in Routers :
            v = w /\ h = g /\ in = c.tokenIn /\ to = c.target
      BY <1>3, <1>6, <1>8
    <3>2. mem' = [v EXCEPT !.allowance[in][to] = h]
      BY <1>7, <3>1
    <3>3. mem'.allowance[t][r] = IF t = in /\ r = to THEN h ELSE v.allowance[t][r]
      BY <3>2, AllowanceValue
    <3>. QED
      BY <3>1, <3>3
  <2>. QED
    BY <1>8, <2>1 DEF g
<1>11. ASSUME c.recipient = Self, m > 0 PROVE mem'.bal[c.tokenOut][Self] > 0
  <2>1. b[c.tokenOut][Self]
          = mem.bal[c.tokenOut][Self] - (IF c.tokenOut = c.tokenIn /\ Self = Self THEN n ELSE 0)
            + (IF c.tokenOut = c.tokenOut /\ Self = c.recipient THEN m + extra ELSE 0)
    <3>. HIDE DEF c, n, m
    <3>. QED
      BY <1>3, <1>4, <1>w, MoveValue, SelfAccount
  <2>2. PICK old \in Nat : old = mem.bal[c.tokenOut][Self]
    BY <1>3, <1>w, SelfAccount, WorldNat
  <2>3. PICK taken \in Nat : taken = (IF c.tokenOut = c.tokenIn THEN n ELSE 0) /\ old >= taken
    BY <1>3, <1>4, <2>2
  <2>4. b[c.tokenOut][Self] = old - taken + (m + extra)
    BY <1>11, <2>1, <2>2, <2>3
  <2>. HIDE DEF b, m
  <2>. QED
    BY <1>3, <1>9, <1>11, <2>3, <2>4
<1>. QED
  BY <1>1, <1>10, <1>11

(* If a call pays the executor, the next one finds what it injects.        *)
LEMMA NextBrought ==
  ASSUME TypeInv, FittingPlans, Insistent, Turn("call"), step' = step + 1, cur' = cur,
         /\ cur.calls[step].kind \in SwapKinds
         /\ cur.calls[step].recipient = Self
         /\ cur.calls[step].words["amountOutMin"] > 0
         => mem'.bal[cur.calls[step].tokenOut][Self] > 0
  PROVE  BroughtInv'
<1>. SUFFICES ASSUME step + 1 <= Len(cur.calls), Injects(cur.calls[step + 1])
              PROVE  mem'.bal[cur.calls[step + 1].injectToken][Self] > 0
  BY DEF BroughtInv, Held, Injects
<1>. DEFINE k == step + 1
<1>1. /\ step \in 1..Len(cur.calls) /\ cur \in Swaps /\ Len(cur.calls) \in Nat
  BY TurnCall, SwapParts DEF TypeInv, TypeOK
<1>2. k \in CallsOf(cur) /\ k > 1 /\ k - 1 = step
  BY <1>1 DEF CallsOf
<1>3. FittingCall(cur, k)
  BY <1>1, <1>2 DEF FittingPlans, FittingPlan
<1>4. Pays(cur.calls[step], cur.calls[k].injectToken) /\ cur.calls[step].recipient = Self
  BY <1>2, <1>3 DEF FittingCall
<1>5. cur.calls[step].words["amountOutMin"] > 0
  BY <1>1, <1>2 DEF Insistent
<1>. QED
  BY <1>4, <1>5 DEF Pays

(* A router spends what it was allowed, and brings what comes next.        *)
LEMMA FitSwap ==
  ASSUME TypeInv, SoundPlans, SettleInv, FittingPlans, Insistent, FitInv, SwapCall
  PROVE  FitInv'
<1>. DEFINE c == cur.calls[step]
            n == Sent(c)["amountIn"]
<1>1. /\ c \in Call /\ c.kind \in SwapKinds /\ Turn("call") /\ step' = step + 1
      /\ UNCHANGED <<phase, cur, outcome>>
      /\ \A t \in Tokens, r \in Routers :
           mem'.allowance[t][r] =
             IF t = c.tokenIn /\ r = c.target THEN Spend(mem.allowance[t][r], n)
             ELSE mem.allowance[t][r]
      /\ c.recipient = Self /\ Sent(c)["amountOutMin"] > 0 => mem'.bal[c.tokenOut][Self] > 0
  BY SwapMoves
<1>2. /\ n = IF Injects(c) THEN Held(c.injectToken) ELSE c.words["amountIn"]
      /\ Sent(c)["amountOutMin"] = c.words["amountOutMin"]
      /\ phase = "call" /\ cur \in Swaps
  BY <1>1, NextCall
<1>3. cur.approvals \in Seq(Approval) /\ mem \in World
  BY <1>2, SwapParts DEF TypeInv, TypeOK
<1>4. ASSUME NEW j \in 1..Len(cur.approvals) PROVE Affordable(cur.approvals[j])'
  <2>1. PICK b \in Approval : b = cur.approvals[j]
    BY <1>3
  <2>2. b.token \in Tokens /\ b.spender \in Routers
    BY DEF Approval
  <2>3. Allowed(b) \in Nat
    BY <1>3, <2>2, WorldNat DEF Allowed
  <2>4. Allowed(b)' = IF Asks(c, b) THEN Spend(Allowed(b), n) ELSE Allowed(b)
    <3>1. mem'.allowance[b.token][b.spender] =
            IF b.token = c.tokenIn /\ b.spender = c.target
            THEN Spend(mem.allowance[b.token][b.spender], n)
            ELSE mem.allowance[b.token][b.spender]
      BY <1>1, <2>2
    <3>. HIDE DEF c, n
    <3>. QED
      BY <1>1, <3>1 DEF Allowed, Asks
  <2>5. Affordable(b)
    BY <1>2, <2>1 DEF FitInv, AffordInv
  <2>6. /\ Allowed(b) = MaxUint => Allowed(b)' = MaxUint
        /\ ~Asks(c, b) => Allowed(b)' = Allowed(b)
        /\ Allowed(b) # MaxUint /\ Asks(c, b) /\ ~Injects(c)
             => Allowed(b)' = Allowed(b) - c.words["amountIn"]
    <3>. HIDE DEF c, n
    <3>. QED
      BY <1>2, <2>4 DEF Spend
  <2>7. Affordable(b)'
    BY <1>1, <2>3, <2>5, <2>6, StillAffordable
  <2>. QED
    BY <1>1, <2>1, <2>7 DEF Affordable, Allowed
<1>5. AffordInv'
  BY <1>1, <1>4 DEF AffordInv
<1>6. BroughtInv'
  BY <1>1, <1>2, NextBrought
<1>. QED
  BY <1>1, <1>2, <1>5, <1>6 DEF FitInv, PlanFits, ApprovedInv

(* Wrapping and unwrapping spend no allowance, and bring no token that the *)
(* next call injects.                                                      *)
LEMMA FitWrap ==
  ASSUME TypeInv, FittingPlans, Insistent, FitInv, WrapCall \/ UnwrapCall
  PROVE  FitInv'
<1>. DEFINE c == cur.calls[step]
<1>1. /\ Turn("call") /\ phase = "call" /\ step' = step + 1 /\ UNCHANGED <<phase, cur, outcome>>
      /\ c.kind \notin SwapKinds /\ \E b : mem' = [mem EXCEPT !.bal = b]
  BY DEF WrapCall, UnwrapCall, Turn, Advance, SwapKinds
<1>2. /\ mem \in World /\ cur \in Swaps /\ cur.approvals \in Seq(Approval)
  BY SwapParts DEF TypeInv, TypeOK
<1>3. mem'.allowance = mem.allowance
  BY <1>1, <1>2, WorldFrame
<1>4. ASSUME NEW j \in 1..Len(cur.approvals) PROVE Affordable(cur.approvals[j])'
  <2>1. PICK b \in Approval : b = cur.approvals[j]
    BY <1>2
  <2>2. b.token \in Tokens /\ b.spender \in Routers
    BY DEF Approval
  <2>3. Allowed(b) \in Nat /\ Allowed(b)' = Allowed(b) /\ ~Asks(c, b)
    BY <1>1, <1>2, <1>3, <2>2, WorldNat DEF Allowed, Asks
  <2>4. Affordable(b)
    BY <1>1, <2>1 DEF FitInv, AffordInv
  <2>5. Affordable(b)'
    BY <1>1, <2>3, <2>4, StillAffordable
  <2>. QED
    BY <1>1, <2>1, <2>5 DEF Affordable, Allowed
<1>5. AffordInv'
  BY <1>1, <1>4 DEF AffordInv
<1>6. BroughtInv'
  BY <1>1, NextBrought
<1>. QED
  BY <1>1, <1>5, <1>6 DEF FitInv, PlanFits, ApprovedInv

(* A call fails because it is late or the pool has moved.                  *)
LEMMA FitFails ==
  ASSUME TypeInv, SoundPlans, SettleInv, FittingPlans, FitInv, Bounded, CallFails
  PROVE  FitInv'
<1>1. Turn("call") /\ phase' = "idle"
      /\ \/ outcome' = "slippage"
         \/ Fault(cur.calls[step]) # "ok" /\ outcome' = Fault(cur.calls[step])
  <2>1. /\ Turn("call")
        /\ \/ Revert("slippage")
           \/ Fault(cur.calls[step]) # "ok" /\ Revert(Fault(cur.calls[step]))
    BY Zenon DEF CallFails
  <2>2. ASSUME NEW why, Revert(why) PROVE phase' = "idle" /\ outcome' = why
    BY <2>2 DEF Revert
  <2>. QED
    BY <2>1, <2>2
<1>2. Fault(cur.calls[step]) \in {"ok", "expired"}
  BY <1>1, FaultFits
<1>3. outcome' \in {"slippage", "expired"}
  BY <1>1, <1>2
<1>. QED
  BY <1>1, <1>3, FitOutside DEF PlanFits

(* One case per action: the plan goes on fitting the state.                *)
LEMMA FitNext ==
  ASSUME TypeInv, SoundPlans, SettleInv, FittingPlans, Insistent, Bounded, FitInv, [Next]_vars
  PROVE  FitInv'
<1>1. CASE EndLoop
  BY <1>1, FitEndLoop
<1>2. CASE SetApproval
  BY <1>2, FitApproval
<1>3. CASE SwapCall
  BY <1>3, FitSwap
<1>4. CASE WrapCall \/ UnwrapCall
  BY <1>4, FitWrap
<1>5. CASE CallFails
  BY <1>5, FitFails
<1>6. CASE PullToken \/ RevokeApproval \/ FlushToken
  <2>1. phase' \notin {"approve", "call"} /\ outcome' = outcome
    BY <1>6 DEF PullToken, RevokeApproval, FlushToken, Turn, Advance
  <2>. QED
    BY <2>1, FitOutside DEF FitInv, PlanFits
<1>7. CASE PullFails \/ Commit
  <2>1. phase' = "idle" /\ outcome' \in {"funds", "done"}
    BY <1>7 DEF PullFails, Commit, Revert
  <2>. QED
    BY <2>1, FitOutside DEF PlanFits
<1>8. ASSUME NEW s \in Swaps, Execute(s) \/ ExecutePaused(s) \/ ApproveExecutor(s) PROVE FitInv'
  <2>1. phase' \in {"idle", "pull"} /\ (outcome' = outcome \/ outcome' = "paused")
    BY <1>8 DEF Execute, ExecutePaused, ApproveExecutor, Between
  <2>. QED
    BY <2>1, FitOutside DEF FitInv, PlanFits
<1>9. ASSUME NEW a \in Assets, Rescue(a) \/ \E n \in Strays : Donate(a, n) PROVE FitInv'
  <2>1. phase' = "idle" /\ outcome' = outcome
    BY <1>9 DEF Rescue, Donate, Between
  <2>. QED
    BY <2>1, FitOutside DEF FitInv, PlanFits
<1>10. CASE TogglePause \/ Tick
  <2>1. phase' = "idle" /\ outcome' = outcome
    BY <1>10 DEF TogglePause, Tick, Between
  <2>. QED
    BY <2>1, FitOutside DEF FitInv, PlanFits
<1>11. CASE UNCHANGED vars
  BY <1>11 DEF vars, FitInv, PlanFits, ApprovedInv, AffordInv, BroughtInv, Affordable, Allowed,
               Held, Lasts, Asks, Injects, CallsOf
<1>. QED
  BY <1>1, <1>2, <1>3, <1>4, <1>5, <1>6, <1>7, <1>8, <1>9, <1>10, <1>11
     DEF Next, Transaction, Environment

(* The builder's transactions fit together.                                *)
LEMMA BuiltFit == Built => FittingPlans
<1>. SUFFICES ASSUME Built, NEW s \in Swaps PROVE FittingPlan(s)
  BY DEF FittingPlans
<1>1. PICK r \in Requests : Builder!CanBuild(r) /\ s = Builder!Build(r)
  BY DEF Built, BuiltSwaps
<1>2. Quoted(r) /\ Builder!Build(r) \in SwapTransaction
  BY <1>1, RequestsAssumption, SwapsAssumption
<1>. QED
  BY <1>1, <1>2, BuiltPlansFit

(* A transaction of the builder fails for want of money, time or a good    *)
(* price only: the executor never approves too little, spends what it does *)
(* not hold, or writes an amount anywhere but in its word.                 *)
THEOREM BuiltSwapsFit == Built /\ Insistent /\ Spec /\ []Bounded => []PlanFits
<1>. SUFFICES ASSUME Built, Insistent PROVE Spec /\ []Bounded => []PlanFits
  OBVIOUS
<1>1. SoundPlans /\ FittingPlans
  BY BuiltSound, BuiltFit
<1>2. Spec => [](TypeInv /\ FlushInv /\ SettleInv)
  BY <1>1, SettleInvariance
<1>3. Init => FitInv
  BY DEF Init, FitInv, PlanFits, ApprovedInv, AffordInv, BroughtInv
<1>4. TypeInv /\ FlushInv /\ SettleInv /\ Bounded /\ FitInv /\ [Next]_vars => FitInv'
  BY <1>1, FitNext
<1>5. FitInv => PlanFits
  BY DEF FitInv
<1>. QED
  BY <1>2, <1>3, <1>4, <1>5, PTL DEF Spec

=============================================================================
