----------------------------- MODULE RulesProofs ----------------------------
(***************************************************************************)
(* Theorems about LpActions, for any amounts, bounds and compositions, and *)
(* about PolicySession, for any durations, observations, gaps and bounds.  *)
(***************************************************************************)
EXTENDS MCRules, TLAPS

-----------------------------------------------------------------------------
(* One action in amounts.                                                  *)

(* What the variables range over.                                         *)
Coins == {"usdc", "src", "dst"}
Legs == {"usdc", "stock"}
ActionKinds == {"enter", "recenter", "switch", "exit", "collect"}
Lists == {<<>>, <<"stake">>, <<"mint", "stake">>, <<"sell", "mint", "stake">>,
          <<"withdraw", "mint", "stake">>, <<"withdraw", "sell", "mint", "stake">>,
          <<"unstake", "withdraw", "mint", "stake">>,
          <<"unstake", "withdraw", "sell", "mint", "stake">>,
          <<"preflight", "unstake", "withdraw", "mint", "stake">>,
          <<"preflight", "unstake", "withdraw", "sell", "mint", "stake">>,
          <<"unstake", "withdraw", "sell">>, <<"withdraw", "sell">>, <<"sell">>, <<"collect">>}
Plans == [budget : Nat, mix : Nat, want : [stock : Nat, usdc : Nat],
          swap : [gives : {"none", "usdc", "stock"}, amount : Nat]]
Jobs == [kind : ActionKinds, budget : Nat, todo : Lists,
         phase : {"build", "sent", "swap", "rebuild", "approve", "final", "estimate"},
         plan : Plans, floor : [Legs -> Nat], round : 0..Rounds, psc : 0..Retries, seen : Nat]

Sources == [at : {"gauge", "safe", "empty"}, worth : Nat, earned : {0, 1}, young : BOOLEAN]

WorldTyped ==
    /\ safe \in [Coins -> Nat] /\ granted \in [Legs -> Nat]
    /\ shown \in [safe : [Coins -> Nat], granted : [Legs -> Nat]]
    /\ source \in Sources
    /\ mix \in [{"source", "target"} -> 0..Parts]
    /\ moves \in Nat /\ moves <= MaxMoves + 1 /\ lagged \in BOOLEAN

Verdicts == {"none", "refused", "failed", "exhausted", "done"}
ActionTyped == WorldTyped /\ job \in Jobs /\ verdict \in Verdicts

Minting(phases) == job.todo = <<"mint", "stake">> /\ job.phase \in phases

(* Before its approvals a mint has been granted nothing.                   *)
Ungranted ==
    verdict = "none" /\ job.todo # <<"stake">> /\ ~Minting({"final", "estimate", "sent"}) =>
        job.round = 0 /\ \A s \in Legs : job.floor[s] = 0 /\ granted[s] = 0 /\ shown.granted[s] = 0

(* Only a resting action has a verdict, and only a mint has its phases.    *)
Ordered ==
    /\ verdict # "none" => job.todo = <<>>
    /\ verdict = "none" => moves <= MaxMoves
    /\ job.phase \in {"swap", "rebuild", "approve", "final", "estimate"} =>
           job.todo = <<"mint", "stake">>

(* What is about to be spent is there, and granted.                        *)
Payable ==
    /\ Minting({"swap"}) => /\ job.plan.swap.gives # "none"
                            /\ job.plan.swap.amount <= Leg(Holds(Target, safe), job.plan.swap.gives)
    /\ Minting({"sent"}) => \A s \in Legs : /\ Leg(job.plan.want, s) <= Leg(Holds(Target, safe), s)
                                            /\ Leg(job.plan.want, s) <= granted[s]

(* The approvals cover what the plan asks at the present price.            *)
Covered ==
    \A s \in Legs :
        Buffered(Leg(Sides(Resized(job.plan.budget, mix.target, Holds(Target, safe)), mix.target), s))
            <= job.floor[s]

(* The loop knows the Safe as it is and grants at most what it has         *)
(* confirmed; a round that changed nothing must have met a move, and a     *)
(* move costs two rounds: the one that met it, and the one that paid.      *)
Looping ==
    /\ Minting({"approve"}) =>
           /\ job.plan.want = Sides(job.plan.budget, job.plan.mix)
           /\ job.plan.want.stock # 0 /\ job.plan.want.usdc # 0
           /\ moves = 0 => job.plan.mix = mix.target
    /\ Minting({"final", "estimate"}) =>
           /\ shown.safe = safe
           /\ \A s \in Legs : granted[s] = job.floor[s] /\ shown.granted[s] <= job.floor[s]
    /\ Minting({"final"}) =>
           job.round <= 2 * moves /\ (Covered \/ job.round < 2 * moves)
    /\ Minting({"estimate"}) =>
           /\ job.round <= 2 * moves + 1 /\ (job.plan.mix = mix.target \/ job.round < 2 * moves)
           /\ \A s \in Legs : Leg(job.plan.want, s) <= granted[s]

ActionInv == ActionTyped /\ Ordered /\ Ungranted /\ Payable /\ Looping /\ LoopSettles

-----------------------------------------------------------------------------
(* The planner's arithmetic.                                               *)

LEMMA ActionBounds ==
    /\ PoolCap \in Nat \ {0} /\ Parts \in Nat \ {0} /\ Tolerance \in Nat \ {0} /\ Acquire \in Nat \ {0}
    /\ Budgets \subseteq Nat \ {0} /\ Cash \subseteq Nat /\ Loose \subseteq Nat /\ Worth \subseteq Nat
    /\ Committed \subseteq Nat /\ Rounds \in Nat /\ Retries \in Nat /\ MaxMoves \in Nat
BY ActionAssumption DEF ActionAssumption

LEMMA Divided ==
    ASSUME NEW x \in Nat, NEW y \in Nat, NEW d \in Nat \ {0}, x <= y
    PROVE  x \div d \in Nat /\ x \div d <= y \div d
OBVIOUS

LEMMA RoundedUp ==
    ASSUME NEW x \in Nat, NEW n \in Nat \ {0}
    PROVE  /\ Up(x, n) \in Nat /\ x <= Up(x, n)
           /\ \A y \in Nat : x <= y => Up(x, n) <= Up(y, n)
<1>1. (x + n - 1) \div n \in Nat
  OBVIOUS
<1>2. ASSUME NEW y \in Nat, x <= y PROVE Up(x, n) <= Up(y, n)
  <2> DEFINE a == x + n - 1
             b == y + n - 1
  <2>1. a \in Nat /\ b \in Nat /\ a <= b
    BY <1>2
  <2> HIDE DEF a, b
  <2>2. a \div n \in Nat /\ a \div n <= b \div n /\ b \div n \in Nat
    BY <2>1, Divided
  <2> QED
    BY <1>2, <2>2 DEF Up, a, b
<1> QED
  BY <1>1, <1>2 DEF Up

LEMMA FloorIsNat == ASSUME NEW x \in Nat PROVE Floor(x) \in Nat
<1>1. Tolerance \in Nat \ {0}
  BY ActionBounds
<1> DEFINE d == Tolerance
           q == (x + d - 1) \div d
<1>2. d \in Nat \ {0}
  BY <1>1
<1>3. q \in Nat /\ q * d <= x + d - 1
  <2> HIDE DEF d
  <2>1. x + d - 1 \in Nat
    BY <1>2
  <2> QED
    BY <1>2, <2>1
<1>4. q <= x
  <2> SUFFICES ASSUME q >= x + 1 PROVE FALSE
    BY <1>3
  <2> HIDE DEF q, d
  <2>1. q * d >= (x + 1) * d
    BY <1>2, <1>3
  <2>2. (x + 1) * d = x * d + d
    BY <1>2
  <2>3. x * d >= x
    BY <1>2
  <2> QED
    BY <1>2, <1>3, <2>1, <2>2, <2>3
<1> QED
  BY <1>3, <1>4 DEF Floor

Amounts == [stock : Nat, usdc : Nat]

LEMMA SidesFacts ==
    ASSUME NEW b \in Nat, NEW m \in 0..Parts
    PROVE  /\ Sides(b, m) \in Amounts
           /\ \A c \in Nat : c <= b => /\ Sides(c, m).stock <= Sides(b, m).stock
                                       /\ Sides(c, m).usdc <= Sides(b, m).usdc
<1>1. m \in Nat /\ Parts - m \in Nat /\ Parts \in Nat \ {0}
  BY ActionBounds
<1> DEFINE n == Parts - m
<1>2. ASSUME NEW c \in Nat, c <= b
      PROVE  /\ (c * m) \div Parts \in Nat /\ (c * m) \div Parts <= (b * m) \div Parts
             /\ (c * n) \div Parts \in Nat /\ (c * n) \div Parts <= (b * n) \div Parts
  <2> DEFINE cm == c * m
             bm == b * m
             cn == c * n
             bn == b * n
  <2>1. cm \in Nat /\ bm \in Nat /\ cm <= bm
    BY <1>1, <1>2
  <2>2. cn \in Nat /\ bn \in Nat /\ cn <= bn
    <3> HIDE DEF n
    <3> QED
      BY <1>1, <1>2 DEF n
  <2> HIDE DEF cm, bm, cn, bn
  <2>3. cm \div Parts \in Nat /\ cm \div Parts <= bm \div Parts
    BY <1>1, <2>1, Divided
  <2>4. cn \div Parts \in Nat /\ cn \div Parts <= bn \div Parts
    BY <1>1, <2>2, Divided
  <2> QED
    BY <2>3, <2>4 DEF cm, bm, cn, bn
<1>3. (b * m) \div Parts \in Nat /\ (b * n) \div Parts \in Nat
  BY <1>2
<1> QED
  BY <1>2, <1>3 DEF Sides, Amounts

LEMMA SwapFacts ==
    ASSUME NEW w \in Amounts, NEW inv \in [usdc : Nat, stock : Nat]
    PROVE  Swap(w, inv) \in [gives : {"none", "usdc", "stock"}, amount : Nat]
<1>1. w.stock \in Nat /\ w.usdc \in Nat /\ inv.stock \in Nat /\ inv.usdc \in Nat
  BY DEF Amounts
<1>2. CASE w.stock > inv.stock
  <2>1. w.stock - inv.stock \in Nat
    BY <1>1, <1>2
  <2>2. Up(w.stock - inv.stock, Acquire) \in Nat
    BY <2>1, ActionBounds, RoundedUp
  <2> QED
    BY <1>1, <1>2, <2>2 DEF Swap
<1>3. CASE w.stock <= inv.stock /\ w.usdc > inv.usdc
  <2>1. w.usdc - inv.usdc \in Nat
    BY <1>1, <1>3
  <2>2. Up(w.usdc - inv.usdc, Acquire) \in Nat
    BY <2>1, ActionBounds, RoundedUp
  <2>3. ~(w.stock > inv.stock)
    BY <1>1, <1>3
  <2> QED
    BY <1>3, <2>2, <2>3 DEF Swap
<1>4. CASE ~(w.stock > inv.stock) /\ ~(w.stock <= inv.stock /\ w.usdc > inv.usdc)
  BY <1>4 DEF Swap
<1> QED
  BY <1>2, <1>3, <1>4

LEMMA LegFacts ==
    ASSUME NEW w \in Amounts, NEW s \in Legs
    PROVE  Leg(w, s) \in Nat /\ Leg(w, "usdc") = w.usdc /\ Leg(w, "stock") = w.stock
BY DEF Leg, Amounts, Legs

(* A budget is resized downwards only.                                     *)
LEMMA ResizedFacts ==
    ASSUME NEW b \in Nat, NEW m \in 0..Parts, NEW inv \in [usdc : Nat, stock : Nat]
    PROVE  Resized(b, m, inv) \in Nat /\ Resized(b, m, inv) <= b
<1> DEFINE w == Sides(b, m)
<1>1. w \in Amounts
  BY SidesFacts
<1>2. CASE Resized(b, m, inv) = b
  BY <1>2
<1>3. CASE Resized(b, m, inv) # b
  <2>1. 0 \notin {w.stock, w.usdc} /\ Resized(b, m, inv) = Constrained(b, w, inv)
    BY <1>3 DEF Resized
  <2> DEFINE x == (b * inv.usdc * 999) \div (w.usdc * 1000)
             y == (b * inv.stock * 999) \div (w.stock * 1000)
             z == (b * 999) \div 1000
             S == {x, y, z}
  <2>2. w.stock \in Nat \ {0} /\ w.usdc \in Nat \ {0}
    BY <1>1, <2>1 DEF Amounts
  <2>3. Constrained(b, w, inv) = CHOOSE v \in S : \A u \in S : v <= u
    BY DEF Constrained, Leg
  <2>4. x \in Nat /\ y \in Nat
    <3> DEFINE k == b * inv.usdc * 999
               l == b * inv.stock * 999
               d == w.usdc * 1000
               e == w.stock * 1000
    <3>1. k \in Nat /\ l \in Nat /\ d \in Nat \ {0} /\ e \in Nat \ {0}
      BY <2>2
    <3> HIDE DEF k, l, d, e
    <3>2. k \div d \in Nat /\ l \div e \in Nat
      BY <3>1
    <3> QED
      BY <3>2 DEF k, l, d, e
  <2>5. z \in Nat /\ z <= b
    OBVIOUS
  <2> HIDE DEF x, y, z, w
  <2>6. \E v \in S : \A u \in S : v <= u
    BY <2>4, <2>5
  <2>7. Constrained(b, w, inv) \in S /\ \A u \in S : Constrained(b, w, inv) <= u
    BY <2>3, <2>6
  <2>8. Constrained(b, w, inv) \in Nat /\ Constrained(b, w, inv) <= z
    BY <2>4, <2>5, <2>7
  <2> QED
    BY <2>1, <2>5, <2>8
<1> QED
  BY <1>2, <1>3

LEMMA PlanFacts ==
    ASSUME NEW b \in Nat, NEW m \in 0..Parts, NEW inv \in [usdc : Nat, stock : Nat]
    PROVE  Plan(b, m, inv) \in Plans
<1>1. Sides(b, m) \in Amounts
  BY SidesFacts
<1>2. Swap(Sides(b, m), inv) \in [gives : {"none", "usdc", "stock"}, amount : Nat]
  BY <1>1, SwapFacts
<1>3. m \in Nat
  BY ActionBounds
<1> QED
  BY <1>1, <1>2, <1>3 DEF Plan, Plans, Amounts

(* A plan that breaks no rule has both sides and can pay its swap.         *)
LEMMA Unbroken ==
    ASSUME NEW b, NEW m, NEW existing, NEW inv, Broken(b, m, existing, inv) = {}
    PROVE  LET w == Sides(b, m)
               s == Swap(w, inv)
           IN  /\ w.stock # 0 /\ w.usdc # 0
               /\ s.gives # "none" => ~(Leg(w, s.gives) + s.amount > Leg(inv, s.gives))
<1> DEFINE w == Sides(b, m)
           s == Swap(w, inv)
           breaks == [budget   |-> b = 0 \/ b > PoolCap,
                      exposure |-> b > ExposureCap - existing,
                      range    |-> m \notin 1..(Parts - 1),
                      sides    |-> w.stock = 0 \/ w.usdc = 0,
                      depth    |-> b > Depth,
                      impact   |-> s.amount >= Impact,
                      funds    |-> /\ s.gives # "none"
                                   /\ Leg(w, s.gives) + s.amount > Leg(inv, s.gives)]
<1>1. {r \in DOMAIN breaks : breaks[r]} = {}
  BY DEF Broken
<1>2. "sides" \in DOMAIN breaks /\ "funds" \in DOMAIN breaks
  OBVIOUS
<1>3. ~breaks["sides"] /\ ~breaks["funds"]
  <2> HIDE DEF breaks
  <2> QED
    BY <1>1, <1>2
<1>4. breaks["sides"] = (w.stock = 0 \/ w.usdc = 0)
  OBVIOUS
<1>5. breaks["funds"] = (s.gives # "none" /\ Leg(w, s.gives) + s.amount > Leg(inv, s.gives))
  OBVIOUS
<1>6. ~(w.stock = 0 \/ w.usdc = 0)
      /\ ~(s.gives # "none" /\ Leg(w, s.gives) + s.amount > Leg(inv, s.gives))
  <2> HIDE DEF breaks, w, s
  <2> QED
    BY <1>3, <1>4, <1>5, Zenon
<1> QED
  BY <1>6

-----------------------------------------------------------------------------
(* Stages and jobs.                                                        *)

StepPhases == {"build", "sent", "swap", "rebuild", "approve", "final", "estimate"}

LEMMA StageLists ==
    /\ \A t \in Lists : t # <<>> => Tail(t) \in Lists
    /\ \A t \in Lists : t # <<>> /\ Head(t) = "mint" => t = <<"mint", "stake">>
    /\ \A t \in Lists : t # <<>> /\ Tail(t) = <<"mint", "stake">> => t # <<"mint", "stake">>
    /\ Tail(<<"mint", "stake">>) = <<"stake">> /\ Head(<<"mint", "stake">>) = "mint"
    /\ <<"mint", "stake">> # <<>> /\ <<"mint", "stake">> # <<"stake">>
    /\ \A k \in ActionKinds : Route(k) \in Lists
<1>1. \A t \in Lists : t # <<>> => Tail(t) \in Lists
  <2>1. Tail(<<"stake">>) = <<>>
    OBVIOUS
  <2>2. Tail(<<"mint", "stake">>) = <<"stake">>
    OBVIOUS
  <2>3. Tail(<<"sell", "mint", "stake">>) = <<"mint", "stake">>
    OBVIOUS
  <2>4. Tail(<<"withdraw", "mint", "stake">>) = <<"mint", "stake">>
    OBVIOUS
  <2>5. Tail(<<"withdraw", "sell", "mint", "stake">>) = <<"sell", "mint", "stake">>
    OBVIOUS
  <2>6. Tail(<<"unstake", "withdraw", "mint", "stake">>) = <<"withdraw", "mint", "stake">>
    OBVIOUS
  <2>7. Tail(<<"unstake", "withdraw", "sell", "mint", "stake">>) = <<"withdraw", "sell", "mint", "stake">>
    OBVIOUS
  <2>8. Tail(<<"preflight", "unstake", "withdraw", "mint", "stake">>) = <<"unstake", "withdraw", "mint", "stake">>
    OBVIOUS
  <2>9. Tail(<<"preflight", "unstake", "withdraw", "sell", "mint", "stake">>) = <<"unstake", "withdraw", "sell", "mint", "stake">>
    OBVIOUS
  <2>10. Tail(<<"unstake", "withdraw", "sell">>) = <<"withdraw", "sell">>
    OBVIOUS
  <2>11. Tail(<<"withdraw", "sell">>) = <<"sell">>
    OBVIOUS
  <2>12. Tail(<<"sell">>) = <<>>
    OBVIOUS
  <2>13. Tail(<<"collect">>) = <<>>
    OBVIOUS
  <2> QED
    BY <2>1, <2>2, <2>3, <2>4, <2>5, <2>6, <2>7, <2>8, <2>9, <2>10, <2>11, <2>12, <2>13, Zenon DEF Lists
<1>2. \A t \in Lists : t # <<>> /\ Head(t) = "mint" => t = <<"mint", "stake">>
  BY DEF Lists
<1>3. \A k \in ActionKinds : Route(k) \in Lists
  BY DEF Lists, Route, ActionKinds
<1>4. /\ Tail(<<"mint", "stake">>) = <<"stake">> /\ Head(<<"mint", "stake">>) = "mint"
      /\ <<"mint", "stake">> # <<>> /\ <<"mint", "stake">> # <<"stake">>
  OBVIOUS
<1> QED
  BY <1>1, <1>2, <1>3, <1>4

LEMMA JobFields ==
    ASSUME job \in Jobs
    PROVE  /\ job.kind \in ActionKinds /\ job.budget \in Nat /\ job.todo \in Lists
           /\ job.phase \in StepPhases /\ job.plan \in Plans /\ job.floor \in [Legs -> Nat]
           /\ job.round \in 0..Rounds /\ job.psc \in 0..Retries /\ job.seen \in Nat
BY DEF Jobs, StepPhases

LEMMA JobTurns ==
    ASSUME job \in Jobs, NEW ph \in StepPhases, NEW t \in Lists, NEW x \in Nat, NEW pl \in Plans,
           NEW fl \in [Legs -> Nat], NEW r \in 0..Rounds, NEW c \in 0..Retries
    PROVE  /\ [job EXCEPT !.phase = ph] \in Jobs
           /\ [job EXCEPT !.todo = t, !.phase = ph] \in Jobs
           /\ [job EXCEPT !.phase = ph, !.seen = x] \in Jobs
           /\ [job EXCEPT !.plan = pl, !.phase = ph] \in Jobs
           /\ [job EXCEPT !.phase = ph, !.floor = fl] \in Jobs
           /\ [job EXCEPT !.round = r] \in Jobs
           /\ [job EXCEPT !.psc = c, !.phase = ph] \in Jobs
BY DEF Jobs, StepPhases

LEMMA FreshJob ==
    ASSUME NEW k \in ActionKinds, NEW b \in Nat
    PROVE  /\ Fresh(k, b) \in Jobs /\ Fresh(k, b).todo = Route(k) /\ Fresh(k, b).phase = "build"
           /\ Fresh(k, b).round = 0 /\ \A s \in Legs : Fresh(k, b).floor[s] = 0
<1>1. Route(k) \in Lists
  BY StageLists
<1>2. NoPlan \in Plans
  BY DEF NoPlan, Plans
<1>3. [usdc |-> 0, stock |-> 0] \in [Legs -> Nat] /\ \A s \in Legs : [usdc |-> 0, stock |-> 0][s] = 0
  BY DEF Legs
<1>4. 0 \in 0..Rounds /\ 0 \in 0..Retries
  BY ActionBounds
<1> QED
  BY <1>1, <1>2, <1>3, <1>4 DEF Fresh, Jobs

LEMMA RestingJob == Resting \in Jobs /\ Resting.todo = <<>> /\ Resting.phase = "build"
<1>1. "collect" \in ActionKinds /\ 0 \in Nat
  BY DEF ActionKinds
<1>2. Fresh("collect", 0) \in Jobs /\ Fresh("collect", 0).phase = "build"
  BY <1>1, FreshJob
<1>3. <<>> \in Lists
  BY DEF Lists
<1> QED
  BY <1>2, <1>3 DEF Resting, Jobs

-----------------------------------------------------------------------------
(* How an action goes on.                                                  *)

(* An action that ends leaves nothing to be kept.                          *)
LEMMA EndsInv ==
    ASSUME WorldTyped', job' = Resting, verdict' \in Verdicts \ {"none"},
           verdict' = "exhausted" => 2 * moves' >= Rounds
    PROVE  ActionInv'
<1>1. job' \in Jobs /\ job'.todo = <<>> /\ job'.phase = "build"
  BY RestingJob
<1>2. ActionTyped'
  BY <1>1 DEF ActionTyped
<1>3. Ordered' /\ Ungranted'
  BY <1>1 DEF Ordered, Ungranted
<1>4. ~Minting({"swap"})' /\ ~Minting({"sent"})' /\ ~Minting({"approve"})' /\ ~Minting({"final"})'
      /\ ~Minting({"estimate"})' /\ ~Minting({"final", "estimate"})'
  BY <1>1 DEF Minting
<1>5. Payable' /\ Looping'
  BY <1>4 DEF Payable, Looping
<1> QED
  BY <1>2, <1>3, <1>5 DEF ActionInv, LoopSettles

(* An action under way has no verdict yet.                                 *)
LEMMA UnderWay ==
    ASSUME ActionInv, job.todo # <<>>
    PROVE  verdict = "none" /\ moves <= MaxMoves
BY DEF ActionInv, Ordered

(* The next stage begins without a grant, unless it is the stake.          *)
LEMMA OnwardsInv ==
    ASSUME ActionInv, WorldTyped', Onwards, job.todo # <<>>, moves' = moves,
           job.todo # <<"mint", "stake">> => granted' = granted,
           shown'.granted \in {granted, shown.granted}
    PROVE  ActionInv'
<1>1. CASE Len(job.todo) = 1
  <2>1. job' = Resting /\ verdict' = "done"
    BY <1>1 DEF Onwards, Ends
  <2> QED
    BY <2>1, EndsInv DEF Verdicts
<1>2. CASE Len(job.todo) # 1
  <2>1. verdict' = "none" /\ job' = [job EXCEPT !.todo = Tail(job.todo), !.phase = "build"]
    BY <1>2 DEF Onwards
  <2>2. job \in Jobs /\ job.todo \in Lists /\ Tail(job.todo) \in Lists
    BY StageLists, JobFields DEF ActionInv, ActionTyped
  <2>3. job' \in Jobs
    <3>1. "build" \in StepPhases
      BY DEF StepPhases
    <3> QED
      BY <2>1, <2>2, <3>1 DEF Jobs, StepPhases
  <2>4. /\ job'.todo = Tail(job.todo) /\ job'.phase = "build"
        /\ job'.round = job.round /\ job'.floor = job.floor
    BY <2>1, <2>2 DEF Jobs
  <2>5. verdict = "none" /\ moves <= MaxMoves
    BY UnderWay
  <2>6. ActionTyped'
    BY <2>1, <2>3 DEF ActionTyped, Verdicts
  <2>7. Ordered'
    BY <2>1, <2>4, <2>5 DEF Ordered
  <2>8. Ungranted'
    <3> SUFFICES ASSUME job'.todo # <<"stake">>
                 PROVE  job'.round = 0 /\ \A s \in Legs :
                            job'.floor[s] = 0 /\ granted'[s] = 0 /\ shown'.granted[s] = 0
      BY DEF Ungranted
    <3>1. job.todo # <<"mint", "stake">>
      BY <2>4, StageLists
    <3>2. job.todo # <<"stake">>
      <4>1. Len(<<"stake">>) = 1
        OBVIOUS
      <4> QED
        BY <1>2, <4>1
    <3>3. job.round = 0 /\ \A s \in Legs :
              job.floor[s] = 0 /\ granted[s] = 0 /\ shown.granted[s] = 0
      BY <2>5, <3>1, <3>2 DEF ActionInv, Ungranted, Minting
    <3>4. \A s \in Legs : shown'.granted[s] = 0
      BY <3>3
    <3> QED
      BY <2>4, <3>1, <3>3, <3>4
  <2>9. Payable' /\ Looping'
    BY <2>4 DEF Payable, Looping, Minting
  <2>10. LoopSettles'
    BY <2>1 DEF LoopSettles
  <2> QED
    BY <2>6, <2>7, <2>8, <2>9, <2>10 DEF ActionInv
<1> QED
  BY <1>1, <1>2

(* A delivery of another stage is sent.                                    *)
LEMMA StillInv ==
    ASSUME ActionInv, WorldTyped', job' \in Jobs, job.todo # <<>>, job.todo # <<"mint", "stake">>,
           job'.todo = job.todo, job'.round = job.round, job'.floor = job.floor,
           job'.phase \in {"build", "sent"}, UNCHANGED <<granted, shown, moves>>, verdict' = "none"
    PROVE  ActionInv'
<1>1. verdict = "none" /\ moves <= MaxMoves
  BY UnderWay
<1>2. ActionTyped'
  BY DEF ActionTyped, Verdicts
<1>3. Ordered'
  BY <1>1 DEF Ordered
<1>4. Ungranted'
  BY <1>1 DEF ActionInv, Ungranted, Minting
<1>5. Payable' /\ Looping'
  BY DEF Payable, Looping, Minting
<1>6. LoopSettles'
  BY DEF LoopSettles
<1> QED
  BY <1>2, <1>3, <1>4, <1>5, <1>6 DEF ActionInv

LEMMA SentInv ==
    ASSUME ActionInv, Reads, UNCHANGED lagged, job.todo # <<>>, job.todo # <<"mint", "stake">>, verdict' = "none",
           \/ job' = [job EXCEPT !.phase = "sent"]
           \/ job' = [job EXCEPT !.phase = "sent", !.seen = mix.source]
    PROVE  ActionInv'
<1>1. job \in Jobs /\ WorldTyped
  BY DEF ActionInv, ActionTyped
<1>2. WorldTyped'
  BY <1>1 DEF WorldTyped, Reads
<1>3. mix.source \in Nat
  <2>1. mix.source \in 0..Parts
    BY <1>1 DEF WorldTyped
  <2> QED
    BY <2>1, ActionBounds
<1>4. /\ job' \in Jobs /\ job'.todo = job.todo /\ job'.round = job.round /\ job'.floor = job.floor
      /\ job'.phase = "sent"
  BY <1>1, <1>3 DEF Jobs
<1> QED
  BY <1>2, <1>4, StillInv DEF Reads

LEMMA ReadsTyped ==
    ASSUME WorldTyped, Reads, lagged' \in BOOLEAN
    PROVE  WorldTyped'
BY DEF WorldTyped, Reads

LEMMA Amounted ==
    ASSUME WorldTyped
    PROVE  /\ Out \in Amounts
           /\ \A t \in {"src", "dst"} : Holds(t, safe) \in [usdc : Nat, stock : Nat]
           /\ Target \in {"src", "dst"}
           /\ mix.target \in 0..Parts /\ mix.source \in 0..Parts
<1>1. mix.target \in 0..Parts /\ mix.source \in 0..Parts
  BY DEF WorldTyped
<1>2. \A t \in {"src", "dst"} : Holds(t, safe) \in [usdc : Nat, stock : Nat]
  BY DEF WorldTyped, Holds, Coins
<1>3. Out \in Amounts
  <2> DEFINE w == source.worth
             m == mix.source
             q == (w * m) \div Parts
  <2>1. w \in Nat /\ m \in Nat /\ m <= Parts /\ Parts \in Nat \ {0}
    BY <1>1, ActionBounds DEF WorldTyped, Sources
  <2>2. q \in Nat /\ q <= w
    <3> HIDE DEF w, m
    <3> DEFINE x == w * m
               y == w * Parts
    <3>1. x \in Nat /\ y \in Nat /\ x <= y /\ y \div Parts = w
      BY <2>1
    <3> HIDE DEF x, y
    <3>2. x \div Parts \in Nat /\ x \div Parts <= y \div Parts
      BY <2>1, <3>1, Divided
    <3> QED
      BY <3>1, <3>2 DEF x
  <2> HIDE DEF q, w, m
  <2>3. q \in Nat /\ w - q \in Nat
    BY <2>1, <2>2
  <2>4. Out = [stock |-> q, usdc |-> w - q]
    BY DEF Out, q, w, m
  <2> QED
    BY <2>3, <2>4 DEF Amounts
<1> QED
  BY <1>1, <1>2, <1>3 DEF Target

LEMMA ProjectedTyped ==
    ASSUME WorldTyped
    PROVE  Projected \in [Coins -> Nat]
<1>1. Out.usdc \in Nat /\ Out.stock \in Nat
  BY Amounted DEF Amounts
<1>2. safe \in [Coins -> Nat]
  BY DEF WorldTyped
<1>3. Projected = [safe EXCEPT !.usdc = safe.usdc + Out.usdc, !.src = safe.src + Out.stock]
  BY DEF Projected
<1>4. safe.usdc + Out.usdc \in Nat /\ safe.src + Out.stock \in Nat
  BY <1>1, <1>2 DEF Coins
<1> QED
  BY <1>2, <1>3, <1>4 DEF Coins

LEMMA FreshStep ==
    ASSUME ActionInv, NEW kind \in ActionKinds, NEW b \in Budgets, Begin(kind, b)
    PROVE  ActionInv'
<1>1. job' = Fresh(kind, b) /\ b \in Nat /\ verdict = "none" /\ job.todo = <<>>
      /\ UNCHANGED <<safe, granted, shown, source, others, mix, moves, lagged, verdict>>
  BY ActionBounds DEF Begin
<1>2. job' \in Jobs /\ job'.phase = "build" /\ job'.round = 0 /\ \A s \in Legs : job'.floor[s] = 0
  BY <1>1, FreshJob
<1>3. ActionTyped'
  BY <1>1, <1>2 DEF ActionInv, ActionTyped, WorldTyped
<1>4. Ordered'
  BY <1>1, <1>2 DEF ActionInv, Ordered
<1>5. \A s \in Legs : granted[s] = 0 /\ shown.granted[s] = 0
  BY <1>1 DEF ActionInv, Ungranted, Minting
<1>6. Ungranted'
  BY <1>1, <1>2, <1>5 DEF Ungranted
<1>7. Payable' /\ Looping'
  BY <1>2 DEF Payable, Looping, Minting
<1>8. LoopSettles'
  BY <1>1 DEF LoopSettles
<1> QED
  BY <1>3, <1>4, <1>6, <1>7, <1>8 DEF ActionInv

-----------------------------------------------------------------------------
(* The stages beside the mint.                                             *)

(* A stage that is not the mint's.                                         *)
LEMMA AtOther ==
    ASSUME ActionInv, NEW stage \in Stages \ {"mint"}, NEW phase, At(stage, phase)
    PROVE  job.todo # <<>> /\ job.todo # <<"mint", "stake">>
BY StageLists DEF At

LEMMA RefusedInv ==
    ASSUME ActionInv, WorldTyped', Refused \/ Failed \/ Ends("done")
    PROVE  ActionInv'
BY EndsInv DEF Refused, Failed, Ends, Verdicts

LEMMA PreflightStep ==
    ASSUME ActionInv, PreflightRecenter \/ PreflightSwitch
    PROVE  ActionInv'
<1>1. /\ job.todo # <<>> /\ job.todo # <<"mint", "stake">> /\ Reads /\ UNCHANGED lagged
      /\ Onwards \/ Refused
  <2>1. At("preflight", "build") /\ "preflight" \in Stages \ {"mint"}
    BY DEF PreflightRecenter, PreflightSwitch, Stages
  <2>2. job.todo # <<>> /\ job.todo # <<"mint", "stake">>
    BY <2>1, AtOther
  <2> QED
    BY <2>2 DEF PreflightRecenter, PreflightSwitch, Preflight
<1>2. WorldTyped'
  BY <1>1, ReadsTyped DEF ActionInv, ActionTyped, WorldTyped
<1>3. moves' = moves /\ granted' = granted /\ shown'.granted \in {granted, shown.granted}
  BY <1>1 DEF Reads
<1> QED
  BY <1>1, <1>2, <1>3, OnwardsInv, RefusedInv

LEMMA UnstakeStep ==
    ASSUME ActionInv, BuildUnstake \/ LandUnstake
    PROVE  ActionInv'
<1>1. job.todo # <<>> /\ job.todo # <<"mint", "stake">>
  <2>1. \E ph \in {"build", "sent"} : At("unstake", ph)
    BY DEF BuildUnstake, LandUnstake
  <2>2. "unstake" \in Stages \ {"mint"}
    BY DEF Stages
  <2> QED
    BY <2>1, <2>2, AtOther
<1>2. CASE BuildUnstake
  <2>1. Reads /\ UNCHANGED lagged /\ (Onwards \/ Sent \/ Refused)
    BY <1>2 DEF BuildUnstake
  <2>2. WorldTyped'
    BY <2>1, ReadsTyped DEF ActionInv, ActionTyped, WorldTyped
  <2>3. moves' = moves /\ granted' = granted /\ shown'.granted \in {granted, shown.granted}
    BY <2>1 DEF Reads
  <2>4. Sent => ActionInv'
    BY <1>1, <2>1, SentInv DEF Sent
  <2> QED
    BY <1>1, <2>1, <2>2, <2>3, <2>4, OnwardsInv, RefusedInv
<1>3. CASE LandUnstake
  <2>1. /\ source' = [source EXCEPT !.at = "safe", !.earned = 0] /\ Onwards
        /\ shown' = [safe |-> safe, granted |-> granted]
        /\ UNCHANGED <<safe, granted, others, mix, moves, lagged>>
    BY <1>3 DEF LandUnstake, Landed
  <2>2. source' \in Sources
    BY <2>1 DEF ActionInv, ActionTyped, WorldTyped, Sources
  <2>3. WorldTyped'
    BY <2>1, <2>2 DEF ActionInv, ActionTyped, WorldTyped
  <2>4. shown'.granted \in {granted, shown.granted}
    BY <2>1
  <2> QED
    BY <1>1, <2>1, <2>3, <2>4, OnwardsInv
<1> QED
  BY <1>2, <1>3

LEMMA WithdrawStep ==
    ASSUME ActionInv, BuildWithdraw \/ LandWithdraw
    PROVE  ActionInv'
<1>1. job.todo # <<>> /\ job.todo # <<"mint", "stake">>
  <2>1. \E ph \in {"build", "sent"} : At("withdraw", ph)
    BY DEF BuildWithdraw, LandWithdraw
  <2>2. "withdraw" \in Stages \ {"mint"}
    BY DEF Stages
  <2> QED
    BY <2>1, <2>2, AtOther
<1>2. CASE BuildWithdraw
  BY <1>1, <1>2, SentInv DEF BuildWithdraw
<1>3. CASE LandWithdraw
  <2>1. UNCHANGED <<granted, others, mix, moves, lagged>> /\ WorldTyped
    BY <1>3 DEF LandWithdraw, ActionInv, ActionTyped
  <2>2. CASE job.seen # mix.source
    <3>1. Failed /\ UNCHANGED <<safe, source, shown>>
      BY <1>3, <2>2 DEF LandWithdraw
    <3>2. WorldTyped'
      BY <2>1, <3>1 DEF WorldTyped
    <3> QED
      BY <3>1, <3>2, RefusedInv
  <2>3. CASE job.seen = mix.source
    <3>1. /\ safe' = Projected /\ source' = [source EXCEPT !.at = "empty", !.worth = 0]
          /\ Onwards /\ shown' = [safe |-> safe, granted |-> granted]
      BY <1>3, <2>3 DEF LandWithdraw, Landed
    <3>2. source' \in Sources
      BY <2>1, <3>1 DEF WorldTyped, Sources
    <3>3. safe' \in [Coins -> Nat]
      BY <2>1, <3>1, ProjectedTyped
    <3>4. WorldTyped'
      BY <2>1, <3>1, <3>2, <3>3 DEF WorldTyped
    <3>5. shown'.granted \in {granted, shown.granted}
      BY <3>1
    <3> QED
      BY <1>1, <2>1, <3>1, <3>4, <3>5, OnwardsInv
  <2> QED
    BY <2>2, <2>3
<1> QED
  BY <1>2, <1>3

LEMMA SellStep ==
    ASSUME ActionInv, BuildExitSwap \/ \E got \in {Floor(safe.src), safe.src} : LandExitSwap(got)
    PROVE  ActionInv'
<1>1. job.todo # <<>> /\ job.todo # <<"mint", "stake">>
  <2>1. \E ph \in {"build", "sent"} : At("sell", ph)
    BY DEF BuildExitSwap, LandExitSwap
  <2>2. "sell" \in Stages \ {"mint"}
    BY DEF Stages
  <2> QED
    BY <2>1, <2>2, AtOther
<1>2. CASE BuildExitSwap
  <2>1. Reads /\ UNCHANGED lagged /\ (Sent \/ Refused)
    BY <1>2 DEF BuildExitSwap
  <2>2. WorldTyped'
    BY <2>1, ReadsTyped DEF ActionInv, ActionTyped, WorldTyped
  <2>3. Sent => ActionInv'
    BY <1>1, <2>1, SentInv DEF Sent
  <2> QED
    BY <2>1, <2>2, <2>3, RefusedInv
<1>3. ASSUME NEW got \in {Floor(safe.src), safe.src}, LandExitSwap(got) PROVE ActionInv'
  <2>1. WorldTyped
    BY DEF ActionInv, ActionTyped
  <2>2. safe.src \in Nat /\ safe.usdc \in Nat
    BY <2>1 DEF WorldTyped, Coins
  <2>3. got \in Nat
    BY <2>2, FloorIsNat
  <2>4. /\ safe' = [safe EXCEPT !.usdc = @ + got, !.src = 0] /\ Onwards
        /\ shown' = [safe |-> safe, granted |-> granted]
        /\ UNCHANGED <<granted, source, others, mix, moves, lagged>>
    BY <1>3 DEF LandExitSwap, Landed
  <2>5. safe' \in [Coins -> Nat]
    <3>1. safe' = [safe EXCEPT !.usdc = safe.usdc + got, !.src = 0] /\ safe \in [Coins -> Nat]
      BY <2>1, <2>4 DEF WorldTyped
    <3>2. safe.usdc + got \in Nat
      BY <2>2, <2>3
    <3> QED
      BY <3>1, <3>2 DEF Coins
  <2>6. WorldTyped'
    BY <2>1, <2>4, <2>5 DEF WorldTyped
  <2>7. shown'.granted \in {granted, shown.granted}
    BY <2>4
  <2> QED
    BY <1>1, <2>4, <2>6, <2>7, OnwardsInv
<1> QED
  BY <1>2, <1>3

LEMMA ClosingStep ==
    ASSUME ActionInv, Collect \/ Stake \/ DeliveryFails \/ GatesClose
    PROVE  ActionInv'
<1>1. WorldTyped
  BY DEF ActionInv, ActionTyped
<1>2. Refused \/ Failed \/ Ends("done")
  BY DEF Collect, Stake, DeliveryFails, GatesClose
<1>3. CASE Collect
  <2>1. source' = [source EXCEPT !.earned = 0] \/ UNCHANGED source
    BY <1>3 DEF Collect
  <2>2. source' \in Sources
    BY <1>1, <2>1 DEF WorldTyped, Sources
  <2>3. WorldTyped'
    BY <1>1, <1>3, <2>2 DEF WorldTyped, Collect
  <2> QED
    BY <1>2, <2>3, RefusedInv
<1>4. CASE Stake
  <2>1. source' = [source EXCEPT !.at = "gauge", !.young = TRUE] \/ UNCHANGED source
    BY <1>4 DEF Stake
  <2>2. source' \in Sources
    BY <1>1, <2>1 DEF WorldTyped, Sources
  <2>3. lagged' \in BOOLEAN
    BY <1>1, <1>4 DEF Stake, WorldTyped
  <2>4. WorldTyped'
    BY <1>1, <1>4, <2>2, <2>3 DEF WorldTyped, Stake
  <2> QED
    BY <1>2, <2>4, RefusedInv
<1>5. CASE DeliveryFails
  <2>1. WorldTyped'
    BY <1>1, <1>5, ReadsTyped DEF DeliveryFails, WorldTyped
  <2> QED
    BY <1>2, <2>1, RefusedInv
<1>6. CASE GatesClose
  <2>1. moves <= MaxMoves /\ moves \in Nat /\ moves' = moves + 1
    BY <1>1, <1>6, UnderWay DEF GatesClose, WorldTyped
  <2>2. moves' \in Nat /\ moves' <= MaxMoves + 1
    BY <2>1, ActionBounds
  <2>3. WorldTyped'
    BY <1>1, <1>6, <2>2 DEF WorldTyped, GatesClose
  <2> QED
    BY <1>2, <2>3, RefusedInv
<1> QED
  BY <1>3, <1>4, <1>5, <1>6

LEMMA AccrueStep ==
    ASSUME ActionInv, Accrue
    PROVE  ActionInv'
<1>1. /\ source' = [source EXCEPT !.earned = 1]
      /\ UNCHANGED <<safe, granted, shown, others, mix, job, moves, lagged, verdict>>
  BY DEF Accrue
<1>2. source' \in Sources
  BY <1>1 DEF ActionInv, ActionTyped, WorldTyped, Sources
<1>3. ActionTyped'
  BY <1>1, <1>2 DEF ActionInv, ActionTyped, WorldTyped
<1>4. Ordered' /\ Ungranted'
  BY <1>1 DEF ActionInv, Ordered, Ungranted, Minting
<1>5. Payable' /\ Looping'
  BY <1>1 DEF ActionInv, Payable, Looping, Minting, Covered, Target, Holds
<1>6. LoopSettles'
  BY <1>1 DEF ActionInv, LoopSettles
<1> QED
  BY <1>3, <1>4, <1>5, <1>6 DEF ActionInv

-----------------------------------------------------------------------------
(* The mint up to its approvals.                                           *)

(* The mint's stage.                                                       *)
LEMMA AtMint ==
    ASSUME ActionInv, NEW phase, At("mint", phase)
    PROVE  /\ job.todo = <<"mint", "stake">> /\ job.todo # <<>> /\ job.phase = phase
           /\ verdict = "none" /\ moves <= MaxMoves /\ moves \in Nat
           /\ WorldTyped /\ job \in Jobs
<1>1. job \in Jobs /\ WorldTyped /\ moves \in Nat
  BY DEF ActionInv, ActionTyped, WorldTyped
<1>2. job.todo \in Lists /\ job.todo # <<>> /\ Head(job.todo) = "mint" /\ job.phase = phase
  BY <1>1, JobFields DEF At
<1>3. job.todo = <<"mint", "stake">>
  BY <1>2, StageLists
<1> QED
  BY <1>1, <1>2, <1>3, UnderWay

(* Before the approvals the mint goes on with what it was not granted.     *)
LEMMA BeforeInv ==
    ASSUME ActionInv, WorldTyped', job' \in Jobs, job.todo = <<"mint", "stake">>,
           ~(job.phase \in {"final", "estimate", "sent"}),
           job'.todo = job.todo, job'.round = job.round, job'.floor = job.floor,
           job'.phase \in {"swap", "rebuild", "approve"},
           granted' = granted, shown'.granted \in {granted, shown.granted}, moves' = moves,
           verdict' = "none", Payable', Looping'
    PROVE  ActionInv'
<1>1. verdict = "none" /\ moves <= MaxMoves
  BY UnderWay, StageLists
<1>2. ActionTyped' /\ Ordered' /\ LoopSettles'
  BY <1>1 DEF ActionTyped, Verdicts, Ordered, LoopSettles
<1>3. job.round = 0 /\ \A s \in Legs : job.floor[s] = 0 /\ granted[s] = 0 /\ shown.granted[s] = 0
  BY <1>1, StageLists DEF ActionInv, Ungranted, Minting
<1>4. \A s \in Legs : shown'.granted[s] = 0
  BY <1>3
<1>5. Ungranted'
  BY <1>3, <1>4 DEF Ungranted
<1> QED
  BY <1>2, <1>5 DEF ActionInv

LEMMA FirstStep ==
    ASSUME ActionInv, BuildFirst
    PROVE  ActionInv'
<1> DEFINE inv == Holds(Target, safe)
           p == Plan(job.budget, mix.target, inv)
           ph == IF p.swap.gives = "none" THEN "approve" ELSE "swap"
<1>1. At("mint", "build") /\ Reads /\ UNCHANGED lagged
  BY DEF BuildFirst
<1>2. /\ job.todo = <<"mint", "stake">> /\ job.phase = "build" /\ WorldTyped /\ job \in Jobs
  BY <1>1, AtMint
<1>3. WorldTyped'
  BY <1>1, <1>2, ReadsTyped DEF WorldTyped
<1>4. CASE Refused
  BY <1>3, <1>4, RefusedInv
<1>5. CASE ~Refused
  <2>1. /\ Buildable(job.budget, mix.target, inv) /\ verdict' = "none"
        /\ job' = [job EXCEPT !.plan = p, !.phase = ph]
    BY <1>5 DEF BuildFirst
  <2>2. job.budget \in Nat /\ mix.target \in 0..Parts /\ inv \in [usdc : Nat, stock : Nat]
    BY <1>2, JobFields, Amounted
  <2>3. p \in Plans
    BY <2>2, PlanFacts
  <2>4. ph \in StepPhases /\ ph \in {"approve", "swap"}
    BY DEF StepPhases
  <2>5. /\ job' \in Jobs /\ job'.todo = job.todo /\ job'.round = job.round /\ job'.floor = job.floor
        /\ job'.phase = ph /\ job'.plan = p /\ job'.kind = job.kind
    <3> HIDE DEF p, ph
    <3> QED
      BY <1>2, <2>1, <2>3, <2>4 DEF Jobs, StepPhases
  <2>6. p.budget = job.budget /\ p.mix = mix.target /\ p.want = Sides(p.budget, p.mix)
        /\ p.swap = Swap(p.want, inv)
    BY DEF Plan
  <2>7. /\ p.want.stock # 0 /\ p.want.usdc # 0
        /\ p.swap.gives # "none" => ~(Leg(p.want, p.swap.gives) + p.swap.amount > Leg(inv, p.swap.gives))
    <3>1. Broken(job.budget, mix.target, Existing, inv) = {}
      BY <2>1 DEF Buildable
    <3> HIDE DEF inv
    <3> QED
      BY <2>6, <3>1, Unbroken
  <2>8. Target' = Target /\ safe' = safe /\ mix' = mix /\ granted' = granted /\ shown' = shown /\ moves' = moves
    BY <1>1, <2>5 DEF Target, Reads
  <2>9. Payable'
    <3> SUFFICES ASSUME ph = "swap"
                 PROVE  /\ job'.plan.swap.gives # "none"
                        /\ job'.plan.swap.amount <= Leg(Holds(Target', safe'), job'.plan.swap.gives)
      BY <2>4, <2>5 DEF Payable, Minting
    <3>1. p.swap.gives # "none"
      OBVIOUS
    <3>2. p.swap.amount \in Nat /\ Leg(p.want, p.swap.gives) \in Nat /\ Leg(inv, p.swap.gives) \in Nat
      <4> HIDE DEF p, inv
      <4> QED
        BY <2>2, <2>3, <3>1 DEF Plans, Leg
    <3> HIDE DEF p, inv, ph
    <3>3. p.swap.amount <= Leg(inv, p.swap.gives)
      BY <2>7, <3>1, <3>2
    <3>4. Holds(Target', safe') = inv
      BY <2>8 DEF inv
    <3> QED
      BY <2>5, <3>1, <3>3, <3>4
  <2>10. Looping'
    <3> HIDE DEF p, ph
    <3>1. Minting({"approve"})' =>
           /\ job'.plan.want = Sides(job'.plan.budget, job'.plan.mix)
           /\ job'.plan.want.stock # 0 /\ job'.plan.want.usdc # 0
           /\ job'.plan.mix = mix'.target
      BY <2>5, <2>6, <2>7, <2>8
    <3>2. ~Minting({"final", "estimate"})' /\ ~Minting({"final"})' /\ ~Minting({"estimate"})'
      BY <2>4, <2>5 DEF Minting
    <3> QED
      BY <3>1, <3>2 DEF Looping
  <2> HIDE DEF p, ph
  <2>11. shown'.granted \in {granted, shown.granted}
    BY <2>8
  <2>12. ~(job.phase \in {"final", "estimate", "sent"}) /\ job'.phase \in {"swap", "rebuild", "approve"}
    BY <1>2, <2>4, <2>5
  <2> QED
    BY <1>2, <1>3, <2>1, <2>5, <2>8, <2>9, <2>10, <2>11, <2>12, BeforeInv
<1> QED
  BY <1>4, <1>5

LEMMA BalancingStep ==
    ASSUME ActionInv, NEW got \in {Floor(job.plan.swap.amount), job.plan.swap.amount}, LandBalancing(got)
    PROVE  ActionInv'
<1> DEFINE s == job.plan.swap
           t == Target
<1>1. At("mint", "swap") /\ UNCHANGED <<granted, source, others, mix, moves, lagged>>
      /\ shown' = [safe |-> safe, granted |-> granted]
      /\ job' = [job EXCEPT !.phase = "rebuild"] /\ verdict' = "none"
  BY DEF LandBalancing, Landed
<1>2. job.todo = <<"mint", "stake">> /\ job.phase = "swap" /\ WorldTyped /\ job \in Jobs
  BY <1>1, AtMint
<1>3. s.amount \in Nat /\ s.gives \in {"none", "usdc", "stock"} /\ t \in {"src", "dst"}
  BY <1>2, JobFields, Amounted DEF Plans
<1>4. got \in Nat
  BY <1>3, FloorIsNat
<1>5. s.gives # "none" /\ s.amount <= Leg(Holds(t, safe), s.gives)
  BY <1>2 DEF ActionInv, Payable, Minting
<1>6. safe \in [Coins -> Nat]
  BY <1>2 DEF WorldTyped
<1>7. safe' \in [Coins -> Nat]
  <2>1. safe' = IF s.gives = "usdc"
                THEN [safe EXCEPT !.usdc = @ - s.amount, ![t] = @ + got]
                ELSE [safe EXCEPT !.usdc = @ + got, ![t] = @ - s.amount]
    BY DEF LandBalancing
  <2> HIDE DEF s, t
  <2>2. CASE s.gives = "usdc"
    <3>1. s.amount <= safe.usdc
      BY <1>5, <2>2 DEF Leg, Holds
    <3>2. safe.usdc - s.amount \in Nat /\ safe[t] + got \in Nat
      BY <1>3, <1>4, <1>6, <3>1 DEF Coins
    <3>3. safe' = [safe EXCEPT !.usdc = safe.usdc - s.amount, ![t] = safe[t] + got]
      BY <1>3, <2>1, <2>2
    <3> QED
      BY <1>3, <1>6, <3>2, <3>3 DEF Coins
  <2>3. CASE s.gives = "stock"
    <3>1. s.amount <= safe[t]
      BY <1>5, <2>3 DEF Leg, Holds
    <3>2. safe.usdc + got \in Nat /\ safe[t] - s.amount \in Nat
      BY <1>3, <1>4, <1>6, <3>1 DEF Coins
    <3>3. safe' = [safe EXCEPT !.usdc = safe.usdc + got, ![t] = safe[t] - s.amount]
      BY <1>3, <2>1, <2>3
    <3> QED
      BY <1>3, <1>6, <3>2, <3>3 DEF Coins
  <2> QED
    BY <1>3, <1>5, <2>2, <2>3
<1>8. WorldTyped'
  BY <1>1, <1>2, <1>7 DEF WorldTyped
<1>9. /\ job' \in Jobs /\ job'.todo = job.todo /\ job'.round = job.round /\ job'.floor = job.floor
      /\ job'.phase = "rebuild"
  BY <1>1, <1>2 DEF Jobs
<1>10. Payable' /\ Looping'
  BY <1>9 DEF Payable, Looping, Minting
<1>11. shown'.granted \in {granted, shown.granted}
  BY <1>1
<1>12. ~(job.phase \in {"final", "estimate", "sent"}) /\ job'.phase \in {"swap", "rebuild", "approve"}
  BY <1>2, <1>9
<1> QED
  BY <1>1, <1>2, <1>8, <1>9, <1>10, <1>11, <1>12, BeforeInv

LEMMA AnswersTyped ==
    ASSUME WorldTyped, NEW a \in Answers
    PROVE  /\ a.safe \in [Coins -> Nat] /\ a.granted \in [Legs -> Nat]
           /\ a.safe \in {safe, shown.safe} /\ a.granted \in {granted, shown.granted}
           /\ Holds(Target, a.safe) \in [usdc : Nat, stock : Nat]
<1>1. a = [safe |-> safe, granted |-> granted] \/ a = shown
  BY DEF Answers
<1>2. /\ a.safe \in [Coins -> Nat] /\ a.granted \in [Legs -> Nat]
      /\ a.safe \in {safe, shown.safe} /\ a.granted \in {granted, shown.granted}
  BY <1>1 DEF WorldTyped
<1>3. Holds(Target, a.safe) \in [usdc : Nat, stock : Nat]
  BY <1>2, Amounted DEF Holds, Coins
<1> QED
  BY <1>2, <1>3

LEMMA RebuildStep ==
    ASSUME ActionInv, RebuildAfterSwap
    PROVE  ActionInv'
<1>1. At("mint", "rebuild") /\ Reads
  BY DEF RebuildAfterSwap
<1>2. job.todo = <<"mint", "stake">> /\ job.phase = "rebuild" /\ WorldTyped /\ job \in Jobs
  BY <1>1, AtMint
<1>3. PICK a \in Answers : FromInventory(job.budget, a, "approve")
  BY DEF RebuildAfterSwap
<1> DEFINE inv == Holds(Target, a.safe)
           c == Resized(job.budget, mix.target, inv)
           p == Plan(c, mix.target, inv)
<1>4. Heard(a) /\ (\/ Refused
                   \/ /\ Buildable(c, mix.target, inv) /\ verdict' = "none"
                      /\ job' = [job EXCEPT !.plan = p, !.phase = "approve"])
  BY <1>3 DEF FromInventory
<1>5. lagged' \in BOOLEAN
  BY <1>2, <1>4 DEF Heard, WorldTyped
<1>6. WorldTyped'
  BY <1>1, <1>2, <1>5, ReadsTyped
<1>7. CASE Refused
  BY <1>6, <1>7, RefusedInv
<1>8. CASE Buildable(c, mix.target, inv) /\ verdict' = "none"
           /\ job' = [job EXCEPT !.plan = p, !.phase = "approve"]
  <2>1. job.budget \in Nat /\ mix.target \in 0..Parts /\ inv \in [usdc : Nat, stock : Nat]
    BY <1>2, JobFields, Amounted, AnswersTyped
  <2>2. c \in Nat
    BY <2>1, ResizedFacts
  <2>3. p \in Plans
    BY <2>1, <2>2, PlanFacts
  <2>4. p.budget = c /\ p.mix = mix.target /\ p.want = Sides(p.budget, p.mix)
    BY DEF Plan
  <2>5. p.want.stock # 0 /\ p.want.usdc # 0
    <3>1. Broken(c, mix.target, Existing, inv) = {}
      BY <1>8 DEF Buildable
    <3> HIDE DEF inv, c
    <3> QED
      BY <2>4, <3>1, Unbroken
  <2> HIDE DEF p, c, inv
  <2>6. /\ job' \in Jobs /\ job'.todo = job.todo /\ job'.round = job.round /\ job'.floor = job.floor
        /\ job'.phase = "approve" /\ job'.plan = p
    BY <1>2, <1>8, <2>3 DEF Jobs
  <2>7. safe' = safe /\ mix' = mix /\ granted' = granted /\ shown' = shown /\ moves' = moves
    BY <1>1 DEF Reads
  <2>8. Payable' /\ Looping'
    BY <2>4, <2>5, <2>6, <2>7 DEF Payable, Looping, Minting
  <2>9. shown'.granted \in {granted, shown.granted}
    BY <2>7
  <2>10. ~(job.phase \in {"final", "estimate", "sent"}) /\ job'.phase \in {"swap", "rebuild", "approve"}
    BY <1>2, <2>6
  <2> QED
    BY <1>2, <1>6, <1>8, <2>6, <2>7, <2>8, <2>9, <2>10, BeforeInv
<1> QED
  BY <1>4, <1>7, <1>8

-----------------------------------------------------------------------------
(* The approvals and the loop behind them.                                 *)

(* The bound of an approval: at least what it is for, and monotone.        *)
LEMMA BufferFacts ==
    ASSUME NEW x \in Nat
    PROVE  Buffered(x) \in Nat /\ x <= Buffered(x) /\ \A y \in Nat : x <= y => Buffered(x) <= Buffered(y)
BY RoundedUp DEF Buffered

(* A price that has not moved asks for no more than was granted.           *)
LEMMA SamePriceCovered ==
    ASSUME NEW b \in Nat, NEW m \in 0..Parts, NEW inv \in [usdc : Nat, stock : Nat], NEW s \in Legs
    PROVE  Buffered(Leg(Sides(Resized(b, m, inv), m), s)) <= Buffered(Leg(Sides(b, m), s))
<1> DEFINE c == Resized(b, m, inv)
<1>1. c \in Nat /\ c <= b
  BY ResizedFacts
<1> HIDE DEF c
<1>2. /\ Sides(b, m) \in Amounts /\ Sides(c, m) \in Amounts
      /\ Sides(c, m).stock <= Sides(b, m).stock /\ Sides(c, m).usdc <= Sides(b, m).usdc
  BY <1>1, SidesFacts
<1>3. Leg(Sides(c, m), s) \in Nat /\ Leg(Sides(b, m), s) \in Nat
      /\ Leg(Sides(c, m), s) <= Leg(Sides(b, m), s)
  BY <1>2 DEF Leg, Amounts
<1>4. Buffered(Leg(Sides(c, m), s)) <= Buffered(Leg(Sides(b, m), s))
  BY <1>3, BufferFacts
<1> QED
  BY <1>4 DEF c

(* In the loop, from final to final or to the estimate.                    *)
LEMMA InLoop ==
    ASSUME ActionInv, WorldTyped', job' \in Jobs, job.todo = <<"mint", "stake">>, job'.todo = job.todo,
           job'.phase \in {"final", "estimate", "sent"}, verdict' = "none", moves' <= MaxMoves,
           Payable', Looping'
    PROVE  ActionInv'
<1>1. ActionTyped' /\ Ordered' /\ LoopSettles'
  BY DEF ActionTyped, Verdicts, Ordered, LoopSettles
<1>2. Ungranted'
  BY DEF Ungranted, Minting
<1> QED
  BY <1>1, <1>2 DEF ActionInv

LEMMA ApproveStep ==
    ASSUME ActionInv, Approve
    PROVE  ActionInv'
<1>1. At("mint", "approve") /\ UNCHANGED <<safe, source, others, mix, moves, verdict>>
  BY DEF Approve
<1>2. /\ job.todo = <<"mint", "stake">> /\ job.phase = "approve" /\ WorldTyped /\ job \in Jobs
      /\ verdict = "none" /\ moves <= MaxMoves /\ moves \in Nat
  BY <1>1, AtMint
<1>3. job.round = 0 /\ \A s \in Legs : job.floor[s] = 0 /\ granted[s] = 0 /\ shown.granted[s] = 0
  BY <1>2, StageLists DEF ActionInv, Ungranted, Minting
<1>4. /\ job.plan.want = Sides(job.plan.budget, job.plan.mix)
      /\ job.plan.want.stock # 0 /\ job.plan.want.usdc # 0
      /\ moves = 0 => job.plan.mix = mix.target
  BY <1>2 DEF ActionInv, Looping, Minting
<1>5. job.plan.want \in Amounts /\ job.plan.budget \in Nat /\ job.plan.mix \in Nat
  BY <1>2, JobFields DEF Plans, Amounts
<1> DEFINE set == [s \in Legs |-> Buffered(Leg(job.plan.want, s))]
<1>6. \A s \in Legs : Leg(job.plan.want, s) \in Nat \ {0}
  BY <1>4, <1>5 DEF Leg, Amounts
<1>7. set \in [Legs -> Nat] /\ \A s \in Legs : set[s] > 0
  BY <1>6, BufferFacts
<1>8. PICK a \in Answers :
          LET need == Approvals(job.plan, Confirmed(a))
              put == [s \in need |-> Buffered(Leg(job.plan.want, s))]
          IN  /\ Heard(a)
              /\ granted' = [s \in {"usdc", "stock"} |-> IF s \in need THEN put[s] ELSE granted[s]]
              /\ job' = [job EXCEPT !.phase = "final",
                                    !.floor = [s \in {"usdc", "stock"} |->
                                        IF s \in need THEN put[s] ELSE @[s]]]
              /\ IF need = {} THEN UNCHANGED shown ELSE Landed
  BY DEF Approve
<1> DEFINE need == Approvals(job.plan, Confirmed(a))
<1>9. need = Legs
  <2>1. \A s \in Legs : a.granted[s] = 0
    BY <1>2, <1>3, AnswersTyped
  <2>2. \A s \in Legs : Confirmed(a)[s] = 0
    BY <1>3, <2>1 DEF Confirmed, Legs
  <2>3. \A s \in Legs : Confirmed(a)[s] < Buffered(Leg(job.plan.want, s))
    BY <1>7, <2>2
  <2> QED
    BY <2>3 DEF Approvals, Legs
<1>10. granted' = set
  BY <1>8, <1>9 DEF Legs
<1>11. job' = [job EXCEPT !.phase = "final", !.floor = set]
  BY <1>8, <1>9 DEF Legs
<1>12. shown' = [safe |-> safe, granted |-> granted] /\ lagged' \in BOOLEAN
  BY <1>2, <1>8, <1>9 DEF Landed, Heard, WorldTyped, Legs
<1> HIDE DEF set, need
<1>13. WorldTyped'
  BY <1>1, <1>2, <1>7, <1>10, <1>12 DEF WorldTyped
<1>14. /\ job' \in Jobs /\ job'.todo = job.todo /\ job'.phase = "final" /\ job'.floor = set
       /\ job'.round = 0 /\ job'.plan = job.plan /\ job'.kind = job.kind
  BY <1>2, <1>3, <1>7, <1>11 DEF Jobs
<1>15. Target' = Target
  BY <1>14 DEF Target
<1>16. Payable'
  BY <1>14 DEF Payable, Minting
<1>17. ASSUME moves = 0 PROVE Covered'
  <2>1. job.plan.mix = mix.target /\ mix.target \in 0..Parts
        /\ Holds(Target, safe) \in [usdc : Nat, stock : Nat]
    BY <1>2, <1>4, <1>17, Amounted
  <2>2. \A s \in Legs :
            Buffered(Leg(Sides(Resized(job.plan.budget, mix.target, Holds(Target, safe)), mix.target), s))
                <= Buffered(Leg(Sides(job.plan.budget, mix.target), s))
    BY <1>5, <2>1, SamePriceCovered
  <2>3. \A s \in Legs : Buffered(Leg(Sides(job.plan.budget, mix.target), s)) = set[s]
    BY <1>4, <2>1 DEF set
  <2>4. \A s \in Legs :
            Buffered(Leg(Sides(Resized(job.plan.budget, mix.target, Holds(Target, safe)), mix.target), s))
                <= set[s]
    BY <2>2, <2>3
  <2> QED
    BY <1>1, <1>14, <1>15, <2>4 DEF Covered
<1>18. Looping'
  <2>1. shown'.safe = safe' /\ \A s \in Legs : granted'[s] = job'.floor[s] /\ shown'.granted[s] <= job'.floor[s]
    BY <1>1, <1>3, <1>7, <1>10, <1>12, <1>14
  <2>2. job'.round <= 2 * moves' /\ (Covered' \/ job'.round < 2 * moves')
    BY <1>1, <1>2, <1>14, <1>17
  <2>3. ~Minting({"approve"})' /\ ~Minting({"estimate"})'
    BY <1>14 DEF Minting
  <2> QED
    BY <2>1, <2>2, <2>3 DEF Looping
<1> QED
  BY <1>1, <1>2, <1>13, <1>14, <1>16, <1>18, InLoop

LEMMA FinalStep ==
    ASSUME ActionInv, FinalRound
    PROVE  ActionInv'
<1>1. At("mint", "final") /\ UNCHANGED <<safe, source, others, mix, moves>>
  BY DEF FinalRound
<1>2. /\ job.todo = <<"mint", "stake">> /\ job.phase = "final" /\ WorldTyped /\ job \in Jobs
      /\ verdict = "none" /\ moves <= MaxMoves /\ moves \in Nat
  BY <1>1, AtMint
<1>3. /\ shown.safe = safe
      /\ \A s \in Legs : granted[s] = job.floor[s] /\ shown.granted[s] <= job.floor[s]
      /\ job.round <= 2 * moves /\ (Covered \/ job.round < 2 * moves)
  BY <1>2 DEF ActionInv, Looping, Minting
<1>4. CASE job.round = Rounds
  <2>1. Ends("exhausted") /\ UNCHANGED <<granted, shown, lagged>>
    BY <1>4 DEF FinalRound
  <2>2. WorldTyped'
    BY <1>1, <1>2, <2>1 DEF WorldTyped
  <2>3. 2 * moves' >= Rounds
    BY <1>1, <1>2, <1>3, <1>4, ActionBounds
  <2> QED
    BY <2>1, <2>2, <2>3, EndsInv DEF Ends, Verdicts
<1>5. CASE job.round # Rounds
  <2>1. PICK a \in Answers :
            LET inv == Holds(Target, a.safe)
                c == Resized(job.plan.budget, mix.target, inv)
                p == Plan(c, mix.target, inv)
                need == Approvals(p, Confirmed(a))
                set == [s \in need |-> Buffered(Leg(p.want, s))]
                spent == [job EXCEPT !.round = @ + 1]
            IN  /\ Heard(a)
                /\ IF \/ ~Buildable(job.plan.budget, mix.target, inv)
                      \/ ~Buildable(c, mix.target, inv) \/ p.swap.gives # "none"
                   THEN Refused /\ UNCHANGED <<granted, shown>>
                   ELSE IF need = {}
                   THEN /\ job' = [spent EXCEPT !.plan.want = p.want, !.plan.mix = p.mix,
                                                !.phase = "estimate"]
                        /\ UNCHANGED <<granted, shown, verdict>>
                   ELSE /\ granted' = [s \in {"usdc", "stock"} |->
                                          IF s \in need THEN set[s] ELSE granted[s]]
                        /\ job' = [spent EXCEPT !.floor = [s \in {"usdc", "stock"} |->
                                          IF s \in need THEN set[s] ELSE @[s]]]
                        /\ Landed /\ UNCHANGED verdict
    BY <1>5 DEF FinalRound
  <2> DEFINE inv == Holds(Target, a.safe)
             c == Resized(job.plan.budget, mix.target, inv)
             p == Plan(c, mix.target, inv)
             need == Approvals(p, Confirmed(a))
             spent == [job EXCEPT !.round = @ + 1]
             floors == [s \in Legs |-> IF s \in need THEN Buffered(Leg(p.want, s)) ELSE job.floor[s]]
             grants == [s \in Legs |-> IF s \in need THEN Buffered(Leg(p.want, s)) ELSE granted[s]]
  <2>2. lagged' \in BOOLEAN
    BY <1>2, <2>1 DEF Heard, WorldTyped
  <2>3. \/ Refused /\ UNCHANGED <<granted, shown>>
        \/ /\ need = {} /\ UNCHANGED <<granted, shown, verdict>>
           /\ job' = [spent EXCEPT !.plan.want = p.want, !.plan.mix = p.mix, !.phase = "estimate"]
        \/ /\ need # {} /\ granted' = grants /\ job' = [spent EXCEPT !.floor = floors]
           /\ shown' = [safe |-> safe, granted |-> granted] /\ UNCHANGED verdict
    <3>1. ASSUME need # {} , granted' = [s \in {"usdc", "stock"} |->
                  IF s \in need THEN [t \in need |-> Buffered(Leg(p.want, t))][s] ELSE granted[s]]
          PROVE  granted' = grants
      BY <3>1 DEF Legs
    <3>2. ASSUME job' = [spent EXCEPT !.floor = [s \in {"usdc", "stock"} |->
                  IF s \in need THEN [t \in need |-> Buffered(Leg(p.want, t))][s] ELSE @[s]]]
          PROVE  job' = [spent EXCEPT !.floor = floors]
      <4>1. spent.floor = job.floor
        BY <1>2 DEF Jobs
      <4> QED
        BY <3>2, <4>1 DEF Legs
    <3> QED
      BY <2>1, <3>1, <3>2 DEF Landed
  <2>4. a.safe = safe /\ inv = Holds(Target, safe)
    BY <1>2, <1>3, AnswersTyped
  <2>5. job.plan.budget \in Nat /\ mix.target \in 0..Parts /\ inv \in [usdc : Nat, stock : Nat]
        /\ job.floor \in [Legs -> Nat] /\ granted \in [Legs -> Nat] /\ job.round \in Nat
        /\ job.round + 1 \in 0..Rounds
    BY <1>2, <1>5, JobFields, Amounted, AnswersTyped, ActionBounds DEF Plans, WorldTyped
  <2>6. c \in Nat
    BY <2>5, ResizedFacts
  <2>7. p \in Plans /\ p.want = Sides(c, mix.target) /\ p.mix = mix.target
    BY <2>5, <2>6, PlanFacts DEF Plan
  <2>8. p.want \in Amounts /\ \A s \in Legs : Buffered(Leg(p.want, s)) \in Nat
    <3>1. p.want \in Amounts
      BY <2>5, <2>6, <2>7, SidesFacts
    <3> QED
      BY <3>1, LegFacts, BufferFacts
  <2>9. \A s \in Legs : Confirmed(a)[s] = job.floor[s]
    <3> SUFFICES ASSUME NEW s \in Legs PROVE Confirmed(a)[s] = job.floor[s]
      OBVIOUS
    <3>1. a.granted[s] \in Nat /\ job.floor[s] \in Nat /\ a.granted[s] <= job.floor[s]
      BY <1>2, <1>3, <2>5, AnswersTyped
    <3>2. Confirmed(a)[s] = IF a.granted[s] > job.floor[s] THEN a.granted[s] ELSE job.floor[s]
      BY DEF Confirmed, Legs
    <3> QED
      BY <3>1, <3>2
  <2>10. need = {s \in Legs : job.floor[s] < Buffered(Leg(p.want, s))}
    BY <2>9 DEF Approvals, Legs
  <2>11. Covered <=> need = {}
    <3>1. Covered <=> \A s \in Legs : Buffered(Leg(p.want, s)) <= job.floor[s]
      BY <2>4, <2>7 DEF Covered
    <3>2. \A s \in Legs : job.floor[s] \in Nat /\ Buffered(Leg(p.want, s)) \in Nat
      BY <2>5, <2>8
    <3> HIDE DEF need, p
    <3> QED
      BY <2>10, <3>1, <3>2
  <2>12. CASE Refused /\ UNCHANGED <<granted, shown>>
    <3>1. WorldTyped'
      BY <1>1, <1>2, <2>2, <2>12 DEF WorldTyped
    <3> QED
      BY <2>12, <3>1, RefusedInv
  <2>13. CASE /\ need = {} /\ UNCHANGED <<granted, shown, verdict>>
              /\ job' = [spent EXCEPT !.plan.want = p.want, !.plan.mix = p.mix, !.phase = "estimate"]
    <3>1. WorldTyped'
      BY <1>1, <1>2, <2>2, <2>13 DEF WorldTyped
    <3>2. job.plan \in Plans
      BY <1>2, JobFields
    <3> DEFINE q == [job.plan EXCEPT !.want = p.want, !.mix = p.mix]
    <3>3. q \in Plans /\ q.mix = p.mix /\ q.want = p.want /\ q.budget = job.plan.budget
      BY <2>7, <3>2 DEF Plans
    <3>4. job' = [job EXCEPT !.round = job.round + 1, !.plan = q, !.phase = "estimate"]
      BY <1>2, <2>13 DEF Jobs
    <3> HIDE DEF q, p, need, spent
    <3>5. /\ job' \in Jobs /\ job'.todo = job.todo /\ job'.phase = "estimate" /\ job'.floor = job.floor
          /\ job'.round = job.round + 1 /\ job'.plan = q
      BY <1>2, <2>5, <3>3, <3>4 DEF Jobs
    <3>6. Payable'
      BY <3>5 DEF Payable, Minting
    <3>7. Looping'
      <4>1. shown'.safe = safe' /\ \A s \in Legs : granted'[s] = job'.floor[s] /\ shown'.granted[s] <= job'.floor[s]
        BY <1>1, <1>3, <2>13, <3>5
      <4>2. job'.round <= 2 * moves' + 1 /\ job'.plan.mix = mix'.target
        BY <1>1, <1>2, <1>3, <2>5, <2>7, <3>3, <3>5
      <4>3. ~Minting({"approve"})' /\ ~Minting({"final"})'
        BY <3>5 DEF Minting
      <4>4. \A s \in Legs : Leg(p.want, s) <= granted[s]
        <5> SUFFICES ASSUME NEW s \in Legs PROVE Leg(p.want, s) <= granted[s]
          OBVIOUS
        <5>1. Leg(p.want, s) \in Nat /\ Buffered(Leg(p.want, s)) \in Nat /\ Leg(p.want, s) <= Buffered(Leg(p.want, s))
          BY <2>8, LegFacts, BufferFacts
        <5>2. ~(job.floor[s] < Buffered(Leg(p.want, s))) /\ job.floor[s] \in Nat /\ granted[s] = job.floor[s]
          BY <1>3, <2>5, <2>10, <2>13
        <5> QED
          BY <5>1, <5>2
      <4>5. \A s \in Legs : Leg(job'.plan.want, s) <= granted'[s]
        BY <2>13, <3>3, <3>5, <4>4
      <4> QED
        BY <4>1, <4>2, <4>3, <4>5 DEF Looping
    <3> QED
      BY <1>1, <1>2, <2>13, <3>1, <3>5, <3>6, <3>7, InLoop
  <2>14. CASE /\ need # {} /\ granted' = grants /\ job' = [spent EXCEPT !.floor = floors]
              /\ shown' = [safe |-> safe, granted |-> granted] /\ UNCHANGED verdict
    <3>1. floors \in [Legs -> Nat] /\ grants \in [Legs -> Nat]
      BY <2>5, <2>8
    <3>2. \A s \in Legs : /\ job.floor[s] <= floors[s] /\ grants[s] = floors[s]
                          /\ Buffered(Leg(p.want, s)) <= floors[s]
      <4> SUFFICES ASSUME NEW s \in Legs
                   PROVE  /\ job.floor[s] <= floors[s] /\ grants[s] = floors[s]
                          /\ Buffered(Leg(p.want, s)) <= floors[s]
        OBVIOUS
      <4> DEFINE x == Buffered(Leg(p.want, s))
      <4>1. x \in Nat /\ job.floor[s] \in Nat /\ granted[s] \in Nat /\ granted[s] = job.floor[s]
        BY <1>3, <2>5, <2>8
      <4>2. s \in need <=> job.floor[s] < x
        BY <2>10
      <4>3. /\ floors[s] = (IF s \in need THEN x ELSE job.floor[s])
            /\ grants[s] = (IF s \in need THEN x ELSE granted[s])
        OBVIOUS
      <4> HIDE DEF x, floors, grants, need
      <4>4. CASE s \in need
        BY <4>1, <4>2, <4>3, <4>4 DEF x
      <4>5. CASE s \notin need
        BY <4>1, <4>2, <4>3, <4>5 DEF x
      <4> QED
        BY <4>4, <4>5
    <3> HIDE DEF floors, grants
    <3>3. WorldTyped'
      BY <1>1, <1>2, <2>2, <2>14, <3>1 DEF WorldTyped
    <3>4. /\ job' \in Jobs /\ job'.todo = job.todo /\ job'.phase = "final" /\ job'.floor = floors
          /\ job'.round = job.round + 1 /\ job'.plan = job.plan /\ job'.kind = job.kind
      BY <1>2, <2>5, <2>14, <3>1 DEF Jobs
    <3>5. Target' = Target
      BY <3>4 DEF Target
    <3>6. job.round < 2 * moves
      BY <1>3, <2>11, <2>14
    <3>7. Covered'
      <4>1. \A s \in Legs :
                Buffered(Leg(Sides(Resized(job.plan.budget, mix.target, Holds(Target, safe)), mix.target), s))
                    <= floors[s]
        BY <2>4, <2>7, <3>2
      <4> QED
        BY <1>1, <3>4, <3>5, <4>1 DEF Covered
    <3>8. Payable'
      BY <3>4 DEF Payable, Minting
    <3>9. Looping'
      <4>1. \A s \in Legs : granted'[s] = job'.floor[s] /\ shown'.granted[s] <= job'.floor[s]
        <5> SUFFICES ASSUME NEW s \in Legs
                     PROVE  granted'[s] = job'.floor[s] /\ shown'.granted[s] <= job'.floor[s]
          OBVIOUS
        <5>1. floors[s] \in Nat /\ job.floor[s] \in Nat /\ granted[s] \in Nat
          BY <2>5, <3>1
        <5>2. granted[s] = job.floor[s] /\ job.floor[s] <= floors[s] /\ grants[s] = floors[s]
          BY <1>3, <3>2
        <5> QED
          BY <2>14, <3>4, <5>1, <5>2
      <4>2. shown'.safe = safe'
        BY <1>1, <2>14
      <4>3. job'.round <= 2 * moves'
        BY <1>1, <1>2, <2>5, <3>4, <3>6
      <4>4. ~Minting({"approve"})' /\ ~Minting({"estimate"})'
        BY <3>4 DEF Minting
      <4> QED
        BY <3>7, <4>1, <4>2, <4>3, <4>4 DEF Looping
    <3>10. verdict' = "none" /\ moves' <= MaxMoves
      BY <1>1, <1>2, <2>14
    <3> QED
      BY <1>2, <3>3, <3>4, <3>8, <3>9, <3>10, InLoop
  <2> QED
    BY <2>3, <2>12, <2>13, <2>14
<1> QED
  BY <1>4, <1>5

-----------------------------------------------------------------------------
(* The estimate, the mint, the market.                                     *)

LEMMA EstimateStep ==
    ASSUME ActionInv, EstimateMint
    PROVE  ActionInv'
<1>1. At("mint", "estimate") /\ Reads /\ UNCHANGED lagged
  BY DEF EstimateMint
<1>2. /\ job.todo = <<"mint", "stake">> /\ job.phase = "estimate" /\ WorldTyped /\ job \in Jobs
      /\ verdict = "none" /\ moves <= MaxMoves /\ moves \in Nat
  BY <1>1, AtMint
<1>3. /\ shown.safe = safe
      /\ \A s \in Legs : granted[s] = job.floor[s] /\ shown.granted[s] <= job.floor[s]
      /\ job.round <= 2 * moves + 1 /\ (job.plan.mix = mix.target \/ job.round < 2 * moves)
  BY <1>2 DEF ActionInv, Looping, Minting
<1>4. WorldTyped'
  BY <1>1, <1>2, ReadsTyped DEF WorldTyped
<1>5. CASE Refused
  BY <1>4, <1>5, RefusedInv
<1>6. CASE job.plan.mix # mix.target /\ ~Refused
  <2>1. job.psc < Retries /\ job' = [job EXCEPT !.psc = @ + 1, !.phase = "final"] /\ verdict' = verdict
    BY <1>6 DEF EstimateMint
  <2>2. job.psc + 1 \in 0..Retries
    BY <1>2, <2>1, JobFields, ActionBounds
  <2>3. /\ job' \in Jobs /\ job'.todo = job.todo /\ job'.phase = "final" /\ job'.floor = job.floor
        /\ job'.round = job.round
    BY <1>2, <2>1, <2>2 DEF Jobs
  <2>4. Payable'
    BY <2>3 DEF Payable, Minting
  <2>5. job.round < 2 * moves /\ job.round \in Nat
    BY <1>2, <1>3, <1>6, JobFields, ActionBounds
  <2>6. Looping'
    <3>1. safe' = safe /\ granted' = granted /\ shown' = shown /\ moves' = moves
      BY <1>1 DEF Reads
    <3>2. job'.round <= 2 * moves' /\ job'.round < 2 * moves'
      BY <1>2, <2>3, <2>5, <3>1
    <3>3. ~Minting({"approve"})' /\ ~Minting({"estimate"})'
      BY <2>3 DEF Minting
    <3> QED
      BY <1>3, <2>3, <3>1, <3>2, <3>3 DEF Looping
  <2>7. verdict' = "none" /\ moves' <= MaxMoves
    BY <1>1, <1>2, <2>1 DEF Reads
  <2> QED
    BY <1>2, <1>4, <2>3, <2>4, <2>6, <2>7, InLoop
<1>7. CASE job.plan.mix = mix.target /\ ~Refused
  <2>1. /\ \A s \in Legs : /\ Leg(job.plan.want, s) <= Leg(Holds(Target, safe), s)
                           /\ Leg(job.plan.want, s) <= granted[s]
        /\ job' = [job EXCEPT !.phase = "sent"] /\ verdict' = "none"
    BY <1>7 DEF EstimateMint, Sent, Legs
  <2>2. /\ job' \in Jobs /\ job'.todo = job.todo /\ job'.phase = "sent" /\ job'.plan = job.plan
        /\ job'.kind = job.kind
    BY <1>2, <2>1 DEF Jobs
  <2>3. safe' = safe /\ granted' = granted /\ Target' = Target /\ moves' = moves
    BY <1>1, <2>2 DEF Reads, Target
  <2>4. Payable'
    <3>1. ~Minting({"swap"})'
      BY <2>2 DEF Minting
    <3> QED
      BY <2>1, <2>2, <2>3, <3>1 DEF Payable
  <2>5. Looping'
    BY <2>2 DEF Looping, Minting
  <2>6. moves' <= MaxMoves
    BY <1>2, <2>3
  <2> QED
    BY <1>2, <1>4, <2>1, <2>2, <2>4, <2>5, <2>6, InLoop
<1> QED
  BY <1>5, <1>6, <1>7

LEMMA MintStep ==
    ASSUME ActionInv, LandMint
    PROVE  ActionInv'
<1>1. At("mint", "sent") /\ UNCHANGED <<others, mix, moves, lagged>>
  BY DEF LandMint
<1>2. job.todo = <<"mint", "stake">> /\ job.phase = "sent" /\ WorldTyped /\ job \in Jobs /\ job.todo # <<>>
  BY <1>1, AtMint
<1>3. CASE job.plan.mix # mix.target
  <2>1. Failed /\ UNCHANGED <<safe, granted, source, shown>>
    BY <1>3 DEF LandMint
  <2>2. WorldTyped'
    BY <1>1, <1>2, <2>1 DEF WorldTyped
  <2> QED
    BY <2>1, <2>2, RefusedInv
<1>4. CASE job.plan.mix = mix.target
  <2> DEFINE w == job.plan.want
             t == Target
  <2>1. \A s \in Legs : Leg(w, s) <= Leg(Holds(t, safe), s) /\ Leg(w, s) <= granted[s]
    BY <1>2 DEF ActionInv, Payable, Minting
  <2>2. w \in Amounts /\ t \in {"src", "dst"}
    BY <1>2, JobFields, Amounted DEF Plans, Amounts
  <2>3. /\ safe' = [safe EXCEPT !.usdc = @ - w.usdc, ![t] = @ - w.stock]
        /\ granted' = [s \in {"usdc", "stock"} |-> granted[s] - Leg(w, s)]
        /\ source' = [source EXCEPT !.at = "safe", !.earned = 0, !.worth = w.usdc + w.stock]
        /\ Onwards /\ shown' = [safe |-> safe, granted |-> granted]
    BY <1>4 DEF LandMint, Landed
  <2> HIDE DEF w, t
  <2>4. w.usdc \in Nat /\ w.stock \in Nat /\ safe \in [Coins -> Nat] /\ granted \in [Legs -> Nat]
    BY <1>2, <2>2 DEF Amounts, WorldTyped
  <2>5. w.usdc <= safe.usdc /\ w.stock <= safe[t]
    <3>1. "usdc" \in Legs /\ "stock" \in Legs
      BY DEF Legs
    <3>2. Leg(w, "usdc") = w.usdc /\ Leg(w, "stock") = w.stock
          /\ Leg(Holds(t, safe), "usdc") = safe.usdc /\ Leg(Holds(t, safe), "stock") = safe[t]
      BY DEF Leg, Holds
    <3> QED
      BY <2>1, <3>1, <3>2
  <2>6. safe' \in [Coins -> Nat]
    <3>1. safe.usdc - w.usdc \in Nat /\ safe[t] - w.stock \in Nat
      BY <2>2, <2>4, <2>5 DEF Coins
    <3>2. safe' = [safe EXCEPT !.usdc = safe.usdc - w.usdc, ![t] = safe[t] - w.stock]
      BY <2>2, <2>3
    <3> QED
      BY <2>2, <2>4, <3>1, <3>2 DEF Coins
  <2>7. granted' \in [Legs -> Nat]
    <3>1. \A s \in Legs : Leg(w, s) \in Nat /\ granted[s] \in Nat /\ Leg(w, s) <= granted[s]
      BY <2>1, <2>2, <2>4, LegFacts
    <3>2. \A s \in Legs : granted[s] - Leg(w, s) \in Nat
      BY <3>1
    <3> QED
      BY <2>3, <3>2 DEF Legs
  <2>8. source' \in Sources
    <3>1. w.usdc + w.stock \in Nat
      BY <2>4
    <3> QED
      BY <1>2, <2>3, <3>1 DEF WorldTyped, Sources
  <2>9. WorldTyped'
    BY <1>1, <1>2, <2>3, <2>6, <2>7, <2>8 DEF WorldTyped
  <2>10. shown'.granted \in {granted, shown.granted}
    BY <2>3
  <2> QED
    BY <1>1, <1>2, <2>3, <2>9, <2>10, OnwardsInv
<1> QED
  BY <1>3, <1>4

LEMMA MoveStep ==
    ASSUME ActionInv, NEW m \in 0..Parts, Move(m)
    PROVE  ActionInv'
<1>1. /\ job.todo # <<>> /\ moves < MaxMoves /\ mix' = [source |-> m, target |-> m] /\ moves' = moves + 1
      /\ UNCHANGED <<safe, granted, shown, source, others, job, lagged, verdict>>
  BY DEF Move
<1>2. verdict = "none" /\ moves \in Nat /\ MaxMoves \in Nat /\ job.round \in Nat
  BY <1>1, UnderWay, ActionBounds, JobFields DEF ActionInv, ActionTyped, WorldTyped
<1>3. ActionTyped'
  BY <1>1, <1>2 DEF ActionInv, ActionTyped, WorldTyped
<1>4. Ordered'
  BY <1>1, <1>2 DEF ActionInv, Ordered
<1>5. Ungranted'
  BY <1>1 DEF ActionInv, Ungranted, Minting
<1>6. Payable'
  BY <1>1 DEF ActionInv, Payable, Minting, Target, Holds
<1>7. Looping'
  <2>1. Minting({"final"})' => job'.round <= 2 * moves' /\ job'.round < 2 * moves'
    <3> SUFFICES ASSUME Minting({"final"}) PROVE job.round < 2 * (moves + 1) /\ job.round <= 2 * (moves + 1)
      BY <1>1 DEF Minting
    <3>1. job.round <= 2 * moves
      BY DEF ActionInv, Looping
    <3> QED
      BY <1>2, <3>1
  <2>2. Minting({"estimate"})' => job'.round <= 2 * moves' + 1 /\ job'.round < 2 * moves'
    <3> SUFFICES ASSUME Minting({"estimate"}) PROVE job.round < 2 * (moves + 1) /\ job.round <= 2 * (moves + 1) + 1
      BY <1>1 DEF Minting
    <3>1. job.round <= 2 * moves + 1
      BY DEF ActionInv, Looping
    <3> QED
      BY <1>2, <3>1
  <2>5. Minting({"estimate"})' => \A s \in Legs : Leg(job'.plan.want, s) <= granted'[s]
    BY <1>1 DEF ActionInv, Looping, Minting
  <2>3. Minting({"final", "estimate"})' =>
           /\ shown'.safe = safe'
           /\ \A s \in Legs : granted'[s] = job'.floor[s] /\ shown'.granted[s] <= job'.floor[s]
    BY <1>1 DEF ActionInv, Looping, Minting
  <2>4. Minting({"approve"})' =>
           /\ job'.plan.want = Sides(job'.plan.budget, job'.plan.mix)
           /\ job'.plan.want.stock # 0 /\ job'.plan.want.usdc # 0
           /\ moves' # 0
    BY <1>1, <1>2 DEF ActionInv, Looping, Minting
  <2> QED
    BY <2>1, <2>2, <2>3, <2>4, <2>5 DEF Looping
<1>8. LoopSettles'
  BY <1>1, <1>2 DEF LoopSettles
<1> QED
  BY <1>3, <1>4, <1>5, <1>6, <1>7, <1>8 DEF ActionInv

LEMMA ActionStart == ActionInit => ActionInv
<1> SUFFICES ASSUME ActionInit PROVE ActionInv
  OBVIOUS
<1>1. PICK c \in Cash, l \in Loose, k \in Loose : safe = [usdc |-> c, src |-> l, dst |-> k]
  BY DEF ActionInit
<1>2. safe \in [Coins -> Nat]
  BY <1>1, ActionBounds DEF Coins
<1>3. granted = [usdc |-> 0, stock |-> 0] /\ shown = [safe |-> safe, granted |-> granted]
      /\ job = Resting /\ moves = 0 /\ lagged = FALSE /\ verdict = "none"
  BY DEF ActionInit
<1>4. granted \in [Legs -> Nat] /\ \A s \in Legs : granted[s] = 0 /\ shown.granted[s] = 0
  BY <1>3 DEF Legs
<1>5. source \in Sources
  <2>1. \/ source \in [at : {"gauge", "safe"}, worth : Worth, earned : {0}, young : BOOLEAN]
        \/ source \in [at : {"empty"}, worth : {0}, earned : {0}, young : {FALSE}]
    BY DEF ActionInit
  <2>2. Worth \subseteq Nat
    BY ActionBounds
  <2>3. CASE source \in [at : {"gauge", "safe"}, worth : Worth, earned : {0}, young : BOOLEAN]
    BY <2>2, <2>3 DEF Sources
  <2>4. CASE source \in [at : {"empty"}, worth : {0}, earned : {0}, young : {FALSE}]
    <3>1. source = [at |-> "empty", worth |-> 0, earned |-> 0, young |-> FALSE]
      BY <2>4
    <3>2. "empty" \in {"gauge", "safe", "empty"} /\ 0 \in Nat /\ 0 \in {0, 1}
      OBVIOUS
    <3>3. FALSE \in BOOLEAN
      OBVIOUS
    <3> QED
      BY <3>1, <3>2, <3>3, Zenon DEF Sources
  <2> QED
    BY <2>1, <2>3, <2>4
<1>6. mix \in [{"source", "target"} -> 0..Parts]
  <2>1. 0 \in 0..Parts /\ Parts \in 0..Parts /\ Parts \div 2 \in 0..Parts
    BY ActionBounds
  <2> QED
    BY <2>1 DEF ActionInit
<1>7. /\ job \in Jobs /\ job.todo = <<>> /\ job.phase = "build" /\ job.round = 0
      /\ \A s \in Legs : job.floor[s] = 0
  <2>1. Fresh("collect", 0).round = 0 /\ \A s \in Legs : Fresh("collect", 0).floor[s] = 0
    <3>1. "collect" \in ActionKinds /\ 0 \in Nat
      BY DEF ActionKinds
    <3> QED
      BY <3>1, FreshJob
  <2>2. Resting.round = Fresh("collect", 0).round /\ Resting.floor = Fresh("collect", 0).floor
    BY DEF Resting, Fresh
  <2> QED
    BY <1>3, <2>1, <2>2, RestingJob
<1>8. ActionTyped
  <2>1. shown \in [safe : [Coins -> Nat], granted : [Legs -> Nat]]
    BY <1>2, <1>3, <1>4
  <2>2. moves \in Nat /\ moves <= MaxMoves + 1 /\ verdict \in Verdicts
    BY <1>3, ActionBounds DEF Verdicts
  <2>3. lagged \in BOOLEAN
    BY <1>3
  <2> QED
    BY <1>2, <1>4, <1>5, <1>6, <1>7, <2>1, <2>2, <2>3 DEF ActionTyped, WorldTyped
<1>9. Ordered /\ Ungranted
  BY <1>3, <1>4, <1>7, ActionBounds DEF Ordered, Ungranted
<1>10. Payable /\ Looping
  BY <1>7 DEF Payable, Looping, Minting
<1>11. LoopSettles
  BY <1>3 DEF LoopSettles
<1> QED
  BY <1>8, <1>9, <1>10, <1>11 DEF ActionInv

LEMMA ActionStep == ActionInv /\ [ActionNext]_actionVars => ActionInv'
<1> SUFFICES ASSUME ActionInv, [ActionNext]_actionVars PROVE ActionInv'
  OBVIOUS
<1>1. CASE UNCHANGED actionVars
  <2>1. ActionTyped' /\ Ordered' /\ Ungranted' /\ LoopSettles'
    BY <1>1 DEF ActionInv, actionVars, ActionTyped, WorldTyped, Ordered, Ungranted, Minting, LoopSettles
  <2>2. Payable' /\ Looping'
    BY <1>1 DEF ActionInv, actionVars, Payable, Looping, Minting, Covered, Target, Holds
  <2> QED
    BY <2>1, <2>2 DEF ActionInv
<1>2. ASSUME NEW kind \in {"enter", "recenter", "switch", "exit", "collect"}, NEW b \in Budgets, Begin(kind, b)
      PROVE  ActionInv'
  <2>1. kind \in ActionKinds
    BY DEF ActionKinds
  <2> QED
    BY <1>2, <2>1, FreshStep
<1>3. CASE PreflightRecenter \/ PreflightSwitch
  BY <1>3, PreflightStep
<1>4. CASE BuildUnstake \/ LandUnstake
  BY <1>4, UnstakeStep
<1>5. CASE BuildWithdraw \/ LandWithdraw
  BY <1>5, WithdrawStep
<1>6. CASE BuildExitSwap \/ \E got \in {Floor(safe.src), safe.src} : LandExitSwap(got)
  BY <1>6, SellStep
<1>7. CASE Collect \/ Stake \/ DeliveryFails \/ GatesClose
  BY <1>7, ClosingStep
<1>8. CASE BuildFirst
  BY <1>8, FirstStep
<1>9. CASE RebuildAfterSwap
  BY <1>9, RebuildStep
<1>10. CASE Approve
  BY <1>10, ApproveStep
<1>11. CASE FinalRound
  BY <1>11, FinalStep
<1>12. CASE EstimateMint
  BY <1>12, EstimateStep
<1>13. CASE LandMint
  BY <1>13, MintStep
<1>14. CASE \E got \in {Floor(job.plan.swap.amount), job.plan.swap.amount} : LandBalancing(got)
  BY <1>14, BalancingStep
<1>15. CASE Accrue
  BY <1>15, AccrueStep
<1>16. CASE \E m \in 0..Parts : Move(m)
  BY <1>16, MoveStep
<1> QED
  BY <1>1, <1>2, <1>3, <1>4, <1>5, <1>6, <1>7, <1>8, <1>9, <1>10, <1>11, <1>12, <1>13, <1>14, <1>15,
     <1>16 DEF ActionNext

(* Nothing in the Safe and nothing granted is ever overdrawn, and every    *)
(* variable keeps its type, for any budgets, bounds and compositions.      *)
THEOREM ActionsTyped == ActionSpec => []ActionTypeOK
<1>1. ActionInv => ActionTypeOK
  <2> SUFFICES ASSUME ActionInv PROVE ActionTypeOK
    OBVIOUS
  <2>1. WorldTyped /\ job \in Jobs /\ verdict \in Verdicts
    BY DEF ActionInv, ActionTyped
  <2>2. \A t \in Lists : t \in Seq(Stages)
    <3>1. <<>> \in Seq(Stages)
      OBVIOUS
    <3>2. <<"stake">> \in Seq(Stages)
      BY DEF Stages
    <3>3. <<"mint", "stake">> \in Seq(Stages)
      BY DEF Stages
    <3>4. <<"sell", "mint", "stake">> \in Seq(Stages)
      BY DEF Stages
    <3>5. <<"withdraw", "mint", "stake">> \in Seq(Stages)
      BY DEF Stages
    <3>6. <<"withdraw", "sell", "mint", "stake">> \in Seq(Stages)
      BY DEF Stages
    <3>7. <<"unstake", "withdraw", "mint", "stake">> \in Seq(Stages)
      BY DEF Stages
    <3>8. <<"unstake", "withdraw", "sell", "mint", "stake">> \in Seq(Stages)
      BY DEF Stages
    <3>9. <<"preflight", "unstake", "withdraw", "mint", "stake">> \in Seq(Stages)
      BY DEF Stages
    <3>10. <<"preflight", "unstake", "withdraw", "sell", "mint", "stake">> \in Seq(Stages)
      BY DEF Stages
    <3>11. <<"unstake", "withdraw", "sell">> \in Seq(Stages)
      BY DEF Stages
    <3>12. <<"withdraw", "sell">> \in Seq(Stages)
      BY DEF Stages
    <3>13. <<"sell">> \in Seq(Stages)
      BY DEF Stages
    <3>14. <<"collect">> \in Seq(Stages)
      BY DEF Stages
    <3> QED
      BY <3>1, <3>2, <3>3, <3>4, <3>5, <3>6, <3>7, <3>8, <3>9, <3>10, <3>11, <3>12, <3>13, <3>14, Zenon DEF Lists
  <2>3. /\ job.todo \in Seq(Stages) /\ job.round \in 0..Rounds /\ job.psc \in 0..Retries
        /\ job.phase \in {"build", "sent", "swap", "rebuild", "approve", "final", "estimate"}
    BY <2>1, <2>2, JobFields DEF StepPhases
  <2>4. moves \in 0..(MaxMoves + 1)
    BY <2>1, ActionBounds DEF WorldTyped
  <2> QED
    BY <2>1, <2>3, <2>4 DEF ActionTypeOK, WorldTyped, Coins, Legs, Sources, Verdicts
<1> QED
  BY <1>1, ActionStart, ActionStep, PTL DEF ActionSpec

(* The final rebuild loop (lp_executor.py:2282) runs out of rounds only if *)
(* the market moved, at most two rounds a move, whatever a lagging node    *)
(* answers: the approvals of one round cover whatever the same price asks  *)
(* of the next.                                                            *)
THEOREM LoopsSettle == ActionSpec => []LoopSettles
<1>1. ActionInv => LoopSettles
  BY DEF ActionInv
<1> QED
  BY <1>1, ActionStart, ActionStep, PTL DEF ActionSpec

-----------------------------------------------------------------------------
(* What a preflight has promised.                                          *)

(* Amounts are no coarser than the compositions, and a swap slips by half  *)
(* at most.                                                                *)
Grained == Tolerance >= 2 /\ \A b \in Budgets : b >= 3 * Parts

(* The rules of a budget that no inventory is part of.                     *)
Fits(b, m) ==
    /\ b # 0 /\ b <= PoolCap /\ b <= ExposureCap - Existing /\ b <= Depth
    /\ m \in 1..(Parts - 1) /\ Sides(b, m).stock # 0 /\ Sides(b, m).usdc # 0

(* Those of the swap for what is missing.                                  *)
Affords(b, m, inv) ==
    LET s == Swap(Sides(b, m), inv)
    IN  /\ s.amount < Impact /\ s.amount <= Tranche
        /\ s.gives # "none" => Leg(Sides(b, m), s.gives) + s.amount <= Leg(inv, s.gives)

FromSafe(b, m, inv) == Swap(Sides(b, m), inv).gives = "none"
Halved(b, m, inv) == \A s \in Legs : Leg(Sides(b, m), s) <= 2 * Leg(inv, s)

(* What the Safe will hold at the mint, at the worst the swaps may do.     *)
Sold == [safe EXCEPT !.usdc = @ + Floor(safe.src), !.src = 0]
Foreseen == IF job.kind = "recenter" THEN Projected ELSE ProjectedSwitch

Recentering == {<<"preflight", "unstake", "withdraw", "mint", "stake">>,
                <<"unstake", "withdraw", "mint", "stake">>,
                <<"withdraw", "mint", "stake">>, <<"mint", "stake">>, <<"stake">>}
Switching == {<<"preflight", "unstake", "withdraw", "sell", "mint", "stake">>,
              <<"unstake", "withdraw", "sell", "mint", "stake">>,
              <<"withdraw", "sell", "mint", "stake">>,
              <<"sell", "mint", "stake">>, <<"mint", "stake">>, <<"stake">>}
Leaving == {<<>>, <<"unstake", "withdraw", "sell">>, <<"withdraw", "sell">>, <<"sell">>, <<"collect">>}

Routes == /\ job.kind = "recenter" => job.todo \in Recentering
          /\ job.kind = "switch" => job.todo \in Switching
          /\ job.kind \in {"exit", "collect"} => job.todo \in Leaving

Promised == /\ job.kind \in {"recenter", "switch"} /\ moves = 0 /\ ~lagged
            /\ Head(job.todo) # "preflight"

Kept ==
    LET b == job.budget
        m == mix.target
        inv == Holds(Target, safe)
    IN  /\ ~others.stranger /\ Fits(b, m)
        /\ Head(job.todo) \in {"unstake", "withdraw"} => Affords(b, m, Holds(Target, Foreseen))
        /\ Head(job.todo) = "sell" => Affords(b, m, Holds(Target, Sold))
        /\ Minting({"build", "swap"}) => Affords(b, m, inv)
        /\ Minting({"swap"}) => job.plan.swap = Swap(Sides(b, m), inv)
        /\ Minting({"rebuild"}) => Halved(b, m, inv) /\ Swap(Sides(b, m), inv).amount < Impact
        /\ Minting({"approve", "final"}) =>
               Fits(job.plan.budget, m) /\ FromSafe(job.plan.budget, m, inv)
        /\ Minting({"estimate"}) =>
               job.plan.mix = m /\ \A s \in Legs : Leg(job.plan.want, s) <= Leg(inv, s)

HonourInv ==
    /\ others.committed \in Nat /\ others.held \in BOOLEAN
    /\ job.kind \in {"recenter", "switch"} => job.budget \in Budgets
    /\ Routes
    /\ Promised => Kept

(* What PreflightHonoured asks of a step.                                  *)
Honours == job.todo # <<>> /\ Head(job.todo) = "mint" /\ job.kind # "enter" /\ moves' = 0 /\ ~lagged'
              => verdict' # "refused" \/ SwapFellShort

-----------------------------------------------------------------------------
(* The planner's rules, swaps and resized budgets.                         *)

(* What an inventory funds of a budget.                                    *)
Funded(b, i, w) == (b * i * 999) \div (w * 1000)

(* Division, from both sides.                                              *)
LEMMA AtLeast ==
    ASSUME NEW x \in Nat, NEW d \in Nat \ {0}, NEW q \in Nat, q * d <= x
    PROVE  q <= x \div d
<1> DEFINE y == q * d
<1>1. y \in Nat /\ y <= x /\ y \div d = q
  OBVIOUS
<1> HIDE DEF y
<1> QED
  BY <1>1, Divided

LEMMA AtMost ==
    ASSUME NEW x \in Nat, NEW d \in Nat \ {0}
    PROVE  x \div d \in Nat /\ (x \div d) * d <= x /\ x < (x \div d + 1) * d
<1> DEFINE q == x \div d
           r == x % d
<1>1. q \in Nat /\ r \in 0..(d - 1) /\ x = q * d + r
  OBVIOUS
<1> HIDE DEF q, r
<1>2. (q + 1) * d = q * d + d
  BY <1>1
<1>3. q * d \in Nat
  BY <1>1
<1>4. q * d <= x /\ x < (q + 1) * d
  <2> DEFINE p == q * d
  <2>1. p \in Nat /\ x = p + r /\ (q + 1) * d = p + d
    BY <1>1, <1>2, <1>3
  <2> HIDE DEF p
  <2>2. p <= x /\ x < p + d
    BY <1>1, <2>1
  <2> QED
    BY <2>1, <2>2 DEF p
<1> QED
  BY <1>1, <1>4 DEF q

LEMMA Scales ==
    ASSUME NEW x \in Nat, NEW y \in Nat, NEW z \in Nat, x <= y
    PROVE  x * z \in Nat /\ y * z \in Nat /\ x * z <= y * z /\ z * x <= z * y
OBVIOUS

LEMMA ThreeFactors ==
    ASSUME NEW x \in Nat, NEW y \in Nat, NEW z \in Nat, NEW k \in Nat
    PROVE  (x * y) * (k * z) = (k * (x * z)) * y
OBVIOUS

LEMMA FloorBelow == ASSUME NEW x \in Nat PROVE Floor(x) <= x
<1>1. Tolerance \in Nat \ {0}
  BY ActionBounds
<1>2. (x + Tolerance - 1) \div Tolerance \in Nat
  BY <1>1
<1> QED
  BY <1>2 DEF Floor

(* A swap that slips by half at most brings half of what was missing.      *)
LEMMA HalfBought ==
    ASSUME Tolerance >= 2, NEW x \in Nat \ {0}
    PROVE  x <= 2 * Floor(Up(x, Acquire))
<1>1. Tolerance \in Nat \ {0} /\ Acquire \in Nat \ {0}
  BY ActionBounds
<1> DEFINE a == Acquire
           y == Up(x, Acquire)
           u == x + Acquire - 1
<1>2. y \in Nat /\ y >= x + 1
  <2>1. u \in Nat /\ 1 * Acquire <= u
    BY <1>1
  <2> HIDE DEF u
  <2>2. u \div Acquire \in Nat /\ 1 <= u \div Acquire
    BY <1>1, <2>1, AtLeast, Divided
  <2>3. y = x + u \div Acquire
    BY DEF Up, u
  <2> HIDE DEF y
  <2> QED
    BY <2>2, <2>3
<1> HIDE DEF y
<1> DEFINE t == Tolerance
           v == y + t - 1
           q == v \div t
<1>3. v \in Nat
  BY <1>1, <1>2
<1>4. q \in Nat /\ q * t <= v
  <2> HIDE DEF v, t
  <2> QED
    BY <1>1, <1>3, AtMost DEF t
<1>5. 2 * q <= y + 1
  <2> SUFFICES ASSUME 2 * q >= y + 2 PROVE FALSE
    BY <1>2, <1>4
  <2> DEFINE p == q - 1
  <2> HIDE DEF q, t
  <2>1. p \in Nat /\ q = p + 1 /\ 2 * p >= y
    BY <1>2, <1>4
  <2> HIDE DEF p
  <2>2. q * t = p * t + t
    BY <1>1, <2>1 DEF t
  <2>3. p * 2 <= p * t
    BY <1>1, <2>1, Scales DEF t
  <2>4. p * t \in Nat /\ t \in Nat
    BY <1>1, <2>1 DEF t
  <2> QED
    BY <1>2, <1>4, <2>1, <2>2, <2>3, <2>4
<1>6. Floor(y) = y - q
  BY DEF Floor
<1> HIDE DEF q
<1>7. x <= 2 * (y - q)
  BY <1>2, <1>4, <1>5
<1> QED
  BY <1>6, <1>7 DEF y

(* One side of a budget resized to an inventory that is short of it.       *)
LEMMA SideResized ==
    ASSUME NEW b \in Nat, NEW k \in Nat, NEW i \in Nat, NEW c \in Nat, NEW w \in Nat \ {0},
           w = (b * k) \div Parts, c <= b, c <= Funded(b, i, w)
    PROVE  (c * k) \div Parts <= i
<1>1. Parts \in Nat \ {0}
  BY ActionBounds
<1> DEFINE bk == b * k
           ck == c * k
<1>2. bk \in Nat /\ ck \in Nat /\ ck <= bk
  BY Scales
<1>3. CASE i >= w
  <2> HIDE DEF bk, ck
  <2>1. ck \div Parts \in Nat /\ ck \div Parts <= bk \div Parts
    BY <1>1, <1>2, Divided
  <2>2. w = bk \div Parts
    BY DEF bk
  <2>3. ck \div Parts <= i
    BY <1>3, <2>1, <2>2
  <2> QED
    BY <2>3 DEF ck
<1>4. CASE i < w
  <2> DEFINE g == ck \div Parts
             bi == b * i * 999
             d == w * 1000
  <2>1. bi \in Nat /\ d \in Nat \ {0}
    BY <1>4
  <2>2. w * Parts <= bk /\ bk < (w + 1) * Parts
    <3> HIDE DEF bk
    <3>1. (bk \div Parts) * Parts <= bk /\ bk < (bk \div Parts + 1) * Parts
      BY <1>1, <1>2, AtMost
    <3>2. w = bk \div Parts
      BY DEF bk
    <3> QED
      BY <3>1, <3>2
  <2>3. g \in Nat /\ g * Parts <= ck
    <3> HIDE DEF ck
    <3> QED
      BY <1>1, <1>2, AtMost
  <2>4. c * d <= bi
    <3> HIDE DEF bi, d
    <3>1. bi \div d \in Nat /\ (bi \div d) * d <= bi
      BY <2>1, AtMost
    <3>2. c <= bi \div d
      BY DEF bi, d, Funded
    <3> DEFINE h == bi \div d
    <3> HIDE DEF h
    <3>3. h \in Nat /\ h * d <= bi /\ c <= h
      BY <3>1, <3>2 DEF h
    <3>4. c * d <= h * d /\ c * d \in Nat /\ h * d \in Nat
      BY <2>1, <3>3, Scales
    <3> QED
      BY <2>1, <3>3, <3>4
  <2> SUFFICES ASSUME g >= i + 1 PROVE FALSE
    BY <2>3
  <2> HIDE DEF g
  <2>5. (i + 1) * Parts <= ck
    <3>1. (i + 1) * Parts <= g * Parts /\ (i + 1) * Parts \in Nat /\ g * Parts \in Nat
      BY <1>1, <2>3, Scales
    <3> QED
      BY <1>2, <2>3, <3>1
  <2> DEFINE P == Parts
             iw == i * w
             iP == (i + 1) * P
             wP == (w + 1) * P
  <2>6. P \in Nat \ {0} /\ iP \in Nat /\ wP \in Nat /\ iw \in Nat
    BY <1>1
  (* Times 1000 w, and times 999 i.                                        *)
  <2>7. iP * (1000 * w) <= ck * (1000 * w)
    BY <1>2, <2>5, <2>6, Scales
  <2>8. ck * (1000 * w) = (c * d) * k
    OBVIOUS
  <2>9. (c * d) * k <= bi * k
    <3> DEFINE cd == c * d
    <3>1. cd \in Nat /\ cd <= bi
      BY <2>1, <2>4
    <3> HIDE DEF cd, bi
    <3>2. cd * k <= bi * k
      BY <2>1, <3>1, Scales
    <3> QED
      BY <3>2 DEF cd
  <2>10. bi * k = bk * (999 * i)
    OBVIOUS
  <2>11. bk * (999 * i) <= wP * (999 * i)
    <3> HIDE DEF bk, wP
    <3>1. bk <= wP /\ 999 * i \in Nat
      BY <1>2, <2>2, <2>6 DEF wP
    <3> DEFINE e == 999 * i
    <3> HIDE DEF e
    <3>2. e \in Nat
      BY DEF e
    <3> QED
      BY <1>2, <2>6, <3>1, <3>2, Scales DEF e
  <2>12. iP * (1000 * w) <= wP * (999 * i)
    <3> DEFINE x1 == iP * (1000 * w)
               x2 == ck * (1000 * w)
               x3 == (c * d) * k
               x4 == bi * k
               x5 == bk * (999 * i)
               x6 == wP * (999 * i)
    <3>1. x1 \in Nat /\ x2 \in Nat /\ x3 \in Nat /\ x4 \in Nat /\ x5 \in Nat /\ x6 \in Nat
      BY <1>2, <2>1, <2>6
    <3>2. x1 <= x2 /\ x2 = x3 /\ x3 <= x4 /\ x4 = x5 /\ x5 <= x6
      BY <2>7, <2>8, <2>9, <2>10, <2>11
    <3> HIDE DEF x1, x2, x3, x4, x5, x6
    <3>3. x1 <= x6
      BY <3>1, <3>2
    <3> QED
      BY <3>3 DEF x1, x6
  <2>13. iP * (1000 * w) = (1000 * iw + 1000 * w) * P
    <3>1. \A u \in Nat : (u * P) * (1000 * w) = (1000 * (u * w)) * P
      BY <2>6, ThreeFactors
    <3>2. (i + 1) * w = iw + w
      OBVIOUS
    <3>3. iP * (1000 * w) = (1000 * ((i + 1) * w)) * P
      BY <3>1
    <3>4. 1000 * (iw + w) = 1000 * iw + 1000 * w
      OBVIOUS
    <3> QED
      BY <3>2, <3>3, <3>4
  <2>14. wP * (999 * i) = (999 * iw + 999 * i) * P
    <3>1. \A u \in Nat : (u * P) * (999 * i) = (999 * (u * i)) * P
      BY <2>6, ThreeFactors
    <3>2. (w + 1) * i = iw + i
      OBVIOUS
    <3>3. wP * (999 * i) = (999 * ((w + 1) * i)) * P
      BY <3>1
    <3>4. 999 * (iw + i) = 999 * iw + 999 * i
      OBVIOUS
    <3> QED
      BY <3>2, <3>3, <3>4
  <2> DEFINE l == 1000 * iw + 1000 * w
             r == 999 * iw + 999 * i
  <2>15. l \in Nat /\ r \in Nat /\ l >= r + 1
    <3> HIDE DEF iw
    <3> QED
      BY <1>4, <2>6
  <2>16. l * P <= r * P
    BY <2>12, <2>13, <2>14
  <2> HIDE DEF l, r, P
  <2>17. (r + 1) * P <= l * P
    BY <2>6, <2>15, Scales
  <2>18. (r + 1) * P = r * P + P /\ r * P \in Nat /\ l * P \in Nat
    BY <2>6, <2>15
  <2> QED
    BY <2>6, <2>16, <2>17, <2>18
<1> QED
  BY <1>3, <1>4

(* The inventory funds a part of it that is still worth minting.           *)
LEMMA SideFunded ==
    ASSUME NEW b \in Nat, NEW i \in Nat, NEW w \in Nat \ {0}, b >= 3 * Parts, w <= 2 * i
    PROVE  Funded(b, i, w) \in Nat /\ Parts <= Funded(b, i, w)
<1>1. Parts \in Nat \ {0}
  BY ActionBounds
<1> DEFINE P == Parts
           x == b * i * 999
           d == w * 1000
<1>2. x \in Nat /\ d \in Nat \ {0} /\ P \in Nat
  BY <1>1
<1>3. P * d <= x
  <2> DEFINE Pi == P * i
             Pw == P * w
             bi == b * i
  <2>1. Pi \in Nat /\ Pw \in Nat /\ bi \in Nat
    BY <1>1
  <2>2. Pw <= P * (2 * i) /\ P * (2 * i) = 2 * Pi
    BY <1>1, Scales
  <2>3. (3 * P) * i <= bi /\ (3 * P) * i = 3 * Pi
    BY <1>1, Scales
  <2>4. P * d = 1000 * Pw /\ x = 999 * bi
    <3>1. P * (w * 1000) = 1000 * (P * w)
      BY <1>1
    <3>2. b * i * 999 = 999 * (b * i)
      OBVIOUS
    <3> QED
      BY <3>1, <3>2
  <2> HIDE DEF Pi, Pw, bi, x, d
  <2> QED
    BY <2>1, <2>2, <2>3, <2>4
<1> HIDE DEF x, d
<1>4. x \div d \in Nat /\ P <= x \div d
  BY <1>2, <1>3, AtLeast, AtMost
<1> QED
  BY <1>4 DEF x, d, Funded

(* A budget that covers the parts has something on both sides.             *)
LEMMA SidesNonzero ==
    ASSUME NEW c \in Nat, NEW k \in Nat \ {0}, c >= Parts
    PROVE  (c * k) \div Parts \in Nat \ {0}
<1>1. Parts \in Nat \ {0}
  BY ActionBounds
<1> DEFINE ck == c * k
<1>2. ck \in Nat /\ 1 * Parts <= ck
  <2>1. c * 1 <= c * k
    BY Scales
  <2> QED
    BY <1>1, <2>1
<1> HIDE DEF ck
<1>3. ck \div Parts \in Nat /\ 1 <= ck \div Parts
  BY <1>1, <1>2, AtLeast, AtMost
<1> QED
  BY <1>3 DEF ck

(* What an inventory is.                                                   *)
Stocks == [usdc : Nat, stock : Nat]

LEMMA SwapCases ==
    ASSUME NEW w \in Amounts, NEW inv \in Stocks
    PROVE  /\ w.stock > inv.stock =>
                  Swap(w, inv) = [gives |-> "usdc", amount |-> Up(w.stock - inv.stock, Acquire)]
           /\ w.stock <= inv.stock /\ w.usdc > inv.usdc =>
                  Swap(w, inv) = [gives |-> "stock", amount |-> Up(w.usdc - inv.usdc, Acquire)]
           /\ w.stock <= inv.stock /\ w.usdc <= inv.usdc =>
                  Swap(w, inv) = [gives |-> "none", amount |-> 0]
<1>1. w.stock \in Nat /\ w.usdc \in Nat /\ inv.stock \in Nat /\ inv.usdc \in Nat
  BY DEF Amounts, Stocks
<1>2. ASSUME w.stock > inv.stock
      PROVE  Swap(w, inv) = [gives |-> "usdc", amount |-> Up(w.stock - inv.stock, Acquire)]
  <2>1. ~(w.stock <= inv.stock /\ w.usdc > inv.usdc)
    BY <1>1, <1>2
  <2> QED
    BY <1>2, <2>1 DEF Swap
<1>3. ASSUME w.stock <= inv.stock, w.usdc > inv.usdc
      PROVE  Swap(w, inv) = [gives |-> "stock", amount |-> Up(w.usdc - inv.usdc, Acquire)]
  <2>1. ~(w.stock > inv.stock)
    BY <1>1, <1>3
  <2> QED
    BY <1>3, <2>1 DEF Swap
<1>4. ASSUME w.stock <= inv.stock, w.usdc <= inv.usdc
      PROVE  Swap(w, inv) = [gives |-> "none", amount |-> 0]
  <2>1. ~(w.stock > inv.stock) /\ ~(w.stock <= inv.stock /\ w.usdc > inv.usdc)
    BY <1>1, <1>4
  <2> QED
    BY <2>1 DEF Swap
<1> QED
  BY <1>2, <1>3, <1>4

(* No swap is needed exactly when both sides are there.                    *)
LEMMA NoSwap ==
    ASSUME NEW w \in Amounts, NEW inv \in Stocks
    PROVE  /\ Swap(w, inv).gives = "none" <=> w.stock <= inv.stock /\ w.usdc <= inv.usdc
           /\ Swap(w, inv).gives = "none" => Swap(w, inv).amount = 0
<1>1. w.stock \in Nat /\ w.usdc \in Nat /\ inv.stock \in Nat /\ inv.usdc \in Nat
  BY DEF Amounts, Stocks
<1>2. CASE w.stock > inv.stock
  <2>1. Swap(w, inv).gives = "usdc"
    BY <1>2, SwapCases
  <2> QED
    BY <1>1, <1>2, <2>1
<1>3. CASE w.stock <= inv.stock /\ w.usdc > inv.usdc
  <2>1. Swap(w, inv).gives = "stock"
    BY <1>3, SwapCases
  <2> QED
    BY <1>1, <1>3, <2>1
<1>4. CASE w.stock <= inv.stock /\ w.usdc <= inv.usdc
  <2>1. Swap(w, inv) = [gives |-> "none", amount |-> 0]
    BY <1>4, SwapCases
  <2> QED
    BY <1>4, <2>1
<1> QED
  BY <1>1, <1>2, <1>3, <1>4

(* The rules, one by one.                                                  *)
LEMMA RulesKept ==
    ASSUME NEW b, NEW m, NEW existing, NEW inv
    PROVE  Broken(b, m, existing, inv) = {} <=>
               /\ ~(b = 0 \/ b > PoolCap) /\ ~(b > ExposureCap - existing)
               /\ ~(m \notin 1..(Parts - 1))
               /\ ~(Sides(b, m).stock = 0 \/ Sides(b, m).usdc = 0)
               /\ ~(b > Depth) /\ ~(Swap(Sides(b, m), inv).amount >= Impact)
               /\ ~(/\ Swap(Sides(b, m), inv).gives # "none"
                    /\ Leg(Sides(b, m), Swap(Sides(b, m), inv).gives) + Swap(Sides(b, m), inv).amount
                           > Leg(inv, Swap(Sides(b, m), inv).gives))
<1> DEFINE w == Sides(b, m)
           s == Swap(w, inv)
           breaks == [budget   |-> b = 0 \/ b > PoolCap,
                      exposure |-> b > ExposureCap - existing,
                      range    |-> m \notin 1..(Parts - 1),
                      sides    |-> w.stock = 0 \/ w.usdc = 0,
                      depth    |-> b > Depth,
                      impact   |-> s.amount >= Impact,
                      funds    |-> /\ s.gives # "none"
                                   /\ Leg(w, s.gives) + s.amount > Leg(inv, s.gives)]
           names == {"budget", "exposure", "range", "sides", "depth", "impact", "funds"}
<1>1. Broken(b, m, existing, inv) = {r \in DOMAIN breaks : breaks[r]}
  BY DEF Broken
<1>2. DOMAIN breaks = names
  OBVIOUS
<1>3. /\ breaks["budget"] = (b = 0 \/ b > PoolCap)
      /\ breaks["exposure"] = (b > ExposureCap - existing)
      /\ breaks["range"] = (m \notin 1..(Parts - 1))
      /\ breaks["sides"] = (w.stock = 0 \/ w.usdc = 0)
      /\ breaks["depth"] = (b > Depth)
      /\ breaks["impact"] = (s.amount >= Impact)
      /\ breaks["funds"] = (s.gives # "none" /\ Leg(w, s.gives) + s.amount > Leg(inv, s.gives))
  OBVIOUS
<1> HIDE DEF breaks, w, s
<1>4. {r \in DOMAIN breaks : breaks[r]} = {} <=> \A r \in names : ~breaks[r]
  BY <1>2
<1>5. (\A r \in names : ~breaks[r]) <=>
          /\ ~breaks["budget"] /\ ~breaks["exposure"] /\ ~breaks["range"] /\ ~breaks["sides"]
          /\ ~breaks["depth"] /\ ~breaks["impact"] /\ ~breaks["funds"]
  OBVIOUS
<1>6. Broken(b, m, existing, inv) = {} <=>
          /\ ~(b = 0 \/ b > PoolCap) /\ ~(b > ExposureCap - existing) /\ ~(m \notin 1..(Parts - 1))
          /\ ~(w.stock = 0 \/ w.usdc = 0) /\ ~(b > Depth) /\ ~(s.amount >= Impact)
          /\ ~(s.gives # "none" /\ Leg(w, s.gives) + s.amount > Leg(inv, s.gives))
  BY <1>1, <1>3, <1>4, <1>5, Zenon
<1> QED
  BY <1>6 DEF w, s

(* What the amounts of a swap are.                                         *)
LEMMA SwapAmounts ==
    ASSUME NEW b \in Nat, NEW m \in 0..Parts, NEW inv \in Stocks
    PROVE  LET w == Sides(b, m)
               s == Swap(w, inv)
           IN  /\ w \in Amounts /\ s.amount \in Nat /\ s.gives \in {"none", "usdc", "stock"}
               /\ \A g \in Legs : Leg(w, g) \in Nat /\ Leg(inv, g) \in Nat
<1>1. Sides(b, m) \in Amounts
  BY SidesFacts
<1>2. Swap(Sides(b, m), inv) \in [gives : {"none", "usdc", "stock"}, amount : Nat]
  BY <1>1, SwapFacts DEF Stocks
<1>3. \A g \in Legs : Leg(Sides(b, m), g) \in Nat /\ Leg(inv, g) \in Nat
  BY <1>1 DEF Leg, Amounts, Stocks
<1> QED
  BY <1>1, <1>2, <1>3

(* What a preflight has found holds of the mint: it counts no less than    *)
(* the mint will.                                                          *)
LEMMA Passed ==
    ASSUME NEW b \in Nat, NEW m \in 0..Parts, NEW inv \in Stocks, NEW existing \in Nat,
           Existing \in Nat, Existing <= existing,
           Broken(b, m, existing, inv) = {}, OneTranche(Plan(b, m, inv))
    PROVE  Fits(b, m) /\ Affords(b, m, inv)
<1> DEFINE w == Sides(b, m)
           s == Swap(w, inv)
<1>1. s.amount \in Nat /\ s.gives \in {"none", "usdc", "stock"}
      /\ \A g \in Legs : Leg(w, g) \in Nat /\ Leg(inv, g) \in Nat
  BY SwapAmounts
<1>2. /\ ~(b = 0 \/ b > PoolCap) /\ ~(b > ExposureCap - existing) /\ ~(m \notin 1..(Parts - 1))
      /\ ~(w.stock = 0 \/ w.usdc = 0) /\ ~(b > Depth) /\ ~(s.amount >= Impact)
      /\ ~(s.gives # "none" /\ Leg(w, s.gives) + s.amount > Leg(inv, s.gives))
  BY RulesKept
<1>3. s.amount <= Tranche
  BY DEF OneTranche, Plan
<1>4. PoolCap \in Nat /\ Depth \in Nat /\ Impact \in Nat /\ ExposureCap \in Nat
  BY ActionAssumption DEF ActionAssumption
<1> HIDE DEF w, s
<1>5. b # 0 /\ b <= PoolCap /\ b <= ExposureCap - Existing /\ b <= Depth
  BY <1>2, <1>4
<1>6. s.amount < Impact
  BY <1>1, <1>2, <1>4
<1>7. s.gives # "none" => Leg(w, s.gives) + s.amount <= Leg(inv, s.gives)
  <2> SUFFICES ASSUME s.gives # "none" PROVE Leg(w, s.gives) + s.amount <= Leg(inv, s.gives)
    OBVIOUS
  <2>1. s.gives \in Legs
    BY <1>1 DEF Legs
  <2>2. Leg(w, s.gives) \in Nat /\ Leg(inv, s.gives) \in Nat
    BY <1>1, <2>1
  <2> QED
    BY <1>1, <1>2, <2>2
<1>8. Fits(b, m)
  BY <1>2, <1>5 DEF Fits, w
<1>9. Affords(b, m, inv)
  BY <1>3, <1>6, <1>7 DEF Affords, w, s
<1> QED
  BY <1>8, <1>9

LEMMA Built ==
    ASSUME NEW b \in Nat, NEW m \in 0..Parts, NEW inv \in Stocks, Existing \in Nat,
           ~others.stranger, Fits(b, m), Affords(b, m, inv)
    PROVE  Buildable(b, m, inv) /\ OneTranche(Plan(b, m, inv))
<1> DEFINE w == Sides(b, m)
           s == Swap(w, inv)
<1>1. s.amount \in Nat /\ s.gives \in {"none", "usdc", "stock"}
      /\ \A g \in Legs : Leg(w, g) \in Nat /\ Leg(inv, g) \in Nat
  BY SwapAmounts
<1>2. PoolCap \in Nat /\ Depth \in Nat /\ Impact \in Nat /\ ExposureCap \in Nat
  BY ActionAssumption DEF ActionAssumption
<1>3. /\ s.amount < Impact /\ s.amount <= Tranche
      /\ s.gives # "none" => Leg(w, s.gives) + s.amount <= Leg(inv, s.gives)
  BY DEF Affords
<1>4. /\ b # 0 /\ b <= PoolCap /\ b <= ExposureCap - Existing /\ b <= Depth
      /\ m \in 1..(Parts - 1) /\ w.stock # 0 /\ w.usdc # 0
  BY DEF Fits
<1> HIDE DEF w, s
<1>5. ~(b = 0 \/ b > PoolCap) /\ ~(b > ExposureCap - Existing) /\ ~(b > Depth)
      /\ ~(s.amount >= Impact)
  BY <1>1, <1>2, <1>3, <1>4
<1>6. ~(s.gives # "none" /\ Leg(w, s.gives) + s.amount > Leg(inv, s.gives))
  <2> SUFFICES ASSUME s.gives # "none" PROVE ~(Leg(w, s.gives) + s.amount > Leg(inv, s.gives))
    OBVIOUS
  <2>1. Leg(w, s.gives) \in Nat /\ Leg(inv, s.gives) \in Nat
    BY <1>1 DEF Legs
  <2> QED
    BY <1>1, <1>3, <2>1
<1>7. Broken(b, m, Existing, inv) = {}
  <2>1. ~(m \notin 1..(Parts - 1)) /\ ~(w.stock = 0 \/ w.usdc = 0)
    BY <1>4
  <2> QED
    BY <1>5, <1>6, <2>1, RulesKept DEF w, s
<1>8. OneTranche(Plan(b, m, inv))
  BY <1>3 DEF OneTranche, Plan, w, s
<1> QED
  BY <1>7, <1>8 DEF Buildable

(* A budget there is no swap for is built, and not resized.                *)
LEMMA SafeBuilt ==
    ASSUME NEW b \in Nat, NEW m \in 0..Parts, NEW inv \in Stocks, Existing \in Nat,
           ~others.stranger, Fits(b, m), FromSafe(b, m, inv)
    PROVE  /\ Buildable(b, m, inv) /\ Affords(b, m, inv) /\ Plan(b, m, inv).swap.gives = "none"
           /\ Resized(b, m, inv) = b
<1>1. Sides(b, m) \in Amounts /\ Swap(Sides(b, m), inv).gives = "none"
  BY SwapAmounts DEF FromSafe
<1>2. Swap(Sides(b, m), inv).amount = 0
  BY <1>1, NoSwap
<1>3. 0 < Impact /\ 0 <= Tranche
  BY ActionAssumption DEF ActionAssumption
<1>4. Affords(b, m, inv)
  BY <1>1, <1>2, <1>3 DEF Affords
<1> QED
  BY <1>1, <1>4, Built DEF Plan, Resized

(* More USDC beside the same stock affords no less.                        *)
LEMMA AffordsMore ==
    ASSUME NEW b \in Nat, NEW m \in 0..Parts, NEW inv \in Stocks, NEW more \in Stocks,
           more.stock = inv.stock, inv.usdc <= more.usdc, Affords(b, m, inv)
    PROVE  Affords(b, m, more)
<1> DEFINE w == Sides(b, m)
<1>1. w \in Amounts
  BY SwapAmounts
<1>2. w.stock \in Nat /\ w.usdc \in Nat /\ inv.stock \in Nat /\ inv.usdc \in Nat /\ more.usdc \in Nat
  BY <1>1 DEF Amounts, Stocks
<1>3. Impact \in Nat \ {0} /\ Tranche \in Nat
  BY ActionAssumption DEF ActionAssumption
<1>4. /\ Swap(w, inv).amount < Impact /\ Swap(w, inv).amount <= Tranche
      /\ Swap(w, inv).gives # "none" =>
             Leg(w, Swap(w, inv).gives) + Swap(w, inv).amount <= Leg(inv, Swap(w, inv).gives)
  BY DEF Affords
<1> SUFFICES /\ Swap(w, more).amount < Impact /\ Swap(w, more).amount <= Tranche
             /\ Swap(w, more).gives # "none" =>
                    Leg(w, Swap(w, more).gives) + Swap(w, more).amount <= Leg(more, Swap(w, more).gives)
  BY DEF Affords
<1> HIDE DEF w
<1>5. CASE w.stock > inv.stock
  <2> DEFINE x == Up(w.stock - inv.stock, Acquire)
  <2>1. Swap(w, inv) = [gives |-> "usdc", amount |-> x] /\ Swap(w, more) = [gives |-> "usdc", amount |-> x]
    BY <1>1, <1>5, SwapCases
  <2>2. w.stock - inv.stock \in Nat /\ Acquire \in Nat \ {0}
    BY <1>2, <1>5, ActionBounds
  <2>3. x \in Nat
    BY <2>2, RoundedUp
  <2> HIDE DEF x
  <2>4. Leg(w, "usdc") = w.usdc /\ Leg(inv, "usdc") = inv.usdc /\ Leg(more, "usdc") = more.usdc
    BY DEF Leg
  <2>5. x < Impact /\ x <= Tranche /\ w.usdc + x <= inv.usdc
    BY <1>4, <2>1, <2>4
  <2>6. w.usdc + x <= more.usdc
    BY <1>2, <2>3, <2>5
  <2> QED
    BY <2>1, <2>4, <2>5, <2>6
<1>6. CASE w.stock <= inv.stock /\ w.usdc > more.usdc
  <2> DEFINE x == Up(w.usdc - inv.usdc, Acquire)
             y == Up(w.usdc - more.usdc, Acquire)
  <2>1. Swap(w, inv) = [gives |-> "stock", amount |-> x] /\ Swap(w, more) = [gives |-> "stock", amount |-> y]
    <3>1. w.usdc > inv.usdc
      BY <1>2, <1>6
    <3> QED
      BY <1>1, <1>6, <3>1, SwapCases
  <2>2. w.usdc - inv.usdc \in Nat /\ w.usdc - more.usdc \in Nat /\ Acquire \in Nat \ {0}
        /\ w.usdc - more.usdc <= w.usdc - inv.usdc
    BY <1>2, <1>6, ActionBounds
  <2>3. x \in Nat /\ y \in Nat /\ y <= x
    <3> DEFINE p == w.usdc - inv.usdc
               q == w.usdc - more.usdc
    <3>1. p \in Nat /\ q \in Nat /\ q <= p
      BY <2>2
    <3> HIDE DEF p, q
    <3>2. Up(p, Acquire) \in Nat /\ Up(q, Acquire) \in Nat /\ Up(q, Acquire) <= Up(p, Acquire)
      BY <2>2, <3>1, RoundedUp
    <3> QED
      BY <3>2 DEF p, q
  <2> HIDE DEF x, y
  <2>4. Leg(w, "stock") = w.stock /\ Leg(inv, "stock") = inv.stock /\ Leg(more, "stock") = inv.stock
    BY DEF Leg
  <2>5. x < Impact /\ x <= Tranche /\ w.stock + x <= inv.stock
    BY <1>4, <2>1, <2>4
  <2>6. y < Impact /\ y <= Tranche /\ w.stock + y <= inv.stock
    BY <1>2, <1>3, <2>3, <2>5
  <2> QED
    BY <2>1, <2>4, <2>6
<1>7. CASE w.stock <= inv.stock /\ w.usdc <= more.usdc
  <2>1. Swap(w, more) = [gives |-> "none", amount |-> 0]
    BY <1>1, <1>7, SwapCases
  <2> QED
    BY <1>3, <2>1
<1> QED
  BY <1>2, <1>5, <1>6, <1>7

(* After the swap, whatever it slipped, at least half of each side is      *)
(* there.                                                                  *)
LEMMA SwapHalves ==
    ASSUME Grained, NEW b \in Nat, NEW m \in 0..Parts, NEW inv \in Stocks, NEW after \in Stocks,
           NEW got, Affords(b, m, inv),
           LET s == Swap(Sides(b, m), inv)
           IN  /\ s.gives # "none" /\ got \in {Floor(s.amount), s.amount}
               /\ s.gives = "usdc" => after.usdc = inv.usdc - s.amount /\ after.stock = inv.stock + got
               /\ s.gives = "stock" => after.usdc = inv.usdc + got /\ after.stock = inv.stock - s.amount
    PROVE  Halved(b, m, after)
<1> DEFINE w == Sides(b, m)
           s == Swap(w, inv)
<1>1. w \in Amounts
  BY SwapAmounts
<1>2. w.stock \in Nat /\ w.usdc \in Nat /\ inv.stock \in Nat /\ inv.usdc \in Nat
      /\ after.stock \in Nat /\ after.usdc \in Nat
  BY <1>1 DEF Amounts, Stocks
<1>3. /\ s.gives # "none" /\ got \in {Floor(s.amount), s.amount}
      /\ s.gives = "usdc" => after.usdc = inv.usdc - s.amount /\ after.stock = inv.stock + got
      /\ s.gives = "stock" => after.usdc = inv.usdc + got /\ after.stock = inv.stock - s.amount
      /\ Leg(w, s.gives) + s.amount <= Leg(inv, s.gives)
  BY DEF Affords
<1>4. Tolerance >= 2
  BY DEF Grained
<1> SUFFICES w.stock <= 2 * after.stock /\ w.usdc <= 2 * after.usdc
  BY DEF Halved, Legs, Leg
<1> HIDE DEF w, s
<1>5. ASSUME NEW x \in Nat \ {0}, s.amount = Up(x, Acquire)
      PROVE  s.amount \in Nat /\ got \in Nat /\ x <= 2 * got
  <2>1. Acquire \in Nat \ {0} /\ x \in Nat
    BY ActionBounds
  <2>2. s.amount \in Nat /\ x <= s.amount
    BY <1>5, <2>1, RoundedUp
  <2>3. x <= 2 * Floor(s.amount) /\ Floor(s.amount) \in Nat
    BY <1>4, <1>5, <2>2, HalfBought, FloorIsNat
  <2> QED
    BY <1>3, <2>2, <2>3
<1>6. CASE w.stock > inv.stock
  <2> DEFINE x == w.stock - inv.stock
  <2>1. s = [gives |-> "usdc", amount |-> Up(x, Acquire)]
    BY <1>1, <1>6, SwapCases DEF s
  <2>2. x \in Nat \ {0}
    BY <1>2, <1>6
  <2> HIDE DEF x
  <2>3. s.amount \in Nat /\ got \in Nat /\ x <= 2 * got
    BY <1>5, <2>1, <2>2
  <2>4. Leg(w, "usdc") = w.usdc /\ Leg(inv, "usdc") = inv.usdc
    BY DEF Leg
  <2>5. after.usdc = inv.usdc - s.amount /\ after.stock = inv.stock + got /\ w.usdc + s.amount <= inv.usdc
    BY <1>3, <2>1, <2>4
  <2> QED
    BY <1>2, <2>2, <2>3, <2>5 DEF x
<1>7. CASE w.stock <= inv.stock /\ w.usdc > inv.usdc
  <2> DEFINE x == w.usdc - inv.usdc
  <2>1. s = [gives |-> "stock", amount |-> Up(x, Acquire)]
    BY <1>1, <1>7, SwapCases DEF s
  <2>2. x \in Nat \ {0}
    BY <1>2, <1>7
  <2> HIDE DEF x
  <2>3. s.amount \in Nat /\ got \in Nat /\ x <= 2 * got
    BY <1>5, <2>1, <2>2
  <2>4. Leg(w, "stock") = w.stock /\ Leg(inv, "stock") = inv.stock
    BY DEF Leg
  <2>5. after.usdc = inv.usdc + got /\ after.stock = inv.stock - s.amount /\ w.stock + s.amount <= inv.stock
    BY <1>3, <2>1, <2>4
  <2> QED
    BY <1>2, <2>2, <2>3, <2>5 DEF x
<1>8. CASE w.stock <= inv.stock /\ w.usdc <= inv.usdc
  BY <1>1, <1>3, <1>8, NoSwap DEF s
<1> QED
  BY <1>2, <1>6, <1>7, <1>8

(* The swap still missing after one is no larger than that one.            *)
LEMMA SwapShrinks ==
    ASSUME NEW b \in Nat, NEW m \in 0..Parts, NEW inv \in Stocks, NEW after \in Stocks,
           NEW got, Affords(b, m, inv),
           LET s == Swap(Sides(b, m), inv)
           IN  /\ s.gives # "none" /\ got \in {Floor(s.amount), s.amount}
               /\ s.gives = "usdc" => after.usdc = inv.usdc - s.amount /\ after.stock = inv.stock + got
               /\ s.gives = "stock" => after.usdc = inv.usdc + got /\ after.stock = inv.stock - s.amount
    PROVE  Swap(Sides(b, m), after).amount < Impact
<1> DEFINE w == Sides(b, m)
           s == Swap(w, inv)
<1>1. w \in Amounts /\ s.amount \in Nat
  BY SwapAmounts
<1>2. w.stock \in Nat /\ w.usdc \in Nat /\ inv.stock \in Nat /\ inv.usdc \in Nat
      /\ after.stock \in Nat /\ after.usdc \in Nat
  BY <1>1 DEF Amounts, Stocks
<1>3. /\ s.gives # "none" /\ got \in {Floor(s.amount), s.amount}
      /\ s.gives = "usdc" => after.usdc = inv.usdc - s.amount /\ after.stock = inv.stock + got
      /\ s.gives = "stock" => after.usdc = inv.usdc + got /\ after.stock = inv.stock - s.amount
      /\ Leg(w, s.gives) + s.amount <= Leg(inv, s.gives) /\ s.amount < Impact
  BY DEF Affords
<1>4. Impact \in Nat \ {0} /\ Acquire \in Nat \ {0}
  BY ActionAssumption, ActionBounds DEF ActionAssumption
<1> SUFFICES Swap(w, after).amount < Impact
  OBVIOUS
<1> HIDE DEF w, s
<1>5. got \in Nat
  BY <1>1, <1>3, FloorIsNat
<1>6. ASSUME NEW x \in Nat, NEW y \in Nat, y <= x, s.amount = Up(x, Acquire)
      PROVE  Up(y, Acquire) < Impact
  <2>1. Up(x, Acquire) \in Nat /\ Up(y, Acquire) \in Nat /\ Up(y, Acquire) <= Up(x, Acquire)
    BY <1>4, <1>6, RoundedUp
  <2> QED
    BY <1>3, <1>4, <1>6, <2>1
<1>7. CASE w.stock > inv.stock
  <2>1. s = [gives |-> "usdc", amount |-> Up(w.stock - inv.stock, Acquire)]
    BY <1>1, <1>7, SwapCases DEF s
  <2>2. Leg(w, "usdc") = w.usdc /\ Leg(inv, "usdc") = inv.usdc
    BY DEF Leg
  <2>3. after.usdc = inv.usdc - s.amount /\ after.stock = inv.stock + got /\ w.usdc + s.amount <= inv.usdc
    BY <1>3, <2>1, <2>2
  <2>4. w.usdc <= after.usdc
    BY <1>1, <1>2, <2>3
  <2>5. CASE w.stock > after.stock
    <3>1. Swap(w, after) = [gives |-> "usdc", amount |-> Up(w.stock - after.stock, Acquire)]
      BY <1>1, <2>5, SwapCases
    <3>2. w.stock - inv.stock \in Nat /\ w.stock - after.stock \in Nat
          /\ w.stock - after.stock <= w.stock - inv.stock
      BY <1>2, <1>5, <1>7, <2>3, <2>5
    <3>3. s.amount = Up(w.stock - inv.stock, Acquire)
      BY <2>1
    <3>4. Up(w.stock - after.stock, Acquire) < Impact
      BY <1>6, <3>2, <3>3
    <3> QED
      BY <3>1, <3>4
  <2>6. CASE w.stock <= after.stock
    <3>1. Swap(w, after) = [gives |-> "none", amount |-> 0]
      BY <1>1, <2>4, <2>6, SwapCases
    <3> QED
      BY <1>4, <3>1
  <2> QED
    BY <1>2, <2>5, <2>6
<1>8. CASE w.stock <= inv.stock /\ w.usdc > inv.usdc
  <2>1. s = [gives |-> "stock", amount |-> Up(w.usdc - inv.usdc, Acquire)]
    BY <1>1, <1>8, SwapCases DEF s
  <2>2. Leg(w, "stock") = w.stock /\ Leg(inv, "stock") = inv.stock
    BY DEF Leg
  <2>3. after.usdc = inv.usdc + got /\ after.stock = inv.stock - s.amount /\ w.stock + s.amount <= inv.stock
    BY <1>3, <2>1, <2>2
  <2>4. w.stock <= after.stock
    BY <1>1, <1>2, <2>3
  <2>5. CASE w.usdc > after.usdc
    <3>1. Swap(w, after) = [gives |-> "stock", amount |-> Up(w.usdc - after.usdc, Acquire)]
      BY <1>1, <2>4, <2>5, SwapCases
    <3>2. w.usdc - inv.usdc \in Nat /\ w.usdc - after.usdc \in Nat
          /\ w.usdc - after.usdc <= w.usdc - inv.usdc
      BY <1>2, <1>5, <1>8, <2>3, <2>5
    <3>3. s.amount = Up(w.usdc - inv.usdc, Acquire)
      BY <2>1
    <3>4. Up(w.usdc - after.usdc, Acquire) < Impact
      BY <1>6, <3>2, <3>3
    <3> QED
      BY <3>1, <3>4
  <2>6. CASE w.usdc <= after.usdc
    <3>1. Swap(w, after) = [gives |-> "none", amount |-> 0]
      BY <1>1, <2>4, <2>6, SwapCases
    <3> QED
      BY <1>4, <3>1
  <2> QED
    BY <1>2, <2>5, <2>6
<1>9. CASE w.stock <= inv.stock /\ w.usdc <= inv.usdc
  BY <1>1, <1>3, <1>9, NoSwap DEF s
<1> QED
  BY <1>2, <1>7, <1>8, <1>9

(* Of a budget that fits, whose swap stays under the impact ceiling, only  *)
(* the funds can be wanting.                                               *)
LEMMA OnlyFunds ==
    ASSUME NEW b \in Nat, NEW m \in 0..Parts, NEW inv \in Stocks, Existing \in Nat,
           Fits(b, m), Swap(Sides(b, m), inv).amount < Impact
    PROVE  Broken(b, m, Existing, inv) \subseteq {"funds"}
<1> DEFINE w == Sides(b, m)
           s == Swap(w, inv)
           breaks == [budget   |-> b = 0 \/ b > PoolCap,
                      exposure |-> b > ExposureCap - Existing,
                      range    |-> m \notin 1..(Parts - 1),
                      sides    |-> w.stock = 0 \/ w.usdc = 0,
                      depth    |-> b > Depth,
                      impact   |-> s.amount >= Impact,
                      funds    |-> /\ s.gives # "none"
                                   /\ Leg(w, s.gives) + s.amount > Leg(inv, s.gives)]
           names == {"budget", "exposure", "range", "sides", "depth", "impact", "funds"}
<1>1. Broken(b, m, Existing, inv) = {r \in DOMAIN breaks : breaks[r]}
  BY DEF Broken
<1>2. DOMAIN breaks = names
  OBVIOUS
<1>3. /\ breaks["budget"] = (b = 0 \/ b > PoolCap)
      /\ breaks["exposure"] = (b > ExposureCap - Existing)
      /\ breaks["range"] = (m \notin 1..(Parts - 1))
      /\ breaks["sides"] = (w.stock = 0 \/ w.usdc = 0)
      /\ breaks["depth"] = (b > Depth)
      /\ breaks["impact"] = (s.amount >= Impact)
  OBVIOUS
<1>4. s.amount \in Nat /\ s.amount < Impact
  BY SwapAmounts
<1>5. PoolCap \in Nat /\ Depth \in Nat /\ Impact \in Nat /\ ExposureCap \in Nat
  BY ActionAssumption DEF ActionAssumption
<1>6. /\ b # 0 /\ b <= PoolCap /\ b <= ExposureCap - Existing /\ b <= Depth
      /\ m \in 1..(Parts - 1) /\ w.stock # 0 /\ w.usdc # 0
  BY DEF Fits
<1> HIDE DEF breaks, w, s
<1>7. ~(b = 0 \/ b > PoolCap) /\ ~(b > ExposureCap - Existing) /\ ~(b > Depth)
      /\ ~(s.amount >= Impact)
  BY <1>4, <1>5, <1>6
<1>8. /\ ~breaks["budget"] /\ ~breaks["exposure"] /\ ~breaks["range"] /\ ~breaks["sides"]
      /\ ~breaks["depth"] /\ ~breaks["impact"]
  BY <1>3, <1>6, <1>7
<1>9. {r \in names : breaks[r]} \subseteq {"funds"}
  BY <1>8
<1> QED
  BY <1>1, <1>2, <1>9

(* A budget whose sides are half there is resized to one that is there,    *)
(* and that breaks no rule.                                                *)
LEMMA ResizedFits ==
    ASSUME NEW b \in Nat, NEW m \in 0..Parts, NEW inv \in Stocks, Existing \in Nat,
           b >= 3 * Parts, Fits(b, m), Halved(b, m, inv)
    PROVE  LET c == Resized(b, m, inv)
           IN  c \in Nat /\ Fits(c, m) /\ FromSafe(c, m, inv)
<1> DEFINE w == Sides(b, m)
           c == Resized(b, m, inv)
           n == Parts - m
<1>1. /\ Parts \in Nat \ {0} /\ PoolCap \in Nat /\ Depth \in Nat /\ ExposureCap \in Nat
      /\ m \in Nat \ {0} /\ n \in Nat \ {0}
  <2>1. m \in 1..(Parts - 1)
    BY DEF Fits
  <2> QED
    BY <2>1, ActionAssumption DEF ActionAssumption
<1>2. w \in Amounts /\ w.stock # 0 /\ w.usdc # 0
  BY SwapAmounts DEF Fits
<1>3. w.stock \in Nat \ {0} /\ w.usdc \in Nat \ {0} /\ inv.stock \in Nat /\ inv.usdc \in Nat
  BY <1>2 DEF Amounts, Stocks
<1>4. w.stock <= 2 * inv.stock /\ w.usdc <= 2 * inv.usdc
  BY DEF Halved, Legs, Leg
<1>5. CASE Swap(w, inv).gives = "none"
  <2>1. c = b
    BY <1>5 DEF Resized
  <2> QED
    BY <1>5, <2>1 DEF FromSafe
<1>6. CASE Swap(w, inv).gives # "none"
  <2> DEFINE x == Funded(b, inv.usdc, w.usdc)
             y == Funded(b, inv.stock, w.stock)
             z == (b * 999) \div 1000
             S == {x, y, z}
  <2>1. c = CHOOSE v \in S : \A u \in S : v <= u
    BY <1>2, <1>6 DEF Resized, Constrained, Leg, Funded
  <2>2. x \in Nat /\ Parts <= x
    <3> HIDE DEF w
    <3> QED
      BY <1>3, <1>4, SideFunded
  <2>3. y \in Nat /\ Parts <= y
    <3> HIDE DEF w
    <3> QED
      BY <1>3, <1>4, SideFunded
  <2>4. z \in Nat /\ Parts <= z /\ z <= b
    BY <1>1
  <2> HIDE DEF x, y, z, c
  <2>5. \E v \in S : \A u \in S : v <= u
    BY <2>2, <2>3, <2>4
  <2>6. c \in S /\ \A u \in S : c <= u
    BY <2>1, <2>5
  <2>7. c \in Nat /\ Parts <= c /\ c <= b /\ c <= x /\ c <= y
    BY <1>1, <2>2, <2>3, <2>4, <2>6
  <2> DEFINE v == Sides(c, m)
  <2>8. v.stock = (c * m) \div Parts /\ v.usdc = (c * n) \div Parts
        /\ w.stock = (b * m) \div Parts /\ w.usdc = (b * n) \div Parts
    BY DEF Sides
  <2>9. v.stock <= inv.stock
    <3> DEFINE i == inv.stock
               k == w.stock
    <3>1. i \in Nat /\ k \in Nat \ {0} /\ m \in Nat /\ k = (b * m) \div Parts
          /\ c <= Funded(b, i, k)
      BY <1>1, <1>3, <2>7, <2>8 DEF y
    <3> HIDE DEF i, k
    <3>2. (c * m) \div Parts <= i
      BY <2>7, <3>1, SideResized
    <3> QED
      BY <2>8, <3>2 DEF i
  <2>10. v.usdc <= inv.usdc
    <3> DEFINE i == inv.usdc
               k == w.usdc
    <3>1. i \in Nat /\ k \in Nat \ {0} /\ k = (b * n) \div Parts
          /\ c <= Funded(b, i, k)
      BY <1>3, <2>7, <2>8 DEF x
    <3> HIDE DEF i, k, n
    <3>2. (c * n) \div Parts <= i
      BY <1>1, <2>7, <3>1, SideResized
    <3> QED
      BY <2>8, <3>2 DEF i
  <2>11. v \in Amounts
    BY <2>7, SidesFacts
  <2>12. FromSafe(c, m, inv)
    BY <2>9, <2>10, <2>11, NoSwap DEF FromSafe
  <2>13. v.stock # 0 /\ v.usdc # 0
    <3> HIDE DEF v, n
    <3>1. (c * m) \div Parts \in Nat \ {0} /\ (c * n) \div Parts \in Nat \ {0}
      BY <1>1, <2>7, SidesNonzero
    <3> QED
      BY <2>8, <3>1
  <2>14. Fits(c, m)
    <3>1. /\ b <= PoolCap /\ b <= ExposureCap - Existing /\ b <= Depth /\ m \in 1..(Parts - 1)
      BY DEF Fits
    <3>2. c # 0 /\ c <= PoolCap /\ c <= ExposureCap - Existing /\ c <= Depth
      BY <1>1, <2>7, <3>1
    <3> QED
      BY <2>13, <3>1, <3>2 DEF Fits
  <2> QED
    BY <2>7, <2>12, <2>14 DEF c
<1> QED
  BY <1>5, <1>6

-----------------------------------------------------------------------------
(* The promise, stage by stage.                                            *)

(* What follows what on each route.                                        *)
LEMMA RouteHeads ==
    /\ \A t \in Recentering :
           /\ t # <<>> /\ (Len(t) # 1 => Tail(t) \in Recentering)
           /\ Head(t) = "preflight" => Len(t) # 1 /\ Head(Tail(t)) = "unstake"
           /\ Head(t) = "unstake" => Len(t) # 1 /\ Head(Tail(t)) = "withdraw"
           /\ Head(t) = "withdraw" => Len(t) # 1 /\ Head(Tail(t)) = "mint"
           /\ Head(t) # "sell"
    /\ \A t \in Switching :
           /\ t # <<>> /\ (Len(t) # 1 => Tail(t) \in Switching)
           /\ Head(t) = "preflight" => Len(t) # 1 /\ Head(Tail(t)) = "unstake"
           /\ Head(t) = "unstake" => Len(t) # 1 /\ Head(Tail(t)) = "withdraw"
           /\ Head(t) = "withdraw" => Len(t) # 1 /\ Head(Tail(t)) = "sell"
           /\ Head(t) = "sell" => Len(t) # 1 /\ Head(Tail(t)) = "mint"
    /\ \A t \in Leaving : t # <<>> => Head(t) # "mint" /\ (Len(t) # 1 => Tail(t) \in Leaving)
    /\ Head(<<"stake">>) = "stake" /\ Tail(<<"mint", "stake">>) = <<"stake">>
<1> DEFINE r1 == <<"preflight", "unstake", "withdraw", "mint", "stake">>
           r2 == <<"unstake", "withdraw", "mint", "stake">>
           r3 == <<"withdraw", "mint", "stake">>
           s1 == <<"preflight", "unstake", "withdraw", "sell", "mint", "stake">>
           s2 == <<"unstake", "withdraw", "sell", "mint", "stake">>
           s3 == <<"withdraw", "sell", "mint", "stake">>
           s4 == <<"sell", "mint", "stake">>
           m1 == <<"mint", "stake">>
           m2 == <<"stake">>
           e1 == <<"unstake", "withdraw", "sell">>
           e2 == <<"withdraw", "sell">>
           e3 == <<"sell">>
           e4 == <<"collect">>
<1>1. /\ r1 # <<>> /\ Len(r1) # 1 /\ Head(r1) = "preflight" /\ Tail(r1) = r2
      /\ r2 # <<>> /\ Len(r2) # 1 /\ Head(r2) = "unstake" /\ Tail(r2) = r3
      /\ r3 # <<>> /\ Len(r3) # 1 /\ Head(r3) = "withdraw" /\ Tail(r3) = m1
  OBVIOUS
<1>2. /\ s1 # <<>> /\ Len(s1) # 1 /\ Head(s1) = "preflight" /\ Tail(s1) = s2
      /\ s2 # <<>> /\ Len(s2) # 1 /\ Head(s2) = "unstake" /\ Tail(s2) = s3
  OBVIOUS
<1>3. /\ s3 # <<>> /\ Len(s3) # 1 /\ Head(s3) = "withdraw" /\ Tail(s3) = s4
      /\ s4 # <<>> /\ Len(s4) # 1 /\ Head(s4) = "sell" /\ Tail(s4) = m1
  OBVIOUS
<1>4. /\ m1 # <<>> /\ Len(m1) # 1 /\ Head(m1) = "mint" /\ Tail(m1) = m2
      /\ m2 # <<>> /\ Len(m2) = 1 /\ Head(m2) = "stake"
  OBVIOUS
<1>5. /\ Head(e1) = "unstake" /\ Tail(e1) = e2 /\ Head(e2) = "withdraw" /\ Tail(e2) = e3
      /\ Head(e3) = "sell" /\ Len(e3) = 1 /\ Head(e4) = "collect" /\ Len(e4) = 1
  OBVIOUS
<1>6. Recentering = {r1, r2, r3, m1, m2} /\ Switching = {s1, s2, s3, s4, m1, m2}
      /\ Leaving = {<<>>, e1, e2, e3, e4}
  BY DEF Recentering, Switching, Leaving
<1> HIDE DEF r1, r2, r3, s1, s2, s3, s4, m1, m2, e1, e2, e3, e4
<1>7. \A t \in Recentering :
           /\ t # <<>> /\ (Len(t) # 1 => Tail(t) \in Recentering)
           /\ Head(t) = "preflight" => Len(t) # 1 /\ Head(Tail(t)) = "unstake"
           /\ Head(t) = "unstake" => Len(t) # 1 /\ Head(Tail(t)) = "withdraw"
           /\ Head(t) = "withdraw" => Len(t) # 1 /\ Head(Tail(t)) = "mint"
           /\ Head(t) # "sell"
  <2> SUFFICES ASSUME NEW t \in {r1, r2, r3, m1, m2}
               PROVE  /\ t # <<>> /\ (Len(t) # 1 => Tail(t) \in {r1, r2, r3, m1, m2})
                      /\ Head(t) = "preflight" => Len(t) # 1 /\ Head(Tail(t)) = "unstake"
                      /\ Head(t) = "unstake" => Len(t) # 1 /\ Head(Tail(t)) = "withdraw"
                      /\ Head(t) = "withdraw" => Len(t) # 1 /\ Head(Tail(t)) = "mint"
                      /\ Head(t) # "sell"
    BY <1>6
  <2>1. CASE t \in {r1, r2, r3}
    BY <1>1, <1>4, <2>1
  <2>2. CASE t \in {m1, m2}
    BY <1>4, <2>2
  <2> QED BY <2>1, <2>2
<1>8. \A t \in Switching :
           /\ t # <<>> /\ (Len(t) # 1 => Tail(t) \in Switching)
           /\ Head(t) = "preflight" => Len(t) # 1 /\ Head(Tail(t)) = "unstake"
           /\ Head(t) = "unstake" => Len(t) # 1 /\ Head(Tail(t)) = "withdraw"
           /\ Head(t) = "withdraw" => Len(t) # 1 /\ Head(Tail(t)) = "sell"
           /\ Head(t) = "sell" => Len(t) # 1 /\ Head(Tail(t)) = "mint"
  <2> SUFFICES ASSUME NEW t \in {s1, s2, s3, s4, m1, m2}
               PROVE  /\ t # <<>> /\ (Len(t) # 1 => Tail(t) \in {s1, s2, s3, s4, m1, m2})
                      /\ Head(t) = "preflight" => Len(t) # 1 /\ Head(Tail(t)) = "unstake"
                      /\ Head(t) = "unstake" => Len(t) # 1 /\ Head(Tail(t)) = "withdraw"
                      /\ Head(t) = "withdraw" => Len(t) # 1 /\ Head(Tail(t)) = "sell"
                      /\ Head(t) = "sell" => Len(t) # 1 /\ Head(Tail(t)) = "mint"
    BY <1>6
  <2>1. CASE t \in {s1, s2}
    BY <1>2, <1>3, <2>1
  <2>2. CASE t \in {s3, s4}
    BY <1>3, <1>4, <2>2
  <2>3. CASE t \in {m1, m2}
    BY <1>4, <2>3
  <2> QED BY <2>1, <2>2, <2>3
<1>9. \A t \in Leaving : t # <<>> => Head(t) # "mint" /\ (Len(t) # 1 => Tail(t) \in Leaving)
  BY <1>5, <1>6
<1> QED
  BY <1>4, <1>7, <1>8, <1>9 DEF m1, m2

LEMMA Terms ==
    ASSUME ActionInv, HonourInv
    PROVE  /\ WorldTyped /\ job \in Jobs /\ job.budget \in Nat /\ mix.target \in 0..Parts
           /\ source.worth \in Nat /\ Existing \in Nat /\ Existing <= others.committed
           /\ others.committed \in Nat
           /\ Holds(Target, safe) \in Stocks /\ Holds(Target, Foreseen) \in Stocks
           /\ Projected \in [Coins -> Nat] /\ safe \in [Coins -> Nat]
<1>1. WorldTyped /\ job \in Jobs
  BY DEF ActionInv, ActionTyped
<1>2. job.budget \in Nat /\ mix.target \in 0..Parts /\ source.worth \in Nat
  BY <1>1, JobFields, Amounted DEF WorldTyped, Sources
<1>3. Existing \in Nat /\ Existing <= others.committed /\ others.committed \in Nat
  BY DEF HonourInv, Existing
<1>4. safe \in [Coins -> Nat] /\ Projected \in [Coins -> Nat]
  BY <1>1, ProjectedTyped DEF WorldTyped
<1>5. ASSUME NEW x \in [Coins -> Nat] PROVE Holds(Target, x) \in Stocks
  BY <1>1, <1>5, Amounted DEF Holds, Coins, Stocks
<1>6. ProjectedSwitch \in [Coins -> Nat]
  <2>1. Projected.usdc \in Nat /\ Projected.src \in Nat
    BY <1>4 DEF Coins
  <2>2. Floor(Projected.src) \in Nat
    BY <2>1, FloorIsNat
  <2>3. Projected.usdc + Floor(Projected.src) \in Nat
    BY <2>1, <2>2
  <2>4. ProjectedSwitch = [Projected EXCEPT !.usdc = Projected.usdc + Floor(Projected.src), !.src = 0]
    BY DEF ProjectedSwitch
  <2> QED
    BY <1>4, <2>3, <2>4 DEF Coins
<1>7. Foreseen \in [Coins -> Nat]
  BY <1>4, <1>6 DEF Foreseen
<1> QED
  BY <1>1, <1>2, <1>3, <1>4, <1>5, <1>7

LEMMA HonourEnds ==
    ASSUME HonourInv, others' = others, job' = Resting
    PROVE  HonourInv'
<1>1. job'.kind = "collect" /\ job'.todo = <<>>
  BY DEF Resting, Fresh
<1> QED
  BY <1>1 DEF HonourInv, Routes, Leaving, Promised

(* An action that goes on keeps to its route.                              *)
LEMMA HonourGoes ==
    ASSUME ActionInv, HonourInv, others' = others, job.todo # <<>>,
           job'.kind = job.kind, job'.budget = job.budget,
           job'.todo = job.todo \/ (Len(job.todo) # 1 /\ job'.todo = Tail(job.todo)),
           Promised' => Kept'
    PROVE  HonourInv'
<1>1. Routes'
  <2>1. job.kind = "recenter" => job'.todo \in Recentering
    BY RouteHeads DEF HonourInv, Routes
  <2>2. job.kind = "switch" => job'.todo \in Switching
    BY RouteHeads DEF HonourInv, Routes
  <2>3. job.kind \in {"exit", "collect"} => job'.todo \in Leaving
    BY RouteHeads DEF HonourInv, Routes
  <2> QED
    BY <2>1, <2>2, <2>3 DEF Routes
<1> QED
  BY <1>1 DEF HonourInv

LEMMA OnwardsHonour ==
    ASSUME ActionInv, HonourInv, Onwards, job.todo # <<>>, others' = others,
           Len(job.todo) # 1 /\ Promised' /\ job' = [job EXCEPT !.todo = Tail(job.todo), !.phase = "build"]
               => Kept'
    PROVE  HonourInv'
<1>1. CASE Len(job.todo) = 1
  <2>1. job' = Resting
    BY <1>1 DEF Onwards, Ends
  <2> QED
    BY <2>1, HonourEnds
<1>2. CASE Len(job.todo) # 1
  <2>1. job' = [job EXCEPT !.todo = Tail(job.todo), !.phase = "build"]
    BY <1>2 DEF Onwards
  <2>2. job \in Jobs
    BY DEF ActionInv, ActionTyped
  <2>3. job'.kind = job.kind /\ job'.budget = job.budget /\ job'.todo = Tail(job.todo)
    BY <2>1, <2>2 DEF Jobs
  <2> QED
    BY <1>2, <2>1, <2>3, HonourGoes
<1> QED
  BY <1>1, <1>2

(* A stage before the mint that is sent, or goes on to the next, keeps     *)
(* what its inventory affords.                                             *)
LEMMA KeptEarlier ==
    ASSUME ActionInv, HonourInv, UNCHANGED <<others, mix>>, job'.kind = job.kind, job'.budget = job.budget,
           ~others.stranger, Fits(job.budget, mix.target), Head(job'.todo) # "mint",
           Head(job'.todo) \in {"unstake", "withdraw"} =>
               Affords(job.budget, mix.target, Holds(Target, Foreseen')),
           Head(job'.todo) = "sell" => Affords(job.budget, mix.target, Holds(Target, Sold'))
    PROVE  Kept'
<1>1. Target' = Target
  BY DEF Target
<1>2. job'.todo # <<"mint", "stake">>
  BY StageLists
<1>3. Fits(job.budget, mix.target)'
  BY DEF Fits, Existing
<1>4. Holds(Target, Foreseen)' = Holds(Target, Foreseen') /\ Holds(Target, Sold)' = Holds(Target, Sold')
  BY <1>1 DEF Holds
<1>5. job'.budget = job.budget /\ mix'.target = mix.target /\ ~others'.stranger
  OBVIOUS
<1> QED
  BY <1>2, <1>3, <1>4, <1>5 DEF Kept, Minting

LEMMA ForeseenKept ==
    ASSUME UNCHANGED <<safe, mix>>, source'.worth = source.worth, job'.kind = job.kind
    PROVE  Foreseen' = Foreseen
BY DEF Foreseen, Projected, ProjectedSwitch, Out

LEMMA PreflightHonour ==
    ASSUME ActionInv, HonourInv, PreflightRecenter \/ PreflightSwitch
    PROVE  HonourInv' /\ Honours
<1>1. /\ job.todo # <<>> /\ Head(job.todo) = "preflight" /\ Reads /\ UNCHANGED lagged
      /\ Onwards \/ Refused
  BY DEF PreflightRecenter, PreflightSwitch, Preflight, At
<1>2. Honours
  BY <1>1 DEF Honours
<1>3. others' = others /\ safe' = safe /\ source' = source /\ mix' = mix
  BY <1>1 DEF Reads
<1>4. CASE Refused
  BY <1>2, <1>3, <1>4, HonourEnds DEF Refused, Ends
<1>5. CASE ~Refused
  <2> DEFINE inv == Holds(Target, Foreseen)
  <2>1. job.kind \in {"recenter", "switch"} /\ Onwards
    BY <1>5 DEF PreflightRecenter, PreflightSwitch, Preflight
  <2>2. \E existing \in Nat :
            /\ Existing <= existing /\ ~others.stranger
            /\ Broken(job.budget, mix.target, existing, inv) = {}
            /\ OneTranche(Plan(job.budget, mix.target, inv))
    <3>1. CASE PreflightRecenter
      <4>1. CountedForRecenter \in Nat /\ Existing <= CountedForRecenter
        BY Terms DEF CountedForRecenter
      <4>2. job.kind = "recenter"
        BY <3>1 DEF PreflightRecenter
      <4>3. Foreseen = Projected
        BY <4>2 DEF Foreseen
      <4> QED
        BY <1>5, <3>1, <4>1, <4>3 DEF PreflightRecenter, Preflight
    <3>2. CASE PreflightSwitch
      <4>1. job.kind = "switch"
        BY <3>2 DEF PreflightSwitch
      <4>2. Foreseen = ProjectedSwitch
        BY <4>1 DEF Foreseen
      <4> QED
        BY <1>5, <3>2, <4>2, Terms DEF PreflightSwitch, Preflight
    <3> QED
      BY <3>1, <3>2
  <2>3. Fits(job.budget, mix.target) /\ Affords(job.budget, mix.target, inv)
    <3>1. job.budget \in Nat /\ mix.target \in 0..Parts /\ inv \in Stocks /\ Existing \in Nat
      BY Terms
    <3> HIDE DEF inv
    <3> QED
      BY <2>2, <3>1, Passed
  <2>4. Head(Tail(job.todo)) = "unstake"
    BY <1>1, <2>1, RouteHeads DEF HonourInv, Routes
  <2>5. ASSUME job' = [job EXCEPT !.todo = Tail(job.todo), !.phase = "build"] PROVE Kept'
    <3>1. job'.kind = job.kind /\ job'.budget = job.budget /\ job'.todo = Tail(job.todo)
      BY <2>5, Terms DEF Jobs
    <3>2. Foreseen' = Foreseen
      BY <1>3, <3>1, ForeseenKept
    <3> QED
      BY <1>3, <2>2, <2>3, <2>4, <3>1, <3>2, KeptEarlier
  <2>6. Len(job.todo) # 1 /\ Promised' /\ job' = [job EXCEPT !.todo = Tail(job.todo), !.phase = "build"]
               => Kept'
    BY <2>5
  <2>7. HonourInv'
    BY <1>1, <1>3, <2>1, <2>6, OnwardsHonour
  <2> QED
    BY <1>2, <2>7
<1> QED
  BY <1>4, <1>5

LEMMA UnstakeHonour ==
    ASSUME ActionInv, HonourInv, BuildUnstake \/ LandUnstake
    PROVE  HonourInv' /\ Honours
<1>1. /\ job.todo # <<>> /\ Head(job.todo) = "unstake" /\ moves' = moves /\ lagged' = lagged
      /\ others' = others /\ safe' = safe /\ mix' = mix
      /\ source' \in {source, [source EXCEPT !.at = "safe", !.earned = 0]}
      /\ Onwards \/ Sent \/ Refused
  BY DEF BuildUnstake, LandUnstake, At, Reads
<1>2. Honours
  BY <1>1 DEF Honours
<1>3. source'.worth = source.worth
  <2>1. source \in Sources
    BY Terms DEF WorldTyped
  <2> QED
    BY <1>1, <2>1 DEF Sources
<1>4. CASE Refused
  BY <1>1, <1>2, <1>4, HonourEnds DEF Refused, Ends
<1>5. ASSUME job'.kind = job.kind, job'.budget = job.budget, Promised',
             job'.todo = job.todo \/ job'.todo = Tail(job.todo)
      PROVE  Kept'
  <2>1. Promised /\ job.kind \in {"recenter", "switch"}
    BY <1>1, <1>5 DEF Promised
  <2>2. ~others.stranger /\ Fits(job.budget, mix.target)
        /\ Affords(job.budget, mix.target, Holds(Target, Foreseen))
    BY <1>1, <2>1 DEF HonourInv, Kept
  <2>3. Head(job'.todo) \in {"unstake", "withdraw"}
    BY <1>1, <1>5, <2>1, RouteHeads DEF HonourInv, Routes
  <2>4. Foreseen' = Foreseen
    BY <1>1, <1>3, <1>5, ForeseenKept
  <2> QED
    BY <1>1, <1>5, <2>2, <2>3, <2>4, KeptEarlier
<1>6. CASE Sent
  <2>1. job'.kind = job.kind /\ job'.budget = job.budget /\ job'.todo = job.todo
    BY <1>6, Terms DEF Sent, Jobs
  <2>2. Promised' => Kept'
    BY <1>5, <2>1
  <2>3. HonourInv'
    BY <1>1, <2>1, <2>2, HonourGoes
  <2> QED
    BY <1>2, <2>3
<1>7. CASE Onwards
  <2>1. ASSUME job' = [job EXCEPT !.todo = Tail(job.todo), !.phase = "build"]
        PROVE  job'.kind = job.kind /\ job'.budget = job.budget /\ job'.todo = Tail(job.todo)
    BY <2>1, Terms DEF Jobs
  <2>2. Len(job.todo) # 1 /\ Promised' /\ job' = [job EXCEPT !.todo = Tail(job.todo), !.phase = "build"]
               => Kept'
    BY <1>5, <2>1
  <2>3. HonourInv'
    BY <1>1, <1>7, <2>2, OnwardsHonour
  <2> QED
    BY <1>2, <2>3
<1> QED
  BY <1>1, <1>4, <1>6, <1>7

(* A mint that begins affords what the stages before it have brought.      *)
LEMMA KeptAtMint ==
    ASSUME ActionInv, HonourInv, UNCHANGED <<others, mix>>, job'.kind = job.kind, job'.budget = job.budget,
           ~others.stranger, Fits(job.budget, mix.target), Head(job'.todo) = "mint", job'.phase = "build",
           Affords(job.budget, mix.target, Holds(Target, safe'))
    PROVE  Kept'
<1>1. Target' = Target
  BY DEF Target
<1>2. Fits(job.budget, mix.target)'
  BY DEF Fits, Existing
<1>3. Holds(Target, safe)' = Holds(Target, safe')
  BY <1>1 DEF Holds
<1>4. job'.budget = job.budget /\ mix'.target = mix.target /\ ~others'.stranger
  OBVIOUS
<1> QED
  BY <1>2, <1>3, <1>4 DEF Kept, Minting

LEMMA WithdrawHonour ==
    ASSUME ActionInv, HonourInv, BuildWithdraw \/ LandWithdraw
    PROVE  HonourInv' /\ Honours
<1>1. /\ job.todo # <<>> /\ Head(job.todo) = "withdraw" /\ moves' = moves /\ lagged' = lagged
      /\ others' = others /\ mix' = mix
  BY DEF BuildWithdraw, LandWithdraw, At, Reads
<1>2. Honours
  BY <1>1 DEF Honours
<1>3. ASSUME Promised', job'.kind = job.kind
      PROVE  /\ ~others.stranger /\ Fits(job.budget, mix.target)
             /\ Affords(job.budget, mix.target, Holds(Target, Foreseen))
             /\ job.kind \in {"recenter", "switch"}
  <2>1. Promised
    BY <1>1, <1>3 DEF Promised
  <2> QED
    BY <1>1, <2>1 DEF HonourInv, Kept, Promised
<1>4. CASE BuildWithdraw
  <2>1. job' = [job EXCEPT !.phase = "sent", !.seen = mix.source] /\ safe' = safe /\ source' = source
    BY <1>4 DEF BuildWithdraw, Reads
  <2>2. job'.kind = job.kind /\ job'.budget = job.budget /\ job'.todo = job.todo
    BY <2>1, Terms DEF Jobs
  <2>3. Foreseen' = Foreseen
    BY <1>1, <2>1, <2>2, ForeseenKept
  <2>4. Promised' => Kept'
    BY <1>1, <1>3, <2>2, <2>3, KeptEarlier
  <2>5. HonourInv'
    BY <1>1, <2>2, <2>4, HonourGoes
  <2> QED
    BY <1>2, <2>5
<1>5. CASE LandWithdraw /\ job.seen # mix.source
  <2>1. job' = Resting
    BY <1>5 DEF LandWithdraw, Failed, Ends
  <2> QED
    BY <1>1, <1>2, <2>1, HonourEnds
<1>6. CASE LandWithdraw /\ job.seen = mix.source
  <2>1. safe' = Projected /\ Onwards
    BY <1>6 DEF LandWithdraw
  <2>2. ASSUME Promised', job' = [job EXCEPT !.todo = Tail(job.todo), !.phase = "build"]
        PROVE  Kept'
    <3>1. job'.kind = job.kind /\ job'.budget = job.budget /\ job'.todo = Tail(job.todo)
          /\ job'.phase = "build"
      BY <2>2, Terms DEF Jobs
    <3>2. /\ ~others.stranger /\ Fits(job.budget, mix.target)
          /\ Affords(job.budget, mix.target, Holds(Target, Foreseen))
      BY <1>3, <2>2, <3>1
    <3>3. CASE job.kind = "recenter"
      <4>1. Head(job'.todo) = "mint"
        BY <1>1, <3>1, <3>3, RouteHeads DEF HonourInv, Routes
      <4>2. Foreseen = safe'
        BY <2>1, <3>3 DEF Foreseen
      <4> QED
        BY <1>1, <3>1, <3>2, <4>1, <4>2, KeptAtMint
    <3>4. CASE job.kind = "switch"
      <4>1. Head(job'.todo) = "sell"
        BY <1>1, <3>1, <3>4, RouteHeads DEF HonourInv, Routes
      <4>2. Foreseen = Sold'
        BY <2>1, <3>4 DEF Foreseen, ProjectedSwitch, Sold
      <4> QED
        BY <1>1, <3>1, <3>2, <4>1, <4>2, KeptEarlier
    <3> QED
      BY <1>3, <2>2, <3>1, <3>3, <3>4
  <2>3. (Len(job.todo) # 1 /\ Promised' /\ job' = [job EXCEPT !.todo = Tail(job.todo), !.phase = "build"])
            => Kept'
    BY <2>2
  <2>4. HonourInv'
    BY <1>1, <2>1, <2>3, OnwardsHonour
  <2> QED
    BY <1>2, <2>4
<1> QED
  BY <1>4, <1>5, <1>6

LEMMA SellHonour ==
    ASSUME ActionInv, HonourInv,
           BuildExitSwap \/ \E got \in {Floor(safe.src), safe.src} : LandExitSwap(got)
    PROVE  HonourInv' /\ Honours
<1>1. /\ job.todo # <<>> /\ Head(job.todo) = "sell" /\ moves' = moves /\ lagged' = lagged
      /\ others' = others /\ mix' = mix
  BY DEF BuildExitSwap, LandExitSwap, At, Reads
<1>2. Honours
  BY <1>1 DEF Honours
<1>3. ASSUME Promised', job'.kind = job.kind
      PROVE  /\ ~others.stranger /\ Fits(job.budget, mix.target)
             /\ Affords(job.budget, mix.target, Holds(Target, Sold))
             /\ job.kind = "switch"
  <2>1. Promised
    BY <1>1, <1>3 DEF Promised
  <2>2. job.kind = "switch"
    BY <1>1, <2>1, RouteHeads DEF HonourInv, Routes, Promised
  <2> QED
    BY <1>1, <2>1, <2>2 DEF HonourInv, Kept
<1>4. CASE BuildExitSwap
  <2>1. Sent \/ Refused
    BY <1>4 DEF BuildExitSwap
  <2>2. CASE Refused
    BY <1>1, <1>2, <2>2, HonourEnds DEF Refused, Ends
  <2>3. CASE Sent
    <3>1. job'.kind = job.kind /\ job'.budget = job.budget /\ job'.todo = job.todo
      BY <2>3, Terms DEF Sent, Jobs
    <3>2. Sold' = Sold
      BY <1>4 DEF BuildExitSwap, Reads, Sold
    <3>3. Promised' => Kept'
      BY <1>1, <1>3, <3>1, <3>2, KeptEarlier
    <3>4. HonourInv'
      BY <1>1, <3>1, <3>3, HonourGoes
    <3> QED
      BY <1>2, <3>4
  <2> QED
    BY <2>1, <2>2, <2>3
<1>5. ASSUME NEW got \in {Floor(safe.src), safe.src}, LandExitSwap(got)
      PROVE  HonourInv' /\ Honours
  <2>1. safe' = [safe EXCEPT !.usdc = @ + got, !.src = 0] /\ Onwards
    BY <1>5 DEF LandExitSwap
  <2>2. safe.usdc \in Nat /\ safe.src \in Nat /\ safe.dst \in Nat /\ safe \in [Coins -> Nat]
    BY Terms DEF Coins
  <2>3. Floor(safe.src) \in Nat /\ got \in Nat /\ Floor(safe.src) <= got
    <3>1. Floor(safe.src) \in Nat /\ Floor(safe.src) <= safe.src
      BY <2>2, FloorIsNat, FloorBelow
    <3> QED
      BY <2>2, <3>1
  <2>4. ASSUME Promised', job' = [job EXCEPT !.todo = Tail(job.todo), !.phase = "build"]
        PROVE  Kept'
    <3>1. job'.kind = job.kind /\ job'.budget = job.budget /\ job'.todo = Tail(job.todo)
          /\ job'.phase = "build"
      BY <2>4, Terms DEF Jobs
    <3>2. /\ ~others.stranger /\ Fits(job.budget, mix.target) /\ job.kind = "switch"
          /\ Affords(job.budget, mix.target, Holds(Target, Sold))
      BY <1>3, <2>4, <3>1
    <3>3. Head(job'.todo) = "mint"
      BY <1>1, <3>1, <3>2, RouteHeads DEF HonourInv, Routes
    <3>4. Target = "dst"
      BY <3>2 DEF Target
    <3>5. Holds("dst", Sold) = [usdc |-> safe.usdc + Floor(safe.src), stock |-> safe.dst]
      <4>1. Sold = [safe EXCEPT !.usdc = safe.usdc + Floor(safe.src), !.src = 0]
        BY DEF Sold
      <4>2. Sold.usdc = safe.usdc + Floor(safe.src) /\ Sold["dst"] = safe.dst
        BY <2>2, <4>1 DEF Coins
      <4> QED
        BY <4>2 DEF Holds
    <3>6. Holds("dst", safe') = [usdc |-> safe.usdc + got, stock |-> safe.dst]
      <4>1. safe'.usdc = safe.usdc + got /\ safe'["dst"] = safe.dst
        BY <2>1, <2>2 DEF Coins
      <4> QED
        BY <4>1 DEF Holds
    <3>7. Affords(job.budget, mix.target, Holds(Target, safe'))
      <4> DEFINE inv == Holds("dst", Sold)
                 more == Holds("dst", safe')
      <4>1. inv \in Stocks /\ more \in Stocks /\ more.stock = inv.stock /\ inv.usdc <= more.usdc
        BY <2>2, <2>3, <3>5, <3>6 DEF Stocks
      <4>2. Affords(job.budget, mix.target, inv)
        BY <3>2, <3>4
      <4>3. job.budget \in Nat /\ mix.target \in 0..Parts
        BY Terms
      <4> HIDE DEF inv, more
      <4>4. Affords(job.budget, mix.target, more)
        BY <4>1, <4>2, <4>3, AffordsMore
      <4> QED
        BY <3>4, <4>4 DEF more
    <3> QED
      BY <1>1, <3>1, <3>2, <3>3, <3>7, KeptAtMint
  <2>5. (Len(job.todo) # 1 /\ Promised' /\ job' = [job EXCEPT !.todo = Tail(job.todo), !.phase = "build"])
            => Kept'
    BY <2>4
  <2>6. HonourInv'
    BY <1>1, <2>1, <2>5, OnwardsHonour
  <2> QED
    BY <1>2, <2>6
<1> QED
  BY <1>4, <1>5

LEMMA ClosingHonour ==
    ASSUME ActionInv, HonourInv, Collect \/ Stake \/ DeliveryFails \/ GatesClose
    PROVE  HonourInv' /\ Honours
<1>1. job' = Resting /\ others' = others
  BY DEF Collect, Stake, DeliveryFails, GatesClose, Refused, Failed, Ends, Reads
<1>2. Honours
  <2>1. CASE Collect \/ Stake
    BY <2>1 DEF Collect, Stake, At, Honours
  <2>2. CASE DeliveryFails
    BY <2>2 DEF DeliveryFails, Failed, Ends, Honours
  <2>3. CASE GatesClose
    <3>1. moves \in Nat /\ moves' = moves + 1
      BY <2>3, Terms DEF GatesClose, WorldTyped
    <3> QED
      BY <3>1 DEF Honours
  <2> QED
    BY <2>1, <2>2, <2>3
<1> QED
  BY <1>1, <1>2, HonourEnds

LEMMA BeginHonour ==
    ASSUME ActionInv, HonourInv, NEW kind \in ActionKinds, NEW b \in Budgets, Begin(kind, b)
    PROVE  HonourInv' /\ Honours
<1>1. job.todo = <<>> /\ job' = Fresh(kind, b) /\ others' = others
  BY DEF Begin
<1>2. job'.kind = kind /\ job'.budget = b /\ job'.todo = Route(kind)
  BY <1>1 DEF Fresh
<1>3. /\ kind = "recenter" => Route(kind) \in Recentering /\ Head(Route(kind)) = "preflight"
      /\ kind = "switch" => Route(kind) \in Switching /\ Head(Route(kind)) = "preflight"
      /\ kind \in {"exit", "collect"} => Route(kind) \in Leaving
  BY DEF Route, Recentering, Switching, Leaving
<1> QED
  BY <1>1, <1>2, <1>3 DEF HonourInv, Routes, Promised, Honours

LEMMA MarketHonour ==
    ASSUME ActionInv, HonourInv, Accrue \/ \E m \in 0..Parts : Move(m)
    PROVE  HonourInv' /\ Honours
<1>1. job' = job /\ others' = others /\ verdict' = verdict /\ job.todo # <<>>
  BY DEF Accrue, Move
<1>2. Honours
  BY <1>1, UnderWay DEF Honours
<1>3. CASE Accrue
  <2>1. UNCHANGED <<safe, granted, mix, job, moves, lagged>> /\ source'.worth = source.worth
    BY <1>3, Terms DEF Accrue, WorldTyped, Sources
  <2>2. Foreseen' = Foreseen
    BY <2>1, ForeseenKept
  <2>3. Sold' = Sold /\ Target' = Target
    BY <2>1 DEF Sold, Target
  <2>4. Kept' = Kept
    BY <1>1, <2>1, <2>2, <2>3 DEF Kept, Minting, Holds, Fits, Existing
  <2>5. Promised' = Promised
    BY <2>1 DEF Promised
  <2>6. HonourInv'
    BY <1>1, <2>4, <2>5 DEF HonourInv, Routes
  <2> QED
    BY <1>2, <2>6
<1>4. CASE \E m \in 0..Parts : Move(m)
  <2>1. moves \in Nat /\ moves' = moves + 1
    BY <1>4, Terms DEF Move, WorldTyped
  <2>2. ~Promised'
    BY <2>1 DEF Promised
  <2>3. HonourInv'
    BY <1>1, <2>2 DEF HonourInv, Routes
  <2> QED
    BY <1>2, <2>3
<1> QED
  BY <1>3, <1>4

(* A mint under way has kept the promise so far.                           *)
LEMMA MintPromised ==
    ASSUME ActionInv, HonourInv, NEW phase, At("mint", phase), moves = 0, ~lagged, job.kind # "enter"
    PROVE  /\ ~others.stranger /\ Fits(job.budget, mix.target) /\ Kept
           /\ job.budget \in Budgets /\ job.budget \in Nat /\ mix.target \in 0..Parts
           /\ Holds(Target, safe) \in Stocks /\ Existing \in Nat
<1>1. job.kind \in {"recenter", "switch"}
  <2>1. job.kind \in ActionKinds
    BY Terms, JobFields
  <2>2. job.todo # <<>> /\ Head(job.todo) = "mint"
    BY DEF At
  <2> QED
    BY <2>1, <2>2, RouteHeads DEF ActionKinds, HonourInv, Routes
<1>2. Promised /\ Kept
  BY <1>1 DEF At, HonourInv, Promised
<1> QED
  BY <1>1, <1>2, Terms DEF HonourInv, Kept

LEMMA KeptInMint ==
    ASSUME ActionInv, HonourInv, UNCHANGED <<others, mix>>, job'.kind = job.kind, job'.budget = job.budget,
           ~others.stranger, Fits(job.budget, mix.target), job'.todo = <<"mint", "stake">>,
           job'.phase # "build",
           job'.phase = "swap" =>
               /\ Affords(job.budget, mix.target, Holds(Target, safe'))
               /\ job'.plan.swap = Swap(Sides(job.budget, mix.target), Holds(Target, safe')),
           job'.phase = "rebuild" =>
               /\ Halved(job.budget, mix.target, Holds(Target, safe'))
               /\ Swap(Sides(job.budget, mix.target), Holds(Target, safe')).amount < Impact,
           job'.phase \in {"approve", "final"} =>
               /\ Fits(job'.plan.budget, mix.target)
               /\ FromSafe(job'.plan.budget, mix.target, Holds(Target, safe')),
           job'.phase = "estimate" =>
               /\ job'.plan.mix = mix.target
               /\ \A s \in Legs : Leg(job'.plan.want, s) <= Leg(Holds(Target, safe'), s)
    PROVE  Kept'
<1>1. Target' = Target /\ Existing' = Existing /\ mix'.target = mix.target /\ ~others'.stranger
  BY DEF Target, Existing
<1>2. Holds(Target, safe)' = Holds(Target, safe')
  BY <1>1 DEF Holds
<1>3. Fits(job.budget, mix.target)'
  BY <1>1 DEF Fits
<1>4. Head(job'.todo) = "mint"
  BY StageLists
<1>5. Minting({"approve", "final"})' => Fits(job.plan.budget, mix.target)'
  BY <1>1 DEF Fits, Minting
<1>6. /\ Minting({"build", "swap"})' => Affords(job.budget, mix.target, Holds(Target, safe'))
      /\ Minting({"swap"})' => job'.plan.swap = Swap(Sides(job.budget, mix.target), Holds(Target, safe'))
      /\ Minting({"rebuild"})' =>
             /\ Halved(job.budget, mix.target, Holds(Target, safe'))
             /\ Swap(Sides(job.budget, mix.target), Holds(Target, safe')).amount < Impact
      /\ Minting({"approve", "final"})' => FromSafe(job'.plan.budget, mix.target, Holds(Target, safe'))
      /\ Minting({"estimate"})' =>
             /\ job'.plan.mix = mix.target
             /\ \A s \in Legs : Leg(job'.plan.want, s) <= Leg(Holds(Target, safe'), s)
  BY DEF Minting
<1> QED
  BY <1>1, <1>2, <1>3, <1>4, <1>5, <1>6 DEF Kept

LEMMA FirstHonour ==
    ASSUME ActionInv, HonourInv, BuildFirst
    PROVE  HonourInv' /\ Honours
<1> DEFINE inv == Holds(Target, safe)
           b == job.budget
           m == mix.target
           p == Plan(b, m, inv)
           ph == IF p.swap.gives = "none" THEN "approve" ELSE "swap"
<1>1. At("mint", "build") /\ UNCHANGED <<others, safe, mix, moves, lagged>>
  BY DEF BuildFirst, Reads
<1>2. job.todo = <<"mint", "stake">> /\ job.phase = "build" /\ job.todo # <<>> /\ job \in Jobs
  BY <1>1, AtMint
<1>3. ASSUME moves = 0, ~lagged, job.kind # "enter"
      PROVE  /\ ~others.stranger /\ Fits(b, m) /\ Affords(b, m, inv)
             /\ Buildable(b, m, inv) /\ OneTranche(p)
  <2>1. /\ ~others.stranger /\ Fits(b, m) /\ Kept /\ b \in Nat /\ m \in 0..Parts
        /\ inv \in Stocks /\ Existing \in Nat
    BY <1>1, <1>3, MintPromised
  <2>2. Affords(b, m, inv)
    BY <1>2, <2>1 DEF Kept, Minting
  <2> HIDE DEF inv, b, m
  <2> QED
    BY <2>1, <2>2, Built
<1>4. CASE Buildable(b, m, inv) /\ OneTranche(p)
  <2>1. job' = [job EXCEPT !.plan = p, !.phase = ph] /\ verdict' = "none"
    BY <1>4 DEF BuildFirst
  <2>2. /\ job'.kind = job.kind /\ job'.budget = job.budget /\ job'.todo = job.todo
        /\ job'.phase = ph /\ job'.plan = p
    <3> HIDE DEF p, ph
    <3> QED
      BY <1>2, <2>1 DEF Jobs
  <2>3. p.budget = b /\ p.swap = Swap(Sides(b, m), inv) /\ ph \in {"approve", "swap"}
    BY DEF Plan
  <2>4. ph = "approve" => FromSafe(b, m, inv)
    BY <2>3 DEF FromSafe
  <2> HIDE DEF p, ph
  <2>5. ASSUME Promised' PROVE Kept'
    <3>1. ~others.stranger /\ Fits(b, m) /\ Affords(b, m, inv)
      BY <1>1, <1>3, <2>2, <2>5 DEF Promised
    <3>2. Holds(Target, safe') = inv
      BY <1>1
    <3> QED
      BY <1>1, <1>2, <2>2, <2>3, <2>4, <3>1, <3>2, KeptInMint
  <2>6. Promised' => Kept'
    BY <2>5
  <2>7. HonourInv'
    BY <1>1, <1>2, <2>2, <2>6, HonourGoes
  <2> QED
    BY <2>1, <2>7 DEF Honours
<1>5. CASE ~(Buildable(b, m, inv) /\ OneTranche(p))
  <2>1. job' = Resting
    BY <1>5 DEF BuildFirst, Refused, Ends
  <2>2. Honours
    BY <1>1, <1>3, <1>5 DEF Honours
  <2> QED
    BY <1>1, <2>1, <2>2, HonourEnds
<1> QED
  BY <1>4, <1>5

LEMMA BalancingHonour ==
    ASSUME Grained, ActionInv, HonourInv,
           NEW got \in {Floor(job.plan.swap.amount), job.plan.swap.amount}, LandBalancing(got)
    PROVE  HonourInv' /\ Honours
<1> DEFINE inv == Holds(Target, safe)
           after == Holds(Target, safe')
           s == job.plan.swap
           t == Target
<1>1. /\ At("mint", "swap") /\ UNCHANGED <<others, mix, moves, lagged>>
      /\ job' = [job EXCEPT !.phase = "rebuild"] /\ verdict' = "none"
      /\ safe' = IF s.gives = "usdc" THEN [safe EXCEPT !.usdc = @ - s.amount, ![t] = @ + got]
                 ELSE [safe EXCEPT !.usdc = @ + got, ![t] = @ - s.amount]
  BY DEF LandBalancing
<1>2. job.todo = <<"mint", "stake">> /\ job.phase = "swap" /\ job.todo # <<>> /\ job \in Jobs /\ WorldTyped
  BY <1>1, AtMint
<1>3. job'.kind = job.kind /\ job'.budget = job.budget /\ job'.todo = job.todo /\ job'.phase = "rebuild"
  BY <1>1, <1>2 DEF Jobs
<1>4. safe \in [Coins -> Nat] /\ safe' \in [Coins -> Nat] /\ t \in {"src", "dst"}
  <2>1. ActionInv'
    BY BalancingStep
  <2> QED
    BY <1>2, <2>1, Amounted DEF ActionInv, ActionTyped, WorldTyped
<1>5. s.gives # "none" /\ s.gives \in {"none", "usdc", "stock"}
  BY <1>2, JobFields DEF ActionInv, Payable, Minting, Plans
<1>6. /\ s.gives = "usdc" => after.usdc = inv.usdc - s.amount /\ after.stock = inv.stock + got
      /\ s.gives = "stock" => after.usdc = inv.usdc + got /\ after.stock = inv.stock - s.amount
  <2> HIDE DEF s, t
  <2>1. inv = [usdc |-> safe.usdc, stock |-> safe[t]] /\ after = [usdc |-> safe'.usdc, stock |-> safe'[t]]
    BY DEF Holds, t
  <2>2. s.gives = "usdc" => safe'.usdc = safe.usdc - s.amount /\ safe'[t] = safe[t] + got
    BY <1>1, <1>4 DEF Coins
  <2>3. s.gives = "stock" => safe'.usdc = safe.usdc + got /\ safe'[t] = safe[t] - s.amount
    BY <1>1, <1>4 DEF Coins
  <2> QED
    BY <2>1, <2>2, <2>3
<1>7. after \in Stocks
  BY <1>4 DEF Stocks, Holds, Coins
<1>8. ASSUME Promised' PROVE Kept'
  <2>1. moves = 0 /\ ~lagged /\ job.kind # "enter"
    BY <1>1, <1>3, <1>8 DEF Promised
  <2>2. /\ ~others.stranger /\ Fits(job.budget, mix.target) /\ Kept /\ job.budget \in Nat
        /\ mix.target \in 0..Parts /\ inv \in Stocks
    BY <1>1, <2>1, MintPromised
  <2>3. Affords(job.budget, mix.target, inv) /\ s = Swap(Sides(job.budget, mix.target), inv)
    BY <1>2, <2>2 DEF Kept, Minting
  <2> DEFINE b == job.budget
             m == mix.target
  <2>4. Halved(b, m, after)
    <3>1. got \in {Floor(s.amount), s.amount} /\ b \in Nat /\ m \in 0..Parts /\ Affords(b, m, inv)
          /\ s = Swap(Sides(b, m), inv)
      BY <2>2, <2>3
    <3> HIDE DEF b, m, inv, after, s
    <3>2. LET w == Swap(Sides(b, m), inv)
          IN  /\ w.gives # "none" /\ got \in {Floor(w.amount), w.amount}
              /\ w.gives = "usdc" => after.usdc = inv.usdc - w.amount /\ after.stock = inv.stock + got
              /\ w.gives = "stock" => after.usdc = inv.usdc + got /\ after.stock = inv.stock - w.amount
      BY <1>5, <1>6, <3>1
    <3> QED
      BY <1>7, <2>2, <3>1, <3>2, SwapHalves
  <2>5. Swap(Sides(b, m), after).amount < Impact
    <3>1. got \in {Floor(s.amount), s.amount} /\ b \in Nat /\ m \in 0..Parts /\ Affords(b, m, inv)
          /\ s = Swap(Sides(b, m), inv)
      BY <2>2, <2>3
    <3> HIDE DEF b, m, inv, after, s
    <3>2. LET w == Swap(Sides(b, m), inv)
          IN  /\ w.gives # "none" /\ got \in {Floor(w.amount), w.amount}
              /\ w.gives = "usdc" => after.usdc = inv.usdc - w.amount /\ after.stock = inv.stock + got
              /\ w.gives = "stock" => after.usdc = inv.usdc + got /\ after.stock = inv.stock - w.amount
      BY <1>5, <1>6, <3>1
    <3> QED
      BY <1>7, <2>2, <3>1, <3>2, SwapShrinks
  <2> QED
    BY <1>1, <1>2, <1>3, <2>2, <2>4, <2>5, KeptInMint
<1>9. HonourInv'
  <2>1. Promised' => Kept'
    BY <1>8
  <2> QED
    BY <1>1, <1>2, <1>3, <2>1, HonourGoes
<1> QED
  BY <1>1, <1>9 DEF Honours

LEMMA RebuildHonour ==
    ASSUME Grained, ActionInv, HonourInv, RebuildAfterSwap
    PROVE  HonourInv' /\ Honours
<1>1. At("mint", "rebuild") /\ UNCHANGED <<others, safe, mix, moves>>
  BY DEF RebuildAfterSwap, Reads
<1>2. job.todo = <<"mint", "stake">> /\ job.phase = "rebuild" /\ job.todo # <<>> /\ job \in Jobs
  BY <1>1, AtMint
<1>3. PICK a \in Answers : FromInventory(job.budget, a, "approve")
  BY DEF RebuildAfterSwap
<1> DEFINE inv == Holds(Target, a.safe)
           m == mix.target
           c == Resized(job.budget, m, inv)
           p == Plan(c, m, inv)
<1>4. /\ lagged' = (lagged \/ a # [safe |-> safe, granted |-> granted])
      /\ IF Buildable(job.budget, m, inv) /\ Buildable(c, m, inv) /\ p.swap.gives = "none"
         THEN job' = [job EXCEPT !.plan = p, !.phase = "approve"] /\ verdict' = "none"
         ELSE Refused
  BY <1>3 DEF FromInventory, Heard
<1>5. ASSUME moves' = 0, ~lagged', job.kind # "enter"
      PROVE  /\ ~others.stranger /\ Fits(job.budget, m) /\ a.safe = safe
             /\ Fits(c, m) /\ FromSafe(c, m, inv)
             /\ Buildable(c, m, inv) /\ p.swap.gives = "none"
             /\ Buildable(job.budget, m, inv) \/ SwapFellShort
  <2>1. moves = 0 /\ ~lagged /\ a = [safe |-> safe, granted |-> granted]
    BY <1>1, <1>4, <1>5
  <2>2. a.safe = safe
    BY <2>1
  <2>3. /\ ~others.stranger /\ Fits(job.budget, m) /\ Kept /\ job.budget \in Budgets /\ job.budget \in Nat
        /\ m \in 0..Parts /\ Holds(Target, safe) \in Stocks /\ Existing \in Nat
    BY <1>1, <1>5, <2>1, MintPromised
  <2>4. inv \in Stocks /\ Halved(job.budget, m, inv)
    BY <1>2, <2>2, <2>3 DEF Kept, Minting
  <2>5. job.budget >= 3 * Parts
    BY <2>3 DEF Grained
  <2> DEFINE b == job.budget
  <2>6. c \in Nat /\ Fits(c, m) /\ FromSafe(c, m, inv)
    <3>1. b \in Nat /\ b >= 3 * Parts /\ Fits(b, m) /\ Halved(b, m, inv)
      BY <2>3, <2>4, <2>5
    <3>2. c = Resized(b, m, inv)
      OBVIOUS
    <3> HIDE DEF b, c, m, inv
    <3> QED
      BY <2>3, <2>4, <3>1, <3>2, ResizedFits
  <2>7. Buildable(c, m, inv) /\ p.swap.gives = "none"
    <3> HIDE DEF c, m, inv
    <3> QED
      BY <2>3, <2>4, <2>6, SafeBuilt
  <2>8. Buildable(b, m, inv) \/ SwapFellShort
    <3>1. Broken(b, m, Existing, inv) \subseteq {"funds"}
      <4>1. b \in Nat /\ Fits(b, m) /\ Swap(Sides(b, m), inv).amount < Impact
        BY <1>2, <2>2, <2>3 DEF Kept, Minting
      <4> HIDE DEF b, m, inv
      <4> QED
        BY <2>3, <2>4, <4>1, OnlyFunds
    <3>2. CASE Broken(b, m, Existing, inv) = {}
      BY <2>3, <3>2 DEF Buildable
    <3>3. CASE Broken(b, m, Existing, inv) = {"funds"}
      BY <1>1, <2>2, <3>3 DEF SwapFellShort
    <3> QED
      BY <3>1, <3>2, <3>3
  <2> QED
    BY <2>2, <2>3, <2>6, <2>7, <2>8
<1> HIDE DEF c
<1>6. CASE Buildable(job.budget, m, inv) /\ Buildable(c, m, inv) /\ p.swap.gives = "none"
  <2>1. job' = [job EXCEPT !.plan = p, !.phase = "approve"] /\ verdict' = "none"
    BY <1>4, <1>6
  <2>2. /\ job'.kind = job.kind /\ job'.budget = job.budget /\ job'.todo = job.todo
        /\ job'.phase = "approve" /\ job'.plan = p
    <3> HIDE DEF p
    <3> QED
      BY <1>2, <2>1 DEF Jobs
  <2>3. p.budget = c
    BY DEF Plan
  <2> HIDE DEF p
  <2>4. ASSUME Promised' PROVE Kept'
    <3>1. /\ ~others.stranger /\ Fits(job.budget, m) /\ a.safe = safe
          /\ Fits(c, m) /\ FromSafe(c, m, inv)
      BY <1>5, <2>2, <2>4 DEF Promised
    <3>2. Holds(Target, safe') = inv
      BY <1>1, <3>1
    <3> QED
      BY <1>1, <1>2, <2>2, <2>3, <3>1, <3>2, KeptInMint
  <2>5. Promised' => Kept'
    BY <2>4
  <2>6. HonourInv'
    BY <1>1, <1>2, <2>2, <2>5, HonourGoes
  <2> QED
    BY <2>1, <2>6 DEF Honours
<1>7. CASE ~(Buildable(job.budget, m, inv) /\ Buildable(c, m, inv) /\ p.swap.gives = "none")
  <2>1. job' = Resting
    BY <1>4, <1>7 DEF Refused, Ends
  <2>2. Honours
    BY <1>5, <1>7 DEF Honours
  <2> QED
    BY <1>1, <2>1, <2>2, HonourEnds
<1> QED
  BY <1>6, <1>7

LEMMA ApproveHonour ==
    ASSUME ActionInv, HonourInv, Approve
    PROVE  HonourInv' /\ Honours
<1>1. At("mint", "approve") /\ UNCHANGED <<others, safe, mix, moves, verdict>>
  BY DEF Approve
<1>2. /\ job.todo = <<"mint", "stake">> /\ job.phase = "approve" /\ job.todo # <<>> /\ job \in Jobs
      /\ verdict = "none"
  BY <1>1, AtMint
<1>3. PICK a \in Answers :
          /\ Heard(a)
          /\ \E f : job' = [job EXCEPT !.phase = "final", !.floor = f]
  BY DEF Approve
<1>4. PICK f : job' = [job EXCEPT !.phase = "final", !.floor = f]
  BY <1>3
<1>5. /\ job'.kind = job.kind /\ job'.budget = job.budget /\ job'.todo = job.todo
      /\ job'.phase = "final" /\ job'.plan = job.plan
  BY <1>2, <1>4 DEF Jobs
<1>6. ASSUME Promised' PROVE Kept'
  <2>1. moves = 0 /\ ~lagged /\ job.kind # "enter"
    BY <1>1, <1>3, <1>5, <1>6 DEF Promised, Heard
  <2>2. ~others.stranger /\ Fits(job.budget, mix.target) /\ Kept
    BY <1>1, <2>1, MintPromised
  <2>3. /\ Fits(job.plan.budget, mix.target)
        /\ FromSafe(job.plan.budget, mix.target, Holds(Target, safe))
    BY <1>2, <2>2 DEF Kept, Minting
  <2> QED
    BY <1>1, <1>2, <1>5, <2>2, <2>3, KeptInMint
<1>7. HonourInv'
  <2>1. Promised' => Kept'
    BY <1>6
  <2> QED
    BY <1>1, <1>2, <1>5, <2>1, HonourGoes
<1> QED
  BY <1>1, <1>2, <1>7 DEF Honours

LEMMA FinalHonour ==
    ASSUME ActionInv, HonourInv, FinalRound
    PROVE  HonourInv' /\ Honours
<1>1. At("mint", "final") /\ UNCHANGED <<others, safe, mix, moves>>
  BY DEF FinalRound
<1>2. /\ job.todo = <<"mint", "stake">> /\ job.phase = "final" /\ job.todo # <<>> /\ job \in Jobs
      /\ verdict = "none"
  BY <1>1, AtMint
<1>3. CASE job.round = Rounds
  <2>1. job' = Resting /\ verdict' = "exhausted"
    BY <1>3 DEF FinalRound, Ends
  <2> QED
    BY <1>1, <2>1, HonourEnds DEF Honours
<1>4. CASE job.round # Rounds
  <2> DEFINE inv(a) == Holds(Target, a.safe)
             m == mix.target
             c(a) == Resized(job.plan.budget, m, inv(a))
             p(a) == Plan(c(a), m, inv(a))
             spent == [job EXCEPT !.round = @ + 1]
  <2>1. PICK a \in Answers :
            /\ lagged' = (lagged \/ a # [safe |-> safe, granted |-> granted])
            /\ \/ /\ \/ ~Buildable(job.plan.budget, m, inv(a))
                     \/ ~Buildable(c(a), m, inv(a)) \/ p(a).swap.gives # "none"
                  /\ Refused
               \/ /\ job' = [spent EXCEPT !.plan.want = p(a).want, !.plan.mix = p(a).mix,
                                          !.phase = "estimate"]
                  /\ verdict' = verdict
               \/ /\ \E f : job' = [spent EXCEPT !.floor = f]
                  /\ verdict' = verdict
    BY <1>4 DEF FinalRound, Heard
  <2>2. ASSUME moves' = 0, ~lagged', job.kind # "enter"
        PROVE  /\ ~others.stranger /\ Fits(job.budget, m) /\ a.safe = safe
               /\ Fits(job.plan.budget, m) /\ FromSafe(job.plan.budget, m, inv(a))
               /\ c(a) = job.plan.budget /\ job.plan.budget \in Nat /\ inv(a) \in Stocks
               /\ Buildable(job.plan.budget, m, inv(a))
               /\ Buildable(c(a), m, inv(a)) /\ p(a).swap.gives = "none" /\ m \in 0..Parts
    <3>1. moves = 0 /\ ~lagged /\ a = [safe |-> safe, granted |-> granted]
      BY <1>1, <2>1, <2>2
    <3>2. a.safe = safe
      BY <3>1
    <3>3. /\ ~others.stranger /\ Fits(job.budget, m) /\ Kept
          /\ m \in 0..Parts /\ Holds(Target, safe) \in Stocks /\ Existing \in Nat
      BY <1>1, <2>2, <3>1, MintPromised
    <3>4. /\ inv(a) \in Stocks
          /\ Fits(job.plan.budget, m) /\ FromSafe(job.plan.budget, m, inv(a))
      BY <1>2, <3>2, <3>3 DEF Kept, Minting
    <3>5. job.plan.budget \in Nat
      BY <1>2, JobFields DEF Plans
    <3> DEFINE b == job.plan.budget
               i == inv(a)
    <3>6. Resized(b, m, i) = b /\ Buildable(b, m, i) /\ Plan(b, m, i).swap.gives = "none"
      <4>1. b \in Nat /\ Fits(b, m) /\ FromSafe(b, m, i) /\ i \in Stocks
        BY <3>4, <3>5
      <4> HIDE DEF b, m, i
      <4> QED
        BY <3>3, <4>1, SafeBuilt
    <3>7. c(a) = b /\ Buildable(b, m, inv(a)) /\ Buildable(c(a), m, inv(a)) /\ p(a).swap.gives = "none"
      BY <3>6
    <3> QED
      BY <3>2, <3>3, <3>4, <3>5, <3>7
  <2>3. CASE /\ \/ ~Buildable(job.plan.budget, m, inv(a))
                \/ ~Buildable(c(a), m, inv(a)) \/ p(a).swap.gives # "none"
             /\ Refused
    <3>1. job' = Resting
      BY <2>3 DEF Refused, Ends
    <3>2. Honours
      BY <2>2, <2>3 DEF Honours
    <3> QED
      BY <1>1, <3>1, <3>2, HonourEnds
  <2>4. CASE /\ job' = [spent EXCEPT !.plan.want = p(a).want, !.plan.mix = p(a).mix,
                                     !.phase = "estimate"]
             /\ verdict' = verdict
    <3>1. p(a).mix = m /\ p(a).want = Sides(c(a), m)
      BY DEF Plan
    <3>2. job.plan \in Plans
      BY <1>2, JobFields
    <3>3. /\ job'.kind = job.kind /\ job'.budget = job.budget /\ job'.todo = job.todo
          /\ job'.phase = "estimate" /\ job'.plan.mix = m /\ job'.plan.want = Sides(c(a), m)
      <4> HIDE DEF p, c
      <4> QED
        BY <1>2, <2>4, <3>1, <3>2 DEF Jobs, Plans
    <3>4. ASSUME Promised' PROVE Kept'
      <4>1. /\ ~others.stranger /\ Fits(job.budget, m) /\ a.safe = safe
            /\ FromSafe(job.plan.budget, m, inv(a)) /\ c(a) = job.plan.budget
            /\ job.plan.budget \in Nat /\ inv(a) \in Stocks /\ m \in 0..Parts
        BY <2>2, <3>3, <3>4 DEF Promised
      <4>2. Sides(job.plan.budget, m) \in Amounts
        BY <4>1, SidesFacts
      <4>3. /\ Sides(job.plan.budget, m).stock <= inv(a).stock
            /\ Sides(job.plan.budget, m).usdc <= inv(a).usdc
        BY <4>1, <4>2, NoSwap DEF FromSafe
      <4>4. \A s \in Legs : Leg(job'.plan.want, s) <= Leg(Holds(Target, safe'), s)
        <5>1. Holds(Target, safe') = inv(a)
          BY <1>1, <4>1
        <5> HIDE DEF inv
        <5> QED
          BY <3>3, <4>1, <4>3, <5>1 DEF Leg
      <4> QED
        BY <1>1, <1>2, <3>3, <4>1, <4>4, KeptInMint
    <3>5. Promised' => Kept'
      BY <3>4
    <3>6. HonourInv'
      BY <1>1, <1>2, <3>3, <3>5, HonourGoes
    <3> QED
      BY <1>2, <2>4, <3>6 DEF Honours
  <2>5. CASE /\ \E f : job' = [spent EXCEPT !.floor = f]
             /\ verdict' = verdict
    <3>1. PICK f : job' = [spent EXCEPT !.floor = f]
      BY <2>5
    <3>2. /\ job'.kind = job.kind /\ job'.budget = job.budget /\ job'.todo = job.todo
          /\ job'.phase = "final" /\ job'.plan = job.plan
      BY <1>2, <3>1 DEF Jobs
    <3>3. ASSUME Promised' PROVE Kept'
      <4>1. /\ ~others.stranger /\ Fits(job.budget, m) /\ a.safe = safe
            /\ Fits(job.plan.budget, m) /\ FromSafe(job.plan.budget, m, inv(a))
        BY <2>2, <3>2, <3>3 DEF Promised
      <4>2. Holds(Target, safe') = inv(a)
        BY <1>1, <4>1
      <4> QED
        BY <1>1, <1>2, <3>2, <4>1, <4>2, KeptInMint
    <3>4. Promised' => Kept'
      BY <3>3
    <3>5. HonourInv'
      BY <1>1, <1>2, <3>2, <3>4, HonourGoes
    <3> QED
      BY <1>2, <2>5, <3>5 DEF Honours
  <2> QED
    BY <2>1, <2>3, <2>4, <2>5
<1> QED
  BY <1>3, <1>4

LEMMA EstimateHonour ==
    ASSUME ActionInv, HonourInv, EstimateMint
    PROVE  HonourInv' /\ Honours
<1>1. At("mint", "estimate") /\ UNCHANGED <<others, safe, mix, moves, granted, lagged>>
  BY DEF EstimateMint, Reads
<1>2. /\ job.todo = <<"mint", "stake">> /\ job.phase = "estimate" /\ job.todo # <<>> /\ job \in Jobs
      /\ verdict = "none"
  BY <1>1, AtMint
<1>3. ASSUME moves = 0, ~lagged, job.kind # "enter"
      PROVE  ~others.stranger /\ Fits(job.budget, mix.target) /\ job' = [job EXCEPT !.phase = "sent"]
             /\ verdict' = "none"
  <2>1. ~others.stranger /\ Fits(job.budget, mix.target) /\ Kept
    BY <1>1, <1>3, MintPromised
  <2>2. job.plan.mix = mix.target /\ \A s \in Legs : Leg(job.plan.want, s) <= Leg(Holds(Target, safe), s)
    BY <1>2, <2>1 DEF Kept, Minting
  <2>3. \A s \in Legs : Leg(job.plan.want, s) <= granted[s]
    BY <1>2 DEF ActionInv, Looping, Minting
  <2>4. Sent
    BY <2>2, <2>3 DEF EstimateMint, Legs
  <2> QED
    BY <2>1, <2>4 DEF Sent
<1>4. Honours
  BY <1>1, <1>3 DEF Honours
<1>5. CASE job' = Resting
  BY <1>1, <1>4, <1>5, HonourEnds
<1>6. CASE job' # Resting
  <2>1. job' = [job EXCEPT !.psc = @ + 1, !.phase = "final"] \/ job' = [job EXCEPT !.phase = "sent"]
    BY <1>6 DEF EstimateMint, Sent, Refused, Ends
  <2>2. job'.kind = job.kind /\ job'.budget = job.budget /\ job'.todo = job.todo
    BY <1>2, <2>1 DEF Jobs
  <2>3. ASSUME Promised' PROVE Kept'
    <3>1. ~others.stranger /\ Fits(job.budget, mix.target) /\ job' = [job EXCEPT !.phase = "sent"]
      BY <1>1, <1>3, <2>2, <2>3 DEF Promised
    <3>2. job'.phase = "sent"
      BY <1>2, <3>1 DEF Jobs
    <3> QED
      BY <1>1, <1>2, <2>2, <3>1, <3>2, KeptInMint
  <2>4. Promised' => Kept'
    BY <2>3
  <2>5. HonourInv'
    BY <1>1, <1>2, <2>2, <2>4, HonourGoes
  <2> QED
    BY <1>4, <2>5
<1> QED
  BY <1>5, <1>6

LEMMA MintHonour ==
    ASSUME ActionInv, HonourInv, LandMint
    PROVE  HonourInv' /\ Honours
<1>1. At("mint", "sent") /\ UNCHANGED <<others, mix, moves, lagged>>
  BY DEF LandMint
<1>2. job.todo = <<"mint", "stake">> /\ job.phase = "sent" /\ job.todo # <<>> /\ job \in Jobs
  BY <1>1, AtMint
<1>3. CASE job.plan.mix # mix.target
  <2>1. job' = Resting /\ verdict' = "failed"
    BY <1>3 DEF LandMint, Failed, Ends
  <2> QED
    BY <1>1, <2>1, HonourEnds DEF Honours
<1>4. CASE job.plan.mix = mix.target
  <2>1. Onwards
    BY <1>4 DEF LandMint
  <2>2. ASSUME Promised', job' = [job EXCEPT !.todo = Tail(job.todo), !.phase = "build"]
        PROVE  Kept'
    <3>1. job'.kind = job.kind /\ job'.budget = job.budget /\ job'.todo = Tail(job.todo)
      BY <1>2, <2>2 DEF Jobs
    <3>2. moves = 0 /\ ~lagged /\ job.kind # "enter"
      BY <1>1, <2>2, <3>1 DEF Promised
    <3>3. ~others.stranger /\ Fits(job.budget, mix.target)
      BY <1>1, <3>2, MintPromised
    <3>4. Head(job'.todo) = "stake"
      BY <1>2, <3>1, RouteHeads
    <3> QED
      BY <1>1, <3>1, <3>3, <3>4, KeptEarlier
  <2>3. (Len(job.todo) # 1 /\ Promised' /\ job' = [job EXCEPT !.todo = Tail(job.todo), !.phase = "build"])
            => Kept'
    BY <2>2
  <2>4. HonourInv'
    BY <1>1, <1>2, <2>1, <2>3, OnwardsHonour
  <2>5. verdict' # "refused"
    BY <2>1 DEF Onwards, Ends
  <2> QED
    BY <2>4, <2>5 DEF Honours
<1> QED
  BY <1>3, <1>4

LEMMA HonourStart == ActionInit => HonourInv
<1> SUFFICES ASSUME ActionInit PROVE HonourInv
  OBVIOUS
<1>1. others.committed \in Nat /\ others.held \in BOOLEAN
  BY ActionBounds DEF ActionInit
<1>2. job.kind = "collect" /\ job.todo = <<>>
  BY DEF ActionInit, Resting, Fresh
<1> QED
  BY <1>1, <1>2 DEF HonourInv, Routes, Leaving, Promised

LEMMA HonourStep ==
    ASSUME Grained, ActionInv, HonourInv, [ActionNext]_actionVars
    PROVE  HonourInv' /\ [Honours]_actionVars
<1>1. CASE UNCHANGED actionVars
  <2>d. /\ Target' = Target /\ Sold' = Sold /\ Holds(Target, safe)' = Holds(Target, safe)
        /\ Holds(Target, Sold)' = Holds(Target, Sold)
    BY <1>1 DEF actionVars, Holds, Sold, Target
  <2>e. Holds(Target, Foreseen)' = Holds(Target, Foreseen)
    BY <1>1 DEF actionVars, Holds, Foreseen, Projected, ProjectedSwitch, Out, Target
  <2>f. /\ job' = job /\ mix' = mix /\ others' = others
        /\ Fits(job.budget, mix.target)' = Fits(job.budget, mix.target)
        /\ Fits(job.plan.budget, mix.target)' = Fits(job.plan.budget, mix.target)
    BY <1>1 DEF actionVars, Fits, Existing
  <2>a. Kept => Kept'
    BY <2>d, <2>e, <2>f DEF Kept, Minting
  <2>b. Promised' => Promised
    BY <1>1 DEF actionVars, Promised
  <2>c. Routes'
    BY <1>1 DEF HonourInv, actionVars, Routes
  <2>1. HonourInv'
    BY <1>1, <2>a, <2>b, <2>c DEF HonourInv, actionVars
  <2> QED
    BY <1>1, <2>1
<1>2. ASSUME NEW kind \in {"enter", "recenter", "switch", "exit", "collect"}, NEW b \in Budgets, Begin(kind, b)
      PROVE  HonourInv' /\ Honours
  <2>1. kind \in ActionKinds
    BY DEF ActionKinds
  <2> QED
    BY <1>2, <2>1, BeginHonour
<1>3. CASE PreflightRecenter \/ PreflightSwitch
  BY <1>3, PreflightHonour
<1>4. CASE BuildUnstake \/ LandUnstake
  BY <1>4, UnstakeHonour
<1>5. CASE BuildWithdraw \/ LandWithdraw
  BY <1>5, WithdrawHonour
<1>6. CASE BuildExitSwap \/ \E got \in {Floor(safe.src), safe.src} : LandExitSwap(got)
  BY <1>6, SellHonour
<1>7. CASE Collect \/ Stake \/ DeliveryFails \/ GatesClose
  BY <1>7, ClosingHonour
<1>8. CASE BuildFirst \/ RebuildAfterSwap \/ Approve \/ FinalRound \/ EstimateMint \/ LandMint
  BY <1>8, FirstHonour, RebuildHonour, ApproveHonour, FinalHonour, EstimateHonour, MintHonour
<1>9. ASSUME NEW got \in {Floor(job.plan.swap.amount), job.plan.swap.amount}, LandBalancing(got)
      PROVE  HonourInv' /\ Honours
  BY <1>9, BalancingHonour
<1>10. CASE Accrue \/ \E m \in 0..Parts : Move(m)
  BY <1>10, MarketHonour
<1> QED
  BY <1>1, <1>2, <1>3, <1>4, <1>5, <1>6, <1>7, <1>8, <1>9, <1>10 DEF ActionNext

(* A recenter or a switch that passed its preflight is not refused at its  *)
(* mint while the market, the gates and the node's view stay as they were, *)
(* except for funds at the one build after the balancing swap              *)
(* (lp_executor.py:3950, :4082): the preflight counts no less than the     *)
(* mint, a swap that slips by half at most leaves half of each side and    *)
(* needs none larger than itself, and the budget resized to that is a plan *)
(* again, in every later round as well.                                    *)
THEOREM PreflightsHonoured == ASSUME Grained PROVE ActionSpec => PreflightHonoured
<1>1. ActionInit => ActionInv /\ HonourInv
  BY ActionStart, HonourStart
<1>2. ActionInv /\ HonourInv /\ [ActionNext]_actionVars => (ActionInv /\ HonourInv)'
  BY ActionStep, HonourStep
<1>3. ActionInv /\ HonourInv /\ [ActionNext]_actionVars => [Honours]_actionVars
  BY HonourStep
<1> QED
  BY <1>1, <1>2, <1>3, PTL DEF ActionSpec, PreflightHonoured, Honours

-----------------------------------------------------------------------------
(* The pinned session.                                                     *)

USE DurationsAssumption, WorldsAssumption

(* A state the engine accepts.                                             *)
Shaped(s) ==
    /\ s \in State
    /\ s.open => s.held = NoStock
    /\ ~s.open => s.anchor = NoAnchor
    /\ s.anchor.since = 0 <=> s.anchor.side = "none"
    /\ s.held.since = 0 => ~s.held.retry

(* Observing the day changes nothing but the day facts.                    *)
LEMMA ObservedFacts ==
  ASSUME TypeOK, NEW o \in Worlds, NEW day \in Nat \ {0}, NEW s, s = Observed(o, day)
  PROVE  /\ Shaped(s)
         /\ s.open = st.open /\ s.anchor = st.anchor /\ s.held = st.held
         /\ s.blocked = st.blocked /\ s.diluted = st.diluted
         /\ s.day = day /\ s.peak \in Nat
         /\ s.peak >= st.peak /\ s.peak >= o.equity
         /\ st.day = day /\ st.halted = day => s.halted = day
         /\ Drawdown(s.peak, o.equity) => s.halted = day
  <1>1. /\ st.peak \in Nat /\ st.halted \in Nat /\ st.start \in Nat
        /\ o.equity \in Nat /\ Shaped(st)
    BY DEF TypeOK, Shaped, State, Observation
  <1>2. s = ObserveDay(st, o.equity, day)
    BY DEF Observed
  <1>3. /\ s.open = st.open /\ s.anchor = st.anchor /\ s.held = st.held
        /\ s.blocked = st.blocked /\ s.diluted = st.diluted
        /\ s.day = day
    BY <1>2 DEF ObserveDay
  <1>4. /\ s.peak = IF o.equity > st.peak THEN o.equity ELSE st.peak
        /\ st.day = day /\ st.halted = day => s.halted = day
        /\ Drawdown(s.peak, o.equity) => s.halted = day
    BY <1>2 DEF ObserveDay
  <1>5. s \in State
    BY <1>1, <1>2 DEF ObserveDay, Shaped, State
  <1>6. Shaped(s)
    BY <1>1, <1>3, <1>5 DEF Shaped
  <1>7. s.peak \in Nat /\ s.peak >= st.peak /\ s.peak >= o.equity
    BY <1>1, <1>4
  <1> QED
    BY <1>3, <1>4, <1>6, <1>7

(* A decision is one of the kinds of PolicyActionKind.                     *)
LEMMA KindTyped ==
  ASSUME NEW s, NEW o \in Observation, NEW at \in Nat
  PROVE  Kind(s, o, at) \in Kinds
  <1>1. SafetyKind(o) \in SafetyKinds \cup {"none"}
    BY DEF SafetyKind, SafetyKinds
  <1>2. RangeKind(s, o, at) \in Kinds
    BY DEF RangeKind, Kinds
  <1>3. OpenKind(s, o, at) \in Kinds
    BY <1>1, <1>2 DEF OpenKind, Kinds
  <1>4. HeldKind(s, o, at) \in Kinds /\ FlatKind(s, o, at) \in Kinds
    BY DEF HeldKind, FlatKind, Kinds
  <1> QED
    BY <1>3, <1>4 DEF Kind

(* What is decided in which posture.                                       *)
LEMMA KindByPosture ==
  ASSUME NEW s, Shaped(s), NEW o \in Observation, NEW at \in Nat
  PROVE  LET k == Kind(s, o, at) IN
         /\ k \in SafetyKinds \cup {"recenter", "range_grace_exit"} =>
              s.open /\ s.held = NoStock
         /\ k = "enter" => ~s.open /\ EntryPasses(s, o, at)
         /\ k = "sell_inventory" => ~s.open
         /\ k \in {"recenter", "range_grace_exit"} => k = RangeKind(s, o, at)
         /\ s.open /\ k = "hold" => k = RangeKind(s, o, at)
  <1>1. SafetyKind(o) \in SafetyKinds \cup {"none"}
    BY DEF SafetyKind, SafetyKinds
  <1>2. RangeKind(s, o, at) \in {"hold", "recenter", "range_grace_exit"}
    BY DEF RangeKind
  <1>3. HeldKind(s, o, at) \in {"enter", "sell_inventory", "hold"}
    BY DEF HeldKind
  <1>4. FlatKind(s, o, at) \in {"enter", "hold"}
    BY DEF FlatKind
  <1>5. CASE s.held # NoStock
    <2>1. ~s.open /\ Kind(s, o, at) = HeldKind(s, o, at)
      BY <1>5 DEF Shaped, Kind
    <2>2. HeldKind(s, o, at) = "enter" => EntryPasses(s, o, at)
      BY DEF HeldKind
    <2> QED
      BY <2>1, <2>2, <1>3 DEF SafetyKinds
  <1>6. CASE s.held = NoStock /\ s.open
    <2>1. Kind(s, o, at) = IF SafetyKind(o) # "none" THEN SafetyKind(o)
                           ELSE RangeKind(s, o, at)
      BY <1>6 DEF Kind, OpenKind
    <2> QED
      BY <2>1, <1>1, <1>2, <1>6 DEF SafetyKinds
  <1>7. CASE s.held = NoStock /\ ~s.open
    <2>1. Kind(s, o, at) = FlatKind(s, o, at)
      BY <1>7 DEF Kind
    <2>2. FlatKind(s, o, at) = "enter" => EntryPasses(s, o, at)
      BY DEF FlatKind
    <2> QED
      BY <2>1, <2>2, <1>4, <1>7 DEF SafetyKinds
  <1> QED
    BY <1>5, <1>6, <1>7

-----------------------------------------------------------------------------
(* Successor states.                                                       *)

(* Every successor state is one the engine accepts and keeps the day facts.*)
LEMMA AfterShaped ==
  ASSUME NEW s, Shaped(s), NEW o \in Observation, NEW at \in Nat \ {0}
  PROVE  LET a == After(s, o, at) IN
         Shaped(a) /\ a.day = s.day /\ a.peak = s.peak /\ a.halted = s.halted
  <1> DEFINE Good(a) == Shaped(a) /\ a.day = s.day /\ a.peak = s.peak /\ a.halted = s.halted
  <1>1. ASSUME NEW u \in Nat, NEW d \in BOOLEAN PROVE Good(Exited(s, u, d))
    BY DEF Exited, Shaped, State, NoAnchor, NoStock, Anchor, Stock
  <1>2. ASSUME NEW u \in Nat, s.held = NoStock PROVE Good(Burned(s, o, at, u))
    BY <1>2 DEF Burned, Shaped, State, NoAnchor, NoStock, Anchor, Stock
  <1>3. Good(Minted(s)) /\ Good([Minted(s) EXCEPT !.diluted = FALSE])
    BY DEF Minted, Shaped, State, NoAnchor, NoStock, Anchor, Stock
  <1>4. ASSUME ~s.open PROVE Good([s EXCEPT !.held = NoStock])
    BY <1>4 DEF Shaped, State, NoAnchor, NoStock, Anchor, Stock
  <1>5. Good(Waiting(s, o, at))
    <2>1. WaitFrom(s, o, at) \in Nat \ {0}
      BY DEF WaitFrom, Shaped, State, Anchor
    <2>2. Side(o) \in {"none", "above", "below"}
      BY DEF Side
    <2>3. CASE ~s.open \/ s.held # NoStock
      BY <2>3 DEF Waiting
    <2>4. CASE s.open /\ s.held = NoStock
      <3> DEFINE c == IF Side(o) = "none" THEN NoAnchor
                      ELSE [since |-> WaitFrom(s, o, at), side |-> Side(o)]
      <3>1. c \in Anchor /\ (c.since = 0 <=> c.side = "none")
        BY <2>1, <2>2 DEF Anchor, NoAnchor
      <3>2. Waiting(s, o, at) = [s EXCEPT !.anchor = c]
        BY <2>4 DEF Waiting
      <3> HIDE DEF c
      <3>3. Good([s EXCEPT !.anchor = c])
        BY <3>1, <2>4 DEF Shaped, State
      <3> QED
        BY <3>2, <3>3
    <2> QED
      BY <2>3, <2>4
  <1>6. s.blocked \in Nat /\ at + Cooldown \in Nat
    BY DEF Shaped, State
  <1>7. /\ Kind(s, o, at) \in {"stale_low_burn", "range_grace_exit"} => s.held = NoStock
        /\ Kind(s, o, at) = "sell_inventory" => ~s.open
    BY KindByPosture DEF SafetyKinds
  <1> HIDE DEF Good
  <1>8. Good(After(s, o, at))
    BY <1>1, <1>2, <1>3, <1>4, <1>5, <1>6, <1>7 DEF After
  <1> QED
    BY <1>8 DEF Good

(* What each kind of decision does to posture, cooldown, marker and stock. *)
LEMMA AfterFacts ==
  ASSUME NEW s, Shaped(s), NEW o \in Observation, NEW at \in Nat \ {0}
  PROVE  LET a == After(s, o, at)
             k == Kind(s, o, at) IN
         /\ k \in {"enter", "recenter"} =>
              a.open /\ a.anchor = NoAnchor /\ a.held = NoStock
         /\ k = "enter" => a.blocked = s.blocked
         /\ k = "hold" => a = Waiting(s, o, at)
         /\ k = "sell_inventory" => a = [s EXCEPT !.held = NoStock]
         /\ k \in SafetyKinds \cup {"range_grace_exit"} =>
              ~a.open /\ (a.held = NoStock \/ a.held.since = at)
         /\ k \in {"stop_out", "dilution_exit", "range_grace_exit"} =>
              a.blocked = at + Cooldown
         /\ k = "dilution_exit" => a.diluted
  <1> DEFINE k == Kind(s, o, at)
  <1> USE DEF Shaped, State
  <1>1. CASE k \in {"enter", "recenter"}
    BY <1>1 DEF After, Minted, SafetyKinds
  <1>2. CASE k = "hold"
    BY <1>2 DEF After, SafetyKinds
  <1>3. CASE k = "sell_inventory"
    BY <1>3 DEF After, SafetyKinds
  <1>4. CASE k \in {"defensive_exit", "dislocation_exit", "event_exit", "stop_out", "dilution_exit"}
    <2>1. s.held = NoStock
      BY <1>4, KindByPosture DEF SafetyKinds
    <2> QED
      BY <1>4, <2>1 DEF After, Exited
  <1>5. CASE k \in {"stale_low_burn", "range_grace_exit"}
    BY <1>5 DEF After, Burned
  <1> QED
    BY <1>1, <1>2, <1>3, <1>4, <1>5, KindTyped DEF Kinds, SafetyKinds

-----------------------------------------------------------------------------
(* Steps.                                                                  *)

(* The five outcomes of a cycle, told apart by whether the decision was    *)
(* carried out.                                                            *)
Step(o, day, done) ==
    \/ done = TRUE /\ Completes(o, day)
    \/ /\ done = FALSE
       /\ \/ Fails(o, day) \/ SaleFails(o, day)
          \/ MintFails(o, day) \/ MintFailsInCash(o, day)

(* What a cycle does to the policy state, with s the state decided on.     *)
Moved(s, t, o, done) ==
    LET k == Kind(s, o, now) IN
    /\ Shaped(t)
    /\ t.day = s.day /\ t.peak = s.peak /\ t.halted = s.halted
    /\ ~s.open => t.blocked = s.blocked
    /\ ~s.open /\ k # "enter" => ~t.open /\ t.diluted = s.diluted
    /\ s.open /\ ~t.open /\ k \in {"stop_out", "dilution_exit", "range_grace_exit"} =>
         t.blocked = now + Cooldown
    /\ s.open /\ ~t.open /\ k = "dilution_exit" => t.diluted
    /\ \/ t.held = NoStock
       \/ s.held = NoStock /\ t.held.since = now
       \/ t.held.since = s.held.since
    /\ ~t.open \/ (done /\ k \in {"enter", "recenter"}) => t.anchor = NoAnchor
    /\ t.open /\ ~(done /\ k \in {"enter", "recenter"}) =>
         s.open /\ t.anchor = IF k = "hold" THEN Waiting(s, o, now).anchor ELSE s.anchor

LEMMA MovedByAfter ==
  ASSUME NEW s, Shaped(s), NEW o \in Observation, now \in Nat \ {0}
  PROVE  Moved(s, After(s, o, now), o, TRUE)
  <1> DEFINE a == After(s, o, now)
             k == Kind(s, o, now)
  <1>0. s \in State /\ (s.open => s.held = NoStock) /\ (~s.open => s.anchor = NoAnchor)
    BY DEF Shaped
  <1>1. Shaped(a) /\ a.day = s.day /\ a.peak = s.peak /\ a.halted = s.halted
    BY AfterShaped
  <1>2. ~a.open => a.anchor = NoAnchor
    BY <1>1 DEF Shaped
  <1>3. CASE k = "hold"
    <2>1. a = Waiting(s, o, now)
      BY <1>3, AfterFacts
    <2>2. a.open = s.open /\ a.held = s.held /\ a.blocked = s.blocked /\ a.diluted = s.diluted
      BY <2>1, <1>0 DEF Waiting, State
    <2> QED
      BY <1>1, <1>2, <1>3, <2>1, <2>2 DEF Moved
  <1>4. CASE k = "sell_inventory"
    <2>1. a = [s EXCEPT !.held = NoStock] /\ ~s.open
      BY <1>4, AfterFacts, KindByPosture
    <2>2. a.open = s.open /\ a.held = NoStock /\ a.blocked = s.blocked /\ a.diluted = s.diluted
      BY <2>1, <1>0 DEF State
    <2> QED
      BY <1>1, <1>2, <1>4, <2>1, <2>2 DEF Moved
  <1>5. CASE k \in {"enter", "recenter"}
    <2>1. /\ a.open /\ a.anchor = NoAnchor /\ a.held = NoStock
          /\ k = "enter" => a.blocked = s.blocked
      BY <1>5, AfterFacts
    <2>2. k = "recenter" => s.open
      BY KindByPosture
    <2> QED
      BY <1>1, <1>5, <2>1, <2>2 DEF Moved
  <1>6. CASE k \in SafetyKinds \cup {"range_grace_exit"}
    <2>1. s.open /\ s.held = NoStock
      BY <1>6, KindByPosture
    <2>2. /\ ~a.open /\ (a.held = NoStock \/ a.held.since = now)
          /\ k \in {"stop_out", "dilution_exit", "range_grace_exit"} =>
               a.blocked = now + Cooldown
          /\ k = "dilution_exit" => a.diluted
      BY <1>6, AfterFacts
    <2> QED
      BY <1>1, <1>2, <2>1, <2>2 DEF Moved
  <1> QED
    BY <1>3, <1>4, <1>5, <1>6, KindTyped DEF Kinds

LEMMA MovedByUndone ==
  ASSUME NEW s, Shaped(s), NEW o \in Observation, now \in Nat \ {0},
         Kind(s, o, now) \notin {"hold", "enter"}
  PROVE  Moved(s, Undone(s, After(s, o, now)), o, FALSE)
  <1> DEFINE a == After(s, o, now)
             t == Undone(s, a)
             k == Kind(s, o, now)
  <1>1. Shaped(a) /\ a.day = s.day /\ a.peak = s.peak /\ a.halted = s.halted
    BY AfterShaped
  <1>2. /\ t.open = s.open /\ t.anchor = s.anchor /\ t.held = s.held
        /\ t.blocked = a.blocked /\ t.diluted = a.diluted
        /\ t.day = s.day /\ t.peak = s.peak /\ t.halted = s.halted
    BY <1>1 DEF Undone, Shaped, State
  <1>3. t \in State
    BY <1>1 DEF Undone, Shaped, State
  <1>4. Shaped(t)
    BY <1>2, <1>3 DEF Shaped
  <1>5. ~s.open => a.blocked = s.blocked /\ a.diluted = s.diluted
    BY MovedByAfter DEF Moved
  <1>6. ~s.open => s.anchor = NoAnchor
    BY DEF Shaped
  <1> QED
    BY <1>2, <1>4, <1>5, <1>6 DEF Moved

LEMMA MovedBySaleFails ==
  ASSUME NEW s, Shaped(s), NEW o \in Observation, now \in Nat \ {0},
         Kind(s, o, now) \in SafetyKinds
  PROVE  Moved(s, LeftUnsold(After(s, o, now), o, now), o, FALSE)
  <1> DEFINE a == After(s, o, now)
             h == IF Side(o) = "above" THEN NoStock ELSE [since |-> now, retry |-> FALSE]
             t == LeftUnsold(a, o, now)
             k == Kind(s, o, now)
  <1>1. Shaped(a) /\ a.day = s.day /\ a.peak = s.peak /\ a.halted = s.halted
    BY AfterShaped
  <1>2. /\ ~a.open
        /\ k \in {"stop_out", "dilution_exit", "range_grace_exit"} =>
             a.blocked = now + Cooldown
        /\ k = "dilution_exit" => a.diluted
    BY AfterFacts
  <1>3. s.open /\ s.held = NoStock /\ a.anchor = NoAnchor
    BY <1>1, <1>2, KindByPosture DEF Shaped
  <1>4. /\ h \in Stock /\ (h = NoStock \/ h.since = now)
        /\ h.since = 0 => ~h.retry
    BY DEF Stock, NoStock
  <1>5. t = [a EXCEPT !.held = h]
    BY DEF LeftUnsold
  <1> HIDE DEF h
  <1>6. /\ t.open = a.open /\ t.anchor = a.anchor /\ t.held = h
        /\ t.blocked = a.blocked /\ t.diluted = a.diluted
        /\ t.day = a.day /\ t.peak = a.peak /\ t.halted = a.halted
        /\ t \in State
    BY <1>1, <1>4, <1>5 DEF Shaped, State
  <1>7. Shaped(t)
    BY <1>1, <1>2, <1>4, <1>6 DEF Shaped
  <1> QED
    BY <1>1, <1>2, <1>3, <1>4, <1>6, <1>7 DEF Moved

LEMMA MovedByMintFails ==
  ASSUME NEW s, Shaped(s), NEW o \in Observation, now \in Nat \ {0},
         Kind(s, o, now) \in {"enter", "recenter"}
  PROVE  /\ Moved(s, LeftLoose(s, After(s, o, now), now), o, FALSE)
         /\ Moved(s, LeftCash(After(s, o, now)), o, FALSE)
  <1> DEFINE a == After(s, o, now)
             l == LeftLoose(s, a, now)
             c == LeftCash(a)
             k == Kind(s, o, now)
  <1>1. Shaped(a) /\ a.day = s.day /\ a.peak = s.peak /\ a.halted = s.halted
    BY AfterShaped
  <1>2. (k = "recenter" => s.open) /\ (k = "enter" => a.blocked = s.blocked)
    BY KindByPosture, AfterFacts
  <1>3. PICK h \in Stock : /\ h = [since |-> IF s.held = NoStock THEN now ELSE s.held.since,
                                   retry |-> TRUE]
                           /\ h.since # 0
    <2>1. s.held \in Stock /\ (s.held.since = 0 => s.held.retry = FALSE)
      BY DEF Shaped, State, Stock
    <2>2. s.held.since = 0 => s.held = NoStock
      BY <2>1 DEF Stock, NoStock
    <2> DEFINE u == IF s.held = NoStock THEN now ELSE s.held.since
    <2>3. u \in Nat /\ u # 0
      BY <2>1, <2>2 DEF Stock
    <2> HIDE DEF u
    <2>4. [since |-> u, retry |-> TRUE] \in Stock
      BY <2>3 DEF Stock
    <2> QED
      BY <2>3, <2>4 DEF u
  <1>4. l = [a EXCEPT !.open = FALSE, !.anchor = NoAnchor, !.held = h]
    BY <1>3 DEF LeftLoose
  <1>5. /\ ~l.open /\ l.anchor = NoAnchor /\ l.held = h /\ l.blocked = a.blocked
        /\ l.day = s.day /\ l.peak = s.peak /\ l.halted = s.halted
    BY <1>1, <1>4 DEF Shaped, State
  <1>6. NoAnchor \in Anchor /\ NoAnchor.since = 0 /\ NoAnchor.side = "none"
    BY DEF Anchor, NoAnchor
  <1>7. l \in State
    BY <1>1, <1>4, <1>6 DEF Shaped, State
  <1>8. Shaped(l)
    BY <1>3, <1>5, <1>6, <1>7 DEF Shaped
  <1>9. /\ ~c.open /\ c.anchor = NoAnchor /\ c.held = NoStock /\ c.blocked = a.blocked
        /\ c.day = s.day /\ c.peak = s.peak /\ c.halted = s.halted
    BY <1>1 DEF LeftCash, Shaped, State
  <1>10. c \in State
    BY <1>1 DEF LeftCash, Shaped, State, Anchor, NoAnchor, Stock, NoStock
  <1>11. Shaped(c)
    BY <1>6, <1>9, <1>10 DEF Shaped, NoStock
  <1>12. (s.held = NoStock /\ l.held.since = now) \/ l.held.since = s.held.since
    BY <1>3, <1>5
  <1> QED
    BY <1>2, <1>5, <1>8, <1>9, <1>11, <1>12 DEF Moved

LEMMA StepMoves ==
  ASSUME TypeOK, NEW o \in Worlds, NEW day \in Nat \ {0}, NEW done \in BOOLEAN,
         Step(o, day, done)
  PROVE  LET s == Observed(o, day) IN
         Moved(s, st', o, done) /\ Recorded(o, day, s, done)
  <1> DEFINE s == Observed(o, day)
  <1>1. now \in Nat \ {0} /\ o \in Observation
    BY DEF TypeOK
  <1>2. Shaped(s)
    BY ObservedFacts
  <1> HIDE DEF s
  <1>3. CASE done = TRUE /\ Completes(o, day)
    <2>1. st' = After(s, o, now) /\ Recorded(o, day, s, TRUE)
      BY <1>3 DEF Completes, s
    <2> QED
      BY <1>1, <1>2, <1>3, <2>1, MovedByAfter DEF s
  <1>4. CASE done = FALSE /\ Fails(o, day)
    <2>1. /\ Kind(s, o, now) \notin {"hold", "enter"}
          /\ st' = Undone(s, After(s, o, now)) /\ Recorded(o, day, s, FALSE)
      BY <1>4 DEF Fails, s
    <2> QED
      BY <1>1, <1>2, <1>4, <2>1, MovedByUndone DEF s
  <1>5. CASE done = FALSE /\ MintFails(o, day)
    <2>1. /\ Kind(s, o, now) \in {"enter", "recenter"}
          /\ st' = LeftLoose(s, After(s, o, now), now) /\ Recorded(o, day, s, FALSE)
      BY <1>5 DEF MintFails, s
    <2> QED
      BY <1>1, <1>2, <1>5, <2>1, MovedByMintFails DEF s
  <1>6. CASE done = FALSE /\ MintFailsInCash(o, day)
    <2>1. /\ Kind(s, o, now) \in {"enter", "recenter"}
          /\ st' = LeftCash(After(s, o, now)) /\ Recorded(o, day, s, FALSE)
      BY <1>6 DEF MintFailsInCash, s
    <2> QED
      BY <1>1, <1>2, <1>6, <2>1, MovedByMintFails DEF s
  <1>7. CASE done = FALSE /\ SaleFails(o, day)
    <2>1. /\ Kind(s, o, now) \in SafetyKinds
          /\ st' = LeftUnsold(After(s, o, now), o, now) /\ Recorded(o, day, s, FALSE)
      BY <1>7 DEF SaleFails, s
    <2> QED
      BY <1>1, <1>2, <1>7, <2>1, MovedBySaleFails DEF s
  <1> QED
    BY <1>3, <1>4, <1>5, <1>6, <1>7 DEF Step

-----------------------------------------------------------------------------
(* The inductive invariant: what the state carries accounts for what was   *)
(* seen and done.                                                          *)

PeakCovers  == \A e \in seen : e <= st.peak
LossLatched == lost => st.day = today /\ st.halted = today
ClockIsOut  == out = st.anchor
ExitArmed ==
    /\ exit.kind # "none" => ~st.open
    /\ exit.kind \in {"cooling", "dilution"} => st.blocked >= exit.at + Cooldown
    /\ exit.kind = "dilution" /\ ~exit.tried => st.diluted
StockTimed  == stock = st.held.since

SessionInv ==
    /\ TypeOK
    /\ PeakCovers /\ LossLatched /\ LossHaltHolds
    /\ ClockIsOut /\ ExitArmed /\ StockTimed

LEMMA SessionInit == Init => SessionInv
  <1> SUFFICES ASSUME Init PROVE SessionInv
    OBVIOUS
  <1> USE DEF Init
  <1>1. NoAnchor \in Anchor /\ NoStock \in Stock
    BY DEF NoAnchor, NoStock, Anchor, Stock
  <1>2. st \in State
    BY <1>1 DEF FreshState, State
  <1>3. TypeOK
    <2>1. /\ st.open = FALSE /\ st.held = NoStock /\ st.anchor = NoAnchor
          /\ NoAnchor.since = 0 /\ NoAnchor.side = "none" /\ NoStock.retry = FALSE
      BY DEF FreshState, NoAnchor, NoStock
    <2>2. /\ did \in [kind : Kinds, apr : {"under", "floor", "margin"},
                      width : {"solved", "deferred", "cash"}]
          /\ exit \in [kind : ExitKinds, at : Nat, tried : BOOLEAN]
      BY DEF Kinds, ExitKinds, NoExit
    <2>3. now \in Nat \ {0} /\ today \in Nat \ {0} /\ seen \subseteq Nat /\ stock \in Nat
      OBVIOUS
    <2>4. out \in Anchor /\ lost \in BOOLEAN
      BY <1>1
    <2> HIDE DEF Init
    <2> QED
      BY <1>2, <2>1, <2>2, <2>3, <2>4 DEF TypeOK
  <1>4. PeakCovers /\ LossLatched /\ LossHaltHolds
    BY DEF PeakCovers, LossLatched, LossHaltHolds
  <1>5. ClockIsOut /\ ExitArmed /\ StockTimed
    BY DEF ClockIsOut, ExitArmed, StockTimed, FreshState, NoStock, NoExit
  <1> QED
    BY <1>3, <1>4, <1>5 DEF SessionInv

LEMMA StepTypes ==
  ASSUME TypeOK, NEW o \in Worlds, NEW day \in Nat \ {0}, NEW done \in BOOLEAN,
         Step(o, day, done)
  PROVE  TypeOK'
  <1> DEFINE s == Observed(o, day)
  <1>1. Moved(s, st', o, done) /\ Recorded(o, day, s, done)
    BY StepMoves
  <1> HIDE DEF s
  <1>2. Shaped(st')
    BY <1>1 DEF Moved
  <1>3. now' \in Nat \ {0} /\ today' \in Nat \ {0}
    BY <1>1 DEF Recorded, NowSeen, TypeOK
  <1>4. did' \in [kind : Kinds, apr : {"under", "floor", "margin"},
                  width : {"solved", "deferred", "cash"}]
    <2>1. Kind(s, o, now) \in Kinds /\ o \in Observation
      BY KindTyped DEF TypeOK
    <2> QED
      BY <1>1, <2>1 DEF Recorded, NowSeen, Observation
  <1>5. seen' \subseteq Nat /\ lost' \in BOOLEAN
    BY <1>1 DEF Recorded, NowSeen, TypeOK, Observation
  <1>6. out' \in Anchor
    <2>1. Side(o) \in {"none", "above", "below"} /\ NoAnchor \in Anchor
      BY DEF Side, NoAnchor, Anchor
    <2>2. [since |-> now, side |-> Side(o)] \in Anchor
      BY <2>1 DEF TypeOK, Anchor
    <2>3. out' \in {NoAnchor, out, [since |-> now, side |-> Side(o)]}
      BY <1>1 DEF Recorded, NowOut
    <2> QED
      BY <2>1, <2>2, <2>3 DEF TypeOK
  <1>7. exit' \in [kind : ExitKinds, at : Nat, tried : BOOLEAN]
    <2>1. exit \in [kind : ExitKinds, at : Nat, tried : BOOLEAN] /\ now \in Nat
      BY DEF TypeOK
    <2>2. exit' \in {NoExit, [exit EXCEPT !.tried = TRUE], exit,
                     [kind |-> ExitKind(Kind(s, o, now)), at |-> now, tried |-> FALSE]}
      BY <1>1 DEF Recorded, NowExited
    <2>3. ExitKind(Kind(s, o, now)) \in ExitKinds /\ "none" \in ExitKinds
      BY DEF ExitKind, ExitKinds
    <2>4. [kind |-> ExitKind(Kind(s, o, now)), at |-> now, tried |-> FALSE]
            \in [kind : ExitKinds, at : Nat, tried : BOOLEAN]
      BY <2>1, <2>3
    <2>5. NoExit \in [kind : ExitKinds, at : Nat, tried : BOOLEAN]
      BY <2>3 DEF NoExit
    <2>6. [exit EXCEPT !.tried = TRUE] \in [kind : ExitKinds, at : Nat, tried : BOOLEAN]
      BY <2>1
    <2> QED
      BY <2>1, <2>2, <2>4, <2>5, <2>6
  <1>8. stock' \in Nat
    BY <1>1 DEF Recorded, NowLoose, TypeOK
  <1> QED
    BY <1>2, <1>3, <1>4, <1>5, <1>6, <1>7, <1>8 DEF TypeOK, Shaped

(* The day of the last cycle and the peak it left are what lost needs.     *)
LEMMA StepLatches ==
  ASSUME SessionInv, NEW o \in Worlds, NEW day \in Nat \ {0}, NEW done \in BOOLEAN,
         Step(o, day, done)
  PROVE  PeakCovers' /\ LossLatched' /\ LossHaltHolds'
  <1> DEFINE s == Observed(o, day)
             e == o.equity
  <1>1. Moved(s, st', o, done) /\ Recorded(o, day, s, done)
    BY StepMoves DEF SessionInv
  <1>2. /\ Shaped(st) /\ e \in Nat /\ seen \subseteq Nat /\ st.peak \in Nat
        /\ o \in Observation /\ now \in Nat \ {0}
    BY DEF SessionInv, TypeOK, Shaped, Observation, State
  <1>3. /\ Shaped(s) /\ s.day = day /\ s.peak >= st.peak /\ s.peak >= e
        /\ st.day = day /\ st.halted = day => s.halted = day
        /\ Drawdown(s.peak, e) => s.halted = day
        /\ s.peak \in Nat
    BY ObservedFacts DEF SessionInv
  <1>4. st'.day = day /\ st'.peak = s.peak /\ st'.halted = s.halted
    BY <1>1, <1>3 DEF Moved
  <1>5. /\ seen' = seen \cup {e} /\ today' = day
        /\ lost' = ((lost /\ day = today) \/ \E f \in seen' : Drawdown(f, e))
        /\ did'.kind = Kind(s, o, now)
    BY <1>1 DEF Recorded, NowSeen
  <1> HIDE DEF s
  <1>6. \A f \in seen' : f \in Nat /\ f <= s.peak
    BY <1>2, <1>3, <1>5 DEF SessionInv, PeakCovers
  <1>7. lost' => s.halted = day
    <2>1. CASE lost /\ day = today
      BY <2>1, <1>3 DEF SessionInv, LossLatched
    <2>2. CASE \E f \in seen' : Drawdown(f, e)
      <3>1. PICK f \in seen' : Drawdown(f, e)
        BY <2>2
      <3>2. Drawdown(s.peak, e)
        BY <3>1, <1>2, <1>3, <1>6 DEF Drawdown
      <3> QED
        BY <3>2, <1>3
    <2> QED
      BY <2>1, <2>2, <1>5
  <1>8. PeakCovers'
    BY <1>4, <1>6 DEF PeakCovers
  <1>9. LossLatched'
    BY <1>3, <1>4, <1>5, <1>7 DEF LossLatched
  <1>10. LossHaltHolds'
    <2>1. Kind(s, o, now) = "enter" => ~Halted(s)
      BY <1>2, <1>3, KindByPosture DEF EntryPasses
    <2> QED
      BY <2>1, <1>3, <1>5, <1>7 DEF LossHaltHolds, Halted
  <1> QED
    BY <1>8, <1>9, <1>10

(* A hold or an attempt to leave the range finds the clock where the range *)
(* rules first saw the position out.                                       *)
LEMMA StepClock ==
  ASSUME SessionInv, NEW o \in Worlds, NEW day \in Nat \ {0}, NEW done \in BOOLEAN,
         Step(o, day, done)
  PROVE  ClockIsOut'
  <1> DEFINE s == Observed(o, day)
             k == Kind(s, o, now)
  <1>1. Moved(s, st', o, done) /\ Recorded(o, day, s, done)
    BY StepMoves DEF SessionInv
  <1>2. /\ Shaped(st) /\ o \in Observation /\ o.equity \in Nat /\ now \in Nat \ {0}
        /\ out = st.anchor
    BY DEF SessionInv, TypeOK, Shaped, Observation, ClockIsOut
  <1>3. Shaped(s) /\ s.anchor = st.anchor /\ s.open = st.open
    BY ObservedFacts DEF SessionInv
  <1>4. out' = IF ~st'.open \/ (done /\ k \in {"enter", "recenter"}) THEN NoAnchor
               ELSE IF k \in SafetyKinds THEN out
               ELSE IF Side(o) = "none" THEN NoAnchor
               ELSE IF out.side = Side(o) THEN out
               ELSE [since |-> now, side |-> Side(o)]
    BY <1>1 DEF Recorded, NowOut
  <1> HIDE DEF s
  <1>5. CASE ~st'.open \/ (done /\ k \in {"enter", "recenter"})
    BY <1>1, <1>4, <1>5 DEF Moved, ClockIsOut
  <1>6. CASE st'.open /\ ~(done /\ k \in {"enter", "recenter"})
    <2>1. /\ s.open
          /\ st'.anchor = IF k = "hold" THEN Waiting(s, o, now).anchor ELSE s.anchor
      BY <1>1, <1>6 DEF Moved
    <2>2. /\ s \in State /\ s.held = NoStock /\ s.anchor \in Anchor
          /\ s.anchor.since = 0 <=> s.anchor.side = "none"
      BY <1>3, <2>1 DEF Shaped, State
    <2>3. CASE k \in SafetyKinds
      BY <1>2, <1>3, <1>4, <1>6, <2>1, <2>3 DEF SafetyKinds, ClockIsOut
    <2>4. CASE k = "hold"
      <3> DEFINE c == IF Side(o) = "none" THEN NoAnchor
                      ELSE [since |-> WaitFrom(s, o, now), side |-> Side(o)]
      <3>1. st'.anchor = c
        <4>1. Waiting(s, o, now) = [s EXCEPT !.anchor = c]
          BY <2>1, <2>2 DEF Waiting
        <4> HIDE DEF c
        <4> QED
          BY <2>1, <2>2, <2>4, <4>1 DEF State
      <3>2. CASE Side(o) = "none"
        BY <1>4, <1>6, <2>4, <3>1, <3>2 DEF SafetyKinds, ClockIsOut
      <3>3. CASE Side(o) # "none" /\ s.anchor.side = Side(o)
        <4>1. WaitFrom(s, o, now) = s.anchor.since
          BY <2>2, <3>3 DEF WaitFrom
        <4>2. s.anchor = [since |-> s.anchor.since, side |-> s.anchor.side]
          BY <2>2 DEF Anchor
        <4>3. out' = out
          BY <1>2, <1>3, <1>4, <1>6, <2>4, <3>3 DEF SafetyKinds
        <4> QED
          BY <1>2, <1>3, <3>1, <3>3, <4>1, <4>2, <4>3 DEF ClockIsOut
      <3>4. CASE Side(o) # "none" /\ s.anchor.side # Side(o)
        <4>1. WaitFrom(s, o, now) = now
          BY <2>2, <3>4 DEF WaitFrom
        <4>2. out' = [since |-> now, side |-> Side(o)]
          BY <1>2, <1>3, <1>4, <1>6, <2>4, <3>4 DEF SafetyKinds
        <4> QED
          BY <3>1, <3>4, <4>1, <4>2 DEF ClockIsOut
      <3> QED
        BY <3>2, <3>3, <3>4
    <2>5. CASE k \in {"recenter", "range_grace_exit"}
      <3>1. k = RangeKind(s, o, now)
        BY <1>2, <1>3, <2>5, KindByPosture
      <3>2. Side(o) # "none" /\ ~StillWaits(s, o, now)
        BY <2>5, <3>1 DEF RangeKind
      <3>3. s.anchor.side = Side(o)
        <4>1. SUFFICES ASSUME s.anchor.side # Side(o) PROVE FALSE
          OBVIOUS
        <4>2. WaitFrom(s, o, now) = now
          BY <2>2, <4>1 DEF WaitFrom
        <4>3. now - now = 0
          BY <1>2
        <4> QED
          BY <3>2, <4>2, <4>3 DEF StillWaits, MustAct
      <3> QED
        BY <1>2, <1>3, <1>4, <1>6, <2>1, <2>5, <3>2, <3>3 DEF SafetyKinds, ClockIsOut
    <2>6. k \notin {"enter", "sell_inventory"}
      BY <1>2, <1>3, <2>1, KindByPosture
    <2> QED
      BY <1>2, <2>3, <2>4, <2>5, <2>6, KindTyped DEF Kinds
  <1> QED
    BY <1>5, <1>6

(* Only the exit that closed the position writes the cooldown and marker   *)
(* it left: a failed entry keeps the cooldown, not the marker.             *)
LEMMA StepExit ==
  ASSUME SessionInv, NEW o \in Worlds, NEW day \in Nat \ {0}, NEW done \in BOOLEAN,
         Step(o, day, done)
  PROVE  ExitArmed'
  <1> DEFINE s == Observed(o, day)
             k == Kind(s, o, now)
  <1>1. Moved(s, st', o, done) /\ Recorded(o, day, s, done)
    BY StepMoves DEF SessionInv
  <1>2. /\ Shaped(s) /\ s.open = st.open
        /\ s.blocked = st.blocked /\ s.diluted = st.diluted
    BY ObservedFacts DEF SessionInv
  <1>3. exit' = IF k = "enter" THEN IF done THEN NoExit ELSE [exit EXCEPT !.tried = TRUE]
                ELSE IF s.open /\ ~st'.open
                THEN [kind |-> ExitKind(k), at |-> now, tried |-> FALSE]
                ELSE exit
    BY <1>1 DEF Recorded, NowExited
  <1>4. now \in Nat /\ exit.at \in Nat /\ o \in Observation
    BY DEF SessionInv, TypeOK
  <1> HIDE DEF s
  <1>5. CASE k = "enter"
    <2>1. CASE done
      BY <1>3, <1>5, <2>1 DEF ExitArmed, NoExit
    <2>2. CASE ~done
      <3>1. ~s.open
        BY <1>2, <1>4, <1>5, KindByPosture
      <3>2. st'.blocked = st.blocked /\ ~st'.open
        BY <1>1, <1>2, <2>2, <3>1 DEF Moved
      <3>3. exit'.kind = exit.kind /\ exit'.at = exit.at /\ exit'.tried
        BY <1>3, <1>5, <2>2 DEF SessionInv, TypeOK
      <3> QED
        BY <3>2, <3>3 DEF SessionInv, ExitArmed
    <2> QED
      BY <2>1, <2>2
  <1>6. CASE k # "enter" /\ s.open /\ ~st'.open
    <2>1. exit'.kind = ExitKind(k) /\ exit'.at = now /\ ~exit'.tried
      BY <1>3, <1>6
    <2>2. /\ k \in {"stop_out", "dilution_exit", "range_grace_exit"} =>
               st'.blocked = now + Cooldown
          /\ k = "dilution_exit" => st'.diluted
      BY <1>1, <1>6 DEF Moved
    <2> QED
      BY <1>4, <1>6, <2>1, <2>2 DEF ExitKind, ExitArmed
  <1>7. CASE k # "enter" /\ ~s.open
    <2>1. ~st'.open /\ st'.blocked = st.blocked /\ st'.diluted = st.diluted
      BY <1>1, <1>2, <1>7 DEF Moved
    <2>2. exit' = exit
      BY <1>3, <1>7
    <2> QED
      BY <2>1, <2>2 DEF SessionInv, ExitArmed
  <1>8. CASE k # "enter" /\ s.open /\ st'.open
    <2>1. exit' = exit /\ exit.kind = "none"
      BY <1>2, <1>3, <1>8 DEF SessionInv, ExitArmed
    <2> QED
      BY <2>1 DEF ExitArmed
  <1> QED
    BY <1>5, <1>6, <1>7, <1>8

(* The instant in the book is the one at which the stock came loose.       *)
LEMMA StepStock ==
  ASSUME SessionInv, NEW o \in Worlds, NEW day \in Nat \ {0}, NEW done \in BOOLEAN,
         Step(o, day, done)
  PROVE  StockTimed'
  <1> DEFINE s == Observed(o, day)
  <1>1. Moved(s, st', o, done) /\ Recorded(o, day, s, done)
    BY StepMoves DEF SessionInv
  <1>2. Shaped(s) /\ s.held = st.held
    BY ObservedFacts DEF SessionInv
  <1> HIDE DEF s
  <1>3. stock' = IF st'.held = NoStock THEN 0 ELSE IF stock = 0 THEN now ELSE stock
    BY <1>1 DEF Recorded, NowLoose
  <1>4. stock = st.held.since /\ NoStock.since = 0
    BY DEF SessionInv, StockTimed, NoStock
  <1>5. CASE st'.held = NoStock
    BY <1>3, <1>4, <1>5 DEF StockTimed
  <1>6. CASE st'.held # NoStock /\ s.held = NoStock /\ st'.held.since = now
    BY <1>2, <1>3, <1>4, <1>6 DEF StockTimed
  <1>7. CASE st'.held # NoStock /\ st'.held.since = s.held.since
    <2>1. st'.held.since # 0
      <3>1. st'.held \in Stock /\ (st'.held.since = 0 => st'.held.retry = FALSE)
        BY <1>1 DEF Moved, Shaped, State, Stock
      <3> QED
        BY <1>7, <3>1 DEF Stock, NoStock
    <2> QED
      BY <1>2, <1>3, <1>4, <1>7, <2>1 DEF StockTimed
  <1> QED
    BY <1>1, <1>5, <1>6, <1>7 DEF Moved

LEMMA NextIsStep ==
  ASSUME TypeOK, Next
  PROVE  \E o \in Worlds, day \in Nat \ {0}, done \in BOOLEAN : Step(o, day, done)
  <1>1. PICK o \in Worlds, day \in {today, today + 1} : Cycle(o, day)
    BY DEF Next
  <1>2. day \in Nat \ {0}
    BY <1>1 DEF TypeOK
  <1>3. Step(o, day, TRUE) \/ Step(o, day, FALSE)
    BY <1>1 DEF Cycle, Step
  <1> QED
    BY <1>2, <1>3

LEMMA SessionNext == SessionInv /\ [Next]_vars => SessionInv'
  <1>1. ASSUME SessionInv, Next PROVE SessionInv'
    <2>1. PICK o \in Worlds, day \in Nat \ {0}, done \in BOOLEAN : Step(o, day, done)
      BY <1>1, NextIsStep DEF SessionInv
    <2>2. TypeOK'
      BY <1>1, <2>1, StepTypes DEF SessionInv
    <2>3. PeakCovers' /\ LossLatched' /\ LossHaltHolds'
      BY <1>1, <2>1, StepLatches
    <2>4. ClockIsOut' /\ ExitArmed' /\ StockTimed'
      BY <1>1, <2>1, StepClock, StepExit, StepStock
    <2> QED
      BY <2>2, <2>3, <2>4 DEF SessionInv
  <1>2. ASSUME SessionInv, UNCHANGED vars PROVE SessionInv'
    BY <1>2 DEF SessionInv, vars, TypeOK, PeakCovers, LossLatched, LossHaltHolds,
                ClockIsOut, ExitArmed, StockTimed
  <1> QED
    BY <1>1, <1>2

LEMMA SessionAlways == Spec => []SessionInv
  BY SessionInit, SessionNext, PTL DEF Spec

-----------------------------------------------------------------------------

(* Type correctness, and the postures the engine accepts: a failed mint or *)
(* a failed exit never leaves a state its next decision would refuse.      *)
THEOREM TypeCorrect == Spec => []TypeOK
  <1>1. SessionInv => TypeOK
    BY DEF SessionInv
  <1> QED
    BY <1>1, SessionAlways, PTL

(* No entry on a day a halting fall was seen, under any mark ever seen.    *)
THEOREM LossHalts == Spec => []LossHaltHolds
  <1>1. SessionInv => LossHaltHolds
    BY DEF SessionInv
  <1> QED
    BY <1>1, SessionAlways, PTL

(* What an entry needs of the last completed exit.                         *)
EntryGuarded ==
    did'.kind = "enter" =>
        /\ exit.kind \in {"cooling", "dilution"} => now >= exit.at + Cooldown
        /\ exit.kind = "dilution" /\ ~exit.tried => did'.apr = "margin"

(* No entry before the cooldown of the last completed exit is over, and    *)
(* the first one after a dilution exit not under the margin.               *)
THEOREM ReentryIsGuarded == Spec => ReentryGuarded
  <1>1. ASSUME SessionInv, Next PROVE EntryGuarded
    <2>1. PICK o \in Worlds, day \in Nat \ {0}, done \in BOOLEAN : Step(o, day, done)
      BY <1>1, NextIsStep DEF SessionInv
    <2> DEFINE s == Observed(o, day)
    <2>2. Recorded(o, day, s, done)
      BY <1>1, <2>1, StepMoves DEF SessionInv
    <2>3. /\ Shaped(s) /\ s.blocked = st.blocked /\ s.diluted = st.diluted
          /\ o \in Observation /\ now \in Nat
      BY <1>1, ObservedFacts DEF SessionInv, TypeOK
    <2> HIDE DEF s
    <2>4. did'.kind = Kind(s, o, now) /\ did'.apr = o.apr
      BY <2>2 DEF Recorded, NowSeen
    <2>5. did'.kind = "enter" => EntryPasses(s, o, now)
      BY <2>3, <2>4, KindByPosture
    <2>6. did'.kind = "enter" =>
            now >= st.blocked /\ (st.diluted => did'.apr = "margin")
      BY <2>3, <2>4, <2>5 DEF EntryPasses
    <2>7. st.blocked \in Nat /\ exit.at \in Nat
      BY <1>1 DEF SessionInv, TypeOK, State
    <2> QED
      BY <1>1, <2>3, <2>6, <2>7 DEF SessionInv, ExitArmed, EntryGuarded
  <1>2. SessionInv /\ [Next]_vars => [EntryGuarded]_vars
    BY <1>1
  <1>3. ReentryGuarded <=> [][EntryGuarded]_vars
    BY PTL DEF ReentryGuarded, EntryGuarded
  <1> QED
    BY <1>2, <1>3, SessionAlways, PTL DEF Spec

SoldInTime == stock # 0 /\ now - stock >= Timeout => did'.kind = "sell_inventory"

(* Stock loose for the timeout is sold at the next cycle, however often    *)
(* its mint was retried or its sale failed.                                *)
THEOREM StockIsUnwound == Spec => StockUnwound
  <1>1. ASSUME SessionInv, Next PROVE SoldInTime
    <2>1. PICK o \in Worlds, day \in Nat \ {0}, done \in BOOLEAN : Step(o, day, done)
      BY <1>1, NextIsStep DEF SessionInv
    <2> DEFINE s == Observed(o, day)
    <2>2. Recorded(o, day, s, done)
      BY <1>1, <2>1, StepMoves DEF SessionInv
    <2>3. s.held = st.held
      BY <1>1, ObservedFacts DEF SessionInv
    <2> HIDE DEF s
    <2>4. did'.kind = Kind(s, o, now)
      BY <2>2 DEF Recorded, NowSeen
    <2> SUFFICES ASSUME stock # 0, now - stock >= Timeout
                 PROVE  did'.kind = "sell_inventory"
      BY DEF SoldInTime
    <2>5. stock = s.held.since
      BY <1>1, <2>3 DEF SessionInv, StockTimed
    <2>6. s.held # NoStock /\ TimedOut(s, now)
      BY <2>5 DEF NoStock, TimedOut
    <2> QED
      BY <2>4, <2>6 DEF Kind, HeldKind
  <1>2. SessionInv /\ [Next]_vars => [SoldInTime]_vars
    BY <1>1
  <1>3. StockUnwound <=> [][SoldInTime]_vars
    BY PTL DEF StockUnwound, SoldInTime
  <1> QED
    BY <1>2, <1>3, SessionAlways, PTL DEF Spec

(* The gate trace agrees with the engine in every reachable state.         *)
THEOREM TraceNeverDisagrees == Spec => []TraceAgrees
  <1>1. ASSUME TypeOK PROVE TraceAgrees
    <2>1. SUFFICES ASSUME NEW o \in Worlds,
                          NEW f, f = [st EXCEPT !.open = FALSE, !.anchor = NoAnchor,
                                                !.held = NoStock],
                          NEW w, w = ObserveDay(f, o.equity, today)
                   PROVE  FailedGates(f, o, now, today) = {} <=> Kind(w, o, now) = "enter"
      BY DEF TraceAgrees
    <2>2. /\ f.blocked = st.blocked /\ f.diluted = st.diluted
          /\ f.open = FALSE /\ f.held = NoStock
      BY <1>1, <2>1 DEF TypeOK, State
    <2>3. /\ w.blocked = st.blocked /\ w.diluted = st.diluted
          /\ w.open = FALSE /\ w.held = NoStock
      BY <2>1, <2>2 DEF ObserveDay
    <2>4. Kind(w, o, now) = "enter" <=> EntryPasses(w, o, now)
      BY <2>3 DEF Kind, FlatKind
    <2>5. FailedGates(f, o, now, today) = {} <=>
            /\ w.halted # w.day
            /\ ~(st.blocked # 0 /\ now < st.blocked)
            /\ ~o.flat
            /\ ~(o.ref # "off" /\ o.ref # "fresh")
            /\ ~(IF st.diluted THEN o.apr # "margin" ELSE o.apr = "under")
            /\ ~(~o.depth)
            /\ o.gas \notin {"unread", "high"} /\ o.gas \notin {"unread", "costly"}
            /\ ~(~o.depth \/ o.gas = "unread" \/ o.width # "solved")
      BY <2>1, <2>2 DEF FailedGates, Gates
    <2>6. o \in Observation /\ st.blocked \in Nat /\ now \in Nat
      BY <1>1 DEF TypeOK, State
    <2>7. o.gas \notin {"unread", "high"} /\ o.gas \notin {"unread", "costly"}
            <=> o.gas = "fair"
      BY <2>6 DEF Observation
    <2>8. ~(o.ref # "off" /\ o.ref # "fresh") <=> ~ReferenceStale(o)
      BY <2>6 DEF Observation, ReferenceStale
    <2>9. ~(st.blocked # 0 /\ now < st.blocked) <=> now >= st.blocked
      BY <2>6
    <2> QED
      BY <2>3, <2>4, <2>5, <2>7, <2>8, <2>9 DEF EntryPasses, Halted, GasBlocks
  <1> QED
    BY <1>1, TypeCorrect, PTL

(* What a step may do with the out-of-range clock.                         *)
ActsInTime ==
    LET waited == now - out.since IN
    /\ did'.kind = "recenter" =>
         out.since # 0 /\ (waited >= Wait \/ waited >= Grace)
    /\ did'.kind = "range_grace_exit" => out.since # 0 /\ waited >= Grace
    /\ did'.kind = "hold" /\ out'.since # 0 /\ now - out'.since >= Grace =>
         did'.width = "deferred"

(* A recenter or grace exit is decided on the clock of its own side.       *)
LEMMA LeavesOnItsClock ==
  ASSUME NEW s, Shaped(s), NEW o \in Observation, now \in Nat \ {0},
         Kind(s, o, now) \in {"recenter", "range_grace_exit"}
  PROVE  /\ s.anchor.since # 0 /\ WaitFrom(s, o, now) = s.anchor.since
         /\ Kind(s, o, now) = RangeKind(s, o, now)
         /\ Side(o) # "none" /\ ~StillWaits(s, o, now)
  <1>1. Kind(s, o, now) = RangeKind(s, o, now)
    BY KindByPosture
  <1>2. Side(o) # "none" /\ ~StillWaits(s, o, now)
    BY <1>1 DEF RangeKind
  <1>3. WaitFrom(s, o, now) # now
    <2>1. now - now = 0
      OBVIOUS
    <2> QED
      BY <1>2, <2>1 DEF StillWaits, MustAct
  <1> QED
    BY <1>1, <1>2, <1>3 DEF WaitFrom

(* The grace window bounds every hold but one on missing range evidence,   *)
(* and no recenter or grace exit comes early.                              *)
THEOREM OutOfRangeIsBounded == Spec => OutOfRangeBounded
  <1>1. ASSUME SessionInv, Next PROVE ActsInTime
    <2>1. PICK o \in Worlds, day \in Nat \ {0}, done \in BOOLEAN : Step(o, day, done)
      BY <1>1, NextIsStep DEF SessionInv
    <2> DEFINE s == Observed(o, day)
               k == Kind(s, o, now)
    <2>2. Moved(s, st', o, done) /\ Recorded(o, day, s, done)
      BY <1>1, <2>1, StepMoves DEF SessionInv
    <2>3. /\ Shaped(s) /\ s.anchor = st.anchor /\ out = st.anchor
          /\ o \in Observation /\ now \in Nat \ {0}
      BY <1>1, ObservedFacts DEF SessionInv, TypeOK, ClockIsOut
    <2>4. out' = st'.anchor
      BY <1>1, <2>1, StepClock DEF ClockIsOut
    <2> HIDE DEF s
    <2>5. did'.kind = k /\ did'.width = o.width
      BY <2>2 DEF Recorded, NowSeen
    <2>6. s.anchor \in Anchor /\ s \in State
      BY <2>3 DEF Shaped, State
    <2>7. CASE k = "recenter"
      <3>1. /\ s.anchor.since # 0 /\ WaitFrom(s, o, now) = s.anchor.since
            /\ ~StillWaits(s, o, now)
        BY <2>3, <2>7, LeavesOnItsClock
      <3>2. now - s.anchor.since >= Wait \/ now - s.anchor.since >= Grace
        BY <2>3, <2>6, <3>1 DEF StillWaits, MustAct, Anchor
      <3> QED
        BY <2>3, <2>5, <2>7, <3>1, <3>2 DEF ActsInTime
    <2>8. CASE k = "range_grace_exit"
      <3>1. /\ s.anchor.since # 0 /\ WaitFrom(s, o, now) = s.anchor.since
            /\ RangeKind(s, o, now) = "range_grace_exit"
        BY <2>3, <2>8, LeavesOnItsClock
      <3>2. now - s.anchor.since >= Grace
        BY <3>1 DEF RangeKind, MustAct
      <3> QED
        BY <2>3, <2>5, <2>8, <3>1, <3>2 DEF ActsInTime
    <2>9. CASE k = "hold"
      <3> SUFFICES ASSUME out'.since # 0, now - out'.since >= Grace
                   PROVE  o.width = "deferred"
        BY <2>5, <2>9 DEF ActsInTime
      <3>1. st'.open
        BY <2>2, <2>4 DEF Moved, NoAnchor
      <3>2. s.open /\ st'.anchor = Waiting(s, o, now).anchor
        BY <2>2, <2>9, <3>1 DEF Moved
      <3>3. k = RangeKind(s, o, now) /\ s.held = NoStock
        BY <2>3, <2>9, <3>2, KindByPosture DEF Shaped
      <3> DEFINE c == IF Side(o) = "none" THEN NoAnchor
                      ELSE [since |-> WaitFrom(s, o, now), side |-> Side(o)]
      <3>4. st'.anchor = c
        <4>1. Waiting(s, o, now) = [s EXCEPT !.anchor = c]
          BY <3>2, <3>3 DEF Waiting
        <4> HIDE DEF c
        <4> QED
          BY <2>6, <3>2, <4>1 DEF State
      <3>5. Side(o) # "none" /\ out'.since = WaitFrom(s, o, now)
        BY <2>4, <3>4 DEF NoAnchor
      <3>6. MustAct(s, o, now)
        BY <3>5 DEF MustAct
      <3> QED
        BY <2>3, <2>9, <3>3, <3>5, <3>6 DEF RangeKind, StillWaits, Observation
    <2>10. CASE k \notin {"recenter", "range_grace_exit", "hold"}
      BY <2>5, <2>10 DEF ActsInTime
    <2> QED
      BY <2>7, <2>8, <2>9, <2>10
  <1>2. SessionInv /\ [Next]_vars => [ActsInTime]_vars
    BY <1>1
  <1>3. OutOfRangeBounded <=> [][ActsInTime]_vars
    BY PTL DEF OutOfRangeBounded, ActsInTime
  <1> QED
    BY <1>2, <1>3, SessionAlways, PTL DEF Spec

-----------------------------------------------------------------------------
(* The suite of both runs engine or amounts and leaves the other as it is. *)
LEMMA SuiteRefines == RulesSpec => Spec /\ ActionSpec
<1>1. RulesInit => Init /\ ActionInit
  BY DEF RulesInit
<1>2. [RulesNext]_<<part, vars, actionVars>> => [Next]_vars /\ [ActionNext]_actionVars
  BY DEF RulesNext
<1> QED
  BY <1>1, <1>2, PTL DEF RulesSpec, Spec, ActionSpec

(* MCRules, RulesTypeOK: both at once, as the suite runs them.             *)
THEOREM RulesTyped == RulesSpec => []RulesTypeOK
<1>1. TypeOK /\ ActionTypeOK => RulesTypeOK
  BY DEF RulesTypeOK
<1> QED
  BY <1>1, SuiteRefines, TypeCorrect, ActionsTyped, PTL
=============================================================================
