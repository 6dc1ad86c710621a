------------------------------ MODULE LpActions ------------------------------
(***************************************************************************)
(* One action of the cycle in amounts: the preflights of a recenter and a  *)
(* switch, and the unstake, withdraw, exit swap, mint, stake and collect   *)
(* they and the other actions are made of (lp_executor.py, lp_plan.py).    *)
(* Each builds from what the node answers, is refused or sent, and lands   *)
(* or fails; the market moves in between, and after a delivery a lagging   *)
(* node may still show the state before it.                                *)
(*                                                                         *)
(* A unit of stock is worth a unit of USDC; what moves is the composition  *)
(* of the source position and of the range to be minted.  How a sequence   *)
(* of deliveries is sent is LpDelivery's; router allowances are left out.  *)
(***************************************************************************)
EXTENDS Integers, Sequences

CONSTANTS
    Budgets,     \* sizes the cycle decides
    Cash, Loose, \* USDC and source stock in the Safe at the start
    Worth,       \* value of the source position
    Committed,   \* committed values of the other tracked positions
    PoolCap,     \* max_position_usdc_per_pool
    ExposureCap, \* max_total_pilot_exposure_usdc
    Depth,       \* the depth share no budget may exceed
    Impact,      \* a swap of this size reaches the impact ceiling
    Tranche,     \* a swap above this size needs a second tranche
    Parts,       \* grain of a composition: 0 all USDC, Parts all stock
    Tolerance,   \* the slippage tolerance is one part in this many
    Acquire,     \* the acquisition buffer is one part in this many
    Rounds,      \* FINAL_MINT_REBUILD_ROUNDS
    Retries,     \* FINAL_MINT_PSC_RETRIES
    MaxMoves     \* bound: moves of the market

ASSUME ActionAssumption ==
    /\ {PoolCap, ExposureCap, Depth, Impact, Tranche, Parts, Tolerance, Acquire} \subseteq Nat \ {0}
    /\ Budgets \subseteq Nat \ {0} /\ Cash \cup Loose \cup Worth \cup Committed \subseteq Nat
    /\ {Rounds, Retries, MaxMoves} \subseteq Nat

VARIABLES
    safe,      \* tokens in the Safe: USDC, the source's and the target's stock
    granted,   \* what the NFPM may pull: USDC and stock
    shown,     \* safe and granted before the last delivery
    source,    \* the tracked position the action is about
    others,    \* the other tracked positions, and a live NFT nobody tracks
    mix,       \* composition of the source, and of the range to be minted
    job,       \* the action under way
    moves,     \* moves of the market since the action began
    lagged,    \* it was shown an old state
    verdict    \* how the last one ended

actionVars == <<safe, granted, shown, source, others, mix, job, moves, lagged, verdict>>

-----------------------------------------------------------------------------
(* The planner (lp_plan.py).                                               *)

Up(x, n) == x + (x + n - 1) \div n           \* x and one part in n, rounded up
Floor(x) == x - (x + Tolerance - 1) \div Tolerance

(* plan_mint_composition: both sides of a budget at the present price.     *)
Sides(b, m) == [stock |-> (b * m) \div Parts, usdc |-> (b * (Parts - m)) \div Parts]

Leg(w, s) == IF s = "usdc" THEN w.usdc ELSE w.stock

(* plan_balancing_swap, plan_stock_sale_for_usdc: what must be given for   *)
(* the missing side, with the buffer.                                      *)
Swap(w, inv) ==
    CASE w.stock > inv.stock -> [gives |-> "usdc", amount |-> Up(w.stock - inv.stock, Acquire)]
      [] w.stock <= inv.stock /\ w.usdc > inv.usdc
            -> [gives |-> "stock", amount |-> Up(w.usdc - inv.usdc, Acquire)]
      [] OTHER -> [gives |-> "none", amount |-> 0]

(* plan_mint_entry: the rules a mint breaks.                               *)
Broken(b, m, existing, inv) ==
    LET w == Sides(b, m)
        s == Swap(w, inv)
        breaks == [budget   |-> b = 0 \/ b > PoolCap,
                   exposure |-> b > ExposureCap - existing,
                   range    |-> m \notin 1..(Parts - 1),
                   sides    |-> w.stock = 0 \/ w.usdc = 0,
                   depth    |-> b > Depth,
                   impact   |-> s.amount >= Impact,
                   funds    |-> /\ s.gives # "none"
                                /\ Leg(w, s.gives) + s.amount > Leg(inv, s.gives)]
    IN  {r \in DOMAIN breaks : breaks[r]}

Plan(b, m, inv) ==
    [budget |-> b, mix |-> m, want |-> Sides(b, m), swap |-> Swap(Sides(b, m), inv)]

OneTranche(p) == p.swap.amount <= Tranche

-----------------------------------------------------------------------------
(* The executor's state.                                                   *)

Route(kind) ==
    CASE kind = "enter"    -> <<"mint", "stake">>
      [] kind = "recenter" -> <<"preflight", "unstake", "withdraw", "mint", "stake">>
      [] kind = "switch"   -> <<"preflight", "unstake", "withdraw", "sell", "mint", "stake">>
      [] kind = "exit"     -> <<"unstake", "withdraw", "sell">>
      [] kind = "collect"  -> <<"collect">>

NoPlan == [budget |-> 0, mix |-> 0, want |-> [stock |-> 0, usdc |-> 0],
           swap |-> [gives |-> "none", amount |-> 0]]
Fresh(kind, b) ==
    [kind |-> kind, budget |-> b, todo |-> Route(kind), phase |-> "build", plan |-> NoPlan,
     floor |-> [usdc |-> 0, stock |-> 0], round |-> 0, psc |-> 0, seen |-> 0]
Resting == [Fresh("collect", 0) EXCEPT !.todo = <<>>]

At(stage, phase) == job.todo # <<>> /\ Head(job.todo) = stage /\ job.phase = phase

Ends(v) == verdict' = v /\ job' = Resting
Refused == Ends("refused")
Failed == Ends("failed")
Onwards == IF Len(job.todo) = 1 THEN Ends("done")
           ELSE verdict' = "none" /\ job' = [job EXCEPT !.todo = Tail(@), !.phase = "build"]
Sent == verdict' = "none" /\ job' = [job EXCEPT !.phase = "sent"]

Target == IF job.kind = "recenter" THEN "src" ELSE "dst"
Holds(t, st) == [usdc |-> st.usdc, stock |-> st[t]]
Out == [stock |-> (source.worth * mix.source) \div Parts,
        usdc |-> source.worth - (source.worth * mix.source) \div Parts]

Landed == shown' = [safe |-> safe, granted |-> granted]
Reads == UNCHANGED <<safe, granted, shown, source, others, mix, moves>>

(* What a node answers: the state, or after a delivery the one before.     *)
Answers == {[safe |-> safe, granted |-> granted], shown}
Heard(a) == lagged' = (lagged \/ a # [safe |-> safe, granted |-> granted])

PenaltyClear == ~(source.young /\ source.earned > 0)

ActionInit ==
    /\ \E c \in Cash, l, k \in Loose : safe = [usdc |-> c, src |-> l, dst |-> k]
    /\ granted = [usdc |-> 0, stock |-> 0]
    /\ shown = [safe |-> safe, granted |-> granted]
    /\ source \in [at : {"gauge", "safe"}, worth : Worth, earned : {0}, young : BOOLEAN]
                 \cup [at : {"empty"}, worth : {0}, earned : {0}, young : {FALSE}]
    /\ others \in [committed : Committed, held : BOOLEAN, stranger : BOOLEAN]
    /\ mix \in [source : {0, Parts \div 2, Parts}, target : {Parts \div 2}]
    /\ job = Resting /\ moves = 0 /\ lagged = FALSE /\ verdict = "none"

Begin(kind, b) ==
    /\ job.todo = <<>> /\ verdict = "none"
    /\ kind = "enter" <=> source.at = "empty"
    /\ job' = Fresh(kind, b)
    /\ UNCHANGED <<safe, granted, shown, source, others, mix, moves, lagged, verdict>>

-----------------------------------------------------------------------------
(* Preflights.                                                             *)

Projected == [safe EXCEPT !.usdc = @ + Out.usdc, !.src = @ + Out.stock]

ProjectedSwitch_FullPrice == [Projected EXCEPT !.usdc = @ + Projected.src, !.src = 0]

(* The source's and the loose stock sold at the tolerance.                 *)
ProjectedSwitch == [Projected EXCEPT !.usdc = @ + Floor(Projected.src), !.src = 0]

(* What dry_run_recenter counts besides the replacement: every tracked     *)
(* position, the one to be replaced included (its value stands for what    *)
(* it committed).                                                          *)
CountedForRecenter == others.committed + source.worth

Preflight(existing, projection) ==
    LET inv == Holds(Target, projection)
    IN  IF /\ ~others.stranger /\ (source.at = "gauge" => PenaltyClear)
           /\ Broken(job.budget, mix.target, existing, inv) = {}
           /\ OneTranche(Plan(job.budget, mix.target, inv))
        THEN Onwards ELSE Refused

PreflightRecenter ==
    /\ At("preflight", "build") /\ job.kind = "recenter"
    /\ Preflight(CountedForRecenter, Projected)
    /\ Reads /\ UNCHANGED lagged

PreflightSwitch ==
    /\ At("preflight", "build") /\ job.kind = "switch"
    /\ Preflight(others.committed, ProjectedSwitch)
    /\ Reads /\ UNCHANGED lagged

-----------------------------------------------------------------------------
(* Unstake, withdraw, exit swap, stake, collect.                           *)

BuildUnstake ==
    /\ At("unstake", "build")
    /\ IF source.at # "gauge" THEN Onwards ELSE IF PenaltyClear THEN Sent ELSE Refused
    /\ Reads /\ UNCHANGED lagged

LandUnstake ==
    /\ At("unstake", "sent")
    /\ source' = [source EXCEPT !.at = "safe", !.earned = 0]
    /\ Onwards /\ Landed
    /\ UNCHANGED <<safe, granted, others, mix, moves, lagged>>

(* The minima are those of the present composition.                        *)
BuildWithdraw ==
    /\ At("withdraw", "build")
    /\ verdict' = "none"
    /\ job' = [job EXCEPT !.phase = "sent", !.seen = mix.source]
    /\ Reads /\ UNCHANGED lagged

LandWithdraw ==
    /\ At("withdraw", "sent")
    /\ IF job.seen # mix.source THEN Failed /\ UNCHANGED <<safe, source, shown>>
       ELSE /\ safe' = Projected /\ source' = [source EXCEPT !.at = "empty", !.worth = 0]
            /\ Onwards /\ Landed
    /\ UNCHANGED <<granted, others, mix, moves, lagged>>

(* Nothing to sell, or more than a pool may hold, is refused.              *)
BuildExitSwap ==
    /\ At("sell", "build")
    /\ IF Floor(safe.src) > 0 /\ safe.src <= PoolCap THEN Sent ELSE Refused
    /\ Reads /\ UNCHANGED lagged

LandExitSwap(got) ==
    /\ At("sell", "sent") /\ got \in {Floor(safe.src), safe.src}
    /\ safe' = [safe EXCEPT !.usdc = @ + got, !.src = 0]
    /\ Onwards /\ Landed
    /\ UNCHANGED <<granted, source, others, mix, moves, lagged>>

Collect ==
    /\ At("collect", "build")
    /\ IF source.at = "gauge" /\ ~PenaltyClear
       THEN Refused /\ UNCHANGED source
       ELSE \/ Ends("done") /\ source' = [source EXCEPT !.earned = 0]
            \/ Failed /\ UNCHANGED source
    /\ UNCHANGED <<safe, granted, shown, others, mix, moves, lagged>>

(* A lagging node does not know the new NFT yet.                           *)
Stake ==
    /\ At("stake", "build")
    /\ \/ Ends("done") /\ source' = [source EXCEPT !.at = "gauge", !.young = TRUE] /\ UNCHANGED lagged
       \/ Failed /\ UNCHANGED <<source, lagged>>
       \/ Refused /\ lagged' = TRUE /\ UNCHANGED source
    /\ UNCHANGED <<safe, granted, shown, others, mix, moves>>

(* A delivery reverts, or is never seen to land.                           *)
DeliveryFails == /\ job.todo # <<>> /\ job.phase \in {"sent", "swap", "approve"}
         /\ Failed /\ Reads /\ UNCHANGED lagged

(* _preflight: the gas price or the Safe's ETH forbids it.                 *)
GatesClose ==
    /\ job.todo # <<>> /\ job.phase \in {"build", "rebuild", "final"}
    /\ Refused /\ moves' = moves + 1
    /\ UNCHANGED <<safe, granted, shown, source, others, mix, lagged>>

-----------------------------------------------------------------------------
(* The mint: swap, approvals and mint each from a fresh reading.           *)

(* _resolve_mint_context: the exposure held by the Safe.                   *)
Existing == IF others.held THEN others.committed ELSE 0

(* The budget the inventory can fund without another swap.                 *)
Constrained(b, w, inv) ==
    LET funded(s) == (b * Leg(inv, s) * 999) \div (Leg(w, s) * 1000)
        least == {funded("usdc"), funded("stock"), (b * 999) \div 1000}
    IN  CHOOSE x \in least : \A y \in least : x <= y

(* _build_mint_attempt; later builds may only use the inventory.           *)
Resized(b, m, inv) ==
    IF Swap(Sides(b, m), inv).gives = "none" \/ 0 \in {Sides(b, m).stock, Sides(b, m).usdc}
    THEN b ELSE Constrained(b, Sides(b, m), inv)

Buildable(b, m, inv) == ~others.stranger /\ Broken(b, m, Existing, inv) = {}

Buffered(x) == Up(x, 20)

(* The approvals a plan still needs, past what is granted and confirmed.   *)
Confirmed_Reread(a) == a.granted
Confirmed(a) == [s \in {"usdc", "stock"} |->
                    IF a.granted[s] > job.floor[s] THEN a.granted[s] ELSE job.floor[s]]
Approvals(p, have) == {s \in {"usdc", "stock"} : have[s] < Buffered(Leg(p.want, s))}

BuildFirst ==
    /\ At("mint", "build")
    /\ LET inv == Holds(Target, safe)
           p == Plan(job.budget, mix.target, inv)
       IN  IF Buildable(job.budget, mix.target, inv) /\ OneTranche(p)
           THEN /\ job' = [job EXCEPT !.plan = p,
                                      !.phase = IF p.swap.gives = "none" THEN "approve" ELSE "swap"]
                /\ verdict' = "none"
           ELSE Refused
    /\ Reads /\ UNCHANGED lagged

LandBalancing(got) ==
    /\ At("mint", "swap")
    /\ LET s == job.plan.swap
       IN  /\ got \in {Floor(s.amount), s.amount}
           /\ safe' = IF s.gives = "usdc"
                      THEN [safe EXCEPT !.usdc = @ - s.amount, ![Target] = @ + got]
                      ELSE [safe EXCEPT !.usdc = @ + got, ![Target] = @ - s.amount]
    /\ job' = [job EXCEPT !.phase = "rebuild"] /\ verdict' = "none"
    /\ Landed
    /\ UNCHANGED <<granted, source, others, mix, moves, lagged>>

(* A build from the inventory alone: planned at the whole budget first,    *)
(* which refuses as any plan does (lp_plan.py:1333), then at what the      *)
(* inventory can fund.                                                     *)
FromInventory(b, a, phase) ==
    LET inv == Holds(Target, a.safe)
        c == Resized(b, mix.target, inv)
        p == Plan(c, mix.target, inv)
    IN  /\ Heard(a)
        /\ IF /\ Buildable(b, mix.target, inv)
              /\ Buildable(c, mix.target, inv) /\ p.swap.gives = "none"
           THEN job' = [job EXCEPT !.plan = p, !.phase = phase] /\ verdict' = "none"
           ELSE Refused

RebuildAfterSwap ==
    /\ At("mint", "rebuild")
    /\ \E a \in Answers : FromInventory(job.budget, a, "approve")
    /\ Reads

(* Approvals set, not add; each confirmed one raises the floor.            *)
Approve ==
    /\ At("mint", "approve")
    /\ \E a \in Answers :
        LET need == Approvals(job.plan, Confirmed(a))
            set == [s \in need |-> Buffered(Leg(job.plan.want, s))]
        IN  /\ Heard(a)
            /\ granted' = [s \in {"usdc", "stock"} |-> IF s \in need THEN set[s] ELSE granted[s]]
            /\ job' = [job EXCEPT !.phase = "final",
                                  !.floor = [s \in {"usdc", "stock"} |->
                                      IF s \in need THEN set[s] ELSE @[s]]]
            /\ IF need = {} THEN UNCHANGED shown ELSE Landed
    /\ UNCHANGED <<safe, source, others, mix, moves, verdict>>

(* One round of the final loop: rebuilt once more; if it needs approvals   *)
(* they are sent and the round is spent.                                   *)
FinalRound ==
    /\ At("mint", "final")
    /\ IF job.round = Rounds
       THEN Ends("exhausted") /\ UNCHANGED <<granted, shown, lagged>>
       ELSE \E a \in Answers :
            LET inv == Holds(Target, a.safe)
                c == Resized(job.plan.budget, mix.target, inv)
                p == Plan(c, mix.target, inv)
                need == Approvals(p, Confirmed(a))
                set == [s \in need |-> Buffered(Leg(p.want, s))]
                spent == [job EXCEPT !.round = @ + 1]
            IN  /\ Heard(a)
                /\ IF \/ ~Buildable(job.plan.budget, mix.target, inv)
                      \/ ~Buildable(c, mix.target, inv) \/ p.swap.gives # "none"
                   THEN Refused /\ UNCHANGED <<granted, shown>>
                   ELSE IF need = {}
                   THEN /\ job' = [spent EXCEPT !.plan.want = p.want, !.plan.mix = p.mix,
                                                !.phase = "estimate"]
                        /\ UNCHANGED <<granted, shown, verdict>>
                   ELSE /\ granted' = [s \in {"usdc", "stock"} |->
                                          IF s \in need THEN set[s] ELSE granted[s]]
                        /\ job' = [spent EXCEPT !.floor = [s \in {"usdc", "stock"} |->
                                          IF s \in need THEN set[s] ELSE @[s]]]
                        /\ Landed /\ UNCHANGED verdict
    /\ UNCHANGED <<safe, source, others, mix, moves>>

(* The estimate runs on the present state: a moved price reverts and is    *)
(* retried, an unfunded mint is refused.                                   *)
EstimateMint ==
    /\ At("mint", "estimate")
    /\ IF job.plan.mix # mix.target
       THEN IF job.psc < Retries
            THEN job' = [job EXCEPT !.psc = @ + 1, !.phase = "final"] /\ UNCHANGED verdict
            ELSE Refused
       ELSE IF \A s \in {"usdc", "stock"} :
                  Leg(job.plan.want, s) <= Leg(Holds(Target, safe), s)
                  /\ Leg(job.plan.want, s) <= granted[s]
       THEN Sent ELSE Refused
    /\ Reads /\ UNCHANGED lagged

LandMint ==
    /\ At("mint", "sent")
    /\ IF job.plan.mix # mix.target THEN Failed /\ UNCHANGED <<safe, granted, source, shown>>
       ELSE /\ safe' = [safe EXCEPT !.usdc = @ - job.plan.want.usdc,
                                    ![Target] = @ - job.plan.want.stock]
            /\ granted' = [s \in {"usdc", "stock"} |-> granted[s] - Leg(job.plan.want, s)]
            /\ source' = [source EXCEPT !.at = "safe", !.earned = 0,
                             !.worth = job.plan.want.usdc + job.plan.want.stock]
            /\ Onwards /\ Landed
    /\ UNCHANGED <<others, mix, moves, lagged>>

-----------------------------------------------------------------------------
(* The market, the gauge and the clock.                                    *)

Move(m) ==
    /\ job.todo # <<>> /\ moves < MaxMoves
    /\ m # mix.target /\ m \in 0..Parts
    /\ mix' = [source |-> m, target |-> m]
    /\ moves' = moves + 1
    /\ UNCHANGED <<safe, granted, shown, source, others, job, lagged, verdict>>

Accrue ==
    /\ source.at = "gauge" /\ source.earned = 0 /\ job.todo # <<>>
    /\ source' = [source EXCEPT !.earned = 1]
    /\ UNCHANGED <<safe, granted, shown, others, mix, job, moves, lagged, verdict>>

ActionNext ==
    \/ \E kind \in {"enter", "recenter", "switch", "exit", "collect"}, b \in Budgets : Begin(kind, b)
    \/ PreflightRecenter \/ PreflightSwitch \/ BuildUnstake \/ LandUnstake
    \/ BuildWithdraw \/ LandWithdraw \/ BuildExitSwap \/ Collect \/ Stake \/ DeliveryFails \/ GatesClose
    \/ \E got \in {Floor(safe.src), safe.src} : LandExitSwap(got)
    \/ BuildFirst \/ RebuildAfterSwap \/ Approve \/ FinalRound \/ EstimateMint \/ LandMint
    \/ \E got \in {Floor(job.plan.swap.amount), job.plan.swap.amount} : LandBalancing(got)
    \/ Accrue \/ \E m \in 0..Parts : Move(m)

ActionSpec == ActionInit /\ [][ActionNext]_actionVars

-----------------------------------------------------------------------------
(* Properties.                                                             *)

Stages == {"preflight", "unstake", "withdraw", "sell", "mint", "stake", "collect"}

(* Nothing in the Safe is ever overdrawn, and every variable keeps its type. *)
ActionTypeOK ==
    /\ safe \in [{"usdc", "src", "dst"} -> Nat] /\ granted \in [{"usdc", "stock"} -> Nat]
    /\ source.at \in {"gauge", "safe", "empty"} /\ source.worth \in Nat
    /\ source.earned \in {0, 1} /\ source.young \in BOOLEAN
    /\ mix \in [{"source", "target"} -> 0..Parts]
    /\ job.todo \in Seq(Stages) /\ job.round \in 0..Rounds /\ job.psc \in 0..Retries
    /\ job.phase \in {"build", "sent", "swap", "rebuild", "approve", "final", "estimate"}
    /\ moves \in 0..(MaxMoves + 1) /\ lagged \in BOOLEAN
    /\ verdict \in {"none", "refused", "failed", "exhausted", "done"}

(* The balancing swap paid less than its buffer covers, and what it left    *)
(* cannot pay for the rest of the whole budget.                             *)
SwapFellShort ==
    /\ At("mint", "rebuild")
    /\ Broken(job.budget, mix.target, Existing, Holds(Target, safe)) = {"funds"}

(* A position is given up only for a replacement that can be paid for: once *)
(* a recenter's or a switch's preflight has passed and the source is sold,  *)
(* the mint is not refused unless the market, the gates or the node's view  *)
(* changed, or the balancing swap fell short; whatever the exit swap slips  *)
(* within the tolerance, the first build succeeds, and whatever is built    *)
(* from the inventory stands in every later round (lp_executor.py:3950,     *)
(* :4082).                                                                  *)
PreflightHonoured ==
    [][job.todo # <<>> /\ Head(job.todo) = "mint" /\ job.kind # "enter" /\ moves' = 0 /\ ~lagged'
          => verdict' # "refused" \/ SwapFellShort]_actionVars

(* The final loop is exhausted by the market alone: a node that keeps       *)
(* answering with the state before a confirmed approval cannot spend its    *)
(* rounds, and a move of the price costs two at most (lp_executor.py:2282). *)
LoopSettles == verdict = "exhausted" => 2 * moves >= Rounds

(* The total cap counts the other positions, not the one to be replaced: a  *)
(* recenter that fits it beside them is not refused for it                  *)
(* (lp_executor.py:2044).                                                   *)
RecenterAdmitted ==
    [][At("preflight", "build") /\ job.kind = "recenter" /\ verdict' = "refused"
          => \/ moves' # moves
             \/ job.budget + others.committed > ExposureCap
             \/ Broken(job.budget, mix.target, CountedForRecenter, Holds("src", Projected))
                   # {"exposure"}]_actionVars
=============================================================================
