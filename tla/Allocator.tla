------------------------------ MODULE Allocator ------------------------------
(***************************************************************************)
(* One allocation pass of the portfolio (allocator.py): the qualifying     *)
(* board becomes tiers of the deployable USDC (allocate_portfolio), the    *)
(* held book is rotated towards them (plan_portfolio_rebalance), and the   *)
(* plan's commitment is projected step by step.  The loops of the code are *)
(* steps here, best-ranked pool first.                                     *)
(*                                                                         *)
(* Money is counted in units of TIER_SHARE_QUANTUM and fractions in parts  *)
(* of Scale.  The engine's verdict on an entry depends on its size in two  *)
(* ways: the pool's depth caps the size, and a size below `least` does not *)
(* pay for its gas; every other gate is `open`.                            *)
(***************************************************************************)
EXTENDS Integers, FiniteSets

CONSTANTS
    Pool,          \* bound: the board, 1..n; the number is the symbol's order
    Books,         \* bound: the situations a pass may start from
    Scale,         \* denominator of the fractions below
    MaxPositions, MinPosition, MinFloor, Concentration, Activation,
    Band, Margin, TotalCap,    \* PortfolioParameters
    Buffer,        \* DEFAULT_SWAP_BUFFER_FRACTION
    Slippage,      \* DEFAULT_MINT_SLIPPAGE_TOLERANCE
    EquityShare    \* max_position_equity_fraction

(* require_ceiling_compliance, and the signs the field types demand.       *)
ParameterAssumption ==
    /\ Pool \subseteq Nat \ {0} /\ IsFiniteSet(Pool)
    /\ Scale \in Nat \ {0} /\ MaxPositions \in Nat \ {0}
    /\ MinFloor \in Nat \ {0} /\ MinPosition \in Nat /\ MinFloor <= MinPosition
    /\ TotalCap \in Nat /\ MinPosition <= TotalCap
    /\ Activation \in Nat \ {0} /\ Activation <= TotalCap
    /\ Concentration \in 1..Scale /\ Band \in 1..Scale /\ Margin \in Nat
    /\ Buffer \in Nat /\ Slippage \in 0..Scale /\ EquityShare \in 0..Scale

ASSUME ParameterAssumption

Offer == [apr : Nat \ {0}, depth : Nat, least : Nat \ {0}, swap : Nat,
          open : BOOLEAN, diluted : BOOLEAN]

(* kind: what the position's own fold decided; ripe: past the minimum      *)
(* hold; penal: inside the gauge's penalty window.                         *)
Holding == [value : Nat, kind : {"hold", "exit", "recenter"},
            ripe : BOOLEAN, penal : BOOLEAN]

Unheld == [value |-> 0, kind |-> "none", ripe |-> FALSE, penal |-> FALSE]

(* stock: unsold inventory is held, and its fold keeps it or sells it.      *)
Book == [cash : Nat, equity : Nat, stock : {"none", "kept", "sold"},
         offer : [Pool -> Offer], held : [Pool -> Holding \cup {Unheld}]]

ASSUME BookAssumption == Books \subseteq Book

VARIABLES
    in,        \* the inputs of the pass
    phase,     \* the loop the pass is in
    todo,      \* pools the loop has not reached
    sums,      \* what the code sums before it sizes
    left,      \* the deployable budget not yet spent
    funded,    \* tranche size per pool, 0 for none
    noted,     \* typed exclusions: <<pool, reason>>
    moves,     \* reallocations: held pool -> [to, size]
    deferred,  \* reallocations put off: <<pool, reason>>
    proj       \* the projected commitment and count

allocVars == <<in, phase, todo, sums, left, funded, noted, moves, deferred, proj>>

NoMove == [to |-> 0, size |-> 0]
NoProjection == [usd |-> 0, count |-> 0]

-----------------------------------------------------------------------------
(* Ranking and bounds.                                                     *)

Lesser(a, b) == IF a < b THEN a ELSE b
Greater(a, b) == IF a > b THEN a ELSE b
CeilDiv(a, b) == (a + b - 1) \div b

Held == {p \in Pool : in.held[p] # Unheld}

(* _entry_outcome_at_budget: the engine's size at a budget, and whether    *)
(* its gates pass there.                                                   *)
EntrySize(p, budget) == Lesser(budget, in.offer[p].depth)

GatesPass(p, budget) ==
    /\ in.offer[p].open
    /\ ~in.offer[p].diluted
    /\ EntrySize(p, budget) >= in.offer[p].least

(* evaluate_pool_entries: every pool flat, at the whole book's basis.      *)
FullBudget == (in.equity * EquityShare) \div Scale
Qualifies(p) == GatesPass(p, FullBudget)

(* rank_qualifying_pools: APR, then symbol.                                *)
Better(p, q) ==
    \/ in.offer[p].apr > in.offer[q].apr
    \/ in.offer[p].apr = in.offer[q].apr /\ p < q

Best(p, S) == p \in S /\ \A q \in S \ {p} : Better(p, q)

Candidates == {p \in Pool \ Held : Qualifies(p)}

(* band_candidates: at or above the band fraction of the top's APR.        *)
InBand == {p \in Candidates :
            \A q \in Candidates : in.offer[p].apr * Scale >= in.offer[q].apr * Band}

OpenSlots == MaxPositions - Cardinality(Held)
Slotted == {p \in InBand : Cardinality({q \in InBand : Better(q, p)}) < OpenSlots}

(* concentration_bound_usdc; below the activation equity nothing binds.    *)
Capped == in.equity >= Activation
ConcentrationBound == (Concentration * in.equity) \div Scale

(* effective_minimum_position_usdc.                                        *)
EffectiveMinimum ==
    IF Capped THEN Greater(MinFloor, Lesser(MinPosition, ConcentrationBound)) ELSE 0

Headroom == TotalCap - sums.committed

StockHeld == in.stock # "none"

Deployable == IF StockHeld \/ Lesser(in.cash, Headroom) <= 0 THEN 0
              ELSE Lesser(in.cash, Headroom)

(* The executable cost of an entry: the size and the buffer of its         *)
(* balancing swap, rounded up.                                             *)
Cost(size) == CeilDiv(size * (Scale + Buffer), Scale)

-----------------------------------------------------------------------------
(* allocate_portfolio.                                                     *)

AllocInit ==
    /\ in \in Books
    /\ phase = "sum" /\ todo = Pool
    /\ sums = [committed |-> 0, band |-> 0, slots |-> 0]
    /\ left = 0
    /\ funded = [p \in Pool |-> 0]
    /\ noted = {}
    /\ moves = [p \in Pool |-> NoMove]
    /\ deferred = {}
    /\ proj = NoProjection

First(p) == p \in todo /\ \A q \in todo : p <= q

Weighed(p, S) == IF p \in S THEN in.offer[p].apr ELSE 0

(* The sums over the held positions, the band and the funded slots.        *)
SumUp(p) ==
    /\ phase = "sum" /\ First(p)
    /\ sums' = [committed |-> sums.committed + in.held[p].value,
                band |-> sums.band + Weighed(p, InBand),
                slots |-> sums.slots + Weighed(p, Slotted)]
    /\ todo' = todo \ {p}
    /\ UNCHANGED <<in, phase, left, funded, noted, moves, deferred, proj>>

(* What is excluded before any pool is sized.                              *)
ExcludedUpFront ==
    {<<p, "below_tier_band">> : p \in Candidates \ InBand}
    \cup (IF StockHeld /\ Lesser(in.cash, Headroom) > 0
          THEN {<<0, "inventory_unwind_pending">>} ELSE {})
    \cup (IF Deployable > 0
          THEN {<<p, "max_positions_reached">> : p \in InBand \ Slotted} ELSE {})

(* The budget is opened; without one, or without an open slot, no pool is  *)
(* sized and the allocation reports nothing deployable.                    *)
OpenBudget ==
    /\ phase = "sum" /\ todo = {}
    /\ noted' = ExcludedUpFront
    /\ IF Deployable > 0 /\ OpenSlots > 0
       THEN phase' = "fund" /\ todo' = Slotted /\ left' = Deployable
       ELSE phase' = "move" /\ todo' = Held /\ left' = 0
    /\ UNCHANGED <<in, sums, funded, moves, deferred, proj>>

TierShare_NoAllowance(p) ==
    (Deployable * Scale * in.offer[p].apr) \div ((Scale + Buffer) * sums.slots)

(* A tier's share of what is left when every planned tranche has one unit  *)
(* of rounding set aside, rounded down.                                    *)
TierShare(p) ==
    LET net == Greater(Deployable - Cardinality(Slotted), 0)
    IN  (net * Scale * in.offer[p].apr) \div ((Scale + Buffer) * sums.slots)

Target(p) ==
    LET lifted == Greater(TierShare(p), EffectiveMinimum)
    IN  IF Capped THEN Lesser(lifted, ConcentrationBound) ELSE lifted

Skip(p, reason) ==
    /\ noted' = noted \cup {<<p, reason>>}
    /\ UNCHANGED <<left, funded>>

Fund(p, size) ==
    /\ left' = left - Cost(size)
    /\ funded' = [funded EXCEPT ![p] = size]
    /\ noted' = IF Capped /\ Greater(TierShare(p), EffectiveMinimum) > ConcentrationBound
                THEN noted \cup {<<p, "concentration_cap_clamped">>} ELSE noted

FundTier_CashUnchecked(p) ==
    /\ phase = "fund" /\ Best(p, todo)
    /\ LET size == EntrySize(p, Target(p)) IN
       IF ~GatesPass(p, Target(p)) THEN Skip(p, "entry_gate_refused")
       ELSE IF size < EffectiveMinimum THEN Skip(p, "below_min_position_size")
       ELSE Fund(p, size)
    /\ todo' = todo \ {p}
    /\ UNCHANGED <<in, phase, sums, moves, deferred, proj>>

(* One turn of the tier loop.                                              *)
FundTier(p) ==
    /\ phase = "fund" /\ Best(p, todo)
    /\ LET size == EntrySize(p, Target(p)) IN
       IF Cost(Target(p)) > left THEN Skip(p, "insufficient_cash")
       ELSE IF ~GatesPass(p, Target(p)) THEN Skip(p, "entry_gate_refused")
       ELSE IF size < EffectiveMinimum THEN Skip(p, "below_min_position_size")
       ELSE Fund(p, size)
    /\ todo' = todo \ {p}
    /\ UNCHANGED <<in, phase, sums, moves, deferred, proj>>

TiersDone ==
    /\ phase = "fund" /\ todo = {}
    /\ phase' = "move" /\ todo' = Held
    /\ UNCHANGED <<in, sums, left, funded, noted, moves, deferred, proj>>

-----------------------------------------------------------------------------
(* plan_portfolio_rebalance.                                               *)

Claimed == {moves[p].to : p \in Pool} \ {0}

Decayed(p, q) == in.offer[q].apr * Scale > in.offer[p].apr * (Scale + Margin)

Replacements(p) == {q \in InBand \ Claimed : Decayed(p, q)}

(* allocation.deployable_usdc: zero after either early return.             *)
ReportedDeployable == IF OpenSlots > 0 THEN Deployable ELSE 0

ReplacementBudget_WholeBudget(p, q) ==
    Greater(0, Lesser(ReportedDeployable, Headroom + in.held[p].value))

(* _reallocation_tranche: the larger of the tier-weight share and the      *)
(* freed value less the sale's and the swap's bounds, under both caps.     *)
ReplacementBudget(p, q) ==
    LET share == (ReportedDeployable * Scale * in.offer[q].apr)
                    \div ((Scale + Buffer) * sums.band)
        freed == (in.held[p].value * (Scale - Slippage)) \div (Scale + Buffer)
        wish  == Greater(share, freed)
        bound == IF Capped THEN Lesser(wish, ConcentrationBound) ELSE wish
    IN  Greater(0, Lesser(bound, Headroom + in.held[p].value))

Defer(p, reason) ==
    /\ deferred' = deferred \cup {<<p, reason>>}
    /\ UNCHANGED moves

Replace(p, q) ==
    LET size == EntrySize(q, ReplacementBudget(p, q)) IN
    IF ~GatesPass(q, ReplacementBudget(p, q)) \/ size < EffectiveMinimum
    THEN Defer(p, "reallocation_too_small")
    ELSE IF size < in.offer[q].swap THEN Defer(p, "reallocation_gas_refused")
    ELSE /\ moves' = [moves EXCEPT ![p] = [to |-> q, size |-> size]]
         /\ UNCHANGED deferred

(* One turn of the reallocation loop, held pools in symbol order.          *)
JudgeHeld(p) ==
    /\ phase = "move" /\ First(p)
    /\ IF in.held[p].kind # "hold" THEN UNCHANGED <<moves, deferred>>
       ELSE IF in.held[p].penal THEN Defer(p, "reallocation_penalty_window_active")
       ELSE IF ~in.held[p].ripe THEN Defer(p, "reallocation_min_hold_active")
       ELSE IF Replacements(p) = {} THEN UNCHANGED <<moves, deferred>>
       ELSE \E q \in Replacements(p) : Best(q, Replacements(p)) /\ Replace(p, q)
    /\ todo' = todo \ {p}
    /\ UNCHANGED <<in, phase, sums, left, funded, noted, proj>>

(* The steps in the plan's order: safety exits, the inventory step,        *)
(* recenters, reallocations, and the tranches no reallocation claimed.     *)
Exiting == {p \in Held : in.held[p].kind = "exit"}
Recentering == {p \in Held : in.held[p].kind = "recenter"}
Moving == {p \in Held : moves[p] # NoMove}
Entering == {p \in Pool : funded[p] > 0} \ Claimed

MovesDone ==
    /\ phase = "move" /\ todo = {}
    /\ phase' = "exits" /\ todo' = Exiting
    /\ proj' = [usd |-> sums.committed, count |-> Cardinality(Held)]
    /\ UNCHANGED <<in, sums, left, funded, noted, moves, deferred>>

(* The projection of one step.  A prefix over a bound raises ValueError:   *)
(* an inventory or recenter step commits nothing and is tested all the     *)
(* same, and so is an exit that leaves the book over the cap.              *)
Projects(p, usd, count) ==
    /\ proj' = [usd |-> proj.usd + usd, count |-> proj.count + count]
    /\ todo' = todo \ {p}
    /\ phase' = IF proj'.usd > TotalCap \/ (count = 1 /\ proj'.count > MaxPositions)
                THEN "raised" ELSE phase
    /\ UNCHANGED <<in, sums, left, funded, noted, moves, deferred>>

ProjectExit(p) ==
    phase = "exits" /\ First(p) /\ Projects(p, -in.held[p].value, -1)

ProjectInventory ==
    /\ phase = "inventory"
    /\ phase' = IF in.stock = "sold" /\ proj.usd > TotalCap THEN "raised" ELSE "recenters"
    /\ todo' = Recentering
    /\ UNCHANGED <<in, sums, left, funded, noted, moves, deferred, proj>>

ProjectRecenter(p) == phase = "recenters" /\ First(p) /\ Projects(p, 0, 0)

ProjectMove(p) ==
    phase = "moves" /\ First(p) /\ Projects(p, moves[p].size - in.held[p].value, 0)

ProjectEntry(p) ==
    phase = "entries" /\ Best(p, todo) /\ Projects(p, funded[p], 1)

ProjectOn ==
    /\ phase \in {"exits", "recenters", "moves", "entries"} /\ todo = {}
    /\ phase' = IF phase = "exits" THEN "inventory"
                ELSE IF phase = "recenters" THEN "moves"
                ELSE IF phase = "moves" THEN "entries" ELSE "done"
    /\ todo' = IF phase = "recenters" THEN Moving
               ELSE IF phase = "moves" THEN Entering ELSE {}
    /\ UNCHANGED <<in, sums, left, funded, noted, moves, deferred, proj>>

AllocNext ==
    \/ \E p \in Pool : SumUp(p) \/ FundTier(p) \/ JudgeHeld(p)
    \/ \E p \in Pool : ProjectExit(p) \/ ProjectRecenter(p) \/ ProjectMove(p) \/ ProjectEntry(p)
    \/ OpenBudget \/ TiersDone \/ MovesDone \/ ProjectInventory \/ ProjectOn

AllocSpec == AllocInit /\ [][AllocNext]_allocVars

-----------------------------------------------------------------------------
(* Properties.                                                             *)

(* Every variable keeps its type; what is left of the budget is never      *)
(* negative.                                                               *)
AllocTypeOK ==
    /\ in \in Book
    /\ phase \in {"sum", "fund", "move", "exits", "inventory", "recenters", "moves",
                 "entries", "done", "raised"}
    /\ todo \subseteq Pool
    /\ sums \in [committed : Nat, band : Nat, slots : Nat]
    /\ left \in Nat
    /\ funded \in [Pool -> Nat]

(* A reallocation commits more than it frees, to a pool whose gate refused *)
(* the tier's share and passes at the reallocation's, which is taken       *)
(* before the rounding is set aside and may be a few units larger          *)
(* (allocator.py:1077, :1416).                                             *)
GateOpened ==
    \E p \in Pool : /\ moves[p].size > in.held[p].value
                    /\ <<moves[p].to, "entry_gate_refused">> \in noted

(* The projection guard of plan_portfolio_rebalance, which aborts the      *)
(* whole cycle with a ValueError, never trips over what the plan commits:  *)
(* the tranches that no reallocation claims and the growth of the          *)
(* reallocated positions, sized in two loops from the same deployable      *)
(* budget, together keep the total cap and the count bound at every prefix *)
(* of the plan.  A gate that opens between the two sizings is the one      *)
(* exception: the budget it was refused has by then gone to another tier.  *)
PlannerNeverRaises == phase = "raised" => sums.committed > TotalCap \/ GateOpened

(* docs/policy-engine.md:74: none of the safety exits is ever deferred.    *)
SafetyExitsPlanned == phase = "raised" => Exiting = {}

(* Tiers that are shares of the budget always fit into it, the swap buffer *)
(* and the rounding included: only the minimum position size, which lifts  *)
(* a share, can leave a tier without the cash for it (allocator.py:1081).  *)
TiersFit == \A p \in Pool : <<p, "insufficient_cash">> \in noted => EffectiveMinimum > 0
=============================================================================
