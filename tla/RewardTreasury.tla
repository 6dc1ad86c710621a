---------------------------- MODULE RewardTreasury ----------------------------
(***************************************************************************)
(* What the cycle does with AERO rewards (_convert_rewards_if_due,         *)
(* _book_with_day_baseline, _yield_attribution): it claims what the gauges *)
(* owe, sells it for USDC once enough has gathered, and explains the       *)
(* rewards of the New York day from a baseline taken before the actions of *)
(* the day's first cycle.  The gauges accrue at any moment.                *)
(*                                                                         *)
(* The price of AERO is 1, or unread.  yielded and exact record what       *)
(* happened since the baseline; no action reads them.                      *)
(***************************************************************************)
EXTENDS Integers, FiniteSets, Functions

CONSTANTS Staked,      \* bound: the staked positions
          ConvertAt,   \* aero_conversion_min_usdc
          Retains,     \* the retain reward posture
          MaxYield,    \* bound: AERO accrued in all
          MaxDays      \* bound: days

ASSUME TreasuryAssumption ==
    /\ IsFiniteSet(Staked) /\ ConvertAt \in Nat \ {0} /\ Retains \in BOOLEAN
    /\ MaxYield \in Nat /\ MaxDays \in Nat \ {0}

VARIABLES
    earned,    \* [Staked -> Nat]: what the gauge owes each position
    penal,     \* positions inside the early-exit penalty window
    purse,     \* AERO in the Safe
    date,      \* the New York day
    baseline,  \* the saved baseline of the day
    turn,      \* what the cycle does next
    view,      \* AERO its first reconciliation saw
    claims,    \* positions it still collects
    sold,      \* AERO it converted
    report,    \* the rewards the last report explained
    yielded,   \* AERO accrued since the baseline was taken
    exact      \* nothing happened that the baseline cannot know

purseVars == <<earned, penal, purse, date, baseline, turn, view, claims, sold, report,
               yielded, exact>>

NoReport == -1

Owed(S) == SumFunctionOnSet(earned, S)

TreasuryInit ==
    /\ earned = [p \in Staked |-> 0] /\ penal = {} /\ purse = 0
    /\ date = 1 /\ baseline = [day |-> 0, units |-> 0, converted |-> 0]
    /\ turn = "rest" /\ view = 0 /\ claims = {} /\ sold = 0
    /\ report = NoReport /\ yielded = 0 /\ exact = TRUE

-----------------------------------------------------------------------------
(* The gauges and the calendar.                                            *)

Accrue(p) ==
    /\ yielded + purse + Owed(Staked) < MaxYield
    /\ earned' = [earned EXCEPT ![p] = @ + 1] /\ yielded' = yielded + 1
    /\ UNCHANGED <<penal, purse, date, baseline, turn, view, claims, sold, report, exact>>

PenaltyTurns(p) ==
    /\ penal' = (penal \ {p}) \cup ({p} \ penal)
    /\ UNCHANGED <<earned, purse, date, baseline, turn, view, claims, sold, report, yielded, exact>>

Midnight ==
    /\ turn = "rest" /\ date < MaxDays
    /\ date' = date + 1
    /\ UNCHANGED <<earned, penal, purse, baseline, turn, view, claims, sold, report, yielded, exact>>

-----------------------------------------------------------------------------
(* A cycle.                                                                *)

NewDay == baseline.day # date

(* The first reconciliation.  A cycle that begins a day restarts the count *)
(* of what accrued since.  Out of band it read the positions before the    *)
(* offending one only, and goes straight to the save.                      *)
Observe ==
    /\ turn = "rest"
    /\ \/ /\ view' = purse + Owed(Staked)
          /\ turn' = "convert"
          /\ exact' = (exact \/ NewDay)
       \/ \E S \in SUBSET Staked :
            /\ view' = purse + Owed(S)
            /\ turn' = "save"
            /\ exact' = IF NewDay THEN Owed(S) = Owed(Staked) ELSE exact
    /\ yielded' = IF NewDay THEN 0 ELSE yielded
    /\ report' = NoReport
    /\ UNCHANGED <<earned, penal, purse, date, baseline, claims, sold>>

(* The cycle's main action unstakes a position: its gauge pays out, or     *)
(* keeps the reward inside the penalty window.                             *)
UnstakePays(p) ==
    /\ turn = "convert" /\ earned[p] > 0
    /\ earned' = [earned EXCEPT ![p] = 0]
    /\ IF p \in penal THEN exact' = FALSE /\ UNCHANGED purse
       ELSE purse' = purse + earned[p] /\ UNCHANGED exact
    /\ UNCHANGED <<penal, date, baseline, turn, view, claims, sold, report, yielded>>

(* Nothing to do without a price or under the threshold; else one collect  *)
(* for each position that is owed something and outside its penalty.       *)
WeighConversion ==
    /\ turn = "convert"
    /\ \/ turn' = "save" /\ UNCHANGED claims
       \/ /\ purse + Owed(Staked) >= ConvertAt
          /\ turn' = "collect"
          /\ claims' = {p \in Staked \ penal : earned[p] > 0}
    /\ UNCHANGED <<earned, penal, purse, date, baseline, view, sold, report, yielded, exact>>

Collected(p) == earned' = [earned EXCEPT ![p] = 0] /\ purse' = purse + earned[p]

(* execute_collect; one that is refused or fails may have landed.          *)
Collect(p) ==
    /\ turn = "collect" /\ p \in claims
    /\ \/ Collected(p) /\ claims' = claims \ {p} /\ UNCHANGED turn
       \/ /\ Collected(p) \/ UNCHANGED <<earned, purse>>
          /\ claims' = {} /\ turn' = "save"
    /\ UNCHANGED <<penal, date, baseline, view, sold, report, yielded, exact>>

(* execute_aero_swap of all the AERO in the Safe.  Only a swap reported    *)
(* completed is counted as converted.                                      *)
SellRewards ==
    /\ turn = "collect" /\ claims = {}
    /\ turn' = "save"
    /\ IF purse = 0 \/ Retains THEN UNCHANGED <<purse, sold, exact>>
       ELSE \/ purse' = 0 /\ sold' = purse /\ UNCHANGED exact
            \/ purse' = 0 /\ exact' = FALSE /\ UNCHANGED sold
            \/ UNCHANGED <<purse, sold, exact>>
    /\ UNCHANGED <<earned, penal, date, baseline, view, claims, report, yielded>>

WithBaseline_FromEnd ==
    IF NewDay THEN [day |-> date, units |-> purse + Owed(Staked), converted |-> sold]
    ELSE [baseline EXCEPT !.converted = @ + sold]

(* _book_with_day_baseline: what the first reconciliation of the day saw,  *)
(* and what was converted since.                                           *)
WithBaseline ==
    IF NewDay THEN [day |-> date, units |-> view, converted |-> sold]
    ELSE [baseline EXCEPT !.converted = @ + sold]

(* The save and the report, from a reconciliation of their own.            *)
Conclude ==
    /\ turn = "save"
    /\ baseline' = WithBaseline
    /\ report' = purse + Owed(Staked) + baseline'.converted - baseline'.units
    /\ turn' = "rest" /\ claims' = {} /\ sold' = 0
    /\ UNCHANGED <<earned, penal, purse, date, view, yielded, exact>>

(* The process dies: what it converted is not in the saved baseline.  If   *)
(* it was the first of its day, the next cycle takes the baseline.         *)
TreasuryCrash ==
    /\ turn # "rest"
    /\ turn' = "rest" /\ claims' = {} /\ sold' = 0
    /\ exact' = (exact /\ sold = 0)
    /\ UNCHANGED <<earned, penal, purse, date, baseline, view, report, yielded>>

TreasuryNext ==
    \/ \E p \in Staked : Accrue(p) \/ PenaltyTurns(p) \/ UnstakePays(p) \/ Collect(p)
    \/ Midnight \/ Observe \/ WeighConversion \/ SellRewards \/ Conclude \/ TreasuryCrash

TreasurySpec == TreasuryInit /\ [][TreasuryNext]_purseVars

-----------------------------------------------------------------------------
(* Properties.                                                             *)

(* Every variable keeps its type.                                          *)
TreasuryTypeOK ==
    /\ earned \in [Staked -> Nat] /\ penal \subseteq Staked /\ purse \in Nat
    /\ date \in 1..MaxDays
    /\ baseline \in [day : 0..MaxDays, units : Nat, converted : Nat]
    /\ turn \in {"rest", "convert", "collect", "save"}
    /\ view \in Nat /\ claims \subseteq Staked /\ sold \in Nat
    /\ report \in Int /\ yielded \in Nat /\ exact \in BOOLEAN

(* The day's rewards are explained to the unit, over claims, exits,        *)
(* conversions and midnight, whatever fails in between: as long as no      *)
(* conversion landed unseen, no penalty was paid and no out-of-band cycle  *)
(* took the baseline, a report names what the gauges accrued since the     *)
(* day's first look (cycle.py:5686).                                       *)
RewardsExplained ==
    [][turn = "save" /\ turn' = "rest" /\ report' # NoReport /\ exact'
          => report' = yielded]_purseVars
=============================================================================
