----------------------------- MODULE PolicyGates -----------------------------
(***************************************************************************)
(* The decision of PolicyEngine (src/src/aero_bot/policy.py): one state,   *)
(* one observation and one instant in, one action kind and one successor   *)
(* state out, with no I/O.  The engine compares Decimals with bounds; an   *)
(* observation here carries the side of each bound it falls on:            *)
(*                                                                         *)
(*   equity   marked portfolio equity (the basis of both loss latches)     *)
(*   zone     the pool price against the range of the open position:       *)
(*            at or under the stop level, below the lower edge, below it   *)
(*            by less than the displacement minimum, inside, at or above   *)
(*            the upper edge                                               *)
(*   ref      the reference quote: not enforced, within the 300 s entry    *)
(*            bound, within the 900 s open bound, missing or older         *)
(*   gap      pool price against the reference: under the lower            *)
(*            threshold, exactly on it, between, at or over the upper one  *)
(*   apr      raw emissions APR: under the floor, between floor and        *)
(*            dilution margin, at or over the margin                       *)
(*   flat     oracle stale or registry paused                              *)
(*   depth    the pool depth leaves a positive size                        *)
(*   gas      the gas price is unreadable, over the ceiling, priced so     *)
(*            that the batch costs too much of a day's yield, or fair      *)
(*   width    the range solve: solved, deferred, or best net nonpositive   *)
(*   pays     a downside recenter pays itself back within a day            *)
(*                                                                         *)
(* Instants and days are positive numbers and 0 is the absent one.         *)
(***************************************************************************)
EXTENDS Naturals

CONSTANTS Wait,      \* recenter_wait
          Grace,     \* out_of_range_grace
          Cooldown,  \* reentry_cooldown
          Timeout    \* convergence_timeout

ASSUME DurationsAssumption ==
    /\ Wait \in Nat \ {0} /\ Grace \in Nat \ {0}
    /\ Cooldown \in Nat \ {0} /\ Timeout \in Nat \ {0}

-----------------------------------------------------------------------------

Zones == {"stop", "below", "near", "in", "above"}

Observation ==
    [equity : Nat \ {0}, zone : Zones,
     ref : {"off", "fresh", "aged", "blind"}, gap : {"low", "edge", "near", "high"},
     apr : {"under", "floor", "margin"}, flat : BOOLEAN, depth : BOOLEAN,
     gas : {"unread", "high", "costly", "fair"},
     width : {"solved", "deferred", "cash"}, pays : BOOLEAN]

(* The out-of-range clock of a position: since 0 is no clock.  Side "none" *)
(* with a set clock is a state written before the clock had a side.        *)
Anchor == [since : Nat, side : {"none", "above", "below"}]
NoAnchor == [since |-> 0, side |-> "none"]

(* Stock held loose.  retry: it is left over from a failed mint.           *)
Stock == [since : Nat, retry : BOOLEAN]
NoStock == [since |-> 0, retry |-> FALSE]

State ==
    [day : Nat, start : Nat, peak : Nat, halted : Nat,
     open : BOOLEAN, anchor : Anchor, held : Stock,
     blocked : Nat, diluted : BOOLEAN]

(* STARTING_EQUITY_USDC seeds the anchor; the first observation resets it. *)
FreshState ==
    [day |-> 0, start |-> 200, peak |-> 0, halted |-> 0,
     open |-> FALSE, anchor |-> NoAnchor, held |-> NoStock,
     blocked |-> 0, diluted |-> FALSE]

-----------------------------------------------------------------------------

(* A fall of at least daily_loss_halt_fraction from one mark to another.   *)
Drawdown(from, to) == 100 * to <= 95 * from

ObserveDay_PeakRollsOver(s, e, today) ==
    LET start == IF s.day # today THEN e ELSE s.start
        peak  == IF s.day # today \/ e > s.peak THEN e ELSE s.peak
    IN  [s EXCEPT !.day = today, !.start = start, !.peak = peak,
                  !.halted = IF Drawdown(start, e) \/ Drawdown(peak, e) THEN today
                             ELSE IF s.day # today THEN 0 ELSE @]

(* observe_day: day rollover, peak ratchet, both latches.                  *)
ObserveDay(s, e, today) ==
    LET rolled == s.day # today
        start  == IF rolled THEN e ELSE s.start
        peak   == IF e > s.peak THEN e ELSE s.peak
        latch  == IF rolled THEN 0 ELSE s.halted
        lost   == Drawdown(start, e) \/ Drawdown(peak, e)
    IN  [day |-> today, start |-> start, peak |-> peak,
         halted |-> IF lost THEN today ELSE latch,
         open |-> s.open, anchor |-> s.anchor, held |-> s.held,
         blocked |-> s.blocked, diluted |-> s.diluted]

Halted(s) == s.halted = s.day

(* _reference_stale and _reference_beyond_open_bound.                      *)
ReferenceStale(o) == o.ref \in {"aged", "blind"}
ReferenceBeyondOpenBound(o) == o.ref = "blind"

(* _gas_gate_blocks, fail-closed on an unreadable price.                   *)
GasBlocks(o) == o.gas # "fair"

(* _decide_flat: the conjunction of its ordered gates.                     *)
EntryPasses(s, o, at) ==
    /\ ~Halted(s)
    /\ at >= s.blocked
    /\ ~o.flat
    /\ ~ReferenceStale(o)
    /\ o.apr # "under"
    /\ s.diluted => o.apr = "margin"
    /\ o.depth
    /\ ~GasBlocks(o)
    /\ o.width = "solved"

FlatKind(s, o, at) == IF EntryPasses(s, o, at) THEN "enter" ELSE "hold"

(* The gates of the trace.                                                 *)
Gates == {"daily_loss_halt", "reentry_cooldown", "condition_flat",
          "reference_freshness", "emissions_floor", "entry_size",
          "gas_ceiling", "gas_cost_vs_yield", "range_width_solve"}

FailedGates_FloorOnly(s, o, at, today) ==
    LET w == ObserveDay(s, o.equity, today) IN
    {g \in Gates :
        \/ g = "daily_loss_halt" /\ w.halted = w.day
        \/ g = "reentry_cooldown" /\ s.blocked # 0 /\ at < s.blocked
        \/ g = "condition_flat" /\ o.flat
        \/ g = "reference_freshness" /\ o.ref # "off" /\ o.ref # "fresh"
        \/ g = "emissions_floor" /\ o.apr = "under"
        \/ g = "entry_size" /\ ~o.depth
        \/ g = "gas_ceiling" /\ o.gas # "fair"
        \/ g = "range_width_solve" /\ o.width # "solved"}

(* entry_gate_trace: the names of the gates that FAIL, worked out again    *)
(* from the state before the day was observed.                             *)
FailedGates(s, o, at, today) ==
    LET w == ObserveDay(s, o.equity, today) IN
    {g \in Gates :
        \/ g = "daily_loss_halt" /\ w.halted = w.day
        \/ g = "reentry_cooldown" /\ s.blocked # 0 /\ at < s.blocked
        \/ g = "condition_flat" /\ o.flat
        \/ g = "reference_freshness" /\ o.ref # "off" /\ o.ref # "fresh"
        \/ g = "emissions_floor" /\ (IF s.diluted THEN o.apr # "margin"
                                                  ELSE o.apr = "under")
        \/ g = "entry_size" /\ ~o.depth
        \/ g = "gas_ceiling" /\ o.gas \in {"unread", "high"}
        \/ g = "gas_cost_vs_yield" /\ o.gas \in {"unread", "costly"}
        \/ g = "range_width_solve" /\ (~o.depth \/ o.gas = "unread" \/ o.width # "solved")}

-----------------------------------------------------------------------------
(* Safety exits of an open position, in the order the engine tests them.   *)

SafetyKinds ==
    {"defensive_exit", "dislocation_exit", "stale_low_burn",
     "stop_out", "dilution_exit", "event_exit"}

SafetyKind(o) ==
    IF ReferenceBeyondOpenBound(o) THEN "defensive_exit"
    ELSE IF o.ref = "fresh" /\ o.gap = "high" THEN "dislocation_exit"
    ELSE IF o.ref = "fresh" /\ o.gap \in {"low", "edge"} THEN "stale_low_burn"
    ELSE IF o.zone = "stop" THEN "stop_out"
    ELSE IF o.apr = "under" THEN "dilution_exit"
    ELSE IF o.flat THEN "event_exit"
    ELSE "none"

(* The range rules, reached when no safety exit fires.                     *)
Side(o) == IF o.zone = "above" THEN "above"
           ELSE IF o.zone \in {"stop", "below", "near"} THEN "below"
           ELSE "none"

WaitFrom_AnySide(s, o, at) ==
    IF s.anchor.since # 0 THEN s.anchor.since ELSE at

WaitFrom_NoClockIsZero(s, o, at) ==
    IF s.anchor.side \in {"none", Side(o)} THEN s.anchor.since ELSE at

WaitFrom(s, o, at) ==
    IF s.anchor.since # 0 /\ s.anchor.side \in {"none", Side(o)}
    THEN s.anchor.since ELSE at

MustAct(s, o, at) == at - WaitFrom(s, o, at) >= Grace

StillWaits(s, o, at) ==
    /\ ~MustAct(s, o, at)
    /\ \/ at - WaitFrom(s, o, at) < Wait
       \/ o.zone = "near"

(* The recenter economics: depth, gas and, below the range, payback.       *)
Uneconomic(o) ==
    ~o.depth \/ GasBlocks(o) \/ (Side(o) = "below" /\ ~o.pays)

RangeKind(s, o, at) ==
    IF Side(o) = "none" \/ StillWaits(s, o, at) THEN "hold"
    ELSE IF Uneconomic(o) \/ o.width = "cash"
         THEN IF MustAct(s, o, at) THEN "range_grace_exit" ELSE "hold"
    ELSE IF o.width = "deferred" THEN "hold" ELSE "recenter"

OpenKind(s, o, at) ==
    IF SafetyKind(o) # "none" THEN SafetyKind(o) ELSE RangeKind(s, o, at)

-----------------------------------------------------------------------------
(* _decide_holding_inventory.                                              *)

TimedOut(s, at) == at - s.held.since >= Timeout

Converged(o) == o.ref = "fresh" /\ o.gap # "low"

HeldKind(s, o, at) ==
    IF s.held.retry /\ ~o.flat /\ ~TimedOut(s, at) /\ EntryPasses(s, o, at)
    THEN "enter"
    ELSE IF o.flat \/ TimedOut(s, at) \/ Converged(o) THEN "sell_inventory"
    ELSE "hold"

(* decide, on a state whose day has been observed.                         *)
Kind(s, o, at) ==
    IF s.held # NoStock THEN HeldKind(s, o, at)
    ELSE IF s.open THEN OpenKind(s, o, at)
    ELSE FlatKind(s, o, at)

Kinds == SafetyKinds \cup
    {"enter", "hold", "recenter", "range_grace_exit", "sell_inventory"}

-----------------------------------------------------------------------------
(* The successor state of each decision.                                   *)

(* _safety_exit with and without the cooldown.                             *)
Exited(s, until, dilution) ==
    [s EXCEPT !.open = FALSE, !.anchor = NoAnchor,
              !.blocked = until, !.diluted = dilution]

Burned_NoCooldown(s, o, at, until) ==
    [s EXCEPT !.open = FALSE, !.anchor = NoAnchor,
              !.held = IF Side(o) = "above" THEN NoStock
                       ELSE [since |-> at, retry |-> FALSE]]

(* The part of an exit that leaves the withdrawn stock unsold: above its   *)
(* range the position was all USDC and there is none.                      *)
Burned(s, o, at, until) ==
    [s EXCEPT !.open = FALSE, !.anchor = NoAnchor, !.blocked = until,
              !.held = IF Side(o) = "above" THEN NoStock
                       ELSE [since |-> at, retry |-> FALSE]]

Minted(s) ==
    [s EXCEPT !.open = TRUE, !.anchor = NoAnchor, !.held = NoStock]

(* A hold starts, keeps or clears the clock of an open position, unless it *)
(* was the inventory branch or an entry gate that held.                    *)
Waiting(s, o, at) ==
    IF ~s.open \/ s.held # NoStock THEN s
    ELSE [s EXCEPT !.anchor =
            IF Side(o) = "none" THEN NoAnchor
            ELSE [since |-> WaitFrom(s, o, at), side |-> Side(o)]]

After(s, o, at) ==
    LET k == Kind(s, o, at) IN
    IF k \in {"defensive_exit", "dislocation_exit", "event_exit"} THEN Exited(s, 0, FALSE)
    ELSE IF k = "stop_out" THEN Exited(s, at + Cooldown, FALSE)
    ELSE IF k = "dilution_exit" THEN Exited(s, at + Cooldown, TRUE)
    ELSE IF k = "stale_low_burn" THEN Burned(s, o, at, s.blocked)
    ELSE IF k = "range_grace_exit" THEN Burned(s, o, at, at + Cooldown)
    ELSE IF k = "recenter" THEN Minted(s)
    ELSE IF k = "enter" THEN [Minted(s) EXCEPT !.diluted = FALSE]
    ELSE IF k = "sell_inventory" THEN [s EXCEPT !.held = NoStock]
    ELSE Waiting(s, o, at)
=============================================================================
