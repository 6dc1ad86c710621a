---------------------------- MODULE PolicySession ----------------------------
(***************************************************************************)
(* A pinned cycle's decisions over time.  Each cycle threads the persisted *)
(* policy state through PolicyEngine.decide, acts on the decision          *)
(* (CycleRunner._act) and rebuilds the book (CycleRunner._rebuild_book).   *)
(* The action may be carried out, or fail in the ways _act returns from:   *)
(* nothing happened, an exit left its stock unsold, or a mint failed and   *)
(* left stock loose or cash.  The rebuilt book always threads the day facts, the      *)
(* cooldown and the dilution marker of the engine's successor state; what  *)
(* is held comes from the chain.  Where every action is carried out, this  *)
(* is the replay of rehearsal.py.                                          *)
(*                                                                         *)
(* seen, lost, out, exit and stock record what was observed and done.  No  *)
(* action reads them.                                                      *)
(***************************************************************************)
EXTENDS PolicyGates

CONSTANTS Worlds,    \* the observations a cycle may make
          Gaps,      \* instants between one cycle and the next
          MaxTime,   \* bound: instants
          MaxDay     \* bound: days

ASSUME WorldsAssumption ==
    /\ Worlds \subseteq Observation
    /\ Gaps \subseteq Nat \ {0}
    /\ MaxTime \in Nat /\ MaxDay \in Nat

VARIABLES now,    \* instant of the next cycle
          today,  \* New York date of the last cycle
          st,     \* the persisted policy state
          did,    \* the last decision: kind, APR and width verdict it saw
          seen,   \* equities observed so far
          lost,   \* a halting fall was observed today
          out,    \* since when the range rules see the position out, and where
          exit,   \* the last completed exit, until an entry succeeds
          stock   \* since when stock has been loose, 0 when none is

vars == <<now, today, st, did, seen, lost, out, exit, stock>>

ExitKinds == {"none", "plain", "cooling", "dilution"}
NoExit == [kind |-> "none", at |-> 0, tried |-> FALSE]

(* The types, and the shape of a state the engine accepts: a position and  *)
(* loose stock exclude each other, only an open position has a clock, and  *)
(* a running clock has a side (PolicyState, PolicyPosition).               *)
TypeOK ==
    /\ now \in Nat \ {0} /\ today \in Nat \ {0}
    /\ st \in State
    /\ did \in [kind : Kinds, apr : {"under", "floor", "margin"},
                width : {"solved", "deferred", "cash"}]
    /\ seen \subseteq Nat
    /\ lost \in BOOLEAN
    /\ out \in Anchor
    /\ exit \in [kind : ExitKinds, at : Nat, tried : BOOLEAN]
    /\ stock \in Nat
    /\ st.open => st.held = NoStock
    /\ ~st.open => st.anchor = NoAnchor
    /\ st.anchor.since = 0 <=> st.anchor.side = "none"
    /\ st.held.since = 0 => ~st.held.retry

Init ==
    /\ now = 1 /\ today = 1
    /\ st = FreshState
    /\ did = [kind |-> "hold", apr |-> "under", width |-> "deferred"]
    /\ seen = {} /\ lost = FALSE
    /\ out = NoAnchor
    /\ exit = NoExit
    /\ stock = 0

-----------------------------------------------------------------------------

(* The state a decision is made on.                                        *)
Observed(o, day) == ObserveDay(st, o.equity, day)

(* The action did not happen: the position, its clock and the stock stay.  *)
Undone(s, a) ==
    [a EXCEPT !.open = s.open, !.anchor = s.anchor, !.held = s.held]

LeftLoose_Restamped(s, a, at) ==
    [a EXCEPT !.open = FALSE, !.anchor = NoAnchor,
              !.held = [since |-> at, retry |-> TRUE]]

(* A mint failed with stock in the Safe: a retry keeps its first instant.  *)
LeftLoose(s, a, at) ==
    [a EXCEPT !.open = FALSE, !.anchor = NoAnchor,
              !.held = [since |-> IF s.held = NoStock THEN at ELSE s.held.since,
                        retry |-> TRUE]]

(* An exit withdrew its position and could not sell: the stock found in    *)
(* the Safe is adopted, and is no retry.                                   *)
LeftUnsold(a, o, at) ==
    [a EXCEPT !.held = IF Side(o) = "above" THEN NoStock
                       ELSE [since |-> at, retry |-> FALSE]]

(* A mint failed with no stock in the Safe.                                *)
LeftCash(a) ==
    [a EXCEPT !.open = FALSE, !.anchor = NoAnchor, !.held = NoStock]

-----------------------------------------------------------------------------
(* What is recorded of a cycle that observed o on day, decided on s and    *)
(* did (done) or did not carry its decision out.                           *)

NowSeen(o, day, s) ==
    /\ did' = [kind |-> Kind(s, o, now), apr |-> o.apr, width |-> o.width]
    /\ seen' = seen \cup {o.equity}
    /\ lost' = \/ lost /\ day = today
               \/ \E e \in seen' : Drawdown(e, o.equity)
    /\ today' = day

(* The range rules see the position at every decision but a safety exit.   *)
NowOut(o, s, done) ==
    LET k == Kind(s, o, now) IN
    out' = IF ~st'.open \/ (done /\ k \in {"enter", "recenter"}) THEN NoAnchor
           ELSE IF k \in SafetyKinds THEN out
           ELSE IF Side(o) = "none" THEN NoAnchor
           ELSE IF out.side = Side(o) THEN out
           ELSE [since |-> now, side |-> Side(o)]

ExitKind(k) ==
    IF k \in {"stop_out", "range_grace_exit"} THEN "cooling"
    ELSE IF k = "dilution_exit" THEN "dilution"
    ELSE "plain"

\* An exit stands until an entry succeeds; tried: one has failed since.
NowExited(o, s, done) ==
    exit' = IF Kind(s, o, now) = "enter"
            THEN IF done THEN NoExit ELSE [exit EXCEPT !.tried = TRUE]
            ELSE IF s.open /\ ~st'.open
            THEN [kind |-> ExitKind(Kind(s, o, now)), at |-> now, tried |-> FALSE]
            ELSE exit

NowLoose ==
    stock' = IF st'.held = NoStock THEN 0 ELSE IF stock = 0 THEN now ELSE stock

Recorded(o, day, s, done) ==
    /\ NowSeen(o, day, s)
    /\ NowOut(o, s, done)
    /\ NowExited(o, s, done)
    /\ NowLoose
    /\ \E gap \in Gaps : now + gap <= MaxTime /\ now' = now + gap

-----------------------------------------------------------------------------

(* The decision is a hold, or its action completes.                        *)
Completes(o, day) ==
    LET s == Observed(o, day) IN
    /\ st' = After(s, o, now)
    /\ Recorded(o, day, s, TRUE)

(* The preflight refuses, the exit halts before its withdrawal, or the     *)
(* sale of loose stock fails.                                              *)
Fails(o, day) ==
    LET s == Observed(o, day) IN
    /\ Kind(s, o, now) \notin {"hold", "enter"}
    /\ st' = Undone(s, After(s, o, now))
    /\ Recorded(o, day, s, FALSE)

(* The exit swap fails behind the withdrawal.                              *)
SaleFails(o, day) ==
    LET s == Observed(o, day) IN
    /\ Kind(s, o, now) \in SafetyKinds \ {"stale_low_burn"}
    /\ st' = LeftUnsold(After(s, o, now), o, now)
    /\ Recorded(o, day, s, FALSE)

(* The mint of an entry or of a recenter fails, the swap before it did not.*)
MintFails(o, day) ==
    LET s == Observed(o, day) IN
    /\ Kind(s, o, now) \in {"enter", "recenter"}
    /\ st' = LeftLoose(s, After(s, o, now), now)
    /\ Recorded(o, day, s, FALSE)

(* The mint fails and the Safe holds no stock of the pool.                 *)
MintFailsInCash(o, day) ==
    LET s == Observed(o, day) IN
    /\ Kind(s, o, now) \in {"enter", "recenter"}
    /\ st' = LeftCash(After(s, o, now))
    /\ Recorded(o, day, s, FALSE)

Cycle(o, day) ==
    \/ Completes(o, day) \/ Fails(o, day) \/ SaleFails(o, day)
    \/ MintFails(o, day) \/ MintFailsInCash(o, day)

Next == \E o \in Worlds, day \in {today, today + 1} : day <= MaxDay /\ Cycle(o, day)

Spec == Init /\ [][Next]_vars

-----------------------------------------------------------------------------

(* No entry, and no retry of one, is authorised on a day on which the      *)
(* equity was seen at least five percent under any mark seen before, on    *)
(* that day or an earlier one (observe_day, _decide_flat).                 *)
LossHaltHolds == did.kind = "enter" => ~lost

(* A hold past the acting window is due to the near edge or to a blocked   *)
(* recenter, and past the grace window to missing range evidence alone; no *)
(* recenter or grace exit comes before its window.  The time is that since *)
(* the range rules first saw the position out on the side it is on         *)
(* (_decide_with_position, the clock threaded by _rebuild_book).           *)
OutOfRangeBounded ==
    [][LET waited == now - out.since IN
       /\ did'.kind = "recenter" =>
            out.since # 0 /\ (waited >= Wait \/ waited >= Grace)
       /\ did'.kind = "range_grace_exit" => out.since # 0 /\ waited >= Grace
       /\ did'.kind = "hold" /\ out'.since # 0 /\ now - out'.since >= Grace =>
            did'.width = "deferred"]_vars

(* After a completed stop, dilution or grace exit no entry is authorised   *)
(* before the cooldown is over, whatever exits and mints failed, and the   *)
(* first one after a dilution exit not under the margin (_safety_exit,     *)
(* _rebuild_book).  The margin should bind "until the next successful      *)
(* entry" (policy.py:676); the engine drops it when it authorises one      *)
(* (policy.py:2820), so it does not bind once a mint has failed.           *)
ReentryGuarded ==
    [][did'.kind = "enter" =>
         /\ exit.kind \in {"cooling", "dilution"} => now >= exit.at + Cooldown
         /\ exit.kind = "dilution" /\ ~exit.tried => did'.apr = "margin"]_vars

(* Loose stock is sold at the first cycle after the timeout: neither a     *)
(* retried mint nor a failed sale extends it (_decide_holding_inventory,   *)
(* the kept held_since of _act).                                           *)
StockUnwound ==
    [][stock # 0 /\ now - stock >= Timeout => did'.kind = "sell_inventory"]_vars

(* The gate trace of a state names a failing gate exactly when the engine, *)
(* flat in that state, would not enter (entry_gate_trace, _decide_flat).   *)
TraceAgrees ==
    \A o \in Worlds :
        LET flat == [st EXCEPT !.open = FALSE, !.anchor = NoAnchor, !.held = NoStock]
        IN  FailedGates(flat, o, now, today) = {}
              <=> Kind(ObserveDay(flat, o.equity, today), o, now) = "enter"
=============================================================================
