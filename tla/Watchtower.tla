----------------------------- MODULE Watchtower -----------------------------
(***************************************************************************)
(* The range watchtower: a long-running process that polls each tracked    *)
(* position's pool tick and, in its legacy hard-exit mode, closes a        *)
(* tripped position; in monitor-only mode it notifies.  It shares the      *)
(* book file with the cycle (a five-minute timer), without the execution   *)
(* lock, and keeps one latch file for all positions; both survive crashes. *)
(* A latch file that cannot be read is a fresh latch, to every load.  The  *)
(* throttle of the unreadable-state notice is left out, its save is one    *)
(* that may or may not happen; so is the sale of the stock a withdrawal    *)
(* leaves in the Safe, which exit swap or cycle may make.                  *)
(***************************************************************************)
EXTENDS Integers, FiniteSets

CONSTANTS
    Positions,    \* bound: tokens are 1..Positions, in book (entry) order
    Cooldown,     \* the cooldown window, in clock ticks
    Units,        \* the units that may be installed: monitor-only, hard exit
    CycleRuns,    \* TRUE: the five-minute cycle runs beside it
    MaxDry        \* bound: dry-run cycles in one behaviour

ASSUME WatchAssumption == /\ Positions \in Nat
                          /\ Cooldown \in Nat \ {0}
                          /\ Units \subseteq {"monitor", "hard_exit"}
                          /\ CycleRuns \in BOOLEAN
                          /\ MaxDry \in Nat

Token == 1..Positions

VARIABLES
    unit,    \* the installed unit: the command line never changes
    poll,    \* the watchtower process's local state
    latch,   \* watchtower_state.json
    book,    \* the tracked positions of cycle_state.json
    cyc,     \* the cycle process's local state
    dry,     \* dry-run cycles so far (for the bound)
    inside,  \* tokens whose pool tick is inside their range
    stage,   \* per token: where the position is
    since,   \* history: cooldown left since the last close attempt began
    lost,    \* history: a load of the latch file failed since then
    told     \* history: per token, notices sent since it last left its range

vars == <<unit, poll, latch, book, cyc, dry, inside, stage, since, lost, told>>

\* latch.fired counts down what is left of the window that last_fired_at
\* opened: 0 is None or expired.
Latch   == [tripped : BOOLEAN, fired : 0..Cooldown]
NoLatch == [tripped |-> FALSE, fired |-> 0]

Live == {"staked", "safe"}     \* in the gauge, or withdrawable in the Safe
Stages == Live \cup {"unminted", "drained"}

\* todo: positions of the book read at the poll's start not yet looked at;
\* cur: the position whose trip is being handled; fresh and left: what the
\* latch loaded for it said of the trip, to a monitor, and of the cooldown, to
\* a hard exit.
Asleep == [pc |-> "sleep", book |-> {}, todo |-> {}, cur |-> 0, fresh |-> FALSE, left |-> 0]
PollPCs == {"sleep", "next", "notify", "tripped", "verify", "unstake", "withdraw",
            "exit_swap", "save", "unlatch"}
Poll == [pc : PollPCs, book : SUBSET Token, todo : SUBSET Token,
         cur : Token \cup {0}, fresh : BOOLEAN, left : 0..Cooldown]

NoCycle == [on |-> FALSE, pos |-> {}]

Init == /\ unit \in Units
        /\ poll = Asleep
        /\ latch = NoLatch
        /\ book = {}
        /\ cyc = NoCycle
        /\ dry = 0
        /\ inside = Token
        /\ stage = [t \in Token |-> "unminted"]
        /\ since = 0
        /\ lost = FALSE
        /\ told = [t \in Token |-> 0]

-----------------------------------------------------------------------------
(* One poll.                                                               *)

\* Any failure to read the latch file yields a fresh latch; a file deleted or
\* damaged is one that no load reads until the next save replaces it.
Loaded(ok) == IF ok THEN latch ELSE NoLatch
Losing(bad) == lost' = (lost \/ (bad /\ since > 0))

SaveTripped_OnFresh(ok, b) == /\ latch' = [NoLatch EXCEPT !.tripped = b]
                              /\ Losing(~ok)

\* A transition loads the file again, changes the one field and saves it whole.
SaveTripped(ok, b) == /\ latch' = [Loaded(ok) EXCEPT !.tripped = b]
                      /\ Losing(~ok)

\* The load that opened the pass decides whether there is a trip to reset.
Reset(ok, again) == IF Loaded(ok).tripped
                    THEN SaveTripped(again, FALSE)
                    ELSE UNCHANGED latch /\ Losing(~ok)

GoTo(pc) == poll' = [poll EXCEPT !.pc = pc]
Sleep    == poll' = Asleep

\* The outcome is not FIRED: the next tracked position is looked at.
Onward == poll' = [poll EXCEPT !.pc = IF poll.todo = {} THEN "sleep" ELSE "next",
                               !.cur = 0, !.left = 0]

PollStart(ok, again) ==
    /\ poll.pc = "sleep"
    /\ IF book = {}
       THEN /\ Reset(ok, again)
            /\ UNCHANGED poll
       ELSE /\ poll' = [Asleep EXCEPT !.pc = "next", !.book = book, !.todo = book]
            /\ UNCHANGED <<latch, lost>>
    /\ UNCHANGED <<book, cyc, dry, inside, stage, since, told, unit>>

\* The positions are looked at in book order.
Current(t) == /\ poll.pc = "next"
              /\ t \in poll.todo
              /\ \A u \in poll.todo : t <= u

Looked(t) == poll' = [poll EXCEPT !.todo = @ \ {t},
                                  !.pc = IF poll.todo = {t} THEN "sleep" ELSE "next"]

\* Bounds or tick unreadable: never a fire; a notice that is not throttled
\* saves the latch it loaded.
ReadFails(t, ok) ==
    /\ Current(t)
    /\ latch' \in {latch, Loaded(ok)}
    /\ Losing(~ok)
    /\ Looked(t)
    /\ UNCHANGED <<book, cyc, dry, inside, stage, since, told, unit>>

ReadInside(t, ok, again) ==
    /\ Current(t)
    /\ t \in inside
    /\ Reset(ok, again)
    /\ Looked(t)
    /\ UNCHANGED <<book, cyc, dry, inside, stage, since, told, unit>>

\* Out of range: a fresh trip is latched before anything else happens.
ReadOutside(t, ok, again) ==
    /\ Current(t)
    /\ t \notin inside
    /\ IF Loaded(ok).tripped THEN UNCHANGED <<latch, lost>>
       ELSE /\ latch' = [Loaded(again) EXCEPT !.tripped = TRUE]
            /\ Losing(~ok \/ ~again)
    /\ poll' = [poll EXCEPT !.pc = IF unit = "monitor" THEN "notify" ELSE "tripped",
                            !.cur = t, !.todo = @ \ {t},
                            !.fresh = unit = "monitor" /\ ~Loaded(ok).tripped,
                            !.left = IF unit = "monitor" THEN 0 ELSE Loaded(ok).fired]
    /\ UNCHANGED <<book, cyc, dry, inside, stage, since, told, unit>>

Notify_EveryPoll ==
    /\ poll.pc = "notify"
    /\ told' = [told EXCEPT ![poll.cur] = IF @ < 2 THEN @ + 1 ELSE @]
    /\ Onward
    /\ UNCHANGED <<latch, book, cyc, dry, inside, stage, since, lost, unit>>

\* Monitor-only: the notice goes out on a fresh trip only.
Notify ==
    /\ poll.pc = "notify"
    /\ told' = IF poll.fresh
               THEN [told EXCEPT ![poll.cur] = IF @ < 2 THEN @ + 1 ELSE @]
               ELSE told
    /\ Onward
    /\ UNCHANGED <<latch, book, cyc, dry, inside, stage, since, lost, unit>>

\* A trip stands, but the last attempt is too recent.
Suppress ==
    /\ poll.pc = "tripped"
    /\ poll.left > 0
    /\ Onward
    /\ UNCHANGED <<latch, book, cyc, dry, inside, stage, since, lost, told, unit>>

Fire_Unstamped ==
    /\ poll.pc = "tripped"
    /\ poll.left = 0
    /\ since' = Cooldown
    /\ lost' = FALSE
    /\ GoTo("verify")
    /\ UNCHANGED <<latch, book, cyc, dry, inside, stage, told, unit>>

\* The attempt is stamped before anything irreversible.
Fire ==
    /\ poll.pc = "tripped"
    /\ poll.left = 0
    /\ latch' = [tripped |-> TRUE, fired |-> Cooldown]
    /\ since' = Cooldown
    /\ lost' = FALSE
    /\ GoTo("verify")
    /\ UNCHANGED <<book, cyc, dry, inside, stage, told, unit>>

-----------------------------------------------------------------------------
(* The defensive close.                                                    *)

\* The audited status read confirms custody, bounds, trip and liquidity, and
\* the key loads and matches the relayer: this close is the poll's last.
VerifyStands ==
    /\ poll.pc = "verify"
    /\ stage[poll.cur] \in Live
    /\ poll.cur \notin inside
    /\ poll' = [poll EXCEPT !.todo = {},
                            !.pc = IF stage[poll.cur] = "staked" THEN "unstake" ELSE "withdraw"]
    /\ UNCHANGED <<latch, book, cyc, dry, inside, stage, since, lost, told, unit>>

\* The verified read finds the position back in range: unlatched, not fired,
\* and the poll goes on to the next position.
VerifyInside(ok) ==
    /\ poll.pc = "verify"
    /\ poll.cur \in inside
    /\ SaveTripped(ok, FALSE)
    /\ Onward
    /\ UNCHANGED <<book, cyc, dry, inside, stage, since, told, unit>>

\* Any other stand-down (unreadable, contradictory, no liquidity, no key, a
\* relayer mismatch) and any step that refuses or fails: reported, poll over.
StandDown ==
    /\ poll.pc \in {"verify", "unstake", "withdraw", "exit_swap"}
    /\ Sleep
    /\ UNCHANGED <<latch, book, cyc, dry, inside, stage, since, lost, told, unit>>

\* One audited close step; it refuses when the chain disagrees, and one that
\* is reported failed may have landed all the same.
CloseStep(pc, next, from, to) ==
    /\ poll.pc = pc
    /\ stage[poll.cur] = from
    /\ stage' = [stage EXCEPT ![poll.cur] = to]
    /\ GoTo(next) \/ Sleep
    /\ UNCHANGED <<latch, book, cyc, dry, inside, since, lost, told, unit>>

Unstake  == CloseStep("unstake", "withdraw", "staked", "safe")
Withdraw == CloseStep("withdraw", "exit_swap", "safe", "drained")
ExitSwap == CloseStep("exit_swap", "save", "drained", "drained")

\* The book read at the poll's start, less the closed position.
SaveBook ==
    /\ poll.pc = "save"
    /\ book' = poll.book \ {poll.cur}
    /\ poll' = [Asleep EXCEPT !.pc = "unlatch"]
    /\ UNCHANGED <<latch, cyc, dry, inside, stage, since, lost, told, unit>>

Unlatch(ok) ==
    /\ poll.pc = "unlatch"
    /\ SaveTripped(ok, FALSE)
    /\ Sleep
    /\ UNCHANGED <<book, cyc, dry, inside, stage, since, told, unit>>

\* A crash, or a SIGTERM that does not wait for the poll: systemd restarts it.
Crash ==
    /\ poll.pc # "sleep"
    /\ Sleep
    /\ UNCHANGED <<latch, book, cyc, dry, inside, stage, since, lost, told, unit>>

-----------------------------------------------------------------------------
(* The cycle, as far as it touches the same positions and the same file.   *)

\* Reconcile: empty positions drop and open ones stay; those the book lacks
\* are recovered, if the recovery succeeds.  A book that could not be read
\* against the chain stays as it is.
Open == {t \in Token : stage[t] \in Live}
Reconciled == {Open, Open \cap book, book}

CycleLoad_BookOnly(seen) ==
    /\ CycleRuns
    /\ ~cyc.on
    /\ seen = Open \cap book
    /\ cyc' = [on |-> TRUE, pos |-> seen]
    /\ UNCHANGED <<poll, latch, book, dry, inside, stage, since, lost, told, unit>>

CycleLoad(seen) ==
    /\ CycleRuns
    /\ ~cyc.on
    /\ seen \in Reconciled
    /\ cyc' = [on |-> TRUE, pos |-> seen]
    /\ UNCHANGED <<poll, latch, book, dry, inside, stage, since, lost, told, unit>>

\* A confirmed mint and stake checkpoint the cycle's working book at once.
CycleEnter(t) ==
    /\ cyc.on
    /\ stage[t] = "unminted"
    /\ \A u \in Token : u < t => stage[u] # "unminted"
    /\ stage' = [stage EXCEPT ![t] = "staked"]
    /\ cyc' = [cyc EXCEPT !.pos = @ \cup {t}]
    /\ book' = cyc.pos \cup {t}
    /\ inside' = inside \cup {t}
    /\ UNCHANGED <<poll, latch, since, lost, told, unit, dry>>

CycleExit(t) ==
    /\ cyc.on
    /\ t \in cyc.pos
    /\ stage[t] \in Live
    /\ stage' = [stage EXCEPT ![t] = "drained"]
    /\ cyc' = [cyc EXCEPT !.pos = @ \ {t}]
    /\ UNCHANGED <<poll, latch, book, dry, inside, since, lost, told, unit>>

CycleSave ==
    /\ cyc.on
    /\ book' = cyc.pos
    /\ cyc' = NoCycle
    /\ UNCHANGED <<poll, latch, dry, inside, stage, since, lost, told, unit>>

\* A dry run acts on nothing, takes no lock, and saves the book it built from
\* a load that may be long ago: any positions entered by now.
DrySave(seen) ==
    /\ CycleRuns
    /\ dry < MaxDry
    /\ dry' = dry + 1
    /\ \A t \in seen : stage[t] # "unminted"
    /\ book' = seen
    /\ UNCHANGED <<poll, latch, cyc, inside, stage, since, lost, told, unit>>

-----------------------------------------------------------------------------
(* The market and the clock (external).                                    *)

Drift(t) ==
    /\ stage[t] # "unminted"
    /\ inside' = IF t \in inside THEN inside \ {t} ELSE inside \cup {t}
    /\ told' = [told EXCEPT ![t] = 0]
    /\ UNCHANGED <<poll, latch, book, cyc, stage, since, lost, unit, dry>>

Less(n) == IF n > 0 THEN n - 1 ELSE 0

Tick_NoFloor ==
    /\ latch' = [latch EXCEPT !.fired = @ - 1]
    /\ poll' = [poll EXCEPT !.left = Less(@)]
    /\ since' = Less(since)
    /\ lost' = (lost /\ since > 1)
    /\ UNCHANGED <<book, cyc, dry, inside, stage, told, unit>>

Tick ==
    /\ latch' = [latch EXCEPT !.fired = Less(@)]
    /\ poll' = [poll EXCEPT !.left = Less(@)]
    /\ since' = Less(since)
    /\ lost' = (lost /\ since > 1)
    /\ UNCHANGED <<book, cyc, dry, inside, stage, told, unit>>

-----------------------------------------------------------------------------

Read(t) == \E ok, again \in BOOLEAN : ReadInside(t, ok, again) \/ ReadOutside(t, ok, again)

PollStep == \/ \E ok, again \in BOOLEAN : PollStart(ok, again)
            \/ \E t \in Token : Read(t) \/ \E ok \in BOOLEAN : ReadFails(t, ok)
            \/ Notify \/ Suppress \/ Fire
            \/ VerifyStands \/ StandDown
            \/ \E ok \in BOOLEAN : VerifyInside(ok) \/ Unlatch(ok)
            \/ Unstake \/ Withdraw \/ ExitSwap
            \/ SaveBook

CycleStep == \/ CycleSave
             \/ \E seen \in SUBSET Token : CycleLoad(seen) \/ DrySave(seen)
             \/ \E t \in Token : CycleEnter(t) \/ CycleExit(t)

Next == PollStep \/ Crash \/ CycleStep \/ Tick \/ \E t \in Token : Drift(t)

Spec == Init /\ [][Next]_vars

\* The service is restarted and keeps polling, time passes, the five-minute cycle
\* keeps running to its end, and no read, recovery, verification or close step
\* fails every single time it is tried.
Fairness ==
    /\ WF_vars(PollStep) /\ WF_vars(Tick)
    /\ SF_vars(PollStart(TRUE, TRUE))
    /\ \A t \in Token : SF_vars(ReadInside(t, TRUE, TRUE) \/ ReadOutside(t, TRUE, TRUE))
    /\ SF_vars(Fire) /\ SF_vars(VerifyStands)
    /\ SF_vars(Unstake /\ poll'.pc = "withdraw")
    /\ SF_vars(Withdraw)
    /\ SF_vars(CycleLoad(Open)) /\ WF_vars(CycleSave)

LiveSpec == Spec /\ Fairness

-----------------------------------------------------------------------------
(* Properties.                                                             *)

\* The files, the processes and the positions keep their types.
TypeOK == /\ unit \in Units
          /\ poll \in Poll
          /\ latch \in Latch
          /\ book \subseteq Token
          /\ cyc \in [on : BOOLEAN, pos : SUBSET Token]
          /\ dry \in 0..MaxDry
          /\ inside \subseteq Token
          /\ stage \in [Token -> Stages]
          /\ since \in 0..Cooldown
          /\ lost \in BOOLEAN
          /\ told \in [Token -> 0..2]

\* "Deleting it costs at most one extra close attempt" (docs/watchtower.md):
\* a close attempt begins inside the window that the previous one opened only
\* if a load of the latch file failed since that attempt - never for a crash,
\* a sibling's trip, or another save of the file.
LostLatchCostsOne ==
    [][(poll.pc = "tripped" /\ poll'.pc = "verify") => since = 0 \/ lost]_vars

\* Under the hard exit a position that stays out of range does not stay open
\* for ever, once the market has settled: it is closed by the watchtower or
\* the cycle, in spite of crashes, of lost latches, of failed recoveries, of a
\* book a dry run overwrote, of the shared cooldown and of siblings being
\* tripped too.
DefendedEventually ==
    unit = "hard_exit" /\ <>[][UNCHANGED inside]_vars =>
        []<>(\A t \in Token : t \in inside \/ stage[t] \notin Live)

=============================================================================
