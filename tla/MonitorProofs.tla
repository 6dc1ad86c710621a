---------------------------- MODULE MonitorProofs ----------------------------
(***************************************************************************)
(* Proofs about what defends in the operator's absence: the close attempts *)
(* of the watchtower, for any number of positions and any cooldown.        *)
(***************************************************************************)
EXTENDS Watchtower, TLAPS

-----------------------------------------------------------------------------
(* The watchtower.                                                         *)

\* Unless a load failed, neither the stamp in the file nor the one a tripped
\* poll goes by runs out before the window of the last close attempt: no
\* transition of the latch shortens it.
Stamped == /\ since <= latch.fired
           /\ poll.pc = "tripped" => since <= poll.left

WatchInv == /\ TypeOK
            /\ ~lost => Stamped

USE WatchAssumption

\* A process between two polls is typed.
LEMMA AsleepTyped == Asleep \in Poll /\ Asleep.pc = "sleep"
  BY DEF Asleep, Poll, PollPCs

\* So is one that goes on to the next position.
LEMMA OnwardTyped ==
  ASSUME poll \in Poll, Onward
  PROVE  poll' \in Poll /\ poll'.pc \in {"sleep", "next"}
  <1> DEFINE c == IF poll.todo = {} THEN "sleep" ELSE "next"
  <1>1. c \in PollPCs /\ c \in {"sleep", "next"} /\ 0 \in 0..Cooldown /\ 0 \in Token \cup {0}
    BY DEF PollPCs
  <1>2. poll' = [poll EXCEPT !.pc = c, !.cur = 0, !.left = 0]
    BY DEF Onward
  <1> HIDE DEF c
  <1> QED
    BY <1>1, <1>2 DEF Poll

\* The initial state satisfies the inductive invariant.
LEMMA WatchInit == Init => WatchInv
  <1> SUFFICES ASSUME Init PROVE WatchInv
    OBVIOUS
  <1>1. poll \in Poll /\ poll.pc = "sleep"
    BY AsleepTyped DEF Init
  <1>2. latch \in Latch /\ latch.fired = 0 /\ since = 0 /\ lost = FALSE
    BY DEF Init, NoLatch, Latch
  <1>3. /\ unit \in Units /\ book \subseteq Token /\ inside \subseteq Token
        /\ cyc \in [on : BOOLEAN, pos : SUBSET Token]
        /\ stage \in [Token -> Stages] /\ told \in [Token -> 0..2]
    BY DEF Init, NoCycle, Stages
  <1>4. dry = 0 /\ since = 0 /\ lost \in BOOLEAN
    BY DEF Init
  <1>5. Stamped
    BY <1>1, <1>2 DEF Stamped
  <1>6. dry \in 0..MaxDry /\ since \in 0..Cooldown
    BY <1>4
  <1> QED
    BY <1>1, <1>2, <1>3, <1>4, <1>5, <1>6 DEF WatchInv, TypeOK

\* What a load yields is typed, and keeps the stamp unless the load failed.
LEMMA LoadTyped ==
  ASSUME TypeOK, NEW ok \in BOOLEAN
  PROVE  Loaded(ok) \in Latch /\ (ok => Loaded(ok) = latch)
  BY DEF Loaded, NoLatch, TypeOK, Latch

\* The latch file after a step: its stamp is the old one, unless a failed
\* load has been noted or no window runs.
Kept == /\ latch' \in Latch
        /\ lost' \in BOOLEAN
        /\ ~lost' => ~lost /\ (latch'.fired = latch.fired \/ since = 0)

\* No transition of the trip touches the stamp of a file that it could load.
LEMMA TripKeeps ==
  ASSUME TypeOK, NEW ok \in BOOLEAN, NEW b \in BOOLEAN, SaveTripped(ok, b)
  PROVE  Kept
  <1>1. Loaded(ok) \in Latch /\ (ok => Loaded(ok) = latch)
    BY LoadTyped
  <1>2. latch' = [Loaded(ok) EXCEPT !.tripped = b] /\ lost' = (lost \/ (~ok /\ since > 0))
    BY DEF SaveTripped, Losing
  <1>3. latch' \in Latch /\ latch'.fired = Loaded(ok).fired
    BY <1>1, <1>2 DEF Latch
  <1>4. since \in Nat /\ lost \in BOOLEAN
    BY DEF TypeOK
  <1>5. lost' \in BOOLEAN
    BY <1>2, <1>4
  <1>6. ASSUME ~lost' PROVE ~lost /\ (latch'.fired = latch.fired \/ since = 0)
    <2>1. ~lost /\ (ok \/ ~(since > 0))
      BY <1>2, <1>6
    <2> QED
      BY <1>1, <1>3, <1>4, <2>1
  <1> QED
    BY <1>3, <1>5, <1>6 DEF Kept

\* Nor does a reset, whether or not there was a trip to reset.
LEMMA ResetKeeps ==
  ASSUME TypeOK, NEW ok \in BOOLEAN, NEW again \in BOOLEAN, Reset(ok, again)
  PROVE  Kept
  <1>1. CASE SaveTripped(again, FALSE)
    BY <1>1, TripKeeps
  <1>2. CASE UNCHANGED latch /\ Losing(~ok)
    BY <1>2 DEF Losing, Kept, TypeOK
  <1> QED
    BY <1>1, <1>2 DEF Reset

\* Steps that keep the stamp and do not newly trip keep the invariant.
LEMMA KeptSuffices ==
  ASSUME WatchInv, TypeOK', Kept, since' = since,
         poll'.pc = "tripped" => poll.pc = "tripped" /\ poll'.left = poll.left
  PROVE  WatchInv'
  BY DEF WatchInv, Stamped, Kept, TypeOK, Latch, Poll

\* A close step moves the position on and keeps the process typed.
LEMMA CloseTyped ==
  ASSUME WatchInv, NEW pc \in PollPCs, NEW next \in PollPCs \ {"tripped"},
         NEW from \in Stages, NEW to \in Stages, CloseStep(pc, next, from, to)
  PROVE  WatchInv'
  <1>1. poll' \in Poll /\ poll'.pc # "tripped"
    <2>1. poll' = [poll EXCEPT !.pc = next] \/ poll' = Asleep
      BY DEF CloseStep, GoTo, Sleep
    <2>2. CASE poll' = [poll EXCEPT !.pc = next]
      BY <2>2 DEF WatchInv, TypeOK, Poll
    <2>3. CASE poll' = Asleep
      BY <2>3 DEF Asleep, Poll, PollPCs
    <2> QED
      BY <2>1, <2>2, <2>3
  <1>2. stage' \in [Token -> Stages]
    BY DEF CloseStep, WatchInv, TypeOK
  <1> QED
    BY <1>1, <1>2 DEF CloseStep, WatchInv, Stamped, TypeOK

\* Every poll step preserves the inductive invariant.
LEMMA WatchPoll == WatchInv /\ PollStep => WatchInv'
  <1> SUFFICES ASSUME WatchInv, PollStep PROVE WatchInv'
    OBVIOUS
  <1>0. TypeOK /\ poll \in Poll /\ latch \in Latch /\ book \subseteq Token
        /\ since \in 0..Cooldown /\ lost \in BOOLEAN
    BY DEF WatchInv, TypeOK
  <1>1. ASSUME NEW ok \in BOOLEAN, NEW again \in BOOLEAN, PollStart(ok, again) PROVE WatchInv'
    <2>1. Kept
      BY <1>0, <1>1, ResetKeeps DEF PollStart, Kept
    <2>2. poll' \in Poll /\ poll'.pc \in {"sleep", "next"}
      <3>1. CASE book = {}
        BY <1>0, <1>1, <3>1 DEF PollStart
      <3>2. CASE book # {}
        <4>1. poll' = [Asleep EXCEPT !.pc = "next", !.book = book, !.todo = book]
          BY <1>1, <3>2 DEF PollStart
        <4> QED
          BY <1>0, <4>1, AsleepTyped DEF Poll, PollPCs
      <3> QED
        BY <3>1, <3>2
    <2>3. TypeOK' /\ since' = since
      BY <1>0, <1>1, <2>1, <2>2 DEF PollStart, Kept, TypeOK
    <2> QED
      BY <2>1, <2>2, <2>3, KeptSuffices
  <1>2. ASSUME NEW t \in Token, NEW ok \in BOOLEAN, ReadFails(t, ok) PROVE WatchInv'
    <2>1. Kept
      <3>1. Loaded(ok) \in Latch /\ (ok => Loaded(ok) = latch)
        BY <1>0, LoadTyped
      <3>2. latch' \in {latch, Loaded(ok)} /\ lost' = (lost \/ (~ok /\ since > 0))
        BY <1>2 DEF ReadFails, Losing
      <3>3. lost' \in BOOLEAN /\ (~lost' => ~lost /\ (ok \/ ~(since > 0)))
        BY <1>0, <3>2
      <3>4. ~(since > 0) => since = 0
        BY <1>0
      <3> QED
        BY <1>0, <3>1, <3>2, <3>3, <3>4 DEF Kept
    <2>2. poll' \in Poll /\ poll'.pc \in {"sleep", "next"}
      BY <1>0, <1>2 DEF ReadFails, Looked, Poll, PollPCs
    <2>3. TypeOK' /\ since' = since
      BY <1>0, <1>2, <2>1, <2>2 DEF ReadFails, Kept, TypeOK
    <2> QED
      BY <2>1, <2>2, <2>3, KeptSuffices
  <1>3. ASSUME NEW t \in Token, NEW ok \in BOOLEAN, NEW again \in BOOLEAN, ReadInside(t, ok, again)
        PROVE  WatchInv'
    <2>1. Kept
      BY <1>0, <1>3, ResetKeeps DEF ReadInside
    <2>2. poll' \in Poll /\ poll'.pc \in {"sleep", "next"}
      BY <1>0, <1>3 DEF ReadInside, Looked, Poll, PollPCs
    <2>3. TypeOK' /\ since' = since
      BY <1>0, <1>3, <2>1, <2>2 DEF ReadInside, Kept, TypeOK
    <2> QED
      BY <2>1, <2>2, <2>3, KeptSuffices
  <1>4. ASSUME NEW t \in Token, NEW ok \in BOOLEAN, NEW again \in BOOLEAN, ReadOutside(t, ok, again)
        PROVE  WatchInv'
    <2>1. /\ Loaded(ok) \in Latch /\ (ok => Loaded(ok) = latch)
          /\ Loaded(again) \in Latch /\ (again => Loaded(again) = latch)
      BY <1>0, LoadTyped
    <2>2. poll' \in Poll /\ poll'.left = IF unit = "monitor" THEN 0 ELSE Loaded(ok).fired
      <3> DEFINE l == IF unit = "monitor" THEN 0 ELSE Loaded(ok).fired
                 f == unit = "monitor" /\ ~Loaded(ok).tripped
                 c == IF unit = "monitor" THEN "notify" ELSE "tripped"
      <3>1. l \in 0..Cooldown /\ f \in BOOLEAN /\ c \in PollPCs
        BY <2>1 DEF Latch, PollPCs
      <3>2. poll' = [poll EXCEPT !.pc = c, !.cur = t, !.todo = @ \ {t}, !.fresh = f, !.left = l]
        BY <1>4 DEF ReadOutside
      <3> HIDE DEF l, f, c
      <3>3. poll' \in Poll /\ poll'.left = l
        BY <1>0, <3>1, <3>2 DEF Poll
      <3> QED
        BY <3>3 DEF l
    <2>3. poll'.pc = "tripped" => unit # "monitor"
      BY <1>0, <1>4 DEF ReadOutside, Poll
    <2>4. Kept /\ (~lost' => (poll'.pc = "tripped" => (poll'.left = latch.fired \/ since = 0)))
      <3>1. CASE Loaded(ok).tripped
        <4>1. latch' = latch /\ lost' = lost
          BY <1>4, <3>1 DEF ReadOutside
        <4>2. ok
          BY <3>1 DEF Loaded, NoLatch
        <4> QED
          BY <1>0, <2>1, <2>2, <2>3, <4>1, <4>2 DEF Kept
      <3>2. CASE ~Loaded(ok).tripped
        <4>1. /\ latch' = [Loaded(again) EXCEPT !.tripped = TRUE]
              /\ lost' = (lost \/ ((~ok \/ ~again) /\ since > 0))
          BY <1>4, <3>2 DEF ReadOutside, Losing
        <4>2. latch' \in Latch /\ latch'.fired = Loaded(again).fired
          BY <2>1, <4>1 DEF Latch
        <4>3. lost' \in BOOLEAN /\ (~lost' => ~lost /\ ((ok /\ again) \/ ~(since > 0)))
          BY <1>0, <4>1
        <4>4. ~(since > 0) => since = 0
          BY <1>0
        <4> QED
          BY <1>0, <2>1, <2>2, <2>3, <4>2, <4>3, <4>4 DEF Kept
      <3> QED
        BY <3>1, <3>2
    <2>5. TypeOK' /\ since' = since
      BY <1>0, <1>4, <2>2, <2>4 DEF ReadOutside, Kept, TypeOK
    <2>6. ~lost' => Stamped'
      <3>1. latch.fired \in Nat /\ latch'.fired \in Nat /\ poll'.left \in Nat
        BY <1>0, <2>2, <2>4 DEF Kept, Latch, Poll
      <3> QED
        BY <1>0, <2>4, <2>5, <3>1 DEF Kept, Stamped, WatchInv
    <2> QED
      BY <2>5, <2>6 DEF WatchInv
  <1>5. CASE Notify
    <2>1. told' \in [Token -> 0..2]
      <3> DEFINE n == IF told[poll.cur] < 2 THEN told[poll.cur] + 1 ELSE told[poll.cur]
      <3>1. told \in [Token -> 0..2]
        BY <1>0 DEF TypeOK
      <3>2. CASE poll.cur \in Token
        <4>1. n \in 0..2
          BY <3>1, <3>2
        <4>2. told' = [told EXCEPT ![poll.cur] = n] \/ told' = told
          BY <1>5 DEF Notify
        <4> HIDE DEF n
        <4> QED
          BY <3>1, <4>1, <4>2
      <3>3. CASE poll.cur \notin Token
        BY <1>5, <3>1, <3>3 DEF Notify
      <3> QED
        BY <3>2, <3>3
    <2>2. poll' \in Poll /\ poll'.pc \in {"sleep", "next"}
      BY <1>0, <1>5, OnwardTyped DEF Notify
    <2> QED
      BY <1>0, <1>5, <2>1, <2>2 DEF Notify, WatchInv, Stamped, TypeOK
  <1>6. CASE Suppress
    <2>1. poll' \in Poll /\ poll'.pc \in {"sleep", "next"}
      BY <1>0, <1>6, OnwardTyped DEF Suppress
    <2> QED
      BY <1>0, <1>6, <2>1 DEF Suppress, WatchInv, Stamped, TypeOK
  <1>7. CASE Fire
    <2>1. latch' = [tripped |-> TRUE, fired |-> Cooldown] /\ since' = Cooldown
      BY <1>7 DEF Fire
    <2>2. poll' \in Poll /\ poll'.pc = "verify"
      BY <1>0, <1>7 DEF Fire, GoTo, Poll, PollPCs
    <2>3. latch' \in Latch /\ latch'.fired = since' /\ since' \in 0..Cooldown
      BY <2>1 DEF Latch
    <2> QED
      <3>1. lost' = FALSE /\ UNCHANGED <<book, cyc, dry, inside, stage, told, unit>>
        BY <1>7 DEF Fire
      <3>2. TypeOK'
        BY <1>0, <2>2, <2>3, <3>1 DEF TypeOK
      <3>3. Stamped'
        BY <2>2, <2>3 DEF Stamped
      <3> QED
        BY <3>2, <3>3 DEF WatchInv
  <1>8. CASE VerifyStands
    <2>1. poll' \in Poll /\ poll'.pc \in {"unstake", "withdraw"}
      BY <1>0, <1>8 DEF VerifyStands, Poll, PollPCs
    <2> QED
      BY <1>0, <1>8, <2>1 DEF VerifyStands, WatchInv, Stamped, TypeOK
  <1>9. ASSUME NEW ok \in BOOLEAN, VerifyInside(ok) PROVE WatchInv'
    <2>1. Kept
      BY <1>0, <1>9, TripKeeps DEF VerifyInside
    <2>2. poll' \in Poll /\ poll'.pc \in {"sleep", "next"}
      BY <1>0, <1>9, OnwardTyped DEF VerifyInside
    <2>3. TypeOK' /\ since' = since
      BY <1>0, <1>9, <2>1, <2>2 DEF VerifyInside, Kept, TypeOK
    <2> QED
      BY <2>1, <2>2, <2>3, KeptSuffices
  <1>10. CASE StandDown
    BY <1>0, <1>10 DEF StandDown, Sleep, Asleep, Poll, PollPCs, WatchInv, Stamped, TypeOK
  <1>11. CASE Unstake
    BY <1>11, CloseTyped DEF Unstake, PollPCs, Stages, Live
  <1>12. CASE Withdraw
    BY <1>12, CloseTyped DEF Withdraw, PollPCs, Stages, Live
  <1>13. CASE ExitSwap
    BY <1>13, CloseTyped DEF ExitSwap, PollPCs, Stages, Live
  <1>14. CASE SaveBook
    <2>1. poll' \in Poll /\ poll'.pc = "unlatch" /\ book' \subseteq Token
      <3>1. poll' = [Asleep EXCEPT !.pc = "unlatch"] /\ book' = poll.book \ {poll.cur}
        BY <1>14 DEF SaveBook
      <3> QED
        BY <1>0, <3>1, AsleepTyped DEF Poll, PollPCs
    <2> QED
      BY <1>0, <1>14, <2>1 DEF SaveBook, WatchInv, Stamped, TypeOK
  <1>15. ASSUME NEW ok \in BOOLEAN, Unlatch(ok) PROVE WatchInv'
    <2>1. Kept
      BY <1>0, <1>15, TripKeeps DEF Unlatch
    <2>2. poll' \in Poll /\ poll'.pc = "sleep"
      BY <1>15 DEF Unlatch, Sleep, Asleep, Poll, PollPCs
    <2>3. TypeOK' /\ since' = since
      BY <1>0, <1>15, <2>1, <2>2 DEF Unlatch, Kept, TypeOK
    <2> QED
      BY <2>1, <2>2, <2>3, KeptSuffices
  <1> QED
    BY <1>1, <1>2, <1>3, <1>4, <1>5, <1>6, <1>7, <1>8, <1>9, <1>10, <1>11,
       <1>12, <1>13, <1>14, <1>15 DEF PollStep, Read

\* Every step of the cycle preserves the inductive invariant.
LEMMA WatchCycle == WatchInv /\ CycleStep => WatchInv'
  <1> SUFFICES ASSUME WatchInv, CycleStep PROVE WatchInv'
    OBVIOUS
  <1> USE DEF WatchInv, Stamped, TypeOK, Stages, Live, Token, NoCycle
  <1>1. ASSUME NEW seen \in SUBSET Token, CycleLoad(seen) \/ DrySave(seen) PROVE WatchInv'
    <2>1. CASE CycleLoad(seen)
      BY <2>1 DEF CycleLoad
    <2>2. CASE DrySave(seen)
      BY <2>2, WatchAssumption DEF DrySave
    <2> QED
      BY <1>1, <2>1, <2>2
  <1>2. CASE CycleSave
    BY <1>2 DEF CycleSave
  <1>3. ASSUME NEW t \in Token, CycleEnter(t) PROVE WatchInv'
    <2>1. cyc' = [cyc EXCEPT !.pos = cyc.pos \cup {t}] /\ cyc.pos \subseteq Token
      BY <1>3 DEF CycleEnter
    <2>2. cyc' \in [on : BOOLEAN, pos : SUBSET Token]
      <3> DEFINE q == cyc.pos \cup {t}
      <3>1. q \in SUBSET Token
        BY <2>1
      <3>2. cyc \in [on : BOOLEAN, pos : SUBSET Token] /\ cyc' = [cyc EXCEPT !.pos = q]
        BY <2>1
      <3> HIDE DEF q, WatchInv, TypeOK, Token
      <3> QED
        BY <3>1, <3>2
    <2>3. /\ UNCHANGED <<poll, latch, dry, since, lost, told, unit>>
          /\ stage' = [stage EXCEPT ![t] = "staked"]
          /\ inside' = inside \cup {t} /\ book' = cyc.pos \cup {t}
      BY <1>3 DEF CycleEnter
    <2>4. stage' \in [Token -> Stages] /\ inside' \subseteq Token /\ book' \subseteq Token
      BY <2>1, <2>3
    <2> QED
      BY <2>2, <2>3, <2>4
  <1>4. ASSUME NEW t \in Token, CycleExit(t) PROVE WatchInv'
    BY <1>4 DEF CycleExit
  <1> QED
    BY <1>1, <1>2, <1>3, <1>4 DEF CycleStep

\* Every step of the specification preserves the inductive invariant.
LEMMA WatchNext == WatchInv /\ [Next]_vars => WatchInv'
  <1> SUFFICES ASSUME WatchInv, [Next]_vars PROVE WatchInv'
    OBVIOUS
  <1>1. CASE PollStep
    BY <1>1, WatchPoll
  <1>2. CASE CycleStep
    BY <1>2, WatchCycle
  <1>3. CASE Crash
    BY <1>3 DEF Crash, Sleep, Asleep, WatchInv, Stamped, TypeOK, PollPCs, Poll, Token
  <1>4. CASE Tick
    <2>1. /\ latch' = [latch EXCEPT !.fired = Less(latch.fired)]
          /\ poll' = [poll EXCEPT !.left = Less(poll.left)]
          /\ since' = Less(since)
          /\ lost' = (lost /\ since > 1)
      BY <1>4 DEF Tick
    <2>2. /\ latch \in Latch /\ poll \in Poll
          /\ latch.fired \in 0..Cooldown /\ poll.left \in 0..Cooldown /\ since \in 0..Cooldown
      BY DEF WatchInv, TypeOK, Latch, Poll
    <2>3. \A n \in 0..Cooldown : Less(n) \in 0..Cooldown
      BY DEF Less
    <2>4. \A m, n \in 0..Cooldown : m <= n => Less(m) <= Less(n)
      BY DEF Less
    <2>5. /\ latch' \in Latch /\ latch'.fired = Less(latch.fired)
          /\ poll' \in Poll /\ poll'.left = Less(poll.left) /\ poll'.pc = poll.pc
      <3> HIDE DEF Less
      <3> QED
        BY <2>1, <2>2, <2>3 DEF Latch, Poll
    <2>6. TypeOK'
      BY <1>4, <2>1, <2>2, <2>3, <2>5 DEF Tick, WatchInv, TypeOK
    <2>7. ASSUME ~lost' PROVE Stamped'
      <3>1. CASE lost
        <4>1. ~(since > 1)
          BY <2>1, <2>7, <3>1
        <4>2. Less(since) = 0
          BY <2>2, <4>1 DEF Less
        <4> QED
          BY <2>1, <2>2, <2>3, <2>5, <4>2 DEF Stamped
      <3>2. CASE ~lost
        BY <2>1, <2>2, <2>4, <2>5, <3>2 DEF Stamped, WatchInv
      <3> QED
        BY <3>1, <3>2
    <2> QED
      BY <2>6, <2>7 DEF WatchInv
  <1>5. ASSUME NEW t \in Token, Drift(t) PROVE WatchInv'
    BY <1>5 DEF Drift, WatchInv, Stamped, TypeOK
  <1>6. CASE UNCHANGED vars
    BY <1>6 DEF vars, WatchInv, Stamped, TypeOK
  <1> QED
    BY <1>1, <1>2, <1>3, <1>4, <1>5, <1>6 DEF Next

\* The inductive invariant holds throughout.
LEMMA WatchInvariant == Spec => []WatchInv
  BY WatchInit, WatchNext, PTL DEF Spec

\* The book, the latch file, both processes and every position keep their
\* types, for any number of positions and any cooldown.
THEOREM WatchTyped == Spec => []TypeOK
  <1>1. WatchInv => TypeOK
    BY DEF WatchInv
  <1> QED
    BY WatchInvariant, <1>1, PTL

\* A hard exit that begins under the invariant finds its window expired or a
\* load failed: the only step to "verify" is Fire, which goes by the stamp
\* that the load of its poll found.
LEMMA FireIsSpaced ==
  WatchInv /\ [Next]_vars =>
    (poll.pc = "tripped" /\ poll'.pc = "verify" => since = 0 \/ lost)
  <1> SUFFICES ASSUME WatchInv, [Next]_vars, poll.pc = "tripped", poll'.pc = "verify"
               PROVE  since = 0 \/ lost
    OBVIOUS
  <1>1. CASE Fire
    BY <1>1 DEF Fire, WatchInv, Stamped, TypeOK, Latch, Poll
  <1>2. CASE Suppress
    BY <1>2 DEF Suppress, Onward, WatchInv, TypeOK, Poll
  <1>3. CASE Crash
    BY <1>3 DEF Crash, Sleep, Asleep
  <1>4. CASE Tick
    BY <1>4 DEF Tick, WatchInv, TypeOK, Poll
  <1>5. CASE ~(Fire \/ Suppress \/ Crash \/ Tick)
    <2>1. poll' = poll
      BY <1>5 DEF Next, vars, PollStep, Read, CycleStep, PollStart, ReadFails, ReadInside,
           ReadOutside, Current, Notify, VerifyStands, VerifyInside, StandDown,
           Unstake, Withdraw, ExitSwap, CloseStep, SaveBook, Unlatch,
           CycleLoad, CycleSave, DrySave, CycleEnter, CycleExit, Drift
    <2> QED
      BY <2>1
  <1> QED
    BY <1>1, <1>2, <1>3, <1>4, <1>5

\* "At most one extra close attempt": for every cooldown and any number of
\* positions, two close attempts begin within one window only if a load of
\* the latch file failed between them, and the second makes up for it.
THEOREM LostLatchIsBounded == Spec => LostLatchCostsOne
  <1>1. WatchInv /\ [Next]_vars =>
          [poll.pc = "tripped" /\ poll'.pc = "verify" => since = 0 \/ lost]_vars
    BY FireIsSpaced
  <1> QED
    BY WatchInvariant, <1>1, PTL DEF Spec, LostLatchCostsOne
=============================================================================
