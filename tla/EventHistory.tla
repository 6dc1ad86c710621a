---------------------------- MODULE EventHistory ----------------------------
(***************************************************************************)
(* Reconstruction of a pool's past from logs (history.py): the search for  *)
(* the first block of the window, logs read in windows that are split when *)
(* an answer may have been cut off, headers read singly or in batches, and *)
(* the two results: the swaps with their times, and the gauge's staked     *)
(* liquidity folded back from an anchor.  Every request may fail and is    *)
(* retried a bounded number of times.                                      *)
(*                                                                         *)
(* An event is its place [block, index] and, for a stake, its amount;      *)
(* prices and the APR formula are left out.  The head is read before       *)
(* Init.                                                                   *)
(***************************************************************************)
EXTENDS Integers, Sequences, FiniteSets
LOCAL INSTANCE FiniteSetsExt

CONSTANTS
    Tip,       \* head block, or the anchor's
    Clocks,     \* block times: functions from blocks to instants
    Stakes,     \* events: functions from blocks to sequences of amounts
    Drifts,     \* stake moved through the position manager, no event tells
    Anchored,   \* liquidity staked at Tip
    Lookback, LogWindow,
    LogBound,   \* an answer of so many logs may have been cut off
    NodeCap,    \* the node never returns more
    EventBound, HeaderBound, HeaderBatch,
    HeaderTries \* attempts of one request

(* Blocks do not go back in time; an answer that is not cut off is one     *)
(* below the bound at which it might have been.                            *)
ASSUME HistoryAssumption ==
    /\ {Tip, Lookback, NodeCap, EventBound, HeaderBound} \subseteq Nat
    /\ {LogWindow, LogBound, HeaderBatch, HeaderTries} \subseteq Nat \ {0}
    /\ NodeCap >= LogBound
    /\ \A t \in Clocks : /\ t \in [0..Tip -> Nat]
                         /\ \A j, k \in 0..Tip : j <= k => t[j] <= t[k]
    /\ \A s \in Stakes : \A k \in 0..Tip : s[k] \in Seq(Int)
    /\ \A d \in Drifts : d.at \in Int

VARIABLES
    past,      \* the kind asked for and what happened: times, stakes, unseen drift
    hist,      \* the reconstruction
    oneByOne   \* the node has refused a batch

historyVars == <<past, hist, oneByOne>>

Logs(a, b) ==
    UNION {{[block |-> k, index |-> i] : i \in 1..Len(past.stakes[k])} : k \in a..b}
Before(l, m) == l.block < m.block \/ (l.block = m.block /\ l.index < m.index)

(* What a set of events moves, all together.                               *)
Moved(stakes, ls) == MapThenSumSet(LAMBDA l : stakes[l.block][l.index], ls)

(* The part of an answer the node lets through.                            *)
LetThrough(ls) == {l \in ls : Cardinality({m \in ls : Before(m, l)}) < NodeCap}

(* Liquidity staked right after l, as the chain had it.                    *)
StakedAfter(l) ==
    LET told == Anchored - Moved(past.stakes, {m \in Logs(0, Tip) : Before(l, m)})
    IN  IF past.drift.at > l.block THEN told - past.drift.by ELSE told
Origin == [block |-> -1, index |-> 0]
(* Liquidity is never negative on the chain.                               *)
Coherent == \A l \in Logs(0, Tip) \cup {Origin} : StakedAfter(l) >= 0

Searching ==
    [phase |-> "search", low |-> 0, high |-> Tip, known |-> {Tip}, pending |-> <<>>,
     events |-> {}, tries |-> 0, mode |-> "none", series |-> {}]

HistoryInit ==
    /\ past \in [kind : {"swaps", "stakes"}, times : Clocks, stakes : Stakes, drift : Drifts]
    /\ Coherent
    /\ hist = Searching
    /\ oneByOne = (HeaderBatch = 1)

Fail == hist' = [hist EXCEPT !.phase = "failed"] /\ UNCHANGED <<past, oneByOne>>

-----------------------------------------------------------------------------
(* _block_header: from the cache, or read within the bound.                *)
Knowable(b) == b \in hist.known \/ Cardinality(hist.known) < HeaderBound
Knowing(b) == hist.known \cup {b}

Middle == (hist.low + hist.high) \div 2
Missing == {l.block : l \in hist.events} \ hist.known
NeedsStart == past.kind = "stakes" /\ hist.low \notin hist.known

Requesting ==
    \/ hist.phase = "search" /\ hist.low < hist.high /\ Middle \notin hist.known
    \/ hist.phase = "logs" /\ hist.pending # <<>>
    \/ hist.phase = "headers" /\ (Missing # {} \/ NeedsStart)

(* A request that fails for now is made again; others fail for good.       *)
Trouble ==
    /\ Requesting
    /\ \/ /\ hist.tries + 1 < HeaderTries
          /\ hist' = [hist EXCEPT !.tries = @ + 1] /\ UNCHANGED <<past, oneByOne>>
       \/ Fail

Earliest == past.times[Tip] - Lookback

(* The windows a range is cut into.                                        *)
Windows(a, b) ==
    [k \in 1..((b - a) \div LogWindow + 1) |->
        LET w == a + (k - 1) * LogWindow
        IN  <<w, IF w + LogWindow - 1 < b THEN w + LogWindow - 1 ELSE b>>]

(* One probe of the search for the first block at or after the target.     *)
Probe ==
    /\ hist.phase = "search"
    /\ IF hist.low = hist.high
       THEN /\ hist' = [hist EXCEPT !.phase = "logs", !.tries = 0,
                                    !.pending = Windows(hist.low, Tip)]
            /\ UNCHANGED <<past, oneByOne>>
       ELSE IF ~Knowable(Middle) THEN Fail
       ELSE /\ hist' = [hist EXCEPT
                    !.known = Knowing(Middle), !.tries = 0,
                    !.high = IF past.times[Middle] >= Earliest THEN Middle ELSE @,
                    !.low = IF past.times[Middle] >= Earliest THEN @ ELSE Middle + 1]
            /\ UNCHANGED <<past, oneByOne>>

Halves_Gap(w) == LET m == (w[1] + w[2]) \div 2 IN <<<<w[1], m - 1>>, <<m + 1, w[2]>>>>

(* A busy window is read again in two halves.                              *)
Halves(w) == LET m == (w[1] + w[2]) \div 2 IN <<<<w[1], m>>, <<m + 1, w[2]>>>>

ReadWindow ==
    /\ hist.phase = "logs" /\ hist.pending # <<>>
    /\ LET w == hist.pending[1]
           answer == LetThrough(Logs(w[1], w[2]))
           events == hist.events \cup answer
       IN  IF Cardinality(answer) >= LogBound
           THEN IF w[2] > w[1]
                THEN /\ hist' = [hist EXCEPT !.pending = Halves(w) \o Tail(@), !.tries = 0]
                     /\ UNCHANGED <<past, oneByOne>>
                ELSE Fail
           ELSE IF Cardinality(events) > EventBound THEN Fail
           ELSE /\ hist' = [hist EXCEPT !.pending = Tail(@), !.events = events, !.tries = 0]
                /\ UNCHANGED <<past, oneByOne>>

LogsDone ==
    /\ hist.phase = "logs" /\ hist.pending = <<>>
    /\ hist' = [hist EXCEPT !.phase = "headers", !.tries = 0]
    /\ UNCHANGED <<past, oneByOne>>

-----------------------------------------------------------------------------
(* Headers: those of every event, and the window's first block.            *)
Lowest(bs, n) == {x \in bs : Cardinality({y \in bs : y < x}) < n}

ReadHeader ==
    /\ hist.phase = "headers" /\ Missing # {} /\ oneByOne
    /\ LET b == CHOOSE x \in Lowest(Missing, 1) : TRUE
       IN  IF Knowable(b)
           THEN hist' = [hist EXCEPT !.known = Knowing(b), !.tries = 0] /\ UNCHANGED <<past, oneByOne>>
           ELSE Fail

ReadHeaders ==
    /\ hist.phase = "headers" /\ Missing # {} /\ ~oneByOne
    /\ IF Cardinality(hist.known \cup Missing) > HeaderBound THEN Fail
       ELSE /\ hist' = [hist EXCEPT !.known = @ \cup Lowest(Missing, HeaderBatch), !.tries = 0]
            /\ UNCHANGED <<past, oneByOne>>

(* The node refuses batches: never again from this backend.                *)
RejectBatch ==
    /\ hist.phase = "headers" /\ Missing # {} /\ ~oneByOne
    /\ oneByOne' = TRUE /\ hist' = [hist EXCEPT !.tries = 0] /\ UNCHANGED past

-----------------------------------------------------------------------------
(* build_emissions_apr_history: the events folded back from the anchor.    *)
FoldedAfter_Forward(l) ==
    Anchored + Moved(past.stakes, {m \in hist.events : Before(m, l) \/ m = l})
FoldedAfter(l) ==
    Anchored - Moved(past.stakes, {m \in hist.events : Before(l, m)})

Fold == {[after |-> l, staked |-> FoldedAfter(l)] : l \in hist.events \cup {Origin}}

BuildPath ==
    /\ hist.phase = "headers" /\ Missing = {} /\ past.kind = "swaps"
    /\ hist' = [hist EXCEPT !.phase = "done"] /\ UNCHANGED <<past, oneByOne>>

(* A fold that contradicts the anchor gives way to the anchor's level.     *)
BuildApr ==
    /\ hist.phase = "headers" /\ Missing = {} /\ past.kind = "stakes"
    /\ IF NeedsStart /\ ~Knowable(hist.low) THEN Fail
       ELSE /\ hist' = [hist EXCEPT
                    !.phase = "done", !.known = Knowing(hist.low),
                    !.mode = IF \A s \in Fold : s.staked > 0 THEN "event_fold" ELSE "constant_anchor",
                    !.series = IF \A s \in Fold : s.staked > 0 THEN Fold
                               ELSE {[after |-> Origin, staked |-> Anchored]}]
            /\ UNCHANGED <<past, oneByOne>>

HistoryNext ==
    \/ Trouble \/ Probe \/ ReadWindow \/ LogsDone
    \/ ReadHeader \/ ReadHeaders \/ RejectBatch \/ BuildPath \/ BuildApr

HistorySpec == HistoryInit /\ [][HistoryNext]_historyVars

-----------------------------------------------------------------------------
(* Properties.                                                             *)

HistoryTypeOK ==
    /\ hist.phase \in {"search", "logs", "headers", "done", "failed"}
    /\ 0 <= hist.low /\ hist.low <= hist.high /\ hist.high <= Tip
    /\ hist.known \subseteq 0..Tip /\ hist.tries \in 0..(HeaderTries - 1)
    /\ oneByOne \in BOOLEAN

(* A reconstruction that ends has every event of the blocks from the first *)
(* one inside the window on, and the time of each, however the node capped *)
(* its answers, failed or refused batches (history.py:1694, :1571); and a  *)
(* fold shows what was staked after each event behind which stake moved    *)
(* only by events (history.py:715).                                        *)
HistoryComplete ==
    hist.phase = "done" =>
        LET first == CHOOSE b \in 0..Tip :
                        past.times[b] >= Earliest /\ \A c \in 0..(b - 1) : past.times[c] < Earliest
        IN  /\ hist.events = Logs(first, Tip)
            /\ \A l \in hist.events : l.block \in hist.known
            /\ hist.mode = "event_fold" =>
                   \A s \in hist.series :
                       s.after # Origin /\ past.drift.at <= s.after.block =>
                           s.staked = StakedAfter(s.after)
=============================================================================
