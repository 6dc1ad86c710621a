----------------------------- MODULE MCPortfolio -----------------------------
(* The decisions of one pool over days, one allocation pass over each of   *)
(* the books below, acting cycles over two pools, and the reconstruction of *)
(* a pool's past they are rehearsed on, each on its own.                   *)
EXTENDS Allocator, CycleActing, RewardTreasury, EventHistory, TLC

CONSTANTS PoolA, PoolB, PoolC

MCBoard == {PoolA, PoolB, PoolC}
MCSymmetry == Permutations(MCBoard)

VARIABLE part  \* which of them runs

Quote(apr, depth, least) ==
    [apr |-> apr, depth |-> depth, least |-> least, swap |-> 10,
     open |-> TRUE, diluted |-> FALSE]

Position(value, kind) == [value |-> value, kind |-> kind, ripe |-> TRUE, penal |-> FALSE]

(* Equal, steep and falling APRs; deep pools, and two shallow ones; entries *)
(* that always pay and entries that need a size.                           *)
Quotes ==
    {[p \in 1..4 |-> Quote(apr[p], depth[p], least)] :
        apr \in {<<4, 10, 10, 10>>, <<7, 10, 4, 6>>, <<10, 6, 5, 9>>},
        depth \in {<<500, 500, 500, 500>>, <<25, 500, 10, 60>>},
        least \in {1, 22}}

Flat == [p \in 1..4 |-> Unheld]

(* The book marked above the total cap: an exit or a recenter of it.       *)
Grown(k) == [Flat EXCEPT ![1] = Position(12, k), ![2] = Position(95, "hold"),
                         ![3] = Position(10, "hold")]

Holdings ==
    {Flat}
    \cup {[Flat EXCEPT ![1] = Position(v, k)] :
              v \in {12, 50, 95, 100}, k \in {"hold", "exit", "recenter"}}
    \cup {[Flat EXCEPT ![1] = Position(v, "hold"), ![2] = Position(20, k)] :
              v \in {12, 50}, k \in {"hold", "exit"}}
    \cup {[Flat EXCEPT ![1] = Position(v, "hold"), ![2] = Position(20, k),
                       ![4] = [Position(20, "hold") EXCEPT !.ripe = FALSE]] :
              v \in {12, 50}, k \in {"hold", "exit"}}

MCBooks ==
    {[cash |-> cash, equity |-> cash + h[1].value + h[2].value + h[3].value + h[4].value,
      stock |-> "none", offer |-> o, held |-> h] :
        cash \in {0, 30, 47, 60, 99, 150, 600}, o \in Quotes, h \in Holdings}
    \cup {[cash |-> 60, equity |-> 100, stock |-> s, offer |-> o, held |-> h] :
             s \in {"kept", "sold"}, o \in Quotes,
             h \in {Flat, [Flat EXCEPT ![1] = Position(40, "recenter")]}}
    \cup {[cash |-> 60, equity |-> 110, stock |-> "none",
           offer |-> [o EXCEPT ![2].open = FALSE, ![3].diluted = TRUE],
           held |-> [Flat EXCEPT ![1] = [Position(50, "hold") EXCEPT !.penal = TRUE]]] :
             o \in Quotes}
    \cup {[cash |-> 1, equity |-> 118, stock |-> s, offer |-> o, held |-> Grown(k)] :
             s \in {"none", "sold"}, k \in {"exit", "recenter"}, o \in Quotes}

(* Blocks a second or two apart, and blocks that share their instant.      *)
MCClocks == {[k \in 0..5 |-> k], [k \in 0..5 |-> 2 * k], [k \in 0..5 |-> IF k < 3 THEN 1 ELSE 4]}

(* Any stake or unstake per block, or two of them in one block.            *)
MCStakes ==
    [0..5 -> {<<>>, <<1>>, <<-1>>}]
    \cup {[k \in 0..5 |-> IF k = m THEN <<1, 1>> ELSE <<>>] : m \in 0..5}

MCDrifts == {[at |-> 0, by |-> 0], [at |-> 3, by |-> 1], [at |-> 3, by |-> -2]}

SuiteInit ==
    /\ part \in {"allocate", "act", "treasury", "history"}
    /\ IF part = "allocate" THEN in \in Books ELSE in = CHOOSE x \in Books : TRUE
    /\ AllocInit /\ ActInit /\ TreasuryInit
    /\ IF part = "history" THEN HistoryInit
       ELSE past = [kind |-> "none"] /\ hist = Searching /\ oneByOne = FALSE

SuiteNext ==
    /\ UNCHANGED part
    /\ \/ part = "allocate" /\ AllocNext /\ UNCHANGED <<actVars, purseVars, historyVars>>
       \/ part = "act" /\ ActNext /\ UNCHANGED <<allocVars, purseVars, historyVars>>
       \/ part = "treasury" /\ TreasuryNext /\ UNCHANGED <<allocVars, actVars, historyVars>>
       \/ part = "history" /\ HistoryNext /\ UNCHANGED <<allocVars, actVars, purseVars>>

(* Every part keeps the types of its variables.                            *)
PortfolioTypeOK ==
    CASE part = "allocate" -> AllocTypeOK
      [] part = "act"      -> ActTypeOK
      [] part = "treasury" -> TreasuryTypeOK
      [] part = "history"  -> HistoryTypeOK

SuiteSpec == SuiteInit /\ [][SuiteNext]_<<part, allocVars, actVars, purseVars, historyVars>>
=============================================================================
