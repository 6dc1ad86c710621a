----------------------------- MODULE CycleActing -----------------------------
(***************************************************************************)
(* A selector cycle that acts on a portfolio plan (CycleRunner.run,        *)
(* _reconcile, _act_portfolio, _rebuild_book_portfolio): the saved book is *)
(* reconciled with the chain, a plan is decided, its steps are carried out *)
(* one transaction sequence at a time until one fails, and the book is     *)
(* rebuilt and saved.  The process may die at any point; only what was     *)
(* saved remains.                                                          *)
(*                                                                         *)
(* What decides between plans is PolicyGates and Allocator; here every     *)
(* plan they allow may be chosen.  Evidence rows are those of              *)
(* CycleRecovery: a stake plan proves an NFT, a bare mint row proves one   *)
(* only to an empty book.                                                  *)
(*                                                                         *)
(* due records what was done.  No action reads it.                         *)
(***************************************************************************)
EXTENDS Integers, FiniteSets

CONSTANTS Board,       \* bound: the pools of the board
          MaxTracked,  \* max_concurrent_positions
          DustRoom,    \* how many dust balances stay within the aggregate bound
          Nothing

ASSUME ActingAssumption ==
    /\ IsFiniteSet(Board) /\ MaxTracked \in Nat \ {0} /\ DustRoom \in Nat
    /\ Nothing \notin Board

(* What became of the last NFT minted in a pool: in the Safe without or    *)
(* with a stake plan row, in the gauge, or withdrawn and empty.            *)
Custody == {"none", "bare", "safe", "gauge", "empty"}
Live == {"bare", "safe", "gauge"}

(* The Safe's balance of a stock: dust is under the floor.                 *)
Balance == {"none", "dust", "lot"}

(* CycleStateBook, as far as the actions change it.                        *)
ActBook == [tracked : SUBSET Board, held : Board \cup {Nothing}, cooling : SUBSET Board]

SwapExits == {"event", "stop"}      \* stop: stop and dilution exits
BurnExits == {"grace", "stale"}     \* range grace exit, stale-low burn
Exits == SwapExits \cup BurnExits
Cooled == {"stop", "grace"}

(* PortfolioRebalanceStep.                                                 *)
Step == [kind : Exits \cup {"inventory", "recenter", "move", "enter"},
         of : Board, to : Board \cup {Nothing}]

Pause == [kind |-> "none", of |-> Nothing, to |-> Nothing]

Stages == {"idle", "decide", "step", "preflight", "unstake", "withdraw", "swap",
           "mint", "stake", "sell", "restake", "last"}

VARIABLES
    custody,  \* [Board -> Custody]
    newest,   \* the pool of the last mint that landed
    orphan,   \* pools with a second live NFT, which nothing proves
    loose,    \* [Board -> Balance]
    disk,     \* the saved book
    book,     \* the book the cycle works on
    stage,    \* what the cycle does next
    steps,    \* the plan
    ahead,     \* the steps of the plan not begun
    doing,    \* the step under way
    due       \* pools emptied by an exit whose cooldown runs, and is not forgotten

actVars == <<custody, newest, orphan, loose, disk, book, stage, steps, ahead, doing, due>>

Fresh == [tracked |-> {}, held |-> Nothing, cooling |-> {}]

ActInit ==
    /\ custody = [p \in Board |-> "none"] /\ newest = Nothing /\ orphan = {}
    /\ loose = [p \in Board |-> "none"]
    /\ disk = Fresh /\ book = Fresh
    /\ stage = "idle" /\ steps = {} /\ ahead = {} /\ doing = Pause
    /\ due = {}

-----------------------------------------------------------------------------
(* Reconciliation.                                                         *)

Present_Unread(b) == b.tracked

Present(b) == {p \in b.tracked : custody[p] # "empty"}

Recovered(b) == {p \in Board \ b.tracked : custody[p] \in {"safe", "gauge"}}

Bare(b) == {p \in Board \ b.tracked : custody[p] = "bare"}

(* _adoption_evidence: one live NFT, and the last confirmed mint is its.   *)
Unproven(b) == orphan \cup Bare(b) # {} /\ (orphan # {} \/ Bare(b) # {newest})

(* The sweep for unrecorded stock runs only for a book without positions   *)
(* and without held stock.                                                 *)
Swept(b) == IF b.held = Nothing /\ b.tracked = {} THEN Board ELSE {}
Strays(b) == {p \in Swept(b) : loose[p] = "lot"}
Dust(b) == {p \in Swept(b) : loose[p] = "dust"}

OutOfBand(b) ==
    \/ Present(b) \cup Recovered(b) # {} /\ Bare(b) \cup orphan # {}
    \/ b.tracked = {} /\ Unproven(b)
    \/ Cardinality(Strays(b)) > 1
    \/ Cardinality(Dust(b)) > DustRoom

(* A single bare NFT is adopted by an empty book; one stray stock by a book that  *)
(* tracks nothing after that.                                              *)
AdoptedNFT(b) == IF b.tracked = {} /\ Recovered(b) = {} THEN Bare(b) ELSE {}

AdoptedStock(b) ==
    IF Recovered(b) \cup Bare(b) = {} /\ Strays(b) # {}
    THEN CHOOSE p \in Strays(b) : TRUE ELSE b.held

(* The empty NFTs drop out of the book, adopted and recovered ones join.   *)
Reconciled(b) ==
    [b EXCEPT !.tracked = Present(b) \cup Recovered(b) \cup AdoptedNFT(b),
              !.held = AdoptedStock(b)]

(* A refused cycle acts on nothing and saves the book it loaded, which is  *)
(* a stutter: it stays refused until an operator intervenes.               *)
Start ==
    /\ stage = "idle"
    /\ book' = disk
    /\ ~OutOfBand(disk)
    /\ stage' = "decide"
    /\ UNCHANGED <<custody, newest, orphan, loose, disk, steps, ahead, doing, due>>

-----------------------------------------------------------------------------
(* The plan.                                                               *)

PositionSteps(b, verdict) ==
    {[kind |-> verdict[p], of |-> p, to |-> Nothing] : p \in {q \in b.tracked : verdict[q] # "hold"}}

Qualified(b) == Board \ (b.tracked \cup b.cooling)

(* One fold per position; replacements only for positions that hold; no    *)
(* entry while stock is held; entries fill the slots open before the exits *)
(* (plan_portfolio_rebalance).                                             *)
Plans(b) ==
    {PositionSteps(b, v) \cup m \cup e \cup i :
        v \in [b.tracked -> Exits \cup {"recenter", "hold"}],
        m \in {{}} \cup {{[kind |-> "move", of |-> p, to |-> q]} :
                           p \in b.tracked, q \in Qualified(b)},
        e \in IF b.held = Nothing
              THEN {{[kind |-> "enter", of |-> q, to |-> Nothing] : q \in E} :
                       E \in SUBSET Qualified(b)}
              ELSE {{}},
        i \in IF b.held = Nothing THEN {{}}
              ELSE {{}, {[kind |-> "inventory", of |-> b.held, to |-> Nothing]}}}

Planned(b, plan) ==
    /\ \A s, t \in plan : s # t => s.of # t.of \/ {s.kind, t.kind} \cap {"inventory"} # {}
    /\ \A s \in plan : s.kind = "move" =>
          [kind |-> "enter", of |-> s.to, to |-> Nothing] \notin plan
    /\ Cardinality(b.tracked) + Cardinality({s \in plan : s.kind = "enter"}) <= MaxTracked

Unstaked(b) == {p \in b.tracked : custody[p] \in {"bare", "safe"}}

(* A plan without steps restakes what lies unstaked in the Safe.           *)
Decide ==
    /\ stage = "decide"
    /\ book' = Reconciled(book)
    /\ steps' \in {plan \in Plans(book') : Planned(book', plan)}
    /\ ahead' = steps'
    /\ stage' = IF steps' = {} THEN "restake" ELSE "step"
    /\ UNCHANGED <<custody, newest, orphan, loose, disk, doing, due>>

-----------------------------------------------------------------------------
(* The steps.  A sequence reported completed has landed; one reported      *)
(* refused, failed or unconfirmed may have.                                *)

Rank(s) ==
    IF s.kind \in Exits THEN 1 ELSE IF s.kind = "inventory" THEN 2
    ELSE IF s.kind = "recenter" THEN 3 ELSE IF s.kind = "move" THEN 4 ELSE 5

Opening(s) ==
    IF s.kind = "enter" THEN "mint"
    ELSE IF s.kind = "inventory" THEN "sell"
    ELSE IF s.kind \in {"recenter", "move"} THEN "preflight"
    ELSE IF custody[s.of] = "gauge" THEN "unstake" ELSE "withdraw"

Take(s) ==
    /\ stage = "step" /\ s \in ahead /\ \A t \in ahead : Rank(s) <= Rank(t)
    /\ doing' = s /\ ahead' = ahead \ {s}
    /\ stage' = Opening(s)
    /\ UNCHANGED <<custody, newest, orphan, loose, disk, book, steps, due>>

(* A step that fails ends the acting; the rest of the plan is left.        *)
Halt == stage' = "last" /\ ahead' = {} /\ doing' = Pause

StepDone == stage' = "step" /\ UNCHANGED ahead /\ doing' = Pause

Onward(next) == stage' = next /\ UNCHANGED <<ahead, doing>>

(* dry_run_recenter, dry_run_switch.                                       *)
Preflight ==
    /\ stage = "preflight"
    /\ Halt \/ Onward(IF custody[doing.of] = "gauge" THEN "unstake" ELSE "withdraw")
    /\ UNCHANGED <<custody, newest, orphan, loose, disk, book, steps, due>>

Unstake ==
    /\ stage = "unstake"
    /\ \/ custody' = [custody EXCEPT ![doing.of] = "safe"] /\ Onward("withdraw")
       \/ custody' \in {custody, [custody EXCEPT ![doing.of] = "safe"]} /\ Halt
    /\ UNCHANGED <<newest, orphan, loose, disk, book, steps, due>>

Untracked(b, p) == [b EXCEPT !.tracked = b.tracked \ {p}]

(* The Safe's balance of the stock just returned, dust or not, becomes the *)
(* held inventory of the one record there is.                              *)
HeldAfter(b, p) == IF loose'[p] = "none" THEN b ELSE [b EXCEPT !.held = p]

WithdrawnBook(s) ==
    IF s.kind \in BurnExits THEN HeldAfter(Untracked(book, s.of), s.of)
    ELSE IF s.kind = "recenter" THEN Untracked(book, s.of) ELSE book

Empties(p) ==
    /\ custody' = [custody EXCEPT ![p] = "empty"]
    /\ loose' \in {loose, [loose EXCEPT ![p] = "lot"]}

Withdraw ==
    /\ stage = "withdraw"
    /\ LET p == doing.of IN
       \/ /\ Empties(p)
          /\ book' = WithdrawnBook(doing)
          /\ IF doing.kind \in BurnExits THEN StepDone
             ELSE Onward(IF doing.kind = "recenter" THEN "mint" ELSE "swap")
       \/ /\ Empties(p) \/ UNCHANGED <<custody, loose>>
          /\ UNCHANGED book /\ Halt
    /\ due' = IF doing.kind \in Cooled /\ custody' # custody THEN due \cup {doing.of} ELSE due
    /\ UNCHANGED <<newest, orphan, disk, steps>>

Sold(p) == loose' = [loose EXCEPT ![p] = "none"]

(* execute_exit_swap of an exit.  With nothing to sell it refuses.         *)
Swap ==
    /\ stage = "swap"
    /\ LET p == doing.of IN
       \/ /\ loose[p] # "none" /\ Sold(p)
          /\ book' = Untracked(book, p)
          /\ IF doing.kind = "move" THEN Onward("mint") ELSE StepDone
       \/ /\ Sold(p) \/ UNCHANGED loose
          /\ UNCHANGED book /\ Halt
    /\ UNCHANGED <<custody, newest, orphan, disk, steps, due>>

(* The inventory step.                                                     *)
Sell ==
    /\ stage = "sell"
    /\ LET p == doing.of IN
       \/ book.held # Nothing /\ loose[p] # "none" /\ Sold(p)
            /\ book' = [book EXCEPT !.held = Nothing] /\ StepDone
       \/ (Sold(p) \/ UNCHANGED loose) /\ UNCHANGED book /\ Halt
    /\ UNCHANGED <<custody, newest, orphan, disk, steps, due>>

MintPool(s) == IF s.kind = "move" THEN s.to ELSE s.of

(* A mint that lands uses the stock up to a remainder; a live NFT already  *)
(* in the pool stays behind unproven.                                      *)
MintLands(q) ==
    /\ custody' = [custody EXCEPT ![q] = "bare"] /\ newest' = q
    /\ orphan' = IF custody[q] \in Live THEN orphan \cup {q} ELSE orphan
    /\ loose' \in {[loose EXCEPT ![q] = left] : left \in {"none", "dust"}}

(* One that fails may leave what its balancing swap bought, which is       *)
(* recorded as held.  The id of a confirmed one may be unreadable.         *)
Mint ==
    /\ stage = "mint"
    /\ LET q == MintPool(doing) IN
       \/ MintLands(q) /\ UNCHANGED book /\ (Onward("stake") \/ Halt)
       \/ /\ \/ MintLands(q)
             \/ /\ loose' \in {loose, [loose EXCEPT ![q] = "lot"]}
                /\ UNCHANGED <<custody, newest, orphan>>
          /\ book' = HeldAfter(book, q)
          /\ Halt
    /\ UNCHANGED <<disk, steps, due>>

(* _book_with_position: one position per pool, the held record cleared,    *)
(* and the book saved at once.                                             *)
WithPosition(b, q) == [b EXCEPT !.tracked = b.tracked \cup {q}, !.held = Nothing]

Stake ==
    /\ stage = "stake"
    /\ LET q == MintPool(doing) IN
       \/ /\ custody' = [custody EXCEPT ![q] = "gauge"]
          /\ book' = WithPosition(book, q) /\ disk' = book'
          /\ StepDone
       \/ /\ custody' \in {[custody EXCEPT ![q] = c] : c \in Live}
          /\ UNCHANGED <<book, disk>> /\ Halt
    /\ UNCHANGED <<newest, orphan, loose, steps, due>>

(* _recover_unstaked_position.                                             *)
Restake(p) ==
    /\ stage = "restake" /\ p \in Unstaked(book)
    /\ \/ custody' = [custody EXCEPT ![p] = "gauge"] /\ UNCHANGED <<stage, ahead, doing>>
       \/ custody' \in {[custody EXCEPT ![p] = c] : c \in {custody[p], "safe", "gauge"}} /\ Halt
    /\ UNCHANGED <<newest, orphan, loose, disk, book, steps, due>>

ActingDone ==
    /\ \/ stage = "step" /\ ahead = {}
       \/ stage = "restake" /\ Unstaked(book) = {}
    /\ stage' = "last"
    /\ UNCHANGED <<custody, newest, orphan, loose, disk, book, steps, ahead, doing, due>>

-----------------------------------------------------------------------------
(* The end of the cycle, and of the process.                               *)

ClearedIfGone(b, lag) ==
    IF b.held # Nothing /\ (lag \/ loose[b.held] = "none") THEN Nothing ELSE b.held

Rebuilt_FromBook(b, lag) ==
    [b EXCEPT !.cooling = b.cooling \cup
                  {s.of : s \in {t \in steps : t.kind \in Cooled /\ t.of \in b.tracked}},
              !.held = ClearedIfGone(b, lag)]

(* _rebuild_book_portfolio: the cooldowns come from the plan's steps,      *)
(* carried out or not; held stock that is gone is cleared.                 *)
Rebuilt(b, lag) ==
    [b EXCEPT !.cooling = b.cooling \cup {s.of : s \in {t \in steps : t.kind \in Cooled}},
              !.held = ClearedIfGone(b, lag)]

(* After actions the primary node may lag behind their blocks: the bounded *)
(* wait for it only warns, and the balances read may be those of before.   *)
Lagging == {FALSE, steps # {}}

(* A book left behind without the cooldown of an exit that was made: the   *)
(* code has no other record of it.                                         *)
Forgets(b) == due' = due \cap b.cooling

(* The final reconciliation and the save; out of band the book is saved    *)
(* as the steps left it, without the cooldowns of its exits                *)
(* (cycle.py:2016).                                                        *)
Save ==
    /\ stage = "last"
    /\ \E lag \in Lagging :
          IF OutOfBand(book) /\ ~lag
          THEN disk' = book /\ Forgets(book)
          ELSE disk' = Rebuilt(book, lag) /\ UNCHANGED due
    /\ book' = Fresh /\ stage' = "idle" /\ steps' = {}
    /\ UNCHANGED <<custody, newest, orphan, loose, ahead, doing>>

(* The process dies.                                                       *)
Crash ==
    /\ stage # "idle"
    /\ book' = Fresh /\ stage' = "idle" /\ steps' = {} /\ ahead' = {} /\ doing' = Pause
    /\ Forgets(disk)
    /\ UNCHANGED <<custody, newest, orphan, loose, disk>>

(* A cooldown of the book runs out between two cycles.                     *)
CoolOff(p) ==
    /\ stage = "idle" /\ p \in disk.cooling
    /\ disk' = [disk EXCEPT !.cooling = disk.cooling \ {p}]
    /\ due' = due \ {p}
    /\ UNCHANGED <<custody, newest, orphan, loose, book, stage, steps, ahead, doing>>

ActNext ==
    \/ Start \/ Decide
    \/ \E s \in ahead : Take(s)
    \/ Preflight \/ Unstake \/ Withdraw \/ Swap \/ Sell \/ Mint \/ Stake
    \/ \E p \in Board : Restake(p) \/ CoolOff(p)
    \/ ActingDone \/ Save \/ Crash

ActSpec == ActInit /\ [][ActNext]_actVars

-----------------------------------------------------------------------------
(* Properties.                                                             *)

ActTypeOK ==
    /\ custody \in [Board -> Custody]
    /\ newest \in Board \cup {Nothing} /\ orphan \subseteq Board
    /\ loose \in [Board -> Balance]
    /\ disk \in ActBook /\ book \in ActBook
    /\ stage \in Stages
    /\ steps \subseteq Step /\ ahead \subseteq steps
    /\ doing \in Step \cup {Pause}
    /\ due \subseteq Board

(* The 2026-09-28 wedge: no exit, recenter or replacement is begun for an  *)
(* NFT that is already empty, wherever the cycle before it died or failed  *)
(* (cycle.py:2120).                                                        *)
DeadNeverCommanded ==
    stage \in {"preflight", "unstake", "withdraw"} => custody[doing.of] \in Live

(* No pool is entered while the cooldown of its last exit runs, whether    *)
(* the exit was completed, failed in its sale or failed after its          *)
(* withdrawal had landed, and whatever other step halted the cycle.  The   *)
(* book learns of a cooldown at the end of the cycle only, so this is not  *)
(* claimed of a cycle that dies before its save (cycle.py:2037) or whose   *)
(* final reconciliation is out of band (cycle.py:2016): Forgets.           *)
ExitsCoolDown ==
    \A s \in ahead : /\ s.kind = "enter" => s.of \notin due
                     /\ s.kind = "move" => s.to \notin due
=============================================================================
