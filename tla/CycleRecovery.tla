---------------------------- MODULE CycleRecovery ----------------------------
(***************************************************************************)
(* The cycle's book against the chain: reconcile, adopt, recover, act and  *)
(* checkpoint, with crashes at every point and a dry run beside the live   *)
(* cycle.  The book (cycle_state.json) is a claim about which position     *)
(* NFTs are ours and which pool each belongs to; the chain is the truth;   *)
(* the audit journal is the only evidence that joins them after a crash.   *)
(*                                                                         *)
(* What the policy and the allocator decide is left open: any plan.  Each  *)
(* action's sequence of deliveries is the one delivery that changes        *)
(* custody; LpDelivery models the sequences.  Selector (portfolio) mode.   *)
(***************************************************************************)
EXTENDS Integers, FiniteSets

CONSTANTS
    Symbols,     \* the pools, by stock symbol
    NoSymbol,    \* no pool
    MaxTokens,   \* bound: mints ever broadcast
    CandidateLimit  \* STAKE_RECOVERY_CANDIDATE_LIMIT: stake plans a recovery tries

ASSUME RecoveryAssumption == /\ NoSymbol \notin Symbols
                             /\ MaxTokens \in Nat \ {0}
                             /\ CandidateLimit \in Nat \ {0}

Token == 1..MaxTokens
Label == Symbols \cup {NoSymbol}
Row   == [tok : Token, sym : Symbols]     \* a TrackedPosition

VARIABLES
    book,       \* cycle_state.json: the tracked positions
    custody,    \* chain: where each NFT is
    pool,       \* chain: the pool each NFT was minted in
    pending,    \* the one delivery the next Safe nonce still waits for
    plan,       \* journal: the symbol of the newest mint plan row
    sent,       \* journal: mints with a send row
    confirmed,  \* journal: mints with a confirmed receipt row
    newest,     \* journal: the mint of the newest such row
    label,      \* journal: per mint, the plan standing before its newest row
    stakeplan,  \* journal: per NFT, the symbol of its first stake plan row
    later,      \* journal: per NFT, the NFTs whose first stake plan row is newer
    cyc,        \* the live cycle
    dry,        \* a dry-run cycle
    lapses      \* history: which premises of the crash discipline have failed

journal == <<plan, sent, confirmed, newest, label, stakeplan, later>>
chain   == <<custody, pool, pending>>
vars    == <<book, chain, journal, cyc, dry, lapses>>

Ops == {"mint", "stake", "unstake", "withdraw"}
NoOp == [op |-> "none", tok |-> 0]

\* todo: the sends its repair has still to look up; step: the kind of plan step
\* under way; op, tok, sym: its current action; staked: what the decision
\* reconciliation saw staked; fresh: no delivery landed since the Safe nonce
\* was read.
PCs   == {"off", "scan", "heal", "act", "build", "checked", "planned", "nonced", "built",
          "sent", "wait", "minted", "save"}
Steps == {"none", "exit", "recenter", "enter", "restake"}
Cycle == [pc : PCs, book : SUBSET Row, todo : SUBSET Token, staked : SUBSET Token, step : Steps,
          op : Ops \cup {"none"}, tok : Token \cup {0}, sym : Label, fresh : BOOLEAN]
Off == [pc |-> "off", book |-> {}, todo |-> {}, staked |-> {}, step |-> "none", op |-> "none",
        tok |-> 0, sym |-> NoSymbol, fresh |-> FALSE]
DryRun == [pc : {"off", "scan", "heal", "save"}, book : SUBSET Row, todo : SUBSET Token]
NoDry  == [pc |-> "off", book |-> {}, todo |-> {}]

\* misfiled: an outcome row was appended behind the plan of another pool.
\* slip:     a mint left pending landed between the chain read and the nonce
\*           read of another.
\* hidden:   a cycle went on without a live, proven NFT its recovery did not try.
Lapses == {"misfiled", "slip", "hidden"}
Lapse(kind, happened) == lapses' = lapses \cup (IF happened THEN {kind} ELSE {})

Init == /\ book = {} /\ pending = NoOp
        /\ custody = [t \in Token |-> "none"]
        /\ pool = [t \in Token |-> NoSymbol]
        /\ plan = NoSymbol /\ sent = {} /\ confirmed = {} /\ newest = 0
        /\ label = [t \in Token |-> NoSymbol]
        /\ stakeplan = [t \in Token |-> NoSymbol]
        /\ later = [t \in Token |-> {}]
        /\ cyc = Off /\ dry = NoDry /\ lapses = {}

-----------------------------------------------------------------------------
(* Reconciliation: pure functions of book, chain and journal.              *)

Tokens(b) == {r.tok : r \in b}
Live == {t \in Token : custody[t] \in {"safe", "gauge"}}
Held == {t \in Token : custody[t] = "safe"}      \* safe_position_inventory

\* A tracked position that is empty on-chain drops: its exit completed.
Kept(b) == {r \in b : custody[r.tok] # "empty"}

\* Of the untracked NFTs an execute-mode stake plan proves ours, whatever has
\* become of them since, a recovery tries the newest.
Candidates(b) == {t \in Token \ Tokens(b) : stakeplan[t] # NoSymbol}
Buried(b) == {t \in Candidates(b) :
                 Cardinality(later[t] \cap Candidates(b)) >= CandidateLimit}
Recovered(b) == {[tok |-> t, sym |-> stakeplan[t]] :
                    t \in (Candidates(b) \ Buried(b)) \cap Live}

OutOfBand(b) ==
    IF Kept(b) \cup Recovered(b) # {}
    THEN ~(Held \subseteq Tokens(Kept(b) \cup Recovered(b)))
    ELSE b = {} /\ Held # {} /\ Held # {newest}

Adopted_Anchor(b) ==
    IF b = {} /\ Recovered(b) = {} /\ Held = {newest}
    THEN {[tok |-> newest, sym |-> CHOOSE s \in Symbols : TRUE]}
    ELSE {}

\* A flat book adopts the one live NFT the newest confirmed mint names, under
\* the symbol of the plan that stands before that row.
Adopted(b) ==
    IF b = {} /\ Recovered(b) = {} /\ Held = {newest} /\ label[newest] # NoSymbol
    THEN {[tok |-> newest, sym |-> label[newest]]}
    ELSE {}

Reconciled(b) == IF OutOfBand(b) THEN b ELSE Kept(b) \cup Adopted(b) \cup Recovered(b)

-----------------------------------------------------------------------------
(* The repair of the journal that opens every cycle: a snapshot of the      *)
(* sends without an outcome row, then one by one the receipt and, if it      *)
(* proves the delivery, its row.                                            *)

Unresolved == sent \ confirmed

Landed_Assumed(t) == t \in sent
Landed(t) == t \in sent /\ custody[t] # "none"

\* The outcome row of a mint is appended behind whatever plan stands newest.
Confirm(t) ==
    /\ confirmed' = confirmed \cup {t}
    /\ newest' = t
    /\ label' = [label EXCEPT ![t] = plan]
    /\ Lapse("misfiled", plan \notin {NoSymbol, pool[t]})
    /\ UNCHANGED <<plan, sent, stakeplan, later>>

\* The snapshot is not read again: a row another process has appended since
\* is appended once more.
HealRow(todo, t) ==
    /\ t \in todo /\ \A u \in todo : t <= u
    /\ IF Landed(t) THEN Confirm(t) ELSE UNCHANGED <<journal, lapses>>

-----------------------------------------------------------------------------
(* The live cycle.                                                         *)

\* The timer starts one cycle at a time, under the execution lock.  What an
\* earlier one broadcast may still be pending: a mint's deadline is eight
\* minutes, the timer fires every five.
Start ==
    /\ cyc.pc = "off"
    /\ cyc' = [Off EXCEPT !.pc = "scan", !.book = book]
    /\ UNCHANGED <<book, chain, journal, dry, lapses>>

Scan ==
    /\ cyc.pc = "scan"
    /\ cyc' = [cyc EXCEPT !.pc = "heal", !.todo = Unresolved]
    /\ UNCHANGED <<book, chain, journal, dry, lapses>>

Heal(t) ==
    /\ cyc.pc = "heal"
    /\ HealRow(cyc.todo, t)
    /\ cyc' = [cyc EXCEPT !.todo = @ \ {t}]
    /\ UNCHANGED <<book, chain, dry>>

\* An out-of-band book is saved as it was loaded.  Its chain reads come one
\* after the other, but at most one delivery is pending: they agree with the
\* chain before it or after it.
Reconcile ==
    /\ cyc.pc = "heal" /\ cyc.todo = {}
    /\ cyc' = [cyc EXCEPT !.pc = IF OutOfBand(cyc.book) THEN "save" ELSE "act",
                          !.book = Reconciled(cyc.book),
                          !.staked = {t \in Token : custody[t] = "gauge"}]
    /\ Lapse("hidden", ~OutOfBand(cyc.book) /\ Buried(cyc.book) \cap Live # {})
    /\ UNCHANGED <<book, chain, journal, dry>>

\* The next step of the plan; a cycle that holds restakes instead.
Choose(step, op, t, s) ==
    /\ cyc.pc = "act"
    /\ cyc.step = "none" \/ (cyc.step = "restake" <=> step = "restake")
    /\ cyc' = [cyc EXCEPT !.pc = "build", !.step = step, !.op = op, !.tok = t, !.sym = s]
    /\ UNCHANGED <<book, chain, journal, dry, lapses>>

Burning(t)  == IF t \in cyc.staked THEN "unstake" ELSE "withdraw"
Exit(r)     == Choose("exit", Burning(r.tok), r.tok, r.sym)
Recenter(r) == Choose("recenter", Burning(r.tok), r.tok, r.sym)
Restake(r)  == r.tok \notin cyc.staked /\ Choose("restake", "stake", r.tok, r.sym)
Enter(s)    == (\A r \in cyc.book : r.sym # s) /\ Choose("enter", "mint", 0, s)

\* The plan is done, or a step refused, failed or timed out: what is left of
\* the plan is dropped, and the working book is saved.
Halt ==
    /\ cyc.pc \in {"act", "build", "checked", "planned", "nonced", "built", "wait", "minted"}
    /\ cyc' = [cyc EXCEPT !.pc = "save"]
    /\ UNCHANGED <<book, chain, journal, dry, lapses>>

\* The mint preflight: live NFTs in the Safe that the caller does not track
\* refuse, before anything is planned.
Gate_Open(b) == TRUE
Gate(b) == Held \subseteq Tokens(b)

\* What an action rests on is read first.
Check ==
    /\ cyc.pc = "build"
    /\ cyc.op = "mint" => Gate(cyc.book)
    /\ cyc.op = "stake" => cyc.tok \in Held
    /\ cyc' = [cyc EXCEPT !.pc = "checked"]
    /\ UNCHANGED <<book, chain, journal, dry, lapses>>

\* A mint writes its plan row and then reads the Safe nonce,
PlanMint ==
    /\ cyc.pc = "checked" /\ cyc.op = "mint"
    /\ plan' = cyc.sym
    /\ cyc' = [cyc EXCEPT !.pc = "planned"]
    /\ UNCHANGED <<book, chain, sent, confirmed, newest, label, stakeplan, later, dry, lapses>>

ReadNonce ==
    /\ cyc.pc = IF cyc.op = "mint" THEN "planned" ELSE "checked"
    /\ cyc' = [cyc EXCEPT !.pc = IF cyc.op = "stake" THEN "nonced" ELSE "built", !.fresh = TRUE]
    /\ UNCHANGED <<book, chain, journal, dry, lapses>>

\* a stake the other way round; its row names the NFT before anything is
\* broadcast.
PlanStake_Unrecorded ==
    /\ cyc.pc = "nonced"
    /\ cyc' = [cyc EXCEPT !.pc = "built"]
    /\ UNCHANGED <<book, chain, journal, dry, lapses>>
PlanStake ==
    /\ cyc.pc = "nonced"
    /\ IF stakeplan[cyc.tok] = NoSymbol
       THEN /\ stakeplan' = [stakeplan EXCEPT ![cyc.tok] = cyc.sym]
            /\ later' = [t \in Token |-> IF stakeplan[t] # NoSymbol
                                         THEN later[t] \cup {cyc.tok} ELSE later[t]]
       ELSE UNCHANGED <<stakeplan, later>>
    /\ cyc' = [cyc EXCEPT !.pc = "built"]
    /\ UNCHANGED <<book, chain, plan, sent, confirmed, newest, label, dry, lapses>>

\* What each delivery needs on the chain, and what it makes of it.
From == [mint |-> "none", stake |-> "safe", unstake |-> "gauge", withdraw |-> "safe"]
Into == [mint |-> "safe", stake |-> "gauge", unstake |-> "safe", withdraw |-> "empty"]

\* A mint is a new NFT.
Target == IF cyc.op = "mint"
          THEN {t \in Token : pool[t] = NoSymbol /\ \A u \in 1..(t-1) : pool[u] # NoSymbol}
          ELSE {cyc.tok}

\* A delivery still pending at the same Safe nonce and this one exclude each
\* other.  The pool's own gauge takes its NFTs only.
Broadcast ==
    /\ cyc.pc = "built" /\ cyc.fresh
    /\ \E t \in Target :
         /\ custody[t] = From[cyc.op]
         /\ cyc.op = "stake" => pool[t] = cyc.sym
         /\ pool' = IF cyc.op = "mint" THEN [pool EXCEPT ![t] = cyc.sym] ELSE pool
         /\ pending' \in {[op |-> cyc.op, tok |-> t]} \cup ({pending} \ {NoOp})
         /\ cyc' = [cyc EXCEPT !.pc = "sent", !.tok = t]
    /\ UNCHANGED <<book, custody, journal, dry, lapses>>

RecordSend ==
    /\ cyc.pc = "sent"
    /\ sent' = IF cyc.op = "mint" THEN sent \cup {cyc.tok} ELSE sent
    /\ cyc' = [cyc EXCEPT !.pc = "wait"]
    /\ UNCHANGED <<book, chain, plan, confirmed, newest, label, stakeplan, later, dry, lapses>>

Delivered == cyc.pc = "wait" /\ custody[cyc.tok] = Into[cyc.op]

MintConfirmed ==
    /\ Delivered /\ cyc.op = "mint"
    /\ Confirm(cyc.tok)
    /\ cyc' = [cyc EXCEPT !.pc = "minted"]
    /\ UNCHANGED <<book, chain, dry>>

\* The receipt names the new NFT, and its stake follows.
DecodeMint ==
    /\ cyc.pc = "minted"
    /\ cyc' = [cyc EXCEPT !.pc = "build", !.op = "stake"]
    /\ UNCHANGED <<book, chain, journal, dry, lapses>>

UnstakeConfirmed ==
    /\ Delivered /\ cyc.op = "unstake"
    /\ cyc' = [cyc EXCEPT !.pc = "build", !.op = "withdraw"]
    /\ UNCHANGED <<book, chain, journal, dry, lapses>>

Without(b, t) == {r \in b : r.tok # t}

WithdrawConfirmed ==
    /\ Delivered /\ cyc.op = "withdraw"
    /\ cyc' = [cyc EXCEPT !.book = Without(@, cyc.tok),
                          !.pc = IF cyc.step = "recenter" THEN "build" ELSE "act",
                          !.op = IF cyc.step = "recenter" THEN "mint" ELSE "none"]
    /\ UNCHANGED <<book, chain, journal, dry, lapses>>

\* The withdrawal landed, but the sale of the stock that ends an exit did not
\* complete: the row stays, over an empty NFT.
SaleFails ==
    /\ Delivered /\ cyc.op = "withdraw" /\ cyc.step = "exit"
    /\ cyc' = [cyc EXCEPT !.pc = "save"]
    /\ UNCHANGED <<book, chain, journal, dry, lapses>>

\* One position per pool: the new row replaces the pool's old one.
WithPosition(b, t, s) == {r \in b : r.sym # s} \cup {[tok |-> t, sym |-> s]}

\* The per-sibling checkpoint: the working book is saved at once.
StakeConfirmed ==
    /\ Delivered /\ cyc.op = "stake"
    /\ IF cyc.step = "restake"
       THEN /\ cyc' = [cyc EXCEPT !.pc = "act", !.staked = @ \cup {cyc.tok}]
            /\ UNCHANGED book
       ELSE /\ book' = WithPosition(cyc.book, cyc.tok, cyc.sym)
            /\ cyc' = [cyc EXCEPT !.pc = "act", !.book = book']
    /\ UNCHANGED <<chain, journal, dry, lapses>>

Save ==
    /\ cyc.pc = "save"
    /\ book' = cyc.book
    /\ cyc' = Off
    /\ UNCHANGED <<chain, journal, dry, lapses>>

\* The service timeout, a host loss, or any read that cannot complete.
Crash ==
    /\ cyc.pc # "off"
    /\ cyc' = Off
    /\ UNCHANGED <<book, chain, journal, dry, lapses>>

-----------------------------------------------------------------------------
(* Beside it, without the lock: a dry-run cycle, which repairs, reconciles *)
(* and saves, and the rehearsal of a mint, whose plan row proves nothing.  *)

DryStart ==
    /\ dry.pc = "off"
    /\ dry' = [NoDry EXCEPT !.pc = "scan", !.book = book]
    /\ UNCHANGED <<book, chain, journal, cyc, lapses>>

DryScan ==
    /\ dry.pc = "scan"
    /\ dry' = [dry EXCEPT !.pc = "heal", !.todo = Unresolved]
    /\ UNCHANGED <<book, chain, journal, cyc, lapses>>

DryHeal(t) ==
    /\ dry.pc = "heal"
    /\ HealRow(dry.todo, t)
    /\ dry' = [dry EXCEPT !.todo = @ \ {t}]
    /\ UNCHANGED <<book, chain, cyc>>

DryReconcile ==
    /\ dry.pc = "heal" /\ dry.todo = {}
    /\ dry' = [dry EXCEPT !.pc = "save", !.book = Reconciled(@)]
    /\ UNCHANGED <<book, chain, journal, cyc, lapses>>

DrySave ==
    /\ dry.pc = "save"
    /\ book' = dry.book
    /\ dry' = NoDry
    /\ UNCHANGED <<chain, journal, cyc, lapses>>

Rehearse ==
    /\ Held = {}
    /\ plan' = NoSymbol
    /\ UNCHANGED <<book, chain, sent, confirmed, newest, label, stakeplan, later, cyc, dry, lapses>>

-----------------------------------------------------------------------------
(* The chain (external).                                                   *)

\* The cycle's view of a delivery that lands is older than the delivery.
Unaware == cyc.op = "mint" /\ cyc.pc \in {"checked", "planned"}

Land ==
    /\ pending # NoOp
    /\ custody[pending.tok] = From[pending.op]
    /\ custody' = [custody EXCEPT ![pending.tok] = Into[pending.op]]
    /\ pending' = NoOp
    /\ cyc' = [cyc EXCEPT !.fresh = FALSE]
    /\ Lapse("slip", pending.op = "mint" /\ Unaware)
    /\ UNCHANGED <<book, pool, journal, dry>>

Evict ==
    /\ pending # NoOp
    /\ pending' = NoOp
    /\ UNCHANGED <<book, custody, pool, journal, cyc, dry, lapses>>

-----------------------------------------------------------------------------

CycleStep == \/ Start \/ Scan \/ Reconcile
             \/ \E t \in Token : Heal(t)
             \/ \E r \in cyc.book : Exit(r) \/ Recenter(r) \/ Restake(r)
             \/ \E s \in Symbols : Enter(s)
             \/ Halt \/ Check \/ PlanMint \/ ReadNonce \/ PlanStake \/ Broadcast \/ RecordSend
             \/ MintConfirmed \/ DecodeMint \/ UnstakeConfirmed
             \/ WithdrawConfirmed \/ SaleFails \/ StakeConfirmed \/ Save

DryStep == \/ DryStart \/ DryScan \/ DryReconcile \/ DrySave
           \/ \E t \in Token : DryHeal(t)

Next == CycleStep \/ Crash \/ DryStep \/ Rehearse \/ Land \/ Evict

Spec == Init /\ [][Next]_vars

-----------------------------------------------------------------------------
(* Properties.                                                             *)

\* The files, the chain, the journal and the processes keep their types, and
\* no mint is confirmed in the journal that never landed.
TypeOK == /\ book \subseteq Row
          /\ custody \in [Token -> {"none", "safe", "gauge", "empty"}]
          /\ pool \in [Token -> Label]
          /\ pending \in [op : Ops, tok : Token] \cup {NoOp}
          /\ plan \in Label
          /\ sent \subseteq Token
          /\ confirmed \subseteq {t \in Token : custody[t] # "none"}
          /\ newest \in Token \cup {0}
          /\ label \in [Token -> Label]
          /\ stakeplan \in [Token -> Label]
          /\ later \in [Token -> SUBSET Token]
          /\ dry \in DryRun
          /\ cyc \in Cycle
          /\ lapses \subseteq Lapses

\* "A crashed cycle reconciles, never double-acts" (docs/cycle.md): whatever
\* crashed, timed out, landed late or overwrote the book, no pool holds two
\* live positions of this Safe, unless one of the three lapses came first.
OnePerPool == lapses = {} => \A t, u \in Live : pool[t] = pool[u] => t = u

\* "The per-sibling durability checkpoint" (cycle.py, _book_with_position): a
\* cycle that goes on to decide has every position staked in a gauge in its
\* book, so none is missing from the equity it judges losses by, save one
\* behind CandidateLimit newer candidates.
StakedAreSeen ==
    [][cyc.pc = "heal" /\ cyc'.pc = "act"
         => {t \in Token : custody[t] = "gauge"} \ Buried(cyc.book) \subseteq Tokens(cyc'.book)]_vars

\* "Unproven live positions ... refuse the cycle out-of-band"
\* (docs/cycle.md): a cycle decides only if every live NFT in the Safe is
\* tracked or named by the journal's newest confirmed mint.
UnprovenRefused ==
    [][cyc.pc = "heal" /\ cyc'.pc = "act"
         => Held \subseteq Tokens(cyc'.book) \cup {newest}]_vars

\* "The adopted row's symbol and cost basis both come from the execute-mode
\* mint plan receipt-linked to that same confirmation" (docs/cycle.md): a
\* tracked NFT is tracked under the pool it was minted in.
RowsNameTheirPool == \A r \in book : pool[r.tok] = r.sym

\* The same, as long as no outcome row was filed behind another pool's plan:
\* every other way a row gets into the book, by adoption, recovery, a stale
\* save or a checkpoint, names the right pool.
FiledRowsNameTheirPool == "misfiled" \notin lapses => RowsNameTheirPool
=============================================================================
