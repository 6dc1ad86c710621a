------------------------- MODULE CycleRecoveryProofs -------------------------
(***************************************************************************)
(* Proofs about CycleRecovery, for any pools, any number of mints and any  *)
(* candidate limit, with deliveries that land as late as they like and dry *)
(* runs beside every step.                                                 *)
(***************************************************************************)
EXTENDS CycleRecovery, TLAPS

\* An action under way: from its choice to its broadcast, and on its way.
About(c)  == c.pc \in {"build", "checked", "planned", "nonced", "built"}
Flying(c) == c.pc \in {"sent", "wait"}

\* What an action in progress works on is a token and a pool.
Shape == /\ Flying(cyc) \/ cyc.pc \in {"minted", "nonced"} => cyc.tok \in Token
         /\ About(cyc) /\ cyc.op # "mint" => cyc.tok \in Token
         /\ About(cyc) \/ Flying(cyc) \/ cyc.pc = "minted"
              => cyc.sym \in Symbols /\ cyc.op \in Ops
         /\ cyc.pc = "minted" => cyc.op = "mint"
         /\ cyc.pc = "nonced" => cyc.op = "stake"

Typed == TypeOK /\ Shape

USE RecoveryAssumption

\* The reconciled book tracks tokens under pools.
LEMMA ReconciledIsABook ==
    ASSUME TypeOK, NEW b, b \subseteq Row
    PROVE  Reconciled(b) \subseteq Row
<1>1. Kept(b) \subseteq Row
  BY DEF Kept
<1>2. Recovered(b) \subseteq Row
  BY DEF Recovered, Candidates, Live, Row, TypeOK, Label
<1>3. Adopted(b) \subseteq Row
  <2>1. CASE b = {} /\ Recovered(b) = {} /\ Held = {newest} /\ label[newest] # NoSymbol
    <3>1. newest \in Token
      BY <2>1 DEF Held
    <3>2. label[newest] \in Symbols
      BY <2>1, <3>1 DEF TypeOK, Label
    <3> QED BY <2>1, <3>1, <3>2 DEF Adopted, Row
  <2> QED BY <2>1 DEF Adopted
<1> QED BY <1>1, <1>2, <1>3 DEF Reconciled

LEMMA LapsesTyped ==
    ASSUME lapses \subseteq Lapses, NEW kind \in Lapses, NEW p, Lapse(kind, p)
    PROVE  lapses' \subseteq Lapses /\ lapses \subseteq lapses'
BY DEF Lapse

\* An outcome row keeps the journal's types; it confirms a landed mint.
LEMMA ConfirmTyped ==
    ASSUME TypeOK, NEW t \in Token, custody[t] # "none", Confirm(t), UNCHANGED custody
    PROVE  /\ confirmed' \subseteq {u \in Token : custody'[u] # "none"}
           /\ label' \in [Token -> Label] /\ newest' \in Token \cup {0}
           /\ plan' \in Label /\ sent' \subseteq Token /\ stakeplan' \in [Token -> Label]
           /\ later' \in [Token -> SUBSET Token] /\ lapses' \subseteq Lapses
<1>1. lapses' \subseteq Lapses
  BY LapsesTyped DEF Confirm, TypeOK, Lapses
<1> QED BY <1>1 DEF TypeOK, Confirm

LEMMA HealTyped ==
    ASSUME TypeOK, NEW todo, NEW t \in Token, HealRow(todo, t), UNCHANGED custody
    PROVE  /\ confirmed' \subseteq {u \in Token : custody'[u] # "none"}
           /\ label' \in [Token -> Label] /\ newest' \in Token \cup {0}
           /\ plan' \in Label /\ sent' \subseteq Token /\ stakeplan' \in [Token -> Label]
           /\ later' \in [Token -> SUBSET Token] /\ lapses' \subseteq Lapses
<1>1. CASE Landed(t)
  BY <1>1, ConfirmTyped DEF HealRow, Landed
<1>2. CASE ~Landed(t)
  BY <1>2 DEF HealRow, journal, TypeOK
<1> QED BY <1>1, <1>2

LEMMA TypedInit == Init => Typed
BY DEF Init, Typed, TypeOK, Shape, About, Flying, Off, Cycle, NoDry, DryRun, Label, NoOp, PCs, Steps, Lapses

\* A chosen action names a pool, and the token it burns unless it mints.
LEMMA ChosenTyped ==
    ASSUME Typed, NEW step \in Steps, NEW op \in Ops, NEW t \in Token \cup {0},
           NEW s \in Symbols, op # "mint" => t \in Token, Choose(step, op, t, s)
    PROVE  Typed'
<1>1. /\ cyc' = [cyc EXCEPT !.pc = "build", !.step = step, !.op = op, !.tok = t, !.sym = s]
      /\ UNCHANGED <<book, chain, journal, dry, lapses>>
  BY DEF Choose
<1>2. cyc \in Cycle
  BY DEF Typed, TypeOK
<1>3. "build" \in PCs /\ op \in Ops \cup {"none"} /\ s \in Label
  BY DEF PCs, Label
<1>4. cyc' \in Cycle
  BY <1>1, <1>2, <1>3 DEF Cycle
<1>5. cyc'.pc = "build" /\ cyc'.op = op /\ cyc'.tok = t /\ cyc'.sym = s
  BY <1>1, <1>2 DEF Cycle
<1>6. TypeOK'
  BY <1>1, <1>4 DEF Typed, TypeOK, chain, journal
<1>7. Shape'
  BY <1>5 DEF Shape, About, Flying
<1> QED BY <1>6, <1>7 DEF Typed

\* A new state of the cycle, with chain, journal and files as they were.
LEMMA CycleTyped ==
    ASSUME Typed, cyc' \in Cycle, book' \subseteq Row, UNCHANGED <<chain, journal, dry, lapses>>
    PROVE  TypeOK'
BY DEF Typed, TypeOK, chain, journal

\* The plan step in progress moves on, with what it works on.
LEMMA OnwardTyped ==
    ASSUME Typed, NEW pc \in PCs, cyc' = [cyc EXCEPT !.pc = pc],
           UNCHANGED <<book, chain, journal, dry, lapses>>
    PROVE  /\ TypeOK'
           /\ cyc'.pc = pc /\ cyc'.op = cyc.op /\ cyc'.tok = cyc.tok /\ cyc'.sym = cyc.sym
<1>1. cyc' \in Cycle /\ cyc'.pc = pc /\ cyc'.op = cyc.op /\ cyc'.tok = cyc.tok /\ cyc'.sym = cyc.sym
  BY DEF Typed, TypeOK, Cycle
<1> QED BY <1>1, CycleTyped DEF Typed, TypeOK

\* Every step keeps the types.
LEMMA TypedNext == Typed /\ [Next]_vars => Typed'
<1> SUFFICES ASSUME Typed, [Next]_vars PROVE Typed'
  OBVIOUS
<1> USE DEF Typed
<1>1. CASE Start
  BY <1>1 DEF Start, TypeOK, Shape, About, Flying, Off, Cycle, PCs, Steps, Label, chain, journal
<1>2. CASE Scan
  BY <1>2 DEF Scan, Unresolved, TypeOK, Shape, About, Flying, Cycle, PCs, chain, journal
<1>3. CASE Reconcile
  <2>1. Reconciled(cyc.book) \subseteq Row
    BY ReconciledIsABook DEF TypeOK, Cycle
  <2>2. lapses' \subseteq Lapses
    BY <1>3, LapsesTyped DEF Reconcile, TypeOK, Lapses
  <2> QED BY <1>3, <2>1, <2>2 DEF Reconcile, TypeOK, Shape, About, Flying, Cycle, PCs, chain, journal
<1>4. ASSUME NEW r \in cyc.book, Exit(r) \/ Recenter(r) \/ Restake(r) PROVE Typed'
  <2>1. r.tok \in Token /\ r.sym \in Symbols
    BY DEF TypeOK, Cycle, Row
  <2> PICK step \in {"exit", "recenter", "restake"}, op \in {"stake", "unstake", "withdraw"} :
        Choose(step, op, r.tok, r.sym)
    BY <1>4 DEF Exit, Recenter, Restake, Burning
  <2>2. step \in Steps /\ op \in Ops
    BY DEF Steps, Ops
  <2> QED BY <2>1, <2>2, ChosenTyped
<1>5. ASSUME NEW s \in Symbols, Enter(s) PROVE Typed'
  <2>1. Choose("enter", "mint", 0, s)
    BY <1>5 DEF Enter
  <2>2. "enter" \in Steps /\ "mint" \in Ops
    BY DEF Steps, Ops
  <2> QED BY <2>1, <2>2, ChosenTyped
<1>6. CASE Halt
  BY <1>6, OnwardTyped DEF Halt, PCs, Shape, About, Flying
<1>7. CASE Check
  <2>1. "checked" \in PCs
    BY DEF PCs
  <2> QED BY <1>7, <2>1, OnwardTyped DEF Check, Shape, About, Flying
<1>8. CASE PlanMint
  BY <1>8 DEF PlanMint, TypeOK, Shape, About, Flying, Cycle, PCs, Label, chain
<1>9. CASE ReadNonce
  <2> PICK pc \in {"nonced", "built"} : pc = IF cyc.op = "stake" THEN "nonced" ELSE "built"
    OBVIOUS
  <2>1. cyc' = [cyc EXCEPT !.pc = pc, !.fresh = TRUE] /\ UNCHANGED <<book, chain, journal, dry, lapses>>
    BY <1>9 DEF ReadNonce
  <2>2. /\ cyc' \in Cycle /\ cyc'.pc = pc /\ cyc'.op = cyc.op /\ cyc'.tok = cyc.tok
        /\ cyc'.sym = cyc.sym
    BY <2>1 DEF TypeOK, Cycle, PCs
  <2>3. TypeOK'
    BY <2>1, <2>2, CycleTyped DEF TypeOK
  <2> QED BY <1>9, <2>2, <2>3 DEF ReadNonce, Shape, About, Flying
<1>10. CASE PlanStake
  <2>1. cyc.tok \in Token /\ cyc.sym \in Symbols /\ cyc.op = "stake"
    BY <1>10 DEF PlanStake, Shape, About
  <2>2. stakeplan' \in [Token -> Label] /\ later' \in [Token -> SUBSET Token]
    BY <1>10, <2>1 DEF PlanStake, TypeOK, Label
  <2> QED BY <1>10, <2>1, <2>2 DEF PlanStake, TypeOK, Shape, About, Flying, Cycle, PCs, chain
<1>11. CASE Broadcast
  <2> PICK t \in Target :
        /\ custody[t] = From[cyc.op]
        /\ cyc.op = "stake" => pool[t] = cyc.sym
        /\ pool' = IF cyc.op = "mint" THEN [pool EXCEPT ![t] = cyc.sym] ELSE pool
        /\ pending' \in {[op |-> cyc.op, tok |-> t]} \cup ({pending} \ {NoOp})
        /\ cyc' = [cyc EXCEPT !.pc = "sent", !.tok = t]
    BY <1>11 DEF Broadcast
  <2>1. t \in Token /\ cyc.op \in Ops /\ cyc.sym \in Symbols
    BY <1>11 DEF Broadcast, Target, Shape, About
  <2>2. pending' \in [op : Ops, tok : Token] \cup {NoOp}
    BY <2>1 DEF TypeOK
  <2>3. pool' \in [Token -> Label]
    BY <2>1 DEF TypeOK, Label
  <2> QED BY <1>11, <2>1, <2>2, <2>3 DEF Broadcast, TypeOK, Shape, About, Flying, Cycle, PCs, journal
<1>12. CASE RecordSend
  BY <1>12 DEF RecordSend, TypeOK, Shape, About, Flying, Cycle, PCs, chain
<1>13. CASE MintConfirmed
  <2>1. cyc.tok \in Token /\ custody[cyc.tok] = "safe" /\ cyc.op = "mint" /\ cyc.sym \in Symbols
    BY <1>13 DEF MintConfirmed, Delivered, Shape, Flying, Into
  <2>2. /\ Confirm(cyc.tok) /\ cyc' = [cyc EXCEPT !.pc = "minted"]
        /\ UNCHANGED <<book, custody, pool, pending, dry>>
    BY <1>13 DEF MintConfirmed, chain
  <2>3. /\ confirmed' \subseteq {u \in Token : custody'[u] # "none"}
        /\ label' \in [Token -> Label] /\ newest' \in Token \cup {0}
        /\ plan' \in Label /\ sent' \subseteq Token /\ stakeplan' \in [Token -> Label]
        /\ later' \in [Token -> SUBSET Token] /\ lapses' \subseteq Lapses
    BY <2>1, <2>2, ConfirmTyped
  <2> QED BY <2>1, <2>2, <2>3 DEF TypeOK, Shape, About, Flying, Cycle, PCs
<1>14. CASE DecodeMint
  BY <1>14 DEF DecodeMint, TypeOK, Shape, About, Flying, Cycle, PCs, Ops, chain, journal
<1>15. CASE UnstakeConfirmed
  BY <1>15 DEF UnstakeConfirmed, Delivered, TypeOK, Shape, About, Flying, Cycle, PCs, Ops, chain, journal
<1>16. CASE WithdrawConfirmed
  BY <1>16 DEF WithdrawConfirmed, Delivered, Without, TypeOK, Shape, About, Flying, Cycle, PCs, Ops,
               chain, journal
<1>17. CASE SaleFails
  <2>1. "save" \in PCs
    BY DEF PCs
  <2> QED BY <1>17, <2>1, OnwardTyped DEF SaleFails, Shape, About, Flying
<1>18. CASE StakeConfirmed
  <2>1. cyc.tok \in Token /\ cyc.sym \in Symbols
    BY <1>18 DEF StakeConfirmed, Delivered, Shape, Flying
  <2>2. WithPosition(cyc.book, cyc.tok, cyc.sym) \subseteq Row
    BY <2>1 DEF WithPosition, TypeOK, Cycle, Row
  <2>3. CASE cyc.step = "restake"
    <3> PICK u : u = cyc.staked \cup {cyc.tok}
      OBVIOUS
    <3>1. UNCHANGED <<book, chain, journal, dry, lapses>> /\ cyc' = [cyc EXCEPT !.pc = "act", !.staked = u]
      BY <1>18, <2>3 DEF StakeConfirmed
    <3>2. u \subseteq Token
      BY <2>1 DEF TypeOK, Cycle
    <3> QED BY <3>1, <3>2 DEF TypeOK, Shape, About, Flying, Cycle, PCs, chain, journal
  <2>4. CASE cyc.step # "restake"
    <3> PICK b : b = WithPosition(cyc.book, cyc.tok, cyc.sym)
      OBVIOUS
    <3>1. book' = b /\ cyc' = [cyc EXCEPT !.pc = "act", !.book = b]
      BY <1>18, <2>4 DEF StakeConfirmed
    <3> QED BY <1>18, <2>1, <2>2, <3>1
            DEF StakeConfirmed, TypeOK, Shape, About, Flying, Cycle, PCs, chain, journal
  <2> QED BY <2>3, <2>4
<1>19. CASE Save
  BY <1>19 DEF Save, TypeOK, Shape, About, Flying, Cycle, Off, PCs, Steps, Label, chain, journal
<1>20. CASE Crash
  BY <1>20 DEF Crash, TypeOK, Shape, About, Flying, Cycle, Off, PCs, Steps, Label, chain, journal
<1>21. ASSUME NEW t \in Token, Heal(t) PROVE Typed'
  <2>1. /\ HealRow(cyc.todo, t) /\ UNCHANGED <<book, custody, pool, pending, dry>>
        /\ cyc.pc = "heal" /\ cyc' = [cyc EXCEPT !.todo = cyc.todo \ {t}]
    BY <1>21 DEF Heal, chain
  <2>2. /\ confirmed' \subseteq {u \in Token : custody'[u] # "none"}
        /\ label' \in [Token -> Label] /\ newest' \in Token \cup {0}
        /\ plan' \in Label /\ sent' \subseteq Token /\ stakeplan' \in [Token -> Label]
        /\ later' \in [Token -> SUBSET Token] /\ lapses' \subseteq Lapses
    BY <2>1, HealTyped
  <2>3. cyc' \in Cycle /\ cyc'.pc = "heal"
    BY <2>1 DEF TypeOK, Cycle
  <2> QED BY <2>1, <2>2, <2>3 DEF TypeOK, Shape, About, Flying
<1>22. CASE DryStart \/ DryScan
  <2>1. dry' \in DryRun
    <3>1. CASE DryStart
      BY <3>1 DEF DryStart, NoDry, DryRun, TypeOK
    <3>2. CASE DryScan
      <4>1. Unresolved \subseteq Token
        BY DEF Unresolved, TypeOK
      <4> QED BY <3>2, <4>1 DEF DryScan, DryRun, TypeOK
    <3> QED BY <1>22, <3>1, <3>2
  <2>2. UNCHANGED <<book, chain, journal, cyc, lapses>>
    BY <1>22 DEF DryStart, DryScan
  <2> QED BY <2>1, <2>2 DEF TypeOK, Shape, About, Flying, chain, journal
<1>23. ASSUME NEW t \in Token, DryHeal(t) PROVE Typed'
  <2>1. /\ HealRow(dry.todo, t) /\ UNCHANGED <<book, custody, pool, pending, cyc>>
        /\ dry' = [dry EXCEPT !.todo = dry.todo \ {t}]
    BY <1>23 DEF DryHeal, chain
  <2>2. /\ confirmed' \subseteq {u \in Token : custody'[u] # "none"}
        /\ label' \in [Token -> Label] /\ newest' \in Token \cup {0}
        /\ plan' \in Label /\ sent' \subseteq Token /\ stakeplan' \in [Token -> Label]
        /\ later' \in [Token -> SUBSET Token] /\ lapses' \subseteq Lapses
    BY <2>1, HealTyped
  <2>3. dry' \in DryRun
    BY <2>1 DEF TypeOK, DryRun
  <2> QED BY <2>1, <2>2, <2>3 DEF TypeOK, Shape, About, Flying
<1>24. CASE DryReconcile
  <2>1. Reconciled(dry.book) \subseteq Row
    BY ReconciledIsABook DEF TypeOK, DryRun
  <2> QED BY <1>24, <2>1 DEF DryReconcile, DryRun, TypeOK, Shape, About, Flying, chain, journal
<1>25. CASE DrySave
  BY <1>25 DEF DrySave, NoDry, DryRun, TypeOK, Shape, About, Flying, chain, journal
<1>26. CASE Rehearse
  BY <1>26 DEF Rehearse, TypeOK, Shape, About, Flying, Label, chain
<1>27. CASE Land
  <2>1. pending.tok \in Token /\ pending.op \in Ops
    BY <1>27 DEF Land, TypeOK
  <2>2. Into[pending.op] \in {"safe", "gauge", "empty"}
    BY <2>1 DEF Into, Ops
  <2>3. lapses' \subseteq Lapses
    BY <1>27, LapsesTyped DEF Land, TypeOK, Lapses
  <2>4. cyc' \in Cycle /\ cyc'.pc = cyc.pc /\ cyc'.op = cyc.op /\ cyc'.tok = cyc.tok /\ cyc'.sym = cyc.sym
    BY <1>27 DEF Land, TypeOK, Cycle
  <2>5. custody' \in [Token -> {"none", "safe", "gauge", "empty"}]
        /\ \A t \in Token : custody[t] # "none" => custody'[t] # "none"
    BY <1>27, <2>1, <2>2 DEF Land, TypeOK
  <2> QED BY <1>27, <2>3, <2>4, <2>5 DEF Land, TypeOK, Shape, About, Flying, journal
<1>28. CASE Evict
  BY <1>28 DEF Evict, TypeOK, Shape, About, Flying, journal
<1>29. CASE UNCHANGED vars
  BY <1>29 DEF vars, chain, journal, TypeOK, Shape, About, Flying
<1> QED BY <1>1, <1>2, <1>3, <1>4, <1>5, <1>6, <1>7, <1>8, <1>9, <1>10, <1>11, <1>12, <1>13, <1>14,
           <1>15, <1>16, <1>17, <1>18, <1>19, <1>20, <1>21, <1>22, <1>23, <1>24, <1>25, <1>26,
           <1>27, <1>28, <1>29
        DEF Next, CycleStep, DryStep

\* The book, the chain, the journal and both cycles keep their types.
THEOREM RecoveryTyped == Spec => []TypeOK
<1>1. Spec => []Typed
  BY TypedInit, TypedNext, PTL DEF Spec
<1> QED BY <1>1, PTL DEF Typed

-----------------------------------------------------------------------------
(* Whatever is staked, or may become so, is named by a stake plan row.     *)

HasPlan(t) == stakeplan[t] # NoSymbol

StakePlanned ==
    /\ \A t \in Token : custody[t] = "gauge" => HasPlan(t)
    /\ pending.op = "stake" => HasPlan(pending.tok)
    /\ cyc.op = "stake" /\ cyc.pc = "built" => HasPlan(cyc.tok)

LEMMA StakePlannedInit == Init => StakePlanned
BY DEF Init, StakePlanned, NoOp, Off

\* Where a cycle that does not go on to build stands, and what else it leaves.
LEMMA Quiet ==
    ASSUME Typed, \/ Start \/ Scan \/ Reconcile \/ Halt \/ Check \/ RecordSend \/ MintConfirmed
                  \/ DecodeMint \/ UnstakeConfirmed \/ WithdrawConfirmed \/ SaleFails
                  \/ StakeConfirmed \/ Save \/ Crash \/ PlanMint
    PROVE  cyc'.pc \notin {"built", "nonced"} /\ UNCHANGED <<custody, pool, pending, stakeplan>>
<1> cyc \in Cycle
  BY DEF Typed, TypeOK
<1>1. CASE Start \/ Save \/ Crash
  <2>1. CASE Start
    BY <2>1 DEF Start, Off, chain, journal
  <2>2. CASE Save \/ Crash
    <3>1. cyc' = Off
      BY <2>2 DEF Save, Crash
    <3> QED BY <2>2, <3>1 DEF Save, Crash, Off, chain, journal
  <2> QED BY <1>1, <2>1, <2>2
<1>2. CASE Scan \/ Halt \/ Check \/ RecordSend \/ DecodeMint \/ UnstakeConfirmed \/ SaleFails
  BY <1>2 DEF Scan, Halt, Check, RecordSend, DecodeMint, UnstakeConfirmed, SaleFails, Cycle, chain, journal
<1>3. CASE Reconcile
  BY <1>3 DEF Reconcile, Cycle, chain, journal
<1>4. CASE MintConfirmed
  BY <1>4 DEF MintConfirmed, Confirm, Cycle, chain
<1>5. CASE WithdrawConfirmed
  BY <1>5 DEF WithdrawConfirmed, Cycle, chain, journal
<1>6. CASE StakeConfirmed
  <2>1. CASE cyc.step = "restake"
    BY <1>6, <2>1 DEF StakeConfirmed, Cycle, chain, journal
  <2>2. CASE cyc.step # "restake"
    BY <1>6, <2>2 DEF StakeConfirmed, Cycle, chain, journal
  <2> QED BY <2>1, <2>2
<1>7. CASE PlanMint
  BY <1>7 DEF PlanMint, Cycle, chain
<1> QED BY <1>1, <1>2, <1>3, <1>4, <1>5, <1>6, <1>7

\* A repair changes neither chain nor plans.
LEMMA HealKeeps ==
    ASSUME NEW todo, NEW t, HealRow(todo, t)
    PROVE  UNCHANGED <<plan, sent, stakeplan, later>>
BY DEF HealRow, Confirm, journal

LEMMA ChoosePlain ==
    ASSUME Typed, NEW step, NEW op, NEW t, NEW s, Choose(step, op, t, s)
    PROVE  cyc'.pc = "build" /\ UNCHANGED <<custody, pool, pending, stakeplan>>
BY DEF Choose, chain, journal, Typed, TypeOK, Cycle

\* Every step keeps it: the row is written before the delivery is broadcast,
\* and none is ever forgotten.
LEMMA StakePlannedNext == Typed /\ StakePlanned /\ [Next]_vars => StakePlanned'
<1> SUFFICES ASSUME Typed, StakePlanned, [Next]_vars PROVE StakePlanned'
  OBVIOUS
<1>1. CASE PlanStake
  <2>1. /\ cyc.tok \in Token /\ cyc.sym \in Symbols /\ cyc.op = "stake"
        /\ UNCHANGED <<custody, pool, pending>>
    BY <1>1 DEF PlanStake, Typed, Shape, About, chain
  <2>2. \A t \in Token : HasPlan(t) => HasPlan(t)'
    BY <1>1, <2>1 DEF PlanStake, HasPlan, Typed, TypeOK
  <2>3. HasPlan(cyc.tok)'
    BY <1>1, <2>1 DEF PlanStake, HasPlan, Typed, TypeOK
  <2>4. cyc'.tok = cyc.tok
    BY <1>1 DEF PlanStake, Typed, TypeOK, Cycle
  <2>5. pending.op = "stake" => pending.tok \in Token
    BY DEF Typed, TypeOK, NoOp
  <2> QED BY <2>1, <2>2, <2>3, <2>4, <2>5 DEF StakePlanned, HasPlan
<1>2. CASE ReadNonce
  <2>1. cyc'.op = cyc.op /\ (cyc.op = "stake" => cyc'.pc = "nonced")
    BY <1>2 DEF ReadNonce, Typed, TypeOK, Cycle
  <2>2. UNCHANGED <<custody, pending, stakeplan>>
    BY <1>2 DEF ReadNonce, chain, journal
  <2> QED BY <2>1, <2>2 DEF StakePlanned, HasPlan
<1>3. CASE Broadcast
  <2> PICK t \in Target :
        /\ pending' \in {[op |-> cyc.op, tok |-> t]} \cup ({pending} \ {NoOp})
        /\ cyc' = [cyc EXCEPT !.pc = "sent", !.tok = t]
    BY <1>3 DEF Broadcast
  <2>1. cyc.op = "stake" => t = cyc.tok
    BY DEF Target
  <2>2. UNCHANGED <<custody, stakeplan>> /\ cyc.pc = "built"
    BY <1>3 DEF Broadcast, journal
  <2>3. cyc'.pc = "sent"
    BY DEF Typed, TypeOK, Cycle
  <2> QED BY <2>1, <2>2, <2>3 DEF StakePlanned, HasPlan
<1>4. CASE Land
  <2>1. pending.tok \in Token /\ pending.op \in Ops
    BY <1>4 DEF Land, Typed, TypeOK
  <2>2. Into[pending.op] = "gauge" => pending.op = "stake"
    BY <2>1 DEF Into, Ops
  <2>3. \A t \in Token : custody'[t] = "gauge" => HasPlan(t)
    BY <1>4, <2>1, <2>2 DEF Land, StakePlanned, Typed, TypeOK
  <2>4. UNCHANGED stakeplan /\ pending' = NoOp
    BY <1>4 DEF Land, journal
  <2>5. cyc'.pc = cyc.pc /\ cyc'.op = cyc.op /\ cyc'.tok = cyc.tok
    BY <1>4 DEF Land, Typed, TypeOK, Cycle
  <2> QED BY <2>3, <2>4, <2>5 DEF StakePlanned, HasPlan, NoOp
<1>5. CASE Evict
  BY <1>5 DEF Evict, StakePlanned, HasPlan, NoOp, journal
<1>6. ASSUME UNCHANGED <<custody, pending, stakeplan>>, cyc' = cyc \/ cyc'.pc # "built"
      PROVE  StakePlanned'
  BY <1>6 DEF StakePlanned, HasPlan
<1>7. CASE \/ \E r \in cyc.book : Exit(r) \/ Recenter(r) \/ Restake(r)
           \/ \E s \in Symbols : Enter(s)
  BY <1>6, <1>7, ChoosePlain DEF Exit, Recenter, Restake, Enter
<1>8. ASSUME NEW t \in Token, Heal(t) PROVE StakePlanned'
  <2>1. cyc'.pc # "built"
    BY <1>8 DEF Heal, Typed, TypeOK, Cycle
  <2>2. UNCHANGED <<custody, pending, stakeplan>>
    BY <1>8, HealKeeps DEF Heal, chain
  <2> QED BY <1>6, <2>1, <2>2
<1>9. ASSUME NEW t \in Token, DryHeal(t) PROVE StakePlanned'
  <2>1. UNCHANGED <<custody, pending, stakeplan, cyc>>
    BY <1>9, HealKeeps DEF DryHeal, chain
  <2> QED BY <1>6, <2>1
<1>10. CASE DryStart \/ DryScan \/ DryReconcile \/ DrySave \/ Rehearse \/ UNCHANGED vars
  BY <1>6, <1>10 DEF DryStart, DryScan, DryReconcile, DrySave, Rehearse, vars, chain, journal
<1> QED BY <1>1, <1>2, <1>3, <1>4, <1>5, <1>6, <1>7, <1>8, <1>9, <1>10, Quiet DEF Next, CycleStep, DryStep

Gauge == {t \in Token : custody[t] = "gauge"}

\* What a reconciled book tracks: every live NFT that was tracked before, or
\* has a stake plan and is not buried.
LEMMA ReconciledTracks ==
    ASSUME Typed, NEW b, ~OutOfBand(b), NEW t \in Live,
           t \in Tokens(b) \/ (HasPlan(t) /\ t \notin Buried(b))
    PROVE  t \in Tokens(Reconciled(b))
<1>1. Reconciled(b) = Kept(b) \cup Adopted(b) \cup Recovered(b)
  BY DEF Reconciled
<1>2. CASE t \in Tokens(b)
  <2>1. PICK r \in b : r.tok = t
    BY <1>2 DEF Tokens
  <2>2. r \in Kept(b)
    BY <2>1 DEF Kept, Live
  <2> QED BY <1>1, <2>1, <2>2 DEF Tokens
<1>3. CASE t \notin Tokens(b)
  <2>1. t \in Candidates(b) \ Buried(b)
    BY <1>3 DEF Candidates, HasPlan, Live
  <2>2. [tok |-> t, sym |-> stakeplan[t]] \in Recovered(b)
    BY <2>1 DEF Recovered
  <2> QED BY <1>1, <2>2 DEF Tokens
<1> QED BY <1>2, <1>3

\* A cycle that goes on has every staked position in its book, but the buried.
LEMMA ReconcileSees ==
    ASSUME Typed, StakePlanned, Reconcile, cyc'.pc = "act"
    PROVE  Gauge \ Buried(cyc.book) \subseteq Tokens(cyc'.book)
<1>1. ~OutOfBand(cyc.book) /\ cyc'.book = Reconciled(cyc.book)
  BY DEF Reconcile, Typed, TypeOK, Cycle
<1>2. ASSUME NEW t \in Gauge, t \notin Buried(cyc.book) PROVE t \in Tokens(Reconciled(cyc.book))
  <2>1. t \in Live /\ HasPlan(t)
    BY <1>2 DEF Gauge, Live, StakePlanned
  <2> QED BY <1>1, <1>2, <2>1, ReconciledTracks
<1> QED BY <1>1, <1>2

\* No staked position is missing from the book a cycle decides on, whatever
\* crashed, timed out, landed late or overwrote the book before, but one that
\* is buried under newer stake plans.
THEOREM StakedSeen == Spec => StakedAreSeen
<1>1. Typed /\ StakePlanned /\ [Next]_vars =>
        [cyc.pc = "heal" /\ cyc'.pc = "act"
           => {t \in Token : custody[t] = "gauge"} \ Buried(cyc.book) \subseteq Tokens(cyc'.book)]_vars
  <2> SUFFICES ASSUME Typed, StakePlanned, [Next]_vars, cyc.pc = "heal", cyc'.pc = "act",
                      ~UNCHANGED vars
               PROVE  Gauge \ Buried(cyc.book) \subseteq Tokens(cyc'.book)
    BY DEF Gauge
  <2>1. CASE Reconcile
    BY <2>1, ReconcileSees
  <2>2. CASE Land \/ \E t \in Token : Heal(t)
    <3>1. cyc'.pc = cyc.pc
      BY <2>2 DEF Land, Heal, Typed, TypeOK, Cycle
    <3> QED BY <3>1
  <2> QED BY <2>1, <2>2 DEF Next, CycleStep, DryStep, Start, Scan, Exit, Recenter, Restake, Enter,
        Choose, Halt, Check, PlanMint, ReadNonce, PlanStake, Broadcast, RecordSend, MintConfirmed,
        DecodeMint, UnstakeConfirmed, WithdrawConfirmed, SaleFails, StakeConfirmed, Delivered, Save,
        Crash, Off, DryStart, DryScan, DryHeal, DryReconcile, DrySave, Rehearse, Evict
<1>2. Spec => [](Typed /\ StakePlanned)
  BY TypedInit, TypedNext, StakePlannedInit, StakePlannedNext, PTL DEF Spec
<1> QED BY <1>1, <1>2, PTL DEF Spec, StakedAreSeen

-----------------------------------------------------------------------------
(* As long as no outcome row is misfiled, every row of a book names the    *)
(* pool its NFT was minted in, and so does whatever row the journal may    *)
(* still give it.                                                          *)

Named(b) == \A r \in b : pool[r.tok] = r.sym /\ custody[r.tok] # "none"
Proven   == \A t \in Token : stakeplan[t] \in {NoSymbol, pool[t]} /\ label[t] \in {NoSymbol, pool[t]}

\* What the cycle works on is named by the pool of the NFT.
OwnPool(c) == Flying(c) \/ c.pc = "minted" \/ (About(c) /\ c.op # "mint") => pool[c.tok] = c.sym

Names == Named(book) /\ Named(dry.book) /\ Named(cyc.book) /\ Proven /\ OwnPool(cyc)
Filed == "misfiled" \notin lapses

\* No step takes a lapse back.
LEMMA LapsesStay == [Next]_vars => lapses \subseteq lapses'
<1> SUFFICES ASSUME [Next]_vars PROVE lapses \subseteq lapses'
  OBVIOUS
<1>1. ASSUME NEW todo, NEW t, HealRow(todo, t) PROVE lapses \subseteq lapses'
  BY <1>1 DEF HealRow, Confirm, Lapse
<1>2. CASE Reconcile \/ MintConfirmed \/ Land
  BY <1>2 DEF Reconcile, MintConfirmed, Confirm, Land, Lapse
<1> QED BY <1>1, <1>2 DEF Next, CycleStep, DryStep, Start, Scan, Heal, Exit, Recenter, Restake, Enter,
        Choose, Halt, Check, PlanMint, ReadNonce, PlanStake, Broadcast, RecordSend,
        DecodeMint, UnstakeConfirmed, WithdrawConfirmed, SaleFails, StakeConfirmed, Save,
        Crash, DryStart, DryScan, DryHeal, DryReconcile, DrySave, Rehearse, Evict, vars

LEMMA NamesInit == Init => Names
BY DEF Init, Names, Named, Proven, OwnPool, Flying, About, Off, NoDry

\* A step that leaves the chain and the proofs alone owes the books' names.
LEMMA StillNamed ==
  ASSUME Names, UNCHANGED <<custody, pool, stakeplan, label>>,
         Named(book'), Named(dry'.book), Named(cyc'.book), OwnPool(cyc')
  PROVE  Names'
BY DEF Names, Named, Proven, OwnPool, Flying, About

\* A book reconciled with a journal that tells the truth tells it too.
LEMMA ReconciledNamed ==
  ASSUME TypeOK, Proven, NEW b \in SUBSET Row, Named(b)
  PROVE  Named(Reconciled(b)) /\ (~OutOfBand(b) => \A r \in Reconciled(b) : r \in Row /\ r.tok \in Live)
<1>1. \A r \in Kept(b) : r \in Row /\ pool[r.tok] = r.sym /\ r.tok \in Live
  BY DEF Kept, Named, Live, Row, TypeOK
<1>2. \A r \in Recovered(b) : r \in Row /\ pool[r.tok] = r.sym /\ r.tok \in Live
  BY DEF Recovered, Candidates, Proven, Live, Row, TypeOK, Label
<1>3. \A r \in Adopted(b) : r \in Row /\ pool[r.tok] = r.sym /\ r.tok \in Live
  <2>1. CASE b = {} /\ Recovered(b) = {} /\ Held = {newest} /\ label[newest] # NoSymbol
    <3>1. newest \in Token /\ custody[newest] = "safe"
      BY <2>1 DEF Held
    <3>2. pool[newest] = label[newest] /\ label[newest] \in Symbols
      BY <2>1, <3>1 DEF Proven, TypeOK, Label
    <3> QED BY <2>1, <3>1, <3>2 DEF Adopted, Row, Live
  <2> QED BY <2>1 DEF Adopted
<1>4. CASE OutOfBand(b)
  BY <1>4 DEF Reconciled
<1>5. CASE ~OutOfBand(b)
  <2>1. \A r \in Reconciled(b) : r \in Row /\ pool[r.tok] = r.sym /\ r.tok \in Live
    BY <1>1, <1>2, <1>3, <1>5 DEF Reconciled
  <2> QED BY <2>1 DEF Named, Live
<1> QED BY <1>4, <1>5

\* An outcome row that is not misfiled labels its mint by its own plan or by
\* none.
LEMMA ConfirmNamed ==
  ASSUME Typed, Names, NEW t \in Token, Confirm(t), Filed', UNCHANGED <<custody, pool>>
  PROVE  Proven'
<1>1. plan \in {NoSymbol, pool[t]}
  BY DEF Confirm, Lapse, Filed
<1>2. label' = [label EXCEPT ![t] = plan] /\ UNCHANGED stakeplan
  BY DEF Confirm
<1> QED BY <1>1, <1>2 DEF Names, Proven, Typed, TypeOK

LEMMA HealNamed ==
  ASSUME Typed, Names, NEW todo, NEW t \in Token, HealRow(todo, t), Filed', UNCHANGED <<custody, pool>>
  PROVE  Proven'
<1>1. CASE Landed(t)
  BY <1>1, ConfirmNamed DEF HealRow
<1>2. CASE ~Landed(t)
  BY <1>2 DEF HealRow, journal, Names, Proven
<1> QED BY <1>1, <1>2

\* A row may be looked up as soon as the books are named and it is proven.
LEMMA BooksStay ==
  ASSUME Names, Proven', UNCHANGED <<custody, pool>>, Named(book'), Named(dry'.book), Named(cyc'.book),
         OwnPool(cyc')
  PROVE  Names'
BY DEF Names, Named, OwnPool, Flying, About

\* A step chosen from the book of the cycle.
LEMMA ChooseNamed ==
  ASSUME Typed, Names, NEW step, NEW op, NEW t, NEW s, Choose(step, op, t, s),
         op # "mint" => pool[t] = s
  PROVE  Names'
<1>1. cyc'.pc = "build" /\ cyc'.op = op /\ cyc'.tok = t /\ cyc'.sym = s /\ cyc'.book = cyc.book
  BY DEF Typed, TypeOK, Choose, Cycle
<1>2. UNCHANGED <<book, custody, pool, stakeplan, label, dry>>
  BY DEF Choose, chain, journal
<1> QED BY <1>1, <1>2, StillNamed DEF Names, OwnPool, Flying, About

\* The steps of a cycle that move its plan on, or end it.
LEMMA OnwardNamed ==
  ASSUME Typed, Names, \/ Start \/ Scan \/ Halt \/ Check \/ PlanMint \/ ReadNonce \/ RecordSend
                       \/ DecodeMint \/ UnstakeConfirmed \/ WithdrawConfirmed \/ SaleFails \/ Save \/ Crash
  PROVE  Names'
<1> cyc \in Cycle
  BY DEF Typed, TypeOK
<1>1. CASE Start \/ Save \/ Crash
  <2>1. UNCHANGED <<custody, pool, stakeplan, label, dry>> /\ book' \in {book, cyc.book}
    BY <1>1 DEF Start, Save, Crash, chain, journal
  <2>2. cyc'.pc \in {"scan", "off"} /\ cyc'.book \in {book, {}}
    <3>1. CASE Start
      BY <3>1 DEF Start, Off
    <3>2. CASE Save \/ Crash
      <4>1. cyc' = Off
        BY <3>2 DEF Save, Crash
      <4> QED BY <4>1 DEF Off
    <3> QED BY <1>1, <3>1, <3>2
  <2>3. Named({})
    BY DEF Named
  <2> QED BY <2>1, <2>2, <2>3, StillNamed DEF Names, OwnPool, Flying, About
<1>2. CASE Scan \/ Halt \/ SaleFails
  <2>1. UNCHANGED <<book, custody, pool, stakeplan, label, dry>>
        /\ cyc'.pc \in {"heal", "save"} /\ cyc'.book = cyc.book
    BY <1>2 DEF Scan, Halt, SaleFails, Cycle, chain, journal
  <2> QED BY <2>1, StillNamed DEF Names, OwnPool, Flying, About
<1>3. CASE Check \/ PlanMint \/ ReadNonce
  <2>1. UNCHANGED <<book, custody, pool, stakeplan, label, dry>>
        /\ cyc'.pc \in {"checked", "planned", "nonced", "built"} /\ cyc'.book = cyc.book
        /\ cyc'.op = cyc.op /\ cyc'.tok = cyc.tok /\ cyc'.sym = cyc.sym /\ About(cyc)
    <3>1. CASE Check
      BY <3>1 DEF Check, Cycle, chain, journal, About
    <3>2. CASE PlanMint
      BY <3>2 DEF PlanMint, Cycle, chain, journal, About
    <3>3. CASE ReadNonce
      BY <3>3 DEF ReadNonce, Cycle, chain, journal, About
    <3> QED BY <1>3, <3>1, <3>2, <3>3
  <2> QED BY <2>1, StillNamed DEF Names, OwnPool, Flying, About
<1>4. CASE RecordSend \/ DecodeMint \/ UnstakeConfirmed
  <2>1. UNCHANGED <<book, custody, pool, stakeplan, label, dry>>
        /\ cyc'.pc \in {"wait", "build"} /\ cyc'.book = cyc.book
        /\ cyc'.tok = cyc.tok /\ cyc'.sym = cyc.sym /\ (Flying(cyc) \/ cyc.pc = "minted")
    <3>1. CASE RecordSend
      BY <3>1 DEF RecordSend, Cycle, chain, journal, Flying
    <3>2. CASE DecodeMint \/ UnstakeConfirmed
      BY <3>2 DEF DecodeMint, UnstakeConfirmed, Delivered, Cycle, chain, journal, Flying
    <3> QED BY <1>4, <3>1, <3>2
  <2> QED BY <2>1, StillNamed DEF Names, OwnPool, Flying, About
<1>5. CASE WithdrawConfirmed
  <2>1. UNCHANGED <<book, custody, pool, stakeplan, label, dry>> /\ cyc'.book = Without(cyc.book, cyc.tok)
        /\ (cyc'.pc = "act" \/ (cyc'.pc = "build" /\ cyc'.op = "mint"))
    BY <1>5 DEF WithdrawConfirmed, Cycle, chain, journal
  <2> QED BY <2>1, StillNamed DEF Names, Named, Without, OwnPool, Flying, About
<1> QED BY <1>1, <1>2, <1>3, <1>4, <1>5

\* Every step keeps the names, if it misfiles no row.
LEMMA NamesNext == ASSUME Typed, Names, [Next]_vars, Filed' PROVE Names'
<1> cyc \in Cycle
  BY DEF Typed, TypeOK
<1>1. CASE Reconcile
  <2>1. Named(Reconciled(cyc.book))
    BY ReconciledNamed DEF Names, Typed, TypeOK, Cycle
  <2>2. cyc'.book = Reconciled(cyc.book) /\ cyc'.pc \in {"save", "act"}
        /\ UNCHANGED <<book, custody, pool, stakeplan, label, dry>>
    BY <1>1 DEF Reconcile, Cycle, chain, journal
  <2> QED BY <2>1, <2>2, StillNamed DEF Names, OwnPool, Flying, About
<1>2. ASSUME NEW r \in cyc.book, Exit(r) \/ Recenter(r) \/ Restake(r) PROVE Names'
  <2>1. pool[r.tok] = r.sym
    BY DEF Names, Named
  <2> QED BY <1>2, <2>1, ChooseNamed DEF Exit, Recenter, Restake
<1>3. ASSUME NEW s \in Symbols, Enter(s) PROVE Names'
  BY <1>3, ChooseNamed DEF Enter
<1>4. CASE PlanStake
  <2>1. /\ UNCHANGED <<book, custody, pool, label, dry>>
        /\ cyc.pc = "nonced" /\ cyc'.pc = "built" /\ cyc'.op = cyc.op /\ cyc'.tok = cyc.tok
        /\ cyc'.sym = cyc.sym /\ cyc'.book = cyc.book
    BY <1>4 DEF PlanStake, Cycle, chain
  <2>2. cyc.tok \in Token /\ cyc.op = "stake" /\ pool[cyc.tok] = cyc.sym
    BY <2>1 DEF Names, OwnPool, About, Typed, Shape
  <2>3. \A t \in Token : stakeplan'[t] \in {NoSymbol, pool[t]}
    BY <1>4, <2>2 DEF PlanStake, Names, Proven, Typed, TypeOK
  <2>4. Proven'
    BY <2>1, <2>3 DEF Names, Proven
  <2> QED BY <2>1, <2>2, <2>4, BooksStay DEF Names, OwnPool, Flying, About
<1>5. CASE Broadcast
  <2> PICK t \in Target :
        /\ custody[t] = From[cyc.op]
        /\ cyc.op = "stake" => pool[t] = cyc.sym
        /\ pool' = IF cyc.op = "mint" THEN [pool EXCEPT ![t] = cyc.sym] ELSE pool
        /\ cyc' = [cyc EXCEPT !.pc = "sent", !.tok = t]
    BY <1>5 DEF Broadcast
  <2>1. /\ cyc.pc = "built" /\ cyc.op \in Ops /\ t \in Token /\ cyc.sym \in Symbols
        /\ UNCHANGED <<book, custody, stakeplan, label, dry>>
        /\ cyc.op # "mint" => t = cyc.tok
    BY <1>5 DEF Broadcast, Target, journal, Typed, Shape, About
  <2>2. cyc'.pc = "sent" /\ cyc'.tok = t /\ cyc'.sym = cyc.sym /\ cyc'.book = cyc.book
    BY DEF Cycle
  <2>3. cyc.op = "mint" => pool[t] = NoSymbol /\ custody[t] = "none"
    BY DEF Target, From
  <2>4. \A u \in Token : u # t \/ cyc.op # "mint" => pool'[u] = pool[u]
    BY <2>1 DEF Typed, TypeOK
  <2>5. pool'[t] = cyc.sym
    <3>1. CASE cyc.op = "mint"
      BY <2>1, <3>1 DEF Typed, TypeOK
    <3>2. CASE cyc.op # "mint"
      BY <2>1, <3>2 DEF Names, OwnPool, About
    <3> QED BY <3>1, <3>2
  <2>6. \A u \in Token : custody[u] # "none" => pool'[u] = pool[u]
    BY <2>3, <2>4
  <2>7. \A b : b \subseteq Row /\ Named(b) => Named(b)'
    BY <2>1, <2>6 DEF Named, Row
  <2>8. (Named(book) /\ Named(dry.book) /\ Named(cyc.book))'
    BY <2>1, <2>2, <2>7 DEF Names, Typed, TypeOK, Cycle, DryRun, Named
  <2>9. Proven'
    BY <2>1, <2>3, <2>4 DEF Names, Proven
  <2> QED BY <2>2, <2>5, <2>8, <2>9 DEF Names, OwnPool, Flying, About
<1>6. CASE MintConfirmed
  <2>1. /\ cyc.pc = "wait" /\ Confirm(cyc.tok) /\ UNCHANGED <<book, custody, pool, dry>>
        /\ cyc'.pc = "minted" /\ cyc'.tok = cyc.tok /\ cyc'.sym = cyc.sym /\ cyc'.book = cyc.book
    BY <1>6 DEF MintConfirmed, Delivered, Cycle, chain
  <2>2. cyc.tok \in Token
    BY <2>1 DEF Typed, Shape, Flying
  <2>3. Proven'
    BY <2>1, <2>2, ConfirmNamed
  <2> QED BY <2>1, <2>3, BooksStay DEF Names, OwnPool, Flying, About
<1>7. CASE StakeConfirmed
  <2>1. /\ cyc.pc = "wait" /\ cyc.op = "stake" /\ custody[cyc.tok] = "gauge"
        /\ UNCHANGED <<custody, pool, stakeplan, label, dry>>
    BY <1>7 DEF StakeConfirmed, Delivered, Into, chain, journal
  <2>2. cyc.tok \in Token /\ pool[cyc.tok] = cyc.sym
    BY <2>1 DEF Names, OwnPool, Flying, Typed, Shape
  <2>3. Named(WithPosition(cyc.book, cyc.tok, cyc.sym))
    BY <2>1, <2>2 DEF Names, Named, WithPosition
  <2>4. CASE cyc.step = "restake"
    <3>1. cyc'.pc = "act" /\ cyc'.book = cyc.book /\ UNCHANGED book
      BY <1>7, <2>4 DEF StakeConfirmed, Cycle
    <3> QED BY <2>1, <3>1, StillNamed DEF Names, OwnPool, Flying, About
  <2>5. CASE cyc.step # "restake"
    <3>1. /\ cyc'.pc = "act" /\ cyc'.book = WithPosition(cyc.book, cyc.tok, cyc.sym)
          /\ book' = WithPosition(cyc.book, cyc.tok, cyc.sym)
      BY <1>7, <2>5 DEF StakeConfirmed, Cycle
    <3> QED BY <2>1, <2>3, <3>1, StillNamed DEF Names, OwnPool, Flying, About
  <2> QED BY <2>4, <2>5
<1>8. ASSUME NEW t \in Token, Heal(t) PROVE Names'
  <2>1. /\ HealRow(cyc.todo, t) /\ UNCHANGED <<book, custody, pool, dry>>
        /\ cyc'.pc = "heal" /\ cyc'.book = cyc.book
    BY <1>8 DEF Heal, Cycle, chain
  <2>2. Proven'
    BY <2>1, HealNamed
  <2> QED BY <2>1, <2>2, BooksStay DEF Names, OwnPool, Flying, About
<1>9. ASSUME NEW t \in Token, DryHeal(t) PROVE Names'
  <2>1. /\ HealRow(dry.todo, t) /\ UNCHANGED <<book, custody, pool, cyc>> /\ dry'.book = dry.book
    BY <1>9 DEF DryHeal, DryRun, Typed, TypeOK, chain
  <2>2. Proven'
    BY <2>1, HealNamed
  <2> QED BY <2>1, <2>2, BooksStay DEF Names
<1>10. CASE DryStart \/ DryScan \/ DryReconcile \/ DrySave
  <2>1. UNCHANGED <<custody, pool, stakeplan, label, cyc>>
    BY <1>10 DEF DryStart, DryScan, DryReconcile, DrySave, chain, journal
  <2>2. book' \in {book, dry.book}
    BY <1>10 DEF DryStart, DryScan, DryReconcile, DrySave
  <2>3. Named(Reconciled(dry.book)) /\ Named({})
    BY ReconciledNamed DEF Names, Named, Typed, TypeOK, DryRun
  <2>4. dry'.book \in {book, dry.book, Reconciled(dry.book), {}}
    <3> dry \in DryRun
      BY DEF Typed, TypeOK
    <3>1. CASE DryStart \/ DrySave
      <4>1. CASE DryStart
        BY <4>1 DEF DryStart, NoDry
      <4>2. CASE DrySave
        <5>1. dry' = NoDry
          BY <4>2 DEF DrySave
        <5> QED BY <5>1 DEF NoDry
      <4> QED BY <3>1, <4>1, <4>2
    <3>2. CASE DryScan \/ DryReconcile
      BY <3>2 DEF DryScan, DryReconcile, DryRun
    <3> QED BY <1>10, <3>1, <3>2
  <2> QED BY <2>1, <2>2, <2>3, <2>4, StillNamed DEF Names
<1>11. CASE Rehearse \/ Evict \/ UNCHANGED vars
  <2>1. UNCHANGED <<book, custody, pool, stakeplan, label, cyc, dry>>
    BY <1>11 DEF Rehearse, Evict, vars, chain, journal
  <2> QED BY <2>1, StillNamed DEF Names
<1>12. CASE Land
  <2>1. pending.tok \in Token /\ Into[pending.op] # "none"
    BY <1>12 DEF Land, Typed, TypeOK, Into, Ops
  <2>2. \A t \in Token : custody[t] # "none" => custody'[t] # "none"
    BY <1>12, <2>1 DEF Land, Typed, TypeOK
  <2>3. /\ cyc'.pc = cyc.pc /\ cyc'.op = cyc.op /\ cyc'.tok = cyc.tok /\ cyc'.sym = cyc.sym
        /\ cyc'.book = cyc.book /\ UNCHANGED <<book, pool, stakeplan, label, dry>>
    BY <1>12 DEF Land, Cycle, journal
  <2>4. \A b : b \subseteq Row /\ Named(b) => Named(b)'
    BY <2>2, <2>3 DEF Named, Row
  <2>5. (Named(book) /\ Named(dry.book) /\ Named(cyc.book))'
    BY <2>3, <2>4 DEF Names, Typed, TypeOK, Cycle, DryRun, Named
  <2> QED BY <2>3, <2>5 DEF Names, Proven, OwnPool, Flying, About
<1> QED BY <1>1, <1>2, <1>3, <1>4, <1>5, <1>6, <1>7, <1>8, <1>9, <1>10, <1>11, <1>12, OnwardNamed
        DEF Next, CycleStep, DryStep

NamesInv == Typed /\ (Filed => Names)

LEMMA NamesInvAlways == Spec => []NamesInv
<1>1. Init => NamesInv
  BY TypedInit, NamesInit DEF NamesInv
<1>2. NamesInv /\ [Next]_vars => NamesInv'
  BY TypedNext, NamesNext, LapsesStay DEF NamesInv, Filed
<1> QED BY <1>1, <1>2, PTL DEF Spec

\* As long as no outcome row is filed behind the plan of another pool, no row
\* of the book names another pool than the one its NFT was minted in, however
\* it came into the book: what the journal proves of a mint or a stake is true.
THEOREM RowsAreNamed == Spec => []FiledRowsNameTheirPool
<1>1. NamesInv => FiledRowsNameTheirPool
  BY DEF NamesInv, Filed, Names, Named, FiledRowsNameTheirPool, RowsNameTheirPool
<1> QED BY <1>1, NamesInvAlways, PTL

-----------------------------------------------------------------------------
(* As long as nothing has lapsed, no pool holds two live positions.        *)

NoDouble == \A t, u \in Live : pool[t] = pool[u] => t = u
Working  == {"act", "build", "checked", "planned", "nonced", "built", "sent", "wait", "minted"}
Entry(t, s) == [tok |-> t, sym |-> s]

\* A pending delivery has yet to act, and a pending mint will be alone in its
\* pool.
Pending ==
    /\ pending # NoOp => custody[pending.tok] = From[pending.op] /\ pool[pending.tok] # NoSymbol
    /\ pending.op = "mint" => \A u \in Live : pool[u] # pool[pending.tok]

\* What a step burns or stakes again has its row in the working book.
RowStep(c) ==
    /\ About(c) \/ Flying(c) =>
          (c.op \in {"unstake", "withdraw"} \/ (c.op = "stake" /\ c.step = "restake")
             => Entry(c.tok, c.sym) \in c.book)
    /\ c.pc = "minted" \/ ((About(c) \/ Flying(c)) /\ c.op = "mint") => c.step # "restake"

\* The working book has one row for a pool, and none for the pool about to be
\* entered, which is vacant from the check to the nonce that is still fresh.
Single(c) == c.pc \in Working => \A r, q \in c.book : r.sym = q.sym => r = q
Vacant(c) ==
    /\ About(c) /\ c.op = "mint" => \A r \in c.book : r.sym # c.sym
    /\ c.op = "mint" /\ (c.pc \in {"checked", "planned"} \/ (c.pc = "built" /\ c.fresh))
         => \A u \in Live : pool[u] # c.sym

\* It misses no NFT that is staked, or may become so, but the one it stakes.
Staking == IF pending.op = "stake" THEN {pending.tok} ELSE {}
Own(c)  == IF Flying(c) /\ c.op = "stake" THEN {c.tok} ELSE {}
Seen(c) == c.pc \in Working => Gauge \cup Staking \subseteq Tokens(c.book) \cup Own(c)

CycleOK(c) == RowStep(c) /\ Single(c) /\ Vacant(c) /\ Seen(c)
Calm == Pending /\ NoDouble /\ CycleOK(cyc)

Truth == Typed /\ StakePlanned /\ Names

LEMMA CalmInit == Init => Calm
<1> SUFFICES ASSUME Init PROVE Calm
  OBVIOUS
<1>1. Pending /\ NoDouble
  BY DEF Init, NoOp, Pending, NoDouble, Live
<1>2. CycleOK(cyc)
  BY DEF Init, Off, CycleOK, RowStep, Single, Vacant, Seen, Working, Flying, About
<1> QED BY <1>1, <1>2 DEF Calm

\* A step that leaves the chain alone owes its cycle.
LEMMA StillCalm ==
  ASSUME Calm, UNCHANGED chain, CycleOK(cyc')
  PROVE  Calm'
<1>1. UNCHANGED <<custody, pool, pending>>
  BY DEF chain
<1>2. Pending' /\ NoDouble'
  BY <1>1 DEF Calm, Pending, NoDouble, Live
<1>3. CycleOK(cyc)'
  BY <1>1 DEF CycleOK, RowStep, Single, Vacant, Seen, Gauge, Staking, Own, Live, Tokens, Flying, About
<1> QED BY <1>2, <1>3 DEF Calm

LEMMA Rests ==
  ASSUME NEW c, c.pc \in {"off", "scan", "heal", "save"}
  PROVE  CycleOK(c)
BY DEF CycleOK, RowStep, Single, Vacant, Seen, Working, Flying, About

\* The plan step moves on over the same book.
LEMMA OnwardCalm ==
  ASSUME CycleOK(cyc), NEW c, cyc.pc \in Working, c.book = cyc.book, c.step = cyc.step, c.tok = cyc.tok,
         c.sym = cyc.sym, RowStep(c), Vacant(c), Own(cyc) \subseteq Tokens(cyc.book) \cup Own(c)
  PROVE  CycleOK(c)
BY DEF CycleOK, Single, Seen

LEMMA ReconcileCalm == ASSUME Truth, Calm, Reconcile, lapses' = {} PROVE CycleOK(cyc')
<1> DEFINE b == Reconciled(cyc.book)
           g == {t \in Token : custody[t] = "gauge"}
<1>1. /\ cyc \in Cycle /\ cyc.book \in SUBSET Row
      /\ cyc' = [cyc EXCEPT !.pc = IF OutOfBand(cyc.book) THEN "save" ELSE "act",
                            !.book = b, !.staked = g]
  BY DEF Truth, Typed, TypeOK, Reconcile, Cycle
<1>2. Named(b) /\ (~OutOfBand(cyc.book) => \A r \in b : r \in Row /\ r.tok \in Live)
  BY <1>1, ReconciledNamed DEF Truth, Names, Typed
<1>3. ~OutOfBand(cyc.book) => Buried(cyc.book) \cap Live = {}
  BY DEF Reconcile, Lapse
<1>4. \A t \in Gauge \cup Staking : t \in Live /\ HasPlan(t)
  <2>1. \A t \in Gauge : t \in Live /\ HasPlan(t)
    BY DEF Gauge, Live, Truth, StakePlanned
  <2>2. ASSUME pending.op = "stake" PROVE pending.tok \in Live /\ HasPlan(pending.tok)
    <3>1. pending # NoOp /\ pending.tok \in Token
      BY <2>2 DEF NoOp, Truth, Typed, TypeOK
    <3> QED BY <2>2, <3>1 DEF Calm, Pending, From, Live, Truth, StakePlanned
  <2> QED BY <2>1, <2>2 DEF Staking
<1>5. ~OutOfBand(cyc.book) => Gauge \cup Staking \subseteq Tokens(b)
  BY <1>3, <1>4, ReconciledTracks DEF Truth
<1>6. ~OutOfBand(cyc.book) => \A r, q \in b : r.sym = q.sym => r = q
  <2> SUFFICES ASSUME ~OutOfBand(cyc.book), NEW r \in b, NEW q \in b, r.sym = q.sym PROVE r = q
    OBVIOUS
  <2>1. r.tok \in Live /\ q.tok \in Live /\ pool[r.tok] = pool[q.tok] /\ r \in Row /\ q \in Row
    BY <1>2 DEF Named
  <2>2. r.tok = q.tok
    BY <2>1 DEF Calm, NoDouble
  <2> QED BY <2>1, <2>2 DEF Row
<1> HIDE DEF b, g
<1>7. /\ cyc'.pc \in {"save", "act"} /\ cyc'.book = b
      /\ cyc'.pc = "act" => ~OutOfBand(cyc.book)
  BY <1>1 DEF Cycle
<1> QED BY <1>5, <1>6, <1>7 DEF CycleOK, RowStep, Single, Vacant, Seen, Own, Flying, About, Working

\* A step chosen from the book of the cycle.
LEMMA ChooseCalm ==
  ASSUME Truth, Calm, NEW step, NEW op \in Ops, NEW t, NEW s, Choose(step, op, t, s),
         op # "mint" => Entry(t, s) \in cyc.book,
         op = "mint" => step # "restake" /\ \A r \in cyc.book : r.sym # s
  PROVE  CycleOK(cyc')
<1>1. /\ cyc.pc = "act" /\ cyc'.pc = "build" /\ cyc'.step = step /\ cyc'.op = op /\ cyc'.tok = t
      /\ cyc'.sym = s /\ cyc'.book = cyc.book
  BY DEF Truth, Typed, TypeOK, Choose, Cycle
<1> QED BY <1>1 DEF Calm, CycleOK, RowStep, Single, Vacant, Seen, Own, Flying, About, Working

\* The check of a mint shows that the pool is vacant: what is held is tracked,
\* what is staked is tracked, and no row names the pool.
LEMMA CheckCalm == ASSUME Truth, Calm, Check PROVE CycleOK(cyc')
<1>1. /\ cyc.pc = "build" /\ cyc'.pc = "checked" /\ cyc'.step = cyc.step /\ cyc'.op = cyc.op
      /\ cyc'.tok = cyc.tok /\ cyc'.sym = cyc.sym /\ cyc'.book = cyc.book
  BY DEF Truth, Typed, TypeOK, Check, Cycle
<1>2. cyc.op = "mint" => \A u \in Live : pool[u] # cyc.sym
  <2> SUFFICES ASSUME cyc.op = "mint", NEW u \in Live PROVE pool[u] # cyc.sym
    OBVIOUS
  <2>1. Held \subseteq Tokens(cyc.book)
    BY DEF Check, Gate
  <2>2. Gauge \subseteq Tokens(cyc.book)
    BY <1>1 DEF Calm, CycleOK, Seen, Own, Flying, Working
  <2>3. u \in Tokens(cyc.book)
    BY <2>1, <2>2 DEF Live, Held, Gauge
  <2>4. PICK r \in cyc.book : r.tok = u
    BY <2>3 DEF Tokens
  <2>5. pool[u] = r.sym /\ r.sym # cyc.sym
    BY <1>1, <2>4 DEF Truth, Names, Named, Calm, CycleOK, Vacant, About
  <2> QED BY <2>5
<1>3. RowStep(cyc') /\ Vacant(cyc')
  BY <1>1, <1>2 DEF Calm, CycleOK, RowStep, Vacant, Flying, About
<1> QED BY <1>1, <1>3, OnwardCalm DEF Calm, Own, Flying, Working

\* Plan rows and nonces change nothing of it.
LEMMA PlanCalm == ASSUME Truth, Calm, PlanMint \/ ReadNonce \/ PlanStake PROVE CycleOK(cyc')
<1> cyc \in Cycle
  BY DEF Truth, Typed, TypeOK
<1>1. /\ About(cyc) /\ About(cyc') /\ cyc'.step = cyc.step /\ cyc'.op = cyc.op
      /\ cyc'.tok = cyc.tok /\ cyc'.sym = cyc.sym /\ cyc'.book = cyc.book
      /\ cyc.op = "mint" => cyc.pc \in {"checked", "planned"}
  <2>1. CASE PlanMint
    BY <2>1 DEF PlanMint, Cycle, About
  <2>2. CASE ReadNonce
    BY <2>2 DEF ReadNonce, Cycle, About
  <2>3. CASE PlanStake
    <3>1. cyc.op = "stake"
      BY <2>3 DEF PlanStake, Truth, Typed, Shape
    <3> QED BY <2>3, <3>1 DEF PlanStake, Cycle, About
  <2> QED BY <2>1, <2>2, <2>3
<1>2. RowStep(cyc') /\ Vacant(cyc')
  BY <1>1 DEF Calm, CycleOK, RowStep, Vacant, Flying, About
<1> QED BY <1>1, <1>2, OnwardCalm DEF Calm, Own, Flying, About, Working

\* From a broadcast to the second half of its step.
LEMMA FlyCalm ==
  ASSUME Truth, Calm, RecordSend \/ MintConfirmed \/ DecodeMint \/ UnstakeConfirmed
  PROVE  CycleOK(cyc')
<1> cyc \in Cycle
  BY DEF Truth, Typed, TypeOK
<1>1. CASE RecordSend
  <2>1. /\ cyc.pc = "sent" /\ cyc'.pc = "wait" /\ cyc'.step = cyc.step /\ cyc'.op = cyc.op
        /\ cyc'.tok = cyc.tok /\ cyc'.sym = cyc.sym /\ cyc'.book = cyc.book
    BY <1>1 DEF RecordSend, Cycle
  <2>2. RowStep(cyc') /\ Vacant(cyc')
    BY <2>1 DEF Calm, CycleOK, RowStep, Vacant, Flying, About
  <2> QED BY <2>1, <2>2, OnwardCalm DEF Calm, Own, Flying, Working
<1>2. CASE MintConfirmed
  <2>1. /\ cyc.pc = "wait" /\ cyc'.pc = "minted" /\ cyc'.step = cyc.step /\ cyc.op = "mint"
        /\ cyc'.tok = cyc.tok /\ cyc'.sym = cyc.sym /\ cyc'.book = cyc.book
    BY <1>2 DEF MintConfirmed, Delivered, Cycle
  <2>2. RowStep(cyc') /\ Vacant(cyc')
    BY <2>1 DEF Calm, CycleOK, RowStep, Vacant, Flying, About
  <2> QED BY <2>1, <2>2, OnwardCalm DEF Calm, Own, Flying, Working
<1>3. CASE DecodeMint
  <2>1. /\ cyc.pc = "minted" /\ cyc'.pc = "build" /\ cyc'.op = "stake" /\ cyc'.tok = cyc.tok
        /\ cyc'.sym = cyc.sym /\ cyc'.book = cyc.book /\ cyc'.step = cyc.step
    BY <1>3 DEF DecodeMint, Cycle
  <2>2. RowStep(cyc') /\ Vacant(cyc')
    BY <2>1 DEF Calm, CycleOK, RowStep, Vacant, Flying, About
  <2> QED BY <2>1, <2>2, OnwardCalm DEF Calm, Own, Flying, Working
<1>4. CASE UnstakeConfirmed
  <2>1. /\ cyc.op = "unstake" /\ cyc.pc = "wait" /\ cyc'.pc = "build" /\ cyc'.op = "withdraw"
        /\ cyc'.tok = cyc.tok /\ cyc'.sym = cyc.sym /\ cyc'.book = cyc.book /\ cyc'.step = cyc.step
    BY <1>4 DEF UnstakeConfirmed, Delivered, Cycle
  <2>2. RowStep(cyc') /\ Vacant(cyc')
    BY <2>1 DEF Calm, CycleOK, RowStep, Vacant, Flying, About
  <2> QED BY <2>1, <2>2, OnwardCalm DEF Calm, Own, Flying, Working
<1> QED BY <1>1, <1>2, <1>3, <1>4

\* A withdrawn row leaves; the book has no other of its pool.
LEMMA WithdrawCalm == ASSUME Truth, Calm, WithdrawConfirmed PROVE CycleOK(cyc')
<1> DEFINE b == Without(cyc.book, cyc.tok)
           c == IF cyc.step = "recenter" THEN "build" ELSE "act"
           o == IF cyc.step = "recenter" THEN "mint" ELSE "none"
<1>1. /\ cyc \in Cycle /\ cyc.pc = "wait" /\ cyc.op = "withdraw" /\ custody[cyc.tok] = "empty"
      /\ cyc' = [cyc EXCEPT !.book = b, !.pc = c, !.op = o]
  BY DEF WithdrawConfirmed, Delivered, Into, Truth, Typed, TypeOK
<1>2. /\ c \in {"build", "act"} /\ o \in {"mint", "none"}
      /\ o = "mint" => cyc.step = "recenter"
      /\ c = "build" => o = "mint"
  OBVIOUS
<1>3. b \subseteq cyc.book /\ \A r \in cyc.book : r \in b \/ r.tok = cyc.tok
  BY DEF Without
<1>4. \A r \in b : r.tok # cyc.tok
  BY DEF Without
<1> HIDE DEF b, c, o
<1>5. /\ cyc'.pc = c /\ cyc'.op = o /\ cyc'.book = b /\ cyc'.sym = cyc.sym /\ cyc'.step = cyc.step
  BY <1>1 DEF Cycle
<1>6. Entry(cyc.tok, cyc.sym) \in cyc.book
  BY <1>1 DEF Calm, CycleOK, RowStep, Flying
<1>7. \A r \in b : r.sym # cyc.sym
  BY <1>1, <1>3, <1>4, <1>6 DEF Calm, CycleOK, Single, Working, Entry
<1>8. Gauge \cup Staking \subseteq Tokens(b)
  <2>1. Gauge \cup Staking \subseteq Tokens(cyc.book)
    BY <1>1 DEF Calm, CycleOK, Seen, Own, Working
  <2>2. cyc.tok \notin Gauge \cup Staking
    BY <1>1 DEF Gauge, Staking, Calm, Pending, From, NoOp
  <2> QED BY <1>3, <2>1, <2>2 DEF Tokens
<1>9. RowStep(cyc') /\ Vacant(cyc')
  BY <1>2, <1>5, <1>7 DEF RowStep, Vacant, Flying, About
<1>10. Single(cyc') /\ Seen(cyc')
  BY <1>1, <1>3, <1>5, <1>8 DEF Calm, CycleOK, Single, Seen, Working
<1> QED BY <1>9, <1>10 DEF CycleOK

\* The staked NFT has the only row of its pool.
LEMMA StakeCalm == ASSUME Truth, Calm, StakeConfirmed PROVE CycleOK(cyc')
<1>1. /\ cyc \in Cycle /\ cyc.pc = "wait" /\ cyc.op = "stake" /\ custody[cyc.tok] = "gauge"
  BY DEF StakeConfirmed, Delivered, Into, Truth, Typed, TypeOK
<1>2. cyc.tok \in Token /\ pool[cyc.tok] = cyc.sym /\ cyc.tok \in Live
  BY <1>1 DEF Truth, Typed, Shape, Names, OwnPool, Flying, Live
<1>3. Gauge \cup Staking \subseteq Tokens(cyc.book) \cup {cyc.tok}
  BY <1>1 DEF Calm, CycleOK, Seen, Own, Flying, Working
<1>4. CASE cyc.step = "restake"
  <2>1. cyc'.pc = "act" /\ cyc'.book = cyc.book
    BY <1>1, <1>4 DEF StakeConfirmed, Cycle
  <2>2. cyc.tok \in Tokens(cyc.book)
    <3>1. Entry(cyc.tok, cyc.sym) \in cyc.book
      BY <1>1, <1>4 DEF Calm, CycleOK, RowStep, Flying
    <3> QED BY <3>1 DEF Tokens, Entry
  <2>3. RowStep(cyc') /\ Vacant(cyc') /\ Single(cyc')
    BY <1>1, <2>1 DEF RowStep, Vacant, Flying, About, Calm, CycleOK, Single, Working
  <2>4. Seen(cyc')
    BY <1>3, <2>1, <2>2 DEF Seen
  <2> QED BY <2>3, <2>4 DEF CycleOK
<1>5. CASE cyc.step # "restake"
  <2> DEFINE b == WithPosition(cyc.book, cyc.tok, cyc.sym)
  <2>1. cyc'.pc = "act" /\ cyc'.book = b
    BY <1>1, <1>5 DEF StakeConfirmed, Cycle
  <2>2. \A r, q \in b : r.sym = q.sym => r = q
    BY <1>1 DEF WithPosition, Calm, CycleOK, Single, Working
  <2>3. Gauge \cup Staking \subseteq Tokens(b)
    <3> SUFFICES ASSUME NEW t \in Gauge \cup Staking PROVE t \in Tokens(b)
      OBVIOUS
    <3>1. CASE t = cyc.tok
      <4>1. Entry(cyc.tok, cyc.sym) \in b
        BY DEF WithPosition, Entry
      <4> QED BY <3>1, <4>1 DEF Tokens, Entry
    <3>2. CASE t # cyc.tok
      <4>1. PICK r \in cyc.book : r.tok = t
        BY <1>3, <3>2 DEF Tokens
      <4>2. t \in Live
        <5>1. CASE t \in Gauge
          BY <5>1 DEF Gauge, Live
        <5>2. CASE t \in Staking
          <6>1. pending.op = "stake" /\ pending.tok = t
            BY <5>2 DEF Staking
          <6>2. pending # NoOp /\ t \in Token
            BY <6>1 DEF NoOp, Truth, Typed, TypeOK
          <6> QED BY <6>1, <6>2 DEF Calm, Pending, From, Live
        <5> QED BY <5>1, <5>2
      <4>3. r.sym # cyc.sym
        BY <1>2, <3>2, <4>1, <4>2 DEF Truth, Names, Named, Calm, NoDouble
      <4> QED BY <4>1, <4>3 DEF WithPosition, Tokens
    <3> QED BY <3>1, <3>2
  <2> HIDE DEF b
  <2>4. CycleOK(cyc')
    BY <2>1, <2>2, <2>3 DEF CycleOK, RowStep, Vacant, Single, Seen, Own, Flying, About
  <2> QED BY <2>4
<1> QED BY <1>4, <1>5

\* A broadcast mint is a new NFT in a pool where nothing lives; no other
\* delivery is still pending than an older one of the same nonce.
LEMMA BroadcastCalm == ASSUME Truth, Calm, Broadcast PROVE Calm'
<1>1. PICK t \in Target :
        /\ custody[t] = From[cyc.op]
        /\ cyc.op = "stake" => pool[t] = cyc.sym
        /\ pool' = IF cyc.op = "mint" THEN [pool EXCEPT ![t] = cyc.sym] ELSE pool
        /\ pending' \in {[op |-> cyc.op, tok |-> t]} \cup ({pending} \ {NoOp})
        /\ cyc' = [cyc EXCEPT !.pc = "sent", !.tok = t]
  BY DEF Broadcast
<1>2. /\ cyc \in Cycle /\ cyc.pc = "built" /\ cyc.fresh /\ cyc.op \in Ops /\ t \in Token
      /\ cyc.sym \in Symbols /\ UNCHANGED custody
      /\ cyc.op # "mint" => t = cyc.tok
  BY DEF Broadcast, Target, Truth, Typed, TypeOK, Shape, About
<1>3. /\ cyc'.pc = "sent" /\ cyc'.op = cyc.op /\ cyc'.tok = t /\ cyc'.sym = cyc.sym
      /\ cyc'.book = cyc.book /\ cyc'.step = cyc.step
  BY <1>1, <1>2 DEF Cycle
<1>4. cyc.op = "mint" => /\ pool[t] = NoSymbol /\ custody[t] = "none"
                         /\ \A u \in Live : pool[u] # cyc.sym
  BY <1>1, <1>2 DEF Target, From, Calm, CycleOK, Vacant
<1>5. pool'[t] = cyc.sym
  <2>1. CASE cyc.op = "mint"
    BY <1>1, <1>2, <2>1 DEF Truth, Typed, TypeOK
  <2>2. CASE cyc.op # "mint"
    BY <1>1, <1>2, <2>2 DEF Truth, Names, OwnPool, About
  <2> QED BY <2>1, <2>2
<1>6. \A u \in Token : u # t \/ cyc.op # "mint" => pool'[u] = pool[u]
  BY <1>1, <1>2 DEF Truth, Typed, TypeOK
<1>7. \A u \in Live : pool'[u] = pool[u] /\ u \in Token
  BY <1>4, <1>6 DEF Live
<1>8. Live' = Live /\ Gauge' = Gauge
  BY <1>2 DEF Live, Gauge
<1>9. NoDouble'
  BY <1>7, <1>8 DEF Calm, NoDouble
<1>10. Pending'
  <2>1. CASE pending' = [op |-> cyc.op, tok |-> t]
    <3>1. pending'.op = cyc.op /\ pending'.tok = t
      BY <2>1
    <3>2. custody'[t] = From[cyc.op] /\ pool'[t] # NoSymbol
      BY <1>1, <1>2, <1>5
    <3>3. cyc.op = "mint" => \A u \in Live' : pool'[u] # pool'[t]
      BY <1>4, <1>5, <1>7, <1>8
    <3> QED BY <3>1, <3>2, <3>3 DEF Pending
  <2>2. CASE pending' = pending /\ pending # NoOp
    <3>1. pending.tok \in Token
      BY <2>2 DEF Truth, Typed, TypeOK
    <3>2. pool'[pending.tok] = pool[pending.tok]
      BY <1>4, <1>6, <2>2, <3>1 DEF Calm, Pending
    <3>3. pending.op = "mint" => \A u \in Live' : pool'[u] # pool'[pending.tok]
      BY <1>7, <1>8, <3>2 DEF Calm, Pending
    <3> QED BY <1>2, <2>2, <3>2, <3>3 DEF Calm, Pending
  <2> QED BY <1>1, <2>1, <2>2
<1>11. RowStep(cyc)' /\ Vacant(cyc)' /\ Single(cyc)'
  BY <1>2, <1>3 DEF Calm, CycleOK, RowStep, Vacant, Single, Flying, About, Working
<1>12. Seen(cyc)'
  <2>1. Gauge \cup Staking \subseteq Tokens(cyc.book)
    BY <1>2 DEF Calm, CycleOK, Seen, Own, Flying, Working
  <2>2. Staking' \subseteq Staking \cup Own(cyc')
    BY <1>1, <1>3 DEF Staking, Own, Flying
  <2>3. Own(cyc)' = Own(cyc') /\ Tokens(cyc.book)' = Tokens(cyc.book)
    BY <1>3 DEF Own, Flying, Tokens
  <2> QED BY <1>8, <2>1, <2>2, <2>3 DEF Seen
<1> QED BY <1>9, <1>10, <1>11, <1>12 DEF Calm, CycleOK

\* What lands was pending, so nothing else lives where a mint lands, unless
\* a mint is built on an older view; and a landing unmakes every fresh nonce.
LEMMA LandCalm == ASSUME Truth, Calm, Land, lapses' = {} PROVE Calm'
<1> DEFINE op == pending.op
           k  == pending.tok
<1>1. /\ cyc \in Cycle /\ op \in Ops /\ k \in Token /\ custody[k] = From[op] /\ pending # NoOp
      /\ custody' = [custody EXCEPT ![k] = Into[op]] /\ pending' = NoOp
      /\ cyc' = [cyc EXCEPT !.fresh = FALSE] /\ UNCHANGED pool
  BY DEF Land, Truth, Typed, TypeOK
<1>2. op = "mint" => ~Unaware /\ \A u \in Live : pool[u] # pool[k]
  BY DEF Land, Lapse, Calm, Pending
<1>3. op = "stake" => Staking = {k}
  BY DEF Staking
<1> HIDE DEF op, k
<1>4. /\ cyc'.pc = cyc.pc /\ cyc'.op = cyc.op /\ cyc'.tok = cyc.tok /\ cyc'.sym = cyc.sym
      /\ cyc'.book = cyc.book /\ cyc'.step = cyc.step /\ ~cyc'.fresh
  BY <1>1 DEF Cycle
<1>5. \A u \in Token : custody'[u] = IF u = k THEN Into[op] ELSE custody[u]
  BY <1>1 DEF Truth, Typed, TypeOK
<1>6. /\ (Into[op] = "gauge" <=> op = "stake")
      /\ (Into[op] \in {"safe", "gauge"} => op = "mint" \/ From[op] \in {"safe", "gauge"})
  BY <1>1 DEF Into, From, Ops
<1>7. /\ op # "mint" => Live' \subseteq Live
      /\ op = "mint" => Live' \subseteq Live \cup {k}
  BY <1>1, <1>5, <1>6 DEF Live
<1>8. NoDouble'
  BY <1>1, <1>2, <1>7 DEF Calm, NoDouble
<1>9. Pending'
  BY <1>1 DEF Pending, NoOp
<1>10. Gauge' \cup Staking' \subseteq Gauge \cup Staking
  BY <1>1, <1>3, <1>5, <1>6 DEF Gauge, Staking, NoOp
<1>11. Vacant(cyc)'
  <2>1. About(cyc) /\ cyc.op = "mint" => \A r \in cyc.book : r.sym # cyc.sym
    BY DEF Calm, CycleOK, Vacant
  <2>2. cyc.op = "mint" /\ cyc.pc \in {"checked", "planned"} => \A u \in Live' : pool[u] # cyc.sym
    BY <1>2, <1>7 DEF Unaware, Calm, CycleOK, Vacant
  <2> QED BY <1>1, <1>4, <2>1, <2>2 DEF Vacant, About
<1>12. RowStep(cyc)' /\ Single(cyc)'
  BY <1>4 DEF Calm, CycleOK, RowStep, Single, Flying, About
<1>13. Seen(cyc)'
  <2>1. Own(cyc)' = Own(cyc) /\ Tokens(cyc.book)' = Tokens(cyc.book)
    BY <1>4 DEF Own, Flying, Tokens
  <2> QED BY <1>4, <1>10, <2>1 DEF Calm, CycleOK, Seen
<1> QED BY <1>8, <1>9, <1>11, <1>12, <1>13 DEF Calm, CycleOK

\* An evicted delivery is owed nothing.
LEMMA EvictCalm == ASSUME Calm, Evict PROVE Calm'
<1>1. pending' = NoOp /\ UNCHANGED <<custody, pool, cyc>>
  BY DEF Evict
<1>2. Pending' /\ NoDouble'
  BY <1>1 DEF Calm, Pending, NoDouble, Live, NoOp
<1>3. RowStep(cyc)' /\ Single(cyc)' /\ Vacant(cyc)'
  BY <1>1 DEF Calm, CycleOK, RowStep, Single, Vacant, Live, Flying, About
<1>4. Staking' = {} /\ Gauge' = Gauge
  BY <1>1 DEF Staking, Gauge, NoOp
<1>5. Seen(cyc)'
  BY <1>1, <1>4 DEF Calm, CycleOK, Seen, Own, Flying, Tokens
<1> QED BY <1>2, <1>3, <1>5 DEF Calm, CycleOK

\* Every step keeps the calm, if it is no lapse.
LEMMA CalmNext == ASSUME Truth, Calm, [Next]_vars, lapses' = {} PROVE Calm'
<1> cyc \in Cycle
  BY DEF Truth, Typed, TypeOK
<1>1. CASE Start \/ Scan \/ Halt \/ SaleFails \/ Save \/ Crash
  <2>1. cyc'.pc \in {"off", "scan", "heal", "save"}
    <3>1. CASE Start
      BY <3>1 DEF Start, Off
    <3>2. CASE Save \/ Crash
      <4>1. cyc' = Off
        BY <3>2 DEF Save, Crash
      <4> QED BY <4>1 DEF Off
    <3>3. CASE Scan \/ Halt \/ SaleFails
      BY <3>3 DEF Scan, Halt, SaleFails, Cycle
    <3> QED BY <1>1, <3>1, <3>2, <3>3
  <2>2. UNCHANGED chain
    BY <1>1 DEF Start, Scan, Halt, SaleFails, Save, Crash
  <2> QED BY <2>1, <2>2, Rests, StillCalm
<1>2. ASSUME NEW t \in Token, Heal(t) PROVE Calm'
  <2>1. cyc'.pc = "heal" /\ UNCHANGED chain
    BY <1>2 DEF Heal, Cycle
  <2> QED BY <2>1, Rests, StillCalm
<1>3. CASE Reconcile
  <2>1. UNCHANGED chain
    BY <1>3 DEF Reconcile
  <2> QED BY <1>3, <2>1, ReconcileCalm, StillCalm
<1>4. ASSUME NEW r \in cyc.book, Exit(r) \/ Recenter(r) \/ Restake(r) PROVE Calm'
  <2> PICK step \in {"exit", "recenter", "restake"}, op \in {"stake", "unstake", "withdraw"} :
           Choose(step, op, r.tok, r.sym)
    BY <1>4 DEF Exit, Recenter, Restake, Burning
  <2>1. Entry(r.tok, r.sym) \in cyc.book
    BY DEF Truth, Typed, TypeOK, Cycle, Row, Entry
  <2>2. op \in Ops /\ op # "mint" /\ UNCHANGED chain
    BY DEF Ops, Choose
  <2>3. CycleOK(cyc')
    BY <2>1, <2>2, ChooseCalm
  <2> QED BY <2>2, <2>3, StillCalm
<1>5. ASSUME NEW s \in Symbols, Enter(s) PROVE Calm'
  <2>1. Choose("enter", "mint", 0, s) /\ \A r \in cyc.book : r.sym # s
    BY <1>5 DEF Enter
  <2>2. "mint" \in Ops /\ UNCHANGED chain
    BY <2>1 DEF Ops, Choose
  <2>3. CycleOK(cyc')
    BY <2>1, <2>2, ChooseCalm
  <2> QED BY <2>2, <2>3, StillCalm
<1>6. CASE Check \/ PlanMint \/ ReadNonce \/ PlanStake
  <2>1. UNCHANGED chain
    BY <1>6 DEF Check, PlanMint, ReadNonce, PlanStake
  <2> QED BY <1>6, <2>1, CheckCalm, PlanCalm, StillCalm
<1>7. CASE \/ RecordSend \/ MintConfirmed \/ DecodeMint \/ UnstakeConfirmed \/ WithdrawConfirmed
           \/ StakeConfirmed
  <2>1. UNCHANGED chain
    BY <1>7 DEF RecordSend, MintConfirmed, DecodeMint, UnstakeConfirmed, WithdrawConfirmed, StakeConfirmed
  <2> QED BY <1>7, <2>1, FlyCalm, WithdrawCalm, StakeCalm, StillCalm
<1>8. CASE DryStep \/ Rehearse \/ UNCHANGED vars
  <2>1. UNCHANGED <<chain, cyc>>
    BY <1>8 DEF DryStep, DryStart, DryScan, DryHeal, DryReconcile, DrySave, Rehearse, vars
  <2> QED BY <2>1, StillCalm DEF Calm
<1> QED BY <1>1, <1>2, <1>3, <1>4, <1>5, <1>6, <1>7, <1>8, BroadcastCalm, LandCalm, EvictCalm
        DEF Next, CycleStep

RecoveryInv == Typed /\ StakePlanned /\ (Filed => Names) /\ (lapses = {} => Calm)

LEMMA RecoveryInvAlways == Spec => []RecoveryInv
<1>1. Init => RecoveryInv
  BY TypedInit, StakePlannedInit, NamesInit, CalmInit DEF RecoveryInv
<1>2. RecoveryInv /\ [Next]_vars => RecoveryInv'
  <2> SUFFICES ASSUME RecoveryInv, [Next]_vars PROVE RecoveryInv'
    OBVIOUS
  <2>1. Typed' /\ StakePlanned' /\ (Filed' => Names')
    BY TypedNext, StakePlannedNext, NamesNext, LapsesStay DEF RecoveryInv, Filed
  <2>2. lapses' = {} => Calm'
    <3> SUFFICES ASSUME lapses' = {} PROVE Calm'
      OBVIOUS
    <3>1. lapses = {} /\ Filed
      BY LapsesStay DEF Filed
    <3> QED BY <3>1, CalmNext DEF RecoveryInv, Truth
  <2> QED BY <2>1, <2>2 DEF RecoveryInv
<1> QED BY <1>1, <1>2, PTL DEF Spec

\* As long as no outcome row is misfiled, no mint slips in between the chain
\* read and the nonce read of another and no proven NFT is left out of a
\* recovery, no pool ever holds two live positions of the Safe, whatever
\* crashed, timed out, landed late or overwrote the book: the reconciliation
\* that precedes a plan, the gate of the mint, and the one Safe nonce.
THEOREM OnePositionPerPool == Spec => []OnePerPool
<1>1. RecoveryInv => OnePerPool
  BY DEF RecoveryInv, Calm, NoDouble, OnePerPool
<1> QED BY <1>1, RecoveryInvAlways, PTL
=============================================================================
