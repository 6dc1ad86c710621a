----------------------------- MODULE LpDelivery -----------------------------
(***************************************************************************)
(* Delivery of Safe transactions by the LP executor, and the posthumous    *)
(* repair of its audit evidence by the next cycle.                         *)
(*                                                                         *)
(* Several operating-system processes deliver through one Safe, one        *)
(* relaying EOA and one audit store: the scheduled live cycle and the      *)
(* manual aero-bot-lp command (both under the execution lock), the dry-run *)
(* cycle (no lock, no delivery, but it does run the repair pass) and the   *)
(* legacy hard-exit watchtower (deliveries, but no lock).  A process may   *)
(* die between any two steps.  The chain is external: a mempool ordered by *)
(* the relayer's nonce and a Safe that runs a call only at its own nonce.  *)
(***************************************************************************)
EXTENDS Integers, FiniteSets

CONSTANTS
    Proc,         \* processes
    Surface,      \* the command surfaces that run
    Action,       \* contents of an inner Safe call
    MaxNonce,     \* bound: highest Safe nonce and relayer nonce delivered
    MaxSteps,     \* bound: longest built sequence
    MaxSends,     \* bound: broadcasts in one behaviour
    NoProc,       \* the execution lock is free
    NoDelivery    \* no transaction is being delivered

AllSurfaces == {"cycle", "lp", "dry", "watch"}

\* A delivery is identified by its signed bytes: the inner call, the Safe
\* nonce it is signed for and the relayer nonce that carries it.
Delivery == [act : Action, nonce : 0..MaxNonce, rnonce : 0..MaxNonce]

ASSUME BoundAssumption == /\ MaxNonce \in Nat
                          /\ MaxSteps \in Nat \ {0}
                          /\ MaxSends \in Nat
ASSUME SurfaceAssumption == Surface \subseteq AllSurfaces
ASSUME FreshAssumption == NoProc \notin Proc /\ NoDelivery \notin Delivery

VARIABLES
    sess,         \* per process: the running command's local state
    lock,         \* owner of execution.lock, or NoProc
    journal,      \* per delivery: audit rows of each kind
    pool,         \* deliveries some node still holds unmined
    outcome,      \* per delivery: what its receipt says
    safeNonce,    \* the Safe's on-chain nonce
    relayerNonce, \* the relaying EOA's mined transaction count
    sends,        \* broadcasts so far (for the bound)
    rivals        \* history: <<q, t, crossed>>, t sent by a command that read the
                  \* chain while q of another one was still undecided; crossed
                  \* if q executed before the sequence of t read the Safe nonce

chain == <<pool, outcome, safeNonce, relayerNonce>>
vars  == <<sess, lock, journal, pool, outcome, safeNonce, relayerNonce, sends, rivals>>

Idle == [pc |-> "idle", surface |-> "none", base |-> 0, next |-> 0, last |-> 0,
         wire |-> NoDelivery, todo |-> {}, undecided |-> {}, crossed |-> {},
         done |-> {}]

PCs == {"idle", "journal", "heal", "plan", "context", "estimate", "broadcast",
        "acked", "unacked", "await"}

Session == [pc : PCs, surface : AllSurfaces \cup {"none"},
            base : 0..(MaxNonce + 1), next : 0..(MaxNonce + 1),
            last : 0..(MaxNonce + 1), wire : Delivery \cup {NoDelivery},
            todo : SUBSET Delivery, undecided : SUBSET Delivery,
            crossed : SUBSET Delivery, done : SUBSET Delivery]

RowKinds == {"sent", "unknown", "confirmed", "failed"}

Init ==
    /\ sess = [p \in Proc |-> Idle]
    /\ lock = NoProc
    /\ journal = [t \in Delivery |-> [k \in RowKinds |-> 0]]
    /\ pool = {}
    /\ outcome = [t \in Delivery |-> "none"]
    /\ safeNonce = 0
    /\ relayerNonce = 0
    /\ sends = 0
    /\ rivals = {}

-----------------------------------------------------------------------------
(* The audit journal.                                                      *)

HasSend(t)    == journal[t]["sent"] + journal[t]["unknown"] > 0
HasReceipt(t) == journal[t]["confirmed"] + journal[t]["failed"] > 0

AppendRow(t, kind) == journal' = [journal EXCEPT ![t][kind] = @ + 1]

\* The row a mined delivery's receipt earns: status one confirms, anything
\* else failed.  With safeTxGas zero a failed inner call reverts the outer
\* transaction, so status and the ExecutionSuccess event agree.
OutcomeRow(o) == IF o = "success" THEN "confirmed" ELSE "failed"

\* Send rows of either kind that no receipt row closes.
Gaps_UnknownRowsIgnored == {t \in Delivery : journal[t]["sent"] > 0 /\ ~HasReceipt(t)}
Gaps_ReceiptsIgnored    == {t \in Delivery : HasSend(t)}
Gaps == {t \in Delivery : HasSend(t) /\ ~HasReceipt(t)}

-----------------------------------------------------------------------------
(* Sessions: starting, holding the lock, leaving.                          *)

Locks(s) == s \in {"cycle", "lp"}
Heals(s) == s \in {"cycle", "dry"}

Become(p, session) == sess' = [sess EXCEPT ![p] = session]

\* A nonblocking flock: a command that finds the lock taken refuses and the
\* system is unchanged, so only the successful start is a step.
Start(p, s) ==
    /\ sess[p].pc = "idle"
    /\ s \in Surface
    /\ Locks(s) => lock = NoProc
    /\ lock' = IF Locks(s) THEN p ELSE lock
    /\ Become(p, [Idle EXCEPT !.pc = IF Heals(s) THEN "journal" ELSE "plan",
                              !.surface = s])
    /\ UNCHANGED <<journal, chain, sends, rivals>>

Leave(p) == /\ Become(p, Idle)
            /\ lock' = IF lock = p THEN NoProc ELSE lock

\* SIGTERM at the service timeout, the OOM killer, a host loss, or an audit
\* append that still fails after its last retry: the kernel drops the flock.
Crash(p) ==
    /\ sess[p].pc # "idle"
    /\ Leave(p)
    /\ UNCHANGED <<journal, chain, sends, rivals>>

-----------------------------------------------------------------------------
(* The repair pass that opens every cycle, dry runs included.              *)

\* The whole journal is read once; the pass works from this snapshot.
ReadJournal(p) ==
    /\ sess[p].pc = "journal"
    /\ Become(p, [sess[p] EXCEPT !.pc = "heal", !.todo = Gaps])
    /\ UNCHANGED <<lock, journal, chain, sends, rivals>>

HealRow_StatusUnread(p, t) ==
    /\ sess[p].pc = "heal"
    /\ t \in sess[p].todo
    /\ outcome[t] # "none"
    /\ AppendRow(t, "confirmed")
    /\ Become(p, [sess[p] EXCEPT !.todo = @ \ {t}])
    /\ UNCHANGED <<lock, chain, sends, rivals>>

HealRow(p, t) ==
    /\ sess[p].pc = "heal"
    /\ t \in sess[p].todo
    /\ outcome[t] # "none"
    /\ AppendRow(t, OutcomeRow(outcome[t]))
    /\ Become(p, [sess[p] EXCEPT !.todo = @ \ {t}])
    /\ UNCHANGED <<lock, chain, sends, rivals>>

\* No receipt yet: nothing is proven and nothing is appended.
HealUnproven(p, t) ==
    /\ sess[p].pc = "heal"
    /\ t \in sess[p].todo
    /\ outcome[t] = "none"
    /\ Become(p, [sess[p] EXCEPT !.todo = @ \ {t}])
    /\ UNCHANGED <<lock, journal, chain, sends, rivals>>

\* An unreadable receipt or a wrong chain id fails the cycle for the retry.
HealUnreadable(p) ==
    /\ sess[p].pc = "heal"
    /\ sess[p].todo # {}
    /\ Leave(p)
    /\ UNCHANGED <<journal, chain, sends, rivals>>

HealDone(p) ==
    /\ sess[p].pc = "heal"
    /\ sess[p].todo = {}
    /\ IF sess[p].surface = "dry"
       THEN Leave(p)
       ELSE /\ Become(p, [sess[p] EXCEPT !.pc = "plan"])
            /\ UNCHANGED lock
    /\ UNCHANGED <<journal, chain, sends, rivals>>

-----------------------------------------------------------------------------
(* Building and delivering one sequence of Safe transactions.              *)

\* Deliveries whose effect the chain does not show yet: pending, or signed and
\* about to be sent by another process.
Signed    == {sess[q].wire : q \in {x \in Proc : sess[x].pc = "broadcast"}}
Undecided == {t \in pool \cup Signed : outcome[t] = "none"}

\* The chain state that a command decides on: the reconciliation, the
\* position and pool reads and the plan row come before any nonce is read.
ReadState(p) ==
    /\ sess[p].pc = "plan"
    /\ sends < MaxSends
    /\ Become(p, [sess[p] EXCEPT !.pc = "context", !.undecided = Undecided])
    /\ UNCHANGED <<lock, journal, chain, sends, rivals>>

\* What the chain state did not show when it was read, executed since.
Crossed(p) == {q \in sess[p].undecided : outcome[q] = "success"}

Plan_PendingNonce(p, k) ==
    LET base == safeNonce + Cardinality({t \in pool : t.nonce = safeNonce}) IN
    /\ sess[p].pc = "context"
    /\ sends < MaxSends
    /\ base + k - 1 <= MaxNonce
    /\ Become(p, [sess[p] EXCEPT !.pc = "estimate", !.base = base, !.next = base,
                                 !.last = base + k - 1,
                                 !.crossed = Crossed(p), !.done = {}])
    /\ UNCHANGED <<lock, journal, chain, sends, rivals>>

Plan_OneStepTooMany(p, k) ==
    /\ sess[p].pc = "context"
    /\ sends < MaxSends
    /\ safeNonce + k - 1 <= MaxNonce
    /\ Become(p, [sess[p] EXCEPT !.pc = "estimate", !.base = safeNonce,
                                 !.next = safeNonce, !.last = safeNonce + k,
                                 !.crossed = Crossed(p), !.done = {}])
    /\ UNCHANGED <<lock, journal, chain, sends, rivals>>

\* The preflight reads the Safe's latest nonce, and k steps are built and
\* signed for the consecutive nonces from there.  Nothing compares the nonce
\* with the state read before it.
Plan(p, k) ==
    /\ sess[p].pc = "context"
    /\ sends < MaxSends
    /\ safeNonce + k - 1 <= MaxNonce
    /\ Become(p, [sess[p] EXCEPT !.pc = "estimate", !.base = safeNonce,
                                 !.next = safeNonce, !.last = safeNonce + k - 1,
                                 !.crossed = Crossed(p), !.done = {}])
    /\ UNCHANGED <<lock, journal, chain, sends, rivals>>

\* Nothing (more) to do, or a gate refused before anything was signed.
Finish(p) ==
    /\ sess[p].pc \in {"plan", "context"}
    /\ Leave(p)
    /\ UNCHANGED <<journal, chain, sends, rivals>>

\* Pending transaction counts the endpoint may answer: it knows some prefix
\* of the relayer's pending deliveries.
RelayerView == {r \in relayerNonce..MaxNonce :
                  \A m \in relayerNonce..(r - 1) : \E t \in pool : t.rnonce = m}

\* The fresh estimate passes only at the Safe's current nonce; the relayer's
\* nonce is read and the delivery signed.
Estimate(p, a, r) ==
    /\ sess[p].pc = "estimate"
    /\ safeNonce = sess[p].next
    /\ r \in RelayerView
    /\ sends < MaxSends
    /\ Become(p, [sess[p] EXCEPT
                     !.pc = "broadcast",
                     !.wire = [act |-> a, nonce |-> sess[p].next, rnonce |-> r]])
    /\ UNCHANGED <<lock, journal, chain, sends, rivals>>

\* The estimate reverted, or the relayer's balance is below its floor: the
\* sequence stops at the completed prefix.
Refuse(p) ==
    /\ sess[p].pc = "estimate"
    /\ Leave(p)
    /\ UNCHANGED <<journal, chain, sends, rivals>>

Put(p, response, accepted) ==
    LET t == sess[p].wire IN
    /\ sess[p].pc = "broadcast"
    /\ pool' = IF accepted THEN pool \cup {t} ELSE pool
    /\ sends' = sends + 1
    /\ rivals' = rivals \cup {<<q, t, q \in sess[p].crossed>> :
                                 q \in sess[p].undecided \ (sess[p].done \cup {t})}
    /\ Become(p, [sess[p] EXCEPT !.pc = response])
    /\ UNCHANGED <<lock, journal, outcome, safeNonce, relayerNonce>>

\* eth_sendRawTransaction answered with the hash.
BroadcastAcked(p) ==
    /\ sess[p].wire # NoDelivery
    /\ sess[p].wire.rnonce >= relayerNonce
    /\ Put(p, "acked", TRUE)

\* The answer was an error or never came; the node may have accepted it.
BroadcastUnacked(p, accepted) ==
    /\ sess[p].wire # NoDelivery
    /\ accepted => sess[p].wire.rnonce >= relayerNonce
    /\ Put(p, "unacked", accepted)

RecordSend_AckedOnly(p) ==
    /\ sess[p].pc \in {"acked", "unacked"}
    /\ IF sess[p].pc = "acked" THEN AppendRow(sess[p].wire, "sent") ELSE UNCHANGED journal
    /\ Become(p, [sess[p] EXCEPT !.pc = "await"])
    /\ UNCHANGED <<lock, chain, sends, rivals>>

\* The send record is appended after the broadcast returned.
RecordSend(p) ==
    /\ sess[p].pc \in {"acked", "unacked"}
    /\ AppendRow(sess[p].wire, IF sess[p].pc = "acked" THEN "sent" ELSE "unknown")
    /\ Become(p, [sess[p] EXCEPT !.pc = "await"])
    /\ UNCHANGED <<lock, chain, sends, rivals>>

\* No endpoint served a receipt within the bound: "unconfirmed", no row, halt.
Timeout(p) ==
    /\ sess[p].pc = "await"
    /\ Leave(p)
    /\ UNCHANGED <<journal, chain, sends, rivals>>

\* After the last step a cycle or a hard exit may build another sequence of
\* what it decided; the manual command performs one.
AfterStep(p) ==
    IF sess[p].next < sess[p].last
    THEN /\ Become(p, [sess[p] EXCEPT !.pc = "estimate", !.next = @ + 1,
                                      !.done = @ \cup {sess[p].wire},
                                      !.wire = NoDelivery])
         /\ UNCHANGED lock
    ELSE IF sess[p].surface = "lp"
    THEN Leave(p)
    ELSE /\ Become(p, [Idle EXCEPT !.pc = "context", !.surface = sess[p].surface,
                                   !.undecided = sess[p].undecided])
         /\ UNCHANGED lock

RecordReceipt_NoHalt(p) ==
    /\ sess[p].pc = "await"
    /\ outcome[sess[p].wire] # "none"
    /\ AppendRow(sess[p].wire, OutcomeRow(outcome[sess[p].wire]))
    /\ AfterStep(p)
    /\ UNCHANGED <<chain, sends, rivals>>

\* Some endpoint serves the receipt and its row is appended; the sequence
\* never proceeds past a failed delivery.
RecordReceipt(p) ==
    /\ sess[p].pc = "await"
    /\ outcome[sess[p].wire] # "none"
    /\ AppendRow(sess[p].wire, OutcomeRow(outcome[sess[p].wire]))
    /\ IF outcome[sess[p].wire] = "success" THEN AfterStep(p) ELSE Leave(p)
    /\ UNCHANGED <<chain, sends, rivals>>

-----------------------------------------------------------------------------
(* The chain (external).                                                   *)

\* The relayer's next delivery is included.  The Safe executes it only at its
\* own nonce, and only if the inner call succeeds; otherwise it reverts.
Mine(t) ==
    /\ t \in pool
    /\ t.rnonce = relayerNonce
    /\ relayerNonce' = relayerNonce + 1
    /\ pool' = {u \in pool : u.rnonce > relayerNonce}
    /\ \/ /\ t.nonce = safeNonce
          /\ safeNonce' = safeNonce + 1
          /\ outcome' = [outcome EXCEPT ![t] = "success"]
       \/ /\ outcome' = [outcome EXCEPT ![t] = "reverted"]
          /\ UNCHANGED safeNonce
    /\ UNCHANGED <<sess, lock, journal, sends, rivals>>

\* Every node forgets a pending delivery.
Evict(t) ==
    /\ t \in pool
    /\ pool' = pool \ {t}
    /\ UNCHANGED <<sess, lock, journal, outcome, safeNonce, relayerNonce, sends, rivals>>

\* Someone else spends a Safe nonce: another owner alone (relayed elsewhere),
\* or aero-bot-swap, which shares the Safe and the relayer but not the rows.
OthersExecute(relayed) ==
    /\ safeNonce <= MaxNonce
    /\ safeNonce' = safeNonce + 1
    /\ IF relayed
       THEN /\ relayerNonce <= MaxNonce
            /\ relayerNonce' = relayerNonce + 1
            /\ pool' = {u \in pool : u.rnonce > relayerNonce}
       ELSE UNCHANGED <<relayerNonce, pool>>
    /\ UNCHANGED <<sess, lock, journal, outcome, sends, rivals>>

-----------------------------------------------------------------------------

HealStep(p) == \/ \E t \in Delivery : HealRow(p, t) \/ HealUnproven(p, t)
               \/ HealUnreadable(p)
               \/ HealDone(p)

DeliverStep(p) == \/ ReadState(p)
                  \/ \E k \in 1..MaxSteps : Plan(p, k)
                  \/ Finish(p)
                  \/ \E a \in Action, r \in 0..MaxNonce : Estimate(p, a, r)
                  \/ Refuse(p)
                  \/ BroadcastAcked(p)
                  \/ \E b \in BOOLEAN : BroadcastUnacked(p, b)
                  \/ RecordSend(p)
                  \/ Timeout(p)
                  \/ RecordReceipt(p)

ProcStep(p) == ReadJournal(p) \/ HealStep(p) \/ DeliverStep(p)

ChainStep == \/ \E t \in Delivery : Mine(t) \/ Evict(t)
             \/ \E b \in BOOLEAN : OthersExecute(b)

Next == \/ \E p \in Proc : \/ \E s \in AllSurfaces : Start(p, s)
                           \/ Crash(p)
                           \/ ProcStep(p)
        \/ ChainStep

Spec == Init /\ [][Next]_vars

\* Processes keep running; the timer keeps starting cycles, and neither the
\* lock's other users, crashes nor endpoint failures hit every single one.
Fairness == \A p \in Proc :
              /\ WF_vars(ProcStep(p))
              /\ SF_vars(Start(p, "cycle"))
              /\ SF_vars(ReadJournal(p))
              /\ SF_vars(\E t \in Delivery : HealRow(p, t))

LiveSpec == Spec /\ Fairness

-----------------------------------------------------------------------------
(* Properties.                                                             *)

\* Every variable keeps its type (the rows, nonces and sessions of the code).
TypeOK ==
    /\ sess \in [Proc -> Session]
    /\ lock \in Proc \cup {NoProc}
    /\ journal \in [Delivery -> [RowKinds -> Nat]]
    /\ pool \subseteq Delivery
    /\ outcome \in [Delivery -> {"none", "success", "reverted"}]
    /\ safeNonce \in 0..(MaxNonce + 1)
    /\ relayerNonce \in 0..(MaxNonce + 1)
    /\ sends \in Nat
    /\ rivals \subseteq Delivery \X Delivery \X BOOLEAN

\* Whoever writes it, the live executor or a later repair pass, a receipt row
\* says what the chain did: lp_execute_confirmed only for an executed call,
\* lp_execute_failed only for a reverted one.
ReceiptRowsTrue ==
    \A t \in Delivery :
        /\ journal[t]["confirmed"] > 0 => outcome[t] = "success"
        /\ journal[t]["failed"] > 0 => outcome[t] = "reverted"

\* "A crashed cycle reconciles, never double-acts" (docs/cycle.md:176), as far
\* as the code keeps it: when a command reads the chain while an earlier
\* delivery is still undecided - its sender died or timed out - the two both
\* execute only if the earlier one did so between that read and the read of
\* the Safe nonce (lp_executor.py:3042, 3083).
NoDoubleAct ==
    \A r \in rivals : outcome[r[1]] = "success" /\ outcome[r[2]] = "success" => r[3]

\* "A crash can only leave a completed prefix mined" (docs/cycle.md): when a
\* step is on its way, every earlier nonce of its sequence was spent by that
\* sequence's own executed delivery.
CompletedPrefix ==
    \A p \in Proc :
        sess[p].pc \in {"estimate", "broadcast", "acked", "unacked", "await"} =>
            \A n \in sess[p].base..(sess[p].next - 1) :
                \E t \in sess[p].done : t.nonce = n /\ outcome[t] = "success"

\* An outcome row never appears without the send row it closes: the repair
\* and the digest find a delivery only through its send row.
ReceiptHasSend == \A t \in Delivery : HasReceipt(t) => HasSend(t)

\* Under the execution lock a delivery is receipted once: the live row and
\* the posthumous row are never both written.
ReceiptRowUnique ==
    \A t \in Delivery : journal[t]["confirmed"] + journal[t]["failed"] <= 1

\* Every delivery that landed and left a send record is eventually proven in
\* the journal, however its sender ended.
LandedHealed ==
    \A t \in Delivery : (HasSend(t) /\ outcome[t] # "none") ~> HasReceipt(t)

\* What the repair's docstring assumes of the executor - "one durable send
\* record before every broadcast" - in its weakest useful form: a landed
\* delivery that no live process is still working on has a send record.
LandedIsRecorded ==
    \A t \in Delivery :
        (outcome[t] # "none" /\ \A p \in Proc : sess[p].wire # t) => HasSend(t)

\* The journal and the chain implement the abstract ledger.
JournalEvidence(t) ==
    IF journal[t]["confirmed"] > 0 THEN "confirmed"
    ELSE IF journal[t]["failed"] > 0 THEN "failed"
    ELSE IF HasSend(t) THEN "sent" ELSE "none"

Ledger == INSTANCE DeliveryLedger WITH
            fate <- outcome,
            evidence <- [t \in Delivery |-> JournalEvidence(t)]

\* Every step of the processes and the chain is a step of the ledger, or
\* none: evidence moves forward only, to the outcome the chain really had.
ImplementsLedger == Ledger!SafeSpec
=============================================================================
