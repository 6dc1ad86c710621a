-------------------------- MODULE LpDeliveryProofs --------------------------
(***************************************************************************)
(* What LpDelivery guarantees for every number of processes, every mix of  *)
(* command surfaces and every bound.                                       *)
(***************************************************************************)
EXTENDS LpDelivery, TLAPS

Sequencing == {"estimate", "broadcast", "acked", "unacked", "await"}
Sending    == {"broadcast", "acked", "unacked", "await"}

WindowOK(s) == s.pc \in Sequencing =>
                  s.base <= s.next /\ s.next <= s.last /\ s.last <= MaxNonce
WireOK(s)   == s.pc \in Sending => s.wire \in Delivery /\ s.wire.nonce = s.next

\* TypeOK is not inductive: that a signed nonce stays in range follows from
\* the planned window.
TypeInv == TypeOK /\ \A p \in Proc : WindowOK(sess[p]) /\ WireOK(sess[p])

-----------------------------------------------------------------------------
(* Session updates.                                                        *)

LEMMA IdleFits == Idle \in Session /\ WindowOK(Idle) /\ WireOK(Idle)
  BY BoundAssumption
  DEF Idle, Session, PCs, AllSurfaces, WindowOK, WireOK, Sequencing, Sending

LEMMA FreshFits ==
  ASSUME NEW c \in PCs, NEW s \in AllSurfaces \cup {"none"}
  PROVE  LET f == [Idle EXCEPT !.pc = c, !.surface = s] IN
         /\ f \in Session
         /\ f.pc = c /\ f.surface = s /\ f.todo = {}
         /\ f.wire = NoDelivery
  BY IdleFits DEF Session, Idle

LEMMA BecomeFits ==
  ASSUME TypeInv, NEW p \in Proc, NEW s \in Session, WindowOK(s), WireOK(s),
         Become(p, s)
  PROVE  /\ sess' \in [Proc -> Session]
         /\ \A q \in Proc : WindowOK(sess'[q]) /\ WireOK(sess'[q])
         /\ sess'[p] = s
         /\ \A q \in Proc \ {p} : sess'[q] = sess[q]
  BY DEF Become, TypeInv, TypeOK

LEMMA LeaveFits ==
  ASSUME TypeInv, NEW p \in Proc, Leave(p)
  PROVE  /\ sess' \in [Proc -> Session]
         /\ \A q \in Proc : WindowOK(sess'[q]) /\ WireOK(sess'[q])
         /\ sess'[p] = Idle
         /\ \A q \in Proc \ {p} : sess'[q] = sess[q]
         /\ lock' \in Proc \cup {NoProc}
  BY IdleFits, BecomeFits DEF Leave, TypeInv, TypeOK

LEMMA AppendFits ==
  ASSUME journal \in [Delivery -> [RowKinds -> Nat]],
         NEW t \in Delivery, NEW k \in RowKinds, AppendRow(t, k)
  PROVE  /\ journal' \in [Delivery -> [RowKinds -> Nat]]
         /\ journal'[t][k] = journal[t][k] + 1
         /\ \A u \in Delivery, l \in RowKinds :
               (u # t \/ l # k) => journal'[u][l] = journal[u][l]
  BY DEF AppendRow

\* The session an AfterStep leaves behind, for the two actions that use it.
LEMMA AfterStepFits ==
  ASSUME TypeInv, NEW p \in Proc, sess[p].pc = "await", AfterStep(p)
  PROVE  /\ sess' \in [Proc -> Session]
         /\ \A q \in Proc : WindowOK(sess'[q]) /\ WireOK(sess'[q])
         /\ \/ /\ sess'[p].pc = "estimate"
               /\ sess'[p].base = sess[p].base
               /\ sess'[p].next = sess[p].next + 1
               /\ sess'[p].undecided = sess[p].undecided
               /\ sess'[p].done = sess[p].done \cup {sess[p].wire}
               /\ sess'[p].todo = sess[p].todo
               /\ sess'[p].crossed = sess[p].crossed
            \/ /\ sess'[p].pc \in {"idle", "context"} /\ sess'[p].todo = {}
               /\ sess'[p].undecided \subseteq sess[p].undecided
         /\ \A q \in Proc \ {p} : sess'[q] = sess[q]
         /\ lock' \in Proc \cup {NoProc}
<1> DEFINE s == sess[p]
<1> USE BoundAssumption
<1>0. s \in Session /\ WindowOK(s) /\ WireOK(s) /\ lock \in Proc \cup {NoProc}
  BY DEF TypeInv, TypeOK
<1>1. CASE s.next < s.last
  <2> DEFINE f == [s EXCEPT !.pc = "estimate", !.next = @ + 1,
                            !.done = @ \cup {s.wire}, !.wire = NoDelivery]
  <2>1. f \in Session
    <3>1. s.next + 1 \in 0..(MaxNonce + 1) /\ s.wire \in Delivery
      BY <1>0, <1>1 DEF Session, WireOK, WindowOK, Sequencing, Sending
    <3> QED BY <1>0, <3>1 DEF Session, PCs
  <2>2. /\ f.pc = "estimate" /\ f.base = s.base /\ f.next = s.next + 1
        /\ f.undecided = s.undecided /\ f.done = s.done \cup {s.wire}
        /\ f.todo = s.todo /\ f.last = s.last /\ f.crossed = s.crossed
    BY <1>0 DEF Session
  <2>4. WindowOK(f) /\ WireOK(f)
    <3> HIDE DEF f
    <3> QED BY <1>0, <1>1, <2>2 DEF Session, WindowOK, WireOK, Sequencing, Sending
  <2>3. Become(p, f) /\ lock' = lock
    BY <1>1 DEF AfterStep
  <2> HIDE DEF f
  <2> QED BY <1>0, <2>1, <2>2, <2>3, <2>4, BecomeFits
<1>2. CASE ~(s.next < s.last) /\ s.surface = "lp"
  BY <1>2, LeaveFits DEF AfterStep, Idle
<1>3. CASE ~(s.next < s.last) /\ s.surface # "lp"
  <2> DEFINE g == [Idle EXCEPT !.pc = "context", !.surface = s.surface]
             f == [g EXCEPT !.undecided = s.undecided]
  <2>0. g \in Session /\ g.pc = "context" /\ g.todo = {}
    <3>1. s.surface \in AllSurfaces \cup {"none"} /\ "context" \in PCs
      BY <1>0 DEF Session, PCs
    <3> QED BY <3>1, FreshFits
  <2>4. f = [Idle EXCEPT !.pc = "context", !.surface = s.surface, !.undecided = s.undecided]
    BY DEF Idle
  <2> HIDE DEF g
  <2>1. f \in Session /\ f.pc = "context" /\ f.todo = {} /\ f.undecided = s.undecided
    BY <1>0, <2>0 DEF Session
  <2>2. WindowOK(f) /\ WireOK(f)
    BY <2>1 DEF WindowOK, WireOK, Sequencing, Sending
  <2>3. Become(p, f) /\ lock' = lock
    BY <1>3, <2>4 DEF AfterStep
  <2> HIDE DEF f
  <2> QED BY <1>0, <2>1, <2>2, <2>3, BecomeFits
<1> QED BY <1>1, <1>2, <1>3

-----------------------------------------------------------------------------
(* Type correctness.                                                       *)

LEMMA TypeInit == Init => TypeInv
  BY IdleFits, BoundAssumption DEF Init, TypeInv, TypeOK, RowKinds

\* The six ways a session step changes nothing but the session and the lock.
SessionOnly == UNCHANGED <<journal, chain, sends, rivals>>

LEMMA SessionOnlyFits ==
  ASSUME TypeInv, SessionOnly,
         sess' \in [Proc -> Session], lock' \in Proc \cup {NoProc},
         \A q \in Proc : WindowOK(sess'[q]) /\ WireOK(sess'[q])
  PROVE  TypeInv'
  BY DEF TypeInv, TypeOK, SessionOnly, chain

LEMMA TypeStep == TypeInv /\ [Next]_vars => TypeInv'
<1> SUFFICES ASSUME TypeInv, [Next]_vars PROVE TypeInv'
  OBVIOUS
<1> USE BoundAssumption
<1>lock. lock \in Proc \cup {NoProc}
  BY DEF TypeInv, TypeOK
<1>sess. \A p \in Proc : sess[p] \in Session /\ WindowOK(sess[p]) /\ WireOK(sess[p])
  BY DEF TypeInv, TypeOK
<1>1. ASSUME NEW p \in Proc, NEW s \in AllSurfaces, Start(p, s)
      PROVE  TypeInv'
  <2> DEFINE c == IF Heals(s) THEN "journal" ELSE "plan"
             f == [Idle EXCEPT !.pc = c, !.surface = s]
  <2>1. c \in PCs /\ c \notin Sequencing /\ c \notin Sending
    BY DEF PCs, Sequencing, Sending
  <2> HIDE DEF c
  <2>2. f \in Session /\ f.pc = c
    BY <2>1, FreshFits
  <2>3. WindowOK(f) /\ WireOK(f)
    BY <2>1, <2>2 DEF WindowOK, WireOK
  <2>4. Become(p, f) /\ lock' \in Proc \cup {NoProc} /\ SessionOnly
    BY <1>1, <1>lock DEF Start, c, SessionOnly
  <2> HIDE DEF f
  <2> QED BY <2>2, <2>3, <2>4, BecomeFits, SessionOnlyFits
<1>2. ASSUME NEW p \in Proc, Leave(p), SessionOnly
      PROVE  TypeInv'
  BY <1>2, LeaveFits, SessionOnlyFits
<1>3. ASSUME NEW p \in Proc, ReadJournal(p)
      PROVE  TypeInv'
  <2> DEFINE f == [sess[p] EXCEPT !.pc = "heal", !.todo = Gaps]
  <2>1. f \in Session /\ f.pc = "heal"
    BY <1>sess DEF Session, PCs, Gaps
  <2>2. Become(p, f) /\ lock' = lock /\ SessionOnly
    BY <1>3 DEF ReadJournal, SessionOnly
  <2> HIDE DEF f
  <2>3. WindowOK(f) /\ WireOK(f)
    BY <2>1 DEF WindowOK, WireOK, Sequencing, Sending
  <2> QED BY <1>lock, <2>1, <2>2, <2>3, BecomeFits, SessionOnlyFits
<1>4. ASSUME NEW p \in Proc, NEW t \in Delivery, HealRow(p, t) \/ HealUnproven(p, t)
      PROVE  TypeInv'
  <2> DEFINE f == [sess[p] EXCEPT !.todo = @ \ {t}]
  <2>1. f \in Session /\ f.pc = "heal"
    BY <1>4, <1>sess DEF Session, HealRow, HealUnproven
  <2>2. Become(p, f) /\ lock' = lock /\ UNCHANGED <<chain, sends, rivals>>
    BY <1>4 DEF HealRow, HealUnproven
  <2> HIDE DEF f
  <2>3. WindowOK(f) /\ WireOK(f)
    BY <2>1 DEF WindowOK, WireOK, Sequencing, Sending
  <2>4. /\ sess' \in [Proc -> Session]
        /\ \A q \in Proc : WindowOK(sess'[q]) /\ WireOK(sess'[q])
    BY <2>1, <2>2, <2>3, BecomeFits
  <2>5. journal' \in [Delivery -> [RowKinds -> Nat]]
    <3>1. CASE HealRow(p, t)
      <4>1. OutcomeRow(outcome[t]) \in RowKinds
        BY DEF OutcomeRow, RowKinds
      <4> QED BY <3>1, <4>1, AppendFits DEF HealRow, TypeInv, TypeOK
    <3>2. CASE HealUnproven(p, t)
      BY <3>2 DEF HealUnproven, TypeInv, TypeOK
    <3> QED BY <1>4, <3>1, <3>2
  <2> QED BY <1>lock, <2>2, <2>4, <2>5 DEF TypeInv, TypeOK, chain
<1>5. ASSUME NEW p \in Proc, HealDone(p)
      PROVE  TypeInv'
  <2>1. CASE Leave(p)
    BY <1>2, <1>5, <2>1 DEF HealDone, SessionOnly
  <2>2. CASE Become(p, [sess[p] EXCEPT !.pc = "plan"]) /\ lock' = lock
    <3> DEFINE f == [sess[p] EXCEPT !.pc = "plan"]
    <3>1. f \in Session /\ f.pc = "plan"
      BY <1>sess DEF Session, PCs
    <3>2. Become(p, f)
      BY <2>2
    <3> HIDE DEF f
    <3>3. WindowOK(f) /\ WireOK(f)
      BY <3>1 DEF WindowOK, WireOK, Sequencing, Sending
    <3>4. SessionOnly
      BY <1>5 DEF HealDone, SessionOnly
    <3> QED BY <1>lock, <2>2, <3>1, <3>2, <3>3, <3>4, BecomeFits, SessionOnlyFits
  <2> QED BY <1>5, <2>1, <2>2 DEF HealDone
<1>6. ASSUME NEW p \in Proc, NEW k \in 1..MaxSteps, Plan(p, k)
      PROVE  TypeInv'
  <2> DEFINE f == [sess[p] EXCEPT !.pc = "estimate", !.base = safeNonce,
                                  !.next = safeNonce, !.last = safeNonce + k - 1,
                                  !.crossed = Crossed(p), !.done = {}]
  <2>1. /\ safeNonce \in 0..(MaxNonce + 1) /\ safeNonce + k - 1 \in 0..(MaxNonce + 1)
        /\ safeNonce + k - 1 <= MaxNonce /\ safeNonce <= safeNonce + k - 1
    BY <1>6 DEF Plan, TypeInv, TypeOK
  <2>2. Crossed(p) \in SUBSET Delivery
    BY <1>sess DEF Crossed, Session
  <2>3. f \in Session
    <3> DEFINE last == safeNonce + k - 1
               c == Crossed(p)
    <3>1. /\ last \in 0..(MaxNonce + 1) /\ c \in SUBSET Delivery /\ sess[p] \in Session
          /\ safeNonce \in 0..(MaxNonce + 1) /\ "estimate" \in PCs
      BY <1>sess, <2>1, <2>2 DEF PCs
    <3> HIDE DEF last, c
    <3>2. [sess[p] EXCEPT !.pc = "estimate", !.base = safeNonce, !.next = safeNonce,
                          !.last = last, !.crossed = c, !.done = {}] \in Session
      BY <3>1 DEF Session
    <3> QED BY <3>2 DEF last, c
  <2>4. f.pc = "estimate" /\ f.base = safeNonce /\ f.next = safeNonce
        /\ f.last = safeNonce + k - 1
    BY <1>sess DEF Session
  <2>5. Become(p, f) /\ lock' = lock /\ SessionOnly
    BY <1>6 DEF Plan, SessionOnly
  <2> HIDE DEF f
  <2>6. WindowOK(f) /\ WireOK(f)
    BY <2>1, <2>4 DEF WindowOK, WireOK, Sequencing, Sending
  <2> QED BY <1>lock, <2>3, <2>5, <2>6, BecomeFits, SessionOnlyFits
<1>17. ASSUME NEW p \in Proc, ReadState(p)
       PROVE  TypeInv'
  <2> DEFINE f == [sess[p] EXCEPT !.pc = "context", !.undecided = Undecided]
  <2>1. Undecided \in SUBSET Delivery
    <3>1. pool \subseteq Delivery
      BY DEF TypeInv, TypeOK
    <3>2. Signed \subseteq Delivery
      BY <1>sess DEF Signed, WireOK, Sending
    <3> QED BY <3>1, <3>2 DEF Undecided
  <2>2. f \in Session /\ f.pc = "context"
    BY <1>sess, <2>1 DEF Session, PCs
  <2>3. Become(p, f) /\ lock' = lock /\ SessionOnly
    BY <1>17 DEF ReadState, SessionOnly
  <2> HIDE DEF f
  <2>4. WindowOK(f) /\ WireOK(f)
    BY <2>2 DEF WindowOK, WireOK, Sequencing, Sending
  <2> QED BY <1>lock, <2>2, <2>3, <2>4, BecomeFits, SessionOnlyFits
<1>7. ASSUME NEW p \in Proc, NEW a \in Action, NEW r \in 0..MaxNonce, Estimate(p, a, r)
      PROVE  TypeInv'
  <2> DEFINE w == [act |-> a, nonce |-> sess[p].next, rnonce |-> r]
             f == [sess[p] EXCEPT !.pc = "broadcast", !.wire = w]
  <2>1. w \in Delivery /\ w.nonce = sess[p].next
    BY <1>7, <1>sess DEF Estimate, Delivery, Session, WindowOK, Sequencing
  <2>2. Become(p, f) /\ lock' = lock /\ SessionOnly
    BY <1>7 DEF Estimate, SessionOnly
  <2> HIDE DEF w
  <2>3. f \in Session
    <3>1. sess[p] \in Session /\ w \in Delivery \cup {NoDelivery} /\ "broadcast" \in PCs
      BY <1>sess, <2>1 DEF PCs
    <3> QED BY <3>1 DEF Session
  <2>4. /\ f.pc = "broadcast" /\ f.base = sess[p].base /\ f.next = sess[p].next
        /\ f.last = sess[p].last /\ f.wire = w
    BY <1>sess DEF Session
  <2> HIDE DEF f
  <2>5. WindowOK(f) /\ WireOK(f)
    BY <1>7, <1>sess, <2>1, <2>4 DEF Estimate, WindowOK, WireOK, Sequencing, Sending
  <2> QED BY <1>lock, <2>2, <2>3, <2>5, BecomeFits, SessionOnlyFits
<1>8. ASSUME NEW p \in Proc, NEW c \in {"acked", "unacked"}, NEW b \in BOOLEAN,
             sess[p].wire # NoDelivery, Put(p, c, b)
      PROVE  TypeInv'
  <2> DEFINE f == [sess[p] EXCEPT !.pc = c]
  <2>1. f \in Session
    BY <1>sess DEF Session, PCs
  <2>2. f.pc = c /\ f.base = sess[p].base /\ f.next = sess[p].next
        /\ f.last = sess[p].last /\ f.wire = sess[p].wire
    BY <1>sess DEF Session
  <2>3. Become(p, f) /\ sess[p].pc = "broadcast"
    BY <1>8 DEF Put
  <2> HIDE DEF f
  <2>4. WindowOK(f) /\ WireOK(f)
    BY <1>sess, <2>2, <2>3 DEF WindowOK, WireOK, Sequencing, Sending
  <2>5. /\ sess' \in [Proc -> Session]
        /\ \A q \in Proc : WindowOK(sess'[q]) /\ WireOK(sess'[q])
    BY <2>1, <2>3, <2>4, BecomeFits
  <2>6. sess[p].wire \in Delivery /\ sess[p].undecided \subseteq Delivery
    BY <1>sess, <2>3 DEF WireOK, Sending, Session
  <2>7. pool' \subseteq Delivery
    BY <1>8, <2>6 DEF Put, TypeInv, TypeOK
  <2>8. rivals' \subseteq Delivery \X Delivery \X BOOLEAN
    <3>1. rivals \subseteq Delivery \X Delivery \X BOOLEAN
      BY DEF TypeInv, TypeOK
    <3>2. ASSUME NEW q \in Delivery
          PROVE  <<q, sess[p].wire, q \in sess[p].crossed>> \in Delivery \X Delivery \X BOOLEAN
      <4> DEFINE x == q \in sess[p].crossed
      <4>1. x \in BOOLEAN
        OBVIOUS
      <4> HIDE DEF x
      <4>2. <<q, sess[p].wire, x>> \in Delivery \X Delivery \X BOOLEAN
        BY <2>6, <4>1
      <4> QED BY <4>2 DEF x
    <3> QED BY <1>8, <2>6, <3>1, <3>2 DEF Put
  <2>9. sends' \in Nat
    BY <1>8 DEF Put, TypeInv, TypeOK
  <2> QED BY <1>8, <2>5, <2>7, <2>8, <2>9 DEF Put, TypeInv, TypeOK
<1>9. ASSUME NEW p \in Proc, RecordSend(p)
      PROVE  TypeInv'
  <2> DEFINE f == [sess[p] EXCEPT !.pc = "await"]
             k == IF sess[p].pc = "acked" THEN "sent" ELSE "unknown"
  <2>1. f \in Session
    BY <1>sess DEF Session, PCs
  <2>2. f.pc = "await" /\ f.base = sess[p].base /\ f.next = sess[p].next
        /\ f.last = sess[p].last /\ f.wire = sess[p].wire
    BY <1>sess DEF Session
  <2>3. Become(p, f) /\ sess[p].pc \in {"acked", "unacked"}
    BY <1>9 DEF RecordSend
  <2> HIDE DEF f
  <2>4. WindowOK(f) /\ WireOK(f)
    BY <1>sess, <2>2, <2>3 DEF WindowOK, WireOK, Sequencing, Sending
  <2>5. /\ sess' \in [Proc -> Session]
        /\ \A q \in Proc : WindowOK(sess'[q]) /\ WireOK(sess'[q])
    BY <2>1, <2>3, <2>4, BecomeFits
  <2>6. sess[p].wire \in Delivery /\ k \in RowKinds
    BY <1>sess, <2>3 DEF WireOK, Sending, RowKinds
  <2>7. journal' \in [Delivery -> [RowKinds -> Nat]]
    BY <1>9, <2>6, AppendFits DEF RecordSend, TypeInv, TypeOK
  <2> QED BY <1>9, <2>5, <2>7 DEF RecordSend, TypeInv, TypeOK, chain
<1>10. ASSUME NEW p \in Proc, RecordReceipt(p)
       PROVE  TypeInv'
  <2>1. sess[p].wire \in Delivery
    BY <1>10, <1>sess DEF RecordReceipt, WireOK, Sending
  <2>2. OutcomeRow(outcome[sess[p].wire]) \in RowKinds
    BY DEF OutcomeRow, RowKinds
  <2>3. journal' \in [Delivery -> [RowKinds -> Nat]]
    BY <1>10, <2>1, <2>2, AppendFits DEF RecordReceipt, TypeInv, TypeOK
  <2>4. /\ sess' \in [Proc -> Session] /\ lock' \in Proc \cup {NoProc}
        /\ \A q \in Proc : WindowOK(sess'[q]) /\ WireOK(sess'[q])
    BY <1>10, LeaveFits, AfterStepFits DEF RecordReceipt
  <2> QED BY <1>10, <2>3, <2>4 DEF RecordReceipt, TypeInv, TypeOK, chain
<1>11. ASSUME NEW t \in Delivery, Mine(t)
       PROVE  TypeInv'
  <2>1. t.nonce \in 0..MaxNonce /\ t.rnonce \in 0..MaxNonce
    BY DEF Delivery
  <2> QED BY <1>11, <2>1 DEF Mine, TypeInv, TypeOK
<1>12. ASSUME NEW t \in Delivery, Evict(t)
       PROVE  TypeInv'
  BY <1>12 DEF Evict, TypeInv, TypeOK
<1>13. ASSUME NEW b \in BOOLEAN, OthersExecute(b)
       PROVE  TypeInv'
  BY <1>13 DEF OthersExecute, TypeInv, TypeOK
<1>14. CASE UNCHANGED vars
  BY <1>14 DEF vars, TypeInv, TypeOK
<1>15. ASSUME NEW p \in Proc, Crash(p) \/ HealUnreadable(p) \/ Finish(p)
                              \/ Refuse(p) \/ Timeout(p)
       PROVE  TypeInv'
  BY <1>2, <1>15 DEF Crash, HealUnreadable, Finish, Refuse, Timeout, SessionOnly
<1>16. ASSUME NEW p \in Proc, BroadcastAcked(p) \/ \E b \in BOOLEAN : BroadcastUnacked(p, b)
       PROVE  TypeInv'
  BY <1>8, <1>16 DEF BroadcastAcked, BroadcastUnacked
<1> QED
  BY <1>1, <1>3, <1>4, <1>5, <1>6, <1>7, <1>9, <1>10, <1>11, <1>12, <1>13, <1>14,
     <1>15, <1>16, <1>17 DEF Next, ProcStep, HealStep, DeliverStep, ChainStep

\* Sessions, rows, nonces and the mempool keep their types: in particular no
\* signed nonce ever leaves the window its plan was built for.
THEOREM TypeCorrect == Spec => []TypeOK
<1>1. TypeInv => TypeOK
  BY DEF TypeInv
<1> QED BY <1>1, TypeInit, TypeStep, PTL DEF Spec

-----------------------------------------------------------------------------
(* The inductive invariant behind the safety theorems.                     *)

Dead(q) == q.nonce < safeNonce /\ outcome[q] # "success"

\* The chain's own bookkeeping: decided deliveries are behind both nonces, no
\* pooled one is decided, and a Safe nonce is spent at most once.
ChainInv ==
    /\ \A t \in Delivery : outcome[t] # "none" => t.rnonce < relayerNonce
    /\ \A t \in pool : t.rnonce >= relayerNonce /\ t.nonce <= safeNonce
    /\ \A t \in Delivery : outcome[t] = "success" => t.nonce < safeNonce
    /\ \A t, u \in Delivery :
          outcome[t] = "success" /\ outcome[u] = "success" /\ t.nonce = u.nonce => t = u

\* Whatever was undecided when a command read the chain was signed for a nonce
\* the Safe has reached.  A sequence under way: its nonces are not ahead of the
\* Safe's, the completed prefix is its own, and what was undecided competes for
\* its first nonce, can never execute again, or has executed meanwhile.
Prefix(s) ==
    \A n \in s.base..(s.next - 1) : \E t \in s.done : t.nonce = n /\ outcome[t] = "success"

PlanOK(s) ==
    /\ \A q \in s.undecided : q.nonce <= safeNonce
    /\ s.pc \in Sequencing =>
        /\ s.base <= safeNonce
        /\ s.pc \in Sending => s.next <= safeNonce
        /\ \A q \in s.undecided : q.nonce = s.base \/ Dead(q) \/ q \in s.crossed
        /\ Prefix(s)

RivalInv == \A r \in rivals : \/ Dead(r[1])
                              \/ r[1] # r[2] /\ r[1].nonce = r[2].nonce
                              \/ r[3]

JournalInv ==
    /\ ReceiptRowsTrue
    /\ ReceiptHasSend
    /\ \A p \in Proc : /\ \A t \in sess[p].todo : HasSend(t)
                       /\ sess[p].pc = "await" => HasSend(sess[p].wire)

DeliverInv == /\ TypeInv
              /\ ChainInv
              /\ \A p \in Proc : PlanOK(sess[p])
              /\ RivalInv
              /\ JournalInv

\* A broadcast, as the chain sees it.
Broadcast(p) == \E c \in {"acked", "unacked"}, b \in BOOLEAN :
                   /\ sess[p].wire # NoDelivery
                   /\ b => sess[p].wire.rnonce >= relayerNonce
                   /\ Put(p, c, b)

\* Every step is the chain's, a broadcast, or leaves chain and rivals alone.
LEMMA StepShape ==
  ASSUME [Next]_vars
  PROVE  \/ \E t \in Delivery : Mine(t) \/ Evict(t)
         \/ \E b \in BOOLEAN : OthersExecute(b)
         \/ \E p \in Proc : Broadcast(p)
         \/ UNCHANGED <<chain, rivals>>
<1>1. ASSUME NEW p \in Proc, BroadcastAcked(p) \/ \E b \in BOOLEAN : BroadcastUnacked(p, b)
      PROVE  Broadcast(p)
  BY <1>1 DEF BroadcastAcked, BroadcastUnacked, Broadcast
<1>2. ASSUME NEW p \in Proc, HealStep(p) \/ ReadJournal(p) \/ Crash(p)
                             \/ \E s \in AllSurfaces : Start(p, s)
      PROVE  UNCHANGED <<chain, rivals>>
  BY <1>2 DEF HealStep, ReadJournal, Crash, Start, HealRow, HealUnproven,
              HealUnreadable, HealDone
<1>3. ASSUME NEW p \in Proc, DeliverStep(p)
      PROVE  Broadcast(p) \/ UNCHANGED <<chain, rivals>>
  BY <1>1, <1>3 DEF DeliverStep, ReadState, Plan, Finish, Estimate, Refuse, RecordSend,
                    Timeout, RecordReceipt
<1>4. CASE UNCHANGED vars
  BY <1>4 DEF vars, chain
<1> QED BY <1>2, <1>3, <1>4 DEF Next, ProcStep, ChainStep

LEMMA ChainMoves ==
  ASSUME DeliverInv, [Next]_vars
  PROVE  /\ safeNonce \in Nat /\ safeNonce' \in Nat /\ safeNonce' >= safeNonce
         /\ \A t \in Delivery : outcome[t] # "none" => outcome'[t] = outcome[t]
         /\ \A q \in Delivery : Dead(q) => Dead(q)'
<1> USE BoundAssumption
<1>0. /\ safeNonce \in Nat /\ outcome \in [Delivery -> {"none", "success", "reverted"}]
      /\ pool \subseteq Delivery
      /\ \A t \in Delivery : t.nonce \in Nat /\ t.rnonce \in Nat
      /\ relayerNonce \in Nat
      /\ ChainInv
  BY DEF DeliverInv, TypeInv, TypeOK, Delivery
<1>1. ASSUME NEW t \in Delivery, Mine(t)
      PROVE  /\ safeNonce' \in Nat /\ safeNonce' >= safeNonce
             /\ \A u \in Delivery : outcome[u] # "none" => outcome'[u] = outcome[u]
             /\ \A q \in Delivery : Dead(q) => Dead(q)'
  BY <1>0, <1>1 DEF Mine, ChainInv, Dead
<1>2. ASSUME NEW b \in BOOLEAN, OthersExecute(b)
      PROVE  /\ safeNonce' = safeNonce + 1 /\ outcome' = outcome
             /\ \A q \in Delivery : Dead(q) => Dead(q)'
  BY <1>0, <1>2 DEF OthersExecute, Dead
<1>3. ASSUME \/ \E t \in Delivery : Evict(t)
             \/ \E p \in Proc : Broadcast(p)
             \/ UNCHANGED <<chain, rivals>>
      PROVE  safeNonce' = safeNonce /\ outcome' = outcome
  BY <1>3 DEF Evict, Broadcast, Put, chain
<1> QED BY <1>0, <1>1, <1>2, <1>3, StepShape DEF Dead

LEMMA ChainInvStep ==
  ASSUME DeliverInv, [Next]_vars
  PROVE  ChainInv'
<1> USE BoundAssumption
<1>0. /\ safeNonce \in Nat /\ outcome \in [Delivery -> {"none", "success", "reverted"}]
      /\ pool \subseteq Delivery
      /\ \A t \in Delivery : t.nonce \in Nat /\ t.rnonce \in Nat
      /\ relayerNonce \in Nat
      /\ ChainInv
  BY DEF DeliverInv, TypeInv, TypeOK, Delivery
<1>1. ASSUME NEW t \in Delivery, Mine(t)
      PROVE  ChainInv'
  <2>1. CASE outcome' = [outcome EXCEPT ![t] = "success"] /\ safeNonce' = safeNonce + 1
                          /\ t.nonce = safeNonce
    BY <1>0, <1>1, <2>1 DEF Mine, ChainInv
  <2>2. CASE outcome' = [outcome EXCEPT ![t] = "reverted"] /\ safeNonce' = safeNonce
    BY <1>0, <1>1, <2>2 DEF Mine, ChainInv
  <2> QED BY <1>1, <2>1, <2>2 DEF Mine
<1>2. ASSUME NEW t \in Delivery, Evict(t)
      PROVE  ChainInv'
  BY <1>0, <1>2 DEF Evict, ChainInv
<1>3. ASSUME NEW b \in BOOLEAN, OthersExecute(b)
      PROVE  ChainInv'
  BY <1>0, <1>3 DEF OthersExecute, ChainInv
<1>4. ASSUME NEW p \in Proc, Broadcast(p)
      PROVE  ChainInv'
  <2>1. sess[p].pc = "broadcast" /\ PlanOK(sess[p]) /\ WireOK(sess[p])
    BY <1>4 DEF Broadcast, Put, DeliverInv, TypeInv
  <2>2. sess[p].wire \in Delivery /\ sess[p].wire.nonce <= safeNonce
    BY <2>1 DEF PlanOK, WireOK, Sending, Sequencing
  <2> QED BY <1>0, <1>4, <2>2 DEF Broadcast, Put, ChainInv
<1>5. CASE UNCHANGED <<chain, rivals>>
  BY <1>0, <1>5 DEF chain, ChainInv
<1> QED BY <1>1, <1>2, <1>3, <1>4, <1>5, StepShape

-----------------------------------------------------------------------------
(* Sequences under way.                                                    *)

\* What a command found undecided stays behind the Safe's nonce.
LEMMA BehindKept ==
  ASSUME DeliverInv, [Next]_vars, NEW p \in Proc, sess'[p].undecided \subseteq sess[p].undecided
  PROVE  \A q \in sess'[p].undecided : q.nonce <= safeNonce'
<1>1. /\ sess[p] \in Session /\ \A q \in sess[p].undecided : q.nonce <= safeNonce
      /\ safeNonce \in Nat /\ safeNonce' \in Nat /\ safeNonce' >= safeNonce
  BY ChainMoves DEF DeliverInv, TypeInv, TypeOK, PlanOK
<1>2. \A q \in sess[p].undecided : q.nonce \in Nat
  BY <1>1, BoundAssumption DEF Session, Delivery
<1> QED BY <1>1, <1>2

\* A session whose plan fields do not change keeps its plan's facts: the
\* chain only moves towards them.
LEMMA PlanKept ==
  ASSUME DeliverInv, [Next]_vars, NEW p \in Proc,
         sess[p].pc \in Sequencing,
         sess'[p].base = sess[p].base, sess'[p].next = sess[p].next,
         sess'[p].undecided = sess[p].undecided, sess'[p].done = sess[p].done,
         sess'[p].crossed = sess[p].crossed,
         sess'[p].pc \in Sending => sess[p].next <= safeNonce
  PROVE  PlanOK(sess[p])'
<1>1. /\ sess[p] \in Session /\ PlanOK(sess[p])
      /\ safeNonce \in Nat /\ safeNonce' \in Nat /\ safeNonce' >= safeNonce
      /\ \A t \in Delivery : outcome[t] # "none" => outcome'[t] = outcome[t]
      /\ \A q \in Delivery : Dead(q) => Dead(q)'
  BY ChainMoves DEF DeliverInv, TypeInv, TypeOK
<1>2. /\ sess[p].base \in Int /\ sess[p].next \in Int
      /\ sess[p].undecided \subseteq Delivery /\ sess[p].done \subseteq Delivery
  BY <1>1 DEF Session
<1>3. Prefix(sess[p])'
  BY <1>1, <1>2 DEF PlanOK, Prefix
<1>4. \A q \in sess'[p].undecided : q.nonce = sess'[p].base \/ Dead(q)' \/ q \in sess'[p].crossed
  BY <1>1, <1>2 DEF PlanOK
<1>5. \A q \in sess'[p].undecided : q.nonce <= safeNonce'
  BY BehindKept
<1>6. sess'[p].base <= safeNonce' /\ (sess'[p].pc \in Sending => sess'[p].next <= safeNonce')
  BY <1>1, <1>2 DEF PlanOK
<1> QED BY <1>3, <1>4, <1>5, <1>6 DEF PlanOK

LEMMA NotSequencing ==
  ASSUME DeliverInv, [Next]_vars, NEW p \in Proc, sess'[p].pc \notin Sequencing,
         sess'[p].undecided \subseteq sess[p].undecided
  PROVE  PlanOK(sess[p])'
  BY BehindKept DEF PlanOK

LEMMA PlanFrame ==
  ASSUME DeliverInv, [Next]_vars, NEW p \in Proc, sess'[p] = sess[p]
  PROVE  PlanOK(sess[p])'
<1>1. CASE sess[p].pc \in Sequencing
  <2>1. sess'[p].pc \in Sending => sess[p].next <= safeNonce
    BY <1>1 DEF DeliverInv, PlanOK
  <2> QED BY <1>1, <2>1, PlanKept
<1>2. CASE sess[p].pc \notin Sequencing
  BY <1>2, NotSequencing
<1> QED BY <1>1, <1>2

\* The chain state is read: what it does not show yet was signed for a nonce
\* the Safe has reached.
LEMMA StateRead ==
  ASSUME DeliverInv, [Next]_vars, NEW p \in Proc, ReadState(p)
  PROVE  PlanOK(sess[p])'
<1>1. sess \in [Proc -> Session] /\ sess[p] \in Session
  BY DEF DeliverInv, TypeInv, TypeOK
<1>2. sess'[p].pc = "context" /\ sess'[p].undecided = Undecided /\ UNCHANGED chain
  BY <1>1 DEF ReadState, Become, Session
<1>3. safeNonce \in Nat /\ pool \subseteq Delivery
  BY DEF DeliverInv, TypeInv, TypeOK
<1>4. ASSUME NEW q \in Undecided
      PROVE  q.nonce <= safeNonce
  <2>1. CASE q \in pool
    BY <1>3, <2>1 DEF DeliverInv, ChainInv
  <2>2. CASE q \in Signed
    <3>1. PICK x \in Proc : sess[x].pc = "broadcast" /\ q = sess[x].wire
      BY <2>2 DEF Signed
    <3>2. PlanOK(sess[x]) /\ WireOK(sess[x])
      BY DEF DeliverInv, TypeInv
    <3> QED BY <3>1, <3>2 DEF PlanOK, WireOK, Sequencing, Sending
  <2> QED BY <1>4, <2>1, <2>2 DEF Undecided
<1> QED BY <1>2, <1>4 DEF PlanOK, chain, Sequencing

LEMMA PlanNew ==
  ASSUME DeliverInv, [Next]_vars, NEW p \in Proc, NEW k \in 1..MaxSteps, Plan(p, k)
  PROVE  PlanOK(sess[p])'
<1>1. sess \in [Proc -> Session] /\ sess[p] \in Session
  BY DEF DeliverInv, TypeInv, TypeOK
<1>2. /\ sess'[p].pc = "estimate" /\ sess'[p].base = safeNonce
      /\ sess'[p].next = safeNonce /\ sess'[p].undecided = sess[p].undecided
      /\ sess'[p].crossed = Crossed(p) /\ UNCHANGED chain
  BY <1>1 DEF Plan, Become, Session
<1>3. safeNonce \in Nat
  BY DEF DeliverInv, TypeInv, TypeOK
<1>4. Prefix(sess[p])'
  BY <1>2, <1>3 DEF Prefix
<1>5. ASSUME NEW q \in sess[p].undecided
      PROVE  q.nonce = safeNonce \/ Dead(q) \/ q \in Crossed(p)
  <2>1. q.nonce \in Nat /\ q.nonce <= safeNonce
    BY <1>1, <1>5, BoundAssumption DEF DeliverInv, PlanOK, Session, Delivery
  <2>2. outcome[q] = "success" => q \in Crossed(p)
    BY <1>5 DEF Crossed
  <2> QED BY <1>3, <2>1, <2>2 DEF Dead
<1>6. \A q \in sess'[p].undecided : q.nonce = sess'[p].base \/ Dead(q)' \/ q \in sess'[p].crossed
  BY <1>2, <1>5 DEF Dead, chain
<1>7. \A q \in sess'[p].undecided : q.nonce <= safeNonce'
  BY <1>2, BehindKept
<1> QED BY <1>2, <1>3, <1>4, <1>6, <1>7 DEF PlanOK, chain, Sending

LEMMA PlanAdvance ==
  ASSUME DeliverInv, [Next]_vars, NEW p \in Proc, RecordReceipt(p)
  PROVE  PlanOK(sess[p])'
<1>1. CASE Leave(p)
  BY <1>1, LeaveFits, NotSequencing DEF DeliverInv, Idle, Sequencing
<1>2. CASE AfterStep(p) /\ outcome[sess[p].wire] = "success"
  <2>0. /\ sess[p].pc = "await" /\ UNCHANGED chain
        /\ sess[p] \in Session /\ PlanOK(sess[p]) /\ WireOK(sess[p]) /\ TypeInv
        /\ safeNonce \in Nat
    BY DEF RecordReceipt, DeliverInv, TypeInv, TypeOK
  <2>1. CASE sess'[p].pc \in {"idle", "context"} /\ sess'[p].undecided \subseteq sess[p].undecided
    BY <2>1, NotSequencing DEF Sequencing
  <2>2. CASE /\ sess'[p].pc = "estimate"
             /\ sess'[p].base = sess[p].base
             /\ sess'[p].next = sess[p].next + 1
             /\ sess'[p].undecided = sess[p].undecided
             /\ sess'[p].done = sess[p].done \cup {sess[p].wire}
             /\ sess'[p].crossed = sess[p].crossed
    <3>1. /\ sess[p].wire \in Delivery /\ sess[p].wire.nonce = sess[p].next
          /\ Prefix(sess[p]) /\ sess[p].base <= safeNonce
          /\ \A q \in sess[p].undecided : q.nonce = sess[p].base \/ Dead(q) \/ q \in sess[p].crossed
      BY <2>0 DEF PlanOK, WireOK, Sequencing, Sending
    <3>2. sess[p].base \in Int /\ sess[p].next \in Int
      BY <2>0 DEF Session
    <3>3. Prefix(sess[p])'
      <4> SUFFICES ASSUME NEW n \in sess[p].base..sess[p].next
                   PROVE  \E t \in sess'[p].done : t.nonce = n /\ outcome[t] = "success"
        BY <2>0, <2>2, <3>2 DEF Prefix, chain
      <4>1. CASE n = sess[p].next
        BY <1>2, <2>2, <3>1, <4>1
      <4>2. CASE n \in sess[p].base..(sess[p].next - 1)
        BY <2>2, <3>1, <4>2 DEF Prefix
      <4> QED BY <3>2, <4>1, <4>2
    <3>4. \A q \in sess'[p].undecided :
             q.nonce = sess'[p].base \/ Dead(q)' \/ q \in sess'[p].crossed
      BY <2>0, <2>2, <3>1 DEF Dead, chain
    <3>5. \A q \in sess'[p].undecided : q.nonce <= safeNonce'
      BY <2>2, BehindKept
    <3> QED BY <2>0, <2>2, <3>1, <3>3, <3>4, <3>5 DEF PlanOK, chain, Sending
  <2> QED BY <1>2, <2>0, <2>1, <2>2, AfterStepFits
<1> QED BY <1>1, <1>2 DEF RecordReceipt

LEMMA PlanStep ==
  ASSUME DeliverInv, [Next]_vars
  PROVE  \A p \in Proc : PlanOK(sess[p])'
<1>0. TypeInv /\ sess \in [Proc -> Session] /\ \A p \in Proc : PlanOK(sess[p])
  BY DEF DeliverInv, TypeInv, TypeOK
<1>1. ASSUME NEW p \in Proc, Leave(p)
      PROVE  \A q \in Proc : PlanOK(sess[q])'
  BY <1>0, <1>1, LeaveFits, NotSequencing, PlanFrame DEF Idle, Sequencing
<1>2. ASSUME NEW p \in Proc,
             \/ \E s \in AllSurfaces : Start(p, s)
             \/ ReadJournal(p)
             \/ \E t \in Delivery : HealRow(p, t) \/ HealUnproven(p, t)
             \/ HealDone(p) /\ ~Leave(p)
      PROVE  \A q \in Proc : PlanOK(sess[q])'
  <2>1. \A q \in Proc \ {p} : sess'[q] = sess[q]
    BY <1>0, <1>2 DEF Start, ReadJournal, HealRow, HealUnproven, HealDone, Become
  <2>2. sess'[p].pc \notin Sequencing /\ sess'[p].undecided \subseteq sess[p].undecided
    <3>1. ASSUME NEW s \in AllSurfaces, Start(p, s)
          PROVE  sess'[p].pc \notin Sequencing /\ sess'[p].undecided \subseteq sess[p].undecided
      <4> DEFINE c == IF Heals(s) THEN "journal" ELSE "plan"
      <4>1. c \in PCs /\ c \notin Sequencing
        BY DEF PCs, Sequencing
      <4> HIDE DEF c
      <4>2. /\ [Idle EXCEPT !.pc = c, !.surface = s].pc = c
            /\ [Idle EXCEPT !.pc = c, !.surface = s].undecided = {}
        BY <4>1, FreshFits DEF Idle
      <4> QED BY <1>0, <3>1, <4>1, <4>2 DEF Start, Become, c
    <3>2. CASE ReadJournal(p)
      BY <1>0, <3>2 DEF ReadJournal, Become, Session, Sequencing
    <3>3. CASE \E t \in Delivery : HealRow(p, t) \/ HealUnproven(p, t)
      BY <1>0, <3>3 DEF HealRow, HealUnproven, Become, Session, Sequencing
    <3>4. CASE HealDone(p) /\ ~Leave(p)
      BY <1>0, <3>4 DEF HealDone, Become, Session, Sequencing
    <3> QED BY <1>2, <3>1, <3>2, <3>3, <3>4
  <2> QED BY <2>1, <2>2, PlanFrame, NotSequencing
<1>3. ASSUME NEW p \in Proc, NEW k \in 1..MaxSteps, Plan(p, k)
      PROVE  \A q \in Proc : PlanOK(sess[q])'
  BY <1>0, <1>3, PlanNew, PlanFrame DEF Plan, Become
<1>9. ASSUME NEW p \in Proc, ReadState(p)
      PROVE  \A q \in Proc : PlanOK(sess[q])'
  BY <1>0, <1>9, StateRead, PlanFrame DEF ReadState, Become
<1>4. ASSUME NEW p \in Proc,
             \/ \E a \in Action, r \in 0..MaxNonce : Estimate(p, a, r)
             \/ Broadcast(p)
             \/ RecordSend(p)
      PROVE  \A q \in Proc : PlanOK(sess[q])'
  <2>1. /\ \A q \in Proc \ {p} : sess'[q] = sess[q]
        /\ sess[p].pc \in Sequencing
        /\ sess'[p].base = sess[p].base /\ sess'[p].next = sess[p].next
        /\ sess'[p].undecided = sess[p].undecided /\ sess'[p].done = sess[p].done
        /\ sess'[p].crossed = sess[p].crossed
    <3>1. ASSUME NEW a \in Action, NEW r \in 0..MaxNonce, Estimate(p, a, r)
          PROVE  /\ \A q \in Proc \ {p} : sess'[q] = sess[q]
                 /\ sess[p].pc \in Sequencing
                 /\ sess'[p].base = sess[p].base /\ sess'[p].next = sess[p].next
                 /\ sess'[p].undecided = sess[p].undecided
                 /\ sess'[p].done = sess[p].done
                 /\ sess'[p].crossed = sess[p].crossed
      <4> DEFINE w == [act |-> a, nonce |-> sess[p].next, rnonce |-> r]
      <4>1. sess' = [sess EXCEPT ![p] = [sess[p] EXCEPT !.pc = "broadcast", !.wire = w]]
        BY <3>1 DEF Estimate, Become
      <4> HIDE DEF w
      <4> QED BY <1>0, <3>1, <4>1 DEF Estimate, Session, Sequencing
    <3>2. CASE Broadcast(p)
      BY <1>0, <3>2 DEF Broadcast, Put, Become, Session, Sequencing
    <3>3. CASE RecordSend(p)
      BY <1>0, <3>3 DEF RecordSend, Become, Session, Sequencing
    <3> QED BY <1>4, <3>1, <3>2, <3>3
  <2>2. sess[p].next <= safeNonce
    <3>1. CASE \E a \in Action, r \in 0..MaxNonce : Estimate(p, a, r)
      BY <3>1, BoundAssumption DEF Estimate, DeliverInv, TypeInv, TypeOK
    <3>2. CASE Broadcast(p) \/ RecordSend(p)
      BY <1>0, <3>2 DEF Broadcast, Put, RecordSend, PlanOK, Sequencing, Sending
    <3> QED BY <1>4, <3>1, <3>2
  <2> QED BY <2>1, <2>2, PlanKept, PlanFrame
<1>5. ASSUME NEW p \in Proc, RecordReceipt(p)
      PROVE  \A q \in Proc : PlanOK(sess[q])'
  <2>1. \A q \in Proc \ {p} : sess'[q] = sess[q]
    BY <1>0, <1>5, LeaveFits, AfterStepFits DEF RecordReceipt
  <2> QED BY <1>5, <2>1, PlanAdvance, PlanFrame
<1>6. CASE ChainStep \/ UNCHANGED vars
  BY <1>6, PlanFrame DEF ChainStep, Mine, Evict, OthersExecute, vars
<1>7. ASSUME NEW p \in Proc, Crash(p) \/ HealUnreadable(p) \/ Finish(p)
                             \/ Refuse(p) \/ Timeout(p) \/ HealDone(p)
      PROVE  \A q \in Proc : PlanOK(sess[q])'
  BY <1>1, <1>2, <1>7 DEF Crash, HealUnreadable, Finish, Refuse, Timeout
<1>8. ASSUME NEW p \in Proc, BroadcastAcked(p) \/ \E b \in BOOLEAN : BroadcastUnacked(p, b)
      PROVE  \A q \in Proc : PlanOK(sess[q])'
  BY <1>4, <1>8 DEF BroadcastAcked, BroadcastUnacked, Broadcast
<1> QED
  BY <1>2, <1>3, <1>4, <1>5, <1>6, <1>7, <1>8, <1>9
  DEF Next, ProcStep, HealStep, DeliverStep

-----------------------------------------------------------------------------
(* Rivals: deliveries undecided when a command read the chain.             *)

LEMMA RivalStep ==
  ASSUME DeliverInv, [Next]_vars
  PROVE  RivalInv'
<1>0. /\ rivals \subseteq Delivery \X Delivery \X BOOLEAN /\ RivalInv
      /\ \A q \in Delivery : Dead(q) => Dead(q)'
  BY ChainMoves DEF DeliverInv, TypeInv, TypeOK
<1>1. CASE rivals' = rivals
  BY <1>0, <1>1 DEF RivalInv
<1>2. ASSUME NEW p \in Proc, Broadcast(p)
      PROVE  RivalInv'
  <2> DEFINE t == sess[p].wire
  <2>0. /\ sess[p].pc = "broadcast" /\ PlanOK(sess[p]) /\ WireOK(sess[p])
        /\ WindowOK(sess[p]) /\ sess[p] \in Session
    BY <1>2 DEF Broadcast, Put, DeliverInv, TypeInv, TypeOK
  <2>1. /\ t \in Delivery /\ t.nonce = sess[p].next
        /\ sess[p].base \in Int /\ sess[p].next \in Int
        /\ sess[p].base <= sess[p].next /\ Prefix(sess[p])
        /\ \A q \in sess[p].undecided : q.nonce = sess[p].base \/ Dead(q) \/ q \in sess[p].crossed
        /\ sess[p].undecided \subseteq Delivery /\ sess[p].done \subseteq Delivery
    BY <2>0 DEF PlanOK, WireOK, WindowOK, Sending, Sequencing, Session
  <2>2. ASSUME NEW q \in sess[p].undecided \ (sess[p].done \cup {t})
        PROVE  Dead(q) \/ (q # t /\ q.nonce = t.nonce) \/ q \in sess[p].crossed
    <3>1. CASE q.nonce = sess[p].base /\ sess[p].base < sess[p].next
      <4>1. PICK d \in sess[p].done : d.nonce = sess[p].base /\ outcome[d] = "success"
        BY <2>1, <3>1 DEF Prefix
      <4> QED BY <2>1, <2>2, <3>1, <4>1 DEF DeliverInv, ChainInv, Dead
    <3>2. CASE q.nonce = sess[p].base /\ sess[p].base = sess[p].next
      BY <2>1, <2>2, <3>2
    <3> QED BY <2>1, <2>2, <3>1, <3>2
  <2>3. rivals' = rivals \cup {<<q, t, q \in sess[p].crossed>> :
                                 q \in sess[p].undecided \ (sess[p].done \cup {t})}
    BY <1>2 DEF Broadcast, Put
  <2> HIDE DEF t
  <2>4. ASSUME NEW r \in rivals'
        PROVE  Dead(r[1])' \/ (r[1] # r[2] /\ r[1].nonce = r[2].nonce) \/ r[3]
    <3>1. CASE r \in rivals
      BY <1>0, <3>1 DEF RivalInv
    <3>2. CASE r \notin rivals
      <4>1. PICK q \in sess[p].undecided \ (sess[p].done \cup {t}) :
                r = <<q, t, q \in sess[p].crossed>>
        BY <2>3, <2>4, <3>2
      <4>2. r[1] = q /\ r[2] = t /\ (q \in sess[p].crossed => r[3])
        BY <4>1
      <4>3. CASE q \in sess[p].crossed
        BY <4>2, <4>3
      <4>4. CASE q \notin sess[p].crossed
        BY <1>0, <2>1, <2>2, <4>2, <4>4
      <4> QED BY <4>3, <4>4
    <3> QED BY <3>1, <3>2
  <2> QED BY <2>4 DEF RivalInv
<1> QED BY <1>1, <1>2, StepShape DEF Mine, Evict, OthersExecute

-----------------------------------------------------------------------------
(* The journal.                                                            *)

\* A step that appends no row, touches no todo list but to shrink or to take
\* the gaps, and sends no one to "await".
LEMMA JournalFrame ==
  ASSUME DeliverInv, [Next]_vars, journal' = journal,
         \A p \in Proc : /\ \A t \in sess'[p].todo : HasSend(t)
                         /\ sess'[p].pc = "await" => HasSend(sess'[p].wire)
  PROVE  JournalInv'
<1>1. /\ journal \in [Delivery -> [RowKinds -> Nat]]
      /\ outcome \in [Delivery -> {"none", "success", "reverted"}]
      /\ ReceiptRowsTrue /\ ReceiptHasSend
      /\ \A t \in Delivery : outcome[t] # "none" => outcome'[t] = outcome[t]
  BY ChainMoves DEF DeliverInv, TypeInv, TypeOK, JournalInv
<1>2. ReceiptRowsTrue'
  BY <1>1 DEF ReceiptRowsTrue
<1>3. ReceiptHasSend'
  BY <1>1 DEF ReceiptHasSend, HasSend, HasReceipt
<1> QED BY <1>2, <1>3 DEF JournalInv, HasSend

\* A step that appends one row for t, of a kind the chain agrees with, and
\* only to a delivery that has its send row by then.
LEMMA JournalAppend ==
  ASSUME DeliverInv, [Next]_vars, NEW t \in Delivery, NEW k \in RowKinds,
         AppendRow(t, k), UNCHANGED chain,
         k \in {"sent", "unknown"} \/ (HasSend(t) /\ outcome[t] # "none"
                                          /\ k = OutcomeRow(outcome[t])),
         \A p \in Proc : /\ \A u \in sess'[p].todo : HasSend(u)
                         /\ sess'[p].pc = "await" =>
                              sess'[p].wire \in Delivery /\ (HasSend(sess'[p].wire) \/ sess'[p].wire = t)
  PROVE  JournalInv'
<1>1. /\ journal \in [Delivery -> [RowKinds -> Nat]]
      /\ outcome \in [Delivery -> {"none", "success", "reverted"}]
      /\ outcome' = outcome
      /\ ReceiptRowsTrue /\ ReceiptHasSend
      /\ sess \in [Proc -> Session]
  BY DEF DeliverInv, TypeInv, TypeOK, JournalInv, chain
<1>2. /\ journal' \in [Delivery -> [RowKinds -> Nat]]
      /\ journal'[t][k] = journal[t][k] + 1
      /\ \A u \in Delivery, l \in RowKinds :
            (u # t \/ l # k) => journal'[u][l] = journal[u][l]
  BY <1>1, AppendFits
<1>3. ReceiptRowsTrue'
  BY <1>1, <1>2 DEF ReceiptRowsTrue, RowKinds, OutcomeRow
<1>4. \A u \in Delivery : HasSend(u) => HasSend(u)'
  BY <1>1, <1>2 DEF HasSend, RowKinds
<1>5. HasSend(t)'
  BY <1>1, <1>2, <1>4 DEF HasSend, RowKinds
<1>6. ReceiptHasSend'
  BY <1>1, <1>2, <1>4, <1>5 DEF ReceiptHasSend, HasReceipt, RowKinds
<1>7. \A p \in Proc : sess'[p].todo \subseteq Delivery
  <2>1. TypeInv'
    BY TypeStep DEF DeliverInv
  <2> QED BY <2>1 DEF TypeInv, TypeOK, Session
<1>8. (\A p \in Proc : /\ \A u \in sess[p].todo : HasSend(u)
                       /\ sess[p].pc = "await" => HasSend(sess[p].wire))'
  BY <1>4, <1>5, <1>7 DEF HasSend
<1> QED BY <1>3, <1>6, <1>8 DEF JournalInv

LEMMA JournalStep ==
  ASSUME DeliverInv, [Next]_vars
  PROVE  JournalInv'
<1>0. /\ TypeInv /\ sess \in [Proc -> Session]
      /\ outcome \in [Delivery -> {"none", "success", "reverted"}]
      /\ \A p \in Proc : /\ \A t \in sess[p].todo : HasSend(t)
                         /\ sess[p].pc = "await" => HasSend(sess[p].wire)
                         /\ WireOK(sess[p])
  BY DEF DeliverInv, TypeInv, TypeOK, JournalInv
<1>1. ASSUME NEW p \in Proc, Leave(p), journal' = journal
      PROVE  JournalInv'
  BY <1>0, <1>1, LeaveFits, JournalFrame DEF Idle
<1>2. ASSUME NEW p \in Proc, NEW s \in AllSurfaces, Start(p, s)
      PROVE  JournalInv'
  <2> DEFINE c == IF Heals(s) THEN "journal" ELSE "plan"
             f == [Idle EXCEPT !.pc = c, !.surface = s]
  <2>1. c \in PCs /\ c # "await"
    BY DEF PCs
  <2>2. sess' = [sess EXCEPT ![p] = f] /\ journal' = journal
    BY <1>2 DEF Start, Become
  <2> HIDE DEF c
  <2>3. f.pc # "await" /\ f.todo = {}
    <3>1. f.pc = c /\ f.todo = {}
      BY <2>1, FreshFits
    <3> QED BY <2>1, <3>1
  <2> HIDE DEF f
  <2> QED BY <1>0, <2>2, <2>3, JournalFrame
<1>3. ASSUME NEW p \in Proc, ReadJournal(p)
      PROVE  JournalInv'
  <2>1. /\ sess'[p].todo = Gaps /\ sess'[p].pc = "heal" /\ journal' = journal
        /\ \A q \in Proc \ {p} : sess'[q] = sess[q]
    BY <1>0, <1>3 DEF ReadJournal, Become, Session
  <2> QED BY <1>0, <2>1, JournalFrame DEF Gaps
<1>4. ASSUME NEW p \in Proc, NEW t \in Delivery, HealUnproven(p, t)
      PROVE  JournalInv'
  <2>1. /\ sess'[p].todo = sess[p].todo \ {t} /\ sess'[p].pc = "heal"
        /\ journal' = journal /\ \A q \in Proc \ {p} : sess'[q] = sess[q]
    BY <1>0, <1>4 DEF HealUnproven, Become, Session
  <2> QED BY <1>0, <2>1, JournalFrame
<1>5. ASSUME NEW p \in Proc, NEW t \in Delivery, HealRow(p, t)
      PROVE  JournalInv'
  <2>1. /\ sess'[p].todo = sess[p].todo \ {t} /\ sess'[p].pc = "heal"
        /\ t \in sess[p].todo /\ outcome[t] # "none" /\ UNCHANGED chain
        /\ AppendRow(t, OutcomeRow(outcome[t]))
        /\ \A q \in Proc \ {p} : sess'[q] = sess[q]
    BY <1>0, <1>5 DEF HealRow, Become, Session
  <2>2. OutcomeRow(outcome[t]) \in RowKinds
    BY DEF OutcomeRow, RowKinds
  <2>3. \A q \in Proc : sess[q].pc = "await" => sess[q].wire \in Delivery
    BY <1>0 DEF WireOK, Sending
  <2> QED BY <1>0, <2>1, <2>2, <2>3, JournalAppend
<1>6. ASSUME NEW p \in Proc, RecordSend(p)
      PROVE  JournalInv'
  <2> DEFINE k == IF sess[p].pc = "acked" THEN "sent" ELSE "unknown"
  <2>1. /\ sess'[p].todo = sess[p].todo /\ sess'[p].wire = sess[p].wire
        /\ UNCHANGED chain /\ AppendRow(sess[p].wire, k)
        /\ \A q \in Proc \ {p} : sess'[q] = sess[q]
    BY <1>0, <1>6 DEF RecordSend, Become, Session
  <2>2. k \in RowKinds /\ k \in {"sent", "unknown"}
    BY DEF RowKinds
  <2>3. sess[p].wire \in Delivery
    BY <1>0, <1>6 DEF RecordSend, WireOK, Sending
  <2>4. \A q \in Proc : sess[q].pc = "await" => sess[q].wire \in Delivery
    BY <1>0 DEF WireOK, Sending
  <2> HIDE DEF k
  <2> QED BY <1>0, <2>1, <2>2, <2>3, <2>4, JournalAppend
<1>7. ASSUME NEW p \in Proc, RecordReceipt(p)
      PROVE  JournalInv'
  <2>1. /\ sess[p].pc = "await" /\ outcome[sess[p].wire] # "none" /\ UNCHANGED chain
        /\ AppendRow(sess[p].wire, OutcomeRow(outcome[sess[p].wire]))
    BY <1>7 DEF RecordReceipt
  <2>2. sess[p].wire \in Delivery /\ HasSend(sess[p].wire)
    BY <1>0, <2>1 DEF WireOK, Sending
  <2>3. OutcomeRow(outcome[sess[p].wire]) \in RowKinds
    BY DEF OutcomeRow, RowKinds
  <2>4. /\ sess'[p].todo \in {sess[p].todo, {}} /\ sess'[p].pc # "await"
        /\ \A q \in Proc \ {p} : sess'[q] = sess[q]
    BY <1>0, <1>7, LeaveFits, AfterStepFits DEF RecordReceipt, Idle
  <2>5. \A q \in Proc : sess[q].pc = "await" => sess[q].wire \in Delivery
    BY <1>0 DEF WireOK, Sending
  <2> QED BY <1>0, <2>1, <2>2, <2>3, <2>4, <2>5, JournalAppend
<1>8. ASSUME NEW p \in Proc,
             \/ HealDone(p) /\ ~Leave(p)
             \/ ReadState(p) \/ \E k \in 1..MaxSteps : Plan(p, k)
             \/ \E a \in Action, r \in 0..MaxNonce : Estimate(p, a, r)
             \/ Broadcast(p)
      PROVE  JournalInv'
  <2>1. /\ sess'[p].todo = sess[p].todo /\ sess'[p].pc # "await"
        /\ journal' = journal /\ \A q \in Proc \ {p} : sess'[q] = sess[q]
    <3>1. CASE HealDone(p) /\ ~Leave(p)
      BY <1>0, <3>1 DEF HealDone, Become, Session
    <3>2. CASE ReadState(p)
      BY <1>0, <3>2 DEF ReadState, Become, Session
    <3>5. CASE \E k \in 1..MaxSteps : Plan(p, k)
      BY <1>0, <3>5 DEF Plan, Become, Session
    <3>3. ASSUME NEW a \in Action, NEW r \in 0..MaxNonce, Estimate(p, a, r)
          PROVE  /\ sess'[p].todo = sess[p].todo /\ sess'[p].pc # "await"
                 /\ journal' = journal /\ \A q \in Proc \ {p} : sess'[q] = sess[q]
      <4> DEFINE w == [act |-> a, nonce |-> sess[p].next, rnonce |-> r]
      <4>1. /\ sess' = [sess EXCEPT ![p] = [sess[p] EXCEPT !.pc = "broadcast", !.wire = w]]
            /\ journal' = journal
        BY <3>3 DEF Estimate, Become
      <4> HIDE DEF w
      <4> QED BY <1>0, <4>1 DEF Session
    <3>4. CASE Broadcast(p)
      BY <1>0, <3>4 DEF Broadcast, Put, Become, Session
    <3> QED BY <1>8, <3>1, <3>2, <3>3, <3>4, <3>5
  <2> QED BY <1>0, <2>1, JournalFrame
<1>9. CASE ChainStep \/ UNCHANGED vars
  <2>1. sess' = sess /\ journal' = journal
    BY <1>9 DEF ChainStep, Mine, Evict, OthersExecute, vars
  <2> QED BY <1>0, <2>1, JournalFrame
<1>10. ASSUME NEW p \in Proc, Crash(p) \/ HealUnreadable(p) \/ Finish(p)
                              \/ Refuse(p) \/ Timeout(p) \/ HealDone(p)
       PROVE  JournalInv'
  BY <1>1, <1>8, <1>10 DEF Crash, HealUnreadable, Finish, Refuse, Timeout, HealDone
<1>11. ASSUME NEW p \in Proc, BroadcastAcked(p) \/ \E b \in BOOLEAN : BroadcastUnacked(p, b)
       PROVE  JournalInv'
  BY <1>8, <1>11 DEF BroadcastAcked, BroadcastUnacked, Broadcast
<1> QED
  BY <1>2, <1>3, <1>4, <1>5, <1>6, <1>7, <1>8, <1>9, <1>10, <1>11
  DEF Next, ProcStep, HealStep, DeliverStep

-----------------------------------------------------------------------------
(* The safety theorems.                                                    *)

LEMMA DeliverInit == Init => DeliverInv
<1> SUFFICES ASSUME Init PROVE DeliverInv
  OBVIOUS
<1>1. TypeInv
  BY TypeInit
<1>2. ChainInv /\ RivalInv
  BY DEF Init, ChainInv, RivalInv
<1>3. \A p \in Proc : PlanOK(sess[p])
  BY DEF Init, Idle, PlanOK, Sequencing
<1>4. JournalInv
  BY DEF Init, Idle, JournalInv, ReceiptRowsTrue, ReceiptHasSend, HasReceipt, HasSend, RowKinds
<1> QED BY <1>1, <1>2, <1>3, <1>4 DEF DeliverInv

LEMMA DeliverInvStep == DeliverInv /\ [Next]_vars => DeliverInv'
  BY TypeStep, ChainInvStep, PlanStep, RivalStep, JournalStep DEF DeliverInv

LEMMA Invariance == Spec => []DeliverInv
  BY DeliverInit, DeliverInvStep, PTL DEF Spec

\* No matter which surfaces run, with or without the execution lock, and
\* however often they die or time out: of two rival deliveries both execute
\* only if the first did so between the reads of the second's command.
THEOREM NeverDoubleActs == Spec => []NoDoubleAct
<1>1. DeliverInv => NoDoubleAct
  <2> SUFFICES ASSUME DeliverInv, NEW r \in rivals
               PROVE  outcome[r[1]] = "success" /\ outcome[r[2]] = "success" => r[3]
    BY DEF NoDoubleAct
  <2>1. r[1] \in Delivery /\ r[2] \in Delivery
    BY DEF DeliverInv, TypeInv, TypeOK
  <2> QED BY <2>1 DEF DeliverInv, ChainInv, RivalInv, Dead
<1> QED BY <1>1, Invariance, PTL

\* A step is only ever on its way behind its own sequence's executed steps.
THEOREM PrefixCompletes == Spec => []CompletedPrefix
<1>1. DeliverInv => CompletedPrefix
  BY DEF DeliverInv, PlanOK, Prefix, Sequencing, CompletedPrefix
<1> QED BY <1>1, Invariance, PTL

\* A receipt row, live or posthumous, says what the chain did.
THEOREM RowsAreTrue == Spec => []ReceiptRowsTrue
<1>1. DeliverInv => ReceiptRowsTrue
  BY DEF DeliverInv, JournalInv
<1> QED BY <1>1, Invariance, PTL

\* Every receipt row closes a send row.
THEOREM ReceiptsAreFound == Spec => []ReceiptHasSend
<1>1. DeliverInv => ReceiptHasSend
  BY DEF DeliverInv, JournalInv
<1> QED BY <1>1, Invariance, PTL

-----------------------------------------------------------------------------
(* One outcome row per delivery, when every surface takes the lock.        *)

\* Whoever runs holds the lock; a repair works through deliveries without an
\* outcome row, and what is being sent has none.
UniqueInv ==
    /\ \A p \in Proc : sess[p].pc # "idle" => lock = p
    /\ \A p \in Proc : sess[p].pc # "heal" => sess[p].todo = {}
    /\ \A p \in Proc : \A t \in sess[p].todo : ~HasReceipt(t)
    /\ \A p \in Proc : sess[p].pc \in Sending => ~HasReceipt(sess[p].wire)
    /\ ReceiptRowUnique

\* A running process acts alone: the others do nothing and keep doing nothing.
LEMMA ActsAlone ==
  ASSUME DeliverInv, UniqueInv, NEW p \in Proc, Crash(p) \/ ProcStep(p)
  PROVE  /\ sess[p].pc # "idle"
         /\ \A q \in Proc \ {p} : sess[q].pc = "idle" /\ sess'[q] = sess[q]
         /\ Leave(p) \/ lock' = lock
<1>0. sess \in [Proc -> Session]
  BY DEF DeliverInv, TypeInv, TypeOK
<1>1. sess[p].pc # "idle" /\ (Leave(p) \/ lock' = lock) /\ \E s : Become(p, s)
  <2>1. CASE Crash(p) \/ ReadJournal(p)
    BY <2>1 DEF Crash, ReadJournal, Leave
  <2>2. CASE HealStep(p)
    BY <2>2 DEF HealStep, HealRow, HealUnproven, HealUnreadable, HealDone, Leave
  <2>3. CASE \/ ReadState(p) \/ \E k \in 1..MaxSteps : Plan(p, k)
             \/ \E a \in Action, r \in 0..MaxNonce : Estimate(p, a, r)
             \/ RecordSend(p)
    BY <2>3 DEF ReadState, Plan, Estimate, RecordSend
  <2>4. CASE Finish(p) \/ Refuse(p) \/ Timeout(p)
    BY <2>4 DEF Finish, Refuse, Timeout, Leave
  <2>5. CASE BroadcastAcked(p) \/ \E b \in BOOLEAN : BroadcastUnacked(p, b)
    BY <2>5 DEF BroadcastAcked, BroadcastUnacked, Put
  <2>6. CASE RecordReceipt(p)
    BY <2>6 DEF RecordReceipt, AfterStep, Leave
  <2> QED BY <2>1, <2>2, <2>3, <2>4, <2>5, <2>6 DEF ProcStep, DeliverStep
<1>2. \A q \in Proc \ {p} : sess'[q] = sess[q]
  BY <1>0, <1>1 DEF Become
<1>3. \A q \in Proc \ {p} : sess[q].pc = "idle"
  BY <1>1 DEF UniqueInv
<1> QED BY <1>1, <1>2, <1>3

\* What a step of p must see to for the invariant to hold again.
LEMMA UniqueAfter ==
  ASSUME DeliverInv, UniqueInv, NEW p \in Proc, Crash(p) \/ ProcStep(p),
         \A t \in sess'[p].todo : ~HasReceipt(t)',
         sess'[p].pc # "heal" => sess'[p].todo = {},
         (sess[p].pc \in Sending => ~HasReceipt(sess[p].wire))',
         ReceiptRowUnique'
  PROVE  UniqueInv'
<1>0. /\ sess[p].pc # "idle"
      /\ \A q \in Proc \ {p} : sess[q].pc = "idle" /\ sess'[q] = sess[q]
      /\ Leave(p) \/ lock' = lock
      /\ sess \in [Proc -> Session]
  BY ActsAlone DEF DeliverInv, TypeInv, TypeOK
<1>1. \A q \in Proc : sess'[q].pc # "idle" => lock' = q
  <2>1. CASE Leave(p)
    <3>1. sess'[p] = Idle
      BY <1>0, <2>1 DEF Leave, Become
    <3> QED BY <1>0, <3>1 DEF Idle
  <2>2. CASE lock' = lock
    BY <1>0, <2>2 DEF UniqueInv
  <2> QED BY <1>0, <2>1, <2>2
<1>2. \A q \in Proc \ {p} : sess'[q].pc = "idle" /\ sess'[q].todo = {}
  BY <1>0 DEF UniqueInv
<1>3. \A q \in Proc \ {p} : ~(sess'[q].pc \in Sending)
  BY <1>2 DEF Sending
<1>4. \A q \in Proc : (sess[q].pc # "heal" => sess[q].todo = {})'
  BY <1>2
<1>5. \A q \in Proc : (\A t \in sess[q].todo : ~HasReceipt(t))'
  BY <1>2 DEF HasReceipt
<1>6. \A q \in Proc : (sess[q].pc \in Sending => ~HasReceipt(sess[q].wire))'
  BY <1>3 DEF HasReceipt
<1> QED BY <1>1, <1>4, <1>5, <1>6 DEF UniqueInv

\* An outcome row for a delivery that has none is its only one, and no other
\* delivery gets one.
LEMMA FirstReceipt ==
  ASSUME DeliverInv, UniqueInv, NEW t \in Delivery, NEW k \in {"confirmed", "failed"},
         ~HasReceipt(t), AppendRow(t, k)
  PROVE  /\ ReceiptRowUnique'
         /\ \A u \in Delivery \ {t} : ~HasReceipt(u) => ~HasReceipt(u)'
<1>1. journal \in [Delivery -> [RowKinds -> Nat]] /\ k \in RowKinds
  BY DEF DeliverInv, TypeInv, TypeOK, RowKinds
<1>2. /\ journal'[t][k] = journal[t][k] + 1
      /\ \A u \in Delivery, l \in RowKinds : (u # t \/ l # k) => journal'[u][l] = journal[u][l]
  BY <1>1, AppendFits
<1>3. journal[t]["confirmed"] = 0 /\ journal[t]["failed"] = 0
  BY <1>1 DEF HasReceipt, RowKinds
<1>4. \A u \in Delivery \ {t} : /\ journal'[u]["confirmed"] = journal[u]["confirmed"]
                                /\ journal'[u]["failed"] = journal[u]["failed"]
  BY <1>2 DEF RowKinds
<1>5. journal'[t]["confirmed"] + journal'[t]["failed"] = 1
  <2>1. CASE k = "confirmed"
    BY <1>2, <1>3, <2>1 DEF RowKinds
  <2>2. CASE k = "failed"
    BY <1>2, <1>3, <2>2 DEF RowKinds
  <2> QED BY <2>1, <2>2
<1> QED BY <1>4, <1>5 DEF UniqueInv, ReceiptRowUnique, HasReceipt

\* A step of p that appends no outcome row, adds none but gaps to its list
\* and goes on sending what it sends.
LEMMA UniqueFrame ==
  ASSUME DeliverInv, UniqueInv, NEW p \in Proc, Crash(p) \/ ProcStep(p),
         \A u \in Delivery : /\ journal'[u]["confirmed"] = journal[u]["confirmed"]
                             /\ journal'[u]["failed"] = journal[u]["failed"],
         sess'[p].todo \subseteq Delivery,
         \A t \in sess'[p].todo : ~HasReceipt(t),
         sess'[p].pc # "heal" => sess'[p].todo = {},
         sess'[p].pc \in Sending => sess'[p].wire \in Delivery /\ ~HasReceipt(sess'[p].wire)
  PROVE  UniqueInv'
<1>1. ReceiptRowUnique' /\ \A t \in Delivery : ~HasReceipt(t) => ~HasReceipt(t)'
  BY DEF UniqueInv, ReceiptRowUnique, HasReceipt
<1>2. \A t \in sess'[p].todo : ~HasReceipt(t)'
  BY <1>1
<1>3. (sess[p].pc \in Sending => ~HasReceipt(sess[p].wire))'
  BY <1>1 DEF HasReceipt
<1> QED BY <1>1, <1>2, <1>3, UniqueAfter

LEMMA UniqueStep ==
  ASSUME Surface \subseteq {"cycle", "lp"}, DeliverInv, UniqueInv, [Next]_vars
  PROVE  UniqueInv'
<1>0. /\ TypeInv /\ sess \in [Proc -> Session] /\ journal \in [Delivery -> [RowKinds -> Nat]]
      /\ \A p \in Proc : WireOK(sess[p]) /\ sess[p].todo \subseteq Delivery
      /\ \A p \in Proc : sess[p].pc # "heal" => sess[p].todo = {}
      /\ \A p \in Proc : \A t \in sess[p].todo : ~HasReceipt(t)
      /\ \A p \in Proc : sess[p].pc \in Sending => ~HasReceipt(sess[p].wire)
  BY DEF DeliverInv, TypeInv, TypeOK, UniqueInv, Session
<1>1. ASSUME NEW p \in Proc, Leave(p), journal' = journal, Crash(p) \/ ProcStep(p)
      PROVE  UniqueInv'
  <2>1. sess'[p] = Idle
    BY <1>0, <1>1, LeaveFits
  <2> QED BY <1>1, <2>1, UniqueFrame DEF Idle, Sending
<1>2. ASSUME NEW p \in Proc, NEW s \in AllSurfaces, Start(p, s)
      PROVE  UniqueInv'
  <2> DEFINE c == IF Heals(s) THEN "journal" ELSE "plan"
             f == [Idle EXCEPT !.pc = c, !.surface = s]
  <2>1. c \in PCs /\ c \notin Sending /\ c # "heal"
    BY DEF PCs, Sending
  <2>2. /\ sess' = [sess EXCEPT ![p] = f] /\ journal' = journal /\ lock = NoProc /\ lock' = p
    BY <1>2 DEF Start, Become, Locks
  <2> HIDE DEF c
  <2>3. f.pc = c /\ f.todo = {}
    BY <2>1, FreshFits
  <2> HIDE DEF f
  <2>4. \A q \in Proc : sess[q].pc = "idle" /\ sess[q].todo = {}
    BY <2>2, FreshAssumption DEF UniqueInv
  <2>5. \A q \in Proc : /\ sess'[q].todo = {} /\ sess'[q].pc \notin Sending
                        /\ sess'[q].pc # "idle" => q = p
    BY <1>0, <2>1, <2>2, <2>3, <2>4 DEF Sending
  <2> QED BY <2>2, <2>5 DEF UniqueInv, ReceiptRowUnique
<1>3. ASSUME NEW p \in Proc, ReadJournal(p)
      PROVE  UniqueInv'
  <2>1. sess'[p].todo = Gaps /\ sess'[p].pc = "heal" /\ journal' = journal
    BY <1>0, <1>3 DEF ReadJournal, Become, Session
  <2> QED BY <1>3, <2>1, UniqueFrame DEF Gaps, Sending, ProcStep
<1>4. ASSUME NEW p \in Proc, NEW t \in Delivery, HealUnproven(p, t)
      PROVE  UniqueInv'
  <2>1. sess'[p].todo = sess[p].todo \ {t} /\ sess'[p].pc = "heal" /\ journal' = journal
    BY <1>0, <1>4 DEF HealUnproven, Become, Session
  <2> QED BY <1>0, <1>4, <2>1, UniqueFrame DEF Sending, ProcStep, HealStep
<1>5. ASSUME NEW p \in Proc, NEW t \in Delivery, HealRow(p, t)
      PROVE  UniqueInv'
  <2>1. /\ sess'[p].todo = sess[p].todo \ {t} /\ sess'[p].pc = "heal" /\ t \in sess[p].todo
        /\ AppendRow(t, OutcomeRow(outcome[t]))
    BY <1>0, <1>5 DEF HealRow, Become, Session
  <2>2. OutcomeRow(outcome[t]) \in {"confirmed", "failed"} /\ ~HasReceipt(t)
    BY <1>0, <2>1 DEF OutcomeRow
  <2>3. ReceiptRowUnique' /\ \A u \in Delivery \ {t} : ~HasReceipt(u) => ~HasReceipt(u)'
    BY <2>1, <2>2, FirstReceipt
  <2>4. \A u \in sess'[p].todo : ~HasReceipt(u)'
    BY <1>0, <2>1, <2>3
  <2> QED BY <1>5, <2>1, <2>3, <2>4, UniqueAfter DEF Sending, ProcStep, HealStep
<1>6. ASSUME NEW p \in Proc, RecordSend(p)
      PROVE  UniqueInv'
  <2> DEFINE k == IF sess[p].pc = "acked" THEN "sent" ELSE "unknown"
  <2>1. /\ sess[p].pc \in {"acked", "unacked"} /\ AppendRow(sess[p].wire, k)
        /\ sess'[p].todo = sess[p].todo /\ sess'[p].wire = sess[p].wire /\ sess'[p].pc = "await"
    BY <1>0, <1>6 DEF RecordSend, Become, Session
  <2>2. k \in RowKinds /\ k # "confirmed" /\ k # "failed" /\ sess[p].wire \in Delivery
    BY <1>0, <2>1 DEF RowKinds, WireOK, Sending
  <2> HIDE DEF k
  <2>3. \A u \in Delivery : /\ journal'[u]["confirmed"] = journal[u]["confirmed"]
                            /\ journal'[u]["failed"] = journal[u]["failed"]
    BY <1>0, <2>1, <2>2, AppendFits DEF RowKinds
  <2>4. sess[p].todo = {} /\ ~HasReceipt(sess[p].wire)
    BY <1>0, <2>1 DEF Sending
  <2> QED BY <1>6, <2>1, <2>2, <2>3, <2>4, UniqueFrame DEF ProcStep, DeliverStep
<1>7. ASSUME NEW p \in Proc, RecordReceipt(p)
      PROVE  UniqueInv'
  <2>1. /\ sess[p].pc = "await" /\ AppendRow(sess[p].wire, OutcomeRow(outcome[sess[p].wire]))
        /\ sess[p].wire \in Delivery /\ ~HasReceipt(sess[p].wire)
    BY <1>0, <1>7 DEF RecordReceipt, WireOK, Sending
  <2>2. OutcomeRow(outcome[sess[p].wire]) \in {"confirmed", "failed"}
    BY DEF OutcomeRow
  <2>3. ReceiptRowUnique'
    BY <2>1, <2>2, FirstReceipt
  <2>4. sess'[p].todo = {} /\ sess'[p].pc \in {"idle", "context", "estimate"}
    BY <1>0, <1>7, <2>1, LeaveFits, AfterStepFits DEF RecordReceipt, Idle
  <2> QED BY <1>7, <2>3, <2>4, UniqueAfter DEF Sending, ProcStep, DeliverStep
<1>8. ASSUME NEW p \in Proc, NEW a \in Action, NEW r \in 0..MaxNonce, Estimate(p, a, r)
      PROVE  UniqueInv'
  <2> DEFINE w == [act |-> a, nonce |-> sess[p].next, rnonce |-> r]
  <2>1. /\ sess' = [sess EXCEPT ![p] = [sess[p] EXCEPT !.pc = "broadcast", !.wire = w]]
        /\ journal' = journal /\ sess[p].pc = "estimate" /\ r \in RelayerView
    BY <1>8 DEF Estimate, Become
  <2>2. w \in Delivery /\ w.rnonce = r
    BY <1>0, <2>1, BoundAssumption DEF TypeInv, WindowOK, Sequencing, Session, Delivery
  <2>3. relayerNonce \in Nat /\ r >= relayerNonce
    BY <2>1 DEF RelayerView, TypeInv, TypeOK, DeliverInv
  <2> HIDE DEF w
  <2>4. ~HasReceipt(w)
    <3>1. outcome[w] = "none"
      BY <2>2, <2>3, BoundAssumption DEF DeliverInv, ChainInv
    <3>2. ~(journal[w]["confirmed"] > 0) /\ ~(journal[w]["failed"] > 0)
      BY <2>2, <3>1 DEF DeliverInv, JournalInv, ReceiptRowsTrue
    <3> QED BY <1>0, <2>2, <3>2 DEF HasReceipt, RowKinds
  <2>5. sess'[p].todo = {} /\ sess'[p].wire = w /\ sess'[p].pc = "broadcast"
    BY <1>0, <2>1 DEF Session
  <2> QED BY <1>8, <2>1, <2>2, <2>4, <2>5, UniqueFrame DEF ProcStep, DeliverStep
<1>9. ASSUME NEW p \in Proc, ReadState(p) \/ \E k \in 1..MaxSteps : Plan(p, k)
      PROVE  UniqueInv'
  <2>1. sess'[p].todo = {} /\ sess'[p].pc \in {"context", "estimate"} /\ journal' = journal
    <3>1. CASE ReadState(p)
      BY <1>0, <3>1 DEF ReadState, Become, Session
    <3>2. CASE \E k \in 1..MaxSteps : Plan(p, k)
      BY <1>0, <3>2 DEF Plan, Become, Session
    <3> QED BY <1>9, <3>1, <3>2
  <2> QED BY <1>9, <2>1, UniqueFrame DEF Sending, ProcStep, DeliverStep
<1>10. ASSUME NEW p \in Proc, BroadcastAcked(p) \/ \E b \in BOOLEAN : BroadcastUnacked(p, b)
       PROVE  UniqueInv'
  <2>1. PICK c \in {"acked", "unacked"}, b \in BOOLEAN : Put(p, c, b)
    BY <1>10 DEF BroadcastAcked, BroadcastUnacked
  <2>2. /\ sess[p].pc = "broadcast" /\ journal' = journal
        /\ sess'[p].todo = sess[p].todo /\ sess'[p].wire = sess[p].wire /\ sess'[p].pc = c
    BY <1>0, <2>1 DEF Put, Become, Session
  <2>3. sess[p].todo = {} /\ sess[p].wire \in Delivery /\ ~HasReceipt(sess[p].wire)
    BY <1>0, <2>2 DEF WireOK, Sending
  <2> QED BY <1>10, <2>2, <2>3, UniqueFrame DEF Sending, ProcStep, DeliverStep
<1>11. ASSUME NEW p \in Proc, HealDone(p)
       PROVE  UniqueInv'
  <2>1. CASE Leave(p)
    BY <1>1, <1>11, <2>1 DEF HealDone, ProcStep, HealStep
  <2>2. CASE ~Leave(p)
    <3>1. sess'[p].todo = {} /\ sess'[p].pc = "plan" /\ journal' = journal
      BY <1>0, <1>11, <2>2 DEF HealDone, Become, Session
    <3> QED BY <1>11, <3>1, UniqueFrame DEF Sending, ProcStep, HealStep
  <2> QED BY <2>1, <2>2
<1>12. ASSUME NEW p \in Proc, Crash(p) \/ HealUnreadable(p) \/ Finish(p) \/ Refuse(p) \/ Timeout(p)
       PROVE  UniqueInv'
  <2>1. Leave(p) /\ journal' = journal
    BY <1>12 DEF Crash, HealUnreadable, Finish, Refuse, Timeout
  <2> QED BY <1>1, <1>12, <2>1 DEF ProcStep, HealStep, DeliverStep
<1>13. CASE ChainStep \/ UNCHANGED vars
  <2>1. sess' = sess /\ journal' = journal /\ lock' = lock
    BY <1>13 DEF ChainStep, Mine, Evict, OthersExecute, vars
  <2> QED BY <2>1 DEF UniqueInv, ReceiptRowUnique, HasReceipt
<1> QED
  BY <1>2, <1>3, <1>4, <1>5, <1>6, <1>7, <1>8, <1>9, <1>10, <1>11, <1>12, <1>13
  DEF Next, ProcStep, HealStep, DeliverStep

\* When only the cycle and the manual command run, both under the lock, a
\* delivery never gets two outcome rows, however often its sender died before
\* the row and a repair found it, or it was signed again.
THEOREM ReceiptsAreUnique == Surface \subseteq {"cycle", "lp"} => (Spec => []ReceiptRowUnique)
<1> SUFFICES ASSUME Surface \subseteq {"cycle", "lp"} PROVE Spec => []ReceiptRowUnique
  OBVIOUS
<1>1. Init => UniqueInv
  BY DEF Init, UniqueInv, Idle, Sending, ReceiptRowUnique, RowKinds
<1>2. DeliverInv /\ UniqueInv /\ [Next]_vars => UniqueInv'
  BY UniqueStep
<1>3. UniqueInv => ReceiptRowUnique
  BY DEF UniqueInv
<1> QED BY <1>1, <1>2, <1>3, DeliverInit, DeliverInvStep, PTL DEF Spec

-----------------------------------------------------------------------------
(* The ledger.                                                             *)

evidence == [t \in Delivery |-> JournalEvidence(t)]

\* Rows that do not change leave the evidence as it is.
LEMMA EvidenceKept ==
  ASSUME NEW t \in Delivery, \A k \in RowKinds : journal'[t][k] = journal[t][k]
  PROVE  JournalEvidence(t)' = JournalEvidence(t)
BY DEF JournalEvidence, HasSend, RowKinds

LEMMA EvidenceMoves ==
  ASSUME NEW t \in Delivery, \A u \in Delivery \ {t} : JournalEvidence(u)' = JournalEvidence(u)
  PROVE  evidence' = [evidence EXCEPT ![t] = JournalEvidence(t)']
BY DEF evidence

\* A send row is the ledger's witness, unless there is evidence already.
LEMMA SendRow ==
  ASSUME DeliverInv, NEW t \in Delivery, NEW k \in {"sent", "unknown"}, AppendRow(t, k),
         UNCHANGED outcome
  PROVE  Ledger!Witness(t) \/ UNCHANGED <<outcome, evidence>>
<1>1. /\ journal \in [Delivery -> [RowKinds -> Nat]] /\ k \in RowKinds /\ ReceiptHasSend
  BY DEF DeliverInv, TypeInv, TypeOK, JournalInv, RowKinds
<1>2. /\ journal' \in [Delivery -> [RowKinds -> Nat]]
      /\ journal'[t][k] = journal[t][k] + 1
      /\ \A u \in Delivery, l \in RowKinds : (u # t \/ l # k) => journal'[u][l] = journal[u][l]
  BY <1>1, AppendFits
<1>3. \A u \in Delivery \ {t} : JournalEvidence(u)' = JournalEvidence(u)
  BY <1>2, EvidenceKept
<1>4. CASE HasSend(t)
  <2>1. JournalEvidence(t)' = JournalEvidence(t)
    BY <1>1, <1>2, <1>4 DEF JournalEvidence, HasSend, RowKinds
  <2> QED BY <1>3, <2>1 DEF evidence
<1>5. CASE ~HasSend(t)
  <2>1. ~HasReceipt(t)
    BY <1>1, <1>5 DEF ReceiptHasSend
  <2>2. JournalEvidence(t) = "none" /\ JournalEvidence(t)' = "sent"
    BY <1>1, <1>2, <1>5, <2>1 DEF JournalEvidence, HasSend, HasReceipt, RowKinds
  <2> QED BY <1>3, <2>2, EvidenceMoves DEF Ledger!Witness, evidence
<1> QED BY <1>4, <1>5

\* An outcome row settles a delivery the first time; a second one repeats it.
LEMMA OutcomeSettles ==
  ASSUME DeliverInv, NEW t \in Delivery, outcome[t] # "none", HasSend(t),
         AppendRow(t, OutcomeRow(outcome[t])), UNCHANGED outcome
  PROVE  Ledger!Settle(t) \/ UNCHANGED <<outcome, evidence>>
<1> DEFINE k == OutcomeRow(outcome[t])
<1>1. /\ journal \in [Delivery -> [RowKinds -> Nat]] /\ k \in {"confirmed", "failed"}
      /\ k \in RowKinds /\ k = Ledger!Verdict(outcome[t])
      /\ k = "confirmed" => ~(journal[t]["failed"] > 0)
      /\ k = "failed" => ~(journal[t]["confirmed"] > 0)
  BY DEF DeliverInv, TypeInv, TypeOK, JournalInv, RowKinds, OutcomeRow, ReceiptRowsTrue,
         Ledger!Verdict
<1>2. AppendRow(t, k)
  OBVIOUS
<1> HIDE DEF k
<1>3. /\ journal'[t][k] = journal[t][k] + 1
      /\ \A u \in Delivery, l \in RowKinds : (u # t \/ l # k) => journal'[u][l] = journal[u][l]
  BY <1>1, <1>2, AppendFits
<1>4. \A u \in Delivery \ {t} : JournalEvidence(u)' = JournalEvidence(u)
  BY <1>3, EvidenceKept
<1>5. JournalEvidence(t)' = k
  <2>1. CASE k = "confirmed"
    BY <1>1, <1>3, <2>1 DEF JournalEvidence, RowKinds
  <2>2. CASE k = "failed"
    BY <1>1, <1>3, <2>2 DEF JournalEvidence, RowKinds
  <2> QED BY <1>1, <2>1, <2>2
<1>6. JournalEvidence(t) = IF HasReceipt(t) THEN k ELSE "sent"
  BY <1>1 DEF JournalEvidence, HasReceipt, RowKinds
<1>7. CASE HasReceipt(t)
  BY <1>4, <1>5, <1>6, <1>7 DEF evidence
<1>8. CASE ~HasReceipt(t)
  BY <1>1, <1>4, <1>5, <1>6, <1>8, EvidenceMoves DEF Ledger!Settle, evidence
<1> QED BY <1>7, <1>8

\* A delivery that is mined lands in the ledger: it had no fate yet, and no
\* other one has spent its Safe nonce.
LEMMA MineLands ==
  ASSUME DeliverInv, NEW t \in Delivery, Mine(t)
  PROVE  Ledger!Land(t)
<1>1. /\ outcome[t] = "none"
      /\ outcome \in [Delivery -> {"none", "success", "reverted"}]
      /\ safeNonce \in Nat /\ relayerNonce \in Nat
  BY BoundAssumption DEF Mine, DeliverInv, TypeInv, TypeOK, ChainInv
<1>2. t.nonce = safeNonce => \A e \in Delivery : e.nonce = t.nonce => outcome[e] # "success"
  BY <1>1 DEF DeliverInv, ChainInv
<1>3. \A u \in Delivery : JournalEvidence(u)' = JournalEvidence(u)
  BY EvidenceKept DEF Mine
<1>4. evidence' = evidence
  BY <1>3 DEF evidence
<1>5. \E f \in {"success", "reverted"} :
         /\ f = "success" => \A e \in Delivery : e.nonce = t.nonce => outcome[e] # "success"
         /\ outcome' = [outcome EXCEPT ![t] = f]
  BY <1>2 DEF Mine
<1> QED BY <1>1, <1>4, <1>5 DEF Ledger!Land, evidence

LEMMA LedgerStep ==
  ASSUME DeliverInv, [Next]_vars
  PROVE  [Ledger!Next]_(Ledger!vars)
<1>1. ASSUME journal' = journal, outcome' = outcome PROVE UNCHANGED <<outcome, evidence>>
  BY <1>1, EvidenceKept DEF evidence
<1>2. ASSUME NEW t \in Delivery, Mine(t) PROVE Ledger!Land(t)
  BY <1>2, MineLands
<1>3. ASSUME NEW p \in Proc, NEW t \in Delivery, HealRow(p, t)
      PROVE  Ledger!Settle(t) \/ UNCHANGED <<outcome, evidence>>
  BY <1>3, OutcomeSettles DEF HealRow, chain, DeliverInv, JournalInv
<1>4. ASSUME NEW p \in Proc, RecordReceipt(p) \/ RecordSend(p)
      PROVE  (\E t \in Delivery : Ledger!Settle(t) \/ Ledger!Witness(t))
             \/ UNCHANGED <<outcome, evidence>>
  <2>1. WireOK(sess[p]) /\ (sess[p].pc = "await" => HasSend(sess[p].wire))
    BY DEF DeliverInv, TypeInv, JournalInv
  <2>2. CASE RecordReceipt(p)
    <3>1. sess[p].wire \in Delivery /\ HasSend(sess[p].wire)
      BY <2>1, <2>2 DEF RecordReceipt, WireOK, Sending
    <3> QED BY <2>2, <3>1, OutcomeSettles DEF RecordReceipt, chain
  <2>3. CASE RecordSend(p)
    <3>1. sess[p].wire \in Delivery
      BY <2>1, <2>3 DEF RecordSend, WireOK, Sending
    <3>2. PICK k \in {"sent", "unknown"} : AppendRow(sess[p].wire, k)
      BY <2>3 DEF RecordSend
    <3> QED BY <2>3, <3>1, <3>2, SendRow DEF RecordSend, chain
  <2> QED BY <1>4, <2>2, <2>3
<1>5. ASSUME NEW p \in Proc,
             \/ Crash(p) \/ ReadJournal(p) \/ HealUnreadable(p) \/ HealDone(p)
             \/ \E s \in AllSurfaces : Start(p, s)
             \/ \E t \in Delivery : HealUnproven(p, t)
             \/ Finish(p) \/ Refuse(p) \/ Timeout(p) \/ ReadState(p)
             \/ \E k \in 1..MaxSteps : Plan(p, k)
             \/ \E a \in Action, r \in 0..MaxNonce : Estimate(p, a, r)
      PROVE  journal' = journal /\ outcome' = outcome
  BY <1>5 DEF Crash, ReadJournal, HealUnreadable, HealDone, Start, HealUnproven, Finish,
              Refuse, Timeout, ReadState, Plan, Estimate, chain
<1>6. ASSUME NEW p \in Proc, BroadcastAcked(p) \/ \E b \in BOOLEAN : BroadcastUnacked(p, b)
      PROVE  journal' = journal /\ outcome' = outcome
  BY <1>6 DEF BroadcastAcked, BroadcastUnacked, Put
<1>7. ASSUME \/ \E t \in Delivery : Evict(t)
             \/ \E b \in BOOLEAN : OthersExecute(b)
             \/ UNCHANGED vars
      PROVE  journal' = journal /\ outcome' = outcome
  BY <1>7 DEF Evict, OthersExecute, vars
<1>8. (\E t \in Delivery : Ledger!Land(t) \/ Ledger!Settle(t) \/ Ledger!Witness(t))
      \/ UNCHANGED <<outcome, evidence>>
  BY <1>1, <1>2, <1>3, <1>4, <1>5, <1>6, <1>7
  DEF Next, ProcStep, HealStep, DeliverStep, ChainStep
<1> QED BY <1>8 DEF Ledger!Next, Ledger!vars, evidence

\* The delivery layer implements the ledger, whichever surfaces run: a step
\* decides a fate, gives the first evidence of a delivery, settles it as the
\* chain did, or does nothing the ledger can see.
THEOREM DeliveryImplementsLedger == Spec => ImplementsLedger
<1>1. Init => Ledger!Init
  BY DEF Init, Ledger!Init, JournalEvidence, HasSend, RowKinds
<1>2. DeliverInv /\ [Next]_vars => [Ledger!Next]_(Ledger!vars)
  BY LedgerStep
<1> QED BY <1>1, <1>2, Invariance, PTL DEF Spec, ImplementsLedger, Ledger!SafeSpec

-----------------------------------------------------------------------------
(* What the repair owes.                                                   *)

\* A delivery that landed, left a send row and has no outcome row yet.
Owed(t) == HasSend(t) /\ outcome[t] # "none" /\ ~HasReceipt(t)

\* No fate, send row or outcome row is ever taken back; a repair pass begins
\* with all that is owed, and lets go of none of it but by writing its row or
\* by ending altogether (_heal_unconfirmed_sent_deliveries). Whatever other
\* processes append beside it, a pass that comes to its end leaves nothing
\* owed of what was owed when it read the journal.
RepairLeavesNothing ==
    [][\A p \in Proc, t \in Delivery : Owed(t) =>
          /\ Owed(t)' \/ HasReceipt(t)'
          /\ sess[p].pc = "journal" /\ sess'[p].pc = "heal" => t \in sess'[p].todo
          /\ sess[p].pc = "heal" /\ t \in sess[p].todo =>
               \/ HasReceipt(t)'
               \/ sess'[p].pc = "heal" /\ t \in sess'[p].todo
               \/ sess'[p] = Idle]_vars

\* A session changes by a step of its own process.
LEMMA OwnStep ==
  ASSUME TypeInv, Next, NEW p \in Proc, sess'[p] # sess[p]
  PROVE  Crash(p) \/ ProcStep(p) \/ \E s \in AllSurfaces : Start(p, s)
<1>2. CASE ChainStep
  BY <1>2 DEF ChainStep, Mine, Evict, OthersExecute
<1>3. PICK q \in Proc : Crash(q) \/ ProcStep(q) \/ \E s \in AllSurfaces : Start(q, s)
  BY <1>2 DEF Next
<1>4. \E x : Become(q, x)
  <2>1. CASE Crash(q) \/ \E s \in AllSurfaces : Start(q, s)
    BY <2>1 DEF Crash, Start, Leave
  <2>2. CASE ReadJournal(q) \/ HealStep(q)
    BY <2>2 DEF ReadJournal, HealStep, HealRow, HealUnproven, HealUnreadable, HealDone, Leave
  <2>3. CASE DeliverStep(q)
    <3>1. CASE BroadcastAcked(q) \/ \E b \in BOOLEAN : BroadcastUnacked(q, b)
      BY <3>1 DEF BroadcastAcked, BroadcastUnacked, Put
    <3>2. CASE RecordReceipt(q)
      BY <3>2 DEF RecordReceipt, AfterStep, Leave
    <3>3. CASE \/ \E k \in 1..MaxSteps : Plan(q, k)
               \/ \E a \in Action, r \in 0..MaxNonce : Estimate(q, a, r)
               \/ Finish(q) \/ Refuse(q) \/ RecordSend(q) \/ Timeout(q) \/ ReadState(q)
      BY <3>3 DEF ReadState, Plan, Estimate, Finish, Refuse, RecordSend, Timeout, Leave
    <3> QED BY <2>3, <3>1, <3>2, <3>3 DEF DeliverStep
  <2> QED BY <1>3, <2>1, <2>2, <2>3 DEF ProcStep
<1>5. q = p
  BY <1>4 DEF Become, TypeInv, TypeOK
<1> QED BY <1>3, <1>5

\* No row is ever taken back.
LEMMA RowsStay ==
  ASSUME DeliverInv, [Next]_vars, NEW t \in Delivery
  PROVE  (HasSend(t) => HasSend(t)') /\ (HasReceipt(t) => HasReceipt(t)')
<1>0. journal \in [Delivery -> [RowKinds -> Nat]]
  BY DEF DeliverInv, TypeInv, TypeOK
<1>1. CASE journal' = journal
  BY <1>1 DEF HasSend, HasReceipt
<1>2. CASE \E u \in Delivery, k \in RowKinds : AppendRow(u, k)
  <2>1. PICK u \in Delivery, k \in RowKinds : AppendRow(u, k)
    BY <1>2
  <2>2. \A l \in RowKinds : journal'[t][l] \in {journal[t][l], journal[t][l] + 1}
    BY <1>0, <2>1, AppendFits
  <2>3. \A l \in RowKinds : journal[t][l] \in Nat
    BY <1>0
  <2> QED BY <2>2, <2>3 DEF HasSend, HasReceipt, RowKinds
<1>3. CASE UNCHANGED vars
  BY <1>1, <1>3 DEF vars
<1>4. CASE ChainStep
  BY <1>1, <1>4 DEF ChainStep, Mine, Evict, OthersExecute
<1>5. ASSUME NEW p \in Proc, Crash(p) \/ ReadJournal(p) \/ \E s \in AllSurfaces : Start(p, s)
      PROVE  journal' = journal
  BY <1>5 DEF Crash, ReadJournal, Start
<1>6. ASSUME NEW p \in Proc, HealStep(p)
      PROVE  journal' = journal \/ \E u \in Delivery, k \in RowKinds : AppendRow(u, k)
  BY <1>6 DEF HealStep, HealRow, HealUnproven, HealUnreadable, HealDone, OutcomeRow, RowKinds
<1>7. ASSUME NEW p \in Proc, DeliverStep(p)
      PROVE  journal' = journal \/ \E u \in Delivery, k \in RowKinds : AppendRow(u, k)
  <2>1. WireOK(sess[p])
    BY DEF DeliverInv, TypeInv
  <2>2. CASE RecordReceipt(p) \/ RecordSend(p)
    <3>1. sess[p].wire \in Delivery
      BY <2>1, <2>2 DEF RecordReceipt, RecordSend, WireOK, Sending
    <3>2. \E k \in RowKinds : AppendRow(sess[p].wire, k)
      BY <2>2 DEF RecordReceipt, RecordSend, OutcomeRow, RowKinds
    <3> QED BY <3>1, <3>2
  <2>3. CASE ~(RecordReceipt(p) \/ RecordSend(p))
    BY <1>7, <2>3 DEF DeliverStep, ReadState, Plan, Finish, Estimate, Refuse, Timeout, BroadcastAcked,
                      BroadcastUnacked, Put
  <2> QED BY <2>2, <2>3
<1> QED BY <1>1, <1>2, <1>3, <1>4, <1>5, <1>6, <1>7 DEF Next, ProcStep

\* What a step of a repairing process may do with its snapshot.
LEMMA RepairStep ==
  ASSUME DeliverInv, Next, NEW p \in Proc, NEW t \in Delivery, Owed(t)
  PROVE  /\ sess[p].pc = "journal" /\ sess'[p].pc = "heal" => t \in sess'[p].todo
         /\ sess[p].pc = "heal" /\ t \in sess[p].todo =>
              \/ HasReceipt(t)'
              \/ sess'[p].pc = "heal" /\ t \in sess'[p].todo
              \/ sess'[p] = Idle
<1>0. /\ sess \in [Proc -> Session] /\ journal \in [Delivery -> [RowKinds -> Nat]] /\ TypeInv
      /\ outcome \in [Delivery -> {"none", "success", "reverted"}]
  BY DEF DeliverInv, TypeInv, TypeOK
<1>1. CASE sess'[p] = sess[p]
  BY <1>1
<1>2. CASE Crash(p)
  BY <1>0, <1>2 DEF Crash, Leave, Become, Idle
<1>3. CASE \E s \in AllSurfaces : Start(p, s)
  BY <1>3 DEF Start
<1>4. CASE ReadJournal(p)
  <2>1. sess'[p] = [sess[p] EXCEPT !.pc = "heal", !.todo = Gaps] /\ sess[p].pc = "journal"
    BY <1>0, <1>4 DEF ReadJournal, Become
  <2>2. t \in Gaps
    BY DEF Owed, Gaps
  <2>3. sess[p] \in Session
    BY <1>0
  <2> QED BY <2>1, <2>2, <2>3 DEF Session
<1>5. CASE \E u \in Delivery : HealRow(p, u)
  <2>1. PICK u \in Delivery : HealRow(p, u)
    BY <1>5
  <2>2. CASE u = t
    <3>1. OutcomeRow(outcome[t]) \in {"confirmed", "failed"} /\ AppendRow(t, OutcomeRow(outcome[t]))
      BY <2>1, <2>2 DEF HealRow, OutcomeRow
    <3> DEFINE k == OutcomeRow(outcome[t])
    <3> HIDE DEF k
    <3>2. /\ k \in {"confirmed", "failed"} /\ k \in RowKinds /\ AppendRow(t, k)
      BY <3>1 DEF RowKinds, k
    <3>3. /\ journal' \in [Delivery -> [RowKinds -> Nat]]
          /\ journal'[t][k] = journal[t][k] + 1
      BY <1>0, <3>2, AppendFits
    <3>4. journal'[t]["confirmed"] \in Nat /\ journal'[t]["failed"] \in Nat /\ journal[t][k] \in Nat
      BY <1>0, <3>2, <3>3 DEF RowKinds
    <3>5. HasReceipt(t)'
      BY <3>2, <3>3, <3>4 DEF HasReceipt
    <3>6. sess[p].pc = "heal"
      BY <2>1 DEF HealRow
    <3> QED BY <3>5, <3>6
  <2>3. CASE u # t
    <3>1. sess'[p] = [sess[p] EXCEPT !.todo = @ \ {u}] /\ sess[p].pc = "heal" /\ sess[p] \in Session
      BY <1>0, <2>1 DEF HealRow, Become
    <3> QED BY <2>3, <3>1 DEF Session
  <2> QED BY <2>2, <2>3
<1>6. CASE \E u \in Delivery : HealUnproven(p, u)
  <2>1. PICK u \in Delivery : HealUnproven(p, u)
    BY <1>6
  <2>2. u # t
    BY <2>1 DEF HealUnproven, Owed
  <2>3. sess'[p] = [sess[p] EXCEPT !.todo = @ \ {u}] /\ sess[p].pc = "heal" /\ sess[p] \in Session
    BY <1>0, <2>1 DEF HealUnproven, Become
  <2> QED BY <2>2, <2>3 DEF Session
<1>7. CASE HealUnreadable(p) \/ HealDone(p)
  <2>1. sess[p].pc = "heal"
    BY <1>7 DEF HealUnreadable, HealDone
  <2>2. sess[p].todo = {} \/ sess'[p] = Idle
    BY <1>0, <1>7 DEF HealUnreadable, HealDone, Leave, Become
  <2> QED BY <2>1, <2>2
<1>8. CASE DeliverStep(p)
  BY <1>8 DEF DeliverStep, ReadState, Plan, Finish, Estimate, Refuse, RecordSend, Timeout, RecordReceipt,
              BroadcastAcked, BroadcastUnacked, Put
<1> QED
  BY <1>0, <1>1, <1>2, <1>3, <1>4, <1>5, <1>6, <1>7, <1>8, OwnStep DEF ProcStep, HealStep

\* The safety half of LandedHealed: what is owed stays owed until its row is
\* written, and no pass that ends leaves out what it set out with.
THEOREM RepairsAreThorough == Spec => RepairLeavesNothing
<1> DEFINE Thorough ==
       \A p \in Proc, t \in Delivery : Owed(t) =>
          /\ Owed(t)' \/ HasReceipt(t)'
          /\ sess[p].pc = "journal" /\ sess'[p].pc = "heal" => t \in sess'[p].todo
          /\ sess[p].pc = "heal" /\ t \in sess[p].todo =>
               \/ HasReceipt(t)'
               \/ sess'[p].pc = "heal" /\ t \in sess'[p].todo
               \/ sess'[p] = Idle
<1>1. DeliverInv /\ Next => Thorough
  <2> SUFFICES ASSUME DeliverInv, Next, NEW p \in Proc, NEW t \in Delivery, Owed(t)
               PROVE  /\ Owed(t)' \/ HasReceipt(t)'
                      /\ sess[p].pc = "journal" /\ sess'[p].pc = "heal" => t \in sess'[p].todo
                      /\ sess[p].pc = "heal" /\ t \in sess[p].todo =>
                           \/ HasReceipt(t)'
                           \/ sess'[p].pc = "heal" /\ t \in sess'[p].todo
                           \/ sess'[p] = Idle
    OBVIOUS
  <2>1. HasSend(t)' /\ outcome'[t] # "none"
    BY RowsStay, ChainMoves DEF Owed
  <2>2. Owed(t)' \/ HasReceipt(t)'
    BY <2>1 DEF Owed
  <2> QED BY <2>2, RepairStep
<1>2. DeliverInv /\ [Next]_vars => [Thorough]_vars
  BY <1>1
<1> QED BY <1>2, Invariance, PTL DEF Spec, RepairLeavesNothing
=============================================================================
