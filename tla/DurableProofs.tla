---------------------------- MODULE DurableProofs ----------------------------
(***************************************************************************)
(* Proofs about what outlives a process: the audit store, for any number   *)
(* of processes and events, any retry bound, any page size and any digest  *)
(* function, the pool pins, for any pools and users, and the suite of both *)
(* and of the cycle's recovery.                                            *)
(***************************************************************************)
EXTENDS MCDurable, CycleRecoveryProofs, SequenceTheorems

-----------------------------------------------------------------------------
(* The audit store.                                                        *)

(* The inductive invariant.  The digest is uninterpreted, so the values    *)
(* stored as digests are drawn from a set D that grows with every insert.  *)

Rec(D) == [seq : Nat, event : Event, prev : D, hash : D]
Job(D) == [pc : {"idle", "begin", "locked", "insert", "done"}, event : Event \cup {None},
           tries : Nat, row : Rec(D) \cup {None}]
Read(D) == [pc : {"idle", "read", "done"}, acc : Seq(Rec(D)), atleast : Nat]

Stored(D) == /\ Genesis \in D
             /\ rows \in Seq(Rec(D))
             /\ app \in [Proc -> Job(D)]
             /\ reader \in Read(D)

TypeInv == /\ \E D : Stored(D)
           /\ wlock \in Proc \cup {Nobody}
           /\ verdict \in [Event -> {"none", "returned", "raised", "lost"}]
           /\ tampered \in BOOLEAN

\* Only the holder of the write lock is inside the transaction.
LockInv == \A p \in Proc : app[p].pc \in {"locked", "insert"} <=> wlock = p

\* The row about to be inserted still fits the chain it was computed from.
RowInv == \A p \in Proc : app[p].pc = "insert" =>
             Verified(rows) /\ app[p].row = NewRecord(rows, app[p].event)

\* An append under way has a fresh event of its own.
JobInv == \A p \in Proc : /\ app[p].pc # "idle" => app[p].event \in Event
                          /\ app[p].pc = "begin" => app[p].tries < MaxTries

StoreInv == TypeInv /\ LockInv /\ RowInv /\ JobInv /\ ChainIntact

USE StoreAssumption

-----------------------------------------------------------------------------
(* Chains.                                                                 *)

\* A new record is typed, and stands where it was made for.
LEMMA NewRecordTyped ==
  ASSUME NEW D, Genesis \in D, NEW s \in Seq(Rec(D)), NEW e \in Event
  PROVE  NewRecord(s, e) \in Rec(D \cup {NewRecord(s, e).hash})
  <1>1. Predecessor(s, Len(s) + 1) \in D
    <2>1. CASE Len(s) = 0
      BY <2>1 DEF Predecessor
    <2>2. CASE Len(s) # 0
      <3>1. Len(s) \in 1..Len(s) /\ Len(s) + 1 # 1 /\ (Len(s) + 1) - 1 = Len(s)
        BY <2>2
      <3>2. s[Len(s)] \in Rec(D)
        BY <3>1
      <3> QED
        BY <3>1, <3>2 DEF Predecessor, Rec
    <2> QED
      BY <2>1, <2>2
  <1> DEFINE h == Hash(Len(s) + 1, e, Predecessor(s, Len(s) + 1))
  <1>2. NewRecord(s, e) = [seq |-> Len(s) + 1, event |-> e,
                           prev |-> Predecessor(s, Len(s) + 1), hash |-> h]
    BY DEF NewRecord
  <1>3. NewRecord(s, e).hash = h
    BY <1>2
  <1> HIDE DEF h
  <1> QED
    BY <1>1, <1>2, <1>3 DEF Rec

\* A verified chain that gains its new record still verifies.
LEMMA VerifiedAppend ==
  ASSUME NEW R, NEW s \in Seq(R), NEW e, Verified(s)
  PROVE  Verified(Append(s, NewRecord(s, e)))
  <1> DEFINE r == NewRecord(s, e)
             u == Append(s, r)
  <1>1. /\ Len(u) = Len(s) + 1 /\ u[Len(s) + 1] = r
        /\ \A i \in 1..Len(s) : u[i] = s[i]
    OBVIOUS
  <1>2. /\ r.seq = Len(s) + 1
        /\ r.prev = Predecessor(s, Len(s) + 1)
        /\ r.hash = Hash(Len(s) + 1, e, Predecessor(s, Len(s) + 1))
        /\ r.event = e
    BY DEF NewRecord
  <1> HIDE DEF r, u
  <1>3. \A i \in 1..(Len(s) + 1) : Predecessor(u, i) = Predecessor(s, i)
    BY <1>1 DEF Predecessor
  <1>4. ASSUME NEW i \in 1..(Len(s) + 1) PROVE RecordOK(u, i)
    <2>1. CASE i = Len(s) + 1
      BY <1>1, <1>2, <1>3, <2>1 DEF RecordOK
    <2>2. CASE i # Len(s) + 1
      <3>1. i \in 1..Len(s)
        BY <2>2
      <3>2. RecordOK(s, i)
        BY <3>1 DEF Verified
      <3> QED
        BY <1>1, <1>3, <3>1, <3>2 DEF RecordOK
    <2> QED
      BY <2>1, <2>2
  <1>5. Verified(u)
    BY <1>1, <1>4 DEF Verified
  <1> QED
    BY <1>5 DEF r, u

\* A larger set of digests types the same state.
LEMMA StoredGrows ==
  ASSUME NEW D, NEW E, D \subseteq E, Stored(D) PROVE Stored(E)
  <1>1. Rec(D) \subseteq Rec(E)
    BY DEF Rec
  <1>2. Seq(Rec(D)) \subseteq Seq(Rec(E))
    BY <1>1
  <1>3. Job(D) \subseteq Job(E)
    BY <1>1 DEF Job
  <1>4. Read(D) \subseteq Read(E)
    BY <1>2 DEF Read
  <1> QED
    BY <1>2, <1>3, <1>4 DEF Stored

-----------------------------------------------------------------------------
(* Type correctness, one lemma per step.                                   *)

\* A process that leaves its append is idle, and tells one verdict.
LEMMA QuitTyped ==
  ASSUME NEW D, NEW p \in Proc, NEW v \in {"returned", "raised", "lost"},
         TypeInv, Stored(D), app[p].event \in Event, Quit(p, v),
         UNCHANGED <<rows, reader, tampered>>
  PROVE  TypeInv' /\ Stored(D)'
  <1>1. NoAppend \in Job(D)
    BY DEF NoAppend, Job
  <1>2. Stored(D)'
    BY <1>1 DEF Quit, Becomes, Stored
  <1>3. wlock' \in Proc \cup {Nobody} /\ tampered' \in BOOLEAN
    BY DEF Quit, TypeInv
  <1>4. verdict' \in [Event -> {"none", "returned", "raised", "lost"}]
    BY DEF Quit, TypeInv
  <1> QED
    BY <1>2, <1>3, <1>4 DEF TypeInv

\* The application record of one process is replaced by a typed one.
LEMMA JobTyped ==
  ASSUME NEW D, NEW p \in Proc, NEW j \in Job(D), Stored(D),
         app' = [app EXCEPT ![p] = j], UNCHANGED <<rows, reader>>
  PROVE  Stored(D)'
  BY DEF Stored

\* A new event is put into an empty application record.
LEMMA FreshJob ==
  ASSUME NEW D, NEW e \in Event, NEW j, j = [NoAppend EXCEPT !.pc = "begin", !.event = e]
  PROVE  j \in Job(D) /\ j.pc = "begin" /\ j.event = e /\ j.tries = 0
  <1> DEFINE y == [NoAppend EXCEPT !.pc = "begin"]
  <1>1. y \in Job(D) /\ y.pc = "begin" /\ y.tries = 0
    BY DEF Job, NoAppend
  <1>2. j = [y EXCEPT !.event = e]
    OBVIOUS
  <1> HIDE DEF y
  <1> QED
    BY <1>1, <1>2 DEF Job

\* The initial state satisfies the inductive invariant.
LEMMA StoreInvInit == StoreInit => StoreInv
  <1> SUFFICES ASSUME StoreInit PROVE StoreInv
    OBVIOUS
  <1>1. Stored({Genesis})
    <2>1. NoAppend \in Job({Genesis}) /\ NoRead \in Read({Genesis})
      BY DEF NoAppend, NoRead, Job, Read
    <2> QED
      BY <2>1 DEF StoreInit, Stored
  <1>2. TypeInv
    BY <1>1 DEF StoreInit, TypeInv
  <1>3. ChainIntact
    BY DEF StoreInit, ChainIntact, Verified
  <1> QED
    BY <1>2, <1>3 DEF StoreInit, StoreInv, LockInv, RowInv, JobInv, NoAppend

-----------------------------------------------------------------------------
(* Appending.                                                              *)

\* Nothing but the process's own record and its verdict changes when it quits.
LEMMA QuitInv ==
  ASSUME StoreInv, NEW p \in Proc, NEW v \in {"returned", "raised", "lost"},
         app[p].pc # "idle", Quit(p, v), UNCHANGED <<rows, reader, tampered>>
  PROVE  StoreInv'
  <1>1. PICK D : Stored(D)
    BY DEF StoreInv, TypeInv
  <1>2. app[p].event \in Event
    BY DEF StoreInv, JobInv
  <1>3. TypeInv' /\ Stored(D)'
    BY <1>1, <1>2, QuitTyped DEF StoreInv
  <1>4. \A q \in Proc : app'[q] = IF q = p THEN NoAppend ELSE app[q]
    BY <1>1 DEF Quit, Becomes, Stored
  <1>5. LockInv'
    BY <1>4 DEF StoreInv, LockInv, Quit, NoAppend
  <1>6. RowInv'
    BY <1>4 DEF StoreInv, RowInv, NoAppend
  <1>7. JobInv' /\ ChainIntact'
    BY <1>4 DEF StoreInv, JobInv, ChainIntact, NoAppend
  <1> QED
    BY <1>3, <1>5, <1>6, <1>7 DEF StoreInv

\* A call asks for a new event.
LEMMA RequestInv ==
  ASSUME StoreInv, NEW p \in Proc, NEW e \in Event, Request(p, e) PROVE StoreInv'
  <1> DEFINE j == [NoAppend EXCEPT !.pc = "begin", !.event = e]
  <1>1. PICK D : Stored(D)
    BY DEF StoreInv, TypeInv
  <1>2. app' = [app EXCEPT ![p] = j]
    BY DEF Request, Becomes
  <1>3. j \in Job(D) /\ j.pc = "begin" /\ j.event = e /\ j.tries = 0
    <2>1. j = [NoAppend EXCEPT !.pc = "begin", !.event = e]
      OBVIOUS
    <2> HIDE DEF j
    <2> QED
      BY <2>1, FreshJob
  <1> HIDE DEF j
  <1>4. Stored(D)'
    BY <1>1, <1>2, <1>3, JobTyped DEF Request
  <1>5. \A q \in Proc : app'[q] = IF q = p THEN j ELSE app[q]
    BY <1>1, <1>2 DEF Stored
  <1>6. TypeInv'
    BY <1>4 DEF Request, StoreInv, TypeInv
  <1>7. LockInv' /\ RowInv'
    BY <1>3, <1>5 DEF StoreInv, LockInv, RowInv, Request
  <1>8. JobInv' /\ ChainIntact'
    <2>1. 0 < MaxTries
      OBVIOUS
    <2>2. JobInv'
      BY <1>3, <1>5, <2>1 DEF StoreInv, JobInv
    <2> QED
      BY <2>2 DEF StoreInv, ChainIntact, Request
  <1> QED
    BY <1>6, <1>7, <1>8 DEF StoreInv

\* The write lock is taken by one process.
LEMMA BeginInv ==
  ASSUME StoreInv, NEW p \in Proc, Begin(p) PROVE StoreInv'
  <1>1. PICK D : Stored(D)
    BY DEF StoreInv, TypeInv
  <1> DEFINE j == [app[p] EXCEPT !.pc = "locked"]
  <1>2. app' = [app EXCEPT ![p] = j]
    BY DEF Begin, Becomes
  <1>3. j \in Job(D) /\ j.pc = "locked" /\ j.event = app[p].event
    BY <1>1 DEF Stored, Job
  <1> HIDE DEF j
  <1>4. Stored(D)'
    BY <1>1, <1>2, <1>3, JobTyped DEF Begin
  <1>5. \A q \in Proc : app'[q] = IF q = p THEN j ELSE app[q]
    BY <1>1, <1>2 DEF Stored
  <1>6. TypeInv'
    BY <1>4 DEF Begin, StoreInv, TypeInv
  <1>7. LockInv' /\ RowInv'
    BY <1>3, <1>5 DEF StoreInv, LockInv, RowInv, Begin
  <1>8. JobInv' /\ ChainIntact'
    BY <1>3, <1>5 DEF StoreInv, JobInv, ChainIntact, Begin
  <1> QED
    BY <1>6, <1>7, <1>8 DEF StoreInv

\* A locked-out attempt is counted, or the last one raises.
LEMMA BusyInv ==
  ASSUME StoreInv, NEW p \in Proc, Busy(p) PROVE StoreInv'
  <1>1. PICK D : Stored(D)
    BY DEF StoreInv, TypeInv
  <1> DEFINE c == app[p].tries + 1 < MaxTries
  <1>2. CASE ~c
    <2>1. Quit(p, "raised") /\ app[p].pc # "idle" /\ UNCHANGED <<rows, reader, tampered>>
      BY <1>2 DEF Busy
    <2> QED
      BY <2>1, QuitInv
  <1>3. CASE c
    <2> DEFINE j == [app[p] EXCEPT !.tries = app[p].tries + 1]
    <2>1. app' = [app EXCEPT ![p] = j] /\ UNCHANGED <<rows, reader, wlock, verdict, tampered>>
      <3>1. IF c THEN app' = [app EXCEPT ![p] = j] /\ UNCHANGED <<wlock, verdict>>
                 ELSE Quit(p, "raised")
        BY DEF Busy, Becomes
      <3> HIDE DEF c, j
      <3> QED
        BY <1>3, <3>1 DEF Busy
    <2>2. /\ j \in Job(D) /\ j.pc = "begin" /\ j.event = app[p].event
          /\ j.tries = app[p].tries + 1
      <3> DEFINE n == app[p].tries + 1
      <3>1. app[p] \in Job(D) /\ app[p].pc = "begin"
        BY <1>1 DEF Stored, Busy
      <3>2. n \in Nat
        BY <3>1 DEF Job
      <3>3. j = [app[p] EXCEPT !.tries = n]
        OBVIOUS
      <3> HIDE DEF n, j
      <3>4. j \in Job(D) /\ j.pc = "begin"
        BY <3>1, <3>2, <3>3 DEF Job
      <3>5. j.event = app[p].event /\ j.tries = n
        BY <3>1, <3>3 DEF Job
      <3> QED
        BY <3>4, <3>5 DEF n
    <2> HIDE DEF j
    <2>3. Stored(D)'
      BY <1>1, <2>1, <2>2, JobTyped
    <2>4. \A q \in Proc : app'[q] = IF q = p THEN j ELSE app[q]
      BY <1>1, <2>1 DEF Stored
    <2>5. TypeInv'
      BY <2>1, <2>3 DEF StoreInv, TypeInv
    <2>6. LockInv' /\ RowInv'
      BY <2>1, <2>2, <2>4 DEF StoreInv, LockInv, RowInv, Busy
    <2>7. JobInv' /\ ChainIntact'
      BY <1>3, <2>1, <2>2, <2>4 DEF StoreInv, JobInv, ChainIntact, Busy
    <2> QED
      BY <2>5, <2>6, <2>7 DEF StoreInv
  <1> QED
    BY <1>2, <1>3

\* The row is computed from the verified chain.
LEMMA InsertInv ==
  ASSUME StoreInv, NEW p \in Proc, Insert(p) PROVE StoreInv'
  <1> DEFINE r == NewRecord(rows, app[p].event)
             y == [app[p] EXCEPT !.pc = "insert"]
             j == [y EXCEPT !.row = r]
  <1>1. PICK D : Stored(D)
    BY DEF StoreInv, TypeInv
  <1> PICK E : E = D \cup {r.hash}
    OBVIOUS
  <1>2. app[p].event \in Event
    BY DEF StoreInv, JobInv, Insert
  <1>3. r \in Rec(E)
    BY <1>1, <1>2, NewRecordTyped DEF Stored
  <1>4. Stored(E)
    BY <1>1, StoredGrows
  <1>5. app' = [app EXCEPT ![p] = j]
    BY DEF Insert, Becomes
  <1> HIDE DEF r
  <1>6. j \in Job(E) /\ j.pc = "insert" /\ j.event = app[p].event /\ j.row = r
    <2>1. y \in Job(E) /\ y.pc = "insert" /\ y.event = app[p].event
      BY <1>4 DEF Stored, Job
    <2> HIDE DEF y
    <2> QED
      BY <1>3, <2>1 DEF Job
  <1> HIDE DEF j
  <1>7. Stored(E)'
    BY <1>4, <1>5, <1>6, JobTyped DEF Insert
  <1>8. \A q \in Proc : app'[q] = IF q = p THEN j ELSE app[q]
    BY <1>4, <1>5 DEF Stored
  <1>9. TypeInv'
    BY <1>7 DEF Insert, StoreInv, TypeInv
  <1>10. LockInv'
    BY <1>6, <1>8 DEF StoreInv, LockInv, Insert
  <1>11. RowInv'
    BY <1>6, <1>8 DEF StoreInv, RowInv, Insert, r
  <1>12. JobInv' /\ ChainIntact'
    BY <1>2, <1>6, <1>8 DEF StoreInv, JobInv, ChainIntact, Insert
  <1> QED
    BY <1>9, <1>10, <1>11, <1>12 DEF StoreInv

\* The committed row extends a chain that verified under the same lock.
LEMMA CommitInv ==
  ASSUME StoreInv, NEW p \in Proc, Commit(p) PROVE StoreInv'
  <1> DEFINE j == [app[p] EXCEPT !.pc = "done"]
  <1>1. PICK D : Stored(D)
    BY DEF StoreInv, TypeInv
  <1>2. app[p].event \in Event /\ wlock = p /\ Verified(rows)
        /\ app[p].row = NewRecord(rows, app[p].event)
    BY DEF StoreInv, JobInv, LockInv, RowInv, Commit
  <1> PICK E : E = D \cup {app[p].row.hash}
    OBVIOUS
  <1>3. app[p].row \in Rec(E)
    BY <1>1, <1>2, NewRecordTyped DEF Stored
  <1>4. Stored(E)
    BY <1>1, StoredGrows
  <1>5. rows \in Seq(Rec(E)) /\ rows' \in Seq(Rec(E))
    BY <1>3, <1>4 DEF Stored, Commit
  <1>6. app' = [app EXCEPT ![p] = j]
    BY DEF Commit, Becomes
  <1>7. j \in Job(E) /\ j.pc = "done" /\ j.event = app[p].event
    BY <1>4 DEF Stored, Job
  <1> HIDE DEF j
  <1>8. Stored(E)'
    BY <1>4, <1>5, <1>6, <1>7 DEF Commit, Stored
  <1>9. \A q \in Proc : app'[q] = IF q = p THEN j ELSE app[q]
    BY <1>4, <1>6 DEF Stored
  <1>10. TypeInv'
    BY <1>8 DEF Commit, StoreInv, TypeInv
  <1>11. Verified(rows')
    BY <1>2, <1>5, VerifiedAppend DEF Commit
  <1>12. \A q \in Proc : q # p => app[q].pc \notin {"locked", "insert"}
    BY <1>2 DEF StoreInv, LockInv
  <1>13. LockInv' /\ RowInv'
    BY <1>7, <1>9, <1>12 DEF LockInv, RowInv, Commit
  <1>14. JobInv' /\ ChainIntact'
    <2>1. ChainIntact'
      BY <1>11 DEF ChainIntact
    <2>2. JobInv'
      BY <1>2, <1>7, <1>9 DEF StoreInv, JobInv
    <2> QED
      BY <2>1, <2>2
  <1> QED
    BY <1>10, <1>13, <1>14 DEF StoreInv

-----------------------------------------------------------------------------
(* Reading.                                                                *)

\* A page is the part of the chain behind its offset, cut at the page size.
LEMMA PageIs ==
  ASSUME NEW R, rows \in Seq(R), NEW off \in Nat
  PROVE  /\ Page(off) \in Seq(R)
         /\ Len(Page(off)) <= PageSize
         /\ off <= Len(rows) =>
              /\ off + Len(Page(off)) <= Len(rows)
              /\ Len(Page(off)) < PageSize => off + Len(Page(off)) = Len(rows)
         /\ \A i \in 1..Len(Page(off)) : Page(off)[i] = rows[off + i]
  <1> DEFINE n == IF off + PageSize < Len(rows) THEN off + PageSize ELSE Len(rows)
  <1>1. n \in Nat /\ n <= Len(rows) /\ n <= off + PageSize
    OBVIOUS
  <1>2. n < off + PageSize => n = Len(rows)
    OBVIOUS
  <1>3. Page(off) = SubSeq(rows, off + 1, n)
    BY DEF Page
  <1> HIDE DEF n
  <1>4. \A i \in (off + 1)..n : rows[i] \in R
    BY <1>1
  <1>5. /\ Page(off) \in Seq(R)
        /\ Len(Page(off)) = IF off + 1 <= n THEN n - (off + 1) + 1 ELSE 0
        /\ \A i \in 1..(n - (off + 1) + 1) : Page(off)[i] = rows[(off + 1) + i - 1]
    BY <1>1, <1>3, <1>4, SubSeqProperties
  <1>6. CASE off + 1 <= n
    <2>1. Len(Page(off)) = n - off
      BY <1>1, <1>5, <1>6
    <2>2. \A i \in 1..Len(Page(off)) : Page(off)[i] = rows[off + i]
      <3> TAKE i \in 1..Len(Page(off))
      <3>1. i \in 1..(n - (off + 1) + 1) /\ (off + 1) + i - 1 = off + i
        BY <1>1, <2>1
      <3> QED
        BY <1>5, <3>1
    <2>3. off + Len(Page(off)) = n
      BY <1>1, <2>1
    <2>4. Len(Page(off)) <= PageSize
      BY <1>1, <2>1
    <2>5. Len(Page(off)) < PageSize => n < off + PageSize
      BY <1>1, <2>1
    <2> QED
      BY <1>1, <1>2, <1>5, <2>2, <2>3, <2>4, <2>5
  <1>7. CASE ~(off + 1 <= n)
    <2>1. Len(Page(off)) = 0
      BY <1>5, <1>7
    <2>2. n = Len(rows)
      BY <1>1, <1>2, <1>7
    <2>3. off <= Len(rows) => off = Len(rows)
      BY <1>1, <1>7, <2>2
    <2>4. Page(off) \in Seq(R) /\ Len(Page(off)) <= PageSize
      BY <1>5, <2>1
    <2>5. \A i \in 1..Len(Page(off)) : Page(off)[i] = rows[off + i]
      BY <2>1
    <2> QED
      BY <2>1, <2>3, <2>4, <2>5
  <1> QED
    BY <1>6, <1>7

\* A new read starts from nothing.
LEMMA StartReadInv == ASSUME StoreInv, StartRead PROVE StoreInv'
  <1>1. PICK D : Stored(D)
    BY DEF StoreInv, TypeInv
  <1>2. Stored(D)'
    BY <1>1 DEF Stored, Read, StartRead
  <1>3. TypeInv'
    BY <1>2 DEF StartRead, StoreInv, TypeInv
  <1> QED
    BY <1>3 DEF StartRead, StoreInv, LockInv, RowInv, JobInv, ChainIntact

\* A page only extends what was read.
LEMMA ReadPageInv == ASSUME StoreInv, ReadPage PROVE StoreInv'
  <1>1. PICK D : Stored(D)
    BY DEF StoreInv, TypeInv
  <1> DEFINE a == reader.acc \o Page(Len(reader.acc))
             c == IF Len(Page(Len(reader.acc))) < PageSize THEN "done" ELSE "read"
  <1>2. reader.acc \in Seq(Rec(D)) /\ Page(Len(reader.acc)) \in Seq(Rec(D))
    BY <1>1, PageIs DEF Stored, Read
  <1>3. a \in Seq(Rec(D)) /\ c \in {"read", "done"}
    BY <1>2
  <1>4. reader' = [reader EXCEPT !.acc = a, !.pc = c]
    BY DEF ReadPage
  <1> HIDE DEF a, c
  <1>5. reader' \in Read(D)
    <2> DEFINE y == [reader EXCEPT !.acc = a]
    <2>1. y \in Read(D)
      BY <1>1, <1>3 DEF Stored, Read
    <2>2. reader' = [y EXCEPT !.pc = c]
      BY <1>4
    <2> HIDE DEF y
    <2> QED
      BY <1>3, <2>1, <2>2 DEF Read
  <1>6. TypeInv'
    BY <1>1, <1>5 DEF ReadPage, Stored, StoreInv, TypeInv
  <1> QED
    BY <1>6 DEF ReadPage, StoreInv, LockInv, RowInv, JobInv, ChainIntact

-----------------------------------------------------------------------------
(* Edits behind the store.                                                 *)

\* The chain is edited while nobody holds the write lock.
LEMMA TamperInv == ASSUME StoreInv, Tamper PROVE StoreInv'
  <1>1. PICK D : Stored(D)
    BY DEF StoreInv, TypeInv
  <1>2. rows' \in Seq(Rec(D))
    <2>1. ASSUME NEW i \in 1..Len(rows), NEW e \in Event, Edit(i, e)
          PROVE  rows' \in Seq(Rec(D))
      <3>1. rows \in Seq(Rec(D)) /\ rows[i] \in Rec(D)
        BY <1>1 DEF Stored
      <3>2. [rows[i] EXCEPT !.event = e] \in Rec(D)
        BY <3>1 DEF Rec
      <3>3. rows' = [rows EXCEPT ![i] = [rows[i] EXCEPT !.event = e]]
        BY <2>1 DEF Edit
      <3> QED
        BY <3>1, <3>2, <3>3, ExceptSeq
    <2>2. ASSUME NEW i \in 1..Len(rows), Remove(i)
          PROVE  rows' \in Seq(Rec(D))
      <3>1. rows \in Seq(Rec(D)) /\ Len(rows) \in Nat
        BY <1>1 DEF Stored
      <3>2. /\ SubSeq(rows, 1, i - 1) \in Seq(Rec(D))
            /\ SubSeq(rows, i + 1, Len(rows)) \in Seq(Rec(D))
        <4>1. /\ \A k \in 1..(i - 1) : rows[k] \in Rec(D)
              /\ \A k \in (i + 1)..Len(rows) : rows[k] \in Rec(D)
          BY <3>1
        <4> QED
          BY <3>1, <4>1, SubSeqProperties
      <3> QED
        BY <2>2, <3>2 DEF Remove
    <2> QED
      BY <2>1, <2>2 DEF Tamper
  <1>3. wlock = Nobody /\ tampered' = TRUE /\ UNCHANGED <<wlock, app, reader, verdict>>
    BY DEF Tamper, Edit, Remove
  <1>4. TypeInv'
    BY <1>1, <1>2, <1>3 DEF Stored, StoreInv, TypeInv
  <1>5. \A p \in Proc : app[p].pc \notin {"locked", "insert"}
    BY <1>3 DEF StoreInv, LockInv
  <1> QED
    BY <1>3, <1>4, <1>5 DEF StoreInv, LockInv, RowInv, JobInv, ChainIntact

-----------------------------------------------------------------------------
(* The chain.                                                              *)

\* Every step of the specification preserves the inductive invariant.
LEMMA StoreInvNext == StoreInv /\ [StoreNext]_storeVars => StoreInv'
  <1> SUFFICES ASSUME StoreInv, [StoreNext]_storeVars PROVE StoreInv'
    OBVIOUS
  <1>1. ASSUME NEW p \in Proc, AppendStep(p) PROVE StoreInv'
    <2>1. ASSUME NEW e \in Event, Request(p, e) PROVE StoreInv'
      BY <2>1, RequestInv
    <2>2. CASE Begin(p)
      BY <2>2, BeginInv
    <2>3. CASE Busy(p)
      BY <2>3, BusyInv
    <2>4. CASE Insert(p)
      BY <2>4, InsertInv
    <2>5. CASE Commit(p)
      BY <2>5, CommitInv
    <2>6. CASE Refuse(p)
      <3>1. app[p].pc # "idle" /\ Quit(p, "raised") /\ UNCHANGED <<rows, reader, tampered>>
        BY <2>6 DEF Refuse
      <3> QED
        BY <3>1, QuitInv
    <2>7. CASE Return(p)
      <3>1. app[p].pc # "idle" /\ Quit(p, "returned") /\ UNCHANGED <<rows, reader, tampered>>
        BY <2>7 DEF Return
      <3> QED
        BY <3>1, QuitInv
    <2>8. CASE Die(p)
      <3>1. app[p].pc # "idle" /\ Quit(p, "lost") /\ UNCHANGED <<rows, reader, tampered>>
        BY <2>8 DEF Die
      <3> QED
        BY <3>1, QuitInv
    <2> QED
      BY <1>1, <2>1, <2>2, <2>3, <2>4, <2>5, <2>6, <2>7, <2>8 DEF AppendStep
  <1>2. CASE StartRead
    BY <1>2, StartReadInv
  <1>3. CASE ReadPage
    BY <1>3, ReadPageInv
  <1>4. CASE Tamper
    BY <1>4, TamperInv
  <1>5. CASE UNCHANGED storeVars
    <2>1. TypeInv'
      BY <1>5 DEF storeVars, StoreInv, TypeInv, Stored
    <2> QED
      BY <1>5, <2>1 DEF storeVars, StoreInv, LockInv, RowInv, JobInv, ChainIntact
  <1> QED
    BY <1>1, <1>2, <1>3, <1>4, <1>5 DEF StoreNext

\* The inductive invariant holds throughout.
LEMMA StoreInvariant == StoreSpec => []StoreInv
  BY StoreInvInit, StoreInvNext, PTL DEF StoreSpec

\* For any number of processes, any retry bound and any digest function: the
\* records committed by the store always form one verified chain.
THEOREM ChainStaysIntact == StoreSpec => []ChainIntact
  <1>1. StoreInv => ChainIntact
    BY DEF StoreInv
  <1> QED
    BY StoreInvariant, <1>1, PTL

\* Rows, the write lock, the appends, the reader and the verdicts keep their
\* types, and no append is tried more often than the bound.
THEOREM StoreTyped == StoreSpec => []StoreTypeOK
  <1>1. StoreInv => StoreTypeOK
    <2> SUFFICES ASSUME StoreInv PROVE StoreTypeOK
      OBVIOUS
    <2>1. PICK D : Stored(D)
      BY DEF StoreInv, TypeInv
    <2>2. \A i \in 1..Len(rows) : rows[i] \in Rec(D)
      BY <2>1 DEF Stored
    <2>3. \A i \in 1..Len(rows) : rows[i].seq \in Nat /\ rows[i].event \in Event
      BY <2>2 DEF Rec
    <2>4. ASSUME NEW p \in Proc
          PROVE  /\ app[p].pc \in {"idle", "begin", "locked", "insert", "done"}
                 /\ app[p].pc # "idle" => app[p].event \in Event
                 /\ app[p].pc = "begin" => app[p].tries \in 0..(MaxTries - 1)
      <3>1. app[p] \in Job(D)
        BY <2>1 DEF Stored
      <3>2. app[p].pc \in {"idle", "begin", "locked", "insert", "done"} /\ app[p].tries \in Nat
        BY <3>1 DEF Job
      <3>3. app[p].pc = "begin" => app[p].tries < MaxTries
        BY DEF StoreInv, JobInv
      <3>4. app[p].pc = "begin" => app[p].tries \in 0..(MaxTries - 1)
        BY <3>2, <3>3
      <3> QED
        BY <3>2, <3>4 DEF StoreInv, JobInv
    <2>5. reader.pc \in {"idle", "read", "done"}
      BY <2>1 DEF Stored, Read
    <2> QED
      BY <2>3, <2>4, <2>5 DEF StoreInv, TypeInv, StoreTypeOK
  <1> QED
    BY StoreInvariant, <1>1, PTL

-----------------------------------------------------------------------------
(* Paged reads.                                                            *)

\* What a reader holds is a prefix of the chain, and a finished read reaches
\* at least as far as the chain did when the read began.
ReadInv == (reader.pc # "idle" /\ ~tampered) =>
              /\ Len(reader.acc) <= Len(rows)
              /\ reader.atleast <= Len(rows)
              /\ \A i \in 1..Len(reader.acc) : reader.acc[i] = rows[i]
              /\ reader.pc = "done" => reader.atleast <= Len(reader.acc)

\* A page read at the length reached so far keeps the prefix.
LEMMA ReadPagePrefix == ASSUME StoreInv, ReadInv, ReadPage PROVE ReadInv'
  <1> SUFFICES ASSUME ~tampered PROVE ReadInv'
    BY DEF ReadInv, ReadPage
  <1>1. PICK D : Stored(D)
    BY DEF StoreInv, TypeInv
  <1> DEFINE old == reader.acc
             page == Page(Len(old))
  <1>2. /\ rows \in Seq(Rec(D)) /\ old \in Seq(Rec(D)) /\ Len(old) \in Nat
        /\ reader.atleast \in Nat
    BY <1>1 DEF Stored, Read
  <1>3. /\ Len(old) <= Len(rows) /\ reader.atleast <= Len(rows)
        /\ \A i \in 1..Len(old) : old[i] = rows[i]
    BY DEF ReadInv, ReadPage
  <1>4. /\ page \in Seq(Rec(D))
        /\ Len(old) + Len(page) <= Len(rows)
        /\ Len(page) < PageSize => Len(old) + Len(page) = Len(rows)
        /\ \A i \in 1..Len(page) : page[i] = rows[Len(old) + i]
    BY <1>2, <1>3, PageIs
  <1>5. /\ reader'.acc = old \o page
        /\ reader'.atleast = reader.atleast
        /\ reader'.pc = IF Len(page) < PageSize THEN "done" ELSE "read"
    <2> DEFINE a == old \o page
               c == IF Len(page) < PageSize THEN "done" ELSE "read"
               y == [reader EXCEPT !.acc = a]
    <2>1. reader' = [y EXCEPT !.pc = c]
      BY DEF ReadPage
    <2>2. y \in [pc : {"idle", "read", "done"}, acc : {a}, atleast : Nat]
          /\ y.atleast = reader.atleast /\ y.acc = a
      <3>1. reader \in Read(D)
        BY <1>1 DEF Stored
      <3> HIDE DEF a
      <3> QED
        BY <3>1 DEF Read
    <2> HIDE DEF a, c, y
    <2>3. reader'.acc = a /\ reader'.atleast = reader.atleast /\ reader'.pc = c
      BY <2>1, <2>2
    <2> QED
      BY <2>3 DEF a, c
  <1> HIDE DEF page, old
  <1>6. /\ Len(old \o page) = Len(old) + Len(page)
        /\ \A i \in 1..(Len(old) + Len(page)) :
              (old \o page)[i] = IF i <= Len(old) THEN old[i] ELSE page[i - Len(old)]
    BY <1>2, <1>4, ConcatProperties
  <1>7. \A i \in 1..(Len(old) + Len(page)) : (old \o page)[i] = rows[i]
    <2> TAKE i \in 1..(Len(old) + Len(page))
    <2>1. CASE i <= Len(old)
      <3>1. i \in 1..Len(old)
        BY <1>2, <1>4, <2>1
      <3> QED
        BY <1>3, <1>6, <2>1, <3>1
    <2>2. CASE ~(i <= Len(old))
      <3>1. i - Len(old) \in 1..Len(page) /\ Len(old) + (i - Len(old)) = i
        BY <1>2, <1>4, <2>2
      <3> QED
        BY <1>4, <1>6, <2>2, <3>1
    <2> QED
      BY <2>1, <2>2
  <1>8. rows' = rows /\ Len(page) \in Nat /\ Len(rows) \in Nat
    BY <1>2, <1>4 DEF ReadPage
  <1> QED
    BY <1>2, <1>3, <1>4, <1>5, <1>6, <1>7, <1>8 DEF ReadInv

\* Every step keeps what a reader holds a prefix of the chain.
LEMMA ReadNext == StoreInv /\ ReadInv /\ [StoreNext]_storeVars => ReadInv'
  <1> SUFFICES ASSUME StoreInv, ReadInv, [StoreNext]_storeVars PROVE ReadInv'
    OBVIOUS
  <1>1. PICK D : Stored(D)
    BY DEF StoreInv, TypeInv
  <1>2. CASE ReadPage
    BY <1>2, ReadPagePrefix
  <1>3. CASE StartRead
    BY <1>1, <1>3 DEF StartRead, ReadInv, Stored
  <1>4. CASE Tamper
    BY <1>4 DEF Tamper, Edit, Remove, ReadInv
  <1>5. ASSUME NEW p \in Proc, Commit(p) PROVE ReadInv'
    <2>1. /\ rows \in Seq(Rec(D)) /\ reader.acc \in Seq(Rec(D)) /\ reader.atleast \in Nat
      BY <1>1 DEF Stored, Read
    <2>2. /\ Len(rows') = Len(rows) + 1
          /\ \A i \in 1..Len(rows) : rows'[i] = rows[i]
      BY <1>5, <2>1 DEF Commit
    <2> QED
      BY <1>5, <2>1, <2>2 DEF Commit, ReadInv
  <1>6. CASE UNCHANGED <<rows, reader, tampered>>
    BY <1>6 DEF ReadInv
  <1> QED
    BY <1>2, <1>3, <1>4, <1>5, <1>6 DEF StoreNext, AppendStep, Request, Begin, Busy, Insert,
       Refuse, Return, Die, storeVars

\* For any page size and any number of appending processes: a paged read that
\* ended is a gapless prefix of the chain, with every record that was there
\* when the read began.
THEOREM PagedReadsComplete == StoreSpec => []PagedReadComplete
  <1>1. StoreInit => ReadInv
    BY DEF StoreInit, ReadInv, NoRead
  <1>2. StoreInv /\ ReadInv => PagedReadComplete
    <2> SUFFICES ASSUME StoreInv, ReadInv, reader.pc = "done", ~tampered
                 PROVE  /\ reader.atleast <= Len(reader.acc)
                        /\ reader.acc = SubSeq(rows, 1, Len(reader.acc))
      BY DEF PagedReadComplete
    <2>1. PICK D : Stored(D)
      BY DEF StoreInv, TypeInv
    <2> DEFINE a == reader.acc
               u == SubSeq(rows, 1, Len(a))
    <2>2. /\ rows \in Seq(Rec(D)) /\ a \in Seq(Rec(D)) /\ Len(a) \in Nat
      BY <2>1 DEF Stored, Read
    <2>3. /\ Len(a) <= Len(rows) /\ reader.atleast <= Len(a)
          /\ \A i \in 1..Len(a) : a[i] = rows[i]
      BY DEF ReadInv
    <2> HIDE DEF a
    <2>4. \A i \in 1..Len(a) : rows[i] \in Rec(D)
      BY <2>2, <2>3
    <2>5. /\ u \in Seq(Rec(D))
          /\ Len(u) = IF 1 <= Len(a) THEN Len(a) - 1 + 1 ELSE 0
          /\ \A i \in 1..(Len(a) - 1 + 1) : u[i] = rows[1 + i - 1]
      BY <2>2, <2>4, SubSeqProperties
    <2>6. Len(u) = Len(a) /\ \A i \in 1..Len(a) : u[i] = a[i]
      BY <2>2, <2>3, <2>5
    <2>7. a = u
      BY <2>2, <2>5, <2>6, SeqEqual
    <2> QED
      BY <2>3, <2>7 DEF a
  <1> QED
    BY StoreInvariant, ReadNext, <1>1, <1>2, PTL DEF StoreSpec

-----------------------------------------------------------------------------
(* The abstract log.                                                       *)

\* Two contents never share a digest in the same place of a chain.
CollisionFree == \A n, e, f, d : Hash(n, e, d) = Hash(n, f, d) => e = f

Occurs(s, e) == \E i \in 1..Len(s) : s[i].event = e

Running(p) == app[p].pc # "idle"

\* An event is appended by one call, and is in the chain exactly when that
\* call committed it.
EventInv ==
    /\ \A p \in Proc : Running(p) => verdict[app[p].event] = "none"
    /\ \A p, q \in Proc : (Running(p) /\ Running(q) /\ app[p].event = app[q].event) => p = q
    /\ ~tampered => \A p \in Proc :
          /\ app[p].pc \in {"begin", "locked", "insert"} => ~Occurs(rows, app[p].event)
          /\ app[p].pc = "done" => Occurs(rows, app[p].event)
    /\ ~tampered => \A e \in Event :
          Occurs(rows, e) => \/ verdict[e] # "none"
                      \/ \E p \in Proc : app[p].pc = "done" /\ app[p].event = e

\* Tampered history no longer verifies.
FrozenInv == tampered => ~Verified(rows)

LogInv == EventInv /\ FrozenInv

\* Whoever edits a verified chain breaks it, if digests do not collide.
LEMMA TamperBreaks ==
  ASSUME CollisionFree, StoreInv, Tamper PROVE ~Verified(rows')
  <1>1. PICK D : Stored(D)
    BY DEF StoreInv, TypeInv
  <1>2. rows \in Seq(Rec(D)) /\ Len(rows) \in Nat
    BY <1>1 DEF Stored
  <1>3. Verified(rows)
    BY DEF StoreInv, ChainIntact, Tamper
  <1>4. ASSUME NEW i \in 1..Len(rows), NEW e \in Event, Edit(i, e) PROVE ~Verified(rows')
    <2> DEFINE r == [rows[i] EXCEPT !.event = e]
    <2>1. rows' = [rows EXCEPT ![i] = r] /\ e # rows[i].event
      BY <1>4 DEF Edit
    <2>2. /\ rows[i] \in Rec(D)
          /\ rows[i].hash = Hash(rows[i].seq, rows[i].event, rows[i].prev)
      BY <1>2, <1>3 DEF Verified, RecordOK
    <2>3. /\ r.event = e /\ r.seq = rows[i].seq /\ r.prev = rows[i].prev
          /\ r.hash = rows[i].hash /\ r \in Rec(D)
      BY <2>2 DEF Rec
    <2> HIDE DEF r
    <2>4. Len(rows') = Len(rows) /\ rows'[i] = r
      BY <1>2, <2>1, <2>3, ExceptSeq
    <2>5. r.hash # Hash(r.seq, r.event, r.prev)
      BY <2>1, <2>2, <2>3 DEF CollisionFree
    <2>6. ~RecordOK(rows', i)
      BY <2>4, <2>5 DEF RecordOK
    <2> QED
      BY <2>4, <2>6 DEF Verified
  <1>5. ASSUME NEW i \in 1..Len(rows), Remove(i) PROVE ~Verified(rows')
    <2> DEFINE s == SubSeq(rows, 1, i - 1)
               t == SubSeq(rows, i + 1, Len(rows))
    <2>1. i \in 1..(Len(rows) - 1) /\ rows' = s \o t
      BY <1>5 DEF Remove
    <2>2. /\ s \in Seq(Rec(D)) /\ Len(s) = i - 1
          /\ t \in Seq(Rec(D)) /\ Len(t) = Len(rows) - i
          /\ \A k \in 1..(Len(rows) - i) : t[k] = rows[i + k]
      <3>1. /\ \A k \in 1..(i - 1) : rows[k] \in Rec(D)
            /\ \A k \in (i + 1)..Len(rows) : rows[k] \in Rec(D)
        BY <1>2
      <3>2. /\ s \in Seq(Rec(D))
            /\ Len(s) = IF 1 <= i - 1 THEN i - 1 - 1 + 1 ELSE 0
        BY <1>2, <3>1, SubSeqProperties
      <3>3. /\ t \in Seq(Rec(D))
            /\ Len(t) = IF i + 1 <= Len(rows) THEN Len(rows) - (i + 1) + 1 ELSE 0
            /\ \A k \in 1..(Len(rows) - (i + 1) + 1) : t[k] = rows[(i + 1) + k - 1]
        BY <1>2, <3>1, SubSeqProperties
      <3> HIDE DEF s, t
      <3>4. \A k \in 1..(Len(rows) - i) :
               k \in 1..(Len(rows) - (i + 1) + 1) /\ (i + 1) + k - 1 = i + k
        BY <1>2, <2>1
      <3> QED
        BY <1>2, <2>1, <3>2, <3>3, <3>4
    <2> HIDE DEF s, t
    <2>3. Len(rows') = Len(rows) - 1 /\ rows'[i] = rows[i + 1]
      <3>1. /\ Len(s \o t) = Len(s) + Len(t)
            /\ \A k \in 1..(Len(s) + Len(t)) :
                  (s \o t)[k] = IF k <= Len(s) THEN s[k] ELSE t[k - Len(s)]
        BY <2>2, ConcatProperties
      <3>2. i \in 1..(Len(s) + Len(t)) /\ ~(i <= Len(s)) /\ i - Len(s) = 1
            /\ 1 \in 1..(Len(rows) - i)
        BY <1>2, <2>1, <2>2
      <3>3. (s \o t)[i] = t[1] /\ t[1] = rows[i + 1]
        BY <2>2, <3>1, <3>2
      <3> QED
        BY <1>2, <2>1, <2>2, <3>1, <3>3
    <2>4. i + 1 \in 1..Len(rows) /\ i + 1 # i
      BY <1>2, <2>1
    <2>5. rows[i + 1].seq = i + 1
      BY <1>3, <2>4 DEF Verified, RecordOK
    <2>6. ~RecordOK(rows', i)
      BY <2>3, <2>4, <2>5 DEF RecordOK
    <2>7. i \in 1..Len(rows')
      BY <1>2, <2>1, <2>3
    <2> QED
      BY <2>6, <2>7 DEF Verified
  <1> QED
    BY <1>4, <1>5 DEF Tamper

\* The events of a chain, and of the chain with one more record.
LEMMA LogIs ==
  ASSUME NEW R, NEW s \in Seq(R), NEW r \in R
  PROVE  [i \in 1..Len(Append(s, r)) |-> Append(s, r)[i].event]
           = Append([i \in 1..Len(s) |-> s[i].event], r.event)
  <1> DEFINE V == {x.event : x \in R}
             l == [i \in 1..Len(s) |-> s[i].event]
             u == Append(s, r)
             m == [i \in 1..Len(u) |-> u[i].event]
  <1>1. /\ Len(s) \in Nat /\ Len(u) = Len(s) + 1 /\ u[Len(s) + 1] = r
        /\ \A i \in 1..Len(s) : u[i] = s[i] /\ s[i] \in R
    BY AppendProperties
  <1>2. r.event \in V
    OBVIOUS
  <1>3. l \in [1..Len(s) -> V]
    BY <1>1
  <1>4. l \in Seq(V) /\ Len(l) = Len(s)
    BY <1>1, <1>3
  <1>5. /\ Append(l, r.event) \in Seq(V)
        /\ Len(Append(l, r.event)) = Len(s) + 1
        /\ \A i \in 1..Len(s) : Append(l, r.event)[i] = l[i]
        /\ Append(l, r.event)[Len(s) + 1] = r.event
    <2> HIDE DEF l, V
    <2> QED
      BY <1>2, <1>4, AppendProperties
  <1> HIDE DEF u
  <1>6. m \in [1..(Len(s) + 1) -> V]
    BY <1>1, <1>2
  <1>7. m \in Seq(V) /\ Len(m) = Len(s) + 1
    BY <1>1, <1>6
  <1>8. \A i \in 1..(Len(s) + 1) : m[i] = Append(l, r.event)[i]
    <2> TAKE i \in 1..(Len(s) + 1)
    <2>1. CASE i = Len(s) + 1
      BY <1>1, <1>5, <2>1
    <2>2. CASE i # Len(s) + 1
      <3>1. i \in 1..Len(s)
        BY <1>1, <2>2
      <3> QED
        BY <1>1, <1>5, <3>1
    <2> QED
      BY <2>1, <2>2
  <1>9. m = Append(l, r.event)
    <2> HIDE DEF m, l, V
    <2> QED
      BY <1>5, <1>7, <1>8, SeqEqual
  <1> QED
    BY <1>9 DEF m, u

\* A call that goes on with its own event, before it commits.
LEMMA MoveEvents ==
  ASSUME StoreInv, EventInv, NEW p \in Proc, NEW j,
         app' = [app EXCEPT ![p] = j], j.event = app[p].event,
         app[p].pc \in {"begin", "locked", "insert"}, j.pc \in {"begin", "locked", "insert"},
         UNCHANGED <<rows, verdict, tampered>>
  PROVE  EventInv'
  <1>1. PICK D : Stored(D)
    BY DEF StoreInv, TypeInv
  <1>2. \A q \in Proc : app'[q] = IF q = p THEN j ELSE app[q]
    BY <1>1 DEF Stored
  <1>3. \A q \in Proc : /\ Running(q)' <=> Running(q)
                        /\ app'[q].event = app[q].event
                        /\ app'[q].pc \in {"begin", "locked", "insert"}
                             <=> app[q].pc \in {"begin", "locked", "insert"}
                        /\ app'[q].pc = "done" <=> app[q].pc = "done"
    BY <1>2 DEF Running
  <1>4. \A e : Occurs(rows', e) <=> Occurs(rows, e)
    BY DEF Occurs
  <1>5. /\ \A q \in Proc : Running(q)' => verdict'[app'[q].event] = "none"
        /\ \A q, r \in Proc :
              (Running(q)' /\ Running(r)' /\ app'[q].event = app'[r].event) => q = r
    BY <1>3 DEF EventInv
  <1>6. ~tampered' => \A q \in Proc :
           /\ app'[q].pc \in {"begin", "locked", "insert"} => ~Occurs(rows', app'[q].event)
           /\ app'[q].pc = "done" => Occurs(rows', app'[q].event)
    BY <1>3 DEF EventInv
  <1>7. ~tampered' => \A e \in Event :
           Occurs(rows', e) => \/ verdict'[e] # "none"
                        \/ \E q \in Proc : app'[q].pc = "done" /\ app'[q].event = e
    BY <1>3, <1>4 DEF EventInv
  <1> QED
    BY <1>5, <1>6, <1>7 DEF EventInv

\* A call that ends tells its verdict and leaves its event alone.
LEMMA QuitEvents ==
  ASSUME StoreInv, EventInv, NEW p \in Proc, NEW v \in {"returned", "raised", "lost"},
         Running(p), Quit(p, v), UNCHANGED <<rows, tampered>>
  PROVE  EventInv'
  <1>1. PICK D : Stored(D)
    BY DEF StoreInv, TypeInv
  <1>2. \A q \in Proc : app'[q] = IF q = p THEN NoAppend ELSE app[q]
    BY <1>1 DEF Quit, Becomes, Stored
  <1>3. app[p].event \in Event /\ \A q \in Proc : Running(q) => app[q].event \in Event
    BY DEF StoreInv, JobInv, Running
  <1>4. \A e \in Event : verdict'[e] = IF e = app[p].event THEN v ELSE verdict[e]
    BY DEF Quit, StoreInv, TypeInv
  <1>5. \A q \in Proc : Running(q)' => Running(q) /\ q # p /\ app'[q] = app[q]
    BY <1>2 DEF Running, NoAppend
  <1>6. \A q \in Proc : app'[q].pc \in {"begin", "locked", "insert", "done"} =>
                          Running(q) /\ q # p /\ app'[q] = app[q]
    BY <1>2 DEF Running, NoAppend
  <1>7. \A q \in Proc : q # p => app'[q] = app[q]
    BY <1>2
  <1>8. \A e : Occurs(rows', e) <=> Occurs(rows, e)
    BY DEF Occurs
  <1>9. \A q \in Proc : Running(q)' => verdict'[app'[q].event] = "none"
    BY <1>3, <1>4, <1>5 DEF EventInv
  <1>10. \A q, r \in Proc :
            (Running(q)' /\ Running(r)' /\ app'[q].event = app'[r].event) => q = r
    BY <1>5 DEF EventInv
  <1>11. ~tampered' => \A q \in Proc :
            /\ app'[q].pc \in {"begin", "locked", "insert"} => ~Occurs(rows', app'[q].event)
            /\ app'[q].pc = "done" => Occurs(rows', app'[q].event)
    BY <1>6 DEF EventInv
  <1>12. ~tampered' => \A e \in Event :
            Occurs(rows', e) => \/ verdict'[e] # "none"
                         \/ \E q \in Proc : app'[q].pc = "done" /\ app'[q].event = e
    <2> SUFFICES ASSUME ~tampered, NEW e \in Event, Occurs(rows, e), verdict'[e] = "none"
                 PROVE  \E q \in Proc : app'[q].pc = "done" /\ app'[q].event = e
      BY <1>8
    <2>1. e # app[p].event /\ verdict[e] = "none"
      BY <1>4
    <2>2. PICK q \in Proc : app[q].pc = "done" /\ app[q].event = e
      BY <2>1 DEF EventInv
    <2>3. q # p
      BY <2>1, <2>2
    <2> QED
      BY <1>7, <2>2, <2>3
  <1> QED
    BY <1>9, <1>10, <1>11, <1>12 DEF EventInv

\* A call that begins brings an event no other call has and the log has not.
LEMMA RequestEvents ==
  ASSUME StoreInv, EventInv, NEW p \in Proc, NEW e \in Event, Request(p, e)
  PROVE  EventInv'
  <1> DEFINE j == [NoAppend EXCEPT !.pc = "begin", !.event = e]
  <1>1. PICK D : Stored(D)
    BY DEF StoreInv, TypeInv
  <1>2. app' = [app EXCEPT ![p] = j]
    BY DEF Request, Becomes
  <1>3. j.pc = "begin" /\ j.event = e
    <2>1. j = [NoAppend EXCEPT !.pc = "begin", !.event = e]
      OBVIOUS
    <2> HIDE DEF j
    <2> QED
      BY <2>1, FreshJob
  <1> HIDE DEF j
  <1>4. \A q \in Proc : app'[q] = IF q = p THEN j ELSE app[q]
    BY <1>1, <1>2 DEF Stored
  <1>5. /\ verdict[e] = "none" /\ ~Running(p)
        /\ \A q \in Proc : Running(q) => app[q].event # e
        /\ UNCHANGED <<rows, verdict, tampered>>
    BY DEF Request, Running
  <1>6. \A q \in Proc : q # p => app'[q] = app[q]
    BY <1>4
  <1>7. app'[p].pc = "begin" /\ app'[p].event = e
    BY <1>3, <1>4
  <1>8. \A q \in Proc : Running(q)' <=> (q = p \/ Running(q))
    BY <1>6, <1>7 DEF Running
  <1>9. ~tampered => ~Occurs(rows, e)
    <2> SUFFICES ASSUME ~tampered, Occurs(rows, e) PROVE FALSE
      OBVIOUS
    <2>1. PICK q \in Proc : app[q].pc = "done" /\ app[q].event = e
      BY <1>5 DEF EventInv
    <2> QED
      BY <1>5, <2>1 DEF Running
  <1>10. \A q \in Proc : Running(q)' => verdict'[app'[q].event] = "none"
    BY <1>5, <1>6, <1>7, <1>8 DEF EventInv
  <1>11. \A q, r \in Proc :
            (Running(q)' /\ Running(r)' /\ app'[q].event = app'[r].event) => q = r
    BY <1>5, <1>6, <1>7, <1>8 DEF EventInv
  <1>12. ~tampered' => \A q \in Proc :
            /\ app'[q].pc \in {"begin", "locked", "insert"} => ~Occurs(rows', app'[q].event)
            /\ app'[q].pc = "done" => Occurs(rows', app'[q].event)
    BY <1>5, <1>6, <1>7, <1>9 DEF EventInv
  <1>13. ~tampered' => \A f \in Event :
            Occurs(rows', f) => \/ verdict'[f] # "none"
                         \/ \E q \in Proc : app'[q].pc = "done" /\ app'[q].event = f
    <2> SUFFICES ASSUME ~tampered, NEW f \in Event, Occurs(rows, f), verdict[f] = "none"
                 PROVE  \E q \in Proc : app'[q].pc = "done" /\ app'[q].event = f
      BY <1>5 DEF Occurs
    <2>1. PICK q \in Proc : app[q].pc = "done" /\ app[q].event = f
      BY DEF EventInv
    <2>2. q # p
      BY <1>5, <2>1 DEF Running
    <2> QED
      BY <1>6, <2>1, <2>2
  <1> QED
    BY <1>10, <1>11, <1>12, <1>13 DEF EventInv

\* A commit puts the call's own event into the log, and no other.
LEMMA CommitEvents ==
  ASSUME StoreInv, EventInv, NEW p \in Proc, Commit(p) PROVE EventInv'
  <1> DEFINE j == [app[p] EXCEPT !.pc = "done"]
  <1>1. PICK D : Stored(D)
    BY DEF StoreInv, TypeInv
  <1>2. app' = [app EXCEPT ![p] = j] /\ UNCHANGED <<verdict, tampered>>
    BY DEF Commit, Becomes
  <1>3. j.pc = "done" /\ j.event = app[p].event
    BY <1>1 DEF Stored, Job
  <1> HIDE DEF j
  <1>4. \A q \in Proc : app'[q] = IF q = p THEN j ELSE app[q]
    BY <1>1, <1>2 DEF Stored
  <1>5. Running(p) /\ app[p].pc = "insert" /\ app[p].row.event = app[p].event
    <2>1. app[p].pc = "insert" /\ app[p].row = NewRecord(rows, app[p].event)
      BY DEF Commit, StoreInv, RowInv
    <2> QED
      BY <2>1 DEF Running, NewRecord
  <1>6. /\ Len(rows) \in Nat /\ Len(rows') = Len(rows) + 1
        /\ rows'[Len(rows) + 1].event = app[p].event
        /\ \A i \in 1..Len(rows) : rows'[i] = rows[i]
    BY <1>1, <1>5 DEF Stored, Commit
  <1>7. \A e : Occurs(rows', e) <=> (Occurs(rows, e) \/ e = app[p].event)
    <2> TAKE e
    <2>1. ASSUME NEW i \in 1..Len(rows'), rows'[i].event = e
          PROVE  Occurs(rows, e) \/ e = app[p].event
      <3>1. i \in 1..Len(rows) \/ i = Len(rows) + 1
        BY <1>6
      <3> QED
        BY <1>6, <2>1, <3>1 DEF Occurs
    <2>2. ASSUME NEW i \in 1..Len(rows), rows[i].event = e PROVE Occurs(rows', e)
      <3>1. i \in 1..Len(rows') /\ rows'[i].event = e
        BY <1>6, <2>2
      <3> QED
        BY <3>1 DEF Occurs
    <2>3. ASSUME e = app[p].event PROVE Occurs(rows', e)
      <3>1. Len(rows) + 1 \in 1..Len(rows')
        BY <1>6
      <3> QED
        BY <1>6, <2>3, <3>1 DEF Occurs
    <2> QED
      BY <2>1, <2>2, <2>3 DEF Occurs
  <1>8. \A q \in Proc : Running(q)' <=> Running(q)
    BY <1>3, <1>4, <1>5 DEF Running
  <1>9. \A q \in Proc : app'[q].event = app[q].event
    BY <1>3, <1>4
  <1>10. /\ \A q \in Proc : Running(q)' => verdict'[app'[q].event] = "none"
         /\ \A q, r \in Proc :
               (Running(q)' /\ Running(r)' /\ app'[q].event = app'[r].event) => q = r
    BY <1>2, <1>8, <1>9 DEF EventInv
  <1>11. ~tampered' => \A q \in Proc :
            /\ app'[q].pc \in {"begin", "locked", "insert"} => ~Occurs(rows', app'[q].event)
            /\ app'[q].pc = "done" => Occurs(rows', app'[q].event)
    <2> SUFFICES ASSUME ~tampered, NEW q \in Proc
                 PROVE  /\ app'[q].pc \in {"begin", "locked", "insert"} =>
                              ~Occurs(rows', app'[q].event)
                        /\ app'[q].pc = "done" => Occurs(rows', app'[q].event)
      BY <1>2
    <2>1. CASE q = p
      BY <1>3, <1>4, <1>7, <2>1
    <2>2. CASE q # p
      <3>1. app'[q] = app[q]
        BY <1>4, <2>2
      <3>2. Running(q) => app[q].event # app[p].event
        BY <1>5, <2>2 DEF EventInv
      <3>3. app[q].pc \in {"begin", "locked", "insert"} => Running(q)
        BY DEF Running
      <3>4. /\ app[q].pc \in {"begin", "locked", "insert"} => ~Occurs(rows, app[q].event)
            /\ app[q].pc = "done" => Occurs(rows, app[q].event)
        BY DEF EventInv
      <3> QED
        BY <1>7, <3>1, <3>2, <3>3, <3>4
    <2> QED
      BY <2>1, <2>2
  <1>12. ~tampered' => \A e \in Event :
            Occurs(rows', e) => \/ verdict'[e] # "none"
                         \/ \E q \in Proc : app'[q].pc = "done" /\ app'[q].event = e
    <2> SUFFICES ASSUME ~tampered, NEW e \in Event, Occurs(rows', e), verdict[e] = "none"
                 PROVE  \E q \in Proc : app'[q].pc = "done" /\ app'[q].event = e
      BY <1>2
    <2>1. CASE e = app[p].event
      BY <1>3, <1>4, <2>1
    <2>2. CASE e # app[p].event
      <3>1. PICK q \in Proc : app[q].pc = "done" /\ app[q].event = e
        BY <1>7, <2>2 DEF EventInv
      <3>2. q # p
        BY <2>2, <3>1
      <3> QED
        BY <1>4, <3>1, <3>2
    <2> QED
      BY <2>1, <2>2
  <1> QED
    BY <1>10, <1>11, <1>12 DEF EventInv

\* A call that ends tells the log's writer the truth about its event.
LEMMA QuitTells ==
  ASSUME StoreInv, LogInv, NEW p \in Proc, NEW v \in {"returned", "raised", "lost"},
         Running(p), Quit(p, v), UNCHANGED <<rows, tampered>>,
         v = "returned" => app[p].pc = "done",
         v = "raised" => app[p].pc \in {"begin", "locked", "insert"}
  PROVE  LogInv' /\ Log!Next
  <1> DEFINE e == app[p].event
  <1>1. LogInv'
    <2>1. EventInv'
      BY QuitEvents DEF LogInv
    <2>2. FrozenInv'
      BY DEF LogInv, FrozenInv
    <2> QED
      BY <2>1, <2>2 DEF LogInv
  <1>2. e \in Event /\ verdict[e] = "none"
    BY DEF StoreInv, JobInv, LogInv, EventInv, Running
  <1>3. /\ v = "returned" => (tampered \/ Occurs(rows, e))
        /\ v = "raised" => (tampered \/ ~Occurs(rows, e))
    BY DEF LogInv, EventInv, StoreInv, TypeInv
  <1>4. verdict' = [verdict EXCEPT ![e] = v]
    BY DEF Quit
  <1> HIDE DEF e
  <1>5. Log!Recorded(e) <=> Occurs(rows, e)
    BY DEF Log!Recorded, Occurs
  <1>6. Log!Tell(e, v)
    BY <1>2, <1>3, <1>4, <1>5 DEF Log!Tell
  <1> QED
    BY <1>1, <1>2, <1>6 DEF Log!Next

\* A commit records the call's event in the log.
LEMMA CommitRecords ==
  ASSUME StoreInv, LogInv, NEW p \in Proc, Commit(p)
  PROVE  LogInv' /\ Log!Next
  <1>1. PICK D : Stored(D)
    BY DEF StoreInv, TypeInv
  <1>2. /\ app[p].pc = "insert" /\ Verified(rows) /\ app[p].event \in Event
        /\ app[p].row = NewRecord(rows, app[p].event)
        /\ rows' = Append(rows, app[p].row) /\ UNCHANGED <<verdict, tampered>>
    BY DEF Commit, StoreInv, RowInv, JobInv
  <1>3. ~tampered
    BY <1>2 DEF LogInv, FrozenInv
  <1>4. PICK E : E = D \cup {app[p].row.hash}
    OBVIOUS
  <1>5. rows \in Seq(Rec(D)) /\ Genesis \in D
    BY <1>1 DEF Stored
  <1>6. app[p].row \in Rec(E) /\ rows \in Seq(Rec(E)) /\ app[p].row.event = app[p].event
    <2>1. app[p].row \in Rec(E)
      BY <1>2, <1>4, <1>5, NewRecordTyped
    <2>2. Stored(E)
      BY <1>1, <1>4, StoredGrows
    <2>3. app[p].row.event = app[p].event
      BY <1>2 DEF NewRecord
    <2> QED
      BY <2>1, <2>2, <2>3 DEF Stored
  <1>7. [i \in 1..Len(rows') |-> rows'[i].event]
          = Append([i \in 1..Len(rows) |-> rows[i].event], app[p].event)
    BY <1>2, <1>6, LogIs
  <1>8. verdict[app[p].event] = "none" /\ ~Occurs(rows, app[p].event)
    BY <1>2, <1>3 DEF LogInv, EventInv, Running
  <1>9. Log!Recorded(app[p].event) <=> Occurs(rows, app[p].event)
    BY DEF Log!Recorded, Occurs
  <1>10. EventInv'
    BY CommitEvents DEF LogInv
  <1>11. FrozenInv'
    BY <1>2, <1>3 DEF FrozenInv
  <1> QED
    <2>1. PICK e \in Event : e = app[p].event
      BY <1>2
    <2>2. Log!Record(e)
      BY <1>2, <1>3, <1>7, <1>8, <1>9, <2>1 DEF Log!Record, Log!Recorded, Occurs
    <2>3. Log!Next
      BY <2>2 DEF Log!Next
    <2> QED
      BY <1>10, <1>11, <2>3 DEF LogInv

\* Every step of the store is a step of the log, or none.
LEMMA StoreStepIsLog ==
  ASSUME CollisionFree, StoreInv, LogInv, [StoreNext]_storeVars
  PROVE  LogInv' /\ [Log!Next]_(Log!vars)
  <1>1. PICK D : Stored(D)
    BY DEF StoreInv, TypeInv
  <1>2. ASSUME UNCHANGED <<rows, verdict, tampered>>, EventInv'
        PROVE  LogInv' /\ UNCHANGED Log!vars
    BY <1>2 DEF LogInv, FrozenInv, Log!vars
  <1>3. ASSUME NEW p \in Proc, AppendStep(p) PROVE LogInv' /\ [Log!Next]_(Log!vars)
    <2>1. ASSUME NEW e \in Event, Request(p, e) PROVE LogInv' /\ [Log!Next]_(Log!vars)
      <3>1. EventInv' /\ UNCHANGED <<rows, verdict, tampered>>
        BY <2>1, RequestEvents DEF LogInv, Request
      <3> QED
        BY <1>2, <3>1
    <2>2. CASE Begin(p)
      <3> DEFINE j == [app[p] EXCEPT !.pc = "locked"]
      <3>1. app' = [app EXCEPT ![p] = j]
        BY <2>2 DEF Begin, Becomes
      <3>2. j.pc = "locked" /\ j.event = app[p].event
        BY <1>1 DEF Stored, Job
      <3> HIDE DEF j
      <3>3. app[p].pc = "begin" /\ UNCHANGED <<rows, verdict, tampered>>
        BY <2>2 DEF Begin
      <3>4. EventInv'
        BY <3>1, <3>2, <3>3, MoveEvents DEF LogInv
      <3> QED
        BY <1>2, <3>3, <3>4
    <2>3. CASE Busy(p) /\ app[p].tries + 1 < MaxTries
      <3> DEFINE j == [app[p] EXCEPT !.tries = app[p].tries + 1]
      <3>1. app' = [app EXCEPT ![p] = j] /\ UNCHANGED verdict
        BY <2>3 DEF Busy, Becomes
      <3>2. j.pc = app[p].pc /\ j.event = app[p].event
        BY <1>1 DEF Stored, Job
      <3> HIDE DEF j
      <3>3. app[p].pc = "begin" /\ UNCHANGED <<rows, verdict, tampered>>
        BY <2>3, <3>1 DEF Busy
      <3>4. EventInv'
        BY <3>1, <3>2, <3>3, MoveEvents DEF LogInv
      <3> QED
        BY <1>2, <3>3, <3>4
    <2>4. CASE Busy(p) /\ ~(app[p].tries + 1 < MaxTries)
      <3>1. /\ Quit(p, "raised") /\ app[p].pc = "begin" /\ Running(p)
            /\ UNCHANGED <<rows, tampered>>
        BY <2>4 DEF Busy, Running
      <3> QED
        BY <3>1, QuitTells
    <2>5. CASE Insert(p)
      <3> DEFINE r == NewRecord(rows, app[p].event)
                 y == [app[p] EXCEPT !.pc = "insert"]
                 j == [y EXCEPT !.row = r]
      <3>1. app' = [app EXCEPT ![p] = j]
        BY <2>5 DEF Insert, Becomes
      <3>2. j.pc = "insert" /\ j.event = app[p].event
        <4>1. y \in Job(D) /\ y.pc = "insert" /\ y.event = app[p].event
          BY <1>1 DEF Stored, Job
        <4> HIDE DEF y, r
        <4> QED
          BY <4>1 DEF Job
      <3> HIDE DEF j
      <3>3. app[p].pc = "locked" /\ UNCHANGED <<rows, verdict, tampered>>
        BY <2>5 DEF Insert
      <3>4. EventInv'
        BY <3>1, <3>2, <3>3, MoveEvents DEF LogInv
      <3> QED
        BY <1>2, <3>3, <3>4
    <2>6. CASE Refuse(p)
      <3>1. /\ Quit(p, "raised") /\ app[p].pc = "locked" /\ Running(p)
            /\ UNCHANGED <<rows, tampered>>
        BY <2>6 DEF Refuse, Running
      <3> QED
        BY <3>1, QuitTells
    <2>7. CASE Commit(p)
      BY <2>7, CommitRecords
    <2>8. CASE Return(p)
      <3>1. /\ Quit(p, "returned") /\ app[p].pc = "done" /\ Running(p)
            /\ UNCHANGED <<rows, tampered>>
        BY <2>8 DEF Return, Running
      <3> QED
        BY <3>1, QuitTells
    <2>9. CASE Die(p)
      <3>1. Quit(p, "lost") /\ Running(p) /\ UNCHANGED <<rows, tampered>>
        BY <2>9 DEF Die, Running
      <3> QED
        BY <3>1, QuitTells
    <2> QED
      BY <1>3, <2>1, <2>2, <2>3, <2>4, <2>5, <2>6, <2>7, <2>8, <2>9 DEF AppendStep
  <1>4. CASE Tamper
    <2>1. /\ ~tampered /\ tampered' = TRUE /\ UNCHANGED <<app, verdict>>
      BY <1>4 DEF Tamper, Edit, Remove
    <2>2. FrozenInv'
      BY <1>4, TamperBreaks DEF FrozenInv
    <2>3. EventInv'
      BY <2>1 DEF LogInv, EventInv, Running
    <2>4. Log!Corrupt
      BY <2>1 DEF Log!Corrupt
    <2> QED
      BY <2>2, <2>3, <2>4 DEF LogInv, Log!Next
  <1>5. CASE StartRead \/ ReadPage \/ UNCHANGED storeVars
    <2>1. UNCHANGED <<rows, verdict, tampered, app>>
      BY <1>5 DEF StartRead, ReadPage, storeVars
    <2>2. EventInv'
      BY <2>1 DEF LogInv, EventInv, Running
    <2> QED
      BY <1>2, <2>1, <2>2
  <1> QED
    BY <1>3, <1>4, <1>5 DEF StoreNext

\* For any number of processes and events, and any digest that does not
\* collide: the store implements the abstract log - each event recorded at
\* most once, a returned append recorded, a raised one not, and nothing ever
\* appended to tampered history.
THEOREM StoreImplementsLog == ASSUME CollisionFree PROVE StoreSpec => ImplementsLog
  <1>1. StoreInit => LogInv /\ Log!Init
    <2> SUFFICES ASSUME StoreInit PROVE LogInv /\ Log!Init
      OBVIOUS
    <2>1. LogInv
      BY DEF StoreInit, LogInv, EventInv, FrozenInv, Running, NoAppend, Occurs
    <2>2. [i \in 1..Len(rows) |-> rows[i].event] = <<>>
      BY DEF StoreInit
    <2> QED
      BY <2>1, <2>2 DEF StoreInit, Log!Init
  <1>2. StoreInv /\ LogInv /\ [StoreNext]_storeVars => LogInv' /\ [Log!Next]_(Log!vars)
    BY StoreStepIsLog
  <1> QED
    BY StoreInvariant, <1>1, <1>2, PTL DEF StoreSpec, ImplementsLog, Log!Spec
-----------------------------------------------------------------------------
(* The pool pins.                                                          *)

(* What a resolution under way consists of.                                *)
Resolution ==
    [pc : {"away", "check", "sweep", "pin", "open", "write", "replace", "done"},
     kind : {"decide", "board", "act"}, want : SUBSET Asset, pins : Pins,
     got : [Asset -> PoolId \cup {NoPin}], queue : SUBSET Asset, text : Pins,
     inode : {"tmp", "file", "gone"}, calm : BOOLEAN]

PinTyped == /\ pinfile \in Torn \cup Pins
            /\ pintmp \in Torn \cup Pins
            /\ earning \subseteq PoolId
            /\ users \in [User -> Resolution]
            /\ \A u \in User : users[u].inode # "gone" => users[u].pc = "write"

(* What the pins of r say of the stocks r has already saved.               *)
Keeps(pins, r) == \A a \in Asset \ r.queue : r.got[a] # NoPin => pins[a] = r.got[a]

(* A calm resolution is that of a board; what it found still earns, and    *)
(* what it has saved stands where its save has got to: in the file, in the *)
(* text it is about to write, or in the temporary file it alone has        *)
(* written since it truncated it.                                          *)
CalmHolds(r) ==
    /\ r.kind = "board" /\ r.pc \in {"pin", "open", "write", "replace", "done"}
    /\ \A a \in Asset : r.got[a] # NoPin => Known("board", r.got[a], a)
    /\ r.pc \in {"pin", "done"} => Keeps(LoadedPins(pinfile), r)
    /\ r.pc \in {"open", "write"} => Keeps(r.text, r)
    /\ r.pc = "write" => r.inode = "tmp" /\ pintmp = Blank
    /\ r.pc = "replace" => pintmp \in Pins /\ Keeps(pintmp, r)
    /\ r.pc = "done" => r.queue = {}

PinInv == /\ PinTyped
          /\ \A u \in User : users[u].calm => CalmHolds(users[u])

LEMMA PinBasics ==
    /\ NoPins \in Pins /\ NoPins \in [Asset -> PoolId \cup {NoPin}]
    /\ Away \in Resolution
    /\ \A f \in Torn \cup Pins : LoadedPins(f) \in Pins
    /\ \A f \in Pins : LoadedPins(f) = f /\ f \notin Torn
    /\ \A f \in Pins, a \in Asset, p \in PoolId \cup {Wrong, NoPin} : [f EXCEPT ![a] = p] \in Pins
<1>1. NoPins \in Pins /\ NoPins \in [Asset -> PoolId \cup {NoPin}]
  BY DEF NoPins, Pins
<1>2. Away \in Resolution
  BY <1>1 DEF Away, Resolution
<1>3. \A f \in Pins : LoadedPins(f) = f /\ f \notin Torn
  BY PinAssumption DEF LoadedPins
<1>4. \A f \in Torn \cup Pins : LoadedPins(f) \in Pins
  BY <1>1, <1>3 DEF LoadedPins
<1>5. \A f \in Pins, a \in Asset, p \in PoolId \cup {Wrong, NoPin} : [f EXCEPT ![a] = p] \in Pins
  BY DEF Pins
<1> QED
  BY <1>1, <1>2, <1>3, <1>4, <1>5

(* What a sweep finds for a stock is one of the pools the adapter accepts. *)
LEMMA FoundEarns ==
    ASSUME earning \subseteq PoolId, NEW a \in Asset
    PROVE  /\ Found(a) \in PoolId \cup {NoPin}
           /\ Found(a) # NoPin => Found(a) \in earning /\ Found(a)[1] = a
<1>1. CASE Accepted(a) = {}
  BY <1>1 DEF Found
<1>2. CASE Accepted(a) # {}
  <2>1. \A p \in Accepted(a) : p \in earning /\ p \in PoolId /\ p[1] = a /\ p[2] \in {1, 2}
    BY DEF Accepted, PoolId
  <2>2. PICK p \in Accepted(a) : \A q \in Accepted(a) : p[2] <= q[2]
    <3>1. CASE \E p \in Accepted(a) : p[2] = 1
      BY <2>1, <3>1
    <3>2. CASE \A p \in Accepted(a) : p[2] = 2
      BY <1>2, <2>1, <3>2
    <3> QED
      BY <2>1, <3>1, <3>2
  <2>3. Found(a) \in Accepted(a)
    BY <1>2, <2>2 DEF Found
  <2> QED
    BY <2>1, <2>3
<1> QED
  BY <1>1, <1>2

LEMMA PinInitInv == PinInit => PinInv
<1> SUFFICES ASSUME PinInit PROVE PinInv
  OBVIOUS
<1>1. users \in [User -> Resolution]
  BY PinBasics DEF PinInit
<1>2. \A u \in User : users[u].inode = "gone" /\ ~users[u].calm
  BY DEF PinInit, Away
<1> QED
  BY <1>1, <1>2 DEF PinInit, PinInv, PinTyped, Torn

(* A step that only turns the resolution of u to r.                        *)
LEMMA QuietTurn ==
    ASSUME PinInv, NEW u \in User, NEW r \in Resolution, Turn(u, r),
           UNCHANGED <<pinfile, pintmp, earning>>,
           r.inode # "gone" => r.pc = "write", r.calm => CalmHolds(r)
    PROVE  PinInv'
<1>1. users' \in [User -> Resolution] /\ users'[u] = r
  BY DEF PinInv, PinTyped, Turn
<1>2. \A v \in User \ {u} : users'[v] = users[v]
  BY DEF PinInv, PinTyped, Turn
<1>3. PinTyped'
  BY <1>1, <1>2 DEF PinInv, PinTyped
<1>4. ASSUME NEW v \in User, users'[v].calm PROVE CalmHolds(users[v])'
  <2>1. CalmHolds(users'[v])
    BY <1>1, <1>2, <1>4 DEF PinInv
  <2> QED
    BY <2>1 DEF CalmHolds, Keeps, Known, Identified
<1> QED
  BY <1>3, <1>4 DEF PinInv

(* A step after which only the resolution of u may be calm.                *)
LEMMA LoudTurn ==
    ASSUME PinInv, PinTyped', NEW u \in User,
           \A v \in User \ {u} : ~users'[v].calm,
           users'[u].calm => CalmHolds(users[u])'
    PROVE  PinInv'
BY DEF PinInv

LEMMA FreshHolds == ~Away.calm /\ Away.inode = "gone" /\ Away.pc = "away"
BY DEF Away

LEMMA PinStep == PinInv /\ [PinNext]_pinVars => PinInv'
<1> SUFFICES ASSUME PinInv, [PinNext]_pinVars PROVE PinInv'
  OBVIOUS
<1>0. PinTyped
  BY DEF PinInv
<1>a. \A u \in User : users[u] \in Resolution
  BY <1>0 DEF PinTyped
<1>b. LoadedPins(pinfile) \in Pins
  BY <1>0, PinBasics DEF PinTyped
<1>1. ASSUME NEW u \in User, NEW kind \in {"decide", "board", "act"}, NEW want \in SUBSET Asset,
             Resolve(u, kind, want)
      PROVE  PinInv'
  <2> DEFINE pins == [a \in Asset |-> IF a \in want THEN LoadedPins(pinfile)[a] ELSE NoPin]
             r == IF \E a \in want : LoadedPins(pinfile)[a] = NoPin
                  THEN [Away EXCEPT !.kind = kind, !.want = want, !.pc = "sweep"]
                  ELSE [Away EXCEPT !.kind = kind, !.want = want, !.pc = "check", !.pins = pins]
             slow == [Away EXCEPT !.kind = kind, !.want = want, !.pc = "sweep"]
             fast == [Away EXCEPT !.kind = kind, !.want = want, !.pc = "check", !.pins = pins]
  <2>1. pins \in Pins
    BY <1>b DEF Pins
  <2>2. r \in Resolution /\ ~r.calm /\ r.inode = "gone"
    <3> HIDE DEF pins
    <3>1. Away \in Resolution /\ ~Away.calm /\ Away.inode = "gone"
      BY PinBasics, FreshHolds
    <3>2. slow \in Resolution /\ ~slow.calm /\ slow.inode = "gone"
      <4>1. slow \in Resolution
        BY <3>1 DEF Resolution
      <4> QED
        BY <3>1, <4>1 DEF Resolution
    <3>3. fast \in Resolution /\ ~fast.calm /\ fast.inode = "gone"
      <4>1. fast \in Resolution
        BY <2>1, <3>1 DEF Resolution
      <4> QED
        BY <3>1, <4>1 DEF Resolution
    <3>4. r = slow \/ r = fast
      OBVIOUS
    <3> HIDE DEF slow, fast, r
    <3> QED
      BY <3>2, <3>3, <3>4
  <2>3. Turn(u, r) /\ UNCHANGED <<pinfile, pintmp, earning>>
    BY <1>1 DEF Resolve
  <2> HIDE DEF r
  <2> QED
    BY <2>2, <2>3, QuietTurn
<1>2. ASSUME NEW u \in User, CheckHolds(u) \/ SweepRaises(u) \/ GoAway(u) PROVE PinInv'
  BY <1>2, PinBasics, FreshHolds, QuietTurn DEF CheckHolds, SweepRaises, GoAway
<1>3. ASSUME NEW u \in User, CheckFails(u) PROVE PinInv'
  <2> DEFINE r == [users[u] EXCEPT !.pc = "sweep", !.pins = NoPins]
  <2>1. r \in Resolution /\ ~r.calm /\ r.inode = "gone"
    <3>1. users[u].inode = "gone" /\ ~users[u].calm
      BY <1>0, <1>3 DEF CheckFails, PinInv, PinTyped, CalmHolds
    <3>2. users[u] \in Resolution /\ NoPins \in Pins
      BY <1>a, PinBasics
    <3>3. r \in Resolution
      BY <3>2 DEF Resolution
    <3> QED
      BY <3>1, <3>2, <3>3 DEF Resolution
  <2>2. Turn(u, r) /\ UNCHANGED <<pinfile, pintmp, earning>>
    BY <1>3 DEF CheckFails
  <2> HIDE DEF r
  <2> QED
    BY <2>1, <2>2, QuietTurn
<1>4. ASSUME NEW u \in User, SweepPools(u) PROVE PinInv'
  <2> DEFINE got == [a \in Asset |-> IF a \in users[u].want THEN Found(a) ELSE NoPin]
             r == [users[u] EXCEPT !.pc = "pin", !.got = got, !.queue = Stale(got),
                                   !.calm = users[u].kind = "board"]
  <2>1. got \in [Asset -> PoolId \cup {NoPin}]
    BY <1>0, FoundEarns DEF PinTyped
  <2>2. \A a \in Asset : got[a] # NoPin => Known("board", got[a], a)
    BY <1>0, FoundEarns DEF PinTyped, Known, Identified
  <2>3. Stale(got) \subseteq Asset /\ \A a \in Asset \ Stale(got) : got[a] = NoPin
    BY DEF Stale
  <2>4. users[u].inode = "gone" /\ users[u].pc = "sweep"
    BY <1>0, <1>4 DEF SweepPools, PinTyped
  <2>5. Turn(u, Away) \/ Turn(u, r)
    BY <1>4 DEF SweepPools
  <2> HIDE DEF got
  <2>6. r \in Resolution /\ r.inode = "gone" /\ r.pc = "pin" /\ r.got = got
        /\ r.queue = Stale(got) /\ (r.calm <=> r.kind = "board")
    <3> DEFINE left == Stale(got)
               calm == users[u].kind = "board"
    <3>1. users[u] \in Resolution /\ left \subseteq Asset /\ calm \in BOOLEAN
      BY <1>a, <2>3
    <3>2. r = [users[u] EXCEPT !.pc = "pin", !.got = got, !.queue = left, !.calm = calm]
      OBVIOUS
    <3>3. calm <=> users[u].kind = "board"
      OBVIOUS
    <3> HIDE DEF left, calm, r
    <3>4. r \in Resolution
      BY <2>1, <3>1, <3>2 DEF Resolution
    <3>5. r.inode = "gone" /\ r.pc = "pin" /\ r.got = got
      BY <2>4, <3>1, <3>2 DEF Resolution
    <3>6. r.queue = left /\ r.calm = calm /\ r.kind = users[u].kind
      BY <3>1, <3>2 DEF Resolution
    <3>7. left = Stale(got)
      BY DEF left
    <3> QED
      BY <3>3, <3>4, <3>5, <3>6, <3>7
  <2>7. r.calm => CalmHolds(r)
    BY <2>2, <2>3, <2>6 DEF CalmHolds, Keeps
  <2>8. UNCHANGED <<pinfile, pintmp, earning>>
    BY <1>4 DEF SweepPools
  <2> HIDE DEF r
  <2>9. CASE Turn(u, Away)
    BY <2>8, <2>9, PinBasics, FreshHolds, QuietTurn
  <2>10. CASE Turn(u, r)
    BY <2>6, <2>7, <2>8, <2>10, QuietTurn
  <2> QED
    BY <2>5, <2>9, <2>10
<1>5. ASSUME NEW u \in User, NEW a \in Asset, SkipPin(u, a) PROVE PinInv'
  <2> DEFINE r == [users[u] EXCEPT !.queue = @ \ {a}, !.calm = FALSE]
  <2>1. r \in Resolution /\ ~r.calm /\ r.inode = "gone"
    <3>1. users[u].inode = "gone"
      BY <1>0, <1>5 DEF SkipPin, PinTyped
    <3>2. users[u] \in Resolution
      BY <1>a
    <3>3. r \in Resolution
      BY <3>2 DEF Resolution
    <3> QED
      BY <3>1, <3>2, <3>3 DEF Resolution
  <2>2. Turn(u, r) /\ UNCHANGED <<pinfile, pintmp, earning>>
    BY <1>5 DEF SkipPin
  <2> HIDE DEF r
  <2> QED
    BY <2>1, <2>2, QuietTurn
<1>6. ASSUME NEW u \in User, NEW a \in Asset, SavePin(u, a) PROVE PinInv'
  <2> DEFINE text == [LoadedPins(pinfile) EXCEPT ![a] = users[u].got[a]]
             r == [users[u] EXCEPT !.queue = @ \ {a}, !.pc = "open", !.text = text]
  <2>1. users[u].got[a] \in PoolId \cup {NoPin}
    BY <1>a DEF Resolution
  <2>2. text \in Pins /\ text[a] = users[u].got[a]
        /\ \A b \in Asset \ {a} : text[b] = LoadedPins(pinfile)[b]
    BY <1>b, <2>1 DEF Pins
  <2>3. users[u].inode = "gone" /\ users[u].pc = "pin"
    BY <1>0, <1>6 DEF SavePin, PinTyped
  <2>4. Turn(u, r) /\ UNCHANGED <<pinfile, pintmp, earning>>
    BY <1>6 DEF SavePin
  <2> HIDE DEF text
  <2>5. r \in Resolution /\ r.inode = "gone" /\ r.pc = "open" /\ r.text = text
        /\ r.got = users[u].got /\ r.queue = users[u].queue \ {a} /\ r.kind = users[u].kind
        /\ r.calm = users[u].calm
    <3>1. users[u] \in Resolution
      BY <1>a
    <3>2. r \in Resolution
      BY <2>2, <3>1 DEF Resolution
    <3>3. r.inode = "gone" /\ r.pc = "open" /\ r.text = text
      BY <2>3, <3>1 DEF Resolution
    <3>4. r.got = users[u].got /\ r.queue = users[u].queue \ {a}
      BY <3>1 DEF Resolution
    <3>5. r.kind = users[u].kind /\ r.calm = users[u].calm
      BY <3>1 DEF Resolution
    <3> QED
      BY <3>2, <3>3, <3>4, <3>5
  <2>6. r.calm => CalmHolds(r)
    BY <2>2, <2>3, <2>5 DEF CalmHolds, Keeps, PinInv
  <2> HIDE DEF r
  <2> QED
    BY <2>4, <2>5, <2>6, QuietTurn
<1>7. ASSUME NEW u \in User, OpenTemp(u) PROVE PinInv'
  <2>1. users' = [v \in User |-> IF v = u THEN [users[u] EXCEPT !.pc = "write", !.inode = "tmp"]
                                 ELSE [users[v] EXCEPT !.calm = FALSE]]
    BY <1>7, <1>a DEF OpenTemp, Calmed, Resolution
  <2>2. users[u].pc = "open" /\ pintmp' = Blank /\ UNCHANGED <<pinfile, earning>>
    BY <1>7 DEF OpenTemp
  <2>a. ASSUME NEW v \in User PROVE users'[v] \in Resolution
    <3>0. users[v] \in Resolution
      BY <1>a
    <3>1. CASE v = u
      <4>1. users'[v] = [users[v] EXCEPT !.pc = "write", !.inode = "tmp"]
        BY <2>1, <3>1
      <4> QED
        BY <3>0, <4>1 DEF Resolution
    <3>2. CASE v # u
      <4>1. users'[v] = [users[v] EXCEPT !.calm = FALSE]
        BY <2>1, <3>2
      <4> QED
        BY <3>0, <4>1 DEF Resolution
    <3> QED
      BY <3>1, <3>2
  <2>b. ASSUME NEW v \in User, v # u
        PROVE  /\ ~users'[v].calm
               /\ users'[v].inode = users[v].inode /\ users'[v].pc = users[v].pc
    <3>1. users[v] \in Resolution /\ users'[v] = [users[v] EXCEPT !.calm = FALSE]
      BY <1>a, <2>1, <2>b
    <3> QED
      BY <3>1 DEF Resolution
  <2>c. users'[u].pc = "write" /\ users'[u].inode = "tmp"
    <3>1. users[u] \in Resolution
          /\ users'[u] = [users[u] EXCEPT !.pc = "write", !.inode = "tmp"]
      BY <1>a, <2>1
    <3> QED
      BY <3>1 DEF Resolution
  <2>3. users' \in [User -> Resolution] /\ \A v \in User \ {u} : ~users'[v].calm
    BY <2>1, <2>a, <2>b
  <2>4. \A v \in User : users'[v].inode # "gone" => users'[v].pc = "write"
    BY <1>0, <2>b, <2>c DEF PinTyped
  <2>5. PinTyped'
    BY <1>0, <2>2, <2>3, <2>4 DEF PinTyped, Torn
  <2>6. ASSUME users'[u].calm PROVE CalmHolds(users[u])'
    <3>0. users[u] \in Resolution
          /\ users'[u] = [users[u] EXCEPT !.pc = "write", !.inode = "tmp"]
      BY <1>a, <2>1
    <3>a. users'[u].calm = users[u].calm /\ users'[u].text = users[u].text
      BY <3>0 DEF Resolution
    <3>b. users'[u].got = users[u].got /\ users'[u].kind = users[u].kind
          /\ users'[u].queue = users[u].queue
      BY <3>0 DEF Resolution
    <3>1. users[u].calm /\ CalmHolds(users[u])
      BY <2>6, <3>a DEF PinInv
    <3>2. users'[u].pc = "write" /\ users'[u].inode = "tmp" /\ users'[u].got = users[u].got
          /\ users'[u].kind = users[u].kind /\ users'[u].queue = users[u].queue
          /\ users'[u].text = users[u].text
      BY <2>c, <3>a, <3>b
    <3> QED
      BY <2>2, <3>1, <3>2 DEF CalmHolds, Keeps, Known, Identified
  <2> QED
    BY <2>3, <2>5, <2>6, LoudTurn
<1>8. ASSUME NEW u \in User, WriteTemp(u) PROVE PinInv'
  <2>1. users' = [v \in User |-> IF v = u
                      THEN [users[u] EXCEPT !.pc = "replace", !.inode = "gone", !.text = NoPins]
                      ELSE [users[v] EXCEPT !.calm = FALSE]]
    BY <1>8, <1>a DEF WriteTemp, Calmed, Resolution
  <2>2. users[u].pc = "write" /\ UNCHANGED earning
    BY <1>8 DEF WriteTemp
  <2>a. /\ users[u] \in Resolution /\ NoPins \in Pins
        /\ users'[u] = [users[u] EXCEPT !.pc = "replace", !.inode = "gone", !.text = NoPins]
    BY <1>a, <2>1, PinBasics
  <2>b. ASSUME NEW v \in User, v # u
        PROVE  /\ users'[v] \in Resolution /\ ~users'[v].calm
               /\ users'[v].inode = users[v].inode /\ users'[v].pc = users[v].pc
    <3>1. users[v] \in Resolution /\ users'[v] = [users[v] EXCEPT !.calm = FALSE]
      BY <1>a, <2>1, <2>b
    <3>2. users'[v] \in Resolution
      BY <3>1 DEF Resolution
    <3>3. ~users'[v].calm /\ users'[v].inode = users[v].inode /\ users'[v].pc = users[v].pc
      BY <3>1 DEF Resolution
    <3> QED
      BY <3>2, <3>3
  <2>c. users'[u] \in Resolution
    BY <2>a DEF Resolution
  <2>d. users'[u].pc = "replace" /\ users'[u].inode = "gone" /\ users'[u].calm = users[u].calm
    BY <2>a DEF Resolution
  <2>e. users'[u].got = users[u].got /\ users'[u].kind = users[u].kind
        /\ users'[u].queue = users[u].queue
    BY <2>a DEF Resolution
  <2>3. users' \in [User -> Resolution] /\ \A v \in User \ {u} : ~users'[v].calm
    BY <2>1, <2>b, <2>c
  <2>4. \A v \in User : users'[v].inode # "gone" => users'[v].pc = "write"
    BY <1>0, <2>b, <2>d DEF PinTyped
  <2>5. users[u].text \in Pins
    BY <1>a DEF Resolution
  <2>6. pinfile' \in Torn \cup Pins /\ pintmp' \in Torn \cup Pins
    BY <1>0, <1>8, <1>a, <2>5 DEF WriteTemp, Over, PinTyped, Resolution, Torn
  <2>7. PinTyped'
    BY <1>0, <2>2, <2>3, <2>4, <2>6 DEF PinTyped
  <2>8. ASSUME users'[u].calm PROVE CalmHolds(users[u])'
    <3>1. users[u].calm /\ CalmHolds(users[u])
      BY <2>8, <2>d DEF PinInv
    <3>2. pintmp' = users[u].text /\ pinfile' = pinfile
      BY <1>8, <2>2, <3>1 DEF WriteTemp, CalmHolds, Over
    <3>3. users'[u].pc = "replace" /\ users'[u].got = users[u].got
          /\ users'[u].kind = users[u].kind /\ users'[u].queue = users[u].queue
      BY <2>d, <2>e
    <3> QED
      BY <2>2, <2>5, <3>1, <3>2, <3>3 DEF CalmHolds, Keeps, Known, Identified
  <2> QED
    BY <2>3, <2>7, <2>8, LoudTurn
<1>9. ASSUME NEW u \in User, ReplaceFile(u) PROVE PinInv'
  <2>1. CASE pintmp = NoFile
    <3> DEFINE r == [users[u] EXCEPT !.pc = "pin"]
    <3>1. ~users[u].calm
      BY <1>9, <2>1, PinAssumption DEF ReplaceFile, PinInv, CalmHolds, Torn
    <3>2. r \in Resolution /\ ~r.calm /\ r.inode = "gone"
      <4>1. users[u] \in Resolution /\ users[u].inode = "gone"
        BY <1>0, <1>a, <1>9 DEF ReplaceFile, PinTyped
      <4>2. r \in Resolution
        BY <4>1 DEF Resolution
      <4> QED
        BY <3>1, <4>1, <4>2 DEF Resolution
    <3>3. Turn(u, r) /\ UNCHANGED <<pinfile, pintmp, earning>>
      BY <1>9, <2>1 DEF ReplaceFile
    <3> HIDE DEF r
    <3> QED
      BY <3>2, <3>3, QuietTurn
  <2>2. CASE pintmp # NoFile
    <3>1. /\ pinfile' = pintmp /\ pintmp' = NoFile /\ UNCHANGED earning
          /\ users[u].pc = "replace"
          /\ users' = [v \in User |->
                   IF v = u THEN [users[v] EXCEPT !.pc = "pin"]
                   ELSE [users[v] EXCEPT !.calm = FALSE,
                             !.inode = IF @ = "tmp" THEN "file" ELSE "gone"]]
      BY <1>9, <2>2 DEF ReplaceFile
    <3>a. ASSUME NEW v \in User PROVE users'[v] \in Resolution
      <4> DEFINE i == IF users[v].inode = "tmp" THEN "file" ELSE "gone"
      <4>1. users[v] \in Resolution /\ i \in {"tmp", "file", "gone"}
        BY <1>a
      <4>2. users'[v] = IF v = u THEN [users[v] EXCEPT !.pc = "pin"]
                        ELSE [users[v] EXCEPT !.calm = FALSE, !.inode = i]
        BY <3>1
      <4> HIDE DEF i
      <4>3. CASE v = u
        <5>1. users'[v] = [users[v] EXCEPT !.pc = "pin"]
          BY <4>2, <4>3
        <5> QED
          BY <4>1, <5>1 DEF Resolution
      <4>4. CASE v # u
        <5>1. users'[v] = [users[v] EXCEPT !.calm = FALSE, !.inode = i]
          BY <4>2, <4>4
        <5> QED
          BY <4>1, <5>1 DEF Resolution
      <4> QED
        BY <4>3, <4>4
    <3>b. ASSUME NEW v \in User, v # u
          PROVE  /\ ~users'[v].calm /\ users'[v].pc = users[v].pc
                 /\ users'[v].inode # "gone" => users[v].inode # "gone"
      <4> DEFINE i == IF users[v].inode = "tmp" THEN "file" ELSE "gone"
      <4>1. users[v] \in Resolution /\ users'[v] = [users[v] EXCEPT !.calm = FALSE, !.inode = i]
        BY <1>a, <3>1, <3>b
      <4>2. i # "gone" => users[v].inode # "gone"
        OBVIOUS
      <4> HIDE DEF i
      <4>3. ~users'[v].calm /\ users'[v].pc = users[v].pc /\ users'[v].inode = i
        BY <4>1 DEF Resolution
      <4> QED
        BY <4>2, <4>3
    <3>c. users[u] \in Resolution /\ users'[u] = [users[u] EXCEPT !.pc = "pin"]
      BY <1>a, <3>1
    <3>d. users'[u].pc = "pin" /\ users'[u].inode = users[u].inode /\ users'[u].calm = users[u].calm
      BY <3>c DEF Resolution
    <3>e. users'[u].got = users[u].got /\ users'[u].kind = users[u].kind
          /\ users'[u].queue = users[u].queue
      BY <3>c DEF Resolution
    <3>2. users' \in [User -> Resolution] /\ \A v \in User \ {u} : ~users'[v].calm
      BY <3>1, <3>a, <3>b
    <3>3. \A v \in User : users'[v].inode # "gone" => users'[v].pc = "write"
      <4>1. users[u].inode = "gone"
        BY <1>0, <3>1 DEF PinTyped
      <4> QED
        BY <1>0, <3>b, <3>d, <4>1 DEF PinTyped
    <3>4. PinTyped'
      BY <1>0, <3>1, <3>2, <3>3 DEF PinTyped, Torn
    <3>5. ASSUME users'[u].calm PROVE CalmHolds(users[u])'
      <4>1. users[u].calm /\ CalmHolds(users[u])
        BY <3>5, <3>d DEF PinInv
      <4>2. LoadedPins(pinfile') = pintmp
        BY <3>1, <4>1, PinBasics DEF CalmHolds
      <4>3. LoadedPins(pinfile)' = pintmp
        BY <4>2 DEF LoadedPins
      <4>4. users'[u].pc = "pin" /\ users'[u].got = users[u].got
            /\ users'[u].kind = users[u].kind /\ users'[u].queue = users[u].queue
        BY <3>d, <3>e
      <4>5. Keeps(pintmp, users[u])
        BY <3>1, <4>1 DEF CalmHolds
      <4>6. Keeps(LoadedPins(pinfile), users[u])'
        BY <4>3, <4>4, <4>5 DEF Keeps
      <4>7. (\A a \in Asset : users[u].got[a] # NoPin => Known("board", users[u].got[a], a))'
        <5>1. \A a \in Asset : users[u].got[a] # NoPin => Known("board", users[u].got[a], a)
          BY <4>1 DEF CalmHolds
        <5>2. users'[u].got = users[u].got /\ earning' = earning
          BY <3>1, <4>4
        <5> QED
          BY <5>1, <5>2 DEF Known, Identified
      <4> QED
        BY <4>1, <4>4, <4>6, <4>7 DEF CalmHolds
    <3> QED
      BY <3>2, <3>4, <3>5, LoudTurn
  <2> QED
    BY <2>1, <2>2
<1>10. ASSUME NEW u \in User, SaveFails(u) PROVE PinInv'
  <2> DEFINE r == [users[u] EXCEPT !.pc = "pin", !.inode = "gone", !.calm = FALSE, !.text = NoPins]
  <2>1. r \in Resolution /\ ~r.calm /\ r.inode = "gone"
    <3>1. users[u] \in Resolution /\ NoPins \in Pins
      BY <1>a, PinBasics
    <3>2. r \in Resolution
      BY <3>1 DEF Resolution
    <3> QED
      BY <3>1, <3>2 DEF Resolution
  <2>2. Turn(u, r) /\ UNCHANGED <<pinfile, pintmp, earning>>
    BY <1>10 DEF SaveFails
  <2> HIDE DEF r
  <2> QED
    BY <2>1, <2>2, QuietTurn
<1>11. ASSUME NEW u \in User, Answered(u) PROVE PinInv'
  <2> DEFINE r == [users[u] EXCEPT !.pc = "done"]
  <2>1. users[u].pc = "pin" /\ users[u].queue = {} /\ users[u].inode = "gone"
    BY <1>0, <1>11 DEF Answered, PinTyped
  <2>2. r \in Resolution /\ r.inode = "gone" /\ r.pc = "done" /\ r.calm = users[u].calm
        /\ r.kind = users[u].kind /\ r.got = users[u].got /\ r.queue = users[u].queue
    <3>1. users[u] \in Resolution
      BY <1>a
    <3>2. r \in Resolution
      BY <3>1 DEF Resolution
    <3>3. r.inode = "gone" /\ r.pc = "done" /\ r.calm = users[u].calm
      BY <2>1, <3>1 DEF Resolution
    <3>4. r.kind = users[u].kind /\ r.got = users[u].got /\ r.queue = users[u].queue
      BY <3>1 DEF Resolution
    <3> QED
      BY <3>2, <3>3, <3>4
  <2>3. r.calm => CalmHolds(r)
    BY <2>1, <2>2 DEF PinInv, CalmHolds, Keeps
  <2>4. (Turn(u, r) \/ Turn(u, Away)) /\ UNCHANGED <<pinfile, pintmp, earning>>
    BY <1>11 DEF Answered
  <2> HIDE DEF r
  <2>5. CASE Turn(u, r)
    BY <2>2, <2>3, <2>4, <2>5, QuietTurn
  <2>6. CASE Turn(u, Away)
    BY <2>4, <2>6, PinBasics, FreshHolds, QuietTurn
  <2> QED
    BY <2>4, <2>5, <2>6
<1>12. ASSUME users' = [v \in User |-> [users[v] EXCEPT !.calm = FALSE]],
              pinfile' \in Torn \cup Pins, pintmp' \in Torn \cup Pins, earning' \subseteq PoolId
       PROVE  PinInv'
  <2>1. ASSUME NEW v \in User
        PROVE  /\ users'[v] \in Resolution /\ ~users'[v].calm
               /\ users'[v].inode = users[v].inode /\ users'[v].pc = users[v].pc
    <3>1. users[v] \in Resolution /\ users'[v] = [users[v] EXCEPT !.calm = FALSE]
      BY <1>a, <1>12
    <3>2. users'[v] \in Resolution
      BY <3>1 DEF Resolution
    <3>3. ~users'[v].calm /\ users'[v].inode = users[v].inode /\ users'[v].pc = users[v].pc
      BY <3>1 DEF Resolution
    <3> QED
      BY <3>2, <3>3
  <2>2. users' \in [User -> Resolution]
    BY <1>12, <2>1
  <2> QED
    BY <1>0, <1>12, <2>1, <2>2 DEF PinInv, PinTyped
<1>13. ASSUME NEW p \in PoolId, ShiftGauge(p) PROVE PinInv'
  BY <1>0, <1>12, <1>13 DEF ShiftGauge, PinTyped
<1>14. CASE EditPins
  <2>1. pinfile' \in Torn \cup Pins
    <3>1. pinfile' = Garbled \/ \E a \in Asset : pinfile' = [LoadedPins(pinfile) EXCEPT ![a] = Wrong]
      BY <1>14 DEF EditPins
    <3>2. \A a \in Asset : [LoadedPins(pinfile) EXCEPT ![a] = Wrong] \in Pins
      BY <1>b, PinBasics
    <3>3. Garbled \in Torn
      BY DEF Torn
    <3> QED
      BY <3>1, <3>2, <3>3
  <2> QED
    BY <1>0, <1>12, <1>14, <2>1 DEF EditPins, PinTyped
<1>15. CASE UNCHANGED pinVars
  BY <1>15 DEF pinVars, PinInv, PinTyped, CalmHolds, Keeps, LoadedPins, Known, Identified
<1> QED
  <2>1. ASSUME NEW u \in User, NEW a \in Asset, AskStock(u, a) \/ AskToAct(u, a) PROVE PinInv'
    BY <2>1, <1>1 DEF AskStock, AskToAct
  <2>2. ASSUME NEW u \in User, AskBoard(u) PROVE PinInv'
    BY <2>2, <1>1 DEF AskBoard
  <2> QED
    BY <1>2, <1>3, <1>4, <1>5, <1>6, <1>7, <1>8, <1>9, <1>10, <1>11, <1>13, <1>14, <1>15,
       <2>1, <2>2 DEF PinNext

(* The files and the resolutions keep their types, for any processes and   *)
(* any stocks.                                                             *)
THEOREM PinsTyped == PinSpec => []PinTypeOK
<1>1. PinInv => PinTypeOK
  <2> SUFFICES ASSUME PinInv PROVE PinTypeOK
    OBVIOUS
  <2>1. \A u \in User : users[u] \in Resolution
    BY DEF PinInv, PinTyped
  <2> QED
    BY <2>1 DEF PinInv, PinTyped, PinTypeOK, Resolution
<1> QED
  BY <1>1, PinInitInv, PinStep, PTL DEF PinSpec

(* A board resolved without interference leaves a file from which the next *)
(* one resolves the same pools, however many processes write through the   *)
(* one temporary name.                                                     *)
THEOREM BoardsHeal == PinSpec => []BoardHeals
<1>1. PinInv => BoardHeals
  <2> SUFFICES ASSUME PinInv, NEW u \in User, users[u].pc = "done", users[u].kind = "board",
                      users[u].calm, \A a \in Asset : users[u].got[a] # NoPin, NEW a \in Asset
               PROVE  /\ LoadedPins(pinfile)[a] = users[u].got[a]
                      /\ Known("board", LoadedPins(pinfile)[a], a)
    BY DEF BoardHeals
  <2>1. CalmHolds(users[u])
    BY DEF PinInv
  <2> QED
    BY <2>1 DEF CalmHolds, Keeps
<1> QED
  BY <1>1, PinInitInv, PinStep, PTL DEF PinSpec

-----------------------------------------------------------------------------

(* The suite of the three runs the store, the recovery or the pins, leaves *)
(* the others as they are, and never changes which.                        *)
LEMMA DurableRefines ==
  DurableSpec => StoreSpec /\ Spec /\ PinSpec /\ [](part \in {"store", "recovery", "pins"})
<1>1. DurableInit => StoreInit /\ Init /\ PinInit /\ part \in {"store", "recovery", "pins"}
  BY DEF DurableInit
<1>2. [DurableNext]_<<part, storeVars, vars, pinVars>> =>
        [StoreNext]_storeVars /\ [Next]_vars /\ [PinNext]_pinVars /\ part' = part
  BY DEF DurableNext
<1>3. part \in {"store", "recovery", "pins"} /\ part' = part => (part \in {"store", "recovery", "pins"})'
  OBVIOUS
<1> QED
  BY <1>1, <1>2, <1>3, PTL DEF DurableSpec, StoreSpec, Spec, PinSpec

(* MCDurable, DurableTypeOK: whatever outlives a process keeps its types,  *)
(* through every crash, retry and torn write of the part that runs.        *)
THEOREM DurableTyped == DurableSpec => []DurableTypeOK
<1>1. StoreTypeOK /\ TypeOK /\ PinTypeOK /\ part \in {"store", "recovery", "pins"} => DurableTypeOK
  BY DEF DurableTypeOK
<1> QED
  BY <1>1, DurableRefines, StoreTyped, RecoveryTyped, PinsTyped, PTL
=============================================================================
