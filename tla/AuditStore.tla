----------------------------- MODULE AuditStore -----------------------------
(***************************************************************************)
(* The append-only audit store: a hash chain in one SQLite file, shared by *)
(* the cycle, the manual commands, the watchtower, the dashboard and the   *)
(* timers.  Appends run in one immediate write transaction with a bounded  *)
(* retry of lock contention; readers page through the chain without a      *)
(* lock.  A process may die at any point; SQLite then rolls back.          *)
(***************************************************************************)
EXTENDS Integers, Sequences

CONSTANTS
    Proc,            \* processes that append
    Event,           \* audit events, each appended by one call
    MaxTries,        \* attempts of one append under lock contention
    PageSize,        \* rows a reader asks for at a time
    Tampering,       \* whether someone edits the file behind the store
    Genesis,         \* predecessor of the first record
    Nobody,          \* the write lock is free
    None,            \* no event, no row
    Hash(_, _, _)    \* digest of sequence, content and predecessor

ASSUME StoreAssumption == /\ MaxTries \in Nat \ {0}
                          /\ PageSize \in Nat \ {0}
                          /\ Tampering \in BOOLEAN
                          /\ Nobody \notin Proc

VARIABLES
    rows,       \* committed rows of audit_records
    wlock,      \* holder of SQLite's write lock
    app,        \* per process: the append under way
    reader,     \* one paging reader
    verdict,    \* history: what the caller of each event's append was told
    tampered    \* history: the file was edited behind the store

storeVars == <<rows, wlock, app, reader, verdict, tampered>>

NoAppend == [pc |-> "idle", event |-> None, tries |-> 0, row |-> None]
NoRead   == [pc |-> "idle", acc |-> <<>>, atleast |-> 0]

StoreInit == /\ rows = <<>>
        /\ wlock = Nobody
        /\ app = [p \in Proc |-> NoAppend]
        /\ reader = NoRead
        /\ verdict = [e \in Event |-> "none"]
        /\ tampered = FALSE

Predecessor(s, i) == IF i = 1 THEN Genesis ELSE s[i - 1].hash

\* One record is what an append would have written in its place.
RecordOK(s, i) ==
    /\ s[i].seq = i
    /\ s[i].prev = Predecessor(s, i)
    /\ s[i].hash = Hash(s[i].seq, s[i].event, s[i].prev)

\* Verification of an ordered snapshot of the complete chain.
Verified(s) == \A i \in 1..Len(s) : RecordOK(s, i)

NewRecord_FirstHash(s, e) ==
    LET prev == IF Len(s) = 0 THEN Genesis ELSE s[1].hash
    IN  [seq |-> Len(s) + 1, event |-> e, prev |-> prev, hash |-> Hash(Len(s) + 1, e, prev)]

NewRecord(s, e) ==
    LET prev == Predecessor(s, Len(s) + 1)
    IN  [seq |-> Len(s) + 1, event |-> e, prev |-> prev, hash |-> Hash(Len(s) + 1, e, prev)]

-----------------------------------------------------------------------------
(* Appending.                                                              *)

Becomes(p, job) == app' = [app EXCEPT ![p] = job]

Quit(p, v) == /\ Becomes(p, NoAppend)
              /\ wlock' = IF wlock = p THEN Nobody ELSE wlock
              /\ verdict' = [verdict EXCEPT ![app[p].event] = v]

\* Every call appends a new event.
Request(p, e) ==
    /\ app[p].pc = "idle"
    /\ verdict[e] = "none"
    /\ \A q \in Proc : app[q].pc # "idle" => app[q].event # e
    /\ Becomes(p, [NoAppend EXCEPT !.pc = "begin", !.event = e])
    /\ UNCHANGED <<rows, wlock, reader, verdict, tampered>>

Begin_Deferred(p) ==
    /\ app[p].pc = "begin"
    /\ wlock' = p
    /\ Becomes(p, [app[p] EXCEPT !.pc = "locked"])
    /\ UNCHANGED <<rows, reader, verdict, tampered>>

\* BEGIN IMMEDIATE takes the write lock before anything is read.
Begin(p) ==
    /\ app[p].pc = "begin"
    /\ wlock = Nobody
    /\ wlock' = p
    /\ Becomes(p, [app[p] EXCEPT !.pc = "locked"])
    /\ UNCHANGED <<rows, reader, verdict, tampered>>

Busy_OneTryTooMany(p) ==
    /\ app[p].pc = "begin"
    /\ wlock # Nobody
    /\ IF app[p].tries + 1 <= MaxTries
       THEN /\ Becomes(p, [app[p] EXCEPT !.tries = @ + 1])
            /\ UNCHANGED <<wlock, verdict>>
       ELSE Quit(p, "raised")
    /\ UNCHANGED <<rows, reader, tampered>>

\* The lock outlived the connection timeout: back off and try again, and
\* after the last attempt let the error reach the caller.
Busy(p) ==
    /\ app[p].pc = "begin"
    /\ wlock # Nobody
    /\ IF app[p].tries + 1 < MaxTries
       THEN /\ Becomes(p, [app[p] EXCEPT !.tries = @ + 1])
            /\ UNCHANGED <<wlock, verdict>>
       ELSE Quit(p, "raised")
    /\ UNCHANGED <<rows, reader, tampered>>

Insert_Unverified(p) ==
    /\ app[p].pc = "locked"
    /\ Becomes(p, [app[p] EXCEPT !.pc = "insert", !.row = NewRecord(rows, app[p].event)])
    /\ UNCHANGED <<rows, wlock, reader, verdict, tampered>>

\* The whole chain verifies under the lock, and the new row is linked to the
\* last one.
Insert(p) ==
    /\ app[p].pc = "locked"
    /\ Verified(rows)
    /\ Becomes(p, [app[p] EXCEPT !.pc = "insert", !.row = NewRecord(rows, app[p].event)])
    /\ UNCHANGED <<rows, wlock, reader, verdict, tampered>>

\* A corrupt chain accepts no further event.
Refuse(p) ==
    /\ app[p].pc = "locked"
    /\ ~Verified(rows)
    /\ Quit(p, "raised")
    /\ UNCHANGED <<rows, reader, tampered>>

Commit(p) ==
    /\ app[p].pc = "insert"
    /\ rows' = Append(rows, app[p].row)
    /\ wlock' = Nobody
    /\ Becomes(p, [app[p] EXCEPT !.pc = "done"])
    /\ UNCHANGED <<reader, verdict, tampered>>

Return(p) ==
    /\ app[p].pc = "done"
    /\ Quit(p, "returned")
    /\ UNCHANGED <<rows, reader, tampered>>

\* The process dies: an open transaction rolls back and frees the lock.
Die(p) ==
    /\ app[p].pc # "idle"
    /\ Quit(p, "lost")
    /\ UNCHANGED <<rows, reader, tampered>>

-----------------------------------------------------------------------------
(* Reading the complete chain in pages.                                    *)

StartRead ==
    /\ reader.pc \in {"idle", "done"}
    /\ reader' = [pc |-> "read", acc |-> <<>>, atleast |-> Len(rows)]
    /\ UNCHANGED <<rows, wlock, app, verdict, tampered>>

Page(offset) == SubSeq(rows, offset + 1,
                       IF offset + PageSize < Len(rows) THEN offset + PageSize ELSE Len(rows))

ReadPage_StopsWhenFull ==
    /\ reader.pc = "read"
    /\ reader' = [reader EXCEPT
                    !.acc = @ \o Page(Len(reader.acc)),
                    !.pc = IF Len(Page(Len(reader.acc))) <= PageSize THEN "done" ELSE "read"]
    /\ UNCHANGED <<rows, wlock, app, verdict, tampered>>

\* Each page is a snapshot of its own; a short page ends the read.
ReadPage ==
    /\ reader.pc = "read"
    /\ reader' = [reader EXCEPT
                    !.acc = @ \o Page(Len(reader.acc)),
                    !.pc = IF Len(Page(Len(reader.acc))) < PageSize THEN "done" ELSE "read"]
    /\ UNCHANGED <<rows, wlock, app, verdict, tampered>>

-----------------------------------------------------------------------------
(* Edits behind the store (external): a row's content is replaced, or a row *)
(* before the last is removed, without recomputing any digest.             *)

Edit(i, e) ==
    /\ Tampering /\ wlock = Nobody
    /\ i \in 1..Len(rows)
    /\ e # rows[i].event
    /\ rows' = [rows EXCEPT ![i].event = e]
    /\ tampered' = TRUE
    /\ UNCHANGED <<wlock, app, reader, verdict>>

Remove(i) ==
    /\ Tampering /\ wlock = Nobody
    /\ i \in 1..(Len(rows) - 1)
    /\ rows' = SubSeq(rows, 1, i - 1) \o SubSeq(rows, i + 1, Len(rows))
    /\ tampered' = TRUE
    /\ UNCHANGED <<wlock, app, reader, verdict>>

Tamper == /\ ~tampered
          /\ \E i \in 1..Len(rows) : Remove(i) \/ \E e \in Event : Edit(i, e)

-----------------------------------------------------------------------------

AppendStep(p) == \/ \E e \in Event : Request(p, e)
                 \/ Begin(p) \/ Busy(p) \/ Insert(p) \/ Refuse(p)
                 \/ Commit(p) \/ Return(p) \/ Die(p)

StoreNext == (\E p \in Proc : AppendStep(p)) \/ StartRead \/ ReadPage \/ Tamper

StoreSpec == StoreInit /\ [][StoreNext]_storeVars

-----------------------------------------------------------------------------
(* Properties.                                                             *)

\* Rows, processes and the reader keep their types; retries stay bounded.
StoreTypeOK ==
    /\ \A i \in 1..Len(rows) : rows[i].seq \in Nat /\ rows[i].event \in Event
    /\ wlock \in Proc \cup {Nobody}
    /\ \A p \in Proc :
          /\ app[p].pc \in {"idle", "begin", "locked", "insert", "done"}
          /\ app[p].pc # "idle" => app[p].event \in Event
          /\ app[p].pc = "begin" => app[p].tries \in 0..(MaxTries - 1)
    /\ reader.pc \in {"idle", "read", "done"}
    /\ verdict \in [Event -> {"none", "returned", "raised", "lost"}]
    /\ tampered \in BOOLEAN

\* However many processes append and die, every committed record carries its
\* position, its true predecessor and its own digest: the chain verifies.
ChainIntact == ~tampered => Verified(rows)

\* A paged read that ended while appends kept coming holds a gapless prefix
\* of the chain, with every record that was there when it began.
PagedReadComplete ==
    (reader.pc = "done" /\ ~tampered) =>
        /\ reader.atleast <= Len(reader.acc)
        /\ reader.acc = SubSeq(rows, 1, Len(reader.acc))

\* The store is the log its writers rely on: one growing order, each event
\* at most once, returned means recorded and raised means not; and a corrupt
\* chain is frozen, nothing is ever appended to tampered history.
Log == INSTANCE EventLog WITH log <- [i \in 1..Len(rows) |-> rows[i].event],
                               corrupt <- tampered

ImplementsLog == Log!Spec
=============================================================================
