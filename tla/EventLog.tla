------------------------------ MODULE EventLog ------------------------------
(***************************************************************************)
(* What the audit store promises its writers: one log that only grows, an  *)
(* event in it at most once, a returned append durable, a raised append    *)
(* never recorded.  A writer that dies in between leaves the event         *)
(* recorded or not, and finds out by reading the log.  Once the log was    *)
(* corrupted behind the store, nothing is recorded any more.               *)
(***************************************************************************)
EXTENDS Sequences

CONSTANT Event

VARIABLES log,      \* the recorded events, oldest first
          verdict,  \* what the writer of each event was told
          corrupt   \* the log was edited behind the store

vars == <<log, verdict, corrupt>>

Init == /\ log = <<>>
        /\ verdict = [e \in Event |-> "none"]
        /\ corrupt = FALSE

Recorded(e) == \E i \in DOMAIN log : log[i] = e

Record(e) == /\ ~corrupt
             /\ verdict[e] = "none"
             /\ ~Recorded(e)
             /\ log' = Append(log, e)
             /\ UNCHANGED <<verdict, corrupt>>

Tell(e, v) == /\ verdict[e] = "none"
              /\ v = "returned" => (corrupt \/ Recorded(e))
              /\ v = "raised" => (corrupt \/ ~Recorded(e))
              /\ verdict' = [verdict EXCEPT ![e] = v]
              /\ UNCHANGED <<log, corrupt>>

\* Whatever the edit did to the log.
Corrupt == /\ ~corrupt
           /\ corrupt' = TRUE
           /\ UNCHANGED verdict

Next == \/ Corrupt
        \/ \E e \in Event : \/ Record(e)
                            \/ \E v \in {"returned", "raised", "lost"} : Tell(e, v)

Spec == Init /\ [][Next]_vars
=============================================================================
