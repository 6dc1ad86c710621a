----------------------------- MODULE DailyDigest -----------------------------
(***************************************************************************)
(* The one mail a day.  Each digest command takes its instant, reads the   *)
(* audit chain backwards in pages while others append, claims the rolling  *)
(* window in a durable marker under a lock, hands the mail to the          *)
(* transport and settles the marker; it may die anywhere.  In the other    *)
(* mail mode every cycle sends its own mail and no window applies.         *)
(***************************************************************************)
EXTENDS Integers, Sequences, FiniteSets

CONSTANTS
    Sender,      \* digest commands: the timer's, a catch-up, a manual one
    Window,      \* DIGEST_SEND_INTERVAL and the hours a digest composes, in ticks
    DigestPage,  \* rows of one read
    DigestPages, \* DIGEST_MAX_PAGES
    Lag,         \* how much older a row's stamp may be than its append
    MaxClock,    \* bound: ticks of the clock
    MaxAppends,  \* bound: rows of the chain
    MaxMisread,  \* bound: acceptances the transport reads as refusals
    Clean, Unreadable  \* the marker: absent, not parseable

ASSUME DigestAssumption == /\ Window \in Nat \ {0} /\ DigestPage \in Nat \ {0}
                           /\ DigestPages \in Nat \ {0} /\ Lag \in Nat
                           /\ MaxClock \in Nat /\ MaxAppends \in Nat /\ MaxMisread \in Nat

\* DigestSendMarker.
Marks == [at : 0..MaxClock, outcome : {"accepted", "ambiguous", "rejected"}]

ASSUME MarkerAssumption == Clean # Unreadable /\ Clean \notin Marks /\ Unreadable \notin Marks

VARIABLES
    hour,     \* the wall clock
    stamps,   \* created_at of the chain's rows, in append order
    marker,   \* digest_send_state.json
    sender,   \* per command: where it is
    mailed    \* history: digests the provider took, since the last reset

digestVars == <<hour, stamps, marker, sender, mailed>>

\* at: the command's instant; left: rows not read yet; pages: read so far;
\* held: the rows composed; seen: rows at the count (history).
Ended == [pc |-> "ended", at |-> 0, left |-> 0, pages |-> 0, held |-> {}, seen |-> 0,
          verdict |-> "ambiguous"]

DigestInit == /\ hour = 0
              /\ stamps = <<>>
              /\ marker = Clean
              /\ sender = [s \in Sender |-> Ended]
              /\ mailed = {}

Sends(s, r) == sender' = [sender EXCEPT ![s] = r]

-----------------------------------------------------------------------------
(* Collecting.                                                             *)

\* A valid mail configuration; the instant is taken before anything is read.
StartDigest(s) ==
    /\ sender[s].pc = "ended"
    /\ Sends(s, [Ended EXCEPT !.pc = "read", !.at = hour, !.left = Len(stamps), !.seen = Len(stamps)])
    /\ UNCHANGED <<hour, stamps, marker, mailed>>

RowsOf_Forward(left) == LET take == IF DigestPage < left THEN DigestPage ELSE left
                        IN  1..take

\* The newest rows not read yet.
RowsOf(left) == LET take == IF DigestPage < left THEN DigestPage ELSE left
                IN  (left - take + 1)..left

\* Rows that belong to the digest's day.
InWindow(rows, at) == {i \in rows : stamps[i] >= at - Window}

\* The page that ends where the last one began; the first page with an older
\* row, or the page bound, ends the read.
CollectPage(s) ==
    LET r == sender[s]
        page == RowsOf(r.left)
        recent == InWindow(page, r.at)
        last == recent # page \/ r.left = Cardinality(page) \/ r.pages + 1 = DigestPages
    IN  /\ r.pc = "read" /\ r.left > 0
        /\ Sends(s, [r EXCEPT !.held = @ \cup recent, !.left = @ - Cardinality(page),
                           !.pages = @ + 1, !.pc = IF last THEN "claim" ELSE "read"])
        /\ UNCHANGED <<hour, stamps, marker, mailed>>

CollectNothing(s) ==
    /\ sender[s].pc = "read" /\ sender[s].left = 0
    /\ Sends(s, [sender[s] EXCEPT !.pc = "claim"])
    /\ UNCHANGED <<hour, stamps, marker, mailed>>

-----------------------------------------------------------------------------
(* Admission.                                                              *)

Mark(at, outcome) == [at |-> at, outcome |-> outcome]

Admits_AcceptedOnly(now) ==
    \/ marker = Clean
    \/ marker # Unreadable /\ (marker.outcome # "accepted" \/ now >= marker.at + Window)

\* Without a marker, after a proven rejection or once the window is over; a
\* marker that cannot be parsed admits nothing.
Admits(now) ==
    \/ marker = Clean
    \/ marker # Unreadable /\ (marker.outcome = "rejected" \/ now >= marker.at + Window)

\* One step under the exclusive lock: the reservation is durable before the
\* transport fires, and stands for an unknown outcome.
ClaimSend(s) ==
    /\ sender[s].pc = "claim"
    /\ IF Admits(sender[s].at)
       THEN /\ marker' = Mark(sender[s].at, "ambiguous")
            /\ Sends(s, [Ended EXCEPT !.pc = "send", !.at = sender[s].at])
       ELSE /\ Sends(s, Ended)
            /\ UNCHANGED marker
    /\ UNCHANGED <<hour, stamps, mailed>>

\* What the transport makes of an exchange, and whether the mail was taken.
Outcome(verdict, took) == [verdict |-> verdict, took |-> took]

\* Without an explicit refusal nothing is known: it may have been taken.
Unclear == {Outcome("ambiguous", took) : took \in BOOLEAN}

\* A reply that refuses the session, the sender or the data proves that
\* nothing was taken; but so is the reply to QUIT read, when all is over.
SmtpOutcomes == {Outcome("accepted", TRUE)} \cup {Outcome("rejected", quit) : quit \in BOOLEAN} \cup Unclear

\* So is a connection that was never made, and any status but success: a
\* gateway's too, whose provider took the mail.
HttpOutcomes == {Outcome("accepted", TRUE)} \cup {Outcome("rejected", gateway) : gateway \in BOOLEAN} \cup Unclear

SendDigest(s) ==
    /\ sender[s].pc = "send"
    /\ \E o \in SmtpOutcomes \cup HttpOutcomes :
          /\ o.verdict = "rejected" /\ o.took => Cardinality({m \in mailed : m.misread}) < MaxMisread
          /\ Sends(s, [sender[s] EXCEPT !.pc = "settle", !.verdict = o.verdict])
          /\ mailed' = IF ~o.took THEN mailed
                       ELSE mailed \cup {[no |-> Cardinality(mailed) + 1, at |-> sender[s].at,
                                          sent |-> hour, misread |-> o.verdict = "rejected"]}
    /\ UNCHANGED <<hour, stamps, marker>>

\* The outcome over whatever marker stands, with the claim's own instant; a
\* marker that cannot be written keeps its reservation.
Settle(s) ==
    /\ sender[s].pc = "settle"
    /\ \/ marker' = Mark(sender[s].at, sender[s].verdict)
       \/ UNCHANGED marker
    /\ Sends(s, Ended)
    /\ UNCHANGED <<hour, stamps, mailed>>

DigestDies(s) ==
    /\ sender[s].pc # "ended"
    /\ Sends(s, Ended)
    /\ UNCHANGED <<hour, stamps, marker, mailed>>

-----------------------------------------------------------------------------
(* Around it (external).  Appends carry the stamp their caller took; the    *)
(* transports' timeouts keep a command shorter than a window; the operator *)
(* resets the marker while nothing is being sent.                          *)

AppendStamp(lag) ==
    /\ Len(stamps) < MaxAppends
    /\ stamps' = Append(stamps, hour - lag)
    /\ UNCHANGED <<hour, marker, sender, mailed>>

HourPasses ==
    /\ hour < MaxClock
    /\ \A s \in Sender : sender[s].pc # "ended" => hour + 1 < sender[s].at + Window
    /\ hour' = hour + 1
    /\ UNCHANGED <<stamps, marker, sender, mailed>>

MarkerDamaged ==
    /\ marker' = Unreadable
    /\ UNCHANGED <<hour, stamps, sender, mailed>>

ResetMarker ==
    /\ \A s \in Sender : sender[s].pc \notin {"send", "settle"}
    /\ marker # Clean
    /\ marker' = Clean
    /\ mailed' = {}
    /\ UNCHANGED <<hour, stamps, sender>>

DigestNext ==
    \/ \E s \in Sender : \/ StartDigest(s) \/ CollectPage(s) \/ CollectNothing(s) \/ ClaimSend(s)
                         \/ SendDigest(s) \/ Settle(s) \/ DigestDies(s)
    \/ \E lag \in 0..Lag : AppendStamp(lag)
    \/ HourPasses \/ MarkerDamaged \/ ResetMarker

DigestSpec == DigestInit /\ [][DigestNext]_digestVars

-----------------------------------------------------------------------------
(* Properties.                                                             *)

\* Clock, marker and commands keep their types.
DigestTypeOK ==
    /\ hour \in 0..MaxClock
    /\ marker \in {Clean, Unreadable} \cup Marks
    /\ \A s \in Sender : /\ sender[s].pc \in {"ended", "read", "claim", "send", "settle"}
                         /\ sender[s].held \subseteq 1..Len(stamps)

\* "Exactly one email per rolling 24 hours" (digest_admission.py): no digest
\* is sent before the window measured from an earlier one's instant is over,
\* whatever commands overlap, claim with an instant taken long before, die or
\* cannot settle - unless the transport read the earlier one's acceptance as a
\* refusal.
DigestSpaced ==
    \A m, n \in mailed : m.no < n.no => m.misread \/ n.sent - m.at >= Window

\* A digest holds every row of its day that was on the chain when it began,
\* though rows are appended while it reads: the first page with an older row
\* may end the read only because stamps lag behind by no more than Lag, and
\* rows that close to the window's start may be missing.
DigestCovers ==
    \A s \in Sender :
        LET r == sender[s]
        IN  (r.pc = "claim" /\ ~(r.pages = DigestPages /\ r.left > 0)) =>
                \A i \in 1..r.seen : stamps[i] >= r.at - Window + Lag => i \in r.held
=============================================================================
