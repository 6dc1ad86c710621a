------------------------------ MODULE PoolPins ------------------------------
(***************************************************************************)
(* The pool pins: one cache file of swept pool identities that lets every  *)
(* surface skip the enumeration of all pools.  Decisions (one symbol, or   *)
(* the whole board) and LP commands load it, check the pin against the     *)
(* chain, fall back to a sweep and refresh it.  The file is replaced       *)
(* whole, but through one temporary name that all processes share.         *)
(***************************************************************************)
EXTENDS Integers, FiniteSets

CONSTANTS
    User,       \* processes that resolve pools
    Asset,      \* listed stocks, each with a pool
    Twin,       \* the stock with a second pool
    MaxShifts,  \* bound: changes of a gauge and of the file from outside
    NoPin,      \* no pin, no pool
    Wrong,      \* a pin whose facts are not those of a pool of its stock
    NoFile, Blank, Garbled  \* contents: absent, truncated, malformed

PoolId == {<<a, 1>> : a \in Asset} \cup {<<Twin, 2>>}
Pins   == [Asset -> PoolId \cup {Wrong, NoPin}]
Torn   == {NoFile, Blank, Garbled}

\* An absent, a truncated and a malformed file are told apart from each other
\* and from one that lists pins.
ASSUME PinAssumption ==
    /\ Twin \in Asset /\ MaxShifts \in Nat
    /\ Torn \cap Pins = {}
    /\ NoFile # Blank /\ NoFile # Garbled /\ Blank # Garbled

VARIABLES
    pinfile,  \* lp_pool_pins.json
    pintmp,   \* lp_pool_pins.json.tmp
    earning,  \* chain: pools whose gauge is alive and emits AERO
    shifts,   \* changes from outside so far
    users     \* per process: the resolution under way

pinVars == <<pinfile, pintmp, earning, shifts, users>>

\* want: the stocks asked for; pins: what the file said; got: the answer;
\* queue: pins still to write; text: the content being written, inode: the
\* file it goes to; calm: history of a board, nothing interfered since its
\* sweep.
NoPins == [a \in Asset |-> NoPin]
Away   == [pc |-> "away", kind |-> "decide", want |-> {}, pins |-> NoPins, got |-> NoPins,
           queue |-> {}, text |-> NoPins, inode |-> "gone", calm |-> FALSE]

PinInit == /\ pinfile = NoFile
           /\ pintmp = NoFile
           /\ earning = PoolId
           /\ shifts = 0
           /\ users = [u \in User |-> Away]

-----------------------------------------------------------------------------

\* Any failure to read the file yields no pins.
LoadedPins(f) == IF f \in Torn THEN NoPins ELSE f

\* The pool's own views, read at one block, repeat the pinned facts.
Identified(pin, a) == pin \in PoolId /\ pin[1] = a

\* Decisions also ask for the official pair and factory and a gauge that is
\* alive and pays; LP commands ask for the identity alone.
Known(kind, pin, a) == Identified(pin, a) /\ (kind = "act" \/ pin \in earning)

\* What the venue adapter accepts of the swept pools; the first one counts.
Accepted(a) == {p \in earning : p[1] = a}
Found(a) == IF Accepted(a) = {} THEN NoPin
            ELSE CHOOSE p \in Accepted(a) : \A q \in Accepted(a) : p[2] <= q[2]

Calmed(us, u) == [v \in User |-> IF v = u THEN us[v] ELSE [us[v] EXCEPT !.calm = FALSE]]
Turn(u, r)    == users' = [users EXCEPT ![u] = r]

\* A fast attempt needs a pin for everything that is asked.
Resolve(u, kind, want) ==
    /\ users[u].pc = "away"
    /\ Turn(u, IF \E a \in want : LoadedPins(pinfile)[a] = NoPin
               THEN [Away EXCEPT !.kind = kind, !.want = want, !.pc = "sweep"]
               ELSE [Away EXCEPT !.kind = kind, !.want = want, !.pc = "check",
                         !.pins = [a \in Asset |-> IF a \in want THEN LoadedPins(pinfile)[a] ELSE NoPin]])
    /\ UNCHANGED <<pinfile, pintmp, earning, shifts>>

\* A pinned decision asks for its stock, a selector cycle for the whole
\* board, an LP command for the stock it acts on.
AskStock(u, a)  == Resolve(u, "decide", {a})
AskBoard(u)     == Resolve(u, "board", Asset)
AskToAct(u, a)  == Resolve(u, "act", {a})

\* All pinned pools check out at one block: the caller has its answer.
CheckHolds(u) ==
    /\ users[u].pc = "check"
    /\ \A a \in users[u].want : Known(users[u].kind, users[u].pins[a], a)
    /\ Turn(u, Away)
    /\ UNCHANGED <<pinfile, pintmp, earning, shifts>>

\* A mismatch, a dead gauge or an unreadable view: the sweep decides.
CheckFails(u) ==
    /\ users[u].pc = "check"
    /\ Turn(u, [users[u] EXCEPT !.pc = "sweep", !.pins = NoPins])
    /\ UNCHANGED <<pinfile, pintmp, earning, shifts>>

Stale_MissingOnly(got) == {a \in Asset : got[a] # NoPin /\ LoadedPins(pinfile)[a] = NoPin}

\* Every pool the sweep resolved is pinned again, whatever was pinned before.
Stale(got) == {a \in Asset : got[a] # NoPin}

\* The sweep reads all pages at one block.  One stock without an accepted
\* pool refuses; the board lists what there is.
SweepPools(u) ==
    LET got == [a \in Asset |-> IF a \in users[u].want THEN Found(a) ELSE NoPin]
    IN  /\ users[u].pc = "sweep"
        /\ IF users[u].kind # "board" /\ got = NoPins
           THEN Turn(u, Away)
           ELSE Turn(u, [users[u] EXCEPT !.pc = "pin", !.got = got,
                             !.queue = Stale(got), !.calm = users[u].kind = "board"])
        /\ UNCHANGED <<pinfile, pintmp, earning, shifts>>

\* A page stays unreadable, the batch does not validate, the snapshot of a
\* command is too old or its stock's decimals cannot be read: nothing pinned.
SweepRaises(u) ==
    /\ users[u].pc = "sweep"
    /\ Turn(u, Away)
    /\ UNCHANGED <<pinfile, pintmp, earning, shifts>>

\* A decision whose stock's decimals cannot be read goes on without the pin.
SkipPin(u, a) ==
    /\ users[u].pc = "pin" /\ a \in users[u].queue
    /\ users[u].kind # "act"
    /\ Turn(u, [users[u] EXCEPT !.queue = @ \ {a}, !.calm = FALSE])
    /\ UNCHANGED <<pinfile, pintmp, earning, shifts>>

\* save_pin: load, change one entry, write the temporary file, replace.
SavePin(u, a) ==
    /\ users[u].pc = "pin" /\ a \in users[u].queue
    /\ Turn(u, [users[u] EXCEPT !.queue = @ \ {a}, !.pc = "open",
                    !.text = [LoadedPins(pinfile) EXCEPT ![a] = users[u].got[a]]])
    /\ UNCHANGED <<pinfile, pintmp, earning, shifts>>

\* Opening truncates whatever another writer left or is writing there.
OpenTemp(u) ==
    /\ users[u].pc = "open"
    /\ pintmp' = Blank
    /\ users' = [Calmed(users, u) EXCEPT ![u].pc = "write", ![u].inode = "tmp"]
    /\ UNCHANGED <<pinfile, earning, shifts>>

\* Two writers of one file: the later bytes cover the earlier ones, or leave
\* a tail of them standing.
Over(old, new) == IF old \in {Blank, NoFile} THEN {new} ELSE {new, Garbled}

\* The bytes go to the file that was opened, whatever its name is by now.
WriteTemp(u) ==
    /\ users[u].pc = "write"
    /\ CASE users[u].inode = "tmp"  -> pintmp' \in Over(pintmp, users[u].text) /\ UNCHANGED pinfile
         [] users[u].inode = "file" -> pinfile' \in Over(pinfile, users[u].text) /\ UNCHANGED pintmp
         [] users[u].inode = "gone" -> UNCHANGED <<pinfile, pintmp>>
    /\ users' = [Calmed(users, u) EXCEPT ![u].pc = "replace", ![u].inode = "gone",
                              ![u].text = NoPins]
    /\ UNCHANGED <<earning, shifts>>

\* os.replace moves the file under its writers; a missing one is an OSError,
\* and no failure of the cache reaches the caller.
ReplaceFile(u) ==
    /\ users[u].pc = "replace"
    /\ IF pintmp = NoFile
       THEN Turn(u, [users[u] EXCEPT !.pc = "pin"]) /\ UNCHANGED <<pinfile, pintmp>>
       ELSE /\ pinfile' = pintmp
            /\ pintmp' = NoFile
            /\ users' = [v \in User |->
                   IF v = u THEN [users[v] EXCEPT !.pc = "pin"]
                   ELSE [users[v] EXCEPT !.calm = FALSE,
                             !.inode = IF @ = "tmp" THEN "file" ELSE "gone"]]
    /\ UNCHANGED <<earning, shifts>>

\* The disk refuses a step of the save: ignored.
SaveFails(u) ==
    /\ users[u].pc \in {"open", "write", "replace"}
    /\ Turn(u, [users[u] EXCEPT !.pc = "pin", !.inode = "gone", !.calm = FALSE,
                    !.text = NoPins])
    /\ UNCHANGED <<pinfile, pintmp, earning, shifts>>

\* All pins written or given up: the caller has its answer.
Answered(u) ==
    /\ users[u].pc = "pin" /\ users[u].queue = {}
    /\ Turn(u, IF users[u].kind = "board" THEN [users[u] EXCEPT !.pc = "done"] ELSE Away)
    /\ UNCHANGED <<pinfile, pintmp, earning, shifts>>

\* The command ends, or its process dies.
GoAway(u) ==
    /\ users[u].pc # "away"
    /\ Turn(u, Away)
    /\ UNCHANGED <<pinfile, pintmp, earning, shifts>>

\* A gauge is killed or revived, its emissions end or begin; the file is
\* lost, damaged or edited by hand (external).
ShiftGauge(p) ==
    /\ shifts < MaxShifts
    /\ earning' = IF p \in earning THEN earning \ {p} ELSE earning \cup {p}
    /\ shifts' = shifts + 1
    /\ users' = [v \in User |-> [users[v] EXCEPT !.calm = FALSE]]
    /\ UNCHANGED <<pinfile, pintmp>>

EditPins ==
    /\ shifts < MaxShifts
    /\ \/ pinfile' = Garbled
       \/ \E a \in Asset : pinfile' = [LoadedPins(pinfile) EXCEPT ![a] = Wrong]
    /\ shifts' = shifts + 1
    /\ users' = [v \in User |-> [users[v] EXCEPT !.calm = FALSE]]
    /\ UNCHANGED <<pintmp, earning>>

PinNext ==
    \/ \E u \in User :
          \/ AskBoard(u)
          \/ \E a \in Asset : AskStock(u, a) \/ AskToAct(u, a)
          \/ CheckHolds(u) \/ CheckFails(u) \/ SweepPools(u) \/ SweepRaises(u)
          \/ \E a \in Asset : SkipPin(u, a) \/ SavePin(u, a)
          \/ OpenTemp(u) \/ WriteTemp(u) \/ ReplaceFile(u) \/ SaveFails(u)
          \/ Answered(u) \/ GoAway(u)
    \/ \E p \in PoolId : ShiftGauge(p)
    \/ EditPins

PinSpec == PinInit /\ [][PinNext]_pinVars

-----------------------------------------------------------------------------
(* Properties.                                                             *)

\* The files and the processes keep their types.
PinTypeOK ==
    /\ pinfile \in Torn \cup Pins
    /\ pintmp \in Torn \cup Pins
    /\ earning \subseteq PoolId
    /\ \A u \in User : /\ users[u].inode \in {"tmp", "file", "gone"}
                       /\ users[u].inode # "gone" => users[u].pc = "write"

\* "A completed board sweep refreshes every verified pin. This heals stale or
\* hand-edited cache entries ... instead of trapping future cycles in full
\* discovery" (strategy.py): when nothing interfered since the sweep, the next
\* selector cycle takes the fast path and resolves the same pools - whatever
\* the file held, and whatever half-written temporary file or paused writer a
\* dead or slow process left behind.  Only a board on which each stock has an
\* accepted pool: a pin whose gauge died is never removed, and with one of
\* those the fast path of the whole board fails for as long as it is dead.
BoardHeals ==
    \A u \in User :
        LET r == users[u]
        IN  (r.pc = "done" /\ r.kind = "board" /\ r.calm /\ \A a \in Asset : r.got[a] # NoPin)
                => \A a \in Asset : /\ LoadedPins(pinfile)[a] = r.got[a]
                                    /\ Known("board", LoadedPins(pinfile)[a], a)
=============================================================================
