---------------------------- MODULE RpcTransport ----------------------------
(***************************************************************************)
(* The bounded JSON-RPC clients (executor.py ExecutorRpcBackend, safe_tx.py *)
(* SafeTransactionRpcBackend): every request is attempted a bounded number *)
(* of times over the endpoints in turn; a group of independent calls at a  *)
(* pinned block is read in chunks, each one batch request, until an        *)
(* endpoint refuses batches, which is remembered for good.                 *)
(*                                                                         *)
(* The answer to call k of a group is k itself; backoff and pacing are     *)
(* left out.                                                               *)
(***************************************************************************)
EXTENDS Integers, Sequences

CONSTANTS
    Calls,      \* calls of one group
    MaxBatch,   \* MAX_CALL_BATCH_SIZE
    Attempts,   \* attempts of one request
    Endpoints,  \* the endpoint and its fallbacks
    Groups      \* groups and Safe reads one backend serves

ASSUME TransportAssumption ==
    /\ {Calls, MaxBatch, Attempts, Endpoints, Groups} \subseteq Nat \ {0}
    /\ Endpoints <= Attempts

VARIABLES
    rpc,    \* the backend and what it is reading
    wire    \* requests the endpoints saw

rpcVars == <<rpc, wire>>

Reading == {"batch", "single", "safe"}

TransportInit ==
    /\ rpc = [phase |-> "idle", size |-> MaxBatch, groups |-> Groups, chunk |-> 1,
              first |-> 1, next |-> 1, tries |-> 0, got |-> <<>>]
    /\ wire = [asked |-> {}, refusals |-> 0]

(* The last call of the chunk being read.                                  *)
LastOf == IF rpc.first + rpc.chunk - 1 < Calls THEN rpc.first + rpc.chunk - 1 ELSE Calls

Endpoint_First(attempt) == 0
(* The endpoint an attempt goes to.                                        *)
Endpoint(attempt) == attempt % Endpoints

Shape(size) == IF size = 1 THEN "single" ELSE "batch"

(* eth_call_group_at: the chunk size is read once.                         *)
ReadGroup ==
    /\ rpc.phase \in {"idle", "done"} /\ rpc.groups > 0
    /\ rpc' = [rpc EXCEPT !.phase = Shape(rpc.size), !.groups = @ - 1, !.chunk = rpc.size,
                          !.first = 1, !.next = 1, !.tries = 0, !.got = <<>>]
    /\ wire' = [wire EXCEPT !.asked = {}]

(* One attempt that failed for now: the next goes to another endpoint.     *)
Transient ==
    /\ rpc.phase \in {"batch", "single"}
    /\ rpc' = IF rpc.tries + 1 < Attempts THEN [rpc EXCEPT !.tries = @ + 1]
              ELSE [rpc EXCEPT !.phase = "exhausted"]
    /\ wire' = [wire EXCEPT !.asked = @ \cup {Endpoint(rpc.tries)}]

(* A revert, an error, too few entries, ids missing or met twice.          *)
Fatal ==
    /\ rpc.phase \in {"batch", "single"}
    /\ rpc' = [rpc EXCEPT !.phase = "failed"] /\ UNCHANGED wire

(* The chunk is read; the rest in the shape the backend has by now.        *)
Onward(got) ==
    IF LastOf = Calls THEN [rpc EXCEPT !.phase = "done", !.got = got, !.tries = 0]
    ELSE [rpc EXCEPT !.phase = Shape(rpc.size), !.got = got, !.tries = 0,
                     !.first = LastOf + 1, !.next = LastOf + 1]

Aligned_AsSent(entries) == [k \in 1..Len(entries) |-> entries[k].value]
(* Entries are matched by their ids.                                       *)
Aligned(entries) ==
    [k \in 1..Len(entries) |-> (CHOOSE n \in {entries[j] : j \in 1..Len(entries)} : n.id = k).value]

(* The entries of a batch answer come in any order.                        *)
Orders(n) == {f \in [1..n -> 1..n] : \A j, k \in 1..n : f[j] = f[k] => j = k}

BatchAnswered ==
    /\ rpc.phase = "batch"
    /\ \E order \in Orders(LastOf - rpc.first + 1) :
           rpc' = Onward(rpc.got \o Aligned(
               [k \in 1..Len(order) |-> [id |-> order[k], value |-> rpc.first + order[k] - 1]]))
    /\ wire' = [wire EXCEPT !.asked = {}]

(* A body that is no list: no batch ever again, the chunk is read singly.  *)
BatchRefused ==
    /\ rpc.phase = "batch"
    /\ rpc' = [rpc EXCEPT !.size = 1, !.phase = "single", !.tries = 0, !.next = rpc.first]
    /\ wire' = [asked |-> {}, refusals |-> wire.refusals + 1]

SingleAnswered ==
    /\ rpc.phase = "single"
    /\ LET got == Append(rpc.got, rpc.next)
       IN  rpc' = IF rpc.next = LastOf THEN Onward(got)
                  ELSE [rpc EXCEPT !.got = got, !.next = @ + 1, !.tries = 0]
    /\ wire' = [wire EXCEPT !.asked = {}]

-----------------------------------------------------------------------------
(* The Safe's own client: single reads, a connection each.                 *)

AskSafe ==
    /\ rpc.phase \in {"idle", "done"} /\ rpc.groups > 0
    /\ rpc' = [rpc EXCEPT !.phase = "safe", !.groups = @ - 1, !.tries = 0, !.got = <<>>]
    /\ wire' = [wire EXCEPT !.asked = {}]

SafeTransient ==
    /\ rpc.phase = "safe"
    /\ \/ /\ rpc' = IF rpc.tries + 1 < Attempts THEN [rpc EXCEPT !.tries = @ + 1]
                    ELSE [rpc EXCEPT !.phase = "exhausted"]
          /\ wire' = [wire EXCEPT !.asked = @ \cup {Endpoint(rpc.tries)}]
       \/ rpc' = [rpc EXCEPT !.phase = "failed"] /\ UNCHANGED wire

(* A revert of checkSignatures is an answer: the verdict is no.            *)
SafeAnswered ==
    /\ rpc.phase = "safe"
    /\ rpc' = [rpc EXCEPT !.phase = "idle"] /\ UNCHANGED wire

TransportNext ==
    \/ ReadGroup \/ Transient \/ Fatal \/ BatchAnswered \/ BatchRefused \/ SingleAnswered
    \/ AskSafe \/ SafeTransient \/ SafeAnswered

TransportSpec == TransportInit /\ [][TransportNext]_rpcVars

-----------------------------------------------------------------------------
(* Properties.                                                             *)

TransportTypeOK ==
    /\ rpc.phase \in Reading \cup {"idle", "done", "failed", "exhausted"}
    /\ rpc.size \in {1, MaxBatch} /\ rpc.chunk \in {1, MaxBatch}
    /\ rpc.first \in 1..Calls /\ rpc.next \in 1..Calls /\ rpc.tries \in 0..(Attempts - 1)
    /\ wire.asked \subseteq 0..(Endpoints - 1)

(* A group that is read answers every call once, in the order of the       *)
(* calls, whatever chunks, orders of entries, retries and refusals it went *)
(* through (executor.py:1119, :1278); one batch at most is lost to a       *)
(* refusal; and a read is given up only after every endpoint was asked.    *)
GroupAligned ==
    /\ rpc.phase = "done" => rpc.got = [k \in 1..Calls |-> k]
    /\ wire.refusals <= 1
    /\ rpc.phase = "exhausted" => wire.asked = 0..(Endpoints - 1)
=============================================================================
