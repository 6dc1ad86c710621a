---------------------------- MODULE SurfaceProofs ----------------------------
(***************************************************************************)
(* Proofs about what runs beside the execution lock: the transport a       *)
(* command reads through, the swap command and the mails of the digest,    *)
(* for any endpoints, runs, commands and windows, and the suite of them.   *)
(***************************************************************************)
EXTENDS MCSurfaces, FiniteSetTheorems, SequenceTheorems, TLAPS

-----------------------------------------------------------------------------
(* The transport.                                                          *)

Counted(n) == [k \in 1..n |-> k]

Answers == Seq(Nat)
Backend ==
    [phase : {"batch", "single", "safe", "idle", "done", "failed", "exhausted"},
     size : Nat, groups : Nat, chunk : Nat, first : Nat, next : Nat, tries : Nat,
     got : Answers]

RpcTyped ==
    /\ rpc \in Backend
    /\ rpc.size \in {1, MaxBatch} /\ rpc.chunk \in {1, MaxBatch}
    /\ 1 <= rpc.first /\ rpc.first <= Calls /\ 1 <= rpc.next /\ rpc.next <= Calls
    /\ rpc.tries < Attempts
    /\ wire \in [asked : SUBSET (0..(Endpoints - 1)), refusals : Nat]

(* A batch is read while batches are, and what is answered is the calls up *)
(* to where the reading is.                                                *)
InOrder ==
    /\ rpc.phase = "batch" => rpc.size # 1 /\ rpc.got = Counted(rpc.first - 1)
    /\ rpc.phase = "single" =>
           rpc.first <= rpc.next /\ rpc.next <= LastOf /\ rpc.got = Counted(rpc.next - 1)
    /\ rpc.phase = "done" => rpc.got = Counted(Calls)

(* Every attempt made has asked its endpoint.                              *)
Tried ==
    /\ rpc.phase \in Reading => \A k \in 0..(rpc.tries - 1) : Endpoint(k) \in wire.asked
    /\ rpc.phase = "exhausted" => \A k \in 0..(Attempts - 1) : Endpoint(k) \in wire.asked

RpcInv == RpcTyped /\ InOrder /\ Tried /\ wire.refusals <= (IF rpc.size = 1 THEN 1 ELSE 0)

LEMMA TransportFacts ==
    /\ Calls \in Nat \ {0} /\ MaxBatch \in Nat \ {0} /\ Attempts \in Nat \ {0}
    /\ Endpoints \in Nat \ {0} /\ Groups \in Nat \ {0} /\ Endpoints <= Attempts
BY TransportAssumption

LEMMA EndpointRange ==
    /\ \A k \in Nat : Endpoint(k) \in 0..(Endpoints - 1)
    /\ \A k \in 0..(Endpoints - 1) : Endpoint(k) = k
BY TransportFacts DEF Endpoint

(* Orders are permutations: every place of the answer is some entry's.     *)
LEMMA OrdersReach ==
    ASSUME NEW n \in Nat, NEW order \in Orders(n), NEW k \in 1..n
    PROVE  \E j \in 1..n : order[j] = k
<1>1. order \in Injection(1..n, 1..n)
  BY DEF Orders, Injection, IsInjective
<1>2. IsFiniteSet(1..n)
  BY FS_Interval
<1>3. order \in Surjection(1..n, 1..n)
  BY <1>1, <1>2, FS_Injection
<1> QED
  BY <1>3 DEF Surjection

(* The ids put the entries of a batch back in the order of its calls.      *)
LEMMA AlignedCounts ==
    ASSUME NEW n \in Nat, NEW order \in Orders(n), NEW first \in Nat
    PROVE  Aligned([k \in 1..Len(order) |-> [id |-> order[k], value |-> first + order[k] - 1]])
               = [k \in 1..n |-> first + k - 1]
<1> DEFINE entries == [k \in 1..Len(order) |-> [id |-> order[k], value |-> first + order[k] - 1]]
           all == {entries[j] : j \in 1..Len(entries)}
<1>1. order \in [1..n -> 1..n] /\ Len(order) = n
  BY DEF Orders
<1>2. entries = [k \in 1..n |-> [id |-> order[k], value |-> first + order[k] - 1]]
      /\ Len(entries) = n
  BY <1>1
<1>3. ASSUME NEW k \in 1..n
      PROVE  (CHOOSE e \in all : e.id = k).value = first + k - 1
  <2>1. PICK j \in 1..n : order[j] = k
    BY OrdersReach
  <2>2. entries[j] \in all /\ entries[j].id = k
    BY <1>2, <2>1
  <2>3. \A e \in all : e.id = k => e.value = first + k - 1
    BY <1>1, <1>2
  <2> HIDE DEF all
  <2> QED
    BY <2>2, <2>3
<1> HIDE DEF all
<1>4. Aligned(entries) = [k \in 1..n |-> (CHOOSE e \in all : e.id = k).value]
  BY <1>2 DEF Aligned, all
<1> HIDE DEF entries
<1>5. Aligned(entries) = [k \in 1..n |-> first + k - 1]
  BY <1>3, <1>4
<1> QED
  BY <1>5 DEF entries

LEMMA CountedOn ==
    /\ \A n \in Nat : Counted(n) \in Seq(Nat)
    /\ \A n \in Nat : Len(Counted(n)) = n
    /\ \A n \in Nat : Append(Counted(n), n + 1) = Counted(n + 1)
    /\ \A n \in Nat, m \in Nat : n <= m =>
           Counted(n) \o [k \in 1..(m - n) |-> n + k] = Counted(m)
    /\ Counted(0) = <<>>
<1>1. ASSUME NEW n \in Nat PROVE Counted(n) \in Seq(Nat) /\ Len(Counted(n)) = n
  BY DEF Counted
<1>2. ASSUME NEW n \in Nat PROVE Append(Counted(n), n + 1) = Counted(n + 1)
  BY <1>1 DEF Counted
<1>3. ASSUME NEW n \in Nat, NEW m \in Nat, n <= m
      PROVE  Counted(n) \o [k \in 1..(m - n) |-> n + k] = Counted(m)
  <2> DEFINE rest == [k \in 1..(m - n) |-> n + k]
  <2>1. rest \in Seq(Nat) /\ Len(rest) = m - n
    BY <1>3
  <2> DEFINE both == Counted(n) \o rest
  <2> HIDE DEF rest
  <2>2. both \in Seq(Nat) /\ Len(both) = m
        /\ \A k \in 1..m : both[k] = IF k <= n THEN Counted(n)[k] ELSE rest[k - n]
    <3>1. Counted(n) \in Seq(Nat) /\ Len(Counted(n)) = n
      BY <1>1
    <3>2. /\ both \in Seq(Nat) /\ Len(both) = Len(Counted(n)) + Len(rest)
          /\ \A k \in 1..(Len(Counted(n)) + Len(rest)) :
                 both[k] = IF k <= Len(Counted(n)) THEN Counted(n)[k]
                           ELSE rest[k - Len(Counted(n))]
      BY <3>1, <2>1, ConcatProperties
    <3>3. Len(Counted(n)) + Len(rest) = m
      BY <1>3, <2>1, <3>1
    <3> QED
      BY <3>1, <3>2, <3>3
  <2> USE DEF rest
  <2>3. \A k \in 1..m : (IF k <= n THEN Counted(n)[k] ELSE rest[k - n]) = k
    BY <1>3 DEF Counted
  <2>4. \A k \in 1..m : both[k] = k
    BY <2>2, <2>3
  <2> HIDE DEF both
  <2>5. both = [k \in 1..m |-> k]
    BY <2>2, <2>4
  <2> QED
    BY <2>5 DEF Counted, both
<1>4. Counted(0) = <<>>
  BY DEF Counted
<1> QED
  BY <1>1, <1>2, <1>3, <1>4

-----------------------------------------------------------------------------

LEMMA RpcInitInv == TransportInit => RpcInv
<1> SUFFICES ASSUME TransportInit PROVE RpcInv
  OBVIOUS
<1>1. RpcTyped
  BY TransportFacts DEF TransportInit, RpcTyped, Backend, Answers
<1> QED
  BY <1>1, TransportFacts DEF TransportInit, RpcInv, InOrder, Tried, Reading

LEMMA BackendKept ==
    ASSUME NEW r \in Backend, NEW g \in Answers
    PROVE  /\ [r EXCEPT !.phase = "done", !.got = g, !.tries = 0] \in Backend
           /\ \A n \in Nat, ph \in {"batch", "single"} :
                  [r EXCEPT !.phase = ph, !.got = g, !.tries = 0, !.first = n, !.next = n] \in Backend
           /\ \A n \in Nat : [r EXCEPT !.got = g, !.next = n, !.tries = 0] \in Backend
<1>1. [r EXCEPT !.phase = "done", !.got = g, !.tries = 0] \in Backend
  BY DEF Backend
<1>2. ASSUME NEW n \in Nat, NEW ph \in {"batch", "single"}
      PROVE  [r EXCEPT !.phase = ph, !.got = g, !.tries = 0, !.first = n, !.next = n] \in Backend
  BY DEF Backend
<1>3. ASSUME NEW n \in Nat
      PROVE  [r EXCEPT !.got = g, !.next = n, !.tries = 0] \in Backend
  BY DEF Backend
<1> QED
  BY <1>1, <1>2, <1>3

(* Behind a chunk that is read the next begins, or the group is done.      *)
LEMMA OnwardInv ==
    ASSUME RpcInv, rpc.phase \in {"batch", "single"}, rpc' = Onward(Counted(LastOf)),
           wire' = [wire EXCEPT !.asked = {}]
    PROVE  RpcInv'
<1>1. RpcTyped /\ InOrder /\ wire.refusals <= (IF rpc.size = 1 THEN 1 ELSE 0)
  BY DEF RpcInv
<1>2. LastOf \in rpc.first..Calls
  BY <1>1, TransportFacts DEF RpcTyped, Backend, LastOf
<1>a. LastOf \in Nat
  BY <1>1, <1>2 DEF RpcTyped, Backend
<1>3. Counted(LastOf) \in Answers
  BY <1>a, CountedOn DEF Answers
<1>4. wire' = [asked |-> {}, refusals |-> wire.refusals]
  BY <1>1 DEF RpcTyped
<1> DEFINE got == Counted(LastOf)
           last == LastOf
<1>5. CASE LastOf = Calls
  <2> HIDE DEF got, last
  <2>1. rpc' = [rpc EXCEPT !.phase = "done", !.got = got, !.tries = 0]
    BY <1>5 DEF Onward, got
  <2>a. rpc \in Backend /\ got \in Answers
    BY <1>1, <1>3 DEF RpcTyped, got
  <2>b. rpc' \in Backend
    <3>1. [rpc EXCEPT !.phase = "done", !.got = got, !.tries = 0] \in Backend
      BY <2>a, BackendKept, Zenon
    <3> QED
      BY <2>1, <3>1, Zenon
  <2>3. /\ rpc'.phase = "done" /\ rpc'.got = Counted(Calls) /\ rpc'.size = rpc.size
        /\ rpc'.chunk = rpc.chunk /\ rpc'.first = rpc.first /\ rpc'.next = rpc.next
        /\ rpc'.tries = 0
    BY <1>5, <2>a, <2>1 DEF Backend, got
  <2>2. RpcTyped'
    BY <1>1, <1>4, <2>b, <2>3, TransportFacts DEF RpcTyped
  <2> QED
    BY <1>1, <1>4, <2>2, <2>3 DEF RpcInv, InOrder, Tried, Reading
<1>6. CASE LastOf # Calls
  <2> HIDE DEF got
  <2>1. rpc' = [rpc EXCEPT !.phase = Shape(rpc.size), !.got = got, !.tries = 0,
                           !.first = last + 1, !.next = last + 1]
    BY <1>6 DEF Onward, got
  <2>2. last + 1 \in 1..Calls /\ last \in Nat /\ last + 1 \in Nat
    BY <1>1, <1>2, <1>6, TransportFacts DEF RpcTyped, Backend
  <2> HIDE DEF last
  <2>a. rpc \in Backend /\ got \in Answers /\ Shape(rpc.size) \in {"batch", "single"}
    BY <1>1, <1>3 DEF RpcTyped, got, Shape
  <2>3. rpc' \in Backend
    <3> DEFINE n == last + 1
               ph == Shape(rpc.size)
    <3>1. n \in Nat /\ ph \in {"batch", "single"}
      BY <2>a, <2>2
    <3>2. rpc' = [rpc EXCEPT !.phase = ph, !.got = got, !.tries = 0, !.first = n, !.next = n]
      BY <2>1
    <3> HIDE DEF n, ph
    <3>3. [rpc EXCEPT !.phase = ph, !.got = got, !.tries = 0, !.first = n, !.next = n] \in Backend
      BY <2>a, <3>1, BackendKept, Zenon
    <3> QED
      BY <3>2, <3>3, Zenon
  <2>5. /\ rpc'.phase = Shape(rpc.size) /\ rpc'.size = rpc.size /\ rpc'.got = got
        /\ rpc'.first = last + 1 /\ rpc'.next = last + 1 /\ rpc'.tries = 0
        /\ rpc'.chunk = rpc.chunk
    BY <2>a, <2>1 DEF Backend
  <2>4. RpcTyped'
    BY <1>1, <1>4, <2>2, <2>3, <2>5, TransportFacts DEF RpcTyped
  <2>6. rpc'.first \in Nat /\ rpc'.first <= Calls /\ rpc'.chunk \in Nat \ {0}
    BY <1>1, <2>2, <2>5, TransportFacts DEF RpcTyped
  <2>7. rpc'.first <= rpc'.next /\ rpc'.next <= LastOf'
    BY <2>5, <2>6, TransportFacts DEF LastOf
  <2>8. got = Counted(rpc'.first - 1) /\ got = Counted(rpc'.next - 1)
    <3>1. rpc'.first - 1 = last /\ rpc'.next - 1 = last
      BY <2>2, <2>5
    <3> QED
      BY <3>1 DEF got, last
  <2>9. InOrder'
    BY <2>a, <2>5, <2>7, <2>8 DEF InOrder, Shape
  <2>10. Tried'
    BY <2>a, <2>5 DEF Tried, Reading
  <2> QED
    BY <1>1, <1>4, <2>4, <2>5, <2>9, <2>10 DEF RpcInv
<1> QED
  BY <1>5, <1>6

(* An attempt that fails for now has asked one endpoint more.              *)
LEMMA AttemptInv ==
    ASSUME RpcInv, rpc.phase \in Reading,
           wire' = [wire EXCEPT !.asked = @ \cup {Endpoint(rpc.tries)}],
           rpc' = IF rpc.tries + 1 < Attempts THEN [rpc EXCEPT !.tries = @ + 1]
                  ELSE [rpc EXCEPT !.phase = "exhausted"]
    PROVE  RpcInv'
<1>0. RpcTyped /\ InOrder /\ Tried /\ wire.refusals <= (IF rpc.size = 1 THEN 1 ELSE 0)
  BY DEF RpcInv
<1>1. rpc \in Backend /\ rpc.tries \in Nat /\ rpc.tries < Attempts
  BY <1>0 DEF RpcTyped, Backend
<1>2. Endpoint(rpc.tries) \in 0..(Endpoints - 1)
  BY <1>1, EndpointRange
<1>3. wire' \in [asked : SUBSET (0..(Endpoints - 1)), refusals : Nat]
      /\ wire'.refusals = wire.refusals
      /\ wire'.asked = wire.asked \cup {Endpoint(rpc.tries)}
  BY <1>0, <1>2 DEF RpcTyped
<1>4. /\ rpc' \in Backend /\ rpc'.size = rpc.size /\ rpc'.chunk = rpc.chunk
      /\ rpc'.first = rpc.first /\ rpc'.next = rpc.next /\ rpc'.got = rpc.got
      /\ rpc'.tries < Attempts
      /\ IF rpc.tries + 1 < Attempts
         THEN rpc'.phase = rpc.phase /\ rpc'.tries = rpc.tries + 1
         ELSE rpc'.phase = "exhausted" /\ rpc.tries = Attempts - 1
  <2>1. CASE rpc.tries + 1 < Attempts
    BY <1>1, <2>1, TransportFacts DEF Backend
  <2>2. CASE ~(rpc.tries + 1 < Attempts)
    BY <1>1, <2>2, TransportFacts DEF Backend
  <2> QED
    BY <2>1, <2>2
<1>5. RpcTyped'
  BY <1>0, <1>3, <1>4 DEF RpcTyped
<1>6. InOrder'
  BY <1>0, <1>4 DEF InOrder, LastOf
<1>7. \A k \in 0..rpc.tries : Endpoint(k) \in wire'.asked
  BY <1>0, <1>1, <1>3 DEF Tried
<1>8. Tried'
  BY <1>1, <1>4, <1>7, TransportFacts DEF Tried, Endpoint, Reading
<1> QED
  BY <1>0, <1>3, <1>4, <1>5, <1>6, <1>8 DEF RpcInv

LEMMA RpcStep == RpcInv /\ [TransportNext]_rpcVars => RpcInv'
<1> SUFFICES ASSUME RpcInv, [TransportNext]_rpcVars PROVE RpcInv'
  OBVIOUS
<1>0. RpcTyped /\ InOrder /\ Tried /\ wire.refusals <= (IF rpc.size = 1 THEN 1 ELSE 0)
  BY DEF RpcInv
<1>a. LastOf \in rpc.first..Calls
  BY <1>0, TransportFacts DEF RpcTyped, Backend, LastOf
<1>1. CASE ReadGroup
  <2>1. rpc' = [rpc EXCEPT !.phase = Shape(rpc.size), !.groups = @ - 1, !.chunk = rpc.size,
                          !.first = 1, !.next = 1, !.tries = 0, !.got = <<>>]
        /\ rpc.groups > 0 /\ wire' = [wire EXCEPT !.asked = {}]
    BY <1>1 DEF ReadGroup
  <2> DEFINE nothing == <<>>
  <2>d. nothing \in Answers /\ nothing = Counted(0)
    BY CountedOn DEF Answers
  <2>e. rpc \in Backend /\ rpc.size \in Nat \ {0} /\ rpc.groups - 1 \in Nat
    BY <1>0, <2>1, TransportFacts DEF RpcTyped, Backend
  <2>a. rpc \in Backend /\ Shape(rpc.size) \in {"batch", "single"} /\ nothing \in Answers
        /\ rpc.size \in Nat \ {0} /\ rpc.groups - 1 \in Nat /\ nothing = Counted(0)
    BY <2>d, <2>e DEF Shape
  <2> HIDE DEF nothing
  <2>b. rpc' = [rpc EXCEPT !.phase = Shape(rpc.size), !.groups = @ - 1, !.chunk = rpc.size,
                          !.first = 1, !.next = 1, !.tries = 0, !.got = nothing]
    BY <2>1 DEF nothing
  <2>c. rpc' \in Backend
    BY <2>a, <2>b DEF Backend
  <2>3. /\ rpc'.phase = Shape(rpc.size) /\ rpc'.size = rpc.size /\ rpc'.got = Counted(0)
        /\ rpc'.first = 1 /\ rpc'.next = 1 /\ rpc'.tries = 0 /\ rpc'.chunk = rpc.size
    BY <2>a, <2>b DEF Backend
  <2>2. RpcTyped'
    BY <1>0, <2>1, <2>c, <2>3, TransportFacts DEF RpcTyped
  <2>4. LastOf' >= 1 /\ LastOf' \in Nat
    BY <2>a, <2>3, TransportFacts DEF LastOf
  <2>5. InOrder'
    BY <2>a, <2>3, <2>4 DEF InOrder, Shape
  <2>6. Tried'
    BY <2>a, <2>3 DEF Tried
  <2> QED
    BY <1>0, <2>1, <2>2, <2>3, <2>5, <2>6 DEF RpcInv, RpcTyped
<1>2. CASE Transient
  BY <1>2, AttemptInv DEF Transient, Reading
<1>3. CASE Fatal
  BY <1>0, <1>3 DEF Fatal, RpcInv, RpcTyped, Backend, InOrder, Tried, Reading
<1>4. CASE BatchAnswered
  <2>1. rpc.phase = "batch" /\ wire' = [wire EXCEPT !.asked = {}]
    BY <1>4 DEF BatchAnswered
  <2> DEFINE n == LastOf - rpc.first + 1
  <2>2. PICK order \in Orders(n) :
           rpc' = Onward(rpc.got \o Aligned(
               [k \in 1..Len(order) |-> [id |-> order[k], value |-> rpc.first + order[k] - 1]]))
    BY <1>4 DEF BatchAnswered
  <2>3. n \in Nat /\ rpc.first \in Nat \ {0} /\ LastOf \in Nat /\ rpc.first - 1 \in Nat
        /\ n = LastOf - (rpc.first - 1)
    BY <1>0, <1>a DEF RpcTyped, Backend
  <2> HIDE DEF n
  <2>4. rpc' = Onward(rpc.got \o [k \in 1..n |-> rpc.first + k - 1])
    BY <2>2, <2>3, AlignedCounts
  <2>5. [k \in 1..n |-> rpc.first + k - 1] = [k \in 1..n |-> (rpc.first - 1) + k]
    BY <2>3
  <2>6. rpc.got = Counted(rpc.first - 1) /\ rpc.first - 1 <= LastOf
    BY <1>0, <1>a, <2>1, <2>3 DEF InOrder
  <2>7. rpc.got \o [k \in 1..n |-> (rpc.first - 1) + k] = Counted(LastOf)
    <3> DEFINE before == rpc.first - 1
               last == LastOf
    <3>1. before \in Nat /\ last \in Nat /\ before <= last /\ n = last - before
          /\ rpc.got = Counted(before)
      BY <2>3, <2>6
    <3> HIDE DEF before, last
    <3>2. rpc.got \o [k \in 1..n |-> before + k] = Counted(last)
      BY <3>1, CountedOn
    <3> QED
      BY <3>2 DEF before, last
  <2> QED
    BY <2>1, <2>4, <2>5, <2>7, OnwardInv
<1>5. CASE BatchRefused
  <2>1. rpc.phase = "batch" /\ wire' = [asked |-> {}, refusals |-> wire.refusals + 1]
        /\ rpc' = [rpc EXCEPT !.size = 1, !.phase = "single", !.tries = 0, !.next = rpc.first]
    BY <1>5 DEF BatchRefused
  <2>a. rpc \in Backend
    BY <1>0 DEF RpcTyped
  <2>2. /\ rpc' \in Backend /\ rpc'.phase = "single" /\ rpc'.size = 1 /\ rpc'.tries = 0
        /\ rpc'.next = rpc.first /\ rpc'.first = rpc.first /\ rpc'.chunk = rpc.chunk
        /\ rpc'.got = rpc.got
    BY <2>a, <2>1 DEF Backend
  <2>b. RpcTyped'
    BY <1>0, <2>1, <2>2, TransportFacts DEF RpcTyped
  <2>3. LastOf' = LastOf
    BY <2>2 DEF LastOf
  <2>4. InOrder'
    BY <1>0, <1>a, <2>1, <2>2, <2>3 DEF InOrder, RpcTyped, Backend
  <2>5. Tried'
    BY <2>2 DEF Tried
  <2> QED
    BY <1>0, <2>1, <2>2, <2>b, <2>4, <2>5 DEF RpcInv, InOrder, RpcTyped
<1>6. CASE SingleAnswered
  <2> DEFINE got == Append(rpc.got, rpc.next)
  <2>1. rpc.phase = "single" /\ wire' = [wire EXCEPT !.asked = {}]
        /\ rpc' = IF rpc.next = LastOf THEN Onward(got)
                  ELSE [rpc EXCEPT !.got = got, !.next = @ + 1, !.tries = 0]
    BY <1>6 DEF SingleAnswered
  <2>2. rpc.next \in rpc.first..LastOf /\ rpc.next \in Nat \ {0} /\ rpc.next - 1 \in Nat
    BY <1>0, <2>1 DEF InOrder, RpcTyped, Backend
  <2>3. got = Counted(rpc.next) /\ got \in Answers
    <3>1. got = Append(Counted(rpc.next - 1), (rpc.next - 1) + 1)
      BY <1>0, <2>1, <2>2 DEF InOrder
    <3>2. got = Counted((rpc.next - 1) + 1)
      BY <2>2, <3>1, CountedOn
    <3>3. (rpc.next - 1) + 1 = rpc.next
      BY <2>2
    <3>4. Counted(rpc.next) \in Answers
      BY <2>2, CountedOn DEF Answers
    <3> QED
      BY <3>2, <3>3, <3>4
  <2> HIDE DEF got
  <2>4. CASE rpc.next = LastOf
    BY <2>1, <2>3, <2>4, OnwardInv
  <2>5. CASE rpc.next # LastOf
    <3>1. rpc' = [rpc EXCEPT !.got = got, !.next = @ + 1, !.tries = 0]
      BY <2>1, <2>5
    <3>2. rpc.next + 1 \in 1..Calls /\ rpc.next + 1 \in rpc.first..LastOf
      BY <1>0, <1>a, <2>2, <2>5, TransportFacts DEF RpcTyped, Backend
    <3>a. rpc \in Backend
      BY <1>0 DEF RpcTyped
    <3>c. rpc' \in Backend
      <4> DEFINE n == rpc.next + 1
      <4>1. n \in Nat
        BY <2>2
      <4>2. rpc' = [rpc EXCEPT !.got = got, !.next = n, !.tries = 0]
        BY <3>1
      <4> HIDE DEF n
      <4> QED
        BY <2>3, <3>a, <4>1, <4>2, BackendKept
    <3>d. /\ rpc'.phase = "single" /\ rpc'.size = rpc.size
          /\ rpc'.tries = 0 /\ rpc'.next = rpc.next + 1 /\ rpc'.first = rpc.first
          /\ rpc'.chunk = rpc.chunk /\ rpc'.got = got
      BY <2>1, <3>1, <3>a DEF Backend
    <3>3. /\ rpc' \in Backend /\ rpc'.phase = "single" /\ rpc'.size = rpc.size
          /\ rpc'.tries = 0 /\ rpc'.next = rpc.next + 1 /\ rpc'.first = rpc.first
          /\ rpc'.chunk = rpc.chunk /\ rpc'.got = got
      BY <3>c, <3>d
    <3>b. RpcTyped'
      BY <1>0, <2>1, <3>2, <3>3, TransportFacts DEF RpcTyped
    <3>4. LastOf' = LastOf
      BY <3>3 DEF LastOf
    <3>5. InOrder'
      <4>1. rpc'.next - 1 = rpc.next
        BY <2>2, <3>3
      <4> QED
        BY <2>2, <2>3, <3>2, <3>3, <3>4, <4>1 DEF InOrder
    <3>6. Tried'
      BY <3>3 DEF Tried
    <3> QED
      BY <1>0, <2>1, <3>3, <3>b, <3>5, <3>6 DEF RpcInv, RpcTyped
  <2> QED
    BY <2>4, <2>5
<1>7. CASE AskSafe
  <2> DEFINE nothing == <<>>
  <2>1. /\ rpc' = [rpc EXCEPT !.phase = "safe", !.groups = @ - 1, !.tries = 0, !.got = nothing]
        /\ rpc.groups > 0 /\ wire' = [wire EXCEPT !.asked = {}] /\ nothing \in Answers
    BY <1>7 DEF AskSafe, Answers
  <2> HIDE DEF nothing
  <2>2. rpc \in Backend /\ rpc.groups - 1 \in Nat
    BY <1>0, <2>1 DEF RpcTyped, Backend
  <2>3. /\ rpc' \in Backend /\ rpc'.phase = "safe" /\ rpc'.size = rpc.size
        /\ rpc'.chunk = rpc.chunk /\ rpc'.first = rpc.first /\ rpc'.next = rpc.next
        /\ rpc'.tries = 0
    BY <2>1, <2>2 DEF Backend
  <2>4. RpcTyped'
    BY <1>0, <2>1, <2>3, TransportFacts DEF RpcTyped
  <2>5. InOrder' /\ Tried'
    BY <2>3 DEF InOrder, Tried
  <2> QED
    BY <1>0, <2>1, <2>3, <2>4, <2>5 DEF RpcInv, RpcTyped
<1>8. CASE SafeTransient
  <2>1. CASE rpc' = [rpc EXCEPT !.phase = "failed"] /\ UNCHANGED wire
    BY <1>0, <2>1 DEF RpcInv, RpcTyped, Backend, InOrder, Tried, Reading
  <2> QED
    BY <1>8, <2>1, AttemptInv DEF SafeTransient, Reading
<1>9. CASE SafeAnswered
  BY <1>0, <1>9 DEF SafeAnswered, RpcInv, RpcTyped, Backend, InOrder, Tried, Reading
<1>10. CASE UNCHANGED rpcVars
  BY <1>0, <1>10 DEF rpcVars, RpcInv, RpcTyped, InOrder, Tried, LastOf
<1> QED
  BY <1>1, <1>2, <1>3, <1>4, <1>5, <1>6, <1>7, <1>8, <1>9, <1>10 DEF TransportNext

(* The transport keeps its types, for any bounds.                          *)
THEOREM TransportTyped == TransportSpec => []TransportTypeOK
<1>1. RpcInv => TransportTypeOK
  <2> SUFFICES ASSUME RpcInv PROVE TransportTypeOK
    OBVIOUS
  <2>1. rpc.phase \in Reading \cup {"idle", "done", "failed", "exhausted"}
    BY DEF RpcInv, RpcTyped, Backend, Reading
  <2>2. rpc.first \in Nat /\ rpc.next \in Nat /\ rpc.tries \in Nat
    BY DEF RpcInv, RpcTyped, Backend
  <2> QED
    BY <2>1, <2>2, TransportFacts DEF RpcInv, RpcTyped, TransportTypeOK
<1> QED
  BY <1>1, RpcInitInv, RpcStep, PTL DEF TransportSpec

(* Every group that is read is aligned with its calls, for any number of   *)
(* calls and any bounds: for permutations of any size.                     *)
THEOREM GroupsAlign == TransportSpec => []GroupAligned
<1>1. RpcInv => GroupAligned
  <2> SUFFICES ASSUME RpcInv PROVE GroupAligned
    OBVIOUS
  <2>1. ASSUME rpc.phase = "exhausted" PROVE wire.asked = 0..(Endpoints - 1)
    <3>1. \A k \in 0..(Endpoints - 1) : k \in 0..(Attempts - 1) /\ Endpoint(k) = k
      BY TransportFacts, EndpointRange
    <3>2. \A k \in 0..(Endpoints - 1) : k \in wire.asked
      BY <2>1, <3>1 DEF RpcInv, Tried
    <3> QED
      BY <3>2 DEF RpcInv, RpcTyped
  <2>2. wire.refusals <= 1
    BY DEF RpcInv, RpcTyped
  <2> QED
    BY <2>1, <2>2 DEF RpcInv, InOrder, GroupAligned, Counted
<1> QED
  BY <1>1, RpcInitInv, RpcStep, PTL DEF TransportSpec

-----------------------------------------------------------------------------
(* The swap command.                                                       *)

(* Where a run of "execute" is from its gates on.                          *)
Executing == {"relayer", "approve", "await approval", "renonce", "swap", "await swap"}

RunRecord ==
    [command : {"none", "quote", "dry-run", "execute", "unconfirmed"},
     at : Executing \cup {"new", "preflight", "report", "ended"},
     amount : Nat, least : Int, allowance : Nat, nonce : Nat, relayer : Int,
     expired : BOOLEAN, rows : SUBSET {"approval", "swap"},
     outcome : {"none", "reported", "refused", "failed", "reverted", "done"}]

LedgerRecord ==
    [safe : Nat, relayer : Nat, allowance : Nat, usdc : Nat, price : Nat,
     mined : SUBSET [run : Run, role : {"approval", "swap"}, executed : BOOLEAN,
                     paid : Nat, got : Nat],
     others : Nat]

Delivered == [run : Run, role : {"approval", "swap"}, nonce : Nat, relayer : Int]

(* Only a confirmed execution gets to the deliveries, and what is sent of  *)
(* it tells how far it has come.                                           *)
Progress(r, run) ==
    /\ run.at = "preflight" => run.command \in {"dry-run", "execute"}
    /\ run.at \in Executing => run.command = "execute"
    /\ Sent(r, "approval") # {} =>
           /\ run.command = "execute"
           /\ run.at \in {"await approval", "renonce", "swap", "await swap", "ended"}
           /\ run.allowance < run.amount
    /\ run.at = "approve" => run.allowance < run.amount
    /\ Sent(r, "swap") # {} => run.command = "execute" /\ run.at \in {"await swap", "ended"}

(* Past the approval stage the allowance was enough or was made enough.    *)
Approved(r, run) ==
    (run.at \in {"renonce", "swap", "await swap"} \/ Sent(r, "swap") # {})
    /\ run.allowance < run.amount => \E d \in Own(r, "approval") : d.executed

(* What an end without a swap leaves of the run on the chain.              *)
Settled(r, said) ==
    /\ said = "reverted" => \A d \in Sent(r, "swap") : d \in ledger.mined /\ ~d.executed
    /\ said = "refused" =>
           /\ Sent(r, "swap") = {}
           /\ \A d \in Sent(r, "approval") : d \in ledger.mined /\ d.executed

(* What has been said of a run that has ended.                             *)
Told(r, run) ==
    /\ run.outcome = "done" =>
           \E d \in Own(r, "swap") : d.executed /\ d.paid = run.amount /\ d.got >= run.least
    /\ Settled(r, run.outcome)

RunInv(r, run) == /\ run.amount <= MaxSwap /\ (run.at = "ended" <=> run.outcome # "none")
                  /\ Progress(r, run) /\ Approved(r, run) /\ Told(r, run)

(* A run sends each of its two transactions once at most, and a swap that  *)
(* executed is that of its run.                                            *)
Alike(d, e) == d.run = e.run /\ d.role = e.role
SentOnce == /\ \A d, e \in mempool : Alike(d, e) => d = e
            /\ \A d, e \in ledger.mined : Alike(d, e) => d = e
            /\ \A d \in mempool, e \in ledger.mined : ~Alike(d, e)
AsAsked ==
    \A d \in ledger.mined : d.role = "swap" /\ d.executed =>
        d.paid = swapRun[d.run].amount /\ d.got >= swapRun[d.run].least

SwapTyped ==
    /\ swapRun \in [Run -> RunRecord]
    /\ ledger \in LedgerRecord
    /\ ledger.usdc <= Purse /\ ledger.allowance <= StandingCap
    /\ mempool \subseteq Delivered

SwapInv == /\ SwapTyped /\ SentOnce /\ AsAsked
           /\ \A r \in Run : RunInv(r, swapRun[r])

LEMMA SwapFacts ==
    /\ MaxSwap \in Nat /\ StandingCap \in Nat /\ Purse \in Nat /\ Slip \in Nat
    /\ 0 < MaxSwap /\ MaxSwap <= StandingCap
    /\ Amounts \subseteq Int /\ Prices \subseteq Nat
BY PolicyAssumption

LEMMA SwapInitInv == SwapInit => SwapInv
<1> SUFFICES ASSUME SwapInit PROVE SwapInv
  OBVIOUS
<1>1. Absent \in RunRecord
  BY DEF Absent, RunRecord
<1>2. PICK x \in Prices : \A y \in Prices : y <= x
  BY PolicyAssumption
<1>3. ledger.price \in Nat
  BY <1>2, SwapFacts DEF SwapInit
<1>4. SwapTyped
  BY <1>1, <1>3, SwapFacts DEF SwapInit, SwapTyped, LedgerRecord
<1>5. mempool = {} /\ ledger.mined = {}
  BY DEF SwapInit
<1>6. \A r \in Run : Sent(r, "swap") = {} /\ Sent(r, "approval") = {}
  BY <1>5 DEF Sent
<1>7. ASSUME NEW r \in Run PROVE RunInv(r, swapRun[r])
  <2>1. swapRun[r] = Absent
    BY DEF SwapInit
  <2>2. /\ Absent.at = "new" /\ Absent.outcome = "none" /\ Absent.amount = 0
        /\ Absent.allowance = 0
    BY DEF Absent
  <2> QED
    BY <1>6, <2>1, <2>2, SwapFacts DEF RunInv, Progress, Approved, Told, Settled, Executing
<1> QED
  BY <1>4, <1>5, <1>7 DEF SwapInv, SentOnce, AsAsked

(* A step that only turns run r to new, keeping what a swap of it was for. *)
LEMMA SetInv ==
    ASSUME SwapInv, NEW r \in Run, NEW new \in RunRecord, Set(r, new), RunInv(r, new),
           \/ Sent(r, "swap") = {}
           \/ new.amount = swapRun[r].amount /\ new.least = swapRun[r].least
    PROVE  SwapInv'
<1>1. /\ swapRun' \in [Run -> RunRecord] /\ swapRun'[r] = new
      /\ \A q \in Run \ {r} : swapRun'[q] = swapRun[q]
      /\ ledger' = ledger /\ mempool' = mempool
  BY DEF SwapInv, SwapTyped, Set
<1>2. SwapTyped' /\ SentOnce'
  BY <1>1 DEF SwapInv, SwapTyped, SentOnce
<1>3. AsAsked'
  <2> SUFFICES ASSUME NEW d \in ledger.mined, d.role = "swap", d.executed
               PROVE  d.paid = swapRun'[d.run].amount /\ d.got >= swapRun'[d.run].least
    BY <1>1 DEF AsAsked
  <2>1. d.run \in Run
    BY DEF SwapInv, SwapTyped, LedgerRecord
  <2>2. d.run = r => d \in Sent(r, "swap")
    BY DEF Sent
  <2> QED
    BY <1>1, <2>1, <2>2 DEF SwapInv, AsAsked
<1>4. \A q \in Run : RunInv(q, swapRun'[q])
  BY <1>1 DEF SwapInv
<1>5. ASSUME NEW q \in Run PROVE RunInv(q, swapRun[q])'
  <2>1. RunInv(q, swapRun'[q])
    BY <1>4
  <2>2. /\ Sent(q, "swap")' = Sent(q, "swap") /\ Sent(q, "approval")' = Sent(q, "approval")
        /\ Own(q, "swap")' = Own(q, "swap") /\ Own(q, "approval")' = Own(q, "approval")
    BY <1>1 DEF Sent, Own
  <2>3. Progress(q, swapRun[q])'
    BY <2>1, <2>2 DEF RunInv, Progress
  <2>4. Approved(q, swapRun[q])'
    BY <2>1, <2>2 DEF RunInv, Approved
  <2>5. Told(q, swapRun[q])'
    BY <1>1, <2>1, <2>2 DEF RunInv, Told, Settled
  <2> QED
    BY <2>1, <2>3, <2>4, <2>5 DEF RunInv
<1> QED
  BY <1>2, <1>3, <1>5 DEF SwapInv

(* Where run r stands is known, and with it what it may have sent.         *)
LEMMA RunFacts ==
    ASSUME SwapInv, NEW r \in Run
    PROVE  swapRun[r] \in RunRecord /\ RunInv(r, swapRun[r])
BY DEF SwapInv, SwapTyped

(* An end that tells of nothing but itself.                                *)
LEMMA EndInv ==
    ASSUME SwapInv, NEW r \in Run, NEW result \in {"reported", "refused", "failed", "reverted", "done"},
           End(r, result), swapRun[r].at # "ended",
           result = "done" => \E d \in Own(r, "swap") : d.executed,
           Settled(r, result)
    PROVE  SwapInv'
<1> DEFINE new == [swapRun[r] EXCEPT !.at = "ended", !.outcome = result]
<1>0. swapRun[r] \in RunRecord /\ RunInv(r, swapRun[r])
  BY RunFacts
<1>1. /\ new \in RunRecord /\ new.at = "ended" /\ new.outcome = result
      /\ new.amount = swapRun[r].amount /\ new.least = swapRun[r].least
      /\ new.allowance = swapRun[r].allowance /\ new.command = swapRun[r].command
  BY <1>0 DEF RunRecord
<1>2. Set(r, new)
  BY DEF End
<1> HIDE DEF new
<1>3. Told(r, new)
  <2>1. \A d \in Own(r, "swap") : d.executed =>
            d.paid = swapRun[r].amount /\ d.got >= swapRun[r].least
    BY DEF SwapInv, AsAsked, Own
  <2> QED
    BY <1>1, <2>1 DEF Told, Settled
<1>4. RunInv(r, new)
  BY <1>0, <1>1, <1>3 DEF RunInv, Progress, Approved, Executing
<1> QED
  BY <1>1, <1>2, <1>4, SetInv

(* A step of the chain that leaves every run as it was, and what it told.  *)
LEMMA ChainInv ==
    ASSUME SwapInv, SwapTyped', SentOnce', AsAsked', swapRun' = swapRun,
           \A r \in Run : /\ Sent(r, "swap")' = {} \/ Sent(r, "swap") # {}
                          /\ Sent(r, "approval")' = {} \/ Sent(r, "approval") # {}
                          /\ \A d \in Own(r, "swap") \cup Own(r, "approval") : d \in ledger'.mined
                          /\ Settled(r, swapRun[r].outcome)'
    PROVE  SwapInv'
<1> SUFFICES ASSUME NEW r \in Run PROVE RunInv(r, swapRun[r])'
  BY DEF SwapInv
<1>1. RunInv(r, swapRun[r])
  BY DEF SwapInv
<1>2. Own(r, "swap") \subseteq Own(r, "swap")' /\ Own(r, "approval") \subseteq Own(r, "approval")'
  BY DEF Own
<1>3. Progress(r, swapRun[r])'
  BY <1>1 DEF RunInv, Progress
<1>4. Approved(r, swapRun[r])'
  BY <1>1, <1>2 DEF RunInv, Approved
<1>5. Told(r, swapRun[r])'
  BY <1>1, <1>2 DEF RunInv, Told, Settled
<1> QED
  BY <1>1, <1>3, <1>4, <1>5 DEF RunInv

(* A transaction handed to a node, acknowledged or not, or lost on the way.*)
LEMMA BroadcastInv ==
    ASSUME SwapInv, NEW r \in Run, NEW role \in {"approval", "swap"}, NEW waiting,
           role = "approval" => swapRun[r].at = "approve" /\ waiting = "await approval",
           role = "swap" => swapRun[r].at = "swap" /\ waiting = "await swap",
           Broadcast(r, role, waiting)
    PROVE  SwapInv'
<1> DEFINE d == SignedFor(r, role)
           sent == [swapRun[r] EXCEPT !.at = waiting, !.rows = @ \cup {role}]
           lost == [swapRun[r] EXCEPT !.at = "ended", !.outcome = "failed"]
<1>0. swapRun[r] \in RunRecord /\ RunInv(r, swapRun[r])
  BY RunFacts
<1>1. d \in Delivered /\ d.run = r /\ d.role = role
  BY <1>0 DEF SignedFor, Delivered, RunRecord
<1>2. Sent(r, role) = {} /\ (role = "approval" => Sent(r, "swap") = {})
  BY <1>0 DEF RunInv, Progress, Executing
<1>3. /\ ledger' = ledger /\ mempool' \in {mempool, mempool \cup {d}}
      /\ swapRun' \in {[swapRun EXCEPT ![r] = sent], [swapRun EXCEPT ![r] = lost]}
  BY <1>0 DEF Broadcast, SwapInv, SwapTyped, RunRecord
<1>4. /\ sent \in RunRecord /\ sent.at = waiting /\ sent.outcome = "none"
      /\ sent.amount = swapRun[r].amount /\ sent.least = swapRun[r].least
      /\ sent.allowance = swapRun[r].allowance /\ sent.command = "execute"
  BY <1>0 DEF RunRecord, Executing, RunInv, Progress
<1>5. /\ lost \in RunRecord /\ lost.at = "ended" /\ lost.outcome = "failed"
      /\ lost.amount = swapRun[r].amount /\ lost.least = swapRun[r].least
      /\ lost.allowance = swapRun[r].allowance /\ lost.command = "execute"
  BY <1>0 DEF RunRecord, Executing, RunInv, Progress
<1> HIDE DEF d, sent, lost
<1>6. PICK new \in {sent, lost} : swapRun' = [swapRun EXCEPT ![r] = new]
  BY <1>3
<1>7. /\ new \in RunRecord /\ new.amount = swapRun[r].amount /\ new.least = swapRun[r].least
      /\ new.allowance = swapRun[r].allowance /\ new.command = "execute"
      /\ new.at \in {waiting, "ended"} /\ new.outcome \in {"none", "failed"}
      /\ (new.at = "ended" <=> new.outcome # "none")
  BY <1>4, <1>5, <1>6
<1>8. /\ swapRun' \in [Run -> RunRecord] /\ swapRun'[r] = new
      /\ \A q \in Run \ {r} : swapRun'[q] = swapRun[q]
  BY <1>6, <1>7 DEF SwapInv, SwapTyped
<1>9. SwapTyped'
  BY <1>1, <1>3, <1>8 DEF SwapInv, SwapTyped
<1>10. SentOnce'
  <2>1. \A e \in mempool \cup ledger.mined : ~Alike(e, d) /\ ~Alike(d, e)
    BY <1>1, <1>2 DEF Sent, Alike
  <2> QED
    BY <1>3, <2>1 DEF SwapInv, SentOnce
<1>11. AsAsked'
  <2>1. \A q \in Run : /\ swapRun'[q].amount = swapRun[q].amount
                       /\ swapRun'[q].least = swapRun[q].least
    BY <1>7, <1>8
  <2>2. \A e \in ledger.mined : e.run \in Run
    BY DEF SwapInv, SwapTyped, LedgerRecord
  <2> QED
    BY <1>3, <2>1, <2>2 DEF SwapInv, AsAsked
<1>12. ASSUME NEW q \in Run \ {r} PROVE RunInv(q, swapRun[q])'
  <2>1. Sent(q, "swap")' = Sent(q, "swap") /\ Sent(q, "approval")' = Sent(q, "approval")
    BY <1>1, <1>3 DEF Sent
  <2>2. RunInv(q, swapRun[q]) /\ swapRun'[q] = swapRun[q]
    BY <1>8 DEF SwapInv
  <2> QED
    BY <1>3, <2>1, <2>2 DEF RunInv, Progress, Approved, Told, Settled, Own
<1>13. RunInv(r, swapRun[r])'
  <2>1. role = "approval" => Sent(r, "swap")' = {}
    BY <1>1, <1>2, <1>3 DEF Sent
  <2>2. Approved(r, new)'
    BY <1>0, <1>3, <1>7, <2>1 DEF RunInv, Approved, Own
  <2>a. role = "swap" => Sent(r, "approval")' = Sent(r, "approval")
    BY <1>1, <1>3 DEF Sent
  <2>b. /\ role = "approval" => swapRun[r].allowance < swapRun[r].amount
        /\ Sent(r, "approval") # {} => swapRun[r].allowance < swapRun[r].amount
    BY <1>0 DEF RunInv, Progress
  <2>3. Progress(r, new)'
    BY <1>7, <2>1, <2>a, <2>b DEF Progress, Executing
  <2>4. Told(r, new)'
    BY <1>7 DEF Told, Settled
  <2> QED
    BY <1>0, <1>7, <1>8, <2>2, <2>3, <2>4 DEF RunInv
<1> QED
  BY <1>9, <1>10, <1>11, <1>12, <1>13 DEF SwapInv

LEMMA MineInv ==
    ASSUME SwapInv, NEW d \in mempool, MineSwap(d)
    PROVE  SwapInv'
<1> DEFINE done == Executes(d)
           paid == IF done /\ d.role = "swap" THEN swapRun[d.run].amount ELSE 0
           new == [run |-> d.run, role |-> d.role, executed |-> done,
                   paid |-> paid, got |-> paid * ledger.price]
           run == swapRun[d.run]
<1>0. d \in Delivered /\ d.run \in Run /\ run \in RunRecord /\ ledger \in LedgerRecord
      /\ d.relayer \in Int
  BY DEF SwapInv, SwapTyped, Delivered
<1>1. /\ ledger' = [ledger EXCEPT
               !.relayer = @ + 1, !.safe = IF done THEN @ + 1 ELSE @,
               !.usdc = @ - paid,
               !.allowance = IF done /\ d.role = "approval" THEN StandingCap ELSE @ - paid,
               !.mined = @ \cup {new}]
      /\ mempool' = {e \in mempool : e.relayer > d.relayer}
      /\ swapRun' = swapRun
  BY DEF MineSwap
<1>2. done => \/ d.role = "approval"
              \/ /\ d.role = "swap" /\ ledger.allowance >= run.amount
                 /\ ledger.usdc >= run.amount /\ run.amount * ledger.price >= run.least
  BY <1>0 DEF Executes, Delivered
<1>a. paid \in Nat /\ ledger.usdc >= paid /\ ledger.allowance >= paid
  BY <1>0, <1>2 DEF RunRecord, LedgerRecord
<1>b. ledger.price \in Nat /\ paid * ledger.price \in Nat /\ done \in BOOLEAN
  BY <1>0, <1>a DEF LedgerRecord, Executes
<1>c. new \in [run : Run, role : {"approval", "swap"}, executed : BOOLEAN, paid : Nat, got : Nat]
  BY <1>0, <1>a, <1>b DEF Delivered
<1>d. new.run = d.run /\ new.role = d.role /\ new.executed = done
      /\ (done /\ d.role = "swap" => new.paid = run.amount /\ new.got >= run.least)
  BY <1>2, <1>b
<1> HIDE DEF done, new
<1>3. /\ ledger'.mined = ledger.mined \cup {new} /\ ledger'.usdc = ledger.usdc - paid
      /\ ledger'.allowance \in {StandingCap, ledger.allowance - paid}
  BY <1>0, <1>1 DEF LedgerRecord
<1>4. ledger' \in LedgerRecord
  <2>1. ledger.relayer + 1 \in Nat /\ ledger.safe + 1 \in Nat /\ ledger.usdc - paid \in Nat
        /\ ledger.allowance - paid \in Nat /\ StandingCap \in Nat
    BY <1>0, <1>a, SwapFacts DEF LedgerRecord
  <2>2. ledger.mined \cup {new} \in SUBSET [run : Run, role : {"approval", "swap"},
                                            executed : BOOLEAN, paid : Nat, got : Nat]
    BY <1>0, <1>c DEF LedgerRecord
  <2> DEFINE usdc == ledger.usdc - paid
             allowance == IF done /\ d.role = "approval" THEN StandingCap ELSE ledger.allowance - paid
             safe == IF done THEN ledger.safe + 1 ELSE ledger.safe
             relayer == ledger.relayer + 1
             mined == ledger.mined \cup {new}
  <2>3. usdc \in Nat /\ allowance \in Nat /\ safe \in Nat /\ relayer \in Nat
    BY <1>0, <2>1 DEF LedgerRecord
  <2>4. ledger' = [ledger EXCEPT !.relayer = relayer, !.safe = safe, !.usdc = usdc,
                                 !.allowance = allowance, !.mined = mined]
    BY <1>1
  <2> HIDE DEF usdc, allowance, safe, relayer, mined
  <2>5. mined \in SUBSET [run : Run, role : {"approval", "swap"},
                          executed : BOOLEAN, paid : Nat, got : Nat]
    BY <2>2 DEF mined
  <2> QED
    BY <1>0, <2>3, <2>4, <2>5 DEF LedgerRecord
<1>5. SwapTyped'
  <2>1. ledger.usdc \in Nat /\ ledger.allowance \in Nat /\ ledger.usdc <= Purse
        /\ ledger.allowance <= StandingCap /\ Purse \in Nat /\ StandingCap \in Nat
    BY <1>0, SwapFacts DEF SwapInv, SwapTyped, LedgerRecord
  <2>2. ledger'.usdc <= Purse /\ ledger'.allowance <= StandingCap
    BY <1>3, <1>a, <2>1
  <2>3. mempool' \subseteq Delivered /\ swapRun' \in [Run -> RunRecord]
    BY <1>1 DEF SwapInv, SwapTyped
  <2> QED
    BY <1>4, <2>2, <2>3 DEF SwapTyped
<1>6. mempool' \subseteq mempool \ {d}
  BY <1>0, <1>1
<1>7. SentOnce'
  <2>1. \A e \in ledger.mined : ~Alike(e, new) /\ ~Alike(new, e)
    BY <1>d DEF SwapInv, SentOnce, Alike
  <2>2. \A e \in mempool' : ~Alike(e, new)
    BY <1>6, <1>d DEF SwapInv, SentOnce, Alike
  <2> QED
    BY <1>3, <1>6, <2>1, <2>2 DEF SwapInv, SentOnce
<1>8. AsAsked'
  BY <1>1, <1>3, <1>d DEF SwapInv, AsAsked
<1>9. ASSUME NEW r \in Run
      PROVE  /\ Sent(r, "swap")' = {} \/ Sent(r, "swap") # {}
             /\ Sent(r, "approval")' = {} \/ Sent(r, "approval") # {}
             /\ \A e \in Own(r, "swap") \cup Own(r, "approval") : e \in ledger'.mined
             /\ Settled(r, swapRun[r].outcome)'
  <2>1. \A role \in {"swap", "approval"} :
            \A e \in Sent(r, role)' : e \in Sent(r, role) \/ (e = new /\ d \in Sent(r, role))
    BY <1>3, <1>6, <1>d DEF Sent
  <2>2. \A e \in Own(r, "swap") \cup Own(r, "approval") : e \in ledger'.mined
    BY <1>3 DEF Own
  <2>3. d \notin ledger.mined
    BY DEF SwapInv, SentOnce, Alike
  <2>4. Settled(r, swapRun[r].outcome)
    BY DEF SwapInv, RunInv, Told, Settled
  <2>5. ASSUME swapRun[r].outcome = "reverted", NEW e \in Sent(r, "swap")'
        PROVE  e \in ledger'.mined /\ ~e.executed
    BY <1>3, <2>1, <2>3, <2>4, <2>5 DEF Settled
  <2>6. ASSUME swapRun[r].outcome = "refused"
        PROVE  /\ Sent(r, "swap")' = {}
               /\ \A e \in Sent(r, "approval")' : e \in ledger'.mined /\ e.executed
    BY <1>3, <2>1, <2>3, <2>4, <2>6 DEF Settled
  <2>7. Settled(r, swapRun[r].outcome)'
    BY <1>1, <2>5, <2>6 DEF Settled
  <2> QED
    BY <2>1, <2>2, <2>7
<1> QED
  BY <1>1, <1>5, <1>7, <1>8, <1>9, ChainInv

LEMMA SwapStep == SwapInv /\ [SwapNext]_swapVars => SwapInv'
<1> SUFFICES ASSUME SwapInv, [SwapNext]_swapVars PROVE SwapInv'
  OBVIOUS
<1>a. \A r \in Run : swapRun[r] \in RunRecord /\ RunInv(r, swapRun[r])
  BY RunFacts
<1>b. ledger \in LedgerRecord
  BY DEF SwapInv, SwapTyped
(* Before the deliveries nothing is sent.                                  *)
<1>c. ASSUME NEW r \in Run, swapRun[r].at \in {"new", "preflight", "relayer", "report", "approve"}
      PROVE  Sent(r, "swap") = {} /\ Sent(r, "approval") = {}
  BY <1>a, <1>c DEF RunInv, Progress
<1>d. ASSUME NEW r \in Run, swapRun[r].at \notin {"await swap", "ended"} PROVE Sent(r, "swap") = {}
  BY <1>a, <1>d DEF RunInv, Progress
<1>1. ASSUME NEW r \in Run, Quote(r) PROVE SwapInv'
  <2> DEFINE refused(command) ==
                [swapRun[r] EXCEPT !.command = command, !.at = "ended", !.outcome = "refused"]
             quoted(command, amount) ==
                [swapRun[r] EXCEPT !.command = command, !.amount = amount,
                            !.least = amount * (ledger.price - Slip),
                            !.at = IF command = "quote" THEN "ended" ELSE "preflight",
                            !.outcome = IF command = "quote" THEN "reported" ELSE "none"]
  <2>1. swapRun[r].at = "new" /\ Sent(r, "swap") = {} /\ Sent(r, "approval") = {}
    BY <1>1, <1>c DEF Quote
  <2>2. PICK command \in {"quote", "dry-run", "execute", "unconfirmed"}, amount \in Amounts :
            \/ Set(r, refused(command))
            \/ /\ command # "unconfirmed" /\ 0 < amount /\ amount <= MaxSwap
               /\ Set(r, quoted(command, amount))
    <3>1. PICK command \in {"quote", "dry-run", "execute", "unconfirmed"}, amount \in Amounts,
               sources \in Sources, age \in {"fresh", "stale"} :
              Set(r, IF command = "unconfirmed" \/ ~Quoted(amount, sources, age)
                     THEN refused(command) ELSE quoted(command, amount))
      BY <1>1 DEF Quote
    <3> HIDE DEF refused, quoted
    <3> QED
      BY <3>1 DEF Quoted
  <2>3. CASE Set(r, refused(command))
    <3> DEFINE new == refused(command)
    <3>a. swapRun[r] \in RunRecord
      BY <1>a
    <3>b. new \in RunRecord
      BY <3>a DEF RunRecord
    <3>1. /\ new \in RunRecord /\ new.at = "ended" /\ new.outcome = "refused"
          /\ new.amount = swapRun[r].amount
      BY <3>a, <3>b DEF RunRecord
    <3>2. Set(r, new)
      BY <2>3
    <3> HIDE DEF new
    <3>3. RunInv(r, new)
      BY <1>a, <2>1, <3>1 DEF RunInv, Progress, Approved, Told, Settled, Executing
    <3> QED
      BY <2>1, <3>1, <3>2, <3>3, SetInv
  <2>4. CASE command # "unconfirmed" /\ 0 < amount /\ amount <= MaxSwap
             /\ Set(r, quoted(command, amount))
    <3> DEFINE new == quoted(command, amount)
               least == amount * (ledger.price - Slip)
    <3>1. amount \in Nat /\ least \in Int
      BY <1>b, <2>4, SwapFacts DEF LedgerRecord
    <3> HIDE DEF least
    <3> DEFINE at == IF command = "quote" THEN "ended" ELSE "preflight"
               result == IF command = "quote" THEN "reported" ELSE "none"
    <3>2. new = [swapRun[r] EXCEPT !.command = command, !.amount = amount, !.least = least,
                            !.at = at, !.outcome = result]
          /\ Set(r, new)
      BY <2>4 DEF least
    <3>a. swapRun[r] \in RunRecord /\ at \in {"preflight", "ended"}
          /\ result \in {"none", "reported"} /\ (at = "ended" <=> result # "none")
          /\ command \in {"none", "quote", "dry-run", "execute", "unconfirmed"}
          /\ (at = "preflight" => command \in {"dry-run", "execute"})
      BY <1>a, <2>4
    <3> HIDE DEF new, at, result
    <3>b. new \in RunRecord
      BY <3>1, <3>2, <3>a DEF RunRecord
    <3>3. new.amount = amount /\ new.command = command /\ new.at = at /\ new.outcome = result
      BY <3>2, <3>a DEF RunRecord
    <3>c. Progress(r, new) /\ Approved(r, new) /\ Told(r, new)
      BY <2>1, <3>3, <3>a DEF Progress, Approved, Told, Settled, Executing
    <3>4. RunInv(r, new)
      BY <2>4, <3>3, <3>a, <3>c DEF RunInv
    <3> QED
      BY <2>1, <3>2, <3>b, <3>4, SetInv
  <2> QED
    BY <2>2, <2>3, <2>4
<1>2. ASSUME NEW r \in Run, Preflight(r) PROVE SwapInv'
  <2>1. swapRun[r].at = "preflight" /\ Sent(r, "swap") = {} /\ Sent(r, "approval") = {}
    BY <1>2, <1>c DEF Preflight
  <2>2. CASE End(r, "refused")
    BY <2>1, <2>2, EndInv DEF Settled
  <2>3. CASE ~End(r, "refused")
    <3> DEFINE at == IF swapRun[r].command = "dry-run" THEN "report" ELSE "relayer"
               allowance == ledger.allowance
               nonce == ledger.safe
               new == [swapRun[r] EXCEPT !.at = at, !.allowance = allowance, !.nonce = nonce]
    <3>1. Set(r, new)
      BY <1>2, <2>3 DEF Preflight
    <3>a. swapRun[r] \in RunRecord /\ at \in {"report", "relayer"} /\ RunInv(r, swapRun[r])
          /\ (at = "relayer" => swapRun[r].command # "dry-run")
      BY <1>a
    <3>b. allowance \in Nat /\ nonce \in Nat
      BY <1>b DEF LedgerRecord
    <3> HIDE DEF at, allowance, nonce
    <3>c. at \in Executing \cup {"new", "preflight", "report", "ended"}
      BY <3>a DEF Executing
    <3>d. new \in RunRecord
      BY <3>a, <3>b, <3>c DEF RunRecord
    <3>2. /\ new.amount = swapRun[r].amount /\ new.command = swapRun[r].command
          /\ new.outcome = swapRun[r].outcome /\ new.at = at
      BY <3>a DEF RunRecord
    <3> HIDE DEF new
    <3>e. Progress(r, new) /\ Approved(r, new) /\ Told(r, new)
      BY <2>1, <3>2, <3>a DEF RunInv, Progress, Approved, Told, Settled, Executing
    <3>3. RunInv(r, new)
      BY <2>1, <3>2, <3>a, <3>e DEF RunInv
    <3> QED
      BY <2>1, <3>1, <3>d, <3>3, SetInv
  <2> QED
    BY <2>2, <2>3
<1>3. ASSUME NEW r \in Run, ReadRelayer(r) PROVE SwapInv'
  <2>1. swapRun[r].at = "relayer" /\ Sent(r, "swap") = {} /\ Sent(r, "approval") = {}
    BY <1>3, <1>c DEF ReadRelayer
  <2> DEFINE at == IF swapRun[r].allowance < swapRun[r].amount THEN "approve" ELSE "swap"
             new(n) == [swapRun[r] EXCEPT !.at = at, !.relayer = n]
  <2>2. PICK n \in RelayerViews : Set(r, new(n))
    BY <1>3 DEF ReadRelayer
  <2>3. n \in Int
    BY DEF RelayerViews
  <2>a. swapRun[r] \in RunRecord /\ at \in Executing
    BY <1>a DEF Executing
  <2>b. new(n) \in RunRecord
    <3> HIDE DEF at
    <3> QED
      BY <2>3, <2>a DEF RunRecord
  <2>c. /\ new(n).amount = swapRun[r].amount /\ new(n).allowance = swapRun[r].allowance
        /\ new(n).command = swapRun[r].command /\ new(n).outcome = swapRun[r].outcome
        /\ new(n).at = at
    <3> HIDE DEF at
    <3> QED
      BY <2>a DEF RunRecord
  <2>4. /\ new(n) \in RunRecord /\ new(n).amount = swapRun[r].amount
        /\ new(n).allowance = swapRun[r].allowance
        /\ new(n).command = swapRun[r].command /\ new(n).outcome = swapRun[r].outcome
        /\ new(n).at = at
    BY <2>b, <2>c
  <2> HIDE DEF new
  <2>5. swapRun[r].allowance \in Nat /\ swapRun[r].amount \in Nat
    BY <1>a DEF RunRecord
  <2>6. RunInv(r, new(n))
    BY <1>a, <2>1, <2>4, <2>5 DEF RunInv, Progress, Approved, Told, Settled, Executing
  <2> QED
    BY <2>1, <2>2, <2>4, <2>6, SetInv
<1>4. ASSUME NEW r \in Run, Report(r) \/ Unavailable(r) \/ GiveUp(r) PROVE SwapInv'
  <2>1. Settled(r, "reported") /\ Settled(r, "failed")
    BY DEF Settled
  <2> QED
    BY <1>4, <2>1, EndInv DEF Report, Unavailable, GiveUp
<1>5. ASSUME NEW r \in Run, Expire(r) PROVE SwapInv'
  <2> DEFINE new == [swapRun[r] EXCEPT !.expired = TRUE]
  <2>a. swapRun[r] \in RunRecord /\ RunInv(r, swapRun[r])
    BY <1>a
  <2>b. new \in RunRecord
    BY <2>a DEF RunRecord
  <2>1. /\ new.amount = swapRun[r].amount /\ new.least = swapRun[r].least
        /\ new.allowance = swapRun[r].allowance /\ new.at = swapRun[r].at
        /\ new.command = swapRun[r].command /\ new.outcome = swapRun[r].outcome
    BY <2>a DEF RunRecord
  <2>2. Set(r, new)
    BY <1>5 DEF Expire
  <2> HIDE DEF new
  <2>3. RunInv(r, new)
    <3>1. Progress(r, new)
      BY <2>1, <2>a DEF RunInv, Progress
    <3>2. Approved(r, new)
      BY <2>1, <2>a DEF RunInv, Approved
    <3>3. Told(r, new)
      BY <2>1, <2>a DEF RunInv, Told, Settled
    <3> QED
      BY <2>1, <2>a, <3>1, <3>2, <3>3 DEF RunInv
  <2> QED
    BY <2>1, <2>2, <2>3, <2>b, SetInv
<1>6. ASSUME NEW r \in Run, Approve(r) PROVE SwapInv'
  <2>1. swapRun[r].at = "approve" /\ Sent(r, "swap") = {} /\ Sent(r, "approval") = {}
    BY <1>6, <1>c DEF Approve
  <2>2. CASE End(r, "refused")
    BY <2>1, <2>2, EndInv DEF Settled
  <2>3. CASE Broadcast(r, "approval", "await approval")
    BY <2>1, <2>3, BroadcastInv
  <2> QED
    BY <1>6, <2>2, <2>3 DEF Approve, Deliver
<1>7. ASSUME NEW r \in Run, Swap(r) PROVE SwapInv'
  <2>1. swapRun[r].at = "swap" /\ Sent(r, "swap") = {}
    BY <1>7, <1>d DEF Swap
  <2>2. CASE End(r, "refused")
    <3>1. ASSUME NEW d \in Sent(r, "approval") PROVE d \in ledger.mined /\ d.executed
      <4>1. swapRun[r].allowance < swapRun[r].amount
        BY <1>a DEF RunInv, Progress
      <4>2. PICK e \in Own(r, "approval") : e.executed
        BY <1>a, <2>1, <4>1 DEF RunInv, Approved
      <4>3. Alike(d, e) /\ e \in ledger.mined
        BY DEF Sent, Own, Alike
      <4> QED
        BY <4>2, <4>3 DEF Sent, SwapInv, SentOnce
    <3> QED
      BY <2>1, <2>2, <3>1, EndInv DEF Settled
  <2>3. CASE Broadcast(r, "swap", "await swap")
    BY <2>1, <2>3, BroadcastInv
  <2> QED
    BY <1>7, <2>2, <2>3 DEF Swap, Deliver
<1>8. ASSUME NEW r \in Run, Receipt(r) PROVE SwapInv'
  <2>1. ASSUME swapRun[r].at = "await approval", NEW d \in Own(r, "approval"), AfterApproval(r, d)
        PROVE  SwapInv'
    <3>1. Sent(r, "swap") = {}
      BY <1>d, <2>1
    <3>2. CASE ~d.executed
      BY <2>1, <3>1, <3>2, EndInv DEF AfterApproval, Settled
    <3>3. CASE d.executed
      <4> DEFINE new == [swapRun[r] EXCEPT !.at = "renonce", !.relayer = @ + 1]
      <4>0. swapRun[r].relayer + 1 \in Int
        BY <1>a DEF RunRecord
      <4>a. swapRun[r] \in RunRecord /\ "renonce" \in Executing
        BY <1>a DEF Executing
      <4>b. new \in RunRecord
        BY <4>0, <4>a DEF RunRecord
      <4>1. /\ new \in RunRecord /\ new.amount = swapRun[r].amount
            /\ new.allowance = swapRun[r].allowance /\ new.at = "renonce"
            /\ new.command = swapRun[r].command /\ new.outcome = swapRun[r].outcome
        BY <4>a, <4>b DEF RunRecord
      <4>2. Set(r, new)
        BY <2>1, <3>3 DEF AfterApproval
      <4> HIDE DEF new
      <4>3. RunInv(r, new)
        BY <1>a, <2>1, <3>1, <3>3, <4>1 DEF RunInv, Progress, Approved, Told, Settled, Executing
      <4> QED
        BY <3>1, <4>1, <4>2, <4>3, SetInv
    <3> QED
      BY <3>2, <3>3
  <2>2. ASSUME swapRun[r].at = "await swap", NEW d \in Own(r, "swap"),
               End(r, IF d.executed THEN "done" ELSE "reverted")
        PROVE  SwapInv'
    <3>1. CASE d.executed
      BY <2>2, <3>1, EndInv DEF Settled
    <3>2. CASE ~d.executed
      <4>1. \A e \in Sent(r, "swap") : e = d
        BY DEF SwapInv, SentOnce, Alike, Sent, Own
      <4>2. d \in ledger.mined
        BY DEF Own
      <4> QED
        BY <2>2, <3>2, <4>1, <4>2, EndInv DEF Settled
    <3> QED
      BY <3>1, <3>2
  <2> QED
    BY <1>8, <2>1, <2>2 DEF Receipt
<1>9. ASSUME NEW r \in Run, Renonce(r) PROVE SwapInv'
  <2> DEFINE new == [swapRun[r] EXCEPT !.at = "swap", !.nonce = ledger.safe]
  <2>0. swapRun[r].at = "renonce" /\ Sent(r, "swap") = {}
    BY <1>9, <1>d DEF Renonce
  <2> DEFINE nonce == ledger.safe
  <2>a. swapRun[r] \in RunRecord /\ RunInv(r, swapRun[r]) /\ "swap" \in Executing
    BY <1>a DEF Executing
  <2>b. nonce \in Nat /\ new = [swapRun[r] EXCEPT !.at = "swap", !.nonce = nonce]
    BY <1>b DEF LedgerRecord
  <2>c. new \in RunRecord
    <3> HIDE DEF nonce, new
    <3> QED
      BY <2>a, <2>b DEF RunRecord
  <2>1. /\ new \in RunRecord /\ new.amount = swapRun[r].amount
        /\ new.allowance = swapRun[r].allowance /\ new.at = "swap"
        /\ new.command = swapRun[r].command /\ new.outcome = swapRun[r].outcome
    BY <2>a, <2>c DEF RunRecord
  <2>2. Set(r, new)
    BY <1>9 DEF Renonce
  <2> HIDE DEF new
  <2>d. Progress(r, new) /\ Told(r, new)
    BY <2>0, <2>1, <2>a DEF RunInv, Progress, Told, Settled, Executing
  <2>e. Approved(r, new)
    BY <2>0, <2>1, <2>a DEF RunInv, Approved
  <2>3. RunInv(r, new)
    BY <2>0, <2>1, <2>a, <2>d, <2>e DEF RunInv
  <2> QED
    BY <2>0, <2>1, <2>2, <2>3, SetInv
<1>10. ASSUME NEW d \in mempool, MineSwap(d) PROVE SwapInv'
  BY <1>10, MineInv
<1>11. CASE Other \/ Trade
  <2>1. /\ swapRun' = swapRun /\ ledger'.mined = ledger.mined /\ mempool' \subseteq mempool
        /\ ledger' \in LedgerRecord /\ ledger'.usdc = ledger.usdc
        /\ ledger'.allowance = ledger.allowance
    <3>1. CASE Other
      <4>1. PICK mine \in BOOLEAN :
                /\ ledger' = [ledger EXCEPT !.others = @ + 1, !.safe = @ + 1,
                                            !.relayer = IF mine THEN @ + 1 ELSE @]
                /\ mempool' = IF mine THEN {e \in mempool : e.relayer > ledger.relayer}
                              ELSE mempool
        BY <3>1 DEF Other
      <4> DEFINE others == ledger.others + 1
                 safe == ledger.safe + 1
                 relayer == IF mine THEN ledger.relayer + 1 ELSE ledger.relayer
      <4>2. others \in Nat /\ safe \in Nat /\ relayer \in Nat
        BY <1>b DEF LedgerRecord
      <4>3. ledger' = [ledger EXCEPT !.others = others, !.safe = safe, !.relayer = relayer]
        BY <4>1
      <4> HIDE DEF others, safe, relayer
      <4>4. /\ ledger'.mined = ledger.mined /\ ledger' \in LedgerRecord
            /\ ledger'.usdc = ledger.usdc /\ ledger'.allowance = ledger.allowance
        BY <1>b, <4>2, <4>3 DEF LedgerRecord
      <4> QED
        BY <3>1, <4>1, <4>4 DEF Other
    <3>2. CASE Trade
      BY <1>b, <3>2, SwapFacts DEF Trade, LedgerRecord
    <3> QED
      BY <1>11, <3>1, <3>2
  <2>2. SwapTyped' /\ SentOnce' /\ AsAsked'
    BY <2>1 DEF SwapInv, SwapTyped, SentOnce, AsAsked
  <2>3. \A r \in Run : Sent(r, "swap")' \subseteq Sent(r, "swap")
                       /\ Sent(r, "approval")' \subseteq Sent(r, "approval")
    BY <2>1 DEF Sent
  <2>4. \A r \in Run : Settled(r, swapRun[r].outcome)'
    BY <2>1, <2>3 DEF SwapInv, RunInv, Told, Settled
  <2> QED
    BY <2>1, <2>2, <2>3, <2>4, ChainInv DEF Own
<1>12. CASE UNCHANGED swapVars
  <2>1. swapRun' = swapRun /\ ledger' = ledger /\ mempool' = mempool
    BY <1>12 DEF swapVars
  <2>2. SwapTyped' /\ SentOnce' /\ AsAsked'
    BY <2>1 DEF SwapInv, SwapTyped, SentOnce, AsAsked
  <2>3. \A r \in Run : Sent(r, "swap")' = Sent(r, "swap") /\ Sent(r, "approval")' = Sent(r, "approval")
    BY <2>1 DEF Sent
  <2>4. \A r \in Run : Settled(r, swapRun[r].outcome)'
    BY <2>1, <2>3 DEF SwapInv, RunInv, Told, Settled
  <2> QED
    BY <2>1, <2>2, <2>3, <2>4, ChainInv DEF Own
<1> QED
  BY <1>1, <1>2, <1>3, <1>4, <1>5, <1>6, <1>7, <1>8, <1>9, <1>10, <1>11, <1>12 DEF SwapNext

(* Runs, chain and mempool keep their types, for any amounts and prices.   *)
THEOREM SwapTypes == SwapSpec => []SwapTypeOK
<1>1. SwapInv => SwapTypeOK
  <2> SUFFICES ASSUME SwapInv PROVE SwapTypeOK
    OBVIOUS
  <2>1. \A r \in Run : swapRun[r] \in RunRecord /\ RunInv(r, swapRun[r])
    BY RunFacts
  <2>2. ledger.usdc \in 0..Purse /\ ledger.allowance \in 0..StandingCap
    BY SwapFacts DEF SwapInv, SwapTyped, LedgerRecord
  <2>3. \A r \in Run :
           /\ swapRun[r].outcome \in {"none", "reported", "refused", "failed", "reverted", "done"}
           /\ swapRun[r].amount \in 0..MaxSwap
           /\ swapRun[r].rows \subseteq {"approval", "swap"}
    BY <2>1, SwapFacts DEF RunRecord, RunInv
  <2> QED
    BY <2>1, <2>2, <2>3 DEF SwapTypeOK, RunInv
<1> QED
  BY <1>1, SwapInitInv, SwapStep, PTL DEF SwapSpec

(* What a run tells its operator is so, however many run beside it and     *)
(* whoever spends the nonces.                                              *)
THEOREM RunsAreTruthful == SwapSpec => []RunsTellTruth
<1>1. SwapInv => RunsTellTruth
  <2> SUFFICES ASSUME SwapInv, NEW r \in Run
               PROVE  /\ Told(r, swapRun[r]) /\ Approved(r, swapRun[r])
                      /\ swapRun[r].command \in {"quote", "dry-run", "unconfirmed"} =>
                             Sent(r, "swap") \cup Sent(r, "approval") = {}
    BY DEF RunsTellTruth, Told, Settled, Approved
  <2> QED
    BY DEF SwapInv, RunInv, Progress
<1> QED
  BY <1>1, SwapInitInv, SwapStep, PTL DEF SwapSpec

-----------------------------------------------------------------------------
(* The daily digest.                                                       *)

Verdicts == {"accepted", "ambiguous", "rejected"}
Command  == [pc : {"ended", "read", "claim", "send", "settle"}, at : 0..MaxClock, left : Nat,
             pages : Nat, held : SUBSET Nat, seen : Nat, verdict : Verdicts]

\* What each variable ranges over; mails are numbered.
Typed ==
    /\ hour \in 0..MaxClock
    /\ stamps \in Seq(Int)
    /\ marker \in {Clean, Unreadable} \cup Marks
    /\ sender \in [Sender -> Command]
    /\ IsFiniteSet(mailed)
    /\ mailed \subseteq [no : 1..Cardinality(mailed), at : 0..MaxClock, sent : Nat, misread : BOOLEAN]

\* What a command holds and has left to read is on the chain.
OnChain == \A s \in Sender : /\ sender[s].held \subseteq 1..Len(stamps)
                             /\ sender[s].left <= Len(stamps)

\* A command is shorter than a window, and began in the past.
InTime == \A s \in Sender : sender[s].pc # "ended" =>
              sender[s].at <= hour /\ hour < sender[s].at + Window

Sending(s) == sender[s].pc \in {"send", "settle"}

\* Whoever sends holds the window: his reservation stands, or a marker that
\* admits nobody; so nobody else sends.
Reserved == \A s \in Sender : Sending(s) =>
                marker = Unreadable \/ marker = Mark(sender[s].at, "ambiguous")
Alone == \A s, t \in Sender : Sending(s) /\ Sending(t) => s = t

\* A mail that no longer stands in the way of another.
Over(m) == m.misread \/ hour >= m.at + Window

\* Every mail is over, or the marker still admits nobody before its window ends.
Guarded == \A m \in mailed :
    \/ Over(m)
    \/ marker = Unreadable
    \/ marker \in Marks /\ marker.outcome # "rejected" /\ marker.at >= m.at

\* When a command sends all earlier mails are over; when it settles, all but
\* its own, which it does not call rejected.
Cleared == \A s \in Sender, m \in mailed :
    /\ sender[s].pc = "send" => Over(m)
    /\ sender[s].pc = "settle" =>
           Over(m) \/ (sender[s].verdict # "rejected" /\ sender[s].at >= m.at)

DigestInv == Typed /\ OnChain /\ InTime /\ Reserved /\ Alone /\ Guarded /\ Cleared /\ DigestSpaced

USE DigestAssumption, MarkerAssumption

LEMMA EndedTyped == Ended \in Command
  BY DEF Ended, Command, Verdicts

\* The initial state satisfies the inductive invariant.
LEMMA InvInit == DigestInit => DigestInv
  <1> SUFFICES ASSUME DigestInit PROVE DigestInv
    OBVIOUS
  <1>1. IsFiniteSet({})
    BY FS_EmptySet
  <1>2. Typed
    BY <1>1, EndedTyped DEF DigestInit, Typed
  <1>3. OnChain /\ InTime /\ Reserved /\ Alone /\ Guarded /\ Cleared /\ DigestSpaced
    BY DEF DigestInit, OnChain, InTime, Reserved, Alone, Guarded, Cleared, DigestSpaced,
           Sending, Ended
  <1> QED
    BY <1>2, <1>3 DEF DigestInv

\* What a command does to itself alone, outside sending, keeps everything.
LEMMA OwnStep ==
  ASSUME DigestInv, NEW s \in Sender, NEW r \in Command,
         sender' = [sender EXCEPT ![s] = r], ~(r.pc \in {"send", "settle"}),
         r.held \subseteq 1..Len(stamps), r.left <= Len(stamps),
         r.pc # "ended" => r.at <= hour /\ hour < r.at + Window,
         UNCHANGED <<hour, stamps, marker, mailed>>
  PROVE  DigestInv'
  <1>1. \A t \in Sender : sender'[t] = IF t = s THEN r ELSE sender[t]
    BY DEF DigestInv, Typed
  <1>2. Typed'
    BY DEF DigestInv, Typed
  <1>3. OnChain'
    BY <1>1 DEF DigestInv, OnChain
  <1>4. InTime'
    BY <1>1 DEF DigestInv, InTime
  <1>5. \A t \in Sender : Sending(t)' => Sending(t) /\ t # s
    BY <1>1 DEF Sending
  <1>6. Reserved' /\ Alone'
    BY <1>1, <1>5 DEF DigestInv, Reserved, Alone
  <1>7. Guarded' /\ DigestSpaced'
    BY DEF DigestInv, Guarded, Over, DigestSpaced
  <1>8. Cleared'
    BY <1>1 DEF DigestInv, Cleared, Over
  <1> QED
    BY <1>2, <1>3, <1>4, <1>6, <1>7, <1>8 DEF DigestInv

\* A command that ends before it sends.
LEMMA EndStep ==
  ASSUME DigestInv, NEW s \in Sender, sender' = [sender EXCEPT ![s] = Ended],
         UNCHANGED <<hour, stamps, marker, mailed>>
  PROVE  DigestInv'
  <1> DEFINE r == Ended
  <1>1. r \in Command /\ sender' = [sender EXCEPT ![s] = r]
    BY EndedTyped
  <1>2. r.pc = "ended" /\ r.held = {} /\ r.left = 0
    BY DEF Ended
  <1> HIDE DEF r
  <1>3. Len(stamps) \in Nat
    BY DEF DigestInv, Typed
  <1>4. r.held \subseteq 1..Len(stamps) /\ r.left <= Len(stamps)
    BY <1>2, <1>3
  <1> QED
    BY <1>1, <1>2, <1>4, OwnStep

\* Starting, paging and dying.
LEMMA Collecting ==
  ASSUME DigestInv, NEW s \in Sender,
         StartDigest(s) \/ CollectPage(s) \/ CollectNothing(s) \/ DigestDies(s)
  PROVE  DigestInv'
  <1> USE DEF Sends
  <1>0. sender[s] \in Command /\ Len(stamps) \in Nat /\ hour \in 0..MaxClock
    BY DEF DigestInv, Typed
  <1>1. CASE StartDigest(s)
    <2> DEFINE r == [Ended EXCEPT !.pc = "read", !.at = hour, !.left = Len(stamps), !.seen = Len(stamps)]
    <2>1. sender' = [sender EXCEPT ![s] = r] /\ UNCHANGED <<hour, stamps, marker, mailed>>
      BY <1>1 DEF StartDigest
    <2>2. r \in Command
      BY <1>0, EndedTyped DEF Command
    <2>3. r.pc = "read" /\ r.held = {} /\ r.left = Len(stamps) /\ r.at = hour
      BY DEF Ended
    <2> HIDE DEF r
    <2>4. r.held \subseteq 1..Len(stamps) /\ r.left <= Len(stamps) /\ hour < r.at + Window /\ r.at <= hour
      BY <1>0, <2>3
    <2> QED
      BY <2>1, <2>2, <2>3, <2>4, OwnStep
  <1>2. CASE CollectPage(s)
    <2> DEFINE c == sender[s]
               page == RowsOf(c.left)
               recent == InWindow(page, c.at)
               last == recent # page \/ c.left = Cardinality(page) \/ c.pages + 1 = DigestPages
               r == [c EXCEPT !.held = @ \cup recent, !.left = @ - Cardinality(page),
                              !.pages = @ + 1, !.pc = IF last THEN "claim" ELSE "read"]
    <2>1. c.pc = "read" /\ c.left > 0 /\ sender' = [sender EXCEPT ![s] = r]
      BY <1>2 DEF CollectPage
    <2>2. c.held \subseteq 1..Len(stamps) /\ c.left <= Len(stamps) /\ c.left \in Nat
      BY <1>0 DEF DigestInv, OnChain, Command
    <2> DEFINE k == IF DigestPage < c.left THEN DigestPage ELSE c.left
    <2>3. k \in 1..c.left
      BY <2>1, <2>2
    <2>4. page = (c.left - k + 1)..c.left
      BY DEF RowsOf
    <2> HIDE DEF k
    <2>5. Cardinality(page) = k
      <3> DEFINE a == c.left - k + 1
                 b == c.left
      <3> HIDE DEF c, page, recent, last, r
      <3>1. a \in Int /\ b \in Int /\ a <= b /\ b - a + 1 = k
        BY <2>2, <2>3
      <3> HIDE DEF a, b
      <3>2. Cardinality(a..b) = k
        BY <3>1, FS_Interval
      <3> QED
        BY <2>4, <3>2 DEF a, b
    <2>6. page \subseteq 1..Len(stamps) /\ recent \subseteq page
      <3>1. recent \subseteq page
        BY DEF InWindow
      <3>2. c.left \in Nat /\ c.left <= Len(stamps) /\ Len(stamps) \in Nat /\ k \in 1..c.left
        BY <1>0, <2>2, <2>3
      <3> HIDE DEF page, recent
      <3>3. page \subseteq 1..Len(stamps)
        BY <2>4, <3>2
      <3> QED
        BY <3>1, <3>3
    <2> HIDE DEF page, recent
    <2>7. /\ r.held \subseteq 1..Len(stamps) /\ r.left \in Nat /\ r.left <= Len(stamps)
          /\ r.pc \in {"claim", "read"} /\ r.at = c.at
      <3> DEFINE held == c.held \cup recent
                 left == c.left - Cardinality(page)
                 pages == c.pages + 1
                 pc == IF last THEN "claim" ELSE "read"
      <3>1. c \in Command /\ r = [c EXCEPT !.held = held, !.left = left, !.pages = pages, !.pc = pc]
        BY <1>0
      <3>2. left \in Nat /\ left <= Len(stamps)
        BY <1>0, <2>2, <2>3, <2>5
      <3>3. held \subseteq 1..Len(stamps) /\ pc \in {"claim", "read"}
        BY <2>2, <2>6
      <3> HIDE DEF held, left, pages, pc, r
      <3>4. r.held = held /\ r.left = left /\ r.pc = pc /\ r.at = c.at
        BY <3>1 DEF Command
      <3> QED
        BY <3>2, <3>3, <3>4
    <2>8. r \in Command
      <3>1. r.held \subseteq Nat
        BY <2>7, <1>0
      <3>2. r.pages \in Nat
        BY <1>0 DEF Command
      <3> QED
        BY <1>0, <2>7, <3>1, <3>2 DEF Command
    <2>9. r.at <= hour /\ hour < r.at + Window
      BY <2>1, <2>7 DEF DigestInv, InTime
    <2> HIDE DEF r, c
    <2> QED
      BY <1>2, <2>1, <2>7, <2>8, <2>9, OwnStep DEF CollectPage
  <1>3. CASE CollectNothing(s)
    <2> DEFINE r == [sender[s] EXCEPT !.pc = "claim"]
    <2>1. r \in Command /\ r.pc = "claim" /\ r.held = sender[s].held /\ r.left = sender[s].left
          /\ r.at = sender[s].at
      BY <1>0 DEF Command
    <2>2. sender' = [sender EXCEPT ![s] = r] /\ sender[s].pc = "read"
      BY <1>3 DEF CollectNothing
    <2>3. /\ r.held \subseteq 1..Len(stamps) /\ r.left <= Len(stamps)
          /\ r.at <= hour /\ hour < r.at + Window
      BY <2>1, <2>2 DEF DigestInv, OnChain, InTime
    <2> HIDE DEF r
    <2> QED
      BY <1>3, <2>1, <2>2, <2>3, OwnStep DEF CollectNothing
  <1>4. CASE DigestDies(s)
    <2>1. sender' = [sender EXCEPT ![s] = Ended] /\ UNCHANGED <<hour, stamps, marker, mailed>>
      BY <1>4 DEF DigestDies
    <2> QED
      BY <2>1, EndStep
  <1> QED
    BY <1>1, <1>2, <1>3, <1>4

\* A claim that is admitted finds every mail over and nobody sending.
LEMMA Claiming == ASSUME DigestInv, NEW s \in Sender, ClaimSend(s) PROVE DigestInv'
  <1>0. sender[s] \in Command /\ sender[s].pc = "claim" /\ hour \in 0..MaxClock
    BY DEF DigestInv, Typed, ClaimSend
  <1>1. sender[s].at <= hour /\ hour < sender[s].at + Window /\ sender[s].at \in 0..MaxClock
    BY <1>0 DEF DigestInv, InTime, Command
  <1>2. CASE Admits(sender[s].at)
    <2> DEFINE r == [Ended EXCEPT !.pc = "send", !.at = sender[s].at]
    <2>1. marker' = Mark(sender[s].at, "ambiguous") /\ sender' = [sender EXCEPT ![s] = r]
          /\ UNCHANGED <<hour, stamps, mailed>>
      BY <1>2 DEF ClaimSend, Sends
    <2>2. r \in Command /\ r.pc = "send" /\ r.at = sender[s].at /\ r.held = {} /\ r.left = 0
      BY <1>1 DEF Ended, Command, Verdicts
    <2> HIDE DEF r
    <2>3. \A t \in Sender : sender'[t] = IF t = s THEN r ELSE sender[t]
      BY <2>1 DEF DigestInv, Typed
    <2>4. marker' \in Marks /\ marker'.at = sender[s].at /\ marker'.outcome = "ambiguous"
      BY <1>1, <2>1 DEF Mark, Marks
    <2>5. \A m \in mailed : Over(m)
      <3> SUFFICES ASSUME NEW m \in mailed PROVE Over(m)
        OBVIOUS
      <3>0. m.at \in 0..MaxClock
        BY DEF DigestInv, Typed
      <3>1. CASE marker \notin Marks
        BY <1>2, <3>1 DEF DigestInv, Guarded, Admits, Typed
      <3>2. CASE marker \in Marks /\ marker.outcome = "rejected"
        BY <3>2 DEF DigestInv, Guarded
      <3>3. CASE marker \in Marks /\ sender[s].at >= marker.at + Window
        <4>1. marker.at \in 0..MaxClock /\ marker # Unreadable
          BY <3>3 DEF Marks
        <4> QED
          BY <1>0, <1>1, <3>0, <3>3, <4>1 DEF DigestInv, Guarded, Over
      <3> QED
        BY <1>2, <3>1, <3>2, <3>3 DEF Admits
    <2>6. \A t \in Sender : ~Sending(t)
      <3> SUFFICES ASSUME NEW t \in Sender, Sending(t) PROVE FALSE
        OBVIOUS
      <3>0. sender[t].at \in 0..MaxClock /\ hour < sender[t].at + Window
        BY DEF DigestInv, InTime, Sending, Typed, Command
      <3>1. marker # Unreadable
        BY <1>2 DEF Admits
      <3>2. marker = Mark(sender[t].at, "ambiguous")
        BY <3>1 DEF DigestInv, Reserved
      <3>3. marker \in Marks /\ marker.outcome = "ambiguous" /\ marker.at = sender[t].at
        BY <3>0, <3>2 DEF Mark, Marks
      <3>4. sender[s].at >= marker.at + Window
        BY <1>2, <3>1, <3>3 DEF Admits
      <3> QED
        BY <1>0, <1>1, <3>0, <3>3, <3>4
    <2>7. Typed'
      BY <2>1, <2>2, <2>4 DEF DigestInv, Typed
    <2>8. OnChain' /\ InTime'
      <3>1. Len(stamps) \in Nat
        BY DEF DigestInv, Typed
      <3> QED
        BY <1>1, <2>1, <2>2, <2>3, <3>1 DEF DigestInv, OnChain, InTime
    <2>9. Reserved' /\ Alone'
      BY <2>1, <2>2, <2>3, <2>6 DEF Reserved, Alone, Sending
    <2>10. \A m \in mailed' : Over(m)'
      BY <2>1, <2>5 DEF Over
    <2>11. Guarded'
      BY <2>10 DEF Guarded
    <2>12. Cleared'
      BY <2>10 DEF Cleared
    <2>13. DigestSpaced'
      BY <2>1 DEF DigestInv, DigestSpaced
    <2> QED
      BY <2>7, <2>8, <2>9, <2>11, <2>12, <2>13 DEF DigestInv
  <1>3. CASE ~Admits(sender[s].at)
    <2>1. sender' = [sender EXCEPT ![s] = Ended] /\ UNCHANGED <<hour, stamps, marker, mailed>>
      BY <1>3 DEF ClaimSend, Sends
    <2> QED
      BY <2>1, EndStep
  <1> QED
    BY <1>2, <1>3

\* A transport reports one of three verdicts.
LEMMA VerdictKnown == \A o \in SmtpOutcomes \cup HttpOutcomes : o.verdict \in Verdicts
  <1> SUFFICES ASSUME NEW o \in SmtpOutcomes \cup HttpOutcomes PROVE o.verdict \in Verdicts
    OBVIOUS
  <1>1. PICK v \in Verdicts, took \in BOOLEAN : o = [verdict |-> v, took |-> took]
    <2>1. CASE o \in SmtpOutcomes
      BY <2>1 DEF SmtpOutcomes, Unclear, Outcome, Verdicts
    <2>2. CASE o \in HttpOutcomes
      BY <2>2 DEF HttpOutcomes, Unclear, Outcome, Verdicts
    <2> QED
      BY <2>1, <2>2
  <1> QED
    BY <1>1

\* A mail that is taken is the newest; the earlier ones are over.
LEMMA Mailing == ASSUME DigestInv, NEW s \in Sender, SendDigest(s) PROVE DigestInv'
  <1> DEFINE n(o) == [no |-> Cardinality(mailed) + 1, at |-> sender[s].at,
                      sent |-> hour, misread |-> o.verdict = "rejected"]
  <1>0. sender[s] \in Command /\ sender[s].pc = "send" /\ hour \in 0..MaxClock
        /\ Cardinality(mailed) \in Nat /\ Len(stamps) \in Nat
    BY FS_CardinalityType DEF DigestInv, Typed, SendDigest
  <1>1. PICK o \in SmtpOutcomes \cup HttpOutcomes :
            /\ Sends(s, [sender[s] EXCEPT !.pc = "settle", !.verdict = o.verdict])
            /\ mailed' = IF ~o.took THEN mailed ELSE mailed \cup {n(o)}
    BY DEF SendDigest
  <1>2. o.verdict \in Verdicts
    BY VerdictKnown
  <1>3. UNCHANGED <<hour, stamps, marker>>
    BY DEF SendDigest
  <1> DEFINE r == [sender[s] EXCEPT !.pc = "settle", !.verdict = o.verdict]
  <1>4. /\ r \in Command /\ r.pc = "settle" /\ r.at = sender[s].at /\ r.verdict = o.verdict
        /\ r.held = sender[s].held /\ r.left = sender[s].left
    BY <1>0, <1>2 DEF Command
  <1>5. sender' = [sender EXCEPT ![s] = r]
    BY <1>1 DEF Sends
  <1> HIDE DEF r
  <1>6. \A t \in Sender : sender'[t] = IF t = s THEN r ELSE sender[t]
    BY <1>5 DEF DigestInv, Typed
  <1>7. \A m \in mailed : Over(m) /\ Over(m)'
    <2>1. \A m \in mailed : Over(m)
      BY <1>0 DEF DigestInv, Cleared
    <2> QED
      BY <1>3, <2>1 DEF Over
  <1>8. marker = Unreadable \/ marker = Mark(sender[s].at, "ambiguous")
    BY <1>0 DEF DigestInv, Reserved, Sending
  <1>9. sender[s].at \in 0..MaxClock /\ n(o).at = sender[s].at /\ n(o).sent = hour
        /\ n(o).misread = (o.verdict = "rejected") /\ n(o).no = Cardinality(mailed) + 1
    BY <1>0 DEF Command
  <1>10. \A m \in mailed : m.no <= Cardinality(mailed) /\ m.no \in Nat /\ m.at \in 0..MaxClock
                           /\ m.sent \in Nat /\ m.misread \in BOOLEAN
    BY <1>0 DEF DigestInv, Typed
  <1>11. n(o) \notin mailed
    BY <1>0, <1>9, <1>10
  <1>12. mailed' = mailed \/ mailed' = mailed \cup {n(o)}
    BY <1>1
  <1>13. Typed'
    <2>1. CASE mailed' = mailed
      BY <1>3, <1>4, <1>5, <2>1 DEF DigestInv, Typed
    <2>2. CASE mailed' = mailed \cup {n(o)}
      <3>1. IsFiniteSet(mailed') /\ Cardinality(mailed') = Cardinality(mailed) + 1
        BY <1>11, <2>2, FS_AddElement DEF DigestInv, Typed
      <3>2. n(o) \in [no : 1..Cardinality(mailed'), at : 0..MaxClock, sent : Nat, misread : BOOLEAN]
        BY <1>0, <1>9, <3>1
      <3>3. mailed \subseteq [no : 1..Cardinality(mailed'), at : 0..MaxClock, sent : Nat, misread : BOOLEAN]
        <4>1. 1..Cardinality(mailed) \subseteq 1..Cardinality(mailed')
          BY <1>0, <3>1
        <4> QED
          BY <4>1 DEF DigestInv, Typed
      <3>4. mailed' \subseteq [no : 1..Cardinality(mailed'), at : 0..MaxClock, sent : Nat, misread : BOOLEAN]
        BY <2>2, <3>2, <3>3
      <3> QED
        BY <1>3, <1>4, <1>5, <3>1, <3>4 DEF DigestInv, Typed
    <2> QED
      BY <1>12, <2>1, <2>2
  <1>14. OnChain' /\ InTime'
    BY <1>0, <1>3, <1>4, <1>6 DEF DigestInv, OnChain, InTime
  <1>15. \A t \in Sender : Sending(t)' <=> Sending(t)
    BY <1>0, <1>4, <1>6 DEF Sending
  <1>16. Reserved' /\ Alone'
    BY <1>3, <1>4, <1>6, <1>15 DEF DigestInv, Reserved, Alone
  <1>17. Guarded'
    <2> SUFFICES ASSUME NEW m \in mailed'
                 PROVE  (\/ Over(m) \/ marker = Unreadable
                         \/ marker \in Marks /\ marker.outcome # "rejected" /\ marker.at >= m.at)'
      BY DEF Guarded
    <2>1. CASE m \in mailed
      BY <1>7, <2>1
    <2>2. CASE m = n(o)
      <3>1. marker = Mark(sender[s].at, "ambiguous") =>
               marker \in Marks /\ marker.outcome # "rejected" /\ marker.at >= m.at
        BY <1>9, <2>2 DEF Mark, Marks
      <3> QED
        BY <1>3, <1>8, <3>1
    <2> QED
      BY <1>12, <2>1, <2>2
  <1>18. Cleared'
    <2> SUFFICES ASSUME NEW t \in Sender, NEW m \in mailed'
                 PROVE  (/\ sender[t].pc = "send" => Over(m)
                         /\ sender[t].pc = "settle" =>
                                Over(m) \/ (sender[t].verdict # "rejected" /\ sender[t].at >= m.at))'
      BY DEF Cleared
    <2>1. CASE m \in mailed
      BY <1>7, <2>1
    <2>2. CASE m = n(o)
      <3>1. CASE t = s
        <4>1. sender'[t].pc = "settle" /\ sender'[t].verdict = o.verdict /\ sender'[t].at = sender[s].at
          BY <1>4, <1>6, <3>1
        <4>2. CASE o.verdict = "rejected"
          BY <1>9, <2>2, <4>1, <4>2 DEF Over
        <4>3. CASE o.verdict # "rejected"
          BY <1>9, <2>2, <4>1, <4>3
        <4> QED
          BY <4>2, <4>3
      <3>2. CASE t # s
        <4>1. ~Sending(t)
          BY <1>0, <3>2 DEF DigestInv, Alone, Sending
        <4> QED
          BY <1>6, <3>2, <4>1 DEF Sending
      <3> QED
        BY <3>1, <3>2
    <2> QED
      BY <1>12, <2>1, <2>2
  <1>19. DigestSpaced'
    <2> SUFFICES ASSUME NEW k \in mailed', NEW m \in mailed', k.no < m.no
                 PROVE  k.misread \/ m.sent - k.at >= Window
      BY DEF DigestSpaced
    <2>1. k \in mailed
      BY <1>0, <1>9, <1>10, <1>12
    <2>2. CASE m \in mailed
      BY <2>1, <2>2 DEF DigestInv, DigestSpaced
    <2>3. CASE m = n(o)
      <3>1. k.misread \/ hour >= k.at + Window
        BY <1>7, <2>1 DEF Over
      <3> QED
        BY <1>0, <1>9, <1>10, <2>1, <2>3, <3>1
    <2> QED
      BY <1>12, <2>2, <2>3
  <1> QED
    BY <1>13, <1>14, <1>16, <1>17, <1>18, <1>19 DEF DigestInv

\* The outcome is written, or the reservation stays.
LEMMA Settling == ASSUME DigestInv, NEW s \in Sender, Settle(s) PROVE DigestInv'
  <1>0. sender[s] \in Command /\ sender[s].pc = "settle" /\ hour \in 0..MaxClock /\ Len(stamps) \in Nat
    BY DEF DigestInv, Typed, Settle
  <1>1. CASE marker' = marker
    <2>1. sender' = [sender EXCEPT ![s] = Ended] /\ UNCHANGED <<hour, stamps, marker, mailed>>
      BY <1>1 DEF Settle, Sends
    <2> QED
      BY <2>1, EndStep
  <1>2. CASE marker' = Mark(sender[s].at, sender[s].verdict)
    <2>1. sender' = [sender EXCEPT ![s] = Ended] /\ UNCHANGED <<hour, stamps, mailed>>
      BY DEF Settle, Sends
    <2>2. \A t \in Sender : sender'[t] = IF t = s THEN Ended ELSE sender[t]
      BY <2>1 DEF DigestInv, Typed
    <2>3. Ended.pc = "ended" /\ Ended.held = {} /\ Ended.left = 0
      BY DEF Ended
    <2>4. \A t \in Sender : ~Sending(t)'
      BY <1>0, <2>2, <2>3 DEF DigestInv, Alone, Sending
    <2>5. marker' \in Marks /\ marker'.at = sender[s].at /\ marker'.outcome = sender[s].verdict
      BY <1>0, <1>2 DEF Mark, Marks, Command, Verdicts
    <2>6. Typed'
      BY <2>1, <2>5, EndedTyped DEF DigestInv, Typed
    <2>7. OnChain' /\ InTime'
      BY <1>0, <2>1, <2>2, <2>3 DEF DigestInv, OnChain, InTime
    <2>8. Reserved' /\ Alone' /\ Cleared'
      BY <2>4 DEF Reserved, Alone, Cleared, Sending
    <2>9. Guarded'
      <3>1. \A m \in mailed : Over(m) \/ (sender[s].verdict # "rejected" /\ sender[s].at >= m.at)
        BY <1>0 DEF DigestInv, Cleared
      <3> QED
        BY <2>1, <2>5, <3>1 DEF Guarded, Over
    <2>10. DigestSpaced'
      BY <2>1 DEF DigestInv, DigestSpaced
    <2> QED
      BY <2>6, <2>7, <2>8, <2>9, <2>10 DEF DigestInv
  <1> QED
    BY <1>1, <1>2 DEF Settle

\* The chain grows, time passes, the marker is damaged or reset.
LEMMA Around ==
  ASSUME DigestInv,
         (\E lag \in 0..Lag : AppendStamp(lag)) \/ HourPasses \/ MarkerDamaged \/ ResetMarker
  PROVE  DigestInv'
  <1>1. ASSUME NEW lag \in 0..Lag, AppendStamp(lag) PROVE DigestInv'
    <2>1. stamps' \in Seq(Int) /\ Len(stamps') = Len(stamps) + 1 /\ Len(stamps) \in Nat
      BY <1>1 DEF AppendStamp, DigestInv, Typed
    <2>2. UNCHANGED <<hour, marker, sender, mailed>>
      BY <1>1 DEF AppendStamp
    <2>3. Typed'
      BY <2>1, <2>2 DEF DigestInv, Typed
    <2>4. OnChain'
      <3> SUFFICES ASSUME NEW s \in Sender
                   PROVE  sender[s].held \subseteq 1..Len(stamps') /\ sender[s].left <= Len(stamps')
        BY <2>2 DEF OnChain
      <3>1. sender[s].held \subseteq 1..Len(stamps) /\ sender[s].left <= Len(stamps)
            /\ sender[s].left \in Nat
        BY DEF DigestInv, OnChain, Typed, Command
      <3> QED
        BY <2>1, <3>1
    <2> QED
      BY <2>2, <2>3, <2>4 DEF DigestInv, InTime, Reserved, Alone, Guarded, Cleared, Over,
                              Sending, DigestSpaced
  <1>2. CASE HourPasses
    <2>1. hour \in 0..MaxClock /\ hour' = hour + 1 /\ hour' \in 0..MaxClock
          /\ UNCHANGED <<stamps, marker, sender, mailed>>
      BY <1>2 DEF HourPasses, DigestInv, Typed
    <2>2. Typed' /\ OnChain' /\ Reserved' /\ Alone' /\ DigestSpaced'
      BY <2>1 DEF DigestInv, Typed, OnChain, Reserved, Alone, Sending, DigestSpaced
    <2>3. InTime'
      <3> SUFFICES ASSUME NEW s \in Sender, sender[s].pc # "ended"
                   PROVE  sender[s].at <= hour + 1 /\ hour + 1 < sender[s].at + Window
        BY <2>1 DEF InTime
      <3>1. hour + 1 < sender[s].at + Window
        BY <1>2 DEF HourPasses
      <3>2. sender[s].at <= hour /\ sender[s].at \in 0..MaxClock
        BY DEF DigestInv, InTime, Typed, Command
      <3> QED
        BY <2>1, <3>1, <3>2
    <2>4. \A m \in mailed : Over(m) => Over(m)'
      <3>1. \A m \in mailed : m.at \in 0..MaxClock
        BY DEF DigestInv, Typed
      <3> QED
        BY <2>1, <3>1 DEF Over
    <2>5. Guarded' /\ Cleared'
      BY <2>1, <2>4 DEF DigestInv, Guarded, Cleared
    <2> QED
      BY <2>2, <2>3, <2>5 DEF DigestInv
  <1>3. CASE MarkerDamaged
    <2>1. marker' = Unreadable /\ UNCHANGED <<hour, stamps, sender, mailed>>
      BY <1>3 DEF MarkerDamaged
    <2>2. Typed'
      BY <2>1 DEF DigestInv, Typed
    <2> QED
      BY <2>1, <2>2 DEF DigestInv, OnChain, InTime, Reserved, Alone, Guarded, Cleared, Over,
                        Sending, DigestSpaced
  <1>4. CASE ResetMarker
    <2>1. marker' = Clean /\ mailed' = {} /\ UNCHANGED <<hour, stamps, sender>>
          /\ \A s \in Sender : ~Sending(s)
      BY <1>4 DEF ResetMarker, Sending
    <2>2. Typed'
      <3>1. IsFiniteSet({})
        BY FS_EmptySet
      <3> QED
        BY <2>1, <3>1 DEF DigestInv, Typed
    <2> QED
      BY <2>1, <2>2 DEF DigestInv, OnChain, InTime, Reserved, Alone, Guarded, Cleared,
                        Sending, DigestSpaced
  <1> QED
    BY <1>1, <1>2, <1>3, <1>4

\* Every step preserves the inductive invariant.
LEMMA InvNext == DigestInv /\ [DigestNext]_digestVars => DigestInv'
  <1> SUFFICES ASSUME DigestInv, [DigestNext]_digestVars PROVE DigestInv'
    OBVIOUS
  <1>1. CASE UNCHANGED digestVars
    BY <1>1 DEF digestVars, DigestInv, Typed, OnChain, InTime, Reserved, Alone, Guarded,
                Cleared, Over, Sending, DigestSpaced
  <1>2. CASE DigestNext
    BY <1>2, Collecting, Claiming, Mailing, Settling, Around DEF DigestNext
  <1> QED
    BY <1>1, <1>2

LEMMA DigestInvariant == DigestSpec => []DigestInv
  BY InvInit, InvNext, PTL DEF DigestSpec

\* Clock, marker and commands keep their types, and a command composes rows
\* of the chain only, for any number of commands and any page size.
THEOREM DigestTyped == DigestSpec => []DigestTypeOK
  <1>1. DigestInv => DigestTypeOK
    BY DEF DigestInv, Typed, OnChain, Command, DigestTypeOK
  <1> QED
    BY DigestInvariant, <1>1, PTL

\* One digest per window, for any number of overlapping commands, any window
\* and any interleaving of claims, deaths, damaged and reset markers: only a
\* mail whose acceptance was read as a refusal lets another follow early.
THEOREM DigestsAreSpaced == DigestSpec => []DigestSpaced
  <1>1. DigestInv => DigestSpaced
    BY DEF DigestInv
  <1> QED
    BY DigestInvariant, <1>1, PTL
-----------------------------------------------------------------------------
(* The completeness of a digest.                                           *)

\* An append stamps at most Lag before the clock, and the clock only advances.
NearlySorted ==
    /\ \A i \in 1..Len(stamps) : stamps[i] <= hour
    /\ \A i, j \in 1..Len(stamps) : i < j => stamps[i] <= stamps[j] + Lag

\* A command that reads holds all of its day it has passed; one that has read
\* as far as it needs holds all but what the lag may hide.
Held(r) ==
    /\ r.pc \in {"read", "claim"} => r.seen <= Len(stamps) /\ r.left <= r.seen
    /\ r.pc = "read" => \A i \in 1..r.seen : i > r.left /\ stamps[i] >= r.at - Window => i \in r.held
    /\ r.pc = "claim" /\ ~(r.pages = DigestPages /\ r.left > 0) =>
           \A i \in 1..r.seen : stamps[i] >= r.at - Window + Lag => i \in r.held

CoverInv == DigestInv /\ NearlySorted /\ \A s \in Sender : Held(sender[s])

\* A command that keeps to itself.
LEMMA HeldAlone ==
  ASSUME CoverInv, DigestInv', NEW s \in Sender, NEW r, Held(r), sender' = [sender EXCEPT ![s] = r],
         UNCHANGED <<hour, stamps>>
  PROVE  CoverInv'
  <1>1. \A t \in Sender : sender'[t] = IF t = s THEN r ELSE sender[t]
    BY DEF CoverInv, DigestInv, Typed
  <1>2. \A t \in Sender : Held(sender'[t])
    BY <1>1 DEF CoverInv
  <1>3. \A t \in Sender : Held(sender[t])'
    BY <1>2 DEF Held
  <1> QED
    BY <1>3 DEF CoverInv, NearlySorted

\* A page is the rows just before what has been read.
LEMMA PageRows ==
  ASSUME NEW left \in Nat \ {0}
  PROVE  \E take \in 1..left : RowsOf(left) = (left - take + 1)..left /\ Cardinality(RowsOf(left)) = take
  <1> DEFINE take == IF DigestPage < left THEN DigestPage ELSE left
  <1>1. take \in 1..left /\ RowsOf(left) = (left - take + 1)..left
    BY DEF RowsOf
  <1> HIDE DEF take
  <1>2. Cardinality((left - take + 1)..left) = take
    BY <1>1, FS_Interval
  <1> QED
    BY <1>1, <1>2

\* The first page with an older row, or the last page, ends the read.
LEMMA PageCovers ==
  ASSUME CoverInv, DigestInv', NEW s \in Sender, CollectPage(s)
  PROVE  CoverInv'
  <1> DEFINE r == sender[s]
             page == RowsOf(r.left)
             recent == InWindow(page, r.at)
             last == recent # page \/ r.left = Cardinality(page) \/ r.pages + 1 = DigestPages
             q == [r EXCEPT !.held = @ \cup recent, !.left = @ - Cardinality(page),
                            !.pages = @ + 1, !.pc = IF last THEN "claim" ELSE "read"]
  <1>1. r \in Command /\ r.pc = "read" /\ r.left > 0 /\ stamps \in Seq(Int) /\ Held(r)
    BY DEF CoverInv, DigestInv, Typed, CollectPage
  <1>2. r.left \in Nat \ {0} /\ r.seen \in Nat /\ r.at \in Nat /\ r.pages \in Nat
    BY <1>1 DEF Command
  <1>3. PICK take \in 1..r.left : page = (r.left - take + 1)..r.left /\ Cardinality(page) = take
    BY <1>2, PageRows
  <1>4. sender' = [sender EXCEPT ![s] = q] /\ UNCHANGED <<hour, stamps>>
    BY DEF CollectPage, Sends
  <1>5. /\ q.held = r.held \cup recent /\ q.left = r.left - take /\ q.pages = r.pages + 1
        /\ q.pc = (IF last THEN "claim" ELSE "read") /\ q.at = r.at /\ q.seen = r.seen
    BY <1>1, <1>3 DEF Command
  <1>6. recent = {i \in page : stamps[i] >= r.at - Window}
    BY DEF InWindow
  <1>7. \A i \in 1..r.seen : i > r.left - take /\ stamps[i] >= r.at - Window => i \in r.held \cup recent
    <2> HIDE DEF page, recent, q, last, r
    <2> TAKE i \in 1..r.seen
    <2>1. i > r.left - take => i > r.left \/ i \in page
      BY <1>2, <1>3
    <2>2. i > r.left /\ stamps[i] >= r.at - Window => i \in r.held
      BY <1>1 DEF Held
    <2> QED
      BY <1>6, <2>1, <2>2
  <1>8. last => \/ r.left = take \/ r.pages + 1 = DigestPages
                \/ \E j \in page : ~(stamps[j] >= r.at - Window)
    BY <1>3, <1>6
  <1>9. r.seen <= Len(stamps) /\ r.left <= r.seen /\ Len(stamps) \in Nat
        /\ \A i \in 1..Len(stamps) : stamps[i] \in Int
    BY <1>1 DEF Held
  <1> HIDE DEF q, recent, page, last, r
  <1>10. \/ r.left = take \/ r.pages + 1 = DigestPages \/ q.pc = "read"
         \/ \A i \in 1..r.seen : stamps[i] >= r.at - Window + Lag => i > r.left - take
    <2> SUFFICES ASSUME NEW j \in page, ~(stamps[j] >= r.at - Window),
                        NEW i \in 1..r.seen, stamps[i] >= r.at - Window + Lag
                 PROVE  i > r.left - take
      BY <1>5, <1>8
    <2>1. j \in 1..Len(stamps) /\ i \in 1..Len(stamps) /\ j > r.left - take
      <3>1. j \in (r.left - take + 1)..r.left /\ take \in Nat /\ r.left - take >= 0
        BY <1>2, <1>3
      <3>2. r.left \in Nat /\ r.seen \in Nat /\ r.seen <= Len(stamps) /\ r.left <= r.seen
            /\ Len(stamps) \in Nat
        BY <1>2, <1>9
      <3> QED
        BY <3>1, <3>2
    <2>2. ~(i < j)
      <3>1. i < j => stamps[i] <= stamps[j] + Lag
        BY <2>1 DEF CoverInv, NearlySorted
      <3>2. stamps[i] \in Int /\ stamps[j] \in Int /\ r.at \in Nat /\ Window \in Nat /\ Lag \in Nat
        BY <1>2, <1>9, <2>1
      <3> QED
        BY <3>1, <3>2
    <2> QED
      <3>1. i \in Int /\ j \in Int /\ r.left \in Int /\ take \in Int
        BY <1>2, <2>1
      <3> QED
        BY <2>1, <2>2, <3>1
  <1>11. q.pc = "claim" /\ ~(q.pages = DigestPages /\ q.left > 0) =>
            \A i \in 1..q.seen : stamps[i] >= q.at - Window + Lag => i \in q.held
    <2> SUFFICES ASSUME q.pc = "claim", ~(q.pages = DigestPages /\ q.left > 0),
                        NEW i \in 1..r.seen, stamps[i] >= r.at - Window + Lag
                 PROVE  i \in q.held
      BY <1>5
    <2>1. i > r.left - take
      BY <1>2, <1>5, <1>10
    <2>2. stamps[i] >= r.at - Window
      BY <1>2, <1>9
    <2> QED
      BY <1>5, <1>7, <2>1, <2>2
  <1>12. q.pc \in {"read", "claim"} /\ q.left <= q.seen
    BY <1>2, <1>3, <1>5, <1>9
  <1>13. Held(q)
    BY <1>5, <1>7, <1>9, <1>11, <1>12 DEF Held
  <1> QED
    BY <1>4, <1>13, HeldAlone

\* Every step keeps what the commands hold complete.
LEMMA CoverNext == CoverInv /\ [DigestNext]_digestVars => CoverInv'
  <1> SUFFICES ASSUME CoverInv, [DigestNext]_digestVars PROVE CoverInv'
    OBVIOUS
  <1>0. DigestInv' /\ stamps \in Seq(Int) /\ Len(stamps) \in Nat /\ hour \in Int
    BY InvNext DEF CoverInv, DigestInv, Typed
  <1>1. ASSUME NEW s \in Sender, NEW r, r.pc \notin {"read", "claim"}, Sends(s, r),
               UNCHANGED <<hour, stamps>>
        PROVE  CoverInv'
    BY <1>0, <1>1, HeldAlone DEF Held, Sends
  <1>2. ASSUME NEW s \in Sender, StartDigest(s) PROVE CoverInv'
    <2> DEFINE r == [Ended EXCEPT !.pc = "read", !.at = hour, !.left = Len(stamps), !.seen = Len(stamps)]
    <2>1. r.pc = "read" /\ r.left = Len(stamps) /\ r.seen = Len(stamps)
      BY DEF Ended
    <2>2. sender' = [sender EXCEPT ![s] = r] /\ UNCHANGED <<hour, stamps>>
      BY <1>2 DEF StartDigest, Sends
    <2> HIDE DEF r
    <2>3. Held(r)
      BY <1>0, <2>1 DEF Held
    <2> QED
      BY <1>0, <2>2, <2>3, HeldAlone
  <1>3. ASSUME NEW s \in Sender, CollectNothing(s) PROVE CoverInv'
    <2> DEFINE r == [sender[s] EXCEPT !.pc = "claim"]
    <2>1. /\ sender[s] \in Command /\ sender[s].left = 0 /\ sender[s].pc = "read" /\ Held(sender[s])
          /\ r.pc = "claim" /\ r.held = sender[s].held /\ r.seen = sender[s].seen /\ r.at = sender[s].at
          /\ r.left = sender[s].left
      BY <1>3 DEF CollectNothing, CoverInv, DigestInv, Typed, Command
    <2>2. sender' = [sender EXCEPT ![s] = r] /\ UNCHANGED <<hour, stamps>>
      BY <1>3 DEF CollectNothing, Sends
    <2>3. r.at \in Nat /\ r.seen \in Nat /\ r.seen <= Len(stamps) /\ \A i \in 1..Len(stamps) : stamps[i] \in Int
      BY <1>0, <2>1 DEF Command, Held
    <2> HIDE DEF r
    <2>4. \A i \in 1..r.seen : stamps[i] >= r.at - Window + Lag => i \in r.held
      BY <1>0, <2>1, <2>3 DEF Held
    <2>5. Held(r)
      BY <2>1, <2>3, <2>4 DEF Held
    <2> QED
      BY <1>0, <2>2, <2>5, HeldAlone
  <1>4. ASSUME NEW s \in Sender, ClaimSend(s) \/ SendDigest(s) \/ Settle(s) \/ DigestDies(s)
        PROVE  CoverInv'
    <2>1. sender[s] \in Command /\ Ended.pc = "ended"
      BY DEF CoverInv, DigestInv, Typed, Ended
    <2>2. CASE ClaimSend(s)
      <3>1. [Ended EXCEPT !.pc = "send", !.at = sender[s].at].pc = "send"
        BY DEF Ended
      <3> QED
        BY <1>1, <2>1, <2>2, <3>1 DEF ClaimSend
    <2>3. CASE SendDigest(s)
      <3>1. PICK o \in SmtpOutcomes \cup HttpOutcomes :
                Sends(s, [sender[s] EXCEPT !.pc = "settle", !.verdict = o.verdict])
        BY <2>3 DEF SendDigest
      <3>2. [sender[s] EXCEPT !.pc = "settle", !.verdict = o.verdict].pc = "settle"
        BY <2>1 DEF Command
      <3> QED
        BY <1>1, <2>3, <3>1, <3>2 DEF SendDigest
    <2>4. CASE Settle(s) \/ DigestDies(s)
      BY <1>1, <2>1, <2>4 DEF Settle, DigestDies
    <2> QED
      BY <1>4, <2>2, <2>3, <2>4
  <1>5. ASSUME NEW lag \in 0..Lag, AppendStamp(lag) PROVE CoverInv'
    <2>1. /\ stamps' = Append(stamps, hour - lag) /\ Len(stamps') = Len(stamps) + 1
          /\ stamps'[Len(stamps) + 1] = hour - lag
          /\ \A i \in 1..Len(stamps) : stamps'[i] = stamps[i] /\ stamps[i] \in Int
          /\ UNCHANGED <<hour, sender>>
      BY <1>0, <1>5 DEF AppendStamp
    <2>2. NearlySorted'
      <3>1. \A i \in 1..Len(stamps') : i \in 1..Len(stamps) \/ i = Len(stamps) + 1
        BY <1>0, <2>1
      <3>2. \A i \in 1..Len(stamps') : stamps'[i] <= hour
        BY <1>0, <2>1, <3>1 DEF CoverInv, NearlySorted
      <3>3. ASSUME NEW i \in 1..Len(stamps'), NEW j \in 1..Len(stamps'), i < j
            PROVE  stamps'[i] <= stamps'[j] + Lag
        <4>1. i \in 1..Len(stamps)
          BY <1>0, <2>1, <3>3
        <4>2. CASE j \in 1..Len(stamps)
          BY <2>1, <3>3, <4>1, <4>2 DEF CoverInv, NearlySorted
        <4>3. CASE j = Len(stamps) + 1
          BY <1>0, <2>1, <3>2, <4>1, <4>3
        <4> QED
          BY <3>1, <4>2, <4>3
      <3> QED
        BY <2>1, <3>2, <3>3 DEF NearlySorted
    <2>3. ASSUME NEW s \in Sender PROVE Held(sender[s])'
      <3>1. Held(sender[s]) /\ sender[s] \in Command
        BY DEF CoverInv, DigestInv, Typed
      <3>2. sender[s].seen \in Nat /\ sender[s].left \in Nat /\ sender[s].at \in Nat
        BY <3>1 DEF Command
      <3>3. \A i \in 1..sender[s].seen : sender[s].seen <= Len(stamps) => stamps'[i] = stamps[i]
        BY <1>0, <2>1, <3>2
      <3> QED
        BY <1>0, <2>1, <3>1, <3>2, <3>3 DEF Held
    <2> QED
      BY <1>0, <2>2, <2>3 DEF CoverInv
  <1>6. CASE HourPasses \/ MarkerDamaged \/ ResetMarker \/ UNCHANGED digestVars
    <2>1. UNCHANGED <<stamps, sender>> /\ hour' \in {hour, hour + 1}
      BY <1>6 DEF HourPasses, MarkerDamaged, ResetMarker, digestVars
    <2>2. NearlySorted'
      BY <1>0, <2>1 DEF CoverInv, NearlySorted
    <2> QED
      BY <1>0, <2>1, <2>2 DEF CoverInv, Held
  <1> QED
    BY <1>0, <1>2, <1>3, <1>4, <1>5, <1>6, PageCovers DEF DigestNext

\* A digest holds every row of its day that stood on the chain when its command
\* began, but for the lag and the page bound, for any growth of the chain
\* beside the read, any page size and any number of commands.
THEOREM DigestsCover == DigestSpec => []DigestCovers
  <1>1. DigestInit => CoverInv
    BY InvInit DEF DigestInit, CoverInv, NearlySorted, Held, Ended
  <1>2. CoverInv => DigestCovers
    BY DEF CoverInv, Held, DigestCovers
  <1> QED
    BY <1>1, <1>2, CoverNext, PTL DEF DigestSpec

-----------------------------------------------------------------------------

(* The suite of the four runs one of them and leaves the others alone.     *)
LEMMA SurfaceRefines == SurfaceSpec => Spec /\ SwapSpec /\ TransportSpec /\ DigestSpec
<1>1. SurfaceInit => Init /\ SwapInit /\ TransportInit /\ DigestInit
  BY DEF SurfaceInit
<1>2. [SurfaceNext]_<<part, vars, swapVars, rpcVars, digestVars>> =>
        [Next]_vars /\ [SwapNext]_swapVars /\ [TransportNext]_rpcVars /\ [DigestNext]_digestVars
  BY DEF SurfaceNext
<1> QED
  BY <1>1, <1>2, PTL DEF SurfaceSpec, Spec, SwapSpec, TransportSpec, DigestSpec

(* MCSurfaces, SurfaceTypeOK: the swap command, the transport and the      *)
(* digest keep their types beside the deliveries.                          *)
THEOREM SurfacesTyped == SurfaceSpec => []SurfaceTypeOK
<1>1. SwapTypeOK /\ TransportTypeOK /\ DigestTypeOK => SurfaceTypeOK
  BY DEF SurfaceTypeOK
<1> QED
  BY <1>1, SurfaceRefines, SwapTypes, TransportTyped, DigestTyped, PTL
=============================================================================
