------------------------------ MODULE MCDurable ------------------------------
(* What outlives a process: the audit store under its writers and readers, *)
(* the cycle's book against the chain, and the pool pins, each on its own. *)
EXTENDS AuditStore, CycleRecovery, PoolPins, TLC

VARIABLE part  \* which of them runs

(* A digest nobody can find a collision for: the content itself.           *)
MCHash(seq, event, prev) == <<seq, event, prev>>

(* The same two processes write rows and resolve pools.                    *)
MCSymmetry == Permutations(Proc \cup User) \cup Permutations(Symbols)

(* Bound: a dry run is under way during the bounded mints but the last.    *)
DryEarly == dry.pc # "off" => pool[MaxTokens] = NoSymbol

DurableInit == StoreInit /\ Init /\ PinInit /\ part \in {"store", "recovery", "pins"}

DurableNext ==
    /\ UNCHANGED part
    /\ \/ part = "store" /\ StoreNext /\ UNCHANGED <<vars, pinVars>>
       \/ part = "recovery" /\ Next /\ DryEarly' /\ UNCHANGED <<storeVars, pinVars>>
       \/ part = "pins" /\ PinNext /\ UNCHANGED <<storeVars, vars>>

(* Every part keeps the types of its variables.                            *)
DurableTypeOK ==
    CASE part = "store"    -> StoreTypeOK
      [] part = "recovery" -> TypeOK
      [] part = "pins"     -> PinTypeOK

DurableSpec == DurableInit /\ [][DurableNext]_<<part, storeVars, vars, pinVars>>
=============================================================================
