--------------------------- MODULE DeliveryLedger ---------------------------
(***************************************************************************)
(* What the delivery layer promises to the rest of the bot, with the       *)
(* processes, the mempool and the relayer left out: every Safe transaction *)
(* the bot puts on the wire ends in at most one fate on chain, and the     *)
(* audit journal's evidence about it only ever moves forward, from nothing *)
(* to a send record to the one outcome the chain really had.               *)
(***************************************************************************)
CONSTANT Delivery    \* records with at least a field nonce

VARIABLES fate,      \* what the chain did with a delivery
          evidence   \* what the audit journal proves about it

vars == <<fate, evidence>>

Fate     == {"none", "success", "reverted"}
Evidence == {"none", "sent", "confirmed", "failed"}

\* The journal's word for a fate the chain has decided.
Verdict(f) == IF f = "success" THEN "confirmed" ELSE "failed"

Init == /\ fate = [d \in Delivery |-> "none"]
        /\ evidence = [d \in Delivery |-> "none"]

\* A Safe nonce is spent at most once.
Land(d) ==
    /\ fate[d] = "none"
    /\ \E f \in {"success", "reverted"} :
          /\ f = "success" =>
                \A e \in Delivery : e.nonce = d.nonce => fate[e] # "success"
          /\ fate' = [fate EXCEPT ![d] = f]
    /\ UNCHANGED evidence

Witness(d) ==
    /\ evidence[d] = "none"
    /\ evidence' = [evidence EXCEPT ![d] = "sent"]
    /\ UNCHANGED fate

Settle(d) ==
    /\ evidence[d] = "sent"
    /\ fate[d] # "none"
    /\ evidence' = [evidence EXCEPT ![d] = Verdict(fate[d])]
    /\ UNCHANGED fate

Next == \E d \in Delivery : Land(d) \/ Witness(d) \/ Settle(d)

SafeSpec == Init /\ [][Next]_vars
Spec     == SafeSpec /\ \A d \in Delivery : WF_vars(Settle(d))
=============================================================================
