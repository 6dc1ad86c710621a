---------------------------- MODULE MCLpDelivery ----------------------------
(* Instances of LpDelivery for TLC. *)
EXTENDS LpDelivery, TLC

\* Processes are interchangeable; sound for the safety runs only.
ProcSymmetry == Permutations(Proc)
=============================================================================
