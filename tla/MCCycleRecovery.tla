--------------------------- MODULE MCCycleRecovery ---------------------------
(* CycleRecovery with what the configurations need.                        *)
EXTENDS CycleRecovery, TLC

SymbolSymmetry == Permutations(Symbols)
=============================================================================
