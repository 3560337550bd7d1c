------------------------ MODULE MCPredictorReconciler ------------------------
(* Small instances of PredictorReconciler for TLC. *)
EXTENDS PredictorReconciler, TLC

Symmetry == Permutations(Specs \ InvalidSpecs)
==============================================================================
