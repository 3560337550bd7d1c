----------------------- MODULE MCWatchPredictorSource -----------------------
(* Small instances of WatchPredictorSource for TLC. *)
EXTENDS WatchPredictorSource, TLC

Symmetry == Permutations(Names)
=============================================================================
