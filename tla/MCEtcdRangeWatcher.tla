------------------------- MODULE MCEtcdRangeWatcher -------------------------
(* Small instances of EtcdRangeWatcher for TLC. *)
EXTENDS EtcdRangeWatcher, TLC

Symmetry == Permutations(Keys)
=============================================================================
