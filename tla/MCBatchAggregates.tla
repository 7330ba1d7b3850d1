------------------------- MODULE MCBatchAggregates -------------------------
(* Small instances of BatchAggregates for TLC. *)
EXTENDS BatchAggregates, TLC

CheckSymmetry == Permutations(Checks)
=============================================================================
