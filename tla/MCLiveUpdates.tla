--------------------------- MODULE MCLiveUpdates ---------------------------
(* Small instances of LiveUpdates for TLC. *)
EXTENDS LiveUpdates, TLC

Symmetry == Permutations(Checks) \cup Permutations(Workers)
=============================================================================
