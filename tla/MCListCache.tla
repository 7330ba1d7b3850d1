---------------------------- MODULE MCListCache ----------------------------
EXTENDS ListCache, TLC

Symmetry == Permutations(Readers) \cup Permutations(Writers)
=============================================================================
