------------------------ MODULE MCConcurrencyLimiter ------------------------
(* ConcurrencyLimiter for TLC. *)
EXTENDS ConcurrencyLimiter, TLC

CallerSymmetry == Permutations(Callers)
=============================================================================
