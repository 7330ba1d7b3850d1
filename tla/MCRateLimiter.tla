---------------------------- MODULE MCRateLimiter ----------------------------
(* RateLimiter for TLC. *)
EXTENDS RateLimiter, TLC

CallerSymmetry == Permutations(Callers)
=============================================================================
