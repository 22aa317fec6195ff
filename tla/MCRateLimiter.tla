------------------------------ MODULE MCRateLimiter ------------------------------
(* Instance of RateLimiter for TLC: three requests of one caller race for a      *)
(* bucket of one token, which two ticks refill, and some of them give up.        *)
EXTENDS RateLimiter, TLC

Symmetry == Permutations(Requests)
=============================================================================
