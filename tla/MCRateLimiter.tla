--------------------------- MODULE MCRateLimiter ---------------------------
(* A small instance of RateLimiter for TLC: fifty events a minute, two ticks a second. *)
EXTENDS RateLimiter, TLC

CONSTANTS p1, p2, r1, r2, r3, r4

TwoProjects == {p1, p2}
FourRequests == {r1, r2, r3, r4}

\* Neither projects nor requests are told apart.
Symmetry == Permutations(TwoProjects) \cup Permutations(FourRequests)
=============================================================================
