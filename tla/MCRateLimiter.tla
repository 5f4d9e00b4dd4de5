----------------------------- MODULE MCRateLimiter -----------------------------
(* RateLimiter for TLC: two addresses, two requests at a time. *)
EXTENDS RateLimiter, TLC

CONSTANTS i1, i2, h1, h2, b1, b2, b3

MCSymmetry == Permutations(IPs) \cup Permutations(Handlers) \cup Permutations(Buckets)
================================================================================
