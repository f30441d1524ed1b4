----------------------------- MODULE MCRateLimits -----------------------------
(***************************************************************************)
(* Small instances of RateLimits for TLC: a few interchangeable requests.  *)
(***************************************************************************)
EXTENDS RateLimits, TLC

Interchangeable == Permutations(Requests)

=============================================================================
