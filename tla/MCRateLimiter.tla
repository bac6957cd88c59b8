---------------------------- MODULE MCRateLimiter ----------------------------
(* Model-checking instances of RateLimiter: the identities are alike.      *)
EXTENDS RateLimiter, TLC

KeySymmetry == Permutations(Keys)

=============================================================================
