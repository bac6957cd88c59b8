----------------------------- MODULE MCAuthChain -----------------------------
(* Model-checking instances of AuthChain.                                  *)
EXTENDS AuthChain, TLC

MCConfigured == Stores

\* Requests are interchangeable, and so are addresses.
Symmetry == Permutations(Requests) \cup Permutations(Addrs)

=============================================================================
