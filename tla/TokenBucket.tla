----------------------------- MODULE TokenBucket -----------------------------
(***************************************************************************)
(* What the rate limiter promises: one token bucket per identity, filled   *)
(* continuously and capped at the burst, from which every permitted call   *)
(* takes one token.  Levels are counted in units of 1/Refill of a token,   *)
(* so that one unit flows in per unit of time and a call costs Refill.     *)
(***************************************************************************)
EXTENDS Integers

CONSTANTS Keys, Full, Cost

VARIABLES level, verdict

bucketVars == <<level, verdict>>

BucketInit ==
  /\ level = [k \in Keys |-> Full]
  /\ verdict = [k \in Keys |-> "none"]

\* One unit of time passes.
Flow ==
  /\ level' = [k \in Keys |-> IF level[k] < Full THEN level[k] + 1 ELSE Full]
  /\ UNCHANGED verdict

\* A call is permitted exactly when a whole token is there.
Call(k) ==
  /\ verdict' = [verdict EXCEPT ![k] = IF level[k] >= Cost THEN "allow" ELSE "deny"]
  /\ level' = IF level[k] >= Cost THEN [level EXCEPT ![k] = @ - Cost] ELSE level

BucketNext == Flow \/ \E k \in Keys : Call(k)

BucketSpec == BucketInit /\ [][BucketNext]_bucketVars

=============================================================================
