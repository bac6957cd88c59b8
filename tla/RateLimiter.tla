----------------------------- MODULE RateLimiter -----------------------------
(***************************************************************************)
(* identityRateLimiter (pkg/httpsrv/ratelimit.go), the per-identity token  *)
(* bucket in front of POST /events/{id}/replay, and the Retry-After header *)
(* auditReplay derives from it.                                            *)
(*                                                                         *)
(* Buckets are refilled lazily, when a call looks at them, and forgotten   *)
(* by gcLocked after maxIdle.  Time is counted in units; a bucket's tokens *)
(* are counted in units of 1/Refill of a token (the code's float64 times   *)
(* refill), which makes the refill since lastSeen equal to the time since  *)
(* lastSeen.  Allow and RetryAfter each run under l.mu, so each is one     *)
(* step; the clock is read under the lock and does not go backwards.       *)
(***************************************************************************)
EXTENDS Integers

CONSTANTS
  Keys,      \* the non-empty identity keys; Allow("") permits without a bucket
  Burst,     \* bucket capacity, in tokens (replayBurst)
  Refill,    \* time to gain one token (replayRefill)
  MaxIdle,   \* l.maxIdle
  Second,    \* units of time in a second
  MaxTime,   \* bound: the clock stops there
  NoHint     \* RetryAfter has not been asked since the last Allow

Full == Burst * Refill

\* The production values are 5 tokens, 12 s and 10 min.  That a bucket which
\* gcLocked may forget is full again is what makes forgetting it harmless.
ASSUME RateLimiterAssumption ==
  /\ Burst \in Nat \ {0} /\ Refill \in Nat \ {0}
  /\ MaxIdle \in Nat /\ MaxIdle >= Burst * Refill
  /\ Second \in Nat \ {0}
  /\ MaxTime \in Nat
  /\ NoHint \notin Nat

VARIABLES
  now,       \* l.clock()
  known,     \* the keys that have a bucket in l.buckets
  tokens,    \* tokens[k]: the bucket's tokens, while k is known
  lastSeen,  \* lastSeen[k]: the bucket's lastSeen, while k is known
  lastSwep,  \* l.lastSwep; -MaxIdle stands for the zero time
  verdict,   \* verdict[k]: what the last Allow(k) answered
  spent,     \* history: what Allow has taken from the bucket of k, ever
  refused,   \* the keys some Allow has refused: a handler may ask RetryAfter
  due,       \* due[k]: when the last RetryAfter(k) told k to come back
  dueHeader  \* dueHeader[k]: the same, as the Retry-After header rounds it

limiterVars == <<known, tokens, lastSeen, lastSwep>>
clientVars  == <<verdict, spent, refused, due, dueHeader>>
vars == <<now, limiterVars, clientVars>>

Init ==
  /\ now = 0
  /\ known = {}
  /\ tokens = [k \in Keys |-> 0] /\ lastSeen = [k \in Keys |-> 0]
  /\ lastSwep = -MaxIdle
  /\ verdict = [k \in Keys |-> "none"]
  /\ spent = [k \in Keys |-> 0]
  /\ refused = {}
  /\ due = [k \in Keys |-> NoHint] /\ dueHeader = [k \in Keys |-> NoHint]

Tick ==
  /\ now < MaxTime
  /\ now' = now + 1
  /\ UNCHANGED <<limiterVars, clientVars>>

\* Mutated form of Swept: every bucket not seen in this instant is forgotten.
SweptEarly ==
  IF now - lastSwep < MaxIdle THEN known
  ELSE {k \in known : now - lastSeen[k] < 1}

\* gcLocked: the keys that keep their bucket.
Swept ==
  IF now - lastSwep < MaxIdle THEN known
  ELSE {k \in known : now - lastSeen[k] <= MaxIdle}

\* The bucket's content after the sweep and the lazy refill; a key without a
\* bucket gets a full one.
Refilled(k) ==
  IF k \notin Swept \/ tokens[k] + (now - lastSeen[k]) > Full
  THEN Full
  ELSE tokens[k] + (now - lastSeen[k])

Allow(k) ==
  LET ok == Refilled(k) >= Refill IN
  /\ known' = Swept \cup {k}
  /\ lastSwep' = IF now - lastSwep < MaxIdle THEN lastSwep ELSE now
  /\ tokens' = [tokens EXCEPT ![k] = IF ok THEN Refilled(k) - Refill ELSE Refilled(k)]
  /\ lastSeen' = [lastSeen EXCEPT ![k] = now]
  /\ verdict' = [verdict EXCEPT ![k] = IF ok THEN "allow" ELSE "deny"]
  /\ spent' = IF ok THEN [spent EXCEPT ![k] = @ + Refill] ELSE spent
  /\ refused' = IF ok THEN refused ELSE refused \cup {k}
  /\ due' = [due EXCEPT ![k] = NoHint]
  /\ dueHeader' = [dueHeader EXCEPT ![k] = NoHint]
  /\ UNCHANGED now

\* Mutated form of RetryWait: the wait is measured from an empty bucket's point
\* of view, as if the tokens at hand were what is missing.
RetryWaitSwapped(k) ==
  IF k \notin known \/ tokens[k] >= Refill THEN 0 ELSE tokens[k]

\* RetryAfter: the time until the bucket, as last seen, holds a whole token.
RetryWait(k) ==
  IF k \notin known \/ tokens[k] >= Refill THEN 0 ELSE Refill - tokens[k]

\* retry.Round(time.Second), half away from zero, back in units of time: what
\* the Retry-After header tells the client.
HeaderWait(d) == ((d + (Second \div 2)) \div Second) * Second

\* auditReplay asks for the wait after Allow said no, under a second lock:
\* time, and any other call, may pass in between.
RetryAfter(k) ==
  /\ k \in refused
  /\ due' = [due EXCEPT ![k] = now + RetryWait(k)]
  /\ dueHeader' = [dueHeader EXCEPT ![k] = now + HeaderWait(RetryWait(k))]
  /\ UNCHANGED <<now, limiterVars, verdict, spent, refused>>

Next == Tick \/ \E k \in Keys : Allow(k) \/ RetryAfter(k)

Spec == Init /\ [][Next]_vars

-----------------------------------------------------------------------------
(* Properties.                                                             *)

\* The type of every variable; a bucket never holds more than the burst and
\* was never seen in the future.
TypeOK ==
  /\ now \in Nat
  /\ known \subseteq Keys
  /\ tokens \in [Keys -> 0 .. Full]
  /\ lastSeen \in [Keys -> Nat]
  /\ \A k \in Keys : lastSeen[k] <= now
  /\ lastSwep \in Int /\ lastSwep <= now
  /\ spent \in [Keys -> Nat]
  /\ verdict \in [Keys -> {"none", "allow", "deny"}]
  /\ refused \subseteq Keys
  /\ due \in [Keys -> Nat \cup {NoHint}]
  /\ dueHeader \in [Keys -> Nat \cup {NoHint}]

\* What the bucket of k holds now, if it were looked at.
Level(k) ==
  IF k \notin known \/ tokens[k] + (now - lastSeen[k]) > Full
  THEN Full
  ELSE tokens[k] + (now - lastSeen[k])

\* However calls, sweeps and idle periods interleave, no identity gets more
\* than the burst plus one call per refill period out of the limiter.
RateBound == \A k \in Keys : spent[k] + Level(k) <= Full + now

\* A client that waits as long as RetryAfter said and does not call in the
\* meantime finds a whole token, whatever other identities do meanwhile and
\* however stale the bucket was that RetryAfter looked at.
RetryAfterSuffices ==
  \A k \in Keys : due[k] # NoHint /\ now >= due[k] => Level(k) >= Refill

\* Lazy refilling and forgetting idle buckets cannot be observed: the limiter
\* answers like buckets that fill continuously and are kept forever.
Bucket == INSTANCE TokenBucket WITH
            Cost <- Refill, level <- [k \in Keys |-> Level(k)]

ImplementsTokenBucket == Bucket!BucketSpec

\* What the comment of RetryAfter says of the header: a client that waits the
\* whole seconds of the Retry-After header finds a token.
RetryAfterHeaderSuffices ==
  \A k \in Keys : dueHeader[k] # NoHint /\ now >= dueHeader[k] => Level(k) >= Refill

=============================================================================
