-------------------------- MODULE RateLimiterProofs --------------------------
(***************************************************************************)
(* Proofs about module RateLimiter for any number of identities, any burst *)
(* and refill, and an unbounded clock (MaxTime is arbitrary).              *)
(*                                                                         *)
(* The argument rests on one fact: a bucket gcLocked may forget is full.   *)
(* The code looks at Refilled, after the sweep; the properties speak of    *)
(* Level, before it.  The fact makes the two equal, and an Allow changes   *)
(* the level of its own key only.                                          *)
(***************************************************************************)
EXTENDS RateLimiter, TLAPS

\* While the client of k waits, its bucket will hold a token when it comes back.
DueInv ==
  \A k \in Keys :
    due[k] # NoHint /\ k \in known => tokens[k] + (due[k] - lastSeen[k]) >= Refill

IInv == TypeOK /\ RateBound /\ DueInv

\* The capacity in units is a number, holds at least one token, and flows in
\* within maxIdle.
LEMMA FullFacts ==
  /\ Full \in Nat /\ Refill \in Nat \ {0} /\ MaxIdle \in Nat
  /\ Full >= Refill /\ MaxIdle >= Full
<1>1. \A b, r \in Nat \ {0} : b * r \in Nat /\ b * r >= r
  <2> SUFFICES ASSUME NEW b \in Nat \ {0}, NEW r \in Nat \ {0}
               PROVE  b * r \in Nat /\ b * r >= r
    OBVIOUS
  <2>1. b * r = (b - 1) * r + r
    BY SMT
  <2>2. (b - 1) \in Nat /\ (b - 1) * r \in Nat
    BY SMT
  <2> QED  BY <2>1, <2>2, SMT
<1> QED  BY <1>1, RateLimiterAssumption DEF Full

\* A bucket that the sweep forgets was full, so forgetting changes no level.
LEMMA SweepHarmless ==
  ASSUME TypeOK, NEW k \in Keys
  PROVE  /\ Swept \subseteq known
         /\ k \in known /\ k \notin Swept => Level(k) = Full
         /\ Refilled(k) = Level(k)
         /\ Level(k) \in 0 .. Full
<1>1. Swept \subseteq known
  BY DEF Swept
<1>2. tokens[k] \in 0 .. Full /\ lastSeen[k] \in Nat /\ lastSeen[k] <= now /\ now \in Nat
  BY DEF TypeOK
<1>3. ASSUME k \in known, k \notin Swept
      PROVE  tokens[k] + (now - lastSeen[k]) > Full
  <2>1. now - lastSeen[k] > MaxIdle
    BY <1>2, <1>3, FullFacts DEF Swept
  <2> QED  BY <1>2, <2>1, FullFacts
<1>4. k \in known /\ k \notin Swept => Level(k) = Full
  BY <1>3 DEF Level
<1>5. Refilled(k) = Level(k)
  BY <1>1, <1>3 DEF Refilled, Level
<1>6. Level(k) \in 0 .. Full
  BY <1>2, FullFacts DEF Level
<1> QED  BY <1>1, <1>4, <1>5, <1>6

\* What Allow(k) does to the levels: its own loses a token if there is one,
\* no other moves, even when the sweep forgets buckets.
LEMMA AllowLevels ==
  ASSUME TypeOK, NEW k \in Keys, Allow(k), NEW j \in Keys
  PROVE  Level(j)' = IF j = k /\ Level(k) >= Refill THEN Level(k) - Refill ELSE Level(j)
<1> USE FullFacts
<1>1. tokens[j] \in 0 .. Full /\ lastSeen[j] \in Nat /\ lastSeen[j] <= now /\ now \in Nat
  BY DEF TypeOK
<1>2. /\ Refilled(k) = Level(k) /\ Level(k) \in 0 .. Full
      /\ Level(j) \in 0 .. Full
      /\ j \in known /\ j \notin Swept => Level(j) = Full
      /\ Swept \subseteq known
  BY SweepHarmless
<1>3. /\ known' = Swept \cup {k} /\ now' = now
      /\ tokens' = [tokens EXCEPT ![k] = IF Level(k) >= Refill THEN Level(k) - Refill ELSE Level(k)]
      /\ lastSeen' = [lastSeen EXCEPT ![k] = now]
  BY <1>2 DEF Allow
<1>4. DOMAIN tokens = Keys /\ DOMAIN lastSeen = Keys
  BY DEF TypeOK
<1>5. CASE j = k
  <2>1. tokens'[j] = (IF Level(k) >= Refill THEN Level(k) - Refill ELSE Level(k))
        /\ lastSeen'[j] = now /\ j \in known'
    BY <1>3, <1>4, <1>5
  <2>2. tokens'[j] \in 0 .. Full
    BY <2>1, <1>2
  <2>3. Level(j)' = tokens'[j]
    BY <2>1, <2>2, <1>3, <1>1 DEF Level
  <2> QED  BY <2>1, <2>3, <1>5
<1>6. CASE j # k
  <2>1. tokens'[j] = tokens[j] /\ lastSeen'[j] = lastSeen[j] /\ (j \in known' <=> j \in Swept)
    BY <1>3, <1>4, <1>6
  <2>2. CASE j \in Swept
    BY <2>1, <2>2, <1>2, <1>3, <1>6 DEF Level
  <2>3. CASE j \notin Swept
    <3>1. Level(j)' = Full
      BY <2>1, <2>3 DEF Level
    <3>2. Level(j) = Full
      BY <2>3, <1>2 DEF Level
    <3> QED  BY <3>1, <3>2, <1>6
  <2> QED  BY <2>2, <2>3
<1> QED  BY <1>5, <1>6

\* A tick lets one unit flow into every bucket that is not full.
LEMMA TickLevels ==
  ASSUME TypeOK, Tick, NEW j \in Keys
  PROVE  Level(j)' = IF Level(j) < Full THEN Level(j) + 1 ELSE Full
<1> USE FullFacts
<1>1. tokens[j] \in 0 .. Full /\ lastSeen[j] \in Nat /\ lastSeen[j] <= now /\ now \in Nat
  BY DEF TypeOK
<1>2. now' = now + 1 /\ known' = known /\ tokens' = tokens /\ lastSeen' = lastSeen
  BY DEF Tick, limiterVars
<1>3. CASE j \in known
  BY <1>1, <1>2, <1>3 DEF Level
<1>4. CASE j \notin known
  BY <1>1, <1>2, <1>4 DEF Level
<1> QED  BY <1>3, <1>4

\* Steps that leave clock and buckets alone leave the levels alone.
LEMMA FrameLevels ==
  ASSUME UNCHANGED <<now, known, tokens, lastSeen>>, NEW j \in Keys
  PROVE  Level(j)' = Level(j)
BY DEF Level

\* The wait RetryAfter answers is a number, also after rounding.
LEMMA WaitTypes ==
  ASSUME TypeOK, NEW k \in Keys
  PROVE  RetryWait(k) \in Nat /\ HeaderWait(RetryWait(k)) \in Nat
<1>1. tokens[k] \in 0 .. Full
  BY DEF TypeOK
<1>2. RetryWait(k) \in Nat
  BY <1>1, FullFacts DEF RetryWait
<1>3. \A d \in Nat, s \in Nat \ {0} : ((d + (s \div 2)) \div s) * s \in Nat
  <2> SUFFICES ASSUME NEW d \in Nat, NEW s \in Nat \ {0}
               PROVE  ((d + (s \div 2)) \div s) * s \in Nat
    OBVIOUS
  <2>1. s \div 2 \in Nat
    BY SMT
  <2> DEFINE n == d + (s \div 2)
  <2>2. n \in Nat
    BY <2>1
  <2> HIDE DEF n
  <2>3. n \div s \in Nat
    BY <2>2, SMT
  <2>4. \A q \in Nat : q * s \in Nat
    BY SMT
  <2> QED  BY <2>3, <2>4 DEF n
<1> QED  BY <1>2, <1>3, RateLimiterAssumption DEF HeaderWait

-----------------------------------------------------------------------------
(* The invariant.                                                          *)

\* Initially nobody has a bucket.
LEMMA InitIInv == Init => IInv
<1> SUFFICES ASSUME Init PROVE IInv
  OBVIOUS
<1>1. TypeOK
  BY FullFacts DEF Init, TypeOK
<1>2. RateBound
  <2>1. \A k \in Keys : Level(k) = Full /\ spent[k] = 0
    BY DEF Init, Level
  <2>2. now = 0
    BY DEF Init
  <2>3. \A x \in Nat : 0 + x <= x + 0
    OBVIOUS
  <2>4. ASSUME NEW k \in Keys PROVE spent[k] + Level(k) <= Full + now
    BY <2>1, <2>2, <2>3, FullFacts
  <2> QED  BY <2>4 DEF RateBound
<1>3. DueInv
  BY DEF Init, DueInv
<1> QED  BY <1>1, <1>2, <1>3 DEF IInv

\* Allow preserves the invariant: what it takes out of a level it adds to
\* what was spent.
LEMMA AllowStep ==
  ASSUME IInv, NEW k \in Keys, Allow(k)
  PROVE  IInv'
<1> USE FullFacts
<1>1. TypeOK
  BY DEF IInv
<1>2. Refilled(k) = Level(k) /\ Level(k) \in 0 .. Full /\ Swept \subseteq known
  BY <1>1, SweepHarmless
<1>3. TypeOK'
  <2>1. (IF Refilled(k) >= Refill THEN Refilled(k) - Refill ELSE Refilled(k)) \in 0 .. Full
    BY <1>2
  <2>2. tokens' \in [Keys -> 0 .. Full]
    BY <1>1, <2>1 DEF TypeOK, Allow
  <2>3. lastSeen' \in [Keys -> Nat] /\ \A j \in Keys : lastSeen'[j] <= now'
    BY <1>1 DEF TypeOK, Allow
  <2>4. spent' \in [Keys -> Nat]
    BY <1>1 DEF TypeOK, Allow
  <2>5. known' \subseteq Keys /\ refused' \subseteq Keys /\ now' \in Nat
    BY <1>1, <1>2 DEF TypeOK, Allow
  <2>6. lastSwep' \in Int /\ lastSwep' <= now'
    BY <1>1 DEF TypeOK, Allow
  <2>7. verdict' \in [Keys -> {"none", "allow", "deny"}]
    BY <1>1 DEF TypeOK, Allow
  <2>8. due' \in [Keys -> Nat \cup {NoHint}] /\ dueHeader' \in [Keys -> Nat \cup {NoHint}]
    BY <1>1 DEF TypeOK, Allow
  <2> QED  BY <2>2, <2>3, <2>4, <2>5, <2>6, <2>7, <2>8 DEF TypeOK
<1>4. ASSUME NEW j \in Keys PROVE spent'[j] + Level(j)' <= Full + now'
  <2>1. spent[j] + Level(j) <= Full + now /\ now' = now /\ now \in Nat /\ spent[j] \in Nat
    BY DEF IInv, RateBound, TypeOK, Allow
  <2>2. Level(j)' = IF j = k /\ Level(k) >= Refill THEN Level(k) - Refill ELSE Level(j)
    BY <1>1, AllowLevels
  <2>3. spent'[j] = IF j = k /\ Level(k) >= Refill THEN spent[j] + Refill ELSE spent[j]
    BY <1>1, <1>2 DEF Allow, TypeOK
  <2>4. Level(j) \in 0 .. Full
    BY <1>1, SweepHarmless
  <2> QED  BY <2>1, <2>2, <2>3, <2>4
<1>5. ASSUME NEW j \in Keys, due'[j] # NoHint, j \in known'
      PROVE  tokens'[j] + (due'[j] - lastSeen'[j]) >= Refill
  <2>1. j # k
    BY <1>1, <1>5 DEF Allow, TypeOK
  <2>2. /\ j \in known /\ due'[j] = due[j]
        /\ tokens'[j] = tokens[j] /\ lastSeen'[j] = lastSeen[j]
    BY <1>1, <1>2, <1>5, <2>1 DEF Allow, TypeOK
  <2> QED  BY <2>2, <1>5 DEF IInv, DueInv
<1> QED  BY <1>3, <1>4, <1>5 DEF IInv, RateBound, DueInv

\* RetryAfter preserves the invariant: the wait covers what is missing.
LEMMA RetryStep ==
  ASSUME IInv, NEW k \in Keys, RetryAfter(k)
  PROVE  IInv'
<1> USE FullFacts
<1>1. TypeOK /\ RateBound /\ DueInv
  BY DEF IInv
<1>2. UNCHANGED <<now, known, tokens, lastSeen, lastSwep, verdict, spent, refused>>
  BY DEF RetryAfter, limiterVars
<1>3. RetryWait(k) \in Nat /\ HeaderWait(RetryWait(k)) \in Nat /\ now \in Nat
  BY <1>1, WaitTypes DEF TypeOK
<1>4. TypeOK'
  <2>1. due' \in [Keys -> Nat \cup {NoHint}] /\ dueHeader' \in [Keys -> Nat \cup {NoHint}]
    BY <1>1, <1>3 DEF RetryAfter, TypeOK
  <2> QED  BY <1>1, <1>2, <2>1 DEF TypeOK
<1>5. RateBound'
  <2>1. \A j \in Keys : Level(j)' = Level(j)
    BY <1>2, FrameLevels
  <2> QED  BY <1>1, <1>2, <2>1 DEF RateBound
<1>6. ASSUME NEW j \in Keys, due'[j] # NoHint, j \in known'
      PROVE  tokens'[j] + (due'[j] - lastSeen'[j]) >= Refill
  <2>1. CASE j = k
    <3>1. due'[j] = now + RetryWait(k) /\ k \in known
      BY <1>1, <1>2, <1>6, <2>1 DEF RetryAfter, TypeOK
    <3>2. tokens[k] \in 0 .. Full /\ lastSeen[k] \in Nat /\ lastSeen[k] <= now
      BY <1>1 DEF TypeOK
    <3> QED  BY <1>2, <1>3, <2>1, <3>1, <3>2 DEF RetryWait
  <2>2. CASE j # k
    BY <1>1, <1>2, <1>6, <2>2 DEF RetryAfter, TypeOK, DueInv
  <2> QED  BY <2>1, <2>2
<1> QED  BY <1>4, <1>5, <1>6 DEF IInv, DueInv

\* A tick preserves the invariant: a level grows by at most the unit that
\* the bound grows by.
LEMMA TickStep ==
  ASSUME IInv, Tick
  PROVE  IInv'
<1> USE FullFacts
<1>1. TypeOK /\ RateBound /\ DueInv
  BY DEF IInv
<1>2. now' = now + 1 /\ UNCHANGED <<known, tokens, lastSeen, lastSwep>>
  BY DEF Tick, limiterVars
<1>3. UNCHANGED <<verdict, spent, refused, due, dueHeader>>
  BY DEF Tick, clientVars
<1>4. TypeOK'
  BY <1>1, <1>2, <1>3 DEF TypeOK
<1>5. ASSUME NEW j \in Keys PROVE spent'[j] + Level(j)' <= Full + now'
  <2>1. spent[j] + Level(j) <= Full + now /\ now \in Nat /\ spent[j] \in Nat
    BY <1>1 DEF RateBound, TypeOK
  <2>2. Level(j)' = (IF Level(j) < Full THEN Level(j) + 1 ELSE Full) /\ Level(j) \in 0 .. Full
    BY <1>1, TickLevels, SweepHarmless
  <2> QED  BY <1>2, <1>3, <2>1, <2>2
<1>6. DueInv'
  BY <1>1, <1>2, <1>3 DEF DueInv
<1> QED  BY <1>4, <1>5, <1>6 DEF IInv, RateBound

\* IInv is an invariant of the limiter.
LEMMA SpecIInv == Spec => []IInv
<1>1. IInv /\ [Next]_vars => IInv'
  <2> SUFFICES ASSUME IInv, [Next]_vars PROVE IInv'
    OBVIOUS
  <2>1. CASE Tick
    BY <2>1, TickStep
  <2>2. ASSUME NEW k \in Keys, Allow(k) PROVE IInv'
    BY <2>2, AllowStep
  <2>3. ASSUME NEW k \in Keys, RetryAfter(k) PROVE IInv'
    BY <2>3, RetryStep
  <2>4. CASE UNCHANGED vars
    <3>1. UNCHANGED <<now, known, tokens, lastSeen, lastSwep, verdict, spent, refused, due, dueHeader>>
      BY <2>4 DEF vars, limiterVars, clientVars
    <3> QED  BY <3>1 DEF IInv, TypeOK, RateBound, DueInv, Level
  <2> QED  BY <2>1, <2>2, <2>3, <2>4 DEF Next
<1> QED  BY <1>1, InitIInv, PTL DEF Spec

-----------------------------------------------------------------------------
(* The theorems.                                                           *)

\* No bucket overflows, and every variable has its type, for any number of
\* identities, burst, refill and idle time (Allow and gcLocked).
THEOREM LimiterTypeCorrect == Spec => []TypeOK
<1>1. IInv => TypeOK
  BY DEF IInv
<1> QED  BY <1>1, SpecIInv, PTL

\* No identity ever gets more than the burst plus one call per refill period
\* out of Allow, although idle buckets are forgotten and recreated full.
THEOREM LimiterRateBound == Spec => []RateBound
<1>1. IInv => RateBound
  BY DEF IInv
<1> QED  BY <1>1, SpecIInv, PTL

\* The wait RetryAfter answers is long enough.
THEOREM LimiterRetrySuffices == Spec => []RetryAfterSuffices
<1>1. IInv => RetryAfterSuffices
  <2> SUFFICES ASSUME IInv, NEW k \in Keys, due[k] # NoHint, now >= due[k]
               PROVE  Level(k) >= Refill
    BY DEF RetryAfterSuffices
  <2>1. /\ tokens[k] \in 0 .. Full /\ lastSeen[k] \in Nat /\ now \in Nat
        /\ due[k] \in Nat
    BY DEF IInv, TypeOK
  <2>2. k \in known => tokens[k] + (due[k] - lastSeen[k]) >= Refill
    BY DEF IInv, DueInv
  <2> QED  BY <2>1, <2>2, FullFacts DEF Level
<1> QED  BY <1>1, SpecIInv, PTL

\* The limiter implements the continuously filled, never forgotten buckets of
\* module TokenBucket: lazy refill and gcLocked cannot be observed.
THEOREM LimiterRefinement == Spec => ImplementsTokenBucket
<1> USE FullFacts
<1>1. Init => Bucket!BucketInit
  BY DEF Init, Bucket!BucketInit, Level
<1>2. IInv /\ [Next]_vars => [Bucket!BucketNext]_(Bucket!bucketVars)
  <2> SUFFICES ASSUME IInv, [Next]_vars
               PROVE  [Bucket!BucketNext]_(Bucket!bucketVars)
    OBVIOUS
  <2> DEFINE lv == [k \in Keys |-> Level(k)]
  <2>0. TypeOK
    BY DEF IInv
  <2>1. CASE Tick
    <3>1. \A j \in Keys : Level(j)' = IF Level(j) < Full THEN Level(j) + 1 ELSE Full
      BY <2>0, <2>1, TickLevels
    <3>2. lv' = [k \in Keys |-> IF lv[k] < Full THEN lv[k] + 1 ELSE Full]
      BY <3>1
    <3>3. verdict' = verdict
      BY <2>1 DEF Tick, clientVars
    <3> QED  BY <3>2, <3>3 DEF Bucket!BucketNext, Bucket!Flow
  <2>2. ASSUME NEW k \in Keys, Allow(k) PROVE Bucket!BucketNext
    <3>1. \A j \in Keys :
            Level(j)' = IF j = k /\ Level(k) >= Refill THEN Level(k) - Refill ELSE Level(j)
      BY <2>0, <2>2, AllowLevels
    <3>2. lv' = IF lv[k] >= Refill THEN [lv EXCEPT ![k] = lv[k] - Refill] ELSE lv
      BY <3>1
    <3>3. Refilled(k) = Level(k)
      BY <2>0, SweepHarmless
    <3>4. verdict' = [verdict EXCEPT ![k] = IF lv[k] >= Refill THEN "allow" ELSE "deny"]
      BY <2>2, <3>3 DEF Allow
    <3> QED  BY <3>2, <3>4 DEF Bucket!BucketNext, Bucket!Call
  <2>3. ASSUME NEW k \in Keys, RetryAfter(k) PROVE UNCHANGED <<lv, verdict>>
    <3>1. UNCHANGED <<now, known, tokens, lastSeen, verdict>>
      BY <2>3 DEF RetryAfter, limiterVars
    <3>2. \A j \in Keys : Level(j)' = Level(j)
      BY <3>1, FrameLevels
    <3> QED  BY <3>1, <3>2
  <2>4. CASE UNCHANGED vars
    <3>1. UNCHANGED <<now, known, tokens, lastSeen, verdict>>
      BY <2>4 DEF vars, limiterVars, clientVars
    <3>2. \A j \in Keys : Level(j)' = Level(j)
      BY <3>1, FrameLevels
    <3> QED  BY <3>1, <3>2 DEF Bucket!bucketVars
  <2> QED  BY <2>1, <2>2, <2>3, <2>4 DEF Next, Bucket!bucketVars
<1> QED  BY <1>1, <1>2, SpecIInv, PTL DEF Spec, ImplementsTokenBucket, Bucket!BucketSpec

=============================================================================
