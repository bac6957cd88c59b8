---------------------------- MODULE OIDCValidator ----------------------------
(***************************************************************************)
(* The OIDC validator of pkg/auth/oidc.go with its cache of the identity   *)
(* provider's signing keys.  A token's key is looked up in the cache; when *)
(* it is missing or the cache has expired, all requests share one fetch of *)
(* the provider's keys (singleflight), and when that fails an expired key  *)
(* serves for a grace period.                                              *)
(*                                                                         *)
(* A token is the id of the key that signed it.  Whether it parses, and    *)
(* whether its signature and claims pass, is a choice: those checks keep   *)
(* no state.  SkipSignatureVerification, which looks for no key, is off.   *)
(***************************************************************************)
EXTENDS Integers

CONSTANTS
  Requests,
  Kids,       \* key ids of the provider
  NoKid,
  Ttl,        \* JWKSCacheTTL
  Grace,      \* staleGracePeriod
  FetchMax,   \* the HTTP client's Timeout
  MaxTime     \* bound: how far the clock runs

ASSUME OIDCAssumption ==
  /\ Ttl \in Nat \ {0} /\ Grace \in Nat /\ FetchMax \in Nat \ {0} /\ MaxTime \in Nat
  /\ NoKid \notin Kids

VARIABLES
  now,
  published,  \* the keys in the provider's JWKS
  changed,    \* history: when a key was published or withdrawn last
  keys, expiresAt, staleOK,   \* the cache
  fetch,      \* the flight: its phase, when it began and the keys it was sent
  pc,         \* where a request is in ValidateBearer
  kid,        \* the key its token names
  begin,      \* history: when it came
  cached, stale,   \* what publicKey remembers of the cache while it refreshes
  result

clockVars == <<now, published, changed>>
cacheVars == <<keys, expiresAt, staleOK>>
reqVars   == <<pc, kid, begin, cached, stale, result>>
vars == <<clockVars, cacheVars, fetch, reqVars>>

\* A time before everything.
Never == -(Ttl + Grace + FetchMax + 1)

NoFetch == [phase |-> "none", began |-> 0, sent |-> {}]

\* NewOIDC has fetched the keys before the first request.
Init ==
  /\ now = 0
  /\ published \in SUBSET Kids
  /\ changed = [k \in Kids |-> IF k \in published THEN -FetchMax ELSE Never]
  /\ keys = published /\ expiresAt = Ttl /\ staleOK = Ttl + Grace
  /\ fetch = NoFetch
  /\ pc = [r \in Requests |-> "idle"] /\ kid = [r \in Requests |-> NoKid]
  /\ begin = [r \in Requests |-> 0]
  /\ cached = [r \in Requests |-> FALSE] /\ stale = [r \in Requests |-> 0]
  /\ result = [r \in Requests |-> "none"]

-----------------------------------------------------------------------------
(* The provider and the clock.                                             *)

Publish(k) ==
  /\ k \notin published
  /\ published' = published \cup {k}
  /\ changed' = [changed EXCEPT ![k] = now]
  /\ UNCHANGED <<now, cacheVars, fetch, reqVars>>

Withdraw(k) ==
  /\ k \in published
  /\ published' = published \ {k}
  /\ changed' = [changed EXCEPT ![k] = now]
  /\ UNCHANGED <<now, cacheVars, fetch, reqVars>>

\* A fetch ends within the client's timeout, and a request that was told of a
\* successful one looks at the cache at once.
Tick ==
  /\ now < MaxTime
  /\ fetch.phase # "none" => now - fetch.began < FetchMax
  /\ \A r \in Requests : pc[r] # "refreshed"
  /\ now' = now + 1
  /\ UNCHANGED <<published, changed, cacheVars, fetch, reqVars>>

-----------------------------------------------------------------------------
(* ValidateBearer and publicKey.                                           *)

\* ValidateBearer parses the token and asks for its key.
ValidateBearer(r, k) ==
  /\ pc[r] = "idle"
  /\ pc' = [pc EXCEPT ![r] = "lookup"]
  /\ kid' = [kid EXCEPT ![r] = k]
  /\ begin' = [begin EXCEPT ![r] = now]
  /\ UNCHANGED <<cached, stale, result, clockVars, cacheVars, fetch>>

\* ValidateBearer returns; what it remembered is out of scope.
Return(r, verdict) ==
  /\ pc' = [pc EXCEPT ![r] = "done"]
  /\ result' = [result EXCEPT ![r] = verdict]
  /\ begin' = [begin EXCEPT ![r] = 0]
  /\ cached' = [cached EXCEPT ![r] = FALSE]
  /\ stale' = [stale EXCEPT ![r] = 0]
  /\ UNCHANGED <<kid, clockVars, cacheVars, fetch>>

\* The token is empty or malformed: no key is looked for.
Malformed(r) == pc[r] = "idle" /\ Return(r, "invalid")

\* The key is there: signature, issuer, times, audience and client are checked.
Verify(r) == Return(r, "accepted") \/ Return(r, "invalid")

Fresh(r) == now < expiresAt /\ kid[r] \in keys

\* publicKey, first critical section.
Hit(r) == pc[r] = "lookup" /\ Fresh(r) /\ Verify(r)

\* Mutated form of Miss: a cache that has not expired is complete.
MissBelieved(r) ==
  /\ pc[r] = "lookup" /\ ~Fresh(r)
  /\ pc' = [pc EXCEPT ![r] = IF now < expiresAt THEN "refreshed" ELSE "flight"]
  /\ cached' = [cached EXCEPT ![r] = kid[r] \in keys]
  /\ stale' = [stale EXCEPT ![r] = staleOK]
  /\ UNCHANGED <<kid, begin, result, clockVars, cacheVars, fetch>>

\* An unknown key has the cache refreshed even if it has not expired.
Miss(r) ==
  /\ pc[r] = "lookup" /\ ~Fresh(r)
  /\ pc' = [pc EXCEPT ![r] = "flight"]
  /\ cached' = [cached EXCEPT ![r] = kid[r] \in keys]
  /\ stale' = [stale EXCEPT ![r] = staleOK]
  /\ UNCHANGED <<kid, begin, result, clockVars, cacheVars, fetch>>

\* refresh.Do: begins a fetch, or joins the one that is under way.
Join(r) ==
  /\ pc[r] = "flight"
  /\ pc' = [pc EXCEPT ![r] = "wait"]
  /\ fetch' = IF fetch.phase # "none" THEN fetch
              ELSE [phase |-> "asked", began |-> now, sent |-> {}]
  /\ UNCHANGED <<kid, begin, cached, stale, result, clockVars, cacheVars>>

\* The refresh was successful: publicKey, second critical section.
Refreshed(r) ==
  /\ pc[r] = "refreshed"
  /\ IF kid[r] \in keys THEN Verify(r) ELSE Return(r, "unknown")

\* Mutated form of UsableStale: the grace period of the cache as it is now.
UsableStaleNow(r) == cached[r] /\ now < staleOK

UsableStale(r) == cached[r] /\ now < stale[r]

\* It was not: the key that was in the cache serves until its grace is over.
RefreshFailed(r) ==
  /\ pc[r] = "failed"
  /\ IF UsableStale(r) THEN Verify(r) ELSE Return(r, "outage")

-----------------------------------------------------------------------------
(* refreshJWKS, on behalf of all who wait.                                 *)

\* The provider answers, when it likes.
FetchAnswer ==
  /\ fetch.phase = "asked"
  /\ fetch' = [fetch EXCEPT !.phase = "sent", !.sent = published]
  /\ UNCHANGED <<clockVars, cacheVars, reqVars>>

\* The answer is decoded and replaces the cache.
FetchStore ==
  /\ fetch.phase = "sent"
  /\ keys' = fetch.sent
  /\ expiresAt' = now + Ttl
  /\ staleOK' = now + Ttl + Grace
  /\ fetch' = [fetch EXCEPT !.phase = "stored"]
  /\ UNCHANGED <<clockVars, reqVars>>

\* Mutated form of FetchFail: the client has no timeout.
FetchFailBody ==
  /\ fetch.phase = "sent"
  /\ fetch' = [fetch EXCEPT !.phase = "failed"]
  /\ UNCHANGED <<clockVars, cacheVars, reqVars>>

\* No answer in time, a bad one, or the client whose request began the fetch
\* has gone and its context with it.
FetchFail ==
  /\ fetch.phase \in {"asked", "sent"}
  /\ fetch' = [fetch EXCEPT !.phase = "failed"]
  /\ UNCHANGED <<clockVars, cacheVars, reqVars>>

\* Everyone who waits is told.
Woken(label) == [r \in Requests |-> IF pc[r] = "wait" THEN label ELSE pc[r]]

\* The flight is over.  Until then a request may still join it.
Deliver ==
  /\ fetch.phase \in {"stored", "failed"}
  /\ fetch' = NoFetch
  /\ pc' = Woken(IF fetch.phase = "stored" THEN "refreshed" ELSE "failed")
  /\ UNCHANGED <<kid, begin, cached, stale, result, clockVars, cacheVars>>

Step(r) == Hit(r) \/ Miss(r) \/ Join(r) \/ Refreshed(r) \/ RefreshFailed(r)

Next ==
  \/ \E k \in Kids : Publish(k) \/ Withdraw(k)
  \/ Tick
  \/ \E r \in Requests : Malformed(r) \/ Step(r)
  \/ \E r \in Requests, k \in Kids : ValidateBearer(r, k)
  \/ FetchAnswer \/ FetchStore \/ FetchFail \/ Deliver

Spec == Init /\ [][Next]_vars

\* A request goes on, a fetch runs into its timeout and a flight that is over
\* is delivered; nothing is asked of the provider or the clients.
FairSpec ==
  /\ Spec
  /\ \A r \in Requests : WF_vars(Step(r))
  /\ WF_vars(FetchFail) /\ WF_vars(Deliver)

-----------------------------------------------------------------------------
(* Properties.                                                             *)

Phases == {"none", "asked", "sent", "stored", "failed"}
Labels == {"idle", "lookup", "flight", "wait", "refreshed", "failed", "done"}
Results == {"none", "accepted", "invalid", "unknown", "outage"}

\* The type of every variable; a fetch does not outlast its timeout, and
\* whoever waits in refresh.Do waits for a flight that is in the air.
TypeOK ==
  /\ now \in Nat /\ expiresAt \in Nat /\ staleOK \in Nat
  /\ published \subseteq Kids /\ keys \subseteq Kids /\ changed \in [Kids -> Int]
  /\ fetch \in [phase : Phases, began : Nat, sent : SUBSET Kids]
  /\ fetch.phase # "none" => fetch.began <= now /\ now - fetch.began <= FetchMax
  /\ pc \in [Requests -> Labels] /\ kid \in [Requests -> Kids \cup {NoKid}]
  /\ begin \in [Requests -> Nat]
  /\ cached \in [Requests -> BOOLEAN] /\ stale \in [Requests -> Nat]
  /\ result \in [Requests -> Results]
  /\ \A r \in Requests : pc[r] = "wait" => fetch.phase # "none"

\* The last time a key was published.
LastPublished(k) == IF k \in published THEN now ELSE changed[k]

\* What the comment of staleGracePeriod is about: a key that the provider has
\* withdrawn verifies nothing once the cache's lifetime, the grace period and
\* one fetch have passed, however lookups, fetches and failures interleave.
RevokedKeysExpire ==
  [][\A r \in Requests :
       result'[r] = "accepted" /\ result[r] # "accepted" =>
         now - LastPublished(kid[r]) <= Ttl + Grace + FetchMax]_vars

\* A token is not turned away for want of its key if the key was there all the
\* time: published from before the fetch that the request may have joined
\* began, or, if that fetch failed, from before the last successful one,
\* while the grace period lasts.
RejectionJustified ==
  [][\A r \in Requests :
       /\ result'[r] = "unknown" /\ result[r] # "unknown" =>
            kid[r] \notin published \/ changed[kid[r]] >= begin[r] - FetchMax
       /\ result'[r] = "outage" /\ result[r] # "outage" =>
            \/ kid[r] \notin published \/ now >= stale[r]
            \/ changed[kid[r]] >= stale[r] - Ttl - Grace - FetchMax]_vars

\* Every request is answered, whatever the provider does: nobody waits for a
\* flight that never ends or has gone.
RequestAnswered == \A r \in Requests : pc[r] = "lookup" ~> pc[r] = "done"

=============================================================================
