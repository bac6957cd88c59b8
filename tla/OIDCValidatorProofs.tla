------------------------- MODULE OIDCValidatorProofs -------------------------
(***************************************************************************)
(* Proofs about module OIDCValidator for any number of requests and keys   *)
(* and any lifetimes.                                                      *)
(*                                                                         *)
(* A set of keys mirrors the provider since t if it is what the provider   *)
(* has published at some moment from t on.  Everything the validator acts  *)
(* on is such a mirror: an answer since its fetch began, the cache since   *)
(* FetchMax before it was stored, and what a waiting request remembers     *)
(* since FetchMax before the cache it had looked at was stored.            *)
(***************************************************************************)
EXTENDS OIDCValidator, TLAPS

\* Key k was published (or else missing) at some moment from t on.
MirrorsKey(k, present, t) ==
  IF present THEN LastPublished(k) >= t ELSE k \in published => changed[k] >= t

Mirrors(S, t) == \A k \in Kids : MirrorsKey(k, k \in S, t)

ClockInv ==
  /\ \A k \in Kids : changed[k] <= now
  /\ \A r \in Requests : begin[r] <= now

CacheInv ==
  /\ expiresAt - Ttl <= now /\ staleOK = expiresAt + Grace
  /\ Mirrors(keys, expiresAt - Ttl - FetchMax)

FetchInv ==
  /\ fetch.phase = "sent" => Mirrors(fetch.sent, fetch.began)
  /\ fetch.phase = "stored" => Mirrors(keys, fetch.began)

\* What request r remembers of the cache, or sees of it after a refresh.
ReqInv(r) ==
  /\ pc[r] \notin {"idle", "done"} => kid[r] \in Kids
  /\ pc[r] = "refreshed" => Mirrors(keys, now - FetchMax)
  /\ pc[r] \in {"flight", "wait", "failed"} =>
       /\ stale[r] - Ttl - Grace <= now
       /\ MirrorsKey(kid[r], cached[r], stale[r] - Ttl - Grace - FetchMax)

RequestInv == \A r \in Requests : ReqInv(r)

IInv == TypeOK /\ ClockInv /\ CacheInv /\ FetchInv /\ RequestInv

USE OIDCAssumption DEF NoFetch, Phases, Labels, Results

\* Every step keeps the types; a waiting request has a flight to wait for.
LEMMA TypeStep == IInv /\ [Next]_vars => TypeOK'
<1> SUFFICES ASSUME IInv, [Next]_vars PROVE TypeOK'
  OBVIOUS
<1> USE DEF IInv, TypeOK, clockVars, cacheVars, reqVars
<1>1. ASSUME NEW k \in Kids, Publish(k) PROVE TypeOK'  BY <1>1 DEF Publish
<1>2. ASSUME NEW k \in Kids, Withdraw(k) PROVE TypeOK'  BY <1>2 DEF Withdraw
<1>3. CASE Tick  BY <1>3 DEF Tick
<1>4. ASSUME NEW r \in Requests, NEW v \in Results, pc[r] # "done", Return(r, v) PROVE TypeOK'
  BY <1>4 DEF Return
<1>5. ASSUME NEW r \in Requests, NEW k \in Kids, ValidateBearer(r, k) PROVE TypeOK'
  BY <1>5 DEF ValidateBearer
<1>6. ASSUME NEW r \in Requests, Miss(r) PROVE TypeOK'  BY <1>6 DEF Miss
<1>7. ASSUME NEW r \in Requests, Join(r) PROVE TypeOK'  BY <1>7 DEF Join
<1>8. CASE FetchAnswer  BY <1>8 DEF FetchAnswer
<1>9. CASE FetchStore  BY <1>9 DEF FetchStore
<1>10. CASE FetchFail  BY <1>10 DEF FetchFail
<1>11. CASE Deliver  BY <1>11 DEF Deliver, Woken
<1>12. CASE UNCHANGED vars  BY <1>12 DEF vars
<1>13. ASSUME NEW r \in Requests, Malformed(r) \/ Hit(r) \/ Refreshed(r) \/ RefreshFailed(r)
       PROVE  TypeOK'
  BY <1>4, <1>13 DEF Malformed, Hit, Refreshed, RefreshFailed, Verify
<1> QED
  BY <1>1, <1>2, <1>3, <1>5, <1>6, <1>7, <1>8, <1>9, <1>10, <1>11, <1>12, <1>13
  DEF Next, Step

\* The clock and the provider change in three ways.
LEMMA ClockStep ==
  ASSUME TypeOK, [Next]_vars
  PROVE  \/ UNCHANGED clockVars
         \/ now' = now + 1 /\ UNCHANGED <<published, changed>>
         \/ \E k \in Kids : /\ now' = now /\ changed' = [changed EXCEPT ![k] = now]
                            /\ published' \ {k} = published \ {k}
BY DEF Next, Step, Publish, Withdraw, Tick, Malformed, ValidateBearer, Hit, Miss, Join, Refreshed,
       RefreshFailed, Verify, Return, FetchAnswer, FetchStore, FetchFail, Deliver, vars, clockVars,
       TypeOK

\* What was a mirror since t remains one: the moment of the last publication
\* only moves on, and what is published has been, or is published now.
LEMMA ProviderStep ==
  ASSUME TypeOK, ClockInv, [Next]_vars, NEW k \in Kids
  PROVE  /\ LastPublished(k) \in Int /\ LastPublished(k)' \in Int
         /\ LastPublished(k)' >= LastPublished(k)
         /\ changed'[k] \in Int
         /\ k \in published' =>
              changed'[k] = now \/ (k \in published /\ changed'[k] = changed[k])
<1> USE DEF TypeOK, ClockInv, LastPublished
<1>1. CASE UNCHANGED clockVars  BY <1>1 DEF clockVars
<1>2. CASE now' = now + 1 /\ UNCHANGED <<published, changed>>  BY <1>2
<1>3. CASE \E j \in Kids : /\ now' = now /\ changed' = [changed EXCEPT ![j] = now]
                          /\ published' \ {j} = published \ {j}
  <2> PICK j \in Kids : /\ now' = now /\ changed' = [changed EXCEPT ![j] = now]
                       /\ published' \ {j} = published \ {j}
    BY <1>3
  <2>1. CASE j = k  BY <2>1
  <2>2. CASE j # k
    <3>1. changed'[k] = changed[k] /\ (k \in published' <=> k \in published)
      BY <2>2
    <3> QED  BY <3>1
  <2> QED  BY <2>1, <2>2
<1> QED  BY <1>1, <1>2, <1>3, ClockStep

\* A mirror since t is one since any earlier moment.
LEMMA MirrorsEarlier ==
  ASSUME TypeOK, NEW S, NEW t \in Int, NEW u \in Int, u <= t, Mirrors(S, t)
  PROVE  Mirrors(S, u)
BY DEF TypeOK, Mirrors, MirrorsKey, LastPublished

\* The histories are not ahead of the clock.
LEMMA ClockInvStep == IInv /\ [Next]_vars => ClockInv'
<1> SUFFICES ASSUME IInv, [Next]_vars PROVE ClockInv'
  OBVIOUS
<1> USE DEF IInv, TypeOK
<1>1. now' >= now /\ \A k \in Kids : changed'[k] <= now'
  BY ClockStep DEF ClockInv, clockVars
<1>2. \A r \in Requests : begin'[r] \in {0, begin[r], now}
  BY DEF Next, Step, Publish, Withdraw, Tick, Malformed, ValidateBearer, Hit, Miss, Join, Refreshed,
         RefreshFailed, Verify, Return, FetchAnswer, FetchStore, FetchFail, Deliver, vars, reqVars
<1>3. now' \in Nat
  BY TypeStep
<1> QED  BY <1>1, <1>2, <1>3 DEF ClockInv

\* The answer of a fetch and the cache are mirrors.
LEMMA CacheStep == IInv /\ [Next]_vars => CacheInv' /\ FetchInv'
<1> SUFFICES ASSUME IInv, [Next]_vars PROVE CacheInv' /\ FetchInv'
  OBVIOUS
<1> USE ProviderStep DEF IInv, Mirrors, MirrorsKey
<1>t. TypeOK /\ TypeOK' /\ now' >= now /\ ClockInv'
  <2>1. now' >= now
    BY ClockStep DEF TypeOK, clockVars
  <2> QED  BY <2>1, TypeStep, ClockInvStep
<1>1. CASE UNCHANGED <<cacheVars, fetch>>
  BY <1>1, <1>t DEF TypeOK, CacheInv, FetchInv, cacheVars
<1>2. CASE \E r \in Requests : Join(r)
  <2>1. /\ UNCHANGED <<cacheVars, clockVars>>
        /\ UNCHANGED fetch \/ fetch'.phase = "asked"
    BY <1>2 DEF Join
  <2> QED  BY <1>1, <1>t, <2>1 DEF TypeOK, CacheInv, FetchInv, cacheVars
<1>3. CASE FetchAnswer
  <2>1. /\ UNCHANGED <<cacheVars, clockVars>>
        /\ fetch'.phase = "sent" /\ fetch'.sent = published /\ fetch'.began <= now
    BY <1>3 DEF FetchAnswer, TypeOK
  <2>2. CacheInv'
    BY <1>t, <2>1 DEF TypeOK, CacheInv, cacheVars
  <2>3. FetchInv'
    BY <1>t, <2>1 DEF FetchInv, TypeOK, clockVars, LastPublished
  <2> QED  BY <2>2, <2>3
<1>4. CASE FetchStore
  <2>1. /\ UNCHANGED clockVars /\ keys' = fetch.sent
        /\ expiresAt' = now + Ttl /\ staleOK' = now + Ttl + Grace
        /\ fetch.phase = "sent" /\ fetch'.phase = "stored" /\ fetch'.began = fetch.began
        /\ now - fetch.began <= FetchMax
    BY <1>4 DEF FetchStore, TypeOK
  <2>2. FetchInv'
    BY <1>t, <2>1 DEF FetchInv, TypeOK, clockVars
  <2>3. CacheInv'
    BY <1>t, <2>1 DEF FetchInv, CacheInv, TypeOK, clockVars
  <2> QED  BY <2>2, <2>3
<1>5. CASE FetchFail \/ Deliver
  <2>1. UNCHANGED <<cacheVars, clockVars>> /\ fetch'.phase \in {"failed", "none"}
    BY <1>5 DEF FetchFail, Deliver, TypeOK
  <2> QED  BY <1>t, <2>1 DEF TypeOK, CacheInv, FetchInv, cacheVars
<1>6. ~FetchAnswer /\ ~FetchStore /\ ~FetchFail /\ ~Deliver /\ ~(\E r \in Requests : Join(r))
        => UNCHANGED <<cacheVars, fetch>>
  BY DEF Next, Step, Publish, Withdraw, Tick, Malformed, ValidateBearer, Hit, Miss, Refreshed,
         RefreshFailed, Verify, Return, vars
<1> QED  BY <1>1, <1>2, <1>3, <1>4, <1>5, <1>6

\* A request keeps its mirror while others move, and gets one when it looks at
\* the cache and when its flight comes back.
LEMMA RequestStep == IInv /\ [Next]_vars => RequestInv'
<1> SUFFICES ASSUME IInv, [Next]_vars, NEW r \in Requests PROVE ReqInv(r)'
  BY DEF RequestInv
<1> USE ProviderStep DEF IInv, Mirrors, MirrorsKey
<1>t. TypeOK /\ TypeOK' /\ now' >= now /\ ClockInv' /\ CacheInv' /\ FetchInv'
  <2>1. now' >= now
    BY ClockStep DEF TypeOK, clockVars
  <2> QED  BY <2>1, TypeStep, ClockInvStep, CacheStep
<1>r. ReqInv(r)
  BY DEF RequestInv
\* Request r stands still and sees what it saw.
<1>1. CASE /\ pc'[r] = pc[r] /\ kid'[r] = kid[r] /\ cached'[r] = cached[r] /\ stale'[r] = stale[r]
           /\ pc[r] = "refreshed" => keys' = keys /\ now' = now
  BY <1>1, <1>t, <1>r DEF TypeOK, ReqInv
<1>2. CASE pc'[r] \in {"idle", "done"}
  BY <1>2 DEF ReqInv
<1>3. CASE \E k \in Kids : ValidateBearer(r, k)
  BY <1>3 DEF ValidateBearer, TypeOK, ReqInv
<1>4. CASE Miss(r)
  <2>1. /\ pc[r] = "lookup" /\ pc'[r] = "flight" /\ kid' = kid /\ cached'[r] = (kid[r] \in keys)
        /\ stale'[r] = staleOK /\ UNCHANGED clockVars /\ kid[r] \in Kids
    BY <1>4, <1>r DEF Miss, TypeOK, ReqInv
  <2>2. staleOK - Ttl - Grace = expiresAt - Ttl
    BY DEF CacheInv, TypeOK
  <2> QED  BY <1>t, <2>1, <2>2 DEF CacheInv, TypeOK, ReqInv, clockVars
<1>5. CASE Join(r)
  <2>1. /\ pc[r] = "flight" /\ pc'[r] = "wait"
        /\ UNCHANGED <<clockVars, kid, cached, stale>>
    BY <1>5 DEF Join, TypeOK
  <2> QED  BY <1>t, <1>r, <2>1 DEF TypeOK, ReqInv, clockVars
<1>6. CASE FetchStore
  <2>1. /\ UNCHANGED reqVars /\ UNCHANGED clockVars /\ keys' = fetch.sent
        /\ fetch.phase = "sent" /\ now - fetch.began <= FetchMax
    BY <1>6 DEF FetchStore, TypeOK
  <2>2. pc[r] = "refreshed" => Mirrors(keys, now - FetchMax)'
    BY <1>t, <2>1 DEF FetchInv, TypeOK, clockVars
  <2> QED  BY <1>t, <1>r, <2>1, <2>2 DEF TypeOK, ReqInv, reqVars, clockVars
<1>7. CASE Deliver /\ pc[r] = "wait"
  <2>1. /\ UNCHANGED <<kid, cached, stale, clockVars, keys>>
        /\ pc'[r] \in {"refreshed", "failed"}
        /\ pc'[r] = "refreshed" => fetch.phase = "stored"
        /\ fetch.phase = "stored" => now - fetch.began <= FetchMax
    BY <1>7 DEF Deliver, Woken, TypeOK, cacheVars
  <2>2. pc'[r] = "refreshed" => Mirrors(keys, now - FetchMax)'
    BY <1>t, <2>1 DEF FetchInv, TypeOK, clockVars
  <2>3. pc[r] = "wait" /\ kid[r] \in Kids
    BY <1>7, <1>r DEF ReqInv
  <2> QED  BY <1>t, <1>r, <2>1, <2>2, <2>3 DEF TypeOK, ReqInv, clockVars
<1>8. CASE Tick
  <2>1. UNCHANGED <<reqVars, keys>> /\ pc[r] # "refreshed"
    BY <1>8 DEF Tick, cacheVars
  <2> QED  BY <1>1, <2>1 DEF reqVars
<1>9. ASSUME NEW s \in Requests, NEW v \in Results, Return(s, v) PROVE ReqInv(r)'
  <2>1. CASE s = r  BY <1>2, <1>9, <2>1 DEF Return, TypeOK
  <2>2. CASE s # r  BY <1>1, <1>9, <2>2 DEF Return, TypeOK, cacheVars, clockVars
  <2> QED  BY <2>1, <2>2
<1>10. ASSUME NEW s \in Requests,
              Malformed(s) \/ Hit(s) \/ Refreshed(s) \/ RefreshFailed(s)
       PROVE  ReqInv(r)'
  BY <1>9, <1>10 DEF Malformed, Hit, Refreshed, RefreshFailed, Verify
<1>11. ASSUME NEW s \in Requests, s # r,
              Miss(s) \/ Join(s) \/ \E k \in Kids : ValidateBearer(s, k)
       PROVE  ReqInv(r)'
  BY <1>1, <1>11 DEF Miss, Join, ValidateBearer, TypeOK, cacheVars, clockVars
<1>12. CASE Deliver /\ pc[r] # "wait"
  BY <1>1, <1>12 DEF Deliver, Woken, TypeOK, cacheVars, clockVars
<1>13. CASE \/ FetchAnswer \/ FetchFail \/ UNCHANGED vars
            \/ \E k \in Kids : Publish(k) \/ Withdraw(k)
  BY <1>1, <1>13 DEF FetchAnswer, FetchFail, Publish, Withdraw, vars, reqVars, cacheVars, clockVars
<1> QED
  BY <1>3, <1>4, <1>5, <1>6, <1>7, <1>8, <1>10, <1>11, <1>12, <1>13 DEF Next, Step

\* The inductive invariant.
THEOREM OIDCInvariant == Spec => []IInv
<1>1. Init => IInv
  <2>1. Init => TypeOK /\ ClockInv /\ FetchInv /\ RequestInv
    BY DEF Init, TypeOK, ClockInv, FetchInv, RequestInv, ReqInv, Never
  <2>2. Init => CacheInv
    BY DEF Init, CacheInv, Mirrors, MirrorsKey, LastPublished, Never
  <2> QED  BY <2>1, <2>2 DEF IInv
<1>2. IInv /\ [Next]_vars => IInv'
  BY TypeStep, ClockInvStep, CacheStep, RequestStep DEF IInv
<1> QED  BY <1>1, <1>2, PTL DEF Spec

\* Fetches end in time, and nobody waits for a flight that has gone.
THEOREM OIDCTypeCorrect == Spec => []TypeOK
<1>1. IInv => TypeOK
  BY DEF IInv
<1> QED  BY <1>1, OIDCInvariant, PTL

\* A request returns from one of four places.
LEMMA Answers ==
  ASSUME TypeOK, Next, NEW r \in Requests, result'[r] # result[r]
  PROVE  \/ result'[r] = "invalid"
         \/ pc[r] = "lookup" /\ Fresh(r) /\ result'[r] = "accepted"
         \/ pc[r] = "refreshed" /\ result'[r] = IF kid[r] \in keys THEN "accepted" ELSE "unknown"
         \/ pc[r] = "failed" /\ result'[r] = IF UsableStale(r) THEN "accepted" ELSE "outage"
<1>1. PICK s \in Requests : Malformed(s) \/ Hit(s) \/ Refreshed(s) \/ RefreshFailed(s)
  BY DEF Next, Step, Publish, Withdraw, Tick, ValidateBearer, Miss, Join, FetchAnswer, FetchStore,
         FetchFail, Deliver, reqVars
<1>2. s = r
  BY <1>1 DEF Malformed, Hit, Refreshed, RefreshFailed, Verify, Return, TypeOK
<1> QED
  BY <1>1, <1>2 DEF Malformed, Hit, Refreshed, RefreshFailed, Verify, Return, TypeOK

\* A withdrawn key verifies nothing after lifetime, grace period and one fetch.
THEOREM RevocationReachesCache == Spec => RevokedKeysExpire
<1> DEFINE A == \A r \in Requests :
                  result'[r] = "accepted" /\ result[r] # "accepted" =>
                    now - LastPublished(kid[r]) <= Ttl + Grace + FetchMax
<1>1. IInv /\ [Next]_vars => [A]_vars
  <2> SUFFICES ASSUME IInv, Next, NEW r \in Requests,
                      result'[r] = "accepted", result[r] # "accepted"
               PROVE  now - LastPublished(kid[r]) <= Ttl + Grace + FetchMax
    OBVIOUS
  <2> USE DEF IInv
  <2>1. \A k \in Kids : LastPublished(k) \in Int
    BY DEF TypeOK, LastPublished
  <2>2. CASE pc[r] = "lookup" /\ Fresh(r)
    BY <2>1, <2>2 DEF Fresh, TypeOK, CacheInv, Mirrors, MirrorsKey, RequestInv, ReqInv
  <2>3. CASE pc[r] = "refreshed" /\ kid[r] \in keys
    BY <2>1, <2>3 DEF TypeOK, Mirrors, MirrorsKey, RequestInv, ReqInv
  <2>4. CASE pc[r] = "failed" /\ UsableStale(r)
    BY <2>1, <2>4 DEF UsableStale, TypeOK, MirrorsKey, RequestInv, ReqInv
  <2> QED  BY <2>2, <2>3, <2>4, Answers
<1> QED  BY <1>1, OIDCInvariant, PTL DEF Spec, RevokedKeysExpire

\* A token is turned away for want of its key only if the key was not there.
THEOREM RejectionsJustified == Spec => RejectionJustified
<1> DEFINE A == \A r \in Requests :
       /\ result'[r] = "unknown" /\ result[r] # "unknown" =>
            kid[r] \notin published \/ changed[kid[r]] >= begin[r] - FetchMax
       /\ result'[r] = "outage" /\ result[r] # "outage" =>
            \/ kid[r] \notin published \/ now >= stale[r]
            \/ changed[kid[r]] >= stale[r] - Ttl - Grace - FetchMax
<1>1. IInv /\ [Next]_vars => [A]_vars
  <2> SUFFICES ASSUME IInv, Next, NEW r \in Requests
               PROVE  /\ result'[r] = "unknown" /\ result[r] # "unknown" =>
                           kid[r] \notin published \/ changed[kid[r]] >= begin[r] - FetchMax
                      /\ result'[r] = "outage" /\ result[r] # "outage" =>
                           \/ kid[r] \notin published \/ now >= stale[r]
                           \/ changed[kid[r]] >= stale[r] - Ttl - Grace - FetchMax
    OBVIOUS
  <2> USE DEF IInv
  <2>1. ASSUME result'[r] = "unknown", result[r] # "unknown"
        PROVE  kid[r] \notin published \/ changed[kid[r]] >= begin[r] - FetchMax
    <3>1. pc[r] = "refreshed" /\ kid[r] \notin keys
      BY <2>1, Answers
    <3> QED  BY <3>1 DEF TypeOK, ClockInv, Mirrors, MirrorsKey, RequestInv, ReqInv
  <2>2. ASSUME result'[r] = "outage", result[r] # "outage"
        PROVE  \/ kid[r] \notin published \/ now >= stale[r]
               \/ changed[kid[r]] >= stale[r] - Ttl - Grace - FetchMax
    <3>1. pc[r] = "failed" /\ ~UsableStale(r)
      BY <2>2, Answers
    <3> QED  BY <3>1 DEF UsableStale, TypeOK, MirrorsKey, RequestInv, ReqInv
  <2> QED  BY <2>1, <2>2
<1> QED  BY <1>1, OIDCInvariant, PTL DEF Spec, RejectionJustified

==============================================================================
