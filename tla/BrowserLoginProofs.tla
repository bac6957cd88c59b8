-------------------------- MODULE BrowserLoginProofs --------------------------
(***************************************************************************)
(* Proofs about module BrowserLogin for any number of browsers, logins and *)
(* concurrent callbacks, and any lifetimes.                                *)
(*                                                                         *)
(* A nonce in the ledger stands there with the reading at which its login  *)
(* last passed; one that has been evicted was more than NonceTtl old, and  *)
(* no reading that is still to be used is older than Lag.                  *)
(***************************************************************************)
EXTENDS BrowserLogin, TLAPS

\* A PKCE cookie is in the browser that began its login.
CookieInv == \A b \in Browsers : pkce[b] # NoLogin => owner[pkce[b]] = b

\* A callback in progress is for the login of its browser's cookie.
CallbackInv ==
  \A h \in Callbacks : cb[h].pc # "idle" =>
    /\ cb[h].browser \in Browsers /\ cb[h].login \in Logins /\ cb[h].cookie = cb[h].login
    /\ owner[cb[h].login] = cb[h].browser
    /\ cb[h].code => cb[h].login \in authorized

\* A reading of the clock is at most Lag old when it is used.
ClockInv ==
  \A h \in Callbacks : cb[h].pc = "consume" => cb[h].at <= now /\ now - cb[h].at <= Lag

\* The ledger has the reading at which a login last passed, or has dropped it
\* when it was more than NonceTtl old.
LedgerInv ==
  \A l \in Logins :
    /\ usedNonces[l] # Unused => passed[l].last = usedNonces[l]
    /\ usedNonces[l] = Unused /\ passed[l].last # Unused => now - passed[l].last > NonceTtl

\* SessionOwned, for expired session cookies too.
SessionInv ==
  \A b \in Browsers : session[b].login # NoLogin =>
    owner[session[b].login] = b /\ session[b].login \in authorized

IInv ==
  /\ TypeOK /\ CookieInv /\ CallbackInv /\ ClockInv
  /\ LedgerInv /\ SessionInv /\ ReplaySpacing

USE BrowserLoginAssumption DEF Unused, Idle, NoCookie

\* A handler that goes on is a handler.
LEMMA HandlerFacts ==
  ASSUME NEW c \in Handlers, NEW p \in Steps, NEW t \in Nat
  PROVE  /\ [c EXCEPT !.pc = p] \in Handlers
         /\ [c EXCEPT !.pc = p, !.until = t] \in Handlers
         /\ [c EXCEPT !.pc = p, !.at = t] \in Handlers
         /\ Idle \in Handlers
BY DEF Handlers, Steps

\* Every step keeps the types.
LEMMA TypeStep == IInv /\ [Next]_vars => TypeOK'
<1> SUFFICES ASSUME IInv, [Next]_vars PROVE TypeOK'
  OBVIOUS
<1> USE DEF IInv, TypeOK, cookieVars, Steps, Cookies
<1>1. CASE Tick  BY <1>1 DEF Tick
<1>2. ASSUME NEW b \in Browsers, Logout(b) PROVE TypeOK'
  BY <1>2 DEF Logout
<1>14. ASSUME NEW b \in Browsers, DropCookie(b) PROVE TypeOK'
  BY <1>14 DEF DropCookie
<1>3. ASSUME NEW b \in Browsers, NEW l \in Logins, Login(b, l) PROVE TypeOK'
  BY <1>3 DEF Login
<1>4. ASSUME NEW l \in Logins, Authorize(l) PROVE TypeOK'
  BY <1>4 DEF Authorize
<1>5. ASSUME NEW h \in Callbacks, NEW b \in Browsers, NEW l \in Logins, NEW code \in BOOLEAN,
             Callback(h, b, l, code) PROVE TypeOK'
  BY <1>5 DEF Callback, Handlers
<1>6. ASSUME NEW h \in Callbacks, ConsumeNonce(h) PROVE TypeOK'
  BY <1>6 DEF ConsumeNonce, Evicted, HasCode, CallbackInv, Handlers
<1>7. ASSUME NEW h \in Callbacks, ExchangeCode(h) PROVE TypeOK'
  <2>1. cb[h].pc = "exchange" /\ cb' = [cb EXCEPT ![h] = [cb[h] EXCEPT !.pc = "validate"]]
    BY <1>7 DEF ExchangeCode
  <2>2. cb' \in [Callbacks -> Handlers]
    BY <2>1, HandlerFacts
  <2> QED  BY <1>7, <2>1, <2>2 DEF ExchangeCode, Handlers
<1>8. ASSUME NEW h \in Callbacks, CallbackFails(h) PROVE TypeOK'
  BY <1>8 DEF CallbackFails, Handlers
<1>9. ASSUME NEW h \in Callbacks, Issue(h) PROVE TypeOK'
  <2>1. cb[h].pc = "validate" /\ now + SessionAge \in Nat
    BY <1>9 DEF Issue
  <2>2. cb' = [cb EXCEPT ![h] = [cb[h] EXCEPT !.pc = "respond", !.until = now + SessionAge]]
    BY <1>9 DEF Issue
  <2>3. cb' \in [Callbacks -> Handlers]
    BY <2>1, <2>2, HandlerFacts
  <2>6. \A g \in Callbacks : cb'[g].pc \in {"exchange", "validate", "respond"} =>
                              cb'[g].login \in authorized
    BY <2>1, <2>2 DEF Handlers
  <2> QED  BY <1>9, <2>3, <2>6 DEF Issue
<1>10. ASSUME NEW h \in Callbacks, Respond(h) PROVE TypeOK'
  BY <1>10 DEF Respond, CallbackInv, Handlers
<1>11. ASSUME NEW h \in Callbacks, ResponseLost(h) PROVE TypeOK'
  BY <1>11 DEF ResponseLost, Handlers
<1>13. ASSUME NEW h \in Callbacks, ReadClock(h) PROVE TypeOK'
  <2>1. cb[h].pc = "sent" /\ cb' = [cb EXCEPT ![h] = [cb[h] EXCEPT !.pc = "consume", !.at = now]]
    BY <1>13 DEF ReadClock
  <2>2. cb' \in [Callbacks -> Handlers]
    BY <2>1, HandlerFacts
  <2> QED  BY <1>13, <2>1, <2>2 DEF ReadClock, Handlers
<1>12. CASE UNCHANGED vars  BY <1>12 DEF vars
<1> QED
  BY <1>1, <1>2, <1>3, <1>4, <1>5, <1>6, <1>7, <1>8, <1>9, <1>10, <1>11, <1>12, <1>13,
     <1>14 DEF Next

\* Cookies.
LEMMA CookieStep == IInv /\ [Next]_vars => CookieInv' /\ SessionInv'
<1> SUFFICES ASSUME IInv, [Next]_vars PROVE CookieInv' /\ SessionInv'
  OBVIOUS
<1> USE DEF IInv, TypeOK, cookieVars, Steps, Cookies, Handlers, CookieInv, SessionInv
<1>1. CASE Tick  BY <1>1 DEF Tick
<1>2. ASSUME NEW b \in Browsers, Logout(b) PROVE CookieInv' /\ SessionInv'
  BY <1>2 DEF Logout
<1>14. ASSUME NEW b \in Browsers, DropCookie(b) PROVE CookieInv' /\ SessionInv'
  BY <1>14 DEF DropCookie
<1>3. ASSUME NEW b \in Browsers, NEW l \in Logins, Login(b, l) PROVE CookieInv' /\ SessionInv'
  BY <1>3 DEF Login
<1>4. ASSUME NEW l \in Logins, Authorize(l) PROVE CookieInv' /\ SessionInv'
  BY <1>4 DEF Authorize
<1>5. ASSUME NEW h \in Callbacks, NEW b \in Browsers, NEW l \in Logins, NEW code \in BOOLEAN,
             Callback(h, b, l, code) PROVE CookieInv' /\ SessionInv'
  BY <1>5 DEF Callback
<1>6. ASSUME NEW h \in Callbacks, ConsumeNonce(h) PROVE CookieInv' /\ SessionInv'
  BY <1>6 DEF ConsumeNonce, Evicted, CallbackInv
<1>7. ASSUME NEW h \in Callbacks, ExchangeCode(h) PROVE CookieInv' /\ SessionInv'
  BY <1>7 DEF ExchangeCode
<1>8. ASSUME NEW h \in Callbacks, CallbackFails(h) PROVE CookieInv' /\ SessionInv'
  BY <1>8 DEF CallbackFails
<1>9. ASSUME NEW h \in Callbacks, Issue(h) PROVE CookieInv' /\ SessionInv'  BY <1>9 DEF Issue
<1>10. ASSUME NEW h \in Callbacks, Respond(h) PROVE CookieInv' /\ SessionInv'
  BY <1>10 DEF Respond, CallbackInv
<1>11. ASSUME NEW h \in Callbacks, ResponseLost(h) PROVE CookieInv' /\ SessionInv'
  BY <1>11 DEF ResponseLost
<1>13. ASSUME NEW h \in Callbacks, ReadClock(h) PROVE CookieInv' /\ SessionInv'
  BY <1>13 DEF ReadClock
<1>12. CASE UNCHANGED vars  BY <1>12 DEF vars
<1> QED
  BY <1>1, <1>2, <1>3, <1>4, <1>5, <1>6, <1>7, <1>8, <1>9, <1>10, <1>11, <1>12, <1>13,
     <1>14 DEF Next

\* Callbacks in progress.
LEMMA CallbackStep == IInv /\ [Next]_vars => CallbackInv'
<1> SUFFICES ASSUME IInv, [Next]_vars PROVE CallbackInv'
  OBVIOUS
<1> USE DEF IInv, TypeOK, cookieVars, Steps, Cookies, Handlers, CallbackInv
<1>1. CASE Tick  BY <1>1 DEF Tick
<1>2. ASSUME NEW b \in Browsers, Logout(b) PROVE CallbackInv'
  BY <1>2 DEF Logout
<1>14. ASSUME NEW b \in Browsers, DropCookie(b) PROVE CallbackInv'
  BY <1>14 DEF DropCookie
<1>3. ASSUME NEW b \in Browsers, NEW l \in Logins, Login(b, l) PROVE CallbackInv'
  BY <1>3 DEF Login
<1>4. ASSUME NEW l \in Logins, Authorize(l) PROVE CallbackInv'
  BY <1>4 DEF Authorize
<1>5. ASSUME NEW h \in Callbacks, NEW b \in Browsers, NEW l \in Logins, NEW code \in BOOLEAN,
             Callback(h, b, l, code) PROVE CallbackInv'
  BY <1>5 DEF Callback, StateMatches, CookieInv
<1>6. ASSUME NEW h \in Callbacks, ConsumeNonce(h) PROVE CallbackInv'
  BY <1>6 DEF ConsumeNonce, Evicted
<1>7. ASSUME NEW h \in Callbacks, ExchangeCode(h) PROVE CallbackInv'
  BY <1>7 DEF ExchangeCode
<1>8. ASSUME NEW h \in Callbacks, CallbackFails(h) PROVE CallbackInv'
  BY <1>8 DEF CallbackFails
<1>9. ASSUME NEW h \in Callbacks, Issue(h) PROVE CallbackInv'  BY <1>9 DEF Issue
<1>10. ASSUME NEW h \in Callbacks, Respond(h) PROVE CallbackInv'
  BY <1>10 DEF Respond
<1>11. ASSUME NEW h \in Callbacks, ResponseLost(h) PROVE CallbackInv'
  BY <1>11 DEF ResponseLost
<1>13. ASSUME NEW h \in Callbacks, ReadClock(h) PROVE CallbackInv'
  BY <1>13 DEF ReadClock
<1>12. CASE UNCHANGED vars  BY <1>12 DEF vars
<1> QED
  BY <1>1, <1>2, <1>3, <1>4, <1>5, <1>6, <1>7, <1>8, <1>9, <1>10, <1>11, <1>12, <1>13,
     <1>14 DEF Next

\* The clock, the ledger and the passes.
LEMMA LedgerStep == IInv /\ [Next]_vars => ClockInv' /\ LedgerInv' /\ ReplaySpacing'
<1> DEFINE Good == ClockInv' /\ LedgerInv' /\ ReplaySpacing'
<1> SUFFICES ASSUME IInv, [Next]_vars PROVE Good
  OBVIOUS
<1> USE DEF IInv, TypeOK, cookieVars, Steps, Handlers, ClockInv, LedgerInv, ReplaySpacing
<1>1. CASE Tick  BY <1>1 DEF Tick
<1>2. CASE UNCHANGED <<now, usedNonces, cb, passed>>
  BY <1>2
<1>3. ASSUME NEW h \in Callbacks, NEW b \in Browsers, NEW l \in Logins, NEW code \in BOOLEAN,
             Callback(h, b, l, code) PROVE Good
  BY <1>3 DEF Callback
<1>4. ASSUME NEW h \in Callbacks, ReadClock(h) PROVE Good
  BY <1>4 DEF ReadClock
<1>5. ASSUME NEW h \in Callbacks, ConsumeNonce(h) PROVE Good
  <2> DEFINE l == cb[h].cookie
             t == cb[h].at
  <2>1. /\ cb[h].pc = "consume" /\ l \in Logins /\ t \in Nat /\ t <= now /\ now - t <= Lag
        /\ now' = now
    BY <1>5 DEF ConsumeNonce, CallbackInv
  <2>2. ClockInv'
    BY <1>5 DEF ConsumeNonce
  <2>3. \A m \in Logins : Evicted(t)[m] = usedNonces[m]
          \/ (Evicted(t)[m] = Unused /\ t - usedNonces[m] > NonceTtl /\ usedNonces[m] # Unused)
    BY DEF Evicted
  <2>4. CASE Evicted(t)[l] = Unused
    <3>1. /\ passed'[l] = [prev |-> passed[l].last, last |-> t]
          /\ usedNonces'[l] = t
          /\ \A m \in Logins \ {l} : passed'[m] = passed[m] /\ usedNonces'[m] = Evicted(t)[m]
      BY <1>5, <2>1, <2>4 DEF ConsumeNonce, Evicted
    <3>2. passed[l].last # Unused => t - passed[l].last > NonceTtl - Lag
      BY <2>1, <2>3, <2>4
    <3> QED  BY <2>1, <2>2, <2>3, <3>1, <3>2
  <2>5. CASE Evicted(t)[l] # Unused
    <3>1. passed' = passed /\ usedNonces' = Evicted(t)
      BY <1>5, <2>5 DEF ConsumeNonce
    <3> QED  BY <2>1, <2>2, <2>3, <3>1
  <2> QED  BY <2>4, <2>5
<1>6. ASSUME NEW h \in Callbacks, ExchangeCode(h) PROVE Good
  BY <1>6 DEF ExchangeCode
<1>7. ASSUME NEW h \in Callbacks, CallbackFails(h) PROVE Good
  BY <1>7 DEF CallbackFails
<1>8. ASSUME NEW h \in Callbacks, Issue(h) PROVE Good
  BY <1>8 DEF Issue
<1>9. ASSUME NEW h \in Callbacks, Respond(h) \/ ResponseLost(h) PROVE Good
  BY <1>9 DEF Respond, ResponseLost
<1> QED
  BY <1>1, <1>2, <1>3, <1>4, <1>5, <1>6, <1>7, <1>8, <1>9
     DEF Next, Logout, DropCookie, Login, Authorize, vars

\* The inductive invariant.
THEOREM BrowserLoginInvariant == Spec => []IInv
<1>1. Init => IInv
  BY DEF Init, IInv, TypeOK, CookieInv, CallbackInv, ClockInv, LedgerInv, SessionInv,
         ReplaySpacing, Steps, Cookies, Handlers
<1>2. IInv /\ [Next]_vars => IInv'
  BY TypeStep, CookieStep, CallbackStep, LedgerStep DEF IInv
<1> QED  BY <1>1, <1>2, PTL DEF Spec

\* Every exchange is for a login the provider has authorized.
THEOREM BrowserLoginTypeCorrect == Spec => []TypeOK
<1>1. IInv => TypeOK
  BY DEF IInv
<1> QED  BY <1>1, BrowserLoginInvariant, PTL

\* Sessions belong to the browser that began the login, in every interleaving
\* of tabs, callbacks and late responses.
THEOREM SessionsOwned == Spec => []SessionOwned
<1>1. IInv => SessionOwned
  BY DEF IInv, SessionInv, SessionOwned, SignedIn
<1> QED  BY <1>1, BrowserLoginInvariant, PTL

\* Replays are rejected for NonceTtl, less the age of a clock reading, although
\* callbacks come late, overtake each other and evict each other's nonces.
THEOREM ReplaysRejected == Spec => []ReplaySpacing
<1>1. IInv => ReplaySpacing
  BY DEF IInv
<1> QED  BY <1>1, BrowserLoginInvariant, PTL

===============================================================================
