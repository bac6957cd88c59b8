----------------------------- MODULE BrowserLogin -----------------------------
(***************************************************************************)
(* The browser's login to the portal: BrowserAuth (pkg/httpsrv/            *)
(* browserauth.go) with the cookies of SessionStore (session.go).          *)
(*                                                                         *)
(* A login l stands for the state, the PKCE verifier and the nonce that    *)
(* handleLogin draws at random.  They travel in a cookie; all the server   *)
(* keeps is a ledger of used nonces.  MaxAge asks the browser to drop the  *)
(* cookie after ten minutes, but the server does not look at its age, and  *)
(* requests take any time to arrive.  Cookies are signed, so a browser     *)
(* presents what it was sent.                                              *)
(*                                                                         *)
(* Of the identity provider nothing is assumed: it may accept a code twice *)
(* and with another login's verifier.  The callback's URL may be opened in *)
(* any browser, any number of times.                                       *)
(***************************************************************************)
EXTENDS Integers

CONSTANTS
  Browsers, NoBrowser,
  Logins, NoLogin,
  Callbacks,     \* handlers of handleCallback that run at the same time
  NonceTtl,      \* ttl of consumeNonce
  Lag,           \* the age of a clock reading when consumeNonce has its mutex
  SessionAge,    \* maxAge of the session store
  MaxTime        \* bound: how far the clock runs

ASSUME BrowserLoginAssumption ==
  /\ NonceTtl \in Nat /\ Lag \in Nat /\ SessionAge \in Nat /\ MaxTime \in Nat
  /\ NoBrowser \notin Browsers /\ NoLogin \notin Logins

VARIABLES
  now,
  owner,        \* the browser in which a login was begun
  authorized,   \* logins for which the provider has issued a code
  pkce,         \* pkce[b]: the login of the short-lived cookie
  session,      \* session[b]: the session cookie
  usedNonces,   \* when a nonce was used
  cb,           \* cb[h]: a callback in progress
  passed        \* history: the last two readings at which a login passed the ledger

cookieVars == <<pkce, session>>
vars == <<now, owner, authorized, cookieVars, usedNonces, cb, passed>>

Unused == -1

NoCookie == [login |-> NoLogin, until |-> 0]

\* login is what the URL names, cookie what the PKCE cookie does, at what
\* time.Now() said.
Idle == [pc |-> "idle", browser |-> NoBrowser, login |-> NoLogin, cookie |-> NoLogin,
         code |-> FALSE, at |-> 0, until |-> 0]

Init ==
  /\ now = 0
  /\ owner = [l \in Logins |-> NoBrowser]
  /\ authorized = {}
  /\ pkce = [b \in Browsers |-> NoLogin] /\ session = [b \in Browsers |-> NoCookie]
  /\ usedNonces = [l \in Logins |-> Unused]
  /\ cb = [h \in Callbacks |-> Idle]
  /\ passed = [l \in Logins |-> [prev |-> Unused, last |-> Unused]]

\* A goroutine that has read the clock gets the mutex before Lag has passed.
Tick ==
  /\ now < MaxTime
  /\ \A h \in Callbacks : cb[h].pc = "consume" => now - cb[h].at < Lag
  /\ now' = now + 1
  /\ UNCHANGED <<owner, authorized, cookieVars, usedNonces, cb, passed>>

\* handleLogin: a second login in the same browser replaces the cookie.
Login(b, l) ==
  /\ owner[l] = NoBrowser
  /\ owner' = [owner EXCEPT ![l] = b]
  /\ pkce' = [pkce EXCEPT ![b] = l]
  /\ UNCHANGED <<now, authorized, session, usedNonces, cb, passed>>

\* The browser drops the PKCE cookie: at MaxAge, or earlier, or never.
DropCookie(b) ==
  /\ pkce[b] # NoLogin
  /\ pkce' = [pkce EXCEPT ![b] = NoLogin]
  /\ UNCHANGED <<now, owner, authorized, session, usedNonces, cb, passed>>

\* The user signs in at the provider, which redirects with a code.
Authorize(l) ==
  /\ owner[l] # NoBrowser
  /\ authorized' = authorized \cup {l}
  /\ UNCHANGED <<now, owner, cookieVars, usedNonces, cb, passed>>

-----------------------------------------------------------------------------
(* handleCallback.                                                         *)

\* Mutated form of StateMatches: the state parameter is not compared.
StateUnchecked(b, l) == TRUE

StateMatches(b, l) == pkce[b] = l

\* The browser sends a callback with its cookie, whose state is the URL's;
\* otherwise it is refused and nothing happens.  Without a code it is the
\* provider's report of an error.
Callback(h, b, l, code) ==
  /\ cb[h].pc = "idle"
  /\ owner[l] # NoBrowser /\ (code => l \in authorized)
  /\ pkce[b] # NoLogin
  /\ StateMatches(b, l)
  /\ cb' = [cb EXCEPT ![h] = [Idle EXCEPT !.pc = "sent", !.browser = b, !.login = l,
                                          !.cookie = pkce[b], !.code = code]]
  /\ UNCHANGED <<now, owner, authorized, cookieVars, usedNonces, passed>>

\* consumeNonce reads the clock before it asks for the mutex.
ReadClock(h) ==
  /\ cb[h].pc = "sent"
  /\ cb' = [cb EXCEPT ![h].pc = "consume", ![h].at = now]
  /\ UNCHANGED <<now, owner, authorized, cookieVars, usedNonces, passed>>

\* Mutated form of Evicted: nonces are kept for half as long.
EvictedEarly(t) ==
  [l \in Logins |-> IF usedNonces[l] # Unused /\ 2 * (t - usedNonces[l]) > NonceTtl
                    THEN Unused ELSE usedNonces[l]]

\* The ledger without the nonces that are too old at t.
Evicted(t) ==
  [l \in Logins |-> IF usedNonces[l] # Unused /\ t - usedNonces[l] > NonceTtl
                    THEN Unused ELSE usedNonces[l]]

HasCode(h) == cb[h].code

\* consumeNonce, under its mutex; then the code is looked for.  The nonce is
\* used up even if there is none, or its exchange fails.
ConsumeNonce(h) ==
  LET l == cb[h].cookie
      t == cb[h].at
      fresh == Evicted(t)[l] = Unused
  IN  /\ cb[h].pc = "consume"
      /\ usedNonces' = IF fresh THEN [Evicted(t) EXCEPT ![l] = t] ELSE Evicted(t)
      /\ passed' = IF fresh THEN [passed EXCEPT ![l] = [prev |-> @.last, last |-> t]] ELSE passed
      /\ cb' = [cb EXCEPT ![h] = IF fresh /\ HasCode(h) THEN [@ EXCEPT !.pc = "exchange"]
                                 ELSE Idle]
      /\ UNCHANGED <<now, owner, authorized, cookieVars>>

\* exchangeCode fails, or the ID token does not pass ValidateBearer: an error
\* page, and no cookie changes.
CallbackFails(h) ==
  /\ cb[h].pc \in {"exchange", "validate"}
  /\ cb' = [cb EXCEPT ![h] = Idle]
  /\ UNCHANGED <<now, owner, authorized, cookieVars, usedNonces, passed>>

ExchangeCode(h) ==
  /\ cb[h].pc = "exchange"
  /\ cb' = [cb EXCEPT ![h].pc = "validate"]
  /\ UNCHANGED <<now, owner, authorized, cookieVars, usedNonces, passed>>

\* The ID token is valid: sessions.Issue.
Issue(h) ==
  /\ cb[h].pc = "validate"
  /\ cb' = [cb EXCEPT ![h].pc = "respond", ![h].until = now + SessionAge]
  /\ UNCHANGED <<now, owner, authorized, cookieVars, usedNonces, passed>>

\* The browser gets both cookies.  The PKCE cookie is cleared whatever is in
\* it by then.
Respond(h) ==
  LET b == cb[h].browser
  IN  /\ cb[h].pc = "respond"
      /\ pkce' = [pkce EXCEPT ![b] = NoLogin]
      /\ session' = [session EXCEPT ![b] = [login |-> cb[h].login, until |-> cb[h].until]]
      /\ cb' = [cb EXCEPT ![h] = Idle]
      /\ UNCHANGED <<now, owner, authorized, usedNonces, passed>>

\* The browser is gone before the response comes.
ResponseLost(h) ==
  /\ cb[h].pc = "respond"
  /\ cb' = [cb EXCEPT ![h] = Idle]
  /\ UNCHANGED <<now, owner, authorized, cookieVars, usedNonces, passed>>

\* handleLogout: the server has no session to forget.
Logout(b) ==
  /\ session[b] # NoCookie
  /\ session' = [session EXCEPT ![b] = NoCookie]
  /\ UNCHANGED <<now, owner, authorized, pkce, usedNonces, cb, passed>>

Next ==
  \/ Tick
  \/ \E b \in Browsers : Logout(b) \/ DropCookie(b)
  \/ \E b \in Browsers, l \in Logins : Login(b, l)
  \/ \E l \in Logins : Authorize(l)
  \/ \E h \in Callbacks, b \in Browsers, l \in Logins, code \in BOOLEAN :
       Callback(h, b, l, code)
  \/ \E h \in Callbacks :
       \/ ReadClock(h) \/ ConsumeNonce(h) \/ ExchangeCode(h) \/ CallbackFails(h)
       \/ Issue(h) \/ Respond(h) \/ ResponseLost(h)

Spec == Init /\ [][Next]_vars

-----------------------------------------------------------------------------
(* Properties.                                                             *)

Steps == {"idle", "sent", "consume", "exchange", "validate", "respond"}
Cookies == [login : Logins \cup {NoLogin}, until : Nat]
Handlers == [pc : Steps, browser : Browsers \cup {NoBrowser}, login : Logins \cup {NoLogin},
             cookie : Logins \cup {NoLogin}, code : BOOLEAN, at : Nat, until : Nat]

\* The type of every variable; an exchange is for a login that the provider
\* has authorized.
TypeOK ==
  /\ now \in Nat
  /\ owner \in [Logins -> Browsers \cup {NoBrowser}] /\ authorized \subseteq Logins
  /\ pkce \in [Browsers -> Logins \cup {NoLogin}] /\ session \in [Browsers -> Cookies]
  /\ usedNonces \in [Logins -> Nat \cup {Unused}]
  /\ cb \in [Callbacks -> Handlers]
  /\ passed \in [Logins -> [prev : Nat \cup {Unused}, last : Nat \cup {Unused}]]
  /\ \A h \in Callbacks :
       cb[h].pc \in {"exchange", "validate", "respond"} => cb[h].login \in authorized

\* PortalAuth sees a session: SessionStore.Read.
SignedIn(b) == session[b].login # NoLogin /\ now <= session[b].until

\* Whoever is signed in has signed in at the provider in a login begun in the
\* same browser, although callback URLs can be opened anywhere, tabs overwrite
\* each other's PKCE cookie and responses arrive late.
SessionOwned ==
  \A b \in Browsers :
    SignedIn(b) => owner[session[b].login] = b /\ session[b].login \in authorized

\* consumeNonce rejects replays for ten minutes: two callbacks of one login
\* that get as far as the exchange of a code, and so to a session, have clock
\* readings more than NonceTtl, less the age of a reading, apart.  Callbacks
\* can be repeated, run side by side, come late and be overtaken on the way to
\* the mutex by one of another login that evicts.  Nothing is said of a replay
\* that comes later than that.
ReplaySpacing ==
  \A l \in Logins :
    passed[l].prev # Unused => passed[l].last - passed[l].prev > NonceTtl - Lag

===============================================================================
