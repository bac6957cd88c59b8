------------------------------ MODULE AuthChain ------------------------------
(***************************************************************************)
(* How a request is let in.  The MCP endpoint's gateway (authgate.go) only *)
(* looks for a credential; the audit middleware (mcpmw/audit.go) reads the *)
(* token and asks the chain, for tools/call.  The portal's middleware      *)
(* (portalauth.go) honours a session, or reads the token its own way and   *)
(* asks the same chain.                                                    *)
(*                                                                         *)
(* auth.Chain (pkg/auth/chain.go): a request's token is offered to the API *)
(* keys and to the OIDC validator, in an order that depends on its looks,  *)
(* and each refusal is logged, at WARN for the first one of an address in  *)
(* a window and at DEBUG for the others (failureRateLimiter).              *)
(*                                                                         *)
(* shouldWarn reads the clock before it takes its mutex, so a reading can  *)
(* be up to Lag old when it is compared with the ledger, and the ledger    *)
(* may have been written by a goroutine with a later reading meanwhile.    *)
(*                                                                         *)
(* What a store says of a token is modelled by KeyStore and OIDCValidator. *)
(* Here a token is the set of stores that know it, and a store can fail    *)
(* whenever it is asked: its database or its provider is down.             *)
(***************************************************************************)
EXTENDS Integers, Sequences

CONSTANTS
  Requests,
  Addrs,            \* remote addresses, as X-Forwarded-For names them
  NoAddr,           \* the request names none
  Configured,       \* the stores that are not nil
  Window,           \* failureRateLimiter.window
  Lag,              \* bound: age of a clock reading when the mutex is taken
  MaxTime           \* bound: how far the clock runs

Stores == {"apikey", "oidc"}

ASSUME AuthChainAssumption ==
  /\ Configured \subseteq Stores
  /\ Window \in Nat \ {0} /\ Lag \in Nat /\ MaxTime \in Nat
  /\ NoAddr \notin Addrs

VARIABLES
  allowAnonymous,   \* auth.allow_anonymous, read once from the configuration
  now,
  lastLog,    \* the ledger: when an address was warned about
  req,        \* the requests in progress
  warned      \* warned[a]: when the last two WARN lines about a were written

vars == <<allowAnonymous, now, lastLog, req, warned>>

Unset == -1

\* How a request presents its token: in X-API-Key, in Authorization under a
\* scheme name in one of three spellings, after more than one blank
\* ("padded"), or under another scheme, or nowhere.
Forms == {"key", "Bearer", "bearer", "BEARER", "padded", "other", "none"}

\* What a reader of the headers hands to the chain: the token, the token with
\* blanks in front, which no store knows, or nothing.
Readings == {"token", "blanks", "none"}

\* What a request presents: the form, whether the token starts with "ey", and
\* the stores that know it.
Offers ==
  {o \in [form : Forms, ey : BOOLEAN, knows : SUBSET Configured] :
     o.form \in {"other", "none"} => o.knows = {} /\ ~o.ey}

\* todo: the stores still to be asked; at: what time.Now() said; knows: the
\* stores that know the client's token, without those that have failed on it;
\* read: what the chain was given for it; route and form are forgotten when
\* the stores are asked about the token itself.
Idle == [pc |-> "idle", route |-> "mcp", form |-> "none", addr |-> NoAddr,
         knows |-> {}, read |-> "none", todo |-> <<>>, at |-> 0]

Init ==
  /\ allowAnonymous \in BOOLEAN
  /\ now = 0
  /\ lastLog = [a \in Addrs |-> Unset]
  /\ req = [r \in Requests |-> Idle]
  /\ warned = [a \in Addrs |-> [prev |-> Unset, last |-> Unset]]

-----------------------------------------------------------------------------
(* The world.                                                              *)

\* A goroutine that has read the clock gets the mutex before Lag has passed.
Tick ==
  /\ now < MaxTime
  /\ \A r \in Requests : req[r].pc = "refused" => now - req[r].at < Lag
  /\ now' = now + 1
  /\ UNCHANGED <<allowAnonymous, lastLog, req, warned>>

-----------------------------------------------------------------------------
(* Authenticate.                                                           *)

\* A store is tried unless it is nil.
Tried(s) == IF s \in Configured THEN <<s>> ELSE <<>>

\* The stores in the order in which they are tried.
Order(ey) ==
  IF ey THEN Tried("oidc") \o Tried("apikey") ELSE Tried("apikey") \o Tried("oidc")

\* The gate's answer, or the chain's without a token: no store is asked.
Settle(r, route, pc, o) ==
  req' = [req EXCEPT ![r] = [Idle EXCEPT !.pc = pc, !.route = route, !.form = o.form,
                                         !.knows = o.knows]]

\* The chain: an empty token is answered by the configuration alone.
Authenticate(r, route, read, o, addr) ==
  LET order == Order(o.ey /\ read = "token")
  IN  IF read = "none" THEN Settle(r, route, IF allowAnonymous THEN "anonymous" ELSE "denied", o)
      ELSE IF order = <<>> THEN Settle(r, route, "denied", o)
      ELSE req' = [req EXCEPT ![r] = [Idle EXCEPT !.pc = "ask", !.addr = addr, !.knows = o.knows,
                                                  !.route = IF read = "token" THEN "mcp" ELSE route,
                                                  !.read = read, !.todo = order]]

-----------------------------------------------------------------------------
(* The gates.                                                              *)

\* hasCredential: is there a credential the gateway lets through?
HasCredential(form) == form \in {"key", "Bearer", "bearer", "BEARER", "padded"}

\* Mutated form of TokenFromHeader: two spellings of the scheme are known.
TokenFromHeaderCased(form) ==
  IF form \in {"key", "Bearer", "bearer", "padded"} THEN "token" ELSE "none"

\* tokenFromHeader: what the audit middleware finds.  It trims the token.
TokenFromHeader(form) ==
  IF form \in {"key", "Bearer", "bearer", "BEARER", "padded"} THEN "token" ELSE "none"

\* tokenFromRequest: what the portal finds.  It takes all that follows the
\* first blank.
TokenFromRequest(form) ==
  CASE form \in {"key", "Bearer", "bearer"} -> "token"
    [] form = "padded" -> "blanks"
    [] OTHER -> "none"

\* A tools/call: MCPAuthGateway, then the audit middleware's enrichContext
\* and Authenticate.
MCPRequest(r, o, addr) ==
  /\ req[r].pc = "idle"
  /\ IF allowAnonymous \/ HasCredential(o.form)
     THEN Authenticate(r, "mcp", TokenFromHeader(o.form), o, addr)
     ELSE Settle(r, "mcp", "unauthorized", o)
  /\ UNCHANGED <<allowAnonymous, now, lastLog, warned>>

\* PortalAuth.Middleware, for a request whose session cookie is good.
PortalSession(r) ==
  /\ req[r].pc = "idle"
  /\ req' = [req EXCEPT ![r].pc = "ok"]
  /\ UNCHANGED <<allowAnonymous, now, lastLog, warned>>

\* Mutated form of PortalRequest: the chain is asked with or without a token.
PortalRequestAsks(r, o) ==
  /\ req[r].pc = "idle"
  /\ Authenticate(r, "portal", TokenFromRequest(o.form), o, NoAddr)
  /\ UNCHANGED <<allowAnonymous, now, lastLog, warned>>

\* PortalAuth.Middleware, for the others.  Nothing puts a remote address on
\* the context it authenticates with.
PortalRequest(r, o) ==
  /\ req[r].pc = "idle"
  /\ IF TokenFromRequest(o.form) = "none" THEN Settle(r, "portal", "unauthorized", o)
     ELSE Authenticate(r, "portal", TokenFromRequest(o.form), o, NoAddr)
  /\ UNCHANGED <<allowAnonymous, now, lastLog, warned>>

-----------------------------------------------------------------------------
(* The stores' answers.                                                    *)

Accept(r) ==
  /\ req[r].pc = "ask" /\ req[r].read = "token" /\ Head(req[r].todo) \in req[r].knows
  /\ req' = [req EXCEPT ![r] = [Idle EXCEPT !.pc = "ok"]]
  /\ UNCHANGED <<allowAnonymous, now, lastLog, warned>>

\* The store refuses, because it does not know the token it was given or because
\* it fails; logAuthFailure calls shouldWarn, which reads the clock.
Refuse(r) ==
  /\ req[r].pc = "ask"
  /\ req' = [req EXCEPT ![r].pc = "refused", ![r].at = now, ![r].todo = Tail(@),
                        ![r].knows = IF req[r].read = "token" THEN @ \ {Head(req[r].todo)}
                                     ELSE @]
  /\ UNCHANGED <<allowAnonymous, now, lastLog, warned>>

-----------------------------------------------------------------------------
(* shouldWarn, under its mutex, and the log line.                          *)

\* Mutated form of Evicted: entries go when the window has half passed.
EvictedEarly(t) ==
  [a \in Addrs |-> IF lastLog[a] # Unset /\ 2 * (t - lastLog[a]) > Window THEN Unset
                   ELSE lastLog[a]]

\* The ledger without the entries that are older than the window.
Evicted(t) ==
  [a \in Addrs |-> IF lastLog[a] # Unset /\ t - lastLog[a] > Window THEN Unset
                   ELSE lastLog[a]]

\* Mutated form of Touched: every failure renews the entry of its address.
TouchedAlways(r) == [Evicted(req[r].at) EXCEPT ![req[r].addr] = req[r].at]

\* The ledger after shouldWarn.
Touched(r) ==
  LET kept == Evicted(req[r].at)
      a    == req[r].addr
  IN  IF a = NoAddr THEN lastLog
      ELSE IF kept[a] = Unset THEN [kept EXCEPT ![a] = req[r].at]
      ELSE kept

\* An entry that survived the eviction is within the window.
ShouldWarn(r) ==
  req[r].addr # NoAddr => Evicted(req[r].at)[req[r].addr] = Unset

LogAuthFailure(r) ==
  LET a == req[r].addr
  IN  /\ req[r].pc = "refused"
      /\ lastLog' = Touched(r)
      /\ warned' = IF a # NoAddr /\ ShouldWarn(r)
                   THEN [warned EXCEPT ![a] = [prev |-> warned[a].last, last |-> now]]
                   ELSE warned
      /\ req' = [req EXCEPT ![r].pc = IF req[r].todo = <<>> THEN "denied" ELSE "ask",
                            ![r].at = 0]
      /\ UNCHANGED <<allowAnonymous, now>>

\* The request is answered; its goroutine's place is taken by another.
Finish(r) ==
  /\ req[r].pc \in {"ok", "anonymous", "denied", "unauthorized"}
  /\ req' = [req EXCEPT ![r] = Idle]
  /\ UNCHANGED <<allowAnonymous, now, lastLog, warned>>

Next ==
  \/ Tick
  \/ \E r \in Requests :
       \/ \E o \in Offers, addr \in Addrs \cup {NoAddr} : MCPRequest(r, o, addr)
       \/ PortalSession(r)
       \/ \E o \in Offers : PortalRequest(r, o)
       \/ Accept(r) \/ Refuse(r) \/ LogAuthFailure(r) \/ Finish(r)

Spec == Init /\ [][Next]_vars

-----------------------------------------------------------------------------
(* Properties.                                                             *)

Pcs == {"idle", "ask", "refused", "ok", "anonymous", "denied", "unauthorized"}

\* The type of every variable.
TypeOK ==
  /\ allowAnonymous \in BOOLEAN
  /\ now \in Nat
  /\ lastLog \in [Addrs -> Nat \cup {Unset}]
  /\ req \in [Requests -> [pc : Pcs, route : {"mcp", "portal"}, form : Forms,
                           addr : Addrs \cup {NoAddr}, knows : SUBSET Stores,
                           read : Readings, todo : Seq(Stores), at : Nat]]
  /\ \A r \in Requests : req[r].pc = "ask" => req[r].todo # <<>>
  /\ warned \in [Addrs -> [prev : Nat \cup {Unset}, last : Nat \cup {Unset}]]

\* A noisy address does not drown the log: two WARN lines about it are more
\* than a window apart, less the age a clock reading may have, although each
\* request can be refused twice, requests overtake each other between reading
\* the clock and taking the mutex, and any of them evicts entries.
WarnSpacing ==
  \A a \in Addrs : warned[a].prev # Unset =>
    warned[a].last - warned[a].prev > Window - Lag

\* Persistent failures stay visible: a refusal is only demoted to DEBUG when a
\* WARN about the same address was written at most a window, and the age of a
\* reading, before.
DemotedAfterWarn ==
  [][\A r \in Requests :
       LET a == req[r].addr
       IN  LogAuthFailure(r) /\ a # NoAddr /\ warned' = warned
             => warned[a].last # Unset /\ now - warned[a].last <= Window + Lag]_vars

\* A request is refused only if every store that knows its token failed when
\* it was asked, whatever the token looks like and however it is presented: a
\* store that knows it makes up for one that fails or comes first, and what
\* the gateway lets through the middleware can read.  The exceptions are on the
\* portal: it does not read BEARER in capitals, and it does not trim, so more
\* than one blank before the token makes another token of it.
DenialJustified ==
  \A r \in Requests : req[r].pc \in {"denied", "unauthorized"} =>
    \/ req[r].knows = {}
    \/ req[r].route = "portal" /\ (req[r].form = "BEARER" \/ req[r].read = "blanks")

\* The portal has no anonymous callers, although the chain it shares with the
\* MCP endpoint is willing to make one of a request without a token.
AnonymousOnlyOnMCP ==
  \A r \in Requests : req[r].pc = "anonymous" => allowAnonymous /\ req[r].route = "mcp"

=============================================================================
