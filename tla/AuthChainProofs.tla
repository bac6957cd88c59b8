---------------------------- MODULE AuthChainProofs ----------------------------
(***************************************************************************)
(* Proofs about the auth chain and its rate-limited failure log, for any   *)
(* number of requests and addresses, any window and any age of a clock     *)
(* reading.                                                                *)
(***************************************************************************)
EXTENDS AuthChain, TLAPS

-----------------------------------------------------------------------------
(* The order of the stores.                                                *)

\* The stores still to be asked.
Asked(q) == {q[i] : i \in 1 .. Len(q)}

\* The chain asks exactly the stores that are configured, in either order.
LEMMA OrderFacts ==
  ASSUME NEW ey \in BOOLEAN
  PROVE  Order(ey) \in Seq(Stores) /\ Configured \subseteq Asked(Order(ey))
<1>0. /\ "oidc" \in Stores /\ "apikey" \in Stores /\ Configured \subseteq Stores
      /\ \A s \in Configured : s = "oidc" \/ s = "apikey"
  BY AuthChainAssumption DEF Stores
<1>1. ASSUME NEW s \in Stores
      PROVE  /\ Tried(s) \in Seq(Stores) /\ Len(Tried(s)) \in {0, 1}
             /\ s \in Configured => Len(Tried(s)) = 1 /\ Tried(s)[1] = s
  BY DEF Tried
<1>2. ASSUME NEW s \in Stores, NEW t \in Stores
      PROVE  /\ Tried(s) \o Tried(t) \in Seq(Stores)
             /\ s \in Configured => s \in Asked(Tried(s) \o Tried(t))
             /\ t \in Configured => t \in Asked(Tried(s) \o Tried(t))
  <2> DEFINE p == Tried(s)
             q == Tried(t)
  <2>1. p \in Seq(Stores) /\ q \in Seq(Stores)
    BY <1>1
  <2>2. /\ p \o q \in Seq(Stores) /\ Len(p \o q) = Len(p) + Len(q)
        /\ \A i \in 1 .. Len(p) : (p \o q)[i] = p[i]
        /\ \A i \in 1 .. Len(q) : (p \o q)[Len(p) + i] = q[i]
    BY <2>1
  <2>3. s \in Configured => 1 \in 1 .. Len(p \o q) /\ (p \o q)[1] = s
    BY <1>1, <2>1, <2>2
  <2>4. t \in Configured => Len(p) + 1 \in 1 .. Len(p \o q) /\ (p \o q)[Len(p) + 1] = t
    BY <1>1, <2>1, <2>2
  <2>. QED
    BY <2>2, <2>3, <2>4 DEF Asked
<1>. QED
  BY <1>0, <1>2 DEF Order

\* Asking the first store leaves the others to be asked.
LEMMA TailAsked ==
  ASSUME NEW q \in Seq(Stores), q # <<>>
  PROVE  Tail(q) \in Seq(Stores) /\ Asked(q) \subseteq {Head(q)} \cup Asked(Tail(q))
<1>1. /\ Len(q) \in Nat \ {0} /\ Head(q) = q[1]
      /\ Tail(q) \in Seq(Stores) /\ Len(Tail(q)) = Len(q) - 1
      /\ \A i \in 1 .. Len(Tail(q)) : Tail(q)[i] = q[i + 1]
  OBVIOUS
<1>2. ASSUME NEW i \in 1 .. Len(q), i # 1 PROVE q[i] \in Asked(Tail(q))
  <2>1. i - 1 \in 1 .. Len(Tail(q)) /\ Tail(q)[i - 1] = q[i]
    BY <1>1, <1>2
  <2>. QED
    BY <2>1 DEF Asked
<1>. QED
  BY <1>1, <1>2 DEF Asked

-----------------------------------------------------------------------------
(* The inductive invariant.                                                *)

ReqType == [pc : Pcs, route : {"mcp", "portal"}, form : Forms, addr : Addrs \cup {NoAddr},
            knows : SUBSET Stores, read : Readings, todo : Seq(Stores), at : Nat]

\* The portal did not trim what it read.
Garbled(q) == q.route = "portal" /\ q.read = "blanks"

\* What is true of a request at each point: while stores are asked about the
\* token, those that know it and have not failed on it are still to come.
Sound(q) ==
  /\ q.pc = "ask" => q.todo # <<>>
  /\ q.pc \in {"ask", "refused"} =>
       (q.read = "token" /\ q.knows \subseteq Asked(q.todo)) \/ Garbled(q)
  /\ q.pc \in {"denied", "unauthorized"} =>
       q.knows = {} \/ (q.route = "portal" /\ q.form = "BEARER") \/ Garbled(q)
  /\ q.pc = "anonymous" => allowAnonymous /\ q.route = "mcp"

ReqInv == req \in [Requests -> ReqType] /\ \A r \in Requests : Sound(req[r])

\* The age of a clock reading that waits for the mutex.
ClockInv == \A r \in Requests : req[r].pc = "refused" => req[r].at <= now /\ now <= req[r].at + Lag

LedgerType ==
  /\ allowAnonymous \in BOOLEAN /\ now \in Nat
  /\ lastLog \in [Addrs -> Nat \cup {Unset}]
  /\ warned \in [Addrs -> [prev : Nat \cup {Unset}, last : Nat \cup {Unset}]]

\* An entry was made by the last WARN, from a reading at most Lag old; the
\* entry of the last WARN is only gone when a window, less Lag, has passed.
LedgerInv ==
  \A a \in Addrs :
    /\ lastLog[a] # Unset => /\ warned[a].last # Unset
                             /\ lastLog[a] <= warned[a].last
                             /\ warned[a].last <= lastLog[a] + Lag
    /\ lastLog[a] = Unset /\ warned[a].last # Unset => now - warned[a].last > Window - Lag

IInv == ReqInv /\ ClockInv /\ LedgerType /\ LedgerInv /\ WarnSpacing

-----------------------------------------------------------------------------
(* Requests.                                                               *)

\* What Authenticate and the gates leave behind when no store is asked.
Settled(route, p, o) ==
  [Idle EXCEPT !.pc = p, !.route = route, !.form = o.form, !.knows = o.knows]

LEMMA SettledReq ==
  ASSUME NEW route \in {"mcp", "portal"}, NEW p \in Pcs, NEW o \in Offers
  PROVE  LET q == Settled(route, p, o)
         IN  /\ q \in ReqType
             /\ q.pc = p /\ q.route = route /\ q.form = o.form /\ q.knows = o.knows
<1>1. o.form \in Forms /\ o.knows \subseteq Stores
  BY AuthChainAssumption DEF Offers
<1>2. <<>> \in Seq(Stores) /\ 0 \in Nat
  OBVIOUS
<1>. QED
  BY <1>1, <1>2 DEF Idle, ReqType, Settled, Readings

\* A new request record that is sound keeps the invariant.
LEMMA ReqUpdate ==
  ASSUME ReqInv, NEW r \in Requests, NEW q \in ReqType, Sound(q),
         req' = [req EXCEPT ![r] = q], allowAnonymous' = allowAnonymous
  PROVE  ReqInv'
<1>1. req' \in [Requests -> ReqType]
  BY DEF ReqInv
<1>2. \A x \in Requests : req'[x] = IF x = r THEN q ELSE req[x]
  BY DEF ReqInv
<1>3. \A x \in Requests : Sound(req'[x])
  BY <1>2 DEF ReqInv
<1>4. \A x \in Requests : Sound(req'[x]) => Sound(req[x])'
  BY DEF Sound
<1>. QED
  BY <1>1, <1>3, <1>4 DEF ReqInv

\* The chain, with a token or without one, on either route.
LEMMA AuthenticateStep ==
  ASSUME ReqInv, allowAnonymous' = allowAnonymous, allowAnonymous \in BOOLEAN,
         NEW r \in Requests, NEW route \in {"mcp", "portal"}, NEW read \in Readings,
         NEW o \in Offers, NEW addr \in Addrs \cup {NoAddr},
         Authenticate(r, route, read, o, addr),
         read = "none" => route = "mcp" /\ o.knows = {},
         read = "blanks" => route = "portal"
  PROVE  ReqInv'
<1> DEFINE order == Order(o.ey /\ read = "token")
<1>0. o.knows \subseteq Configured /\ o.ey \in BOOLEAN /\ Configured \subseteq Stores
  BY AuthChainAssumption DEF Offers
<1>a. order \in Seq(Stores) /\ o.knows \subseteq Asked(order)
  BY <1>0, OrderFacts
<1>1. CASE read = "none"
  <2> DEFINE p == IF allowAnonymous THEN "anonymous" ELSE "denied"
             q == Settled(route, p, o)
  <2>1. p \in Pcs
    BY DEF Pcs
  <2>2. q \in ReqType /\ q.pc = p /\ q.route = route /\ q.knows = o.knows
    BY <2>1, SettledReq
  <2>3. Sound(q)
    BY <1>1, <2>2 DEF Sound
  <2>4. req' = [req EXCEPT ![r] = q]
    BY <1>1 DEF Authenticate, Settle, Settled
  <2>. QED
    BY <2>2, <2>3, <2>4, ReqUpdate
<1>2. CASE read # "none" /\ order = <<>>
  <2> DEFINE q == Settled(route, "denied", o)
  <2>1. o.knows = {}
    BY <1>2, <1>a DEF Asked
  <2>2. q \in ReqType /\ q.pc = "denied" /\ q.knows = {}
    BY <2>1, SettledReq DEF Pcs
  <2>3. Sound(q)
    BY <2>2 DEF Sound
  <2>4. req' = [req EXCEPT ![r] = q]
    BY <1>2 DEF Authenticate, Settle, Settled
  <2>. QED
    BY <2>2, <2>3, <2>4, ReqUpdate
<1>3. CASE read # "none" /\ order # <<>>
  <2> DEFINE q == [Idle EXCEPT !.pc = "ask", !.addr = addr, !.knows = o.knows,
                               !.route = IF read = "token" THEN "mcp" ELSE route,
                               !.read = read, !.todo = order]
  <2>1. read = "token" \/ (read = "blanks" /\ route = "portal")
    BY <1>3 DEF Readings
  <2>2. /\ q \in ReqType /\ q.pc = "ask" /\ q.knows = o.knows /\ q.todo = order
        /\ q.read = read /\ (read = "blanks" => q.route = route)
    BY <1>0, <1>a DEF Idle, ReqType, Pcs, Forms
  <2>3. Sound(q)
    BY <1>3, <1>a, <2>1, <2>2 DEF Sound, Garbled
  <2>4. req' = [req EXCEPT ![r] = q]
    BY <1>3 DEF Authenticate
  <2>. QED
    BY <2>2, <2>3, <2>4, ReqUpdate
<1>. QED
  BY <1>1, <1>2, <1>3

\* Every step keeps the requests sound: the gates read what the chain reads, a
\* refusal takes one store off the list, and only an empty list denies.
LEMMA ReqStep == ReqInv /\ LedgerType /\ [Next]_vars => ReqInv'
<1> SUFFICES ASSUME ReqInv, LedgerType, [Next]_vars PROVE ReqInv'
  OBVIOUS
<1>0. allowAnonymous \in BOOLEAN
  BY DEF LedgerType
<1>1. ASSUME NEW r \in Requests, NEW o \in Offers, NEW addr \in Addrs \cup {NoAddr},
             MCPRequest(r, o, addr)
      PROVE  ReqInv'
  <2>0. o.form \in Forms /\ (o.form \in {"other", "none"} => o.knows = {})
    BY DEF Offers
  <2>1. ~HasCredential(o.form) => o.knows = {}
    BY <2>0 DEF HasCredential, Forms
  <2>2. /\ TokenFromHeader(o.form) \in Readings \ {"blanks"}
        /\ TokenFromHeader(o.form) = "none" => o.knows = {}
    BY <2>0 DEF TokenFromHeader, Forms, Readings
  <2>3. CASE Authenticate(r, "mcp", TokenFromHeader(o.form), o, addr)
    BY <1>0, <1>1, <2>2, <2>3, AuthenticateStep DEF MCPRequest
  <2>4. CASE ~HasCredential(o.form) /\ Settle(r, "mcp", "unauthorized", o)
    <3> DEFINE q == Settled("mcp", "unauthorized", o)
    <3>1. q \in ReqType /\ q.pc = "unauthorized" /\ q.knows = {}
      BY <2>1, <2>4, SettledReq DEF Pcs
    <3>2. Sound(q)
      BY <3>1 DEF Sound
    <3>. QED
      BY <1>1, <2>4, <3>1, <3>2, ReqUpdate DEF Settle, Settled, MCPRequest
  <2>. QED
    BY <1>1, <2>3, <2>4 DEF MCPRequest
<1>2. ASSUME NEW r \in Requests, PortalSession(r) PROVE ReqInv'
  <2> DEFINE q == [req[r] EXCEPT !.pc = "ok"]
  <2>1. req[r] \in ReqType
    BY DEF ReqInv
  <2>2. q \in ReqType /\ q.pc = "ok"
    BY <2>1 DEF ReqType, Pcs
  <2>3. Sound(q)
    BY <2>2 DEF Sound
  <2>. QED
    BY <1>2, <2>2, <2>3, ReqUpdate DEF PortalSession
<1>3. ASSUME NEW r \in Requests, NEW o \in Offers, PortalRequest(r, o) PROVE ReqInv'
  <2>0. o.form \in Forms /\ (o.form \in {"other", "none"} => o.knows = {})
    BY DEF Offers
  <2>1. CASE TokenFromRequest(o.form) # "none"
    <3>1. TokenFromRequest(o.form) \in Readings
      BY <2>0 DEF TokenFromRequest, Forms, Readings
    <3>2. Authenticate(r, "portal", TokenFromRequest(o.form), o, NoAddr)
      BY <1>3, <2>1 DEF PortalRequest
    <3>. QED
      BY <1>0, <1>3, <2>1, <3>1, <3>2, AuthenticateStep DEF PortalRequest
  <2>2. CASE TokenFromRequest(o.form) = "none"
    <3> DEFINE q == Settled("portal", "unauthorized", o)
    <3>1. /\ q \in ReqType /\ q.pc = "unauthorized" /\ q.route = "portal"
          /\ q.form = o.form /\ q.knows = o.knows
      BY SettledReq DEF Pcs
    <3>2. o.form = "BEARER" \/ o.knows = {}
      BY <2>0, <2>2 DEF TokenFromRequest, Forms
    <3>3. Sound(q)
      BY <3>1, <3>2 DEF Sound
    <3>. QED
      BY <1>3, <2>2, <3>1, <3>3, ReqUpdate DEF Settle, Settled, PortalRequest
  <2>. QED
    BY <2>1, <2>2
<1>4. ASSUME NEW r \in Requests, Accept(r) PROVE ReqInv'
  <2> DEFINE q == [Idle EXCEPT !.pc = "ok"]
  <2>0. <<>> \in Seq(Stores)
    OBVIOUS
  <2>1. q \in ReqType /\ q.pc = "ok"
    BY <2>0 DEF Idle, ReqType, Pcs, Forms, Readings
  <2>2. Sound(q)
    BY <2>1 DEF Sound
  <2>. QED
    BY <1>4, <2>1, <2>2, ReqUpdate DEF Accept
<1>5. ASSUME NEW r \in Requests, Refuse(r) PROVE ReqInv'
  <2> DEFINE old == req[r]
             left == IF old.read = "token" THEN old.knows \ {Head(old.todo)} ELSE old.knows
             q == [old EXCEPT !.pc = "refused", !.at = now, !.todo = Tail(old.todo),
                              !.knows = left]
  <2>0. /\ old \in ReqType /\ old.pc = "ask" /\ now \in Nat
        /\ old.todo \in Seq(Stores) /\ old.todo # <<>>
        /\ (old.read = "token" /\ old.knows \subseteq Asked(old.todo)) \/ Garbled(old)
    BY <1>5 DEF ReqInv, Sound, Refuse, LedgerType, ReqType
  <2>1. /\ Tail(old.todo) \in Seq(Stores)
        /\ (old.read = "token" /\ left \subseteq Asked(Tail(old.todo))) \/ Garbled(old)
    BY <2>0, TailAsked
  <2>2. req' = [req EXCEPT ![r] = q]
    BY <1>5, <2>0 DEF Refuse, ReqInv
  <2>3. /\ q \in ReqType /\ q.pc = "refused" /\ q.todo = Tail(old.todo)
        /\ q.knows = left /\ q.route = old.route /\ q.read = old.read
    BY <2>0, <2>1 DEF ReqType, Pcs
  <2>4. Sound(q)
    BY <2>1, <2>3 DEF Sound, Garbled
  <2>. QED
    BY <1>5, <2>2, <2>3, <2>4, ReqUpdate DEF Refuse
<1>6. ASSUME NEW r \in Requests, LogAuthFailure(r) PROVE ReqInv'
  <2> DEFINE old == req[r]
             q == [old EXCEPT !.pc = IF old.todo = <<>> THEN "denied" ELSE "ask", !.at = 0]
  <2>0. /\ old \in ReqType /\ old.pc = "refused"
        /\ (old.read = "token" /\ old.knows \subseteq Asked(old.todo)) \/ Garbled(old)
    BY <1>6 DEF ReqInv, Sound, LogAuthFailure
  <2>1. /\ q \in ReqType /\ q.pc = IF old.todo = <<>> THEN "denied" ELSE "ask"
        /\ q.todo = old.todo /\ q.knows = old.knows
        /\ q.route = old.route /\ q.read = old.read
    BY <2>0 DEF ReqType, Pcs
  <2>2. old.todo = <<>> => old.knows = {} \/ Garbled(old)
    BY <2>0 DEF Asked
  <2>3. Sound(q)
    BY <2>0, <2>1, <2>2 DEF Sound, Garbled
  <2>4. req' = [req EXCEPT ![r] = q]
    BY <1>6, <2>0 DEF LogAuthFailure, ReqInv
  <2>. QED
    BY <1>6, <2>1, <2>3, <2>4, ReqUpdate DEF LogAuthFailure
<1>7. ASSUME NEW r \in Requests, Finish(r) PROVE ReqInv'
  <2>1. Idle \in ReqType /\ Idle.pc = "idle"
    BY DEF Idle, ReqType, Pcs, Forms, Readings
  <2>2. Sound(Idle)
    BY <2>1 DEF Sound
  <2>. QED
    BY <1>7, <2>1, <2>2, ReqUpdate DEF Finish
<1>8. CASE Tick \/ UNCHANGED vars
  BY <1>8 DEF Tick, vars, ReqInv, Sound
<1>. QED
  BY <1>1, <1>2, <1>3, <1>4, <1>5, <1>6, <1>7, <1>8 DEF Next

-----------------------------------------------------------------------------
(* The clock and the ledger.                                               *)

\* No goroutine holds a reading older than Lag.
LEMMA ClockStep == ReqInv /\ LedgerType /\ ClockInv /\ [Next]_vars => ClockInv'
<1> SUFFICES ASSUME ReqInv, LedgerType, ClockInv, [Next]_vars,
                    NEW x \in Requests, req'[x].pc = "refused"
             PROVE  req'[x].at <= now' /\ now' <= req'[x].at + Lag
  BY DEF ClockInv
<1>0. now \in Nat /\ Lag \in Nat /\ req[x] \in ReqType /\ req[x].at \in Nat
  BY AuthChainAssumption DEF ReqInv, ReqType, LedgerType
<1>1. CASE Tick
  BY <1>0, <1>1 DEF Tick, ClockInv
<1>2. ASSUME NEW r \in Requests, Refuse(r) PROVE req'[x].at <= now' /\ now' <= req'[x].at + Lag
  <2>1. CASE x = r
    <3>1. req'[x].at = now /\ now' = now
      BY <1>0, <1>2, <2>1 DEF Refuse, ReqInv, ReqType
    <3>. QED
      BY <1>0, <3>1
  <2>2. CASE x # r
    BY <1>2, <2>2 DEF Refuse, ReqInv, ClockInv
  <2>. QED
    BY <2>1, <2>2
<1>3. ASSUME NEW r \in Requests, req'[r].pc # "refused", now' = now,
             \A y \in Requests \ {r} : req'[y] = req[y]
      PROVE  req'[x].at <= now' /\ now' <= req'[x].at + Lag
  BY <1>3 DEF ClockInv
<1>4. ASSUME NEW r \in Requests, NEW o \in Offers, NEW addr \in Addrs \cup {NoAddr},
             MCPRequest(r, o, addr) \/ PortalRequest(r, o)
      PROVE  /\ req'[r].pc # "refused" /\ now' = now
             /\ \A y \in Requests \ {r} : req'[y] = req[y]
  BY <1>4 DEF MCPRequest, PortalRequest, Authenticate, Settle, Idle, ReqInv
<1>5. ASSUME NEW r \in Requests,
             PortalSession(r) \/ Accept(r) \/ LogAuthFailure(r) \/ Finish(r)
      PROVE  /\ req'[r].pc # "refused" /\ now' = now
             /\ \A y \in Requests \ {r} : req'[y] = req[y]
  BY <1>5 DEF PortalSession, Accept, LogAuthFailure, Finish, Idle, ReqInv, ReqType
<1>6. CASE UNCHANGED vars
  BY <1>6 DEF vars, ClockInv
<1>. QED
  BY <1>1, <1>2, <1>3, <1>4, <1>5, <1>6 DEF Next

\* The ledger that shouldWarn has swept with a reading at most Lag old: what
\* is left of it is unchanged, and what is gone was a window old.
LEMMA EvictedFacts ==
  ASSUME LedgerType, LedgerInv, NEW t \in Nat, t <= now, NEW a \in Addrs
  PROVE  /\ Evicted(t) \in [Addrs -> Nat \cup {Unset}]
         /\ Evicted(t)[a] # Unset => Evicted(t)[a] = lastLog[a] /\ t - lastLog[a] <= Window
         /\ Evicted(t)[a] = Unset /\ warned[a].last # Unset =>
              now - warned[a].last > Window - Lag
<1>0. /\ lastLog[a] \in Nat \cup {Unset} /\ warned[a].last \in Nat \cup {Unset}
      /\ now \in Nat /\ Lag \in Nat /\ Window \in Nat
  BY AuthChainAssumption DEF LedgerType
<1>1. Evicted(t) \in [Addrs -> Nat \cup {Unset}]
  BY DEF LedgerType, Evicted
<1>2. Evicted(t)[a] = IF lastLog[a] # Unset /\ t - lastLog[a] > Window THEN Unset ELSE lastLog[a]
  BY DEF Evicted
<1>3. CASE lastLog[a] # Unset /\ t - lastLog[a] > Window
  <2>1. warned[a].last # Unset /\ warned[a].last <= lastLog[a] + Lag
    BY <1>3 DEF LedgerInv
  <2>2. now - warned[a].last > Window - Lag
    BY <1>0, <1>3, <2>1 DEF Unset
  <2>. QED
    BY <1>1, <1>2, <1>3, <2>2
<1>4. CASE ~(lastLog[a] # Unset /\ t - lastLog[a] > Window)
  BY <1>0, <1>1, <1>2, <1>4 DEF LedgerInv, Unset
<1>. QED
  BY <1>3, <1>4

\* What logAuthFailure does: nothing to the ledger for a request without an
\* address, a WARN and an entry of the reading, or a demoted line.
LEMMA LogCases ==
  ASSUME ReqInv, LedgerType, NEW r \in Requests, LogAuthFailure(r)
  PROVE  LET a == req[r].addr
             t == req[r].at
             kept == Evicted(t)
         IN  \/ /\ a = NoAddr /\ lastLog' = lastLog /\ warned' = warned
             \/ /\ a \in Addrs /\ kept[a] = Unset
                /\ lastLog' = [kept EXCEPT ![a] = t]
                /\ warned' = [warned EXCEPT ![a] = [prev |-> warned[a].last, last |-> now]]
             \/ /\ a \in Addrs /\ kept[a] # Unset
                /\ lastLog' = kept /\ warned' = warned
<1>1. req[r].addr \in Addrs \cup {NoAddr} /\ NoAddr \notin Addrs
  BY AuthChainAssumption DEF ReqInv, ReqType
<1>. QED
  BY <1>1 DEF LogAuthFailure, Touched, ShouldWarn

\* Every step keeps the ledger in its type and in agreement with the WARN
\* lines that were written, and keeps those a window apart.
LEMMA LedgerStep ==
  ReqInv /\ ClockInv /\ LedgerType /\ LedgerInv /\ WarnSpacing /\ [Next]_vars
    => LedgerType' /\ LedgerInv' /\ WarnSpacing'
<1> SUFFICES ASSUME ReqInv, ClockInv, LedgerType, LedgerInv, WarnSpacing, [Next]_vars
             PROVE  LedgerType' /\ LedgerInv' /\ WarnSpacing'
  OBVIOUS
<1>0. /\ now \in Nat /\ Lag \in Nat /\ Window \in Nat
      /\ \A a \in Addrs : /\ lastLog[a] \in Nat \cup {Unset}
                          /\ warned[a].last \in Nat \cup {Unset}
                          /\ warned[a].prev \in Nat \cup {Unset}
  BY AuthChainAssumption DEF LedgerType
<1>1. CASE Tick
  <2>1. LedgerType'
    BY <1>0, <1>1 DEF Tick, LedgerType
  <2>2. LedgerInv'
    BY <1>0, <1>1 DEF Tick, LedgerInv, Unset
  <2>3. WarnSpacing'
    BY <1>1 DEF Tick, WarnSpacing
  <2>. QED
    BY <2>1, <2>2, <2>3
<1>2. ASSUME NEW r \in Requests, LogAuthFailure(r)
      PROVE  LedgerType' /\ LedgerInv' /\ WarnSpacing'
  <2> DEFINE a == req[r].addr
             t == req[r].at
             kept == Evicted(t)
  <2>0. /\ t \in Nat /\ t <= now /\ now <= t + Lag
        /\ now' = now /\ allowAnonymous' = allowAnonymous
    BY <1>2 DEF LogAuthFailure, ReqInv, ReqType, ClockInv
  <2>1. CASE lastLog' = lastLog /\ warned' = warned
    BY <2>0, <2>1 DEF LedgerType, LedgerInv, WarnSpacing
  <2>2. CASE /\ a \in Addrs /\ kept[a] # Unset
             /\ lastLog' = kept /\ warned' = warned
    <3>1. LedgerType'
      BY <2>0, <2>2, EvictedFacts DEF LedgerType
    <3>2. LedgerInv'
      BY <2>0, <2>2, EvictedFacts DEF LedgerInv
    <3>. QED
      BY <2>2, <3>1, <3>2 DEF WarnSpacing
  <2>3. CASE /\ a \in Addrs /\ kept[a] = Unset
             /\ lastLog' = [kept EXCEPT ![a] = t]
             /\ warned' = [warned EXCEPT ![a] = [prev |-> warned[a].last, last |-> now]]
    <3>0. kept \in [Addrs -> Nat \cup {Unset}]
      BY <2>0, <2>3, EvictedFacts
    <3>1. /\ lastLog'[a] = t /\ warned'[a].last = now /\ warned'[a].prev = warned[a].last
          /\ \A b \in Addrs \ {a} : lastLog'[b] = kept[b] /\ warned'[b] = warned[b]
      BY <2>3, <3>0 DEF LedgerType
    <3>2. LedgerType'
      BY <1>0, <2>0, <2>3, <3>0 DEF LedgerType
    <3>3. ASSUME NEW b \in Addrs
          PROVE  /\ lastLog'[b] # Unset => /\ warned'[b].last # Unset
                                           /\ lastLog'[b] <= warned'[b].last
                                           /\ warned'[b].last <= lastLog'[b] + Lag
                 /\ lastLog'[b] = Unset /\ warned'[b].last # Unset =>
                      now' - warned'[b].last > Window - Lag
      <4>1. CASE b = a
        BY <1>0, <2>0, <3>1, <4>1 DEF Unset
      <4>2. CASE b # a
        <5>1. lastLog'[b] = kept[b] /\ warned'[b] = warned[b]
          BY <3>1, <4>2
        <5>. QED
          BY <2>0, <5>1, EvictedFacts DEF LedgerInv
      <4>. QED
        BY <4>1, <4>2
    <3>4. ASSUME NEW b \in Addrs, warned'[b].prev # Unset
          PROVE  warned'[b].last - warned'[b].prev > Window - Lag
      <4>1. CASE b = a
        <5>1. now - warned[a].last > Window - Lag
          BY <2>0, <2>3, <3>1, <3>4, <4>1, EvictedFacts
        <5>. QED
          BY <3>1, <4>1, <5>1
      <4>2. CASE b # a
        BY <3>1, <3>4, <4>2 DEF WarnSpacing
      <4>. QED
        BY <4>1, <4>2
    <3>. QED
      BY <3>2, <3>3, <3>4 DEF LedgerInv, WarnSpacing
  <2>. QED
    BY <1>2, <2>1, <2>2, <2>3, LogCases
<1>3. CASE UNCHANGED <<allowAnonymous, now, lastLog, warned>>
  BY <1>3 DEF LedgerType, LedgerInv, WarnSpacing
<1>. QED
  BY <1>1, <1>2, <1>3 DEF Next, MCPRequest, PortalSession, PortalRequest, Accept, Refuse,
                          Finish, vars

-----------------------------------------------------------------------------
(* The invariant, and what follows from it.                                *)

LEMMA InitIInv == Init => IInv
<1> SUFFICES ASSUME Init PROVE IInv
  OBVIOUS
<1>0. <<>> \in Seq(Stores) /\ 0 \in Nat
  OBVIOUS
<1>1. Idle \in ReqType /\ Idle.pc = "idle"
  BY <1>0 DEF Idle, ReqType, Pcs, Forms, Readings
<1>2. Sound(Idle)
  BY <1>1 DEF Sound
<1>3. ReqInv /\ ClockInv
  BY <1>1, <1>2 DEF Init, ReqInv, ClockInv
<1>4. \A a \in Addrs : lastLog[a] = Unset /\ warned[a].prev = Unset /\ warned[a].last = Unset
  BY DEF Init
<1>5. LedgerType
  BY DEF Init, LedgerType
<1>6. LedgerInv /\ WarnSpacing
  BY <1>4 DEF LedgerInv, WarnSpacing
<1>. QED
  BY <1>3, <1>5, <1>6 DEF IInv

LEMMA SpecIInv == Spec => []IInv
<1>1. IInv /\ [Next]_vars => IInv'
  BY ReqStep, ClockStep, LedgerStep DEF IInv
<1>. QED
  BY <1>1, InitIInv, PTL DEF Spec

\* The variables keep their types, and a request that waits for a store has
\* one to wait for.
THEOREM TypeCorrect == Spec => []TypeOK
<1>1. IInv => TypeOK
  BY DEF IInv, ReqInv, Sound, LedgerType, ReqType, TypeOK
<1>. QED
  BY <1>1, SpecIInv, PTL

\* Two WARN lines about an address are more than a window, less the age of a
\* reading, apart, however requests interleave (failureRateLimiter.shouldWarn).
THEOREM WarnsAreSpaced == Spec => []WarnSpacing
<1>1. IInv => WarnSpacing
  BY DEF IInv
<1>. QED
  BY <1>1, SpecIInv, PTL

\* A refusal that is only logged at DEBUG follows a WARN about its address that
\* is at most a window, and the age of a reading, old.
THEOREM DemotionsFollowWarns == Spec => DemotedAfterWarn
<1>1. ASSUME IInv, NEW r \in Requests, LogAuthFailure(r), req[r].addr # NoAddr,
             warned' = warned
      PROVE  warned[req[r].addr].last # Unset /\ now - warned[req[r].addr].last <= Window + Lag
  <2> DEFINE a == req[r].addr
             t == req[r].at
  <2>0. /\ t \in Nat /\ t <= now /\ now <= t + Lag /\ a \in Addrs
        /\ now \in Nat /\ Lag \in Nat /\ Window \in Nat
        /\ lastLog[a] \in Nat \cup {Unset} /\ warned[a].last \in Nat \cup {Unset}
    BY <1>1, AuthChainAssumption
       DEF IInv, LogAuthFailure, ReqInv, ReqType, ClockInv, LedgerType
  <2>1. CASE Evicted(t)[a] = Unset
    <3>1. warned' = [warned EXCEPT ![a] = [prev |-> warned[a].last, last |-> now]]
      BY <1>1, <2>0, <2>1, LogCases DEF IInv
    <3>2. warned[a].last = now
      BY <1>1, <2>0, <3>1 DEF IInv, LedgerType
    <3>. QED
      BY <2>0, <3>2 DEF Unset
  <2>2. CASE Evicted(t)[a] # Unset
    <3>1. lastLog[a] # Unset /\ t - lastLog[a] <= Window
      BY <2>0, <2>2, <1>1, EvictedFacts DEF IInv
    <3>2. warned[a].last # Unset /\ lastLog[a] <= warned[a].last
      BY <1>1, <2>0, <3>1 DEF IInv, LedgerInv
    <3>. QED
      BY <2>0, <3>1, <3>2 DEF Unset
  <2>. QED
    BY <2>1, <2>2
<1>2. IInv => [\A r \in Requests :
                 LET a == req[r].addr
                 IN  LogAuthFailure(r) /\ a # NoAddr /\ warned' = warned
                       => warned[a].last # Unset /\ now - warned[a].last <= Window + Lag]_vars
  BY <1>1
<1>. QED
  BY <1>2, SpecIInv, PTL DEF DemotedAfterWarn

\* A request is denied only when every store that knows its token has failed on
\* it, on both routes, except on the portal, for a BEARER in capitals and for a
\* token with blanks in front, which the portal does not trim (Chain.Authenticate,
\* MCPAuthGateway, PortalAuth.Middleware).
THEOREM DenialsAreJustified == Spec => []DenialJustified
<1>1. IInv => DenialJustified
  BY DEF IInv, ReqInv, Sound, Garbled, DenialJustified
<1>. QED
  BY <1>1, SpecIInv, PTL

\* The portal never serves an anonymous caller.
THEOREM PortalIsNeverAnonymous == Spec => []AnonymousOnlyOnMCP
<1>1. IInv => AnonymousOnlyOnMCP
  BY DEF IInv, ReqInv, Sound, AnonymousOnlyOnMCP
<1>. QED
  BY <1>1, SpecIInv, PTL

=============================================================================
