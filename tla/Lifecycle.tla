------------------------------ MODULE Lifecycle ------------------------------
(***************************************************************************)
(* The life of the server process: Application.Run and Application.Close   *)
(* (internal/server/server.go), called by run in cmd/mcp-test/main.go,     *)
(* composed with the audit pipeline of module AsyncLogger.                 *)
(*                                                                         *)
(* Requests arrive over the HTTP listener.  A tool call e writes one audit *)
(* event, which bears its name; other requests write none.  Any request    *)
(* may hold a connection of the pool for a while: Authenticate does while  *)
(* it compares hashes, an export while its client reads a page.  A         *)
(* live-tail request s holds subscription s for as long as its handler     *)
(* runs.  A signal makes Run flip readiness, wait, shut the HTTP server    *)
(* down within the grace period and return; main's deferred Close then     *)
(* drains the pipeline and closes the pool, which waits for every          *)
(* connection.                                                             *)
(***************************************************************************)
EXTENDS AsyncLogger

CONSTANTS
  MaxSignals,   \* bound: signals sent to the process
  MaxConns      \* connections that requests can have out of the pool at once

ASSUME LifecycleAssumption == MaxSignals \in Nat \ {0} /\ MaxConns \in Nat

VARIABLES
  run,          \* where main is: Run's phases, then Close, then the end
  runErr,       \* what Run returned
  signals,      \* SIGINT/SIGTERM received; the first cancels ctx
  ready,        \* Readiness.ready
  listener,     \* the HTTP listener
  delayOver,    \* PreShutdownDelay has elapsed
  graceOver,    \* GracePeriod has elapsed
  handler,      \* handler[e]: the request whose audit event is e
  pool,         \* the database pool
  conns,        \* the requests that hold one of its connections
  since         \* history: the events broadcast had passed when tail s subscribed

lifeVars == <<run, runErr, signals, ready, listener, delayOver, graceOver, handler, pool, conns, since>>
allVars  == <<vars, lifeVars>>

LifeInit ==
  /\ Init
  /\ run = "serving" /\ runErr = "none"
  /\ signals = 0 /\ ready = TRUE /\ listener = "open"
  /\ delayOver = FALSE /\ graceOver = FALSE
  /\ handler = [e \in Events |-> "none"]
  /\ pool = "open" /\ conns = {}
  /\ since = [s \in Subscribers |-> 0]

-----------------------------------------------------------------------------
(* Requests.                                                               *)

\* net/http accepts a request and starts its handler.
Arrive(e) ==
  /\ listener = "open" /\ handler[e] = "none"
  /\ handler' = [handler EXCEPT ![e] = "running"]
  /\ UNCHANGED <<vars, run, runErr, signals, ready, listener, delayOver, graceOver, pool, conns, since>>

\* The client of a tool call goes away.  The HTTP handler returns; the MCP
\* server's goroutine for the call runs on and will still log.
ClientGone(e) ==
  /\ handler[e] = "running" /\ caller[e] = "idle"
  /\ handler' = [handler EXCEPT ![e] = "detached"]
  /\ UNCHANGED <<vars, run, runErr, signals, ready, listener, delayOver, graceOver, pool, conns, since>>

\* A request takes a connection for a query.  A pool that is being closed
\* gives none.
TakeConn(e) ==
  /\ handler[e] \in {"running", "detached"} /\ caller[e] = "idle"
  /\ e \notin conns /\ Cardinality(conns) < MaxConns /\ pool = "open"
  /\ conns' = conns \cup {e}
  /\ UNCHANGED <<vars, run, runErr, signals, ready, listener, delayOver, graceOver, handler, pool, since>>

\* It has read its rows and gives the connection back.  An export whose client
\* stopped reading never gets here: the server sets no write timeout.
GiveConn(e) ==
  /\ e \in conns
  /\ conns' = conns \ {e}
  /\ UNCHANGED <<vars, run, runErr, signals, ready, listener, delayOver, graceOver, handler, pool, since>>

HandlerLog(e) ==
  /\ handler[e] \in {"running", "detached"} /\ e \notin conns
  /\ Log(e)
  /\ UNCHANGED lifeVars

\* The handler returns: it has logged, or it is not one that logs (a portal
\* read, a request that the gate refused).
HandlerDone(e) ==
  /\ handler[e] = "running" /\ e \notin conns /\ caller[e] \in {"idle", "done"}
  /\ handler' = [handler EXCEPT ![e] = "done"]
  /\ UNCHANGED <<vars, run, runErr, signals, ready, listener, delayOver, graceOver, pool, conns, since>>

StreamOpen(s) ==
  /\ listener = "open"
  /\ Subscribe(s)
  /\ since' = [since EXCEPT ![s] = IF pc = "snapshot" THEN Len(store) - 1 ELSE Len(store)]
  /\ UNCHANGED <<run, runErr, signals, ready, listener, delayOver, graceOver, handler, pool, conns>>

\* auditStream's loop, and its deferred cancel once the client is gone.
StreamStep(s) ==
  /\ Consume(s) \/ CancelRemove(s) \/ CloseOnce(s)
  /\ UNCHANGED lifeVars

-----------------------------------------------------------------------------
(* Run.                                                                    *)

Signal ==
  /\ signals < MaxSignals
  /\ signals' = signals + 1
  /\ UNCHANGED <<vars, run, runErr, ready, listener, delayOver, graceOver, handler, pool, conns, since>>

ListenerFail ==
  /\ listener = "open"
  /\ listener' = "failed"
  /\ UNCHANGED <<vars, run, runErr, signals, ready, delayOver, graceOver, handler, pool, conns, since>>

RunListenerError ==
  /\ run = "serving" /\ listener = "failed"
  /\ run' = "returned" /\ runErr' = "error"
  /\ UNCHANGED <<vars, signals, ready, listener, delayOver, graceOver, handler, pool, conns, since>>

RunSignal ==
  /\ run = "serving" /\ signals > 0
  /\ ready' = FALSE
  /\ run' = "delay"
  /\ UNCHANGED <<vars, runErr, signals, listener, delayOver, graceOver, handler, pool, conns, since>>

DelayTimer ==
  /\ run = "delay" /\ ~delayOver
  /\ delayOver' = TRUE
  /\ UNCHANGED <<vars, run, runErr, signals, ready, listener, graceOver, handler, pool, conns, since>>

\* The select of the pre-shutdown delay takes any ready case: the timer, the
\* listener's error, or ctx.Done(), which has been ready since the first
\* signal.  Shutdown then closes the listener before it waits.
EndDelay ==
  /\ run = "delay"
  /\ delayOver \/ listener = "failed" \/ signals > 0
  /\ run' = "shutdown"
  /\ listener' = IF listener = "open" THEN "closed" ELSE listener
  /\ UNCHANGED <<vars, runErr, signals, ready, delayOver, graceOver, handler, pool, conns, since>>

GraceTimer ==
  /\ run = "shutdown" /\ ~graceOver
  /\ graceOver' = TRUE
  /\ UNCHANGED <<vars, run, runErr, signals, ready, listener, delayOver, handler, pool, conns, since>>

\* No HTTP handler is active: no tool call, no live tail.
Idle ==
  /\ \A e \in Events : handler[e] # "running"
  /\ \A s \in Subscribers : phase[s] \in {"new", "closed"}

\* Mutated form of ShutdownDone: the handlers are not waited for.
ShutdownAtOnce ==
  /\ run = "shutdown"
  /\ run' = "returned" /\ runErr' = "nil"
  /\ UNCHANGED <<vars, signals, ready, listener, delayOver, graceOver, handler, pool, conns, since>>

ShutdownDone ==
  /\ run = "shutdown" /\ Idle
  /\ run' = "returned" /\ runErr' = "nil"
  /\ UNCHANGED <<vars, signals, ready, listener, delayOver, graceOver, handler, pool, conns, since>>

ShutdownTimeout ==
  /\ run = "shutdown" /\ graceOver
  /\ run' = "returned" /\ runErr' = "error"
  /\ UNCHANGED <<vars, signals, ready, listener, delayOver, graceOver, handler, pool, conns, since>>

-----------------------------------------------------------------------------
(* main's deferred Application.Close, and the end of the process.          *)

CloseAudit ==
  /\ run = "returned"
  /\ Close
  /\ UNCHANGED lifeVars

\* Mutated form of ClosePool: the pool is closed without waiting for the worker.
ClosePoolEarly ==
  /\ run = "returned" /\ stop /\ pool = "open"
  /\ pool' = "closing"
  /\ UNCHANGED <<vars, run, runErr, signals, ready, listener, delayOver, graceOver, handler, conns, since>>

\* pool.Close gives out no more connections ...
ClosePool ==
  /\ run = "returned" /\ pc = "exited" /\ pool = "open"
  /\ pool' = "closing"
  /\ UNCHANGED <<vars, run, runErr, signals, ready, listener, delayOver, graceOver, handler, conns, since>>

\* ... and returns when the last one is back.
PoolClosed ==
  /\ pool = "closing" /\ conns = {}
  /\ pool' = "closed"
  /\ UNCHANGED <<vars, run, runErr, signals, ready, listener, delayOver, graceOver, handler, conns, since>>

ProcessExit ==
  /\ run = "returned" /\ pool = "closed"
  /\ run' = "exited"
  /\ UNCHANGED <<vars, runErr, signals, ready, listener, delayOver, graceOver, handler, pool, conns, since>>

WorkerStep == Worker /\ UNCHANGED lifeVars

Main ==
  \/ RunListenerError \/ RunSignal \/ EndDelay \/ ShutdownDone \/ ShutdownTimeout
  \/ CloseAudit \/ ClosePool \/ PoolClosed \/ ProcessExit

LifeNext ==
  /\ run # "exited"
  /\ \/ \E e \in Events : \/ Arrive(e) \/ ClientGone(e) \/ HandlerLog(e) \/ HandlerDone(e)
                         \/ TakeConn(e) \/ GiveConn(e)
     \/ \E s \in Subscribers : StreamOpen(s) \/ StreamStep(s)
     \/ Signal \/ ListenerFail \/ DelayTimer \/ GraceTimer
     \/ Main
     \/ WorkerStep

\* The scheduler runs main and the worker, inner.Log returns because its
\* context expires, and the grace timer fires.  Nothing is
\* assumed of clients or of the database: tool calls may run, live tails stay
\* open and connections stay taken forever.
LifeSpec ==
  /\ LifeInit /\ [][LifeNext]_allVars
  /\ WF_allVars(run # "exited" /\ Main)
  /\ WF_allVars(run # "exited" /\ WorkerStep)
  /\ WF_allVars(run # "exited" /\ GraceTimer)

-----------------------------------------------------------------------------
(* Properties.                                                             *)

\* The type of every variable of the composition.
LifeTypeOK ==
  /\ TypeOK
  /\ run \in {"serving", "delay", "shutdown", "returned", "exited"}
  /\ runErr \in {"none", "nil", "error"}
  /\ signals \in 0 .. MaxSignals
  /\ ready \in BOOLEAN /\ delayOver \in BOOLEAN /\ graceOver \in BOOLEAN
  /\ listener \in {"open", "failed", "closed"}
  /\ handler \in [Events -> {"none", "running", "detached", "done"}]
  /\ pool \in {"open", "closing", "closed"} /\ conns \subseteq Events
  /\ since \in [Subscribers -> Nat]

\* After a shutdown that Run calls clean, no audit event of a completed
\* request is left in the channel: Shutdown has waited for the handlers, and
\* Close for the worker.  Only a call whose client had gone may be missing.
CleanShutdownLosesNothing ==
  run = "exited" /\ runErr = "nil" => \A e \in Waiting : handler[e] = "detached"

\* Application.Close drains the audit queue before it closes the pool, so the
\* worker never writes through a closed pool.
NoWriteAfterPoolClose == pc \in {"write", "snapshot", "send"} => pool = "open"

\* pool.Close waits for a connection that a request has not given back.
CloseWaits == pool = "closing" /\ conns # {}

\* A signal or the loss of the listener brings the process down, unless a
\* request keeps its connection: Shutdown gives up on handlers that do not
\* return and Close does not wait for live tails, but pool.Close waits
\* without end, be it for an export whose client stopped reading or for the
\* requests that wait for each other in touchLastUsed.  A signal stays, so the
\* formula also says that the process ends once the last connection is back.
SignalEndsProcess ==
  (signals > 0 \/ listener = "failed") ~> (run = "exited" \/ CloseWaits)

\* A live tail shows no history: every event it was sent had not been through
\* broadcast's copy of the registry when the tail subscribed.  The one event
\* that was stored but not yet copied may still reach it.
TailFresh ==
  \A s \in Subscribers : \A i \in 1 .. Len(delivered[s]) :
    \E n \in (since[s] + 1) .. Len(store) : store[n] = delivered[s][i]

\* What the comment of Run says: the shutdown starts after PreShutdownDelay,
\* unless a second signal or a listener error cut the wait short.
PreShutdownDelayHonoured ==
  run = "shutdown" => delayOver \/ signals > 1 \/ listener = "failed"

=============================================================================
