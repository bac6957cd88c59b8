----------------------------- MODULE AsyncLogger -----------------------------
(***************************************************************************)
(* The asynchronous audit pipeline: audit.AsyncLogger (pkg/audit/async.go).*)
(*                                                                         *)
(* Request goroutines call Log, which puts the event into a bounded Go     *)
(* channel or drops it.  One worker goroutine (run) takes events off the   *)
(* channel, writes each with the inner Logger and, when the write reported *)
(* success, broadcasts the event to the live-tail subscribers.  Close      *)
(* makes the worker drain the channel and waits for it to return.          *)
(*                                                                         *)
(* Every step below is one atomic access to shared state: a channel        *)
(* operation, or one critical section of a.mu, subsMu or subscriber.mu.    *)
(*                                                                         *)
(* A channel is an immutable log with a read index: the events a.ch ever   *)
(* took are "accepted", of which the first "taken" have been received; a   *)
(* subscriber's channel is "delivered[s]", of which rd[s] have been read.  *)
(***************************************************************************)
EXTENDS Naturals, Sequences, FiniteSets

CONSTANTS
  Events,        \* audit events; each is passed to Log at most once
  Subscribers,   \* live-tail subscriptions; each Subscribe call makes one
  BufferSize,    \* capacity of a.ch
  SubBuf,        \* capacity of a subscriber's channel
  None           \* "the worker holds no event"

ASSUME AsyncLoggerAssumption ==
  /\ BufferSize \in Nat \ {0}
  /\ SubBuf \in Nat \ {0}
  /\ None \notin Events

VARIABLES
  caller,     \* caller[e]: where the goroutine calling Log(e) is
  accepted,   \* every event a.ch took, in order
  taken,      \* how many of them the worker has received
  dropped,    \* a.dropped
  stop,       \* a.stop has been closed
  atStop,     \* history: Len(accepted) when a.stop was closed
  pc,         \* where the worker is
  draining,   \* the worker has seen a.stop: it is in run's inner loop
  cur,        \* the event write is working on
  targets,    \* subscribers broadcast has copied and not yet sent to
  store,      \* what the inner Logger holds, in write order
  failed,     \* events whose write reported an error (the warning in write)
  phase,      \* phase[s]: life cycle of subscription s
  delivered,  \* everything ever put in the channel of s
  rd          \* how much of it the consumer has read

callVars   == <<caller, accepted, dropped>>
workerVars == <<taken, pc, draining, cur, targets, store, failed>>
subVars    == <<phase, delivered, rd>>
vars == <<callVars, stop, atStop, workerVars, subVars>>

Elems(q) == {q[i] : i \in 1 .. Len(q)}

\* The number of events waiting in a.ch.
Queued == Len(accepted) - taken

\* The events still waiting in a.ch.
Waiting == {accepted[i] : i \in (taken + 1) .. Len(accepted)}

\* a.subs: a subscription is in the registry from Subscribe until the first
\* critical section of its cancel function.
Registered == {s \in Subscribers : phase[s] = "active"}

Init ==
  /\ caller = [e \in Events |-> "idle"]
  /\ accepted = <<>> /\ taken = 0 /\ dropped = 0
  /\ stop = FALSE /\ atStop = 0
  /\ pc = "recv" /\ draining = FALSE /\ cur = None /\ targets = {}
  /\ store = <<>> /\ failed = {}
  /\ phase = [s \in Subscribers |-> "new"]
  /\ delivered = [s \in Subscribers |-> <<>>]
  /\ rd = [s \in Subscribers |-> 0]

-----------------------------------------------------------------------------
(* Log: the non-blocking send, or, on a full channel, the counted drop.    *)

\* Mutated form of LogEnqueue: the capacity is off by one.
LogEnqueueOverfull(e) ==
  /\ caller[e] = "idle"
  /\ Queued <= BufferSize
  /\ accepted' = Append(accepted, e)
  /\ caller' = [caller EXCEPT ![e] = "done"]
  /\ UNCHANGED <<dropped, stop, atStop, workerVars, subVars>>

LogEnqueue(e) ==
  /\ caller[e] = "idle"
  /\ Queued < BufferSize
  /\ accepted' = Append(accepted, e)
  /\ caller' = [caller EXCEPT ![e] = "done"]
  /\ UNCHANGED <<dropped, stop, atStop, workerVars, subVars>>

\* The select took its default branch; a.dropped is not yet incremented.
LogFull(e) ==
  /\ caller[e] = "idle"
  /\ Queued = BufferSize
  /\ caller' = [caller EXCEPT ![e] = "full"]
  /\ UNCHANGED <<accepted, dropped, stop, atStop, workerVars, subVars>>

\* Mutated form of LogDrop: the drop is not counted.
LogDropUncounted(e) ==
  /\ caller[e] = "full"
  /\ caller' = [caller EXCEPT ![e] = "done"]
  /\ UNCHANGED <<accepted, dropped, stop, atStop, workerVars, subVars>>

LogDrop(e) ==
  /\ caller[e] = "full"
  /\ dropped' = dropped + 1
  /\ caller' = [caller EXCEPT ![e] = "done"]
  /\ UNCHANGED <<accepted, stop, atStop, workerVars, subVars>>

Log(e) == LogEnqueue(e) \/ LogFull(e) \/ LogDrop(e)

-----------------------------------------------------------------------------
(* Close: stopOnce closes a.stop; wg.Wait returns when pc = "exited".      *)

Close ==
  /\ ~stop
  /\ stop' = TRUE
  /\ atStop' = Len(accepted)
  /\ UNCHANGED <<callVars, workerVars, subVars>>

-----------------------------------------------------------------------------
(* run: the worker's two receive loops.  The outer select takes either     *)
(* ready case; the inner one only leaves when the channel is empty.        *)

Receive ==
  /\ pc = "recv"
  /\ Queued > 0
  /\ taken' = taken + 1
  /\ cur' = accepted[taken + 1]
  /\ pc' = "write"
  /\ UNCHANGED <<callVars, stop, atStop, draining, targets, store, failed, subVars>>

SeeStop ==
  /\ pc = "recv" /\ ~draining
  /\ stop
  /\ draining' = TRUE
  /\ UNCHANGED <<callVars, stop, atStop, taken, pc, cur, targets, store, failed, subVars>>

\* Mutated form of Exit: stop ends the worker at once.
ExitUndrained ==
  /\ pc = "recv" /\ draining
  /\ pc' = "exited"
  /\ UNCHANGED <<callVars, stop, atStop, taken, draining, cur, targets, store, failed, subVars>>

Exit ==
  /\ pc = "recv" /\ draining
  /\ Queued = 0
  /\ pc' = "exited"
  /\ UNCHANGED <<callVars, stop, atStop, taken, draining, cur, targets, store, failed, subVars>>

-----------------------------------------------------------------------------
(* write: the inner Log under its timeout.  It may succeed, fail without   *)
(* a trace, or report an error although the row was committed (the reply   *)
(* to the commit was lost or late).                                        *)

WriteOK ==
  /\ pc = "write"
  /\ store' = Append(store, cur)
  /\ pc' = "snapshot"
  /\ UNCHANGED <<callVars, stop, atStop, taken, draining, cur, targets, failed, subVars>>

\* Mutated form of WriteError: an error is retried.
WriteErrorRetried(committed) ==
  /\ pc = "write"
  /\ store' = IF committed THEN Append(store, cur) ELSE store
  /\ failed' = failed \cup {cur}
  /\ UNCHANGED <<callVars, stop, atStop, taken, pc, draining, cur, targets, subVars>>

\* Mutated form of WriteError: the return after the warning is missing, so the
\* event is broadcast all the same.
WriteErrorBroadcast(committed) ==
  /\ pc = "write"
  /\ store' = IF committed THEN Append(store, cur) ELSE store
  /\ failed' = failed \cup {cur}
  /\ pc' = "snapshot"
  /\ UNCHANGED <<callVars, stop, atStop, taken, draining, cur, targets, subVars>>

WriteError(committed) ==
  /\ pc = "write"
  /\ store' = IF committed THEN Append(store, cur) ELSE store
  /\ failed' = failed \cup {cur}
  /\ cur' = None
  /\ pc' = "recv"
  /\ UNCHANGED <<callVars, stop, atStop, taken, draining, targets, subVars>>

-----------------------------------------------------------------------------
(* broadcast: copy the registry under subsMu, then send to each copy.      *)
(* The sends go in registry order; the model lets them go in any order.    *)

Snapshot ==
  /\ pc = "snapshot"
  /\ targets' = Registered
  /\ pc' = "send"
  /\ UNCHANGED <<callVars, stop, atStop, taken, draining, cur, store, failed, subVars>>

\* Mutated form of Send: the closed flag is not looked at.
SendUnchecked(s) ==
  /\ pc = "send" /\ s \in targets
  /\ targets' = targets \ {s}
  /\ delivered' = IF Len(delivered[s]) - rd[s] < SubBuf
                  THEN [delivered EXCEPT ![s] = Append(@, cur)]
                  ELSE delivered
  /\ UNCHANGED <<callVars, stop, atStop, taken, pc, draining, cur, store, failed, phase, rd>>

\* Mutated form of Send: it waits for room in the subscriber's channel.
SendBlocking(s) ==
  /\ pc = "send" /\ s \in targets
  /\ phase[s] = "closed" \/ Len(delivered[s]) - rd[s] < SubBuf
  /\ targets' = targets \ {s}
  /\ delivered' = IF phase[s] # "closed"
                  THEN [delivered EXCEPT ![s] = Append(@, cur)]
                  ELSE delivered
  /\ UNCHANGED <<callVars, stop, atStop, taken, pc, draining, cur, store, failed, phase, rd>>

\* subscriber.send, under subscriber.mu: nothing when closed or full.
Send(s) ==
  /\ pc = "send" /\ s \in targets
  /\ targets' = targets \ {s}
  /\ delivered' = IF phase[s] # "closed" /\ Len(delivered[s]) - rd[s] < SubBuf
                  THEN [delivered EXCEPT ![s] = Append(@, cur)]
                  ELSE delivered
  /\ UNCHANGED <<callVars, stop, atStop, taken, pc, draining, cur, store, failed, phase, rd>>

SendDone ==
  /\ pc = "send" /\ targets = {}
  /\ cur' = None
  /\ pc' = "recv"
  /\ UNCHANGED <<callVars, stop, atStop, taken, draining, targets, store, failed, subVars>>

Worker ==
  \/ Receive \/ SeeStop \/ Exit
  \/ WriteOK \/ \E committed \in BOOLEAN : WriteError(committed)
  \/ Snapshot \/ (\E s \in Subscribers : Send(s)) \/ SendDone

-----------------------------------------------------------------------------
(* Subscribe and its cancel function (registry first, then closeOnce), and *)
(* the consumer reading its channel, which it may do after the close too.  *)

\* Mutated form of Subscribe: a new tail starts with the last stored event.
SubscribeBackfill(s) ==
  /\ phase[s] = "new"
  /\ phase' = [phase EXCEPT ![s] = "active"]
  /\ delivered' = IF store = <<>> THEN delivered
                  ELSE [delivered EXCEPT ![s] = <<store[Len(store)]>>]
  /\ UNCHANGED <<callVars, stop, atStop, workerVars, rd>>

Subscribe(s) ==
  /\ phase[s] = "new"
  /\ phase' = [phase EXCEPT ![s] = "active"]
  /\ UNCHANGED <<callVars, stop, atStop, workerVars, delivered, rd>>

CancelRemove(s) ==
  /\ phase[s] = "active"
  /\ phase' = [phase EXCEPT ![s] = "removed"]
  /\ UNCHANGED <<callVars, stop, atStop, workerVars, delivered, rd>>

CloseOnce(s) ==
  /\ phase[s] = "removed"
  /\ phase' = [phase EXCEPT ![s] = "closed"]
  /\ UNCHANGED <<callVars, stop, atStop, workerVars, delivered, rd>>

Consume(s) ==
  /\ rd[s] < Len(delivered[s])
  /\ rd' = [rd EXCEPT ![s] = @ + 1]
  /\ UNCHANGED <<callVars, stop, atStop, workerVars, phase, delivered>>

Next ==
  \/ \E e \in Events : Log(e)
  \/ Close
  \/ Worker
  \/ \E s \in Subscribers : Subscribe(s) \/ CancelRemove(s) \/ CloseOnce(s) \/ Consume(s)

Spec == Init /\ [][Next]_vars

-----------------------------------------------------------------------------
(* Properties.                                                             *)

\* The type of every variable; both channels respect their capacity, so no
\* send ever blocks the request path or the worker.
TypeOK ==
  /\ caller \in [Events -> {"idle", "full", "done"}]
  /\ accepted \in Seq(Events)
  /\ taken \in 0 .. Len(accepted)
  /\ Queued <= BufferSize
  /\ dropped \in Nat
  /\ stop \in BOOLEAN
  /\ atStop \in 0 .. Len(accepted)
  /\ pc \in {"recv", "write", "snapshot", "send", "exited"}
  /\ draining \in BOOLEAN
  /\ cur \in Events \cup {None}
  /\ pc \in {"write", "snapshot", "send"} => cur \in Events
  /\ targets \subseteq Subscribers
  /\ store \in Seq(Events)
  /\ failed \subseteq Events
  /\ phase \in [Subscribers -> {"new", "active", "removed", "closed"}]
  /\ delivered \in [Subscribers -> Seq(Events)]
  /\ rd \in [Subscribers -> Nat]
  /\ \A s \in Subscribers : /\ rd[s] <= Len(delivered[s])
                            /\ Len(delivered[s]) - rd[s] <= SubBuf

\* The events of q occur in r, in the same order.  When r has no duplicates,
\* neither has q.
InOrder(q, r) ==
  /\ Elems(q) \subseteq Elems(r)
  /\ \A i, j \in 1 .. Len(q) :
       i < j => \E m, n \in 1 .. Len(r) : m < n /\ q[i] = r[m] /\ q[j] = r[n]

NoRepeats(q) == \A i, j \in 1 .. Len(q) : q[i] = q[j] => i = j

\* No event disappears unreported: the events whose Log call returned and
\* that are nowhere to be found (not waiting in the channel, not in the
\* worker's hands, not stored, not reported as a failed write) are exactly
\* those Dropped() counts.
NoSilentLoss ==
  dropped = Cardinality({e \in Events :
                           /\ caller[e] = "done"
                           /\ e \notin Waiting \cup {cur} \cup Elems(store) \cup failed})

\* The inner Logger gets every event at most once and in the order in which
\* the Log calls were accepted, whatever fails in between.
StoredOnceInOrder == NoRepeats(accepted) /\ InOrder(store, accepted)

\* What a live-tail subscriber sees was stored before, comes in storage order
\* and without repeats; a subscription that was never made has seen nothing.
TailSound ==
  \A s \in Subscribers :
    /\ InOrder(delivered[s], store)
    /\ NoRepeats(delivered[s])
    /\ phase[s] = "new" => delivered[s] = <<>>

\* When Close returns (the worker has exited), everything accepted before
\* Close was called has been handed to the inner Logger.
DrainedAtExit == pc = "exited" => taken >= atStop

\* Nothing is sent on a closed subscriber channel, which would panic: the
\* race between broadcast's copy of the registry and cancel.
NoSendOnClosed ==
  [][\A s \in Subscribers : phase[s] = "closed" => delivered'[s] = delivered[s]]_vars

\* With a fair worker: an event accepted before Close is eventually stored or
\* reported as failed, however late Close comes and whatever else is logged.
AcceptedIsWritten ==
  \A e \in Events :
    (\E i \in 1 .. Len(accepted) : accepted[i] = e /\ (stop => i <= atStop))
      ~> (e \in Elems(store) \cup failed)

-----------------------------------------------------------------------------
(* The pipeline implements the contract of module AuditTrail.              *)

Fate(e) ==
  IF e \in Elems(store) THEN "recorded"
  ELSE IF e \in failed THEN "failed"
  ELSE IF e \in Elems(accepted) THEN "pending"
  ELSE IF caller[e] = "done" THEN "dropped"
  ELSE "none"

Trail == INSTANCE AuditTrail WITH
           fate  <- [e \in Events |-> Fate(e)],
           drops <- dropped,
           trail <- store,
           tail  <- delivered,
           open  <- [s \in Subscribers |-> phase[s] \in {"active", "removed"}]

\* Every behaviour of the pipeline is one the contract allows.
ImplementsTrail == Trail!TrailSpec

=============================================================================
