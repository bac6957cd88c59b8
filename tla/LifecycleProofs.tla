---------------------------- MODULE LifecycleProofs ----------------------------
(***************************************************************************)
(* Proofs about the audit pipeline and the server process around it, for   *)
(* any number of events and subscriptions and for buffers of any capacity: *)
(*   I    the pipeline's invariant and its safety properties;              *)
(*   II   the pipeline implements the contract AuditTrail;                 *)
(*   III  the server runs the pipeline as specified, so I and II hold in   *)
(*        it, and its own shutdown properties.                             *)
(***************************************************************************)
EXTENDS Lifecycle, FiniteSetTheorems, TLAPS

(***************************************************************************)
(* I. The pipeline.                                                        *)
(***************************************************************************)

-----------------------------------------------------------------------------
(* Facts about sequences that only grow.                                   *)

\* A sequence that gets one more element keeps what it had.
LEMMA AppendFacts ==
  ASSUME NEW S, NEW q \in Seq(S), NEW x \in S
  PROVE  /\ Append(q, x) \in Seq(S)
         /\ Len(Append(q, x)) = Len(q) + 1
         /\ \A i \in 1 .. Len(q) : Append(q, x)[i] = q[i]
         /\ Append(q, x)[Len(q) + 1] = x
         /\ Elems(Append(q, x)) = Elems(q) \cup {x}
<1>1. /\ Append(q, x) \in Seq(S)
      /\ Len(Append(q, x)) = Len(q) + 1
      /\ \A i \in 1 .. Len(q) : Append(q, x)[i] = q[i]
      /\ Append(q, x)[Len(q) + 1] = x
  OBVIOUS
<1>2. Len(q) \in Nat
  OBVIOUS
<1>3. \A i : i \in 1 .. (Len(q) + 1) <=> i \in 1 .. Len(q) \/ i = Len(q) + 1
  BY <1>2
<1>. QED
  BY <1>1, <1>2, <1>3 DEF Elems

\* An order-preserving selection stays one when the sequence it selects from
\* grows.
LEMMA InOrderGrow ==
  ASSUME NEW S, NEW q \in Seq(S), NEW r \in Seq(S), NEW x \in S, InOrder(q, r)
  PROVE  InOrder(q, Append(r, x))
<1>1. Elems(q) \subseteq Elems(Append(r, x))
  BY AppendFacts DEF InOrder
<1>2. ASSUME NEW i \in 1 .. Len(q), NEW j \in 1 .. Len(q), i < j
      PROVE  \E m, n \in 1 .. Len(Append(r, x)) :
                m < n /\ q[i] = Append(r, x)[m] /\ q[j] = Append(r, x)[n]
  <2>1. PICK m \in 1 .. Len(r), n \in 1 .. Len(r) : m < n /\ q[i] = r[m] /\ q[j] = r[n]
    BY <1>2 DEF InOrder
  <2>2. m \in 1 .. Len(Append(r, x)) /\ n \in 1 .. Len(Append(r, x))
    BY AppendFacts
  <2>. QED
    BY <2>1, <2>2, AppendFacts
<1>. QED
  BY <1>1, <1>2 DEF InOrder

\* Appending to a selection an element that lies behind everything selected
\* so far keeps it order-preserving.
LEMMA InOrderAppend ==
  ASSUME NEW S, NEW q \in Seq(S), NEW r \in Seq(S), InOrder(q, r),
         NEW n \in 1 .. Len(r),
         \A k \in 1 .. Len(q) : \E i \in 1 .. Len(r) : i < n /\ q[k] = r[i]
  PROVE  InOrder(Append(q, r[n]), r)
<1> DEFINE p == Append(q, r[n])
<1>0. r[n] \in S /\ Len(q) \in Nat
  OBVIOUS
<1>1. /\ Len(p) = Len(q) + 1
      /\ \A k \in 1 .. Len(q) : p[k] = q[k]
      /\ p[Len(q) + 1] = r[n]
      /\ Elems(p) = Elems(q) \cup {r[n]}
  BY <1>0, AppendFacts
<1> HIDE DEF p
<1>2. Elems(p) \subseteq Elems(r)
  BY <1>1 DEF InOrder, Elems
<1>3. ASSUME NEW i \in 1 .. Len(p), NEW j \in 1 .. Len(p), i < j
      PROVE  \E a, b \in 1 .. Len(r) : a < b /\ p[i] = r[a] /\ p[j] = r[b]
  <2>1. i \in 1 .. Len(q)
    BY <1>0, <1>1, <1>3
  <2>2. CASE j \in 1 .. Len(q)
    <3>1. PICK a \in 1 .. Len(r), b \in 1 .. Len(r) : a < b /\ q[i] = r[a] /\ q[j] = r[b]
      BY <1>3, <2>1, <2>2 DEF InOrder
    <3>2. p[i] = q[i] /\ p[j] = q[j]
      BY <1>1, <2>1, <2>2
    <3>. QED
      BY <3>1, <3>2
  <2>3. CASE j = Len(q) + 1
    BY <1>1, <2>1, <2>3
  <2>4. j \in 1 .. Len(q) \/ j = Len(q) + 1
    BY <1>0, <1>1
  <2>. QED
    BY <2>2, <2>3, <2>4
<1>4. InOrder(p, r)
  BY <1>2, <1>3 DEF InOrder
<1>. QED
  BY <1>4 DEF p

\* A selection from a sequence without repeats has none.
LEMMA InOrderNoRepeats ==
  ASSUME NEW S, NEW q \in Seq(S), NEW r \in Seq(S), InOrder(q, r), NoRepeats(r)
  PROVE  NoRepeats(q)
<1>1. ASSUME NEW i \in 1 .. Len(q), NEW j \in 1 .. Len(q), q[i] = q[j], i < j
      PROVE  FALSE
  <2>1. PICK m \in 1 .. Len(r), n \in 1 .. Len(r) : m < n /\ q[i] = r[m] /\ q[j] = r[n]
    BY <1>1 DEF InOrder
  <2>2. r[m] = r[n]
    BY <1>1, <2>1
  <2>3. m = n
    BY <2>2 DEF NoRepeats
  <2>. QED
    BY <2>1, <2>3
<1>2. \A i, j \in 1 .. Len(q) : i < j \/ j < i \/ i = j
  OBVIOUS
<1>. QED
  BY <1>1, <1>2 DEF NoRepeats

-----------------------------------------------------------------------------
(* Type correctness.                                                       *)

\* Every step keeps the variables in their types and both channels within
\* their capacity.
LEMMA TypeStep == TypeOK /\ [Next]_vars => TypeOK'
<1> SUFFICES ASSUME TypeOK, [Next]_vars PROVE TypeOK'
  OBVIOUS
<1> USE AsyncLoggerAssumption DEF TypeOK, Queued, callVars, workerVars, subVars
<1>1. ASSUME NEW e \in Events, LogEnqueue(e) PROVE TypeOK'
  BY <1>1 DEF LogEnqueue
<1>2. ASSUME NEW e \in Events, LogFull(e) PROVE TypeOK'
  BY <1>2 DEF LogFull
<1>3. ASSUME NEW e \in Events, LogDrop(e) PROVE TypeOK'
  BY <1>3 DEF LogDrop
<1>4. CASE Close
  BY <1>4 DEF Close
<1>5. CASE Receive
  BY <1>5 DEF Receive
<1>6. CASE SeeStop
  BY <1>6 DEF SeeStop
<1>7. CASE Exit
  BY <1>7 DEF Exit
<1>8. CASE WriteOK
  BY <1>8 DEF WriteOK
<1>9. ASSUME NEW committed \in BOOLEAN, WriteError(committed) PROVE TypeOK'
  <2>1. store' \in Seq(Events)
    BY <1>9, AppendFacts DEF WriteError
  <2>2. failed' \subseteq Events
    BY <1>9 DEF WriteError
  <2>. QED
    BY <1>9, <2>1, <2>2 DEF WriteError
<1>10. CASE Snapshot
  BY <1>10 DEF Snapshot, Registered
<1>11. ASSUME NEW s \in Subscribers, Send(s) PROVE TypeOK'
  <2>1. CASE delivered' = delivered
    BY <1>11, <2>1 DEF Send
  <2>2. CASE /\ Len(delivered[s]) - rd[s] < SubBuf
             /\ delivered' = [delivered EXCEPT ![s] = Append(@, cur)]
    <3>1. cur \in Events /\ delivered[s] \in Seq(Events)
      BY <1>11 DEF Send
    <3>2. /\ delivered' \in [Subscribers -> Seq(Events)]
          /\ Len(delivered'[s]) = Len(delivered[s]) + 1
          /\ \A t \in Subscribers \ {s} : delivered'[t] = delivered[t]
      BY <2>2, <3>1, AppendFacts
    <3>3. \A t \in Subscribers : /\ rd[t] <= Len(delivered'[t])
                                 /\ Len(delivered'[t]) - rd[t] <= SubBuf
      BY <2>2, <3>1, <3>2
    <3>. QED
      BY <1>11, <3>2, <3>3 DEF Send
  <2>. QED
    BY <1>11, <2>1, <2>2 DEF Send
<1>12. CASE SendDone
  BY <1>12 DEF SendDone
<1>13. ASSUME NEW s \in Subscribers, Subscribe(s) PROVE TypeOK'
  BY <1>13 DEF Subscribe
<1>14. ASSUME NEW s \in Subscribers, CancelRemove(s) PROVE TypeOK'
  BY <1>14 DEF CancelRemove
<1>15. ASSUME NEW s \in Subscribers, CloseOnce(s) PROVE TypeOK'
  BY <1>15 DEF CloseOnce
<1>16. ASSUME NEW s \in Subscribers, Consume(s) PROVE TypeOK'
  BY <1>16 DEF Consume
<1>17. CASE UNCHANGED vars
  BY <1>17 DEF vars
<1>. QED
  BY <1>1, <1>2, <1>3, <1>4, <1>5, <1>6, <1>7, <1>8, <1>9, <1>10, <1>11, <1>12,
     <1>13, <1>14, <1>15, <1>16, <1>17 DEF Next, Log, Worker

\* The state NewAsyncLogger returns is well typed.
LEMMA InitType == Init => TypeOK
<1> SUFFICES ASSUME Init PROVE TypeOK
  OBVIOUS
<1>1. /\ accepted \in Seq(Events) /\ Len(accepted) = 0
      /\ store \in Seq(Events)
      /\ delivered \in [Subscribers -> Seq(Events)]
      /\ \A s \in Subscribers : Len(delivered[s]) = 0 /\ rd[s] = 0
  BY DEF Init
<1>2. /\ caller \in [Events -> {"idle", "full", "done"}]
      /\ phase \in [Subscribers -> {"new", "active", "removed", "closed"}]
      /\ rd \in [Subscribers -> Nat]
  BY DEF Init
<1>3. /\ taken = 0 /\ dropped = 0 /\ atStop = 0 /\ targets = {} /\ failed = {}
      /\ stop \in BOOLEAN /\ draining \in BOOLEAN
      /\ pc = "recv" /\ cur = None
  BY DEF Init
<1>. QED
  BY <1>1, <1>2, <1>3, AsyncLoggerAssumption DEF TypeOK, Queued

\* TypeOK holds in every state of the pipeline.
THEOREM TypeCorrect == Spec => []TypeOK
  BY InitType, TypeStep, PTL DEF Spec

-----------------------------------------------------------------------------
(* The inductive invariant, in parts.                                      *)

\* An event enters the channel once, and its Log call has then returned.
QueueInv ==
  /\ NoRepeats(accepted)
  /\ \A i \in 1 .. Len(accepted) : caller[accepted[i]] = "done"

\* While the worker is busy it holds the last event it received.
WorkerInv ==
  /\ pc \in {"write", "snapshot", "send"} => taken > 0 /\ cur = accepted[taken]
  /\ pc \in {"recv", "exited"} => cur = None
  /\ pc # "send" => targets = {}

\* The events received before the one in the worker's hands.
Before(e) == \E i \in 1 .. taken : e = accepted[i] /\ (pc = "write" => i < taken)

\* Stored and failed events were received before; what was received before is
\* stored or failed; the event being broadcast is the newest one stored.
WrittenInv ==
  /\ \A e \in Elems(store) \cup failed : Before(e)
  /\ \A i \in 1 .. taken :
       (pc = "write" => i < taken) => accepted[i] \in Elems(store) \cup failed
  /\ pc \in {"snapshot", "send"} => store # <<>> /\ store[Len(store)] = cur
  /\ InOrder(store, accepted)

\* A subscriber to which the current event is still to be sent has not seen it.
TailInv ==
  \A s \in Subscribers :
    /\ InOrder(delivered[s], store)
    /\ phase[s] = "new" => delivered[s] = <<>> /\ s \notin targets
    /\ pc = "snapshot" \/ s \in targets => cur \notin Elems(delivered[s])

\* The events whose Log call returned without the channel taking them.
Rejected == {e \in Events : caller[e] = "done" /\ e \notin Elems(accepted)}

DropInv == IsFiniteSet(Rejected) /\ dropped = Cardinality(Rejected)

\* The worker leaves only after it has seen stop and an empty channel.
ExitInv ==
  /\ draining => stop
  /\ pc = "exited" => draining /\ taken >= atStop

IInv == TypeOK /\ QueueInv /\ WorkerInv /\ WrittenInv /\ TailInv /\ DropInv /\ ExitInv

-----------------------------------------------------------------------------
(* Each part is preserved by every step.                                   *)

\* Only LogEnqueue touches the accepted events; a Log call that has returned
\* stays returned.
LEMMA AcceptedFrame ==
  ASSUME [Next]_vars
  PROVE  \/ \E e \in Events : LogEnqueue(e)
         \/ /\ accepted' = accepted
            /\ \/ \E e \in Events : LogFull(e) \/ LogDrop(e)
               \/ caller' = caller /\ dropped' = dropped
  BY DEF Next, Log, LogFull, LogDrop, Worker, Close, Receive, SeeStop, Exit, WriteOK,
         WriteError, Snapshot, Send, SendDone, Subscribe, CancelRemove, CloseOnce, Consume,
         vars, callVars

\* Every step keeps the accepted events distinct and those of returned calls.
LEMMA QueueStep == TypeOK /\ QueueInv /\ [Next]_vars => QueueInv'
<1> SUFFICES ASSUME TypeOK, QueueInv, [Next]_vars PROVE QueueInv'
  OBVIOUS
<1>1. ASSUME NEW e \in Events, LogEnqueue(e) PROVE QueueInv'
  <2>1. /\ accepted \in Seq(Events)
        /\ accepted' = Append(accepted, e)
        /\ caller' = [caller EXCEPT ![e] = "done"]
        /\ caller \in [Events -> {"idle", "full", "done"}]
        /\ caller[e] = "idle"
    BY <1>1 DEF LogEnqueue, TypeOK
  <2>2. /\ Len(accepted') = Len(accepted) + 1
        /\ \A i \in 1 .. Len(accepted) : accepted'[i] = accepted[i]
        /\ accepted'[Len(accepted) + 1] = e
        /\ Len(accepted) \in Nat
    BY <2>1, AppendFacts
  <2>3. \A i \in 1 .. Len(accepted) : accepted[i] \in Events /\ accepted[i] # e
    BY <2>1 DEF QueueInv
  <2>4. \A i \in 1 .. Len(accepted') : i \in 1 .. Len(accepted) \/ i = Len(accepted) + 1
    BY <2>2
  <2>5. NoRepeats(accepted')
    BY <2>2, <2>3, <2>4 DEF QueueInv, NoRepeats
  <2>6. \A i \in 1 .. Len(accepted') : caller'[accepted'[i]] = "done"
    BY <2>1, <2>2, <2>3, <2>4 DEF QueueInv
  <2>. QED
    BY <2>5, <2>6 DEF QueueInv, NoRepeats
<1>2. ASSUME accepted' = accepted, NEW e \in Events, LogFull(e) \/ LogDrop(e)
      PROVE  QueueInv'
  <2>1. /\ caller \in [Events -> {"idle", "full", "done"}]
        /\ accepted \in Seq(Events)
    BY DEF TypeOK
  <2>2. /\ caller[e] # "done"
        /\ \A f \in Events \ {e} : caller'[f] = caller[f]
    BY <1>2, <2>1 DEF LogFull, LogDrop
  <2>3. \A i \in 1 .. Len(accepted) : caller'[accepted[i]] = "done"
    BY <2>1, <2>2 DEF QueueInv
  <2>. QED
    BY <1>2, <2>3 DEF QueueInv, NoRepeats
<1>3. ASSUME accepted' = accepted, caller' = caller PROVE QueueInv'
  BY <1>3 DEF QueueInv, NoRepeats
<1>. QED
  BY <1>1, <1>2, <1>3, AcceptedFrame

\* Every step keeps the drop counter equal to the number of refused events.
LEMMA DropStep == TypeOK /\ QueueInv /\ DropInv /\ [Next]_vars => DropInv'
<1> SUFFICES ASSUME TypeOK, QueueInv, DropInv, [Next]_vars PROVE DropInv'
  OBVIOUS
<1>0. /\ caller \in [Events -> {"idle", "full", "done"}]
      /\ accepted \in Seq(Events)
      /\ \A f \in Elems(accepted) : caller[f] = "done"
  BY DEF TypeOK, QueueInv, Elems
<1>1. ASSUME NEW e \in Events, LogEnqueue(e) PROVE DropInv'
  <2>1. /\ Elems(accepted') = Elems(accepted) \cup {e}
        /\ caller' = [caller EXCEPT ![e] = "done"]
        /\ caller[e] = "idle"
        /\ dropped' = dropped
    BY <1>0, <1>1, AppendFacts DEF LogEnqueue
  <2>2. Rejected' = Rejected
    BY <1>0, <2>1 DEF Rejected
  <2>. QED
    BY <2>1, <2>2 DEF DropInv
<1>2. ASSUME accepted' = accepted, NEW e \in Events, LogFull(e) PROVE DropInv'
  <2>1. /\ caller' = [caller EXCEPT ![e] = "full"]
        /\ caller[e] = "idle"
        /\ dropped' = dropped
    BY <1>2 DEF LogFull
  <2>2. Rejected' = Rejected
    BY <1>0, <1>2, <2>1 DEF Rejected
  <2>. QED
    BY <2>1, <2>2 DEF DropInv
<1>3. ASSUME accepted' = accepted, NEW e \in Events, LogDrop(e) PROVE DropInv'
  <2>1. /\ caller' = [caller EXCEPT ![e] = "done"]
        /\ caller[e] = "full"
        /\ dropped' = dropped + 1
    BY <1>3 DEF LogDrop
  <2>2. e \notin Rejected
    BY <2>1 DEF Rejected
  <2>3. Rejected' = Rejected \cup {e}
    BY <1>0, <1>3, <2>1 DEF Rejected
  <2>4. IsFiniteSet(Rejected') /\ Cardinality(Rejected') = Cardinality(Rejected) + 1
    BY <2>2, <2>3, FS_AddElement DEF DropInv
  <2>. QED
    BY <2>1, <2>4 DEF DropInv
<1>4. ASSUME accepted' = accepted, caller' = caller, dropped' = dropped PROVE DropInv'
  <2>1. Rejected' = Rejected
    BY <1>4 DEF Rejected
  <2>. QED
    BY <1>4, <2>1 DEF DropInv
<1>. QED
  BY <1>1, <1>2, <1>3, <1>4, AcceptedFrame

\* What a step that is not the worker's does to the worker's state, and how
\* the accepted events grow.
LEMMA WorkerFrame ==
  ASSUME TypeOK, [Next]_vars
  PROVE  /\ Worker \/ workerVars' = workerVars
         /\ Len(accepted') >= Len(accepted)
         /\ \A i \in 1 .. Len(accepted) : accepted'[i] = accepted[i]
<1>1. Worker \/ workerVars' = workerVars
  BY DEF Next, Log, LogEnqueue, LogFull, LogDrop, Close, Subscribe, CancelRemove, CloseOnce,
         Consume, vars, workerVars
<1>2. CASE accepted' = accepted
  BY <1>1, <1>2 DEF TypeOK
<1>3. ASSUME NEW e \in Events, LogEnqueue(e)
      PROVE  /\ Len(accepted') >= Len(accepted)
             /\ \A i \in 1 .. Len(accepted) : accepted'[i] = accepted[i]
  BY <1>3, AppendFacts DEF LogEnqueue, TypeOK
<1>. QED
  BY <1>1, <1>2, <1>3, AcceptedFrame

\* The worker never changes the accepted events, the callers, or stop.
LEMMA WorkerOwn ==
  ASSUME Worker
  PROVE  UNCHANGED <<callVars, stop, atStop, phase, rd>>
  BY DEF Worker, Receive, SeeStop, Exit, WriteOK, WriteError, Snapshot, Send, SendDone,
         callVars, subVars

\* Every step keeps the event in the worker's hands the one received last.
LEMMA WorkerInvStep == TypeOK /\ WorkerInv /\ [Next]_vars => WorkerInv'
<1> SUFFICES ASSUME TypeOK, WorkerInv, [Next]_vars PROVE WorkerInv'
  OBVIOUS
<1>0. accepted \in Seq(Events) /\ Len(accepted) \in Nat /\ taken \in 0 .. Len(accepted)
  BY DEF TypeOK
<1>1. CASE workerVars' = workerVars
  <2>1. taken > 0 => accepted'[taken] = accepted[taken]
    BY <1>0, WorkerFrame
  <2>. QED
    BY <1>1, <2>1 DEF WorkerInv, workerVars
<1>2. CASE Worker
  <2>0. accepted' = accepted
    BY <1>2, WorkerOwn DEF callVars
  <2>1. CASE Receive
    BY <1>0, <2>0, <2>1 DEF Receive, WorkerInv
  <2>2. CASE SeeStop \/ Exit
    BY <2>0, <2>2 DEF SeeStop, Exit, WorkerInv
  <2>3. CASE WriteOK
    BY <2>0, <2>3 DEF WriteOK, WorkerInv
  <2>4. ASSUME NEW committed \in BOOLEAN, WriteError(committed) PROVE WorkerInv'
    BY <2>0, <2>4 DEF WriteError, WorkerInv
  <2>5. CASE Snapshot
    BY <2>0, <2>5 DEF Snapshot, WorkerInv
  <2>6. ASSUME NEW s \in Subscribers, Send(s) PROVE WorkerInv'
    BY <2>0, <2>6 DEF Send, WorkerInv
  <2>7. CASE SendDone
    BY <2>0, <2>7 DEF SendDone, WorkerInv
  <2>. QED
    BY <1>2, <2>1, <2>2, <2>3, <2>4, <2>5, <2>6, <2>7 DEF Worker
<1>. QED
  BY <1>1, <1>2, WorkerFrame

\* Every step keeps what the worker has to have drained before it exits.
LEMMA ExitStep == TypeOK /\ ExitInv /\ [Next]_vars => ExitInv'
<1> SUFFICES ASSUME TypeOK, ExitInv, [Next]_vars PROVE ExitInv'
  OBVIOUS
<1>1. CASE Close
  BY <1>1 DEF Close, ExitInv, workerVars
<1>2. CASE Exit
  BY <1>2 DEF Exit, ExitInv, Queued, TypeOK
<1>3. CASE Receive
  BY <1>3 DEF Receive, ExitInv, TypeOK
<1>4. CASE SeeStop
  BY <1>4 DEF SeeStop, ExitInv
<1>5. CASE /\ UNCHANGED <<stop, atStop, taken, draining>>
           /\ pc' = pc \/ pc' # "exited"
  BY <1>5 DEF ExitInv
<1>6. \/ Close \/ Exit \/ Receive \/ SeeStop
      \/ /\ UNCHANGED <<stop, atStop, taken, draining>>
         /\ pc' = pc \/ pc' # "exited"
  BY DEF Next, Log, LogEnqueue, LogFull, LogDrop, Worker, WriteOK, WriteError, Snapshot, Send,
         SendDone, Subscribe, CancelRemove, CloseOnce, Consume, vars, workerVars
<1>. QED
  BY <1>1, <1>2, <1>3, <1>4, <1>5, <1>6

\* Every step keeps what was received either written, reported or in hand.
LEMMA WrittenStep == TypeOK /\ WorkerInv /\ WrittenInv /\ [Next]_vars => WrittenInv'
<1> SUFFICES ASSUME TypeOK, WorkerInv, WrittenInv, [Next]_vars PROVE WrittenInv'
  OBVIOUS
<1>0. /\ accepted \in Seq(Events) /\ Len(accepted) \in Nat /\ taken \in 0 .. Len(accepted)
      /\ store \in Seq(Events)
  BY DEF TypeOK
<1>1. CASE workerVars' = workerVars
  <2>1. InOrder(store, accepted')
    <3>1. CASE accepted' = accepted
      BY <3>1 DEF WrittenInv
    <3>2. ASSUME NEW e \in Events, LogEnqueue(e) PROVE InOrder(store, accepted')
      BY <1>0, <3>2, InOrderGrow DEF LogEnqueue, WrittenInv
    <3>. QED
      BY <3>1, <3>2, AcceptedFrame
  <2>2. /\ taken' = taken /\ pc' = pc /\ store' = store /\ failed' = failed /\ cur' = cur
        /\ \A i \in 1 .. taken : accepted'[i] = accepted[i]
    BY <1>0, <1>1, WorkerFrame DEF workerVars
  <2>3. \A e : Before(e) => Before(e)'
    BY <2>2 DEF Before
  <2>4. InOrder(store, accepted)'
    <3>1. store' = store
      BY <2>2
    <3>2. InOrder(store', accepted')
      BY ONLY <2>1, <3>1
    <3>. QED
      BY ONLY <3>2 DEF InOrder, Elems
  <2>5. Elems(store)' = Elems(store)
    BY <2>2 DEF Elems
  <2>. QED
    BY <2>2, <2>3, <2>4, <2>5 DEF WrittenInv
<1>2. CASE Worker
  <2>0. accepted' = accepted
    BY <1>2, WorkerOwn DEF callVars
  <2>1. CASE Receive
    <3>1. /\ taken' = taken + 1 /\ pc = "recv" /\ pc' = "write"
          /\ store' = store /\ failed' = failed
      BY <2>1 DEF Receive
    <3>2. \A e : Before(e) => Before(e)'
      BY <1>0, <2>0, <3>1 DEF Before
    <3>3. Elems(store)' = Elems(store) /\ InOrder(store, accepted)'
      BY <2>0, <3>1 DEF WrittenInv
    <3>4. \A i \in 1 .. taken' : i < taken' => i \in 1 .. taken
      BY <1>0, <3>1
    <3>. QED
      BY <2>0, <3>1, <3>2, <3>3, <3>4 DEF WrittenInv
  <2>2. CASE WriteOK
    <3>1. /\ store' = Append(store, cur) /\ failed' = failed /\ taken' = taken /\ cur' = cur
          /\ pc = "write" /\ pc' = "snapshot"
          /\ taken \in 1 .. Len(accepted) /\ cur = accepted[taken] /\ cur \in Events
      BY <1>0, <2>2 DEF WriteOK, WorkerInv, TypeOK
    <3>2. /\ Elems(store') = Elems(store) \cup {cur}
          /\ store' # <<>> /\ store'[Len(store')] = cur
      BY <1>0, <3>1, AppendFacts
    <3>3. InOrder(store', accepted)
      <4>1. \A k \in 1 .. Len(store) : store[k] \in Elems(store)
        BY DEF Elems
      <4>2. \A k \in 1 .. Len(store) :
              \E i \in 1 .. Len(accepted) : i < taken /\ store[k] = accepted[i]
        BY <1>0, <3>1, <4>1 DEF WrittenInv, Before
      <4>3. InOrder(store, accepted)
        BY DEF WrittenInv
      <4>4. InOrder(Append(store, accepted[taken]), accepted)
        BY <1>0, <3>1, <4>2, <4>3, InOrderAppend
      <4>. QED
        BY <3>1, <4>3, <4>4
    <3>4. \A e : Before(e) => Before(e)'
      BY <2>0, <3>1 DEF Before
    <3>5. \A e : e = cur => Before(e)'
      BY <1>0, <2>0, <3>1 DEF Before
    <3>6. \A i \in 1 .. taken : accepted[i] \in Elems(store') \cup failed
      BY <1>0, <3>1, <3>2 DEF WrittenInv
    <3>7. Elems(store)' = Elems(store') /\ InOrder(store, accepted)'
      BY <2>0, <3>3
    <3>. QED
      BY <2>0, <3>1, <3>2, <3>4, <3>5, <3>6, <3>7 DEF WrittenInv
  <2>3. ASSUME NEW committed \in BOOLEAN, WriteError(committed) PROVE WrittenInv'
    <3>1. /\ failed' = failed \cup {cur} /\ taken' = taken
          /\ store' = store \/ store' = Append(store, cur)
          /\ pc = "write" /\ pc' = "recv"
          /\ taken \in 1 .. Len(accepted) /\ cur = accepted[taken] /\ cur \in Events
      BY <1>0, <2>3 DEF WriteError, WorkerInv, TypeOK
    <3>2. Elems(store') \cup failed' = Elems(store) \cup failed \cup {cur}
      <4>1. Elems(Append(store, cur)) = Elems(store) \cup {cur}
        BY <1>0, <3>1, AppendFacts
      <4>. QED
        BY <3>1, <4>1
    <3>3. InOrder(store', accepted)
      <4>1. \A k \in 1 .. Len(store) : store[k] \in Elems(store)
        BY DEF Elems
      <4>2. \A k \in 1 .. Len(store) :
              \E i \in 1 .. Len(accepted) : i < taken /\ store[k] = accepted[i]
        BY <1>0, <3>1, <4>1 DEF WrittenInv, Before
      <4>3. InOrder(store, accepted)
        BY DEF WrittenInv
      <4>4. InOrder(Append(store, accepted[taken]), accepted)
        BY <1>0, <3>1, <4>2, <4>3, InOrderAppend
      <4>. QED
        BY <3>1, <4>3, <4>4
    <3>4. \A e : Before(e) => Before(e)'
      BY <2>0, <3>1 DEF Before
    <3>5. \A e : e = cur => Before(e)'
      BY <1>0, <2>0, <3>1 DEF Before
    <3>6. \A i \in 1 .. taken : accepted[i] \in Elems(store') \cup failed'
      BY <1>0, <3>1, <3>2 DEF WrittenInv
    <3>7. Elems(store)' = Elems(store') /\ InOrder(store, accepted)'
      BY <2>0, <3>3
    <3>. QED
      BY <2>0, <3>1, <3>2, <3>4, <3>5, <3>6, <3>7 DEF WrittenInv
  <2>4. CASE /\ UNCHANGED <<taken, store, failed, cur>>
             /\ pc # "write" /\ pc' # "write"
             /\ pc' \in {"snapshot", "send"} => pc \in {"snapshot", "send"}
    <3>1. \A e : Before(e) => Before(e)'
      BY <2>0, <2>4 DEF Before
    <3>2. Elems(store)' = Elems(store) /\ InOrder(store, accepted)'
      BY <2>0, <2>4 DEF WrittenInv
    <3>. QED
      BY <2>0, <2>4, <3>1, <3>2 DEF WrittenInv
  <2>5. CASE SendDone
    <3>1. /\ taken' = taken /\ store' = store /\ failed' = failed
          /\ pc = "send" /\ pc' = "recv"
      BY <2>5 DEF SendDone
    <3>2. \A e : Before(e) => Before(e)'
      BY <2>0, <3>1 DEF Before
    <3>3. Elems(store)' = Elems(store) /\ InOrder(store, accepted)'
      BY <2>0, <3>1 DEF WrittenInv
    <3>. QED
      BY <2>0, <3>1, <3>2, <3>3 DEF WrittenInv
  <2>. QED
    BY <1>2, <2>1, <2>2, <2>3, <2>4, <2>5
       DEF Worker, SeeStop, Exit, Snapshot, Send
<1>. QED
  BY <1>1, <1>2, WorkerFrame

\* Every step keeps what subscribers saw a selection of the store.
LEMMA TailStep ==
  TypeOK /\ QueueInv /\ WorkerInv /\ WrittenInv /\ TailInv /\ [Next]_vars => TailInv'
<1> SUFFICES ASSUME TypeOK, QueueInv, WorkerInv, WrittenInv, TailInv, [Next]_vars
             PROVE  TailInv'
  OBVIOUS
<1>0. /\ store \in Seq(Events)
      /\ delivered \in [Subscribers -> Seq(Events)]
      /\ phase \in [Subscribers -> {"new", "active", "removed", "closed"}]
  BY DEF TypeOK
\* Steps that leave the deliveries and the store alone and put nobody back
\* into a state where the current event is still to be sent.
<1>1. CASE /\ delivered' = delivered /\ store' = store
           /\ \A t \in Subscribers : phase'[t] = "new" => phase[t] = "new"
           /\ \/ pc' = pc /\ cur' = cur /\ targets' = targets
              \/ pc' # "snapshot" /\ targets' = {}
  BY <1>1 DEF TailInv
<1>2. CASE Receive
  BY <1>1, <1>2 DEF Receive, WorkerInv, subVars
<1>3. CASE SeeStop \/ Exit
  BY <1>1, <1>3 DEF SeeStop, Exit, WorkerInv, subVars
<1>4. CASE SendDone
  BY <1>1, <1>4 DEF SendDone, WorkerInv, subVars
<1>5. CASE /\ delivered' = delivered /\ phase' = phase /\ pc = "write"
           /\ targets' = targets
           /\ store' = store \/ store' = Append(store, cur)
           /\ (pc' = "snapshot" /\ cur' = cur) \/ pc' = "recv"
  <2>1. /\ targets = {} /\ cur \in Events
        /\ taken \in 1 .. Len(accepted) /\ cur = accepted[taken]
    BY <1>5 DEF WorkerInv, TypeOK
  <2>2. cur \notin Elems(store)
    <3>1. SUFFICES ASSUME cur \in Elems(store) PROVE FALSE
      OBVIOUS
    <3>2. PICK i \in 1 .. taken : cur = accepted[i] /\ i < taken
      BY <1>5, <3>1 DEF WrittenInv, Before
    <3>3. i \in 1 .. Len(accepted) /\ accepted[i] = accepted[taken]
      BY <2>1, <3>2 DEF TypeOK
    <3>4. i = taken
      BY <2>1, <3>3 DEF QueueInv, NoRepeats
    <3>. QED
      BY <3>2, <3>4
  <2>3. ASSUME NEW t \in Subscribers PROVE InOrder(delivered[t], store')
    <3>1. InOrder(delivered[t], store) /\ delivered[t] \in Seq(Events)
      BY <1>0 DEF TailInv
    <3>2. InOrder(delivered[t], Append(store, cur))
      BY <1>0, <2>1, <3>1, InOrderGrow
    <3>. QED
      BY <1>5, <3>1, <3>2
  <2>4. \A t \in Subscribers : cur \notin Elems(delivered[t])
    BY <2>2 DEF TailInv, InOrder
  <2>. QED
    BY <1>5, <2>1, <2>3, <2>4 DEF TailInv
<1>6. CASE WriteOK
  BY <1>5, <1>6 DEF WriteOK, subVars
<1>7. ASSUME NEW committed \in BOOLEAN, WriteError(committed) PROVE TailInv'
  BY <1>5, <1>7 DEF WriteError, subVars
<1>8. CASE Snapshot
  BY <1>8 DEF Snapshot, subVars, TailInv, Registered
<1>9. ASSUME NEW s \in Subscribers, Send(s) PROVE TailInv'
  <2>1. /\ pc = "send" /\ pc' = pc /\ cur' = cur /\ store' = store /\ phase' = phase
        /\ s \in targets /\ targets' = targets \ {s}
        /\ cur \in Events
    BY <1>9 DEF Send, TypeOK
  <2>2. CASE delivered' = delivered
    BY <2>1, <2>2 DEF TailInv
  <2>3. CASE delivered' = [delivered EXCEPT ![s] = Append(@, cur)]
    <3>1. /\ delivered'[s] = Append(delivered[s], cur)
          /\ \A t \in Subscribers \ {s} : delivered'[t] = delivered[t]
      BY <1>0, <2>3
    <3>2. /\ Len(store) \in 1 .. Len(store) /\ store[Len(store)] = cur
      BY <1>0, <2>1 DEF WrittenInv
    <3>3. cur \notin Elems(delivered[s]) /\ InOrder(delivered[s], store) /\ phase[s] # "new"
      BY <2>1 DEF TailInv
    <3>4. \A k \in 1 .. Len(delivered[s]) :
            \E i \in 1 .. Len(store) : i < Len(store) /\ delivered[s][k] = store[i]
      <4>1. ASSUME NEW k \in 1 .. Len(delivered[s])
            PROVE  \E i \in 1 .. Len(store) : i < Len(store) /\ delivered[s][k] = store[i]
        <5>1. delivered[s][k] \in Elems(delivered[s])
          BY DEF Elems
        <5>2. PICK i \in 1 .. Len(store) : delivered[s][k] = store[i]
          BY <3>3, <5>1 DEF InOrder, Elems
        <5>3. i # Len(store)
          BY <3>2, <3>3, <5>1, <5>2
        <5>. QED
          BY <1>0, <5>2, <5>3
      <4>. QED
        BY <4>1
    <3>5. InOrder(delivered'[s], store)
      BY <1>0, <3>1, <3>2, <3>3, <3>4, InOrderAppend
    <3>6. ASSUME NEW t \in Subscribers
          PROVE  /\ InOrder(delivered'[t], store)
                 /\ phase[t] = "new" => delivered'[t] = <<>> /\ t \notin targets'
                 /\ t \in targets' => cur \notin Elems(delivered'[t])
      <4>1. CASE t = s
        BY <2>1, <3>3, <3>5, <4>1
      <4>2. CASE t # s
        BY <2>1, <3>1, <4>2 DEF TailInv
      <4>. QED
        BY <4>1, <4>2
    <3>. QED
      BY <2>1, <3>6 DEF TailInv
  <2>4. delivered' = delivered \/ delivered' = [delivered EXCEPT ![s] = Append(@, cur)]
    BY <1>9 DEF Send
  <2>. QED
    BY <2>2, <2>3, <2>4
<1>10. ASSUME NEW s \in Subscribers, Subscribe(s) \/ CancelRemove(s) \/ CloseOnce(s)
       PROVE  TailInv'
  BY <1>0, <1>1, <1>10 DEF Subscribe, CancelRemove, CloseOnce, workerVars
<1>11. CASE /\ UNCHANGED <<phase, delivered>> /\ workerVars' = workerVars
  BY <1>1, <1>11 DEF workerVars
<1>. QED
  BY <1>2, <1>3, <1>4, <1>6, <1>7, <1>8, <1>9, <1>10, <1>11
     DEF Next, Log, LogEnqueue, LogFull, LogDrop, Close, Worker, Consume, vars, subVars

\* The invariant is inductive.
LEMMA Inductive == IInv /\ [Next]_vars => IInv'
  BY TypeStep, QueueStep, WorkerInvStep, WrittenStep, TailStep, DropStep, ExitStep DEF IInv

\* The invariant holds of the state NewAsyncLogger returns.
LEMMA InitIInv == Init => IInv
<1> SUFFICES ASSUME Init PROVE IInv
  OBVIOUS
<1>1. TypeOK
  BY InitType
<1>2. /\ accepted = <<>> /\ store = <<>> /\ Len(accepted) = 0 /\ Len(store) = 0
      /\ Elems(accepted) = {} /\ Elems(store) = {}
  BY DEF Init, Elems
<1>3. \A s \in Subscribers : /\ delivered[s] = <<>> /\ Len(delivered[s]) = 0
                             /\ Elems(delivered[s]) = {}
  BY DEF Init, Elems
<1>4. QueueInv /\ WorkerInv /\ ExitInv
  BY <1>2 DEF Init, QueueInv, WorkerInv, ExitInv, NoRepeats
<1>5. WrittenInv
  BY <1>2 DEF Init, WrittenInv, InOrder
<1>6. TailInv
  BY <1>2, <1>3 DEF Init, TailInv, InOrder
<1>7. DropInv
  <2>1. Rejected = {} /\ dropped = 0
    BY DEF Init, Rejected
  <2>. QED
    BY <2>1, FS_EmptySet DEF DropInv
<1>. QED
  BY <1>1, <1>4, <1>5, <1>6, <1>7 DEF IInv

\* The invariant holds in every state of the pipeline.
LEMMA SpecIInv == Spec => []IInv
  BY InitIInv, Inductive, PTL DEF Spec

-----------------------------------------------------------------------------
(* The safety properties follow from the invariant.                        *)

\* No event is lost without a trace: the drop counter accounts for exactly the
\* events that Log gave up on (Log, run and write of AsyncLogger).
THEOREM SilentLossFree == Spec => []NoSilentLoss
<1>1. ASSUME IInv PROVE NoSilentLoss
  <2> DEFINE Lost == {e \in Events :
                        /\ caller[e] = "done"
                        /\ e \notin Waiting \cup {cur} \cup Elems(store) \cup failed}
  <2>0. /\ accepted \in Seq(Events) /\ Len(accepted) \in Nat /\ taken \in 0 .. Len(accepted)
        /\ cur \in Events \cup {None} /\ None \notin Events
        /\ pc \in {"recv", "write", "snapshot", "send", "exited"}
    BY <1>1, AsyncLoggerAssumption DEF IInv, TypeOK
  <2>1. ASSUME NEW e \in Events, e \in Waiting \cup {cur} \cup Elems(store) \cup failed
        PROVE  e \in Elems(accepted)
    <3>1. CASE e \in Waiting
      BY <2>0, <3>1 DEF Waiting, Elems
    <3>2. CASE e = cur
      BY <1>1, <2>0, <3>2 DEF IInv, WorkerInv, Elems
    <3>3. CASE e \in Elems(store) \cup failed
      BY <1>1, <2>0, <3>3 DEF IInv, WrittenInv, Before, Elems
    <3>. QED
      BY <2>1, <3>1, <3>2, <3>3
  <2>2. ASSUME NEW e \in Elems(accepted)
        PROVE  e \in Waiting \cup {cur} \cup Elems(store) \cup failed
    <3>1. PICK i \in 1 .. Len(accepted) : e = accepted[i]
      BY DEF Elems
    <3>2. CASE i > taken
      BY <2>0, <3>1, <3>2 DEF Waiting
    <3>3. CASE i <= taken /\ (pc = "write" => i < taken)
      BY <1>1, <2>0, <3>1, <3>3 DEF IInv, WrittenInv
    <3>4. CASE pc = "write" /\ i = taken
      BY <1>1, <3>1, <3>4 DEF IInv, WorkerInv
    <3>. QED
      BY <2>0, <3>2, <3>3, <3>4
  <2>3. Lost = Rejected
    BY <2>1, <2>2 DEF Rejected
  <2>4. NoSilentLoss <=> dropped = Cardinality(Lost)
    BY DEF NoSilentLoss
  <2>. QED
    BY <1>1, <2>3, <2>4 DEF IInv, DropInv
<1>. QED
  BY <1>1, SpecIInv, PTL

\* The inner Logger gets each accepted event at most once, in channel order.
THEOREM StoreOrdered == Spec => []StoredOnceInOrder
<1>1. IInv => StoredOnceInOrder
  BY DEF IInv, QueueInv, WrittenInv, StoredOnceInOrder
<1>. QED
  BY <1>1, SpecIInv, PTL

\* Live-tail subscribers see stored events only, in order, without repeats.
THEOREM TailIsSound == Spec => []TailSound
<1>1. ASSUME IInv PROVE TailSound
  <2>0. /\ accepted \in Seq(Events) /\ store \in Seq(Events)
        /\ delivered \in [Subscribers -> Seq(Events)]
        /\ NoRepeats(accepted) /\ InOrder(store, accepted)
    BY <1>1 DEF IInv, TypeOK, QueueInv, WrittenInv
  <2>1. NoRepeats(store)
    BY <2>0, InOrderNoRepeats
  <2>2. ASSUME NEW s \in Subscribers
        PROVE  /\ InOrder(delivered[s], store)
               /\ NoRepeats(delivered[s])
               /\ phase[s] = "new" => delivered[s] = <<>>
    <3>1. /\ InOrder(delivered[s], store) /\ delivered[s] \in Seq(Events)
          /\ phase[s] = "new" => delivered[s] = <<>>
      BY <1>1, <2>0 DEF IInv, TailInv
    <3>2. NoRepeats(delivered[s])
      BY <2>0, <2>1, <3>1, InOrderNoRepeats
    <3>. QED
      BY <3>1, <3>2
  <2>. QED
    BY <2>2 DEF TailSound
<1>. QED
  BY <1>1, SpecIInv, PTL

\* When Close returns, everything accepted before it was called was attempted.
THEOREM CloseDrains == Spec => []DrainedAtExit
<1>1. IInv => DrainedAtExit
  BY DEF IInv, ExitInv, DrainedAtExit
<1>. QED
  BY <1>1, SpecIInv, PTL

\* No broadcast writes to a subscriber channel after its cancel closed it.
THEOREM ClosedStaysSilent == Spec => NoSendOnClosed
<1>1. ASSUME TypeOK, [Next]_vars
      PROVE  [\A s \in Subscribers : phase[s] = "closed" => delivered'[s] = delivered[s]]_vars
  <2>1. CASE delivered' = delivered
    BY <2>1
  <2>2. ASSUME NEW s \in Subscribers, Send(s)
        PROVE  \A t \in Subscribers : phase[t] = "closed" => delivered'[t] = delivered[t]
    <3>1. delivered \in [Subscribers -> Seq(Events)]
      BY <1>1 DEF TypeOK
    <3>. QED
      BY <2>2, <3>1 DEF Send
  <2>. QED
    BY <1>1, <2>1, <2>2
       DEF Next, Log, LogEnqueue, LogFull, LogDrop, Close, Worker, Receive, SeeStop, Exit,
           WriteOK, WriteError, Snapshot, SendDone, Subscribe, CancelRemove, CloseOnce, Consume,
           vars, subVars
<1>. QED
  BY <1>1, TypeCorrect, PTL DEF Spec, NoSendOnClosed

(***************************************************************************)
(* II. The contract.  The initial state is an initial state of AuditTrail, *)
(* and every step is a step of it or leaves what it talks about unchanged. *)
(***************************************************************************)

\* The refinement mapping's functions, by name.
Fates == [e \in Events |-> Fate(e)]
OpenSubs == [s \in Subscribers |-> phase[s] \in {"active", "removed"}]

\* What decides the fate of an event.
LEMMA FateFrame ==
  ASSUME UNCHANGED <<accepted, caller, store, failed>>
  PROVE  Fates' = Fates
<1>1. \A e : Fate(e)' = Fate(e)
  BY DEF Fate, Elems
<1>. QED
  BY <1>1 DEF Fates

\* An event whose Log call is still under way has no fate yet.
LEMMA UnloggedFate ==
  ASSUME IInv, NEW e \in Events, caller[e] # "done"
  PROVE  e \notin Elems(accepted) \cup Elems(store) \cup failed
<1>0. accepted \in Seq(Events) /\ taken \in 0 .. Len(accepted)
  BY DEF IInv, TypeOK
<1>1. e \notin Elems(accepted)
  <2>1. \A i \in 1 .. Len(accepted) : accepted[i] # e
    BY DEF IInv, QueueInv
  <2>. QED
    BY <2>1 DEF Elems
<1>2. ASSUME NEW f \in Elems(store) \cup failed PROVE f \in Elems(accepted)
  <2>1. PICK i \in 1 .. taken : f = accepted[i]
    BY DEF IInv, WrittenInv, Before
  <2>2. i \in 1 .. Len(accepted)
    BY <1>0, <2>1
  <2>. QED
    BY <2>1, <2>2 DEF Elems
<1>. QED
  BY <1>1, <1>2

\* The event the worker is about to write is still pending.
LEMMA WriteFate ==
  ASSUME IInv, pc = "write"
  PROVE  /\ cur \in Events
         /\ cur \in Elems(accepted)
         /\ cur \notin Elems(store) \cup failed
<1>0. /\ accepted \in Seq(Events) /\ Len(accepted) \in Nat /\ taken \in 0 .. Len(accepted)
      /\ cur \in Events /\ taken > 0 /\ cur = accepted[taken]
  BY DEF IInv, TypeOK, WorkerInv
<1>1. cur \in Elems(accepted)
  BY <1>0 DEF Elems
<1>2. ASSUME cur \in Elems(store) \cup failed PROVE FALSE
  <2>1. PICK i \in 1 .. taken : cur = accepted[i] /\ i < taken
    BY <1>2 DEF IInv, WrittenInv, Before
  <2>2. i \in 1 .. Len(accepted) /\ taken \in 1 .. Len(accepted) /\ accepted[i] = accepted[taken]
    BY <1>0, <2>1
  <2>3. i = taken
    BY <2>2 DEF IInv, QueueInv, NoRepeats
  <2>. QED
    BY <2>1, <2>3
<1>. QED
  BY <1>0, <1>1, <1>2

\* The initial state maps to the initial state of the contract.
LEMMA RefineInit == Init => Trail!TrailInit
<1> SUFFICES ASSUME Init PROVE Trail!TrailInit
  OBVIOUS
<1>1. Elems(store) = {} /\ Elems(accepted) = {}
  BY DEF Init, Elems
<1>2. Fates = [e \in Events |-> "none"]
  <2>1. \A e \in Events : caller[e] = "idle" /\ e \notin failed
    BY DEF Init
  <2>2. \A e \in Events : Fate(e) = "none"
    BY <1>1, <2>1 DEF Fate
  <2>. QED
    BY <2>2 DEF Fates
<1>3. OpenSubs = [s \in Subscribers |-> FALSE]
  <2>1. \A s \in Subscribers : phase[s] = "new"
    BY DEF Init
  <2>2. \A s \in Subscribers : (phase[s] \in {"active", "removed"}) = FALSE
    BY <2>1
  <2>. QED
    BY <2>2 DEF OpenSubs
<1>. QED
  BY <1>2, <1>3 DEF Init, Trail!TrailInit, Fates, OpenSubs

\* A step of Log accepts an event, drops it or is not seen by the contract.
LEMMA RefineLog ==
  ASSUME IInv, NEW e \in Events, Log(e)
  PROVE  Trail!Accept(e) \/ Trail!Drop(e) \/ UNCHANGED Trail!trailVars
<1>0. /\ caller \in [Events -> {"idle", "full", "done"}] /\ accepted \in Seq(Events)
  BY DEF IInv, TypeOK
<1>1. CASE LogEnqueue(e)
  <2>1. /\ Elems(accepted') = Elems(accepted) \cup {e}
        /\ caller' = [caller EXCEPT ![e] = "done"] /\ caller[e] = "idle"
        /\ UNCHANGED <<dropped, store, failed, delivered, phase>>
    BY <1>0, <1>1, AppendFacts DEF LogEnqueue, workerVars, subVars
  <2>2. e \notin Elems(accepted) \cup Elems(store) \cup failed
    BY <2>1, UnloggedFate
  <2>3. Elems(store)' = Elems(store) /\ Elems(accepted)' = Elems(accepted')
    BY <2>1
  <2>4. Fates[e] = "none" /\ Fates' = [Fates EXCEPT ![e] = "pending"]
    BY <1>0, <2>1, <2>2, <2>3 DEF Fates, Fate
  <2>5. OpenSubs' = OpenSubs
    BY <2>1 DEF OpenSubs
  <2>. QED
    BY <2>1, <2>4, <2>5 DEF Trail!Accept, Fates, OpenSubs
<1>2. CASE LogFull(e)
  <2>1. /\ caller' = [caller EXCEPT ![e] = "full"] /\ caller[e] = "idle"
        /\ UNCHANGED <<accepted, dropped, store, failed, delivered, phase>>
    BY <1>2 DEF LogFull, workerVars, subVars
  <2>2. Elems(store)' = Elems(store) /\ Elems(accepted)' = Elems(accepted)
    BY <2>1
  <2>3. Fates' = Fates
    BY <1>0, <2>1, <2>2 DEF Fates, Fate
  <2>. QED
    BY <2>1, <2>3 DEF Trail!trailVars, Fates, OpenSubs
<1>3. CASE LogDrop(e)
  <2>1. /\ caller' = [caller EXCEPT ![e] = "done"] /\ caller[e] = "full"
        /\ dropped' = dropped + 1
        /\ UNCHANGED <<accepted, store, failed, delivered, phase>>
    BY <1>3 DEF LogDrop, workerVars, subVars
  <2>2. e \notin Elems(accepted) \cup Elems(store) \cup failed
    BY <2>1, UnloggedFate
  <2>3. Elems(store)' = Elems(store) /\ Elems(accepted)' = Elems(accepted)
    BY <2>1
  <2>4. Fates[e] = "none" /\ Fates' = [Fates EXCEPT ![e] = "dropped"]
    BY <1>0, <2>1, <2>2, <2>3 DEF Fates, Fate
  <2>. QED
    BY <2>1, <2>4 DEF Trail!Drop, Fates, OpenSubs
<1>. QED
  BY <1>1, <1>2, <1>3 DEF Log

\* Each outcome of write records the event or reports it as failed.
LEMMA RefineWrite ==
  ASSUME IInv, WriteOK \/ \E committed \in BOOLEAN : WriteError(committed)
  PROVE  Trail!Record(cur) \/ Trail!Fail(cur)
<1>0. /\ store \in Seq(Events) /\ pc = "write"
  BY DEF IInv, TypeOK, WriteOK, WriteError
<1>1. /\ cur \in Events /\ cur \in Elems(accepted) /\ cur \notin Elems(store) \cup failed
  BY <1>0, WriteFate
<1>2. /\ UNCHANGED <<accepted, caller, dropped, delivered, phase>>
      /\ Elems(accepted)' = Elems(accepted)
  BY DEF WriteOK, WriteError, callVars, subVars
<1>3. Fates[cur] = "pending"
  BY <1>1 DEF Fates, Fate
<1>4. CASE store' = Append(store, cur) /\ failed' \subseteq failed \cup {cur} /\ failed \subseteq failed'
  <2>1. Elems(store)' = Elems(store) \cup {cur}
    BY <1>0, <1>1, <1>4, AppendFacts
  <2>2. Fates' = [Fates EXCEPT ![cur] = "recorded"]
    BY <1>1, <1>2, <1>4, <2>1 DEF Fates, Fate
  <2>. QED
    BY <1>2, <1>3, <1>4, <2>2 DEF Trail!Record, Fates, OpenSubs
<1>5. CASE store' = store /\ failed' = failed \cup {cur}
  <2>1. Elems(store)' = Elems(store)
    BY <1>5
  <2>2. Fates' = [Fates EXCEPT ![cur] = "failed"]
    BY <1>1, <1>2, <1>5, <2>1 DEF Fates, Fate
  <2>. QED
    BY <1>2, <1>3, <1>5, <2>2 DEF Trail!Fail, Fates, OpenSubs
<1>. QED
  BY <1>4, <1>5 DEF WriteOK, WriteError

\* A send shows the newest recorded event or nothing.
LEMMA RefineSend ==
  ASSUME IInv, NEW s \in Subscribers, Send(s)
  PROVE  Trail!Show(s) \/ UNCHANGED Trail!trailVars
<1>0. /\ delivered \in [Subscribers -> Seq(Events)]
      /\ phase \in [Subscribers -> {"new", "active", "removed", "closed"}]
      /\ pc = "send" /\ s \in targets
      /\ UNCHANGED <<accepted, caller, dropped, store, failed, phase>>
  BY DEF IInv, TypeOK, Send, callVars
<1>1. Fates' = Fates
  BY <1>0, FateFrame
<1>2. CASE delivered' = delivered
  BY <1>0, <1>1, <1>2 DEF Trail!trailVars, Fates, OpenSubs
<1>3. CASE phase[s] # "closed" /\ delivered' = [delivered EXCEPT ![s] = Append(@, cur)]
  <2>1. store # <<>> /\ store[Len(store)] = cur
    BY <1>0 DEF IInv, WrittenInv
  <2>2. cur \notin Trail!Shown(s) /\ phase[s] # "new"
    BY <1>0 DEF IInv, TailInv, Elems, Trail!Shown
  <2>3. OpenSubs[s]
    BY <1>0, <1>3, <2>2 DEF OpenSubs
  <2>. QED
    BY <1>0, <1>1, <1>3, <2>1, <2>2, <2>3 DEF Trail!Show, Fates, OpenSubs
<1>. QED
  BY <1>2, <1>3 DEF Send

\* Subscribe opens, closeOnce shuts; removal is not seen.
LEMMA RefineSubscription ==
  ASSUME IInv, NEW s \in Subscribers, Subscribe(s) \/ CancelRemove(s) \/ CloseOnce(s)
  PROVE  Trail!Open(s) \/ Trail!Shut(s) \/ UNCHANGED Trail!trailVars
<1>0. /\ phase \in [Subscribers -> {"new", "active", "removed", "closed"}]
      /\ UNCHANGED <<accepted, caller, dropped, store, failed, delivered>>
  BY DEF IInv, TypeOK, Subscribe, CancelRemove, CloseOnce, callVars, workerVars
<1>1. Fates' = Fates
  BY <1>0, FateFrame
<1>2. CASE Subscribe(s)
  <2>1. ~OpenSubs[s] /\ delivered[s] = <<>>
    BY <1>2 DEF Subscribe, OpenSubs, IInv, TailInv
  <2>2. OpenSubs' = [OpenSubs EXCEPT ![s] = TRUE]
    BY <1>0, <1>2 DEF Subscribe, OpenSubs
  <2>. QED
    BY <1>0, <1>1, <2>1, <2>2 DEF Trail!Open, Fates, OpenSubs
<1>3. CASE CancelRemove(s)
  <2>1. OpenSubs' = OpenSubs
    BY <1>0, <1>3 DEF CancelRemove, OpenSubs
  <2>. QED
    BY <1>0, <1>1, <2>1 DEF Trail!trailVars, Fates, OpenSubs
<1>4. CASE CloseOnce(s)
  <2>1. /\ phase[s] = "removed" /\ phase'[s] = "closed"
        /\ \A t \in Subscribers \ {s} : phase'[t] = phase[t]
    BY <1>0, <1>4 DEF CloseOnce
  <2>2. OpenSubs[s]
    BY <2>1 DEF OpenSubs
  <2>3. OpenSubs' = [OpenSubs EXCEPT ![s] = FALSE]
    <3>1. (phase'[s] \in {"active", "removed"}) = FALSE
      BY <2>1
    <3>. QED
      BY <2>1, <3>1 DEF OpenSubs
  <2>. QED
    BY <1>0, <1>1, <2>2, <2>3 DEF Trail!Shut, Fates, OpenSubs
<1>. QED
  BY <1>2, <1>3, <1>4

\* The steps that the contract does not see.
LEMMA RefineStutter ==
  ASSUME UNCHANGED <<accepted, caller, dropped, store, failed, delivered, phase>>
  PROVE  UNCHANGED Trail!trailVars
  BY FateFrame DEF Trail!trailVars, Fates, OpenSubs

\* Every step maps to a step of the contract or to a stutter.
LEMMA RefineStep == IInv /\ [Next]_vars => [Trail!TrailNext]_(Trail!trailVars)
<1> SUFFICES ASSUME IInv, [Next]_vars PROVE [Trail!TrailNext]_(Trail!trailVars)
  OBVIOUS
<1>1. ASSUME NEW e \in Events, Log(e) PROVE [Trail!TrailNext]_(Trail!trailVars)
  BY <1>1, RefineLog DEF Trail!TrailNext
<1>2. CASE WriteOK \/ \E committed \in BOOLEAN : WriteError(committed)
  <2>1. cur \in Events
    BY <1>2, WriteFate DEF WriteOK, WriteError
  <2>. QED
    BY <1>2, <2>1, RefineWrite DEF Trail!TrailNext
<1>3. ASSUME NEW s \in Subscribers, Send(s) PROVE [Trail!TrailNext]_(Trail!trailVars)
  BY <1>3, RefineSend DEF Trail!TrailNext
<1>4. ASSUME NEW s \in Subscribers, Subscribe(s) \/ CancelRemove(s) \/ CloseOnce(s)
      PROVE  [Trail!TrailNext]_(Trail!trailVars)
  BY <1>4, RefineSubscription DEF Trail!TrailNext
<1>5. CASE UNCHANGED <<accepted, caller, dropped, store, failed, delivered, phase>>
  BY <1>5, RefineStutter
<1>. QED
  BY <1>1, <1>2, <1>3, <1>4, <1>5
     DEF Next, Close, Worker, Receive, SeeStop, Exit, Snapshot, SendDone, Consume,
         vars, callVars, workerVars, subVars

\* Every behaviour of the pipeline is a behaviour of the contract.
THEOREM Refinement == Spec => ImplementsTrail
  BY RefineInit, RefineStep, SpecIInv, PTL DEF Spec, ImplementsTrail, Trail!TrailSpec

(***************************************************************************)
(* III. The server process.                                                *)
(***************************************************************************)

-----------------------------------------------------------------------------
(* The pipeline inside the server.                                         *)

\* Every step of the process is a step of the pipeline or leaves it alone.
LEMMA LifeStepFrame == [LifeNext]_allVars => [Next]_vars
  BY DEF LifeNext, Arrive, ClientGone, HandlerLog, HandlerDone, TakeConn, GiveConn, StreamOpen, StreamStep, Signal,
         ListenerFail, DelayTimer, GraceTimer, Main, RunListenerError, RunSignal, EndDelay,
         ShutdownDone, ShutdownTimeout, CloseAudit, ClosePool, PoolClosed, ProcessExit, WorkerStep, Next,
         allVars

\* Run, the handlers and Close use the pipeline as its specification allows.
THEOREM ServerRunsPipeline == LifeSpec => Spec
<1>1. LifeInit => Init
  BY DEF LifeInit
<1>. QED
  BY <1>1, LifeStepFrame, PTL DEF LifeSpec, Spec

\* The audit trail's guarantees hold in the running server: every event is
\* accounted for, stored once and in order, no closed tail is written to, and
\* the contract AuditTrail is met.
THEOREM ServerKeepsTrail ==
  LifeSpec => []NoSilentLoss /\ []StoredOnceInOrder /\ NoSendOnClosed /\ ImplementsTrail
  BY ServerRunsPipeline, SilentLossFree, StoreOrdered, ClosedStaysSilent, Refinement, PTL

-----------------------------------------------------------------------------
(* The inductive invariant of the process.                                 *)

LifeTypes ==
  /\ run \in {"serving", "delay", "shutdown", "returned", "exited"}
  /\ runErr \in {"none", "nil", "error"}
  /\ signals \in 0 .. MaxSignals
  /\ ready \in BOOLEAN /\ delayOver \in BOOLEAN /\ graceOver \in BOOLEAN
  /\ listener \in {"open", "failed", "closed"}
  /\ handler \in [Events -> {"none", "running", "detached", "done"}]
  /\ pool \in {"open", "closing", "closed"} /\ conns \subseteq Events
  /\ since \in [Subscribers -> Nat]

\* What has happened by each point of Run and Close.
OrderInv ==
  /\ stop => run \in {"returned", "exited"}
  /\ pool # "open" => pc = "exited"
  /\ run = "exited" => pool = "closed"
  /\ run \in {"shutdown", "returned", "exited"} => listener # "open"
  /\ runErr # "none" => run \in {"returned", "exited"}

\* After a clean Shutdown no HTTP handler is left, and what reaches the channel
\* of a worker that is gone comes from calls whose client had gone.
CleanInv ==
  runErr = "nil" =>
    /\ \A e \in Events : handler[e] # "running"
    /\ pc = "exited" => \A i \in (taken + 1) .. Len(accepted) : handler[accepted[i]] = "detached"

\* The event now being broadcast is news to every subscriber it may reach.
FreshInv ==
  \A s \in Subscribers :
    /\ since[s] \in 0 .. Len(store)
    /\ (pc = "snapshot" /\ phase[s] = "active") \/ s \in targets => since[s] < Len(store)
    /\ \A i \in 1 .. Len(delivered[s]) :
         \E n \in (since[s] + 1) .. Len(store) : store[n] = delivered[s][i]

LifeInv == IInv /\ LifeTypes /\ OrderInv /\ CleanInv /\ FreshInv

-----------------------------------------------------------------------------
(* Each part is preserved by every step.                                   *)

\* There is a newest stored event while the worker broadcasts one.
LEMMA StoreLength ==
  ASSUME IInv
  PROVE  /\ store \in Seq(Events) /\ Len(store) \in Nat
         /\ pc \in {"snapshot", "send"} => Len(store) > 0 /\ store[Len(store)] = cur
<1>1. store \in Seq(Events)
  BY DEF IInv, TypeOK
<1>2. store # <<>> => Len(store) > 0
  BY <1>1
<1>. QED
  BY <1>1, <1>2 DEF IInv, WrittenInv

\* A type holds of what the steps of Run, Close and the handlers assign.
LEMMA LifeTypesStep == IInv /\ LifeTypes /\ [LifeNext]_allVars => LifeTypes'
<1> SUFFICES ASSUME IInv, LifeTypes, [LifeNext]_allVars PROVE LifeTypes'
  OBVIOUS
<1> USE DEF LifeTypes, lifeVars
<1>1. ASSUME NEW e \in Events, Arrive(e) \/ ClientGone(e) \/ HandlerDone(e) \/ TakeConn(e) \/ GiveConn(e)
      PROVE  LifeTypes'
  BY <1>1 DEF Arrive, ClientGone, HandlerDone, TakeConn, GiveConn
<1>2. ASSUME NEW s \in Subscribers, StreamOpen(s) PROVE LifeTypes'
  <2>1. IF pc = "snapshot" THEN Len(store) - 1 \in Nat ELSE Len(store) \in Nat
    BY StoreLength
  <2>2. since' \in [Subscribers -> Nat]
    BY <1>2, <2>1 DEF StreamOpen
  <2>. QED
    BY <1>2, <2>2 DEF StreamOpen
<1>3. CASE Signal
  BY <1>3, LifecycleAssumption DEF Signal
<1>7. CASE ListenerFail \/ DelayTimer \/ GraceTimer
  BY <1>7 DEF ListenerFail, DelayTimer, GraceTimer
<1>4. CASE RunListenerError \/ RunSignal \/ EndDelay \/ ShutdownDone \/ ShutdownTimeout
  BY <1>4 DEF RunListenerError, RunSignal, EndDelay, ShutdownDone, ShutdownTimeout
<1>5. CASE ClosePool \/ PoolClosed \/ ProcessExit
  BY <1>5 DEF ClosePool, PoolClosed, ProcessExit
<1>6. CASE UNCHANGED lifeVars
  BY <1>6
<1>. QED
  BY <1>1, <1>2, <1>3, <1>4, <1>5, <1>6, <1>7
     DEF LifeNext, HandlerLog, StreamStep, Main, CloseAudit, WorkerStep, allVars

\* What the worker and the pipeline's other users do to stop and to a worker
\* that has exited.
LEMMA PipelineEnd ==
  ASSUME IInv, [Next]_vars
  PROVE  /\ stop' # stop => Close
         /\ pc = "exited" => pc' = "exited" /\ taken' = taken
         /\ pc' = "exited" /\ pc # "exited" => Exit
<1>1. stop' # stop => Close
  BY DEF Next, Log, LogEnqueue, LogFull, LogDrop, Worker, Receive, SeeStop, Exit, WriteOK,
         WriteError, Snapshot, Send, SendDone, Subscribe, CancelRemove, CloseOnce, Consume, vars
<1>2. pc = "exited" => pc' = "exited" /\ taken' = taken
  BY DEF Next, Log, LogEnqueue, LogFull, LogDrop, Close, Worker, Receive, SeeStop, Exit, WriteOK,
         WriteError, Snapshot, Send, SendDone, Subscribe, CancelRemove, CloseOnce, Consume, vars,
         workerVars
<1>3. pc' = "exited" /\ pc # "exited" => Exit
  BY DEF Next, Log, LogEnqueue, LogFull, LogDrop, Close, Worker, Receive, SeeStop, WriteOK,
         WriteError, Snapshot, Send, SendDone, Subscribe, CancelRemove, CloseOnce, Consume, vars,
         workerVars
<1>. QED
  BY <1>1, <1>2, <1>3

\* Every step keeps the order of shutdown: the listener is shut before Run
\* returns, Run returns before the pipeline is stopped, the worker is gone
\* before the pool is closed, and the pool is closed before the process ends.
LEMMA OrderStep == IInv /\ LifeTypes /\ OrderInv /\ [LifeNext]_allVars => OrderInv'
<1> SUFFICES ASSUME IInv, LifeTypes, OrderInv, [LifeNext]_allVars PROVE OrderInv'
  OBVIOUS
<1>0. [Next]_vars
  BY LifeStepFrame
<1> USE DEF OrderInv, lifeVars, LifeTypes
<1>1. CASE CloseAudit
  BY <1>1 DEF CloseAudit, Close, workerVars
<1>2. CASE ClosePool \/ PoolClosed \/ ProcessExit
  BY <1>2 DEF ClosePool, PoolClosed, ProcessExit, vars, workerVars
<1>3. CASE RunListenerError \/ RunSignal \/ EndDelay \/ ShutdownDone \/ ShutdownTimeout
  BY <1>3 DEF RunListenerError, RunSignal, EndDelay, ShutdownDone, ShutdownTimeout, vars,
              workerVars
<1>4. ASSUME NEW s \in Subscribers, StreamOpen(s) PROVE OrderInv'
  BY <1>4 DEF StreamOpen, Subscribe, workerVars
<1>5. CASE Signal \/ ListenerFail \/ DelayTimer \/ GraceTimer
  BY <1>5 DEF Signal, ListenerFail, DelayTimer, GraceTimer, vars, workerVars
<1>6. ASSUME NEW e \in Events, Arrive(e) \/ ClientGone(e) \/ HandlerDone(e) \/ TakeConn(e) \/ GiveConn(e)
      PROVE  OrderInv'
  BY <1>6 DEF Arrive, ClientGone, HandlerDone, TakeConn, GiveConn, vars, workerVars
<1>7. CASE UNCHANGED lifeVars /\ ~Close
  BY <1>0, <1>7, PipelineEnd
<1>8. ~CloseAudit /\ UNCHANGED lifeVars /\ LifeNext => ~Close \/ UNCHANGED stop
  BY DEF LifeNext, Arrive, ClientGone, HandlerLog, HandlerDone, TakeConn, GiveConn, StreamOpen, StreamStep, Signal,
         ListenerFail, DelayTimer, GraceTimer, Main, RunListenerError, RunSignal, EndDelay,
         ShutdownDone, ShutdownTimeout, ClosePool, PoolClosed, ProcessExit, WorkerStep, Log, LogEnqueue,
         LogFull, LogDrop, Worker, Receive, SeeStop, Exit, WriteOK, WriteError, Snapshot, Send,
         SendDone, Subscribe, CancelRemove, CloseOnce, Consume, vars
<1>9. CASE UNCHANGED <<lifeVars, stop>>
  BY <1>0, <1>9, PipelineEnd
<1>. QED
  BY <1>1, <1>2, <1>3, <1>4, <1>5, <1>6, <1>7, <1>8, <1>9
     DEF LifeNext, HandlerLog, StreamStep, Main, WorkerStep, allVars, vars

\* Every step keeps what a clean Shutdown has made sure of.
LEMMA CleanStep ==
  IInv /\ LifeTypes /\ OrderInv /\ CleanInv /\ [LifeNext]_allVars => CleanInv'
<1> SUFFICES ASSUME IInv, LifeTypes, OrderInv, CleanInv, [LifeNext]_allVars, runErr' = "nil"
             PROVE  /\ \A e \in Events : handler'[e] # "running"
                    /\ pc' = "exited" => \A i \in (taken' + 1) .. Len(accepted') :
                                           handler'[accepted'[i]] = "detached"
  BY DEF CleanInv
<1>0. [Next]_vars
  BY LifeStepFrame
<1>t. /\ accepted \in Seq(Events) /\ taken \in 0 .. Len(accepted) /\ Len(accepted) \in Nat
      /\ handler \in [Events -> {"none", "running", "detached", "done"}]
  BY DEF IInv, TypeOK, LifeTypes
<1>1. CASE ShutdownDone
  <2>1. pc # "exited"
    BY <1>1 DEF ShutdownDone, OrderInv, IInv, ExitInv
  <2>. QED
    BY <1>1, <2>1 DEF ShutdownDone, Idle, vars, workerVars
<1>2. CASE RunListenerError \/ ShutdownTimeout
  BY <1>2 DEF RunListenerError, ShutdownTimeout
<1>4. CASE runErr = "nil"
  <2>0. /\ \A e \in Events : handler[e] # "running"
        /\ listener # "open"
        /\ pc = "exited" => \A i \in (taken + 1) .. Len(accepted) :
                              handler[accepted[i]] = "detached"
    BY <1>4 DEF CleanInv, OrderInv
  <2>1. handler' = handler
    BY <2>0 DEF LifeNext, Arrive, ClientGone, HandlerLog, HandlerDone, TakeConn, GiveConn, StreamOpen, StreamStep,
                Signal, ListenerFail, DelayTimer, GraceTimer, Main, RunListenerError, RunSignal,
                EndDelay, ShutdownDone, ShutdownTimeout, CloseAudit, ClosePool, PoolClosed, ProcessExit,
                WorkerStep, allVars, lifeVars
  <2>2. CASE pc # "exited"
    <3>1. pc' = "exited" => Len(accepted') = taken' /\ taken' \in Nat
      BY <1>0, <1>t, <2>2, PipelineEnd DEF Exit, Queued, callVars
    <3>2. pc' = "exited" => \A i \in (taken' + 1) .. Len(accepted') : FALSE
      BY <3>1
    <3>. QED
      BY <2>0, <2>1, <3>2
  <2>3. CASE pc = "exited"
    <3>1. pc' = "exited" /\ taken' = taken
      BY <1>0, <2>3, PipelineEnd
    <3>2. ASSUME NEW e \in Events, LogEnqueue(e), HandlerLog(e)
          PROVE  \A i \in (taken' + 1) .. Len(accepted') : handler'[accepted'[i]] = "detached"
      <4>1. handler[e] = "detached"
        BY <2>0, <3>2 DEF HandlerLog
      <4>2. /\ Len(accepted') = Len(accepted) + 1
            /\ \A i \in 1 .. Len(accepted) : accepted'[i] = accepted[i]
            /\ accepted'[Len(accepted) + 1] = e
        BY <1>t, <3>2, AppendFacts DEF LogEnqueue
      <4>. QED
        BY <1>t, <2>0, <2>1, <2>3, <3>1, <4>1, <4>2
    <3>3. accepted' = accepted \/ \E e \in Events : LogEnqueue(e) /\ HandlerLog(e)
      BY DEF LifeNext, Arrive, ClientGone, HandlerLog, HandlerDone, TakeConn, GiveConn, StreamOpen, StreamStep,
             Signal, ListenerFail, DelayTimer, GraceTimer, Main, RunListenerError, RunSignal,
             EndDelay, ShutdownDone, ShutdownTimeout, CloseAudit, ClosePool, PoolClosed, ProcessExit,
             WorkerStep, Log, LogFull, LogDrop, Close, Worker, Receive, SeeStop, Exit, WriteOK,
             WriteError, Snapshot, Send, SendDone, Subscribe, CancelRemove, CloseOnce, Consume,
             allVars, vars, callVars
    <3>. QED
      BY <2>0, <2>1, <2>3, <3>1, <3>2, <3>3
  <2>. QED
    BY <2>2, <2>3
<1>5. runErr' # runErr => ShutdownDone \/ RunListenerError \/ ShutdownTimeout
  BY DEF LifeNext, Arrive, ClientGone, HandlerLog, HandlerDone, TakeConn, GiveConn, StreamOpen, StreamStep, Signal,
         ListenerFail, DelayTimer, GraceTimer, Main, RunSignal, EndDelay, CloseAudit, ClosePool, PoolClosed,
         ProcessExit, WorkerStep, allVars, lifeVars
<1>. QED
  BY <1>1, <1>2, <1>4, <1>5

\* Everything in q came into the store st after s subscribed.
SeenSince(s, q, st) == \A i \in 1 .. Len(q) : \E n \in (since[s] + 1) .. Len(st) : st[n] = q[i]

\* It stays so when the store grows.
LEMMA SeenGrow ==
  ASSUME NEW s \in Subscribers, since \in [Subscribers -> Nat], NEW st \in Seq(Events),
         NEW e \in Events, NEW q \in Seq(Events), SeenSince(s, q, st)
  PROVE  SeenSince(s, q, Append(st, e))
<1>1. ASSUME NEW i \in 1 .. Len(q)
      PROVE  \E n \in (since[s] + 1) .. Len(Append(st, e)) : Append(st, e)[n] = q[i]
  <2>1. PICK n \in (since[s] + 1) .. Len(st) : st[n] = q[i]
    BY DEF SeenSince
  <2>2. n \in 1 .. Len(st) /\ n \in (since[s] + 1) .. (Len(st) + 1)
    OBVIOUS
  <2>. QED
    BY <2>1, <2>2, AppendFacts
<1>. QED
  BY <1>1 DEF SeenSince

\* The newest stored event is news to a tail that subscribed before it came.
LEMMA SeenSend ==
  ASSUME NEW s \in Subscribers, since \in [Subscribers -> Nat], NEW st \in Seq(Events),
         NEW q \in Seq(Events), SeenSince(s, q, st), since[s] < Len(st)
  PROVE  SeenSince(s, Append(q, st[Len(st)]), st)
<1> DEFINE p == Append(q, st[Len(st)])
<1>0. Len(st) \in Nat /\ Len(q) \in Nat /\ since[s] \in Nat
  OBVIOUS
<1>1. Len(st) \in (since[s] + 1) .. Len(st) /\ Len(st) \in 1 .. Len(st)
  BY <1>0
<1>2. st[Len(st)] \in Events
  BY <1>1
<1>3. Len(p) = Len(q) + 1 /\ p[Len(q) + 1] = st[Len(st)] /\ \A i \in 1 .. Len(q) : p[i] = q[i]
  BY <1>2, AppendFacts
<1> HIDE DEF p
<1>4. SeenSince(s, p, st)
  BY <1>0, <1>1, <1>3 DEF SeenSince
<1>. QED
  BY <1>4 DEF p

\* Every step keeps the tails free of history.
LEMMA FreshStep ==
  IInv /\ IInv' /\ LifeTypes /\ FreshInv /\ [LifeNext]_allVars => FreshInv'
<1> SUFFICES ASSUME IInv, IInv', LifeTypes, FreshInv, [LifeNext]_allVars PROVE FreshInv'
  OBVIOUS
<1>t. /\ since \in [Subscribers -> Nat] /\ store \in Seq(Events) /\ Len(store) \in Nat
      /\ delivered \in [Subscribers -> Seq(Events)] /\ targets \subseteq Subscribers
      /\ cur \in Events \cup {None} /\ (pc \in {"write", "snapshot", "send"} => cur \in Events)
      /\ phase \in [Subscribers -> {"new", "active", "removed", "closed"}]
  BY DEF IInv, TypeOK, LifeTypes
<1>f. \A s \in Subscribers : since[s] \in 0 .. Len(store)
  BY DEF FreshInv
<1>h. /\ pc = "snapshot" => \A s \in Registered : since[s] < Len(store)
      /\ \A s \in targets : since[s] < Len(store)
  BY <1>t DEF FreshInv, Registered
<1>g. \A s \in Subscribers : SeenSince(s, delivered[s], store)
  BY DEF FreshInv, SeenSince
<1>1. ASSUME NEW s \in Subscribers, StreamOpen(s) PROVE FreshInv'
  <2>1. /\ delivered[s] = <<>> /\ s \notin targets
        /\ pc \in {"snapshot", "send"} => Len(store) > 0
    BY <1>1, StoreLength DEF StreamOpen, Subscribe, IInv, TailInv
  <2>2. /\ UNCHANGED <<pc, store, targets, delivered>>
        /\ \A t \in Subscribers \ {s} : since'[t] = since[t] /\ phase'[t] = phase[t]
        /\ since'[s] = IF pc = "snapshot" THEN Len(store) - 1 ELSE Len(store)
    BY <1>1, <1>t DEF StreamOpen, Subscribe, workerVars
  <2>3. /\ since'[s] \in 0 .. Len(store)
        /\ pc = "snapshot" => since'[s] < Len(store)
    BY <1>t, <2>1, <2>2
  <2>4. \A i \in 1 .. Len(delivered[s]) : FALSE
    BY <2>1
  <2>. QED
    BY <1>f, <1>g, <1>h, <2>1, <2>2, <2>3, <2>4 DEF FreshInv, Registered, SeenSince
<1>2. CASE since' = since /\ delivered' = delivered /\ targets = {} /\ targets' = {}
           /\ (\E e \in Events : store' = Append(store, e)) /\ pc = "write"
  <2>1. PICK e \in Events : store' = Append(store, e)
    BY <1>2
  <2>2. Len(store') = Len(store) + 1
    BY <1>t, <2>1, AppendFacts
  <2>3. ASSUME NEW s \in Subscribers PROVE SeenSince(s, delivered[s], store')
    BY <1>t, <1>g, <2>1, SeenGrow
  <2>4. \A s \in Subscribers : since[s] \in 0 .. Len(store') /\ since[s] < Len(store')
    <3>1. Len(store) \in Nat
      BY <1>t
    <3>. QED
      BY <1>f, <2>2, <3>1
  <2>. QED
    BY <1>2, <2>3, <2>4 DEF FreshInv, Registered, SeenSince
<1>3. CASE Snapshot /\ since' = since
  BY <1>3, <1>t, <1>f, <1>g, <1>h DEF Snapshot, Registered, FreshInv, SeenSince, subVars
<1>4. ASSUME NEW s \in Subscribers, Send(s), since' = since PROVE FreshInv'
  <2>1. SeenSince(s, Append(delivered[s], cur), store)
    <3>0. pc = "send" /\ s \in targets
      BY <1>4 DEF Send
    <3>1. since[s] < Len(store)
      BY <1>h, <3>0
    <3>2. cur = store[Len(store)]
      BY <3>0, StoreLength
    <3>. QED
      BY <1>t, <1>g, <3>1, <3>2, SeenSend
  <2>2. \A t \in Subscribers : SeenSince(t, delivered'[t], store)
    BY <1>4, <1>t, <1>g, <2>1 DEF Send
  <2>. QED
    BY <1>4, <1>f, <1>h, <2>2 DEF Send, FreshInv, Registered, SeenSince
<1>5. CASE /\ UNCHANGED <<since, store, delivered>>
           /\ pc' # "snapshot" \/ pc' = pc
           /\ targets' \subseteq targets
           /\ \A s \in Subscribers : phase'[s] = "active" => phase[s] = "active"
  BY <1>5, <1>f, <1>g, <1>h DEF FreshInv, Registered, SeenSince
<1>6. \/ \E s \in Subscribers : StreamOpen(s)
      \/ since' = since /\ (WriteOK \/ \E committed \in BOOLEAN : WriteError(committed))
      \/ since' = since /\ (Snapshot \/ \E s \in Subscribers : Send(s))
      \/ /\ UNCHANGED <<since, store, delivered, targets>>
         /\ pc' # "snapshot" \/ pc' = pc
         /\ phase' = phase \/ \E s \in Subscribers : CancelRemove(s) \/ CloseOnce(s)
  BY DEF LifeNext, Arrive, ClientGone, HandlerLog, HandlerDone, TakeConn, GiveConn, StreamStep, Signal,
         ListenerFail, DelayTimer, GraceTimer, Main, RunListenerError, RunSignal, EndDelay,
         ShutdownDone, ShutdownTimeout, CloseAudit, ClosePool, PoolClosed, ProcessExit, WorkerStep, Log,
         LogEnqueue, LogFull, LogDrop, Close, Worker, Receive, SeeStop, Exit, SendDone, Consume,
         CancelRemove, CloseOnce, allVars, lifeVars, vars, workerVars, subVars
<1>7. ASSUME NEW s \in Subscribers, CancelRemove(s) \/ CloseOnce(s)
      PROVE  \A t \in Subscribers : phase'[t] = "active" => phase[t] = "active"
  BY <1>7, <1>t DEF CancelRemove, CloseOnce
<1>8. CASE since' = since /\ (WriteOK \/ \E committed \in BOOLEAN : WriteError(committed))
  <2>1. pc = "write" /\ cur \in Events /\ targets = {} /\ UNCHANGED <<targets, delivered, phase>>
    BY <1>8, <1>t DEF WriteOK, WriteError, subVars, IInv, WorkerInv
  <2>2. store' = Append(store, cur) \/ (store' = store /\ pc' = "recv")
    BY <1>8 DEF WriteOK, WriteError
  <2>. QED
    BY <1>2, <1>5, <1>8, <2>1, <2>2
<1>. QED
  BY <1>1, <1>3, <1>4, <1>5, <1>6, <1>7, <1>8

-----------------------------------------------------------------------------
(* The invariant, and what follows from it.                                *)

LEMMA LifeInductive == LifeInv /\ [LifeNext]_allVars => LifeInv'
  BY LifeStepFrame, Inductive, LifeTypesStep, OrderStep, CleanStep, FreshStep DEF LifeInv

LEMMA InitLifeInv == LifeInit => LifeInv
<1> SUFFICES ASSUME LifeInit PROVE LifeInv
  OBVIOUS
<1>1. IInv
  BY InitIInv DEF LifeInit
<1>2. LifeTypes
  <2>1. /\ 0 \in 0 .. MaxSignals
        /\ handler \in [Events -> {"none", "running", "detached", "done"}]
        /\ since \in [Subscribers -> Nat]
    BY LifecycleAssumption DEF LifeInit
  <2>. QED
    BY <2>1 DEF LifeInit, LifeTypes
<1>3. OrderInv /\ CleanInv
  BY DEF LifeInit, Init, OrderInv, CleanInv
<1>4. FreshInv
  <2>1. Len(store) = 0 /\ targets = {} /\ pc = "recv"
    BY DEF LifeInit, Init
  <2>2. \A s \in Subscribers : since[s] = 0 /\ Len(delivered[s]) = 0
    BY DEF LifeInit, Init
  <2>. QED
    BY <2>1, <2>2 DEF FreshInv
<1>. QED
  BY <1>1, <1>2, <1>3, <1>4 DEF LifeInv

LEMMA SpecLifeInv == LifeSpec => []LifeInv
  BY InitLifeInv, LifeInductive, PTL DEF LifeSpec

\* LifeTypeOK holds in every state of the server process.
THEOREM LifeTypeCorrect == LifeSpec => []LifeTypeOK
<1>1. LifeInv => LifeTypeOK
  BY DEF LifeInv, LifeTypes, LifeTypeOK, IInv
<1>. QED
  BY <1>1, SpecLifeInv, PTL

\* Application.Close closes the pool only after the audit worker has returned:
\* no write or broadcast ever runs against a closed pool.
THEOREM PoolClosedLast == LifeSpec => []NoWriteAfterPoolClose
<1>1. LifeInv => NoWriteAfterPoolClose
  BY DEF LifeInv, LifeTypes, OrderInv, NoWriteAfterPoolClose
<1>. QED
  BY <1>1, SpecLifeInv, PTL

\* A shutdown that Run reports as clean leaves no event of a completed request
\* in the channel, whatever the buffer's capacity and the number of calls.
THEOREM CleanShutdown == LifeSpec => []CleanShutdownLosesNothing
<1>1. LifeInv => CleanShutdownLosesNothing
  BY DEF LifeInv, OrderInv, CleanInv, CleanShutdownLosesNothing, Waiting
<1>. QED
  BY <1>1, SpecLifeInv, PTL

\* No live tail is ever sent an event that broadcast had passed before the tail
\* subscribed.
THEOREM TailsStayFresh == LifeSpec => []TailFresh
<1>1. LifeInv => TailFresh
  BY DEF LifeInv, FreshInv, TailFresh
<1>. QED
  BY <1>1, SpecLifeInv, PTL

=============================================================================
