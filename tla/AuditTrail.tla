------------------------------ MODULE AuditTrail ------------------------------
(***************************************************************************)
(* What the audit pipeline promises, without its buffer, its worker or its *)
(* locks: the contract stated by the doc comments of audit.AsyncLogger and *)
(* audit.SubscribingLogger.                                                *)
(*                                                                         *)
(* Every logged event has exactly one fate.  It is accepted and then       *)
(* recorded in the trail or reported as failed, once; or it is dropped and *)
(* counted.  A live-tail subscription sees an event only after the event   *)
(* was recorded, while it is the newest of the trail, at most once, and    *)
(* only while the subscription is open.                                    *)
(***************************************************************************)
EXTENDS Naturals, Sequences, FiniteSets

CONSTANTS Events, Subscribers

VARIABLES
  fate,   \* fate[e]: what has become of event e
  drops,  \* the drop count the operator reads
  trail,  \* the recorded events, oldest first
  tail,   \* tail[s]: what subscription s has been shown
  open    \* open[s]: is subscription s open

trailVars == <<fate, drops, trail, tail, open>>

Shown(s) == {tail[s][i] : i \in 1 .. Len(tail[s])}

TrailInit ==
  /\ fate = [e \in Events |-> "none"]
  /\ drops = 0
  /\ trail = <<>>
  /\ tail = [s \in Subscribers |-> <<>>]
  /\ open = [s \in Subscribers |-> FALSE]

Accept(e) ==
  /\ fate[e] = "none"
  /\ fate' = [fate EXCEPT ![e] = "pending"]
  /\ UNCHANGED <<drops, trail, tail, open>>

Drop(e) ==
  /\ fate[e] = "none"
  /\ fate' = [fate EXCEPT ![e] = "dropped"]
  /\ drops' = drops + 1
  /\ UNCHANGED <<trail, tail, open>>

Record(e) ==
  /\ fate[e] = "pending"
  /\ fate' = [fate EXCEPT ![e] = "recorded"]
  /\ trail' = Append(trail, e)
  /\ UNCHANGED <<drops, tail, open>>

Fail(e) ==
  /\ fate[e] = "pending"
  /\ fate' = [fate EXCEPT ![e] = "failed"]
  /\ UNCHANGED <<drops, trail, tail, open>>

Open(s) ==
  /\ ~open[s]
  /\ tail[s] = <<>>
  /\ open' = [open EXCEPT ![s] = TRUE]
  /\ UNCHANGED <<fate, drops, trail, tail>>

Shut(s) ==
  /\ open[s]
  /\ open' = [open EXCEPT ![s] = FALSE]
  /\ UNCHANGED <<fate, drops, trail, tail>>

Show(s) ==
  /\ open[s]
  /\ trail # <<>>
  /\ trail[Len(trail)] \notin Shown(s)
  /\ tail' = [tail EXCEPT ![s] = Append(@, trail[Len(trail)])]
  /\ UNCHANGED <<fate, drops, trail, open>>

TrailNext ==
  \/ \E e \in Events : Accept(e) \/ Drop(e) \/ Record(e) \/ Fail(e)
  \/ \E s \in Subscribers : Open(s) \/ Shut(s) \/ Show(s)

TrailSpec == TrailInit /\ [][TrailNext]_trailVars

=============================================================================
