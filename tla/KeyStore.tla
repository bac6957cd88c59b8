------------------------------- MODULE KeyStore -------------------------------
(***************************************************************************)
(* API keys: the api_keys table and its users (pkg/apikeys/store.go),      *)
(* behind the combined key store of pkg/auth/dbkeys.go, which looks into   *)
(* the keys of the configuration file first.                               *)
(*                                                                         *)
(* Requests authenticate concurrently with each other and with an          *)
(* administrator who creates and deletes keys.  All share the connection   *)
(* pool.  Authenticate keeps the connection of its SELECT while it touches *)
(* last_used_at over a second one.  The pool hands out connections in the  *)
(* order in which they are asked for.                                      *)
(*                                                                         *)
(* A key stands for its row id, its plaintext and its hash, which Create   *)
(* mints together: bcrypt accepts a plaintext for its own hash only.  A    *)
(* statement that needs one connection for itself is one step.             *)
(***************************************************************************)
EXTENDS Naturals, FiniteSets

CONSTANTS
  Callers,    \* request goroutines
  Keys,       \* what Create can mint
  FileKeys,   \* the keys of the configuration file
  Names,
  MaxConns,   \* size of the pool
  NoKey       \* the goroutine has no request

ASSUME KeyStoreAssumption ==
  /\ IsFiniteSet(Callers)
  /\ Keys \cap FileKeys = {} /\ NoKey \notin Keys \cup FileKeys
  /\ MaxConns \in Nat \ {0}

VARIABLES
  rows,       \* the api_keys table: the keys it holds
  name,       \* name[k]: the name k was created with
  minted,     \* the keys Create has handed to the database
  expired,    \* the keys whose expires_at has passed
  lastUsed,   \* the keys whose last_used_at is set
  pc,         \* pc[c]: where Authenticate of c is
  cand,       \* cand[c]: the plaintext c presents
  seen,       \* seen[c]: the rows the SELECT of c returned
  held,       \* the callers that hold a connection
  deadAt,     \* history: keys deleted or expired when c began
  presented   \* history: the keys of the table ever presented

tableVars == <<rows, name, minted, expired>>
vars == <<tableVars, lastUsed, pc, cand, seen, held, deadAt, presented>>

\* A connection of the pool is free.
Free == Cardinality(held) < MaxConns

\* The keys that no longer authenticate.
Dead == {k \in minted : k \notin rows \/ k \in expired}

Init ==
  /\ rows = {} /\ minted = {} /\ expired = {} /\ lastUsed = {}
  /\ name \in [Keys -> Names]
  /\ pc = [c \in Callers |-> "idle"]
  /\ cand = [c \in Callers |-> NoKey]
  /\ seen = [c \in Callers |-> {}]
  /\ held = {}
  /\ deadAt = [c \in Callers |-> {}]
  /\ presented = {}

-----------------------------------------------------------------------------
(* The administrator, and time.                                            *)

\* The INSERT either adds the row or violates UNIQUE(name), and then Create
\* returns the error.
Create(k) ==
  /\ k \notin minted /\ Free
  /\ minted' = minted \cup {k}
  /\ rows' = IF \E j \in rows : name[j] = name[k] THEN rows ELSE rows \cup {k}
  /\ UNCHANGED <<name, expired, lastUsed, pc, cand, seen, held, deadAt, presented>>

\* Delete of the row with k's name; ErrNotFound changes nothing.
Delete(k) ==
  /\ k \in rows /\ Free
  /\ rows' = {j \in rows : name[j] # name[k]}
  /\ UNCHANGED <<name, minted, expired, lastUsed, pc, cand, seen, held, deadAt, presented>>

Expire(k) ==
  /\ k \in minted \ expired
  /\ expired' = expired \cup {k}
  /\ UNCHANGED <<rows, name, minted, lastUsed, pc, cand, seen, held, deadAt, presented>>

-----------------------------------------------------------------------------
(* Authenticate.                                                           *)

\* combinedKeyStore: a key of the file needs no database.
Begin(c, k) ==
  /\ pc[c] = "idle"
  /\ cand' = [cand EXCEPT ![c] = k]
  /\ presented' = presented \cup ({k} \cap Keys)
  /\ deadAt' = [deadAt EXCEPT ![c] = Dead]
  /\ pc' = [pc EXCEPT ![c] = IF k \in FileKeys THEN "ok" ELSE "query"]
  /\ UNCHANGED <<tableVars, lastUsed, seen, held>>

\* Mutated form of Query: the WHERE clause on expires_at is missing.
QueryAll(c) ==
  /\ pc[c] = "query" /\ Free
  /\ held' = held \cup {c}
  /\ seen' = [seen EXCEPT ![c] = rows]
  /\ pc' = [pc EXCEPT ![c] = "scan"]
  /\ UNCHANGED <<tableVars, lastUsed, cand, deadAt, presented>>

\* The SELECT over the rows that have not expired; the rows keep the
\* connection until they are closed.
Query(c) ==
  /\ pc[c] = "query" /\ Free
  /\ held' = held \cup {c}
  /\ seen' = [seen EXCEPT ![c] = rows \ expired]
  /\ pc' = [pc EXCEPT ![c] = "scan"]
  /\ UNCHANGED <<tableVars, lastUsed, cand, deadAt, presented>>

Match(c) ==
  /\ pc[c] = "scan" /\ cand[c] \in seen[c]
  /\ pc' = [pc EXCEPT ![c] = "touch"]
  /\ UNCHANGED <<tableVars, lastUsed, cand, seen, held, deadAt, presented>>

\* Mutated form of Miss: rows.Close is forgotten on the way out.
MissLeak(c) ==
  /\ pc[c] = "scan" /\ cand[c] \notin seen[c]
  /\ pc' = [pc EXCEPT ![c] = "no"]
  /\ seen' = [seen EXCEPT ![c] = {}]
  /\ UNCHANGED <<tableVars, lastUsed, cand, held, deadAt, presented>>

\* No hash matched: ErrNotFound, and the deferred rows.Close.
Miss(c) ==
  /\ pc[c] = "scan" /\ cand[c] \notin seen[c]
  /\ pc' = [pc EXCEPT ![c] = "no"]
  /\ held' = held \ {c}
  /\ seen' = [seen EXCEPT ![c] = {}]
  /\ UNCHANGED <<tableVars, lastUsed, cand, deadAt, presented>>

\* Mutated form of Touch: the UPDATE selects the row by its name.
TouchByName(c) ==
  /\ pc[c] = "touch" /\ Free
  /\ lastUsed' = lastUsed \cup {k \in rows : name[k] = name[cand[c]]}
  /\ pc' = [pc EXCEPT ![c] = "ok"]
  /\ held' = held \ {c}
  /\ seen' = [seen EXCEPT ![c] = {}]
  /\ UNCHANGED <<tableVars, cand, deadAt, presented>>

\* touchLastUsed over a second connection, then the deferred rows.Close.
Touch(c) ==
  /\ pc[c] = "touch" /\ Free
  /\ lastUsed' = lastUsed \cup ({cand[c]} \cap rows)
  /\ pc' = [pc EXCEPT ![c] = "ok"]
  /\ held' = held \ {c}
  /\ seen' = [seen EXCEPT ![c] = {}]
  /\ UNCHANGED <<tableVars, cand, deadAt, presented>>

\* The database reports an error, or the client goes away and the context is
\* cancelled, which also ends the wait for a connection.  An error of
\* touchLastUsed is ignored.
Fail(c) ==
  /\ pc[c] \in {"query", "scan", "touch"}
  /\ pc' = [pc EXCEPT ![c] = IF pc[c] = "touch" THEN "ok" ELSE "err"]
  /\ held' = held \ {c}
  /\ seen' = [seen EXCEPT ![c] = {}]
  /\ UNCHANGED <<tableVars, lastUsed, cand, deadAt, presented>>

\* The request is over; the goroutine's place is taken by another.
Finish(c) ==
  /\ pc[c] \in {"ok", "no", "err"}
  /\ pc' = [pc EXCEPT ![c] = "idle"]
  /\ cand' = [cand EXCEPT ![c] = NoKey]
  /\ deadAt' = [deadAt EXCEPT ![c] = {}]
  /\ UNCHANGED <<tableVars, lastUsed, seen, held, presented>>

Step(c) == Match(c) \/ Miss(c) \/ Finish(c)

Next ==
  \/ \E k \in Keys : Create(k) \/ Delete(k) \/ Expire(k)
  \/ \E c \in Callers :
       \/ \E k \in Keys \cup FileKeys : Begin(c, k)
       \/ Query(c) \/ Touch(c) \/ Fail(c) \/ Step(c)

Spec == Init /\ [][Next]_vars

\* Goroutines run.  The pool serves those who wait in order, so one that
\* keeps waiting is served if connections keep becoming free: strong fairness
\* of the two acquisitions.  Nothing makes a client give up or a statement
\* fail.
FairSpec ==
  /\ Spec
  /\ \A c \in Callers : WF_vars(Step(c)) /\ SF_vars(Query(c)) /\ SF_vars(Touch(c))

-----------------------------------------------------------------------------
(* Properties.                                                             *)

\* The type of every variable.  A connection is held exactly between the
\* SELECT and the return, on every path, so none is leaked, and the pool never
\* gives out more than it has.
TypeOK ==
  /\ rows \subseteq minted /\ minted \subseteq Keys /\ expired \subseteq minted
  /\ name \in [Keys -> Names]
  /\ lastUsed \subseteq Keys
  /\ pc \in [Callers -> {"idle", "query", "scan", "touch", "ok", "no", "err"}]
  /\ cand \in [Callers -> Keys \cup FileKeys \cup {NoKey}]
  /\ seen \in [Callers -> SUBSET Keys]
  /\ held = {c \in Callers : pc[c] \in {"scan", "touch"}}
  /\ Cardinality(held) <= MaxConns
  /\ deadAt \in [Callers -> SUBSET Keys]
  /\ presented \subseteq Keys

\* A key that was deleted, or had expired, before a request began does not
\* authenticate it, however the request's statements interleave with the
\* administrator's.
RevokedIsRejected ==
  \A c \in Callers : pc[c] \in {"touch", "ok"} => cand[c] \notin deadAt[c]

\* Delete by name is unambiguous: no two rows have one name.
NamesUnique == \A j, k \in rows : name[j] = name[k] => j = k

\* last_used_at tells the truth: a key that shows a use was presented, also
\* after a key of the same name was deleted while it was being used.
LastUsedIsTrue == lastUsed \subseteq presented

\* Under FairSpec: once a hash has matched, the request is authenticated,
\* whatever becomes of the bookkeeping over the second connection.
TouchIsBestEffort ==
  \A c \in Callers : (pc[c] = "touch") ~> (pc[c] = "ok")

\* Every connection is held by a request that waits for a second one.
Jammed == Cardinality({c \in Callers : pc[c] = "touch"}) = MaxConns

\* Under FairSpec: a request that waits for the database gets its answer, unless
\* requests in touchLastUsed hold the whole pool.  That jam, which
\* TouchIsBestEffort rules out in vain, is the only way to wait forever: no
\* return of Authenticate keeps a connection.
AuthAnswers ==
  \A c \in Callers : (pc[c] = "query") ~> (pc[c] \in {"ok", "no", "err"} \/ Jammed)

=============================================================================
