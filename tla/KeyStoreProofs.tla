--------------------------- MODULE KeyStoreProofs ---------------------------
(***************************************************************************)
(* Proofs about module KeyStore for any number of requests, keys, names    *)
(* and connections.                                                        *)
(*                                                                         *)
(* A key that is dead stays dead, because an id is minted once.  So what   *)
(* was dead when a request began is missing from the rows of its SELECT,   *)
(* and only those rows are compared.                                       *)
(***************************************************************************)
EXTENDS KeyStore, FiniteSetTheorems, TLAPS

\* What was dead when a request began is dead, and its SELECT did not see it.
DeadInv ==
  \A c \in Callers :
    /\ deadAt[c] \subseteq Dead
    /\ pc[c] = "scan" => seen[c] \cap deadAt[c] = {}

\* The key of a request under way is among the presented ones.
PresentedInv ==
  \A c \in Callers : pc[c] # "idle" /\ cand[c] \in Keys => cand[c] \in presented

IInv == TypeOK /\ DeadInv /\ PresentedInv /\ RevokedIsRejected /\ NamesUnique /\ LastUsedIsTrue

\* The callers that hold a connection are finitely many, so they can be counted.
LEMMA HeldFacts ==
  ASSUME TypeOK
  PROVE  /\ IsFiniteSet(held) /\ held \subseteq Callers /\ Cardinality(held) \in Nat
         /\ \A c \in Callers :
              /\ Cardinality(held \ {c}) \in Nat /\ Cardinality(held \cup {c}) \in Nat
              /\ Cardinality(held \ {c}) <= Cardinality(held)
              /\ Cardinality(held \cup {c}) <= Cardinality(held) + 1
<1>1. held \subseteq Callers /\ IsFiniteSet(Callers)
  BY KeyStoreAssumption DEF TypeOK
<1>2. IsFiniteSet(held) /\ Cardinality(held) \in Nat
  BY <1>1, FS_Subset, FS_CardinalityType
<1>3. ASSUME NEW c \in Callers
      PROVE  /\ Cardinality(held \ {c}) \in Nat /\ Cardinality(held \cup {c}) \in Nat
             /\ Cardinality(held \ {c}) <= Cardinality(held)
             /\ Cardinality(held \cup {c}) <= Cardinality(held) + 1
  <2>1. held \ {c} \subseteq held
    OBVIOUS
  <2>2. Cardinality(held \ {c}) <= Cardinality(held) /\ Cardinality(held \ {c}) \in Nat
    BY <1>2, <2>1, FS_Subset, FS_CardinalityType
  <2>3. Cardinality(held \cup {c}) =
          IF c \in held THEN Cardinality(held) ELSE Cardinality(held) + 1
    BY <1>2, FS_AddElement
  <2> QED  BY <1>2, <2>2, <2>3
<1> QED  BY <1>1, <1>2, <1>3

\* Every step keeps the types, and the connections with their holders.
LEMMA TypeStep == TypeOK /\ [Next]_vars => TypeOK'
<1> SUFFICES ASSUME TypeOK, [Next]_vars PROVE TypeOK'
  OBVIOUS
<1> USE HeldFacts, KeyStoreAssumption DEF TypeOK, tableVars
<1>1. ASSUME NEW k \in Keys, Create(k) PROVE TypeOK'
  BY <1>1 DEF Create
<1>2. ASSUME NEW k \in Keys, Delete(k) PROVE TypeOK'
  BY <1>2 DEF Delete
<1>3. ASSUME NEW k \in Keys, Expire(k) PROVE TypeOK'
  BY <1>3 DEF Expire
<1>4. ASSUME NEW c \in Callers, NEW k \in Keys \cup FileKeys, Begin(c, k) PROVE TypeOK'
  <2>1. deadAt' \in [Callers -> SUBSET Keys]
    BY <1>4 DEF Begin, Dead
  <2>2. held' = {d \in Callers : pc'[d] \in {"scan", "touch"}}
    BY <1>4 DEF Begin
  <2>3. /\ pc' \in [Callers -> {"idle", "query", "scan", "touch", "ok", "no", "err"}]
        /\ cand' \in [Callers -> Keys \cup FileKeys \cup {NoKey}]
        /\ presented' \subseteq Keys
    BY <1>4 DEF Begin
  <2> QED  BY <1>4, <2>1, <2>2, <2>3 DEF Begin
<1>5. ASSUME NEW c \in Callers, Query(c) PROVE TypeOK'
  <2>1. held' = {d \in Callers : pc'[d] \in {"scan", "touch"}}
    BY <1>5 DEF Query
  <2>2. Cardinality(held') <= MaxConns
    <3>1. held' = held \cup {c} /\ Cardinality(held) < MaxConns
      BY <1>5 DEF Query, Free
    <3> HIDE DEF TypeOK
    <3>2. Cardinality(held') = Cardinality(held \cup {c})
      BY <3>1, Zenon
    <3> DEFINE m == Cardinality(held) n == Cardinality(held \cup {c})
    <3>3. m \in Nat /\ n \in Nat /\ n <= m + 1 /\ MaxConns \in Nat /\ m < MaxConns
      BY <3>1
    <3> HIDE DEF m, n
    <3>4. n <= MaxConns
      BY <3>3
    <3> QED  BY <3>2, <3>4 DEF n
  <2>3. /\ pc' \in [Callers -> {"idle", "query", "scan", "touch", "ok", "no", "err"}]
        /\ seen' \in [Callers -> SUBSET Keys]
    BY <1>5 DEF Query
  <2> QED  BY <1>5, <2>1, <2>2, <2>3 DEF Query
<1>6. ASSUME NEW c \in Callers, Match(c) PROVE TypeOK'
  BY <1>6 DEF Match
<1>7. ASSUME NEW c \in Callers, Miss(c) \/ Touch(c) \/ Fail(c) PROVE TypeOK'
  <2>1. held' = held \ {c} /\ pc'[c] \notin {"scan", "touch"}
        /\ (\A d \in Callers : d # c => pc'[d] = pc[d])
    BY <1>7 DEF Miss, Touch, Fail
  <2>2. held' = {d \in Callers : pc'[d] \in {"scan", "touch"}}
    BY <2>1
  <2>3. Cardinality(held') <= MaxConns
    <3>1. held' = held \ {c} /\ Cardinality(held) <= MaxConns
      BY <2>1
    <3> HIDE DEF TypeOK
    <3>2. Cardinality(held') = Cardinality(held \ {c})
      BY <3>1, Zenon
    <3> DEFINE m == Cardinality(held) n == Cardinality(held \ {c})
    <3>3. m \in Nat /\ n \in Nat /\ n <= m /\ MaxConns \in Nat /\ m <= MaxConns
      BY <3>1
    <3> HIDE DEF m, n
    <3>4. n <= MaxConns
      BY <3>3
    <3> QED  BY <3>2, <3>4 DEF n
  <2>4. /\ pc' \in [Callers -> {"idle", "query", "scan", "touch", "ok", "no", "err"}]
        /\ seen' \in [Callers -> SUBSET Keys]
        /\ lastUsed' \subseteq Keys
    BY <1>7 DEF Miss, Touch, Fail
  <2> QED  BY <1>7, <2>2, <2>3, <2>4 DEF Miss, Touch, Fail
<1>8. ASSUME NEW c \in Callers, Finish(c) PROVE TypeOK'
  <2>1. held' = {d \in Callers : pc'[d] \in {"scan", "touch"}}
    BY <1>8 DEF Finish
  <2> QED  BY <1>8, <2>1 DEF Finish
<1>9. CASE UNCHANGED vars
  BY <1>9 DEF vars
<1> QED  BY <1>1, <1>2, <1>3, <1>4, <1>5, <1>6, <1>7, <1>8, <1>9 DEF Next, Step

\* A key that no longer authenticates never does again.
LEMMA DeadStays ==
  ASSUME TypeOK, [Next]_vars
  PROVE  Dead \subseteq Dead'
<1> USE DEF Dead, TypeOK
<1>1. ASSUME NEW k \in Keys, Create(k) \/ Delete(k) \/ Expire(k) PROVE Dead \subseteq Dead'
  BY <1>1 DEF Create, Delete, Expire
<1>2. CASE UNCHANGED tableVars
  BY <1>2 DEF tableVars
<1>3. \/ \E k \in Keys : Create(k) \/ Delete(k) \/ Expire(k)
      \/ UNCHANGED tableVars
  BY DEF Next, Step, Begin, Query, Touch, Fail, Match, Miss, Finish, vars
<1> QED  BY <1>1, <1>2, <1>3

\* Every step keeps what a request may still accept apart from the dead keys.
LEMMA DeadStep ==
  ASSUME IInv, [Next]_vars
  PROVE  DeadInv' /\ RevokedIsRejected'
<1>0. TypeOK /\ DeadInv /\ RevokedIsRejected /\ Dead \subseteq Dead'
  BY DeadStays DEF IInv
<1> SUFFICES ASSUME NEW c \in Callers
             PROVE  /\ deadAt'[c] \subseteq Dead'
                    /\ pc'[c] = "scan" => seen'[c] \cap deadAt'[c] = {}
                    /\ pc'[c] \in {"touch", "ok"} => cand'[c] \notin deadAt'[c]
  BY DEF DeadInv, RevokedIsRejected
<1> DEFINE Goal == /\ deadAt'[c] \subseteq Dead'
                   /\ pc'[c] = "scan" => seen'[c] \cap deadAt'[c] = {}
                   /\ pc'[c] \in {"touch", "ok"} => cand'[c] \notin deadAt'[c]
<1>1. CASE UNCHANGED <<pc, cand, seen, deadAt>>
  BY <1>0, <1>1 DEF DeadInv, RevokedIsRejected
<1>2. ASSUME NEW d \in Callers, NEW k \in Keys \cup FileKeys, Begin(d, k) PROVE Goal
  <2>1. CASE d = c
    <3>1. deadAt'[c] = Dead /\ cand'[c] = k /\ pc'[c] \in {"ok", "query"}
          /\ (pc'[c] = "ok" => k \in FileKeys)
      BY <1>0, <1>2, <2>1 DEF Begin, TypeOK
    <3>2. Dead \subseteq Keys
      BY <1>0 DEF Dead, TypeOK
    <3> QED  BY <1>0, <3>1, <3>2, KeyStoreAssumption
  <2>2. CASE d # c
    <3>1. pc'[c] = pc[c] /\ cand'[c] = cand[c] /\ seen'[c] = seen[c] /\ deadAt'[c] = deadAt[c]
      BY <1>0, <1>2, <2>2 DEF Begin, TypeOK
    <3> QED  BY <1>0, <3>1 DEF DeadInv, RevokedIsRejected
  <2> QED  BY <2>1, <2>2
<1>3. ASSUME NEW d \in Callers, Query(d) \/ Touch(d) \/ Fail(d) \/ Step(d) PROVE Goal
  <2>1. CASE d = c
    <3>1. deadAt[c] \subseteq Dead /\ Dead \cap (rows \ expired) = {}
      BY <1>0 DEF DeadInv, Dead
    <3>2. CASE Query(d)
      <4>1. deadAt'[c] = deadAt[c] /\ pc'[c] = "scan" /\ seen'[c] = rows \ expired
        BY <1>0, <2>1, <3>2 DEF Query, TypeOK
      <4> QED  BY <1>0, <3>1, <4>1
    <3>3. CASE Match(d)
      <4>1. deadAt'[c] = deadAt[c] /\ pc'[c] = "touch" /\ pc[c] = "scan"
            /\ cand'[c] = cand[c] /\ cand[c] \in seen[c]
        BY <1>0, <2>1, <3>3 DEF Match, TypeOK
      <4> QED  BY <1>0, <3>1, <4>1 DEF DeadInv
    <3>4. CASE Miss(d) \/ Touch(d) \/ Fail(d)
      <4>1. /\ deadAt'[c] = deadAt[c] /\ cand'[c] = cand[c]
            /\ pc'[c] \in {"no", "ok", "err"} /\ (pc'[c] = "ok" => pc[c] = "touch")
        BY <1>0, <2>1, <3>4 DEF Miss, Touch, Fail, TypeOK
      <4> QED  BY <1>0, <3>1, <4>1 DEF RevokedIsRejected
    <3>5. CASE Finish(d)
      <4>1. deadAt'[c] = {} /\ pc'[c] = "idle"
        BY <1>0, <2>1, <3>5 DEF Finish, TypeOK
      <4> QED  BY <4>1
    <3> QED  BY <1>3, <3>2, <3>3, <3>4, <3>5 DEF Step
  <2>2. CASE d # c
    <3>1. pc'[c] = pc[c] /\ cand'[c] = cand[c] /\ seen'[c] = seen[c] /\ deadAt'[c] = deadAt[c]
      BY <1>0, <1>3, <2>2 DEF Query, Touch, Fail, Step, Match, Miss, Finish, TypeOK
    <3> QED  BY <1>0, <3>1 DEF DeadInv, RevokedIsRejected
  <2> QED  BY <2>1, <2>2
<1>4. \/ UNCHANGED <<pc, cand, seen, deadAt>>
      \/ \E d \in Callers, k \in Keys \cup FileKeys : Begin(d, k)
      \/ \E d \in Callers : Query(d) \/ Touch(d) \/ Fail(d) \/ Step(d)
  BY DEF Next, Create, Delete, Expire, vars
<1> QED  BY <1>1, <1>2, <1>3, <1>4

\* Every step keeps names unique.
LEMMA NamesStep ==
  ASSUME IInv, [Next]_vars
  PROVE  NamesUnique'
<1>0. TypeOK /\ NamesUnique
  BY DEF IInv
<1>1. ASSUME NEW k \in Keys, Create(k) PROVE NamesUnique'
  BY <1>0, <1>1 DEF Create, NamesUnique, TypeOK
<1>2. CASE rows' \subseteq rows /\ name' = name
  BY <1>0, <1>2 DEF NamesUnique
<1>3. \/ \E k \in Keys : Create(k)
      \/ rows' \subseteq rows /\ name' = name
  BY DEF Next, Step, Delete, Expire, Begin, Query, Touch, Fail, Match, Miss, Finish, vars,
         tableVars
<1> QED  BY <1>1, <1>2, <1>3

\* Every step touches presented keys only.
LEMMA UsedStep ==
  ASSUME IInv, [Next]_vars
  PROVE  PresentedInv' /\ LastUsedIsTrue'
<1>0. TypeOK /\ PresentedInv /\ LastUsedIsTrue
  BY DEF IInv
<1>1. CASE UNCHANGED <<pc, cand, presented, lastUsed>>
  BY <1>0, <1>1 DEF PresentedInv, LastUsedIsTrue
<1>2. ASSUME NEW d \in Callers, NEW k \in Keys \cup FileKeys, Begin(d, k)
      PROVE  PresentedInv' /\ LastUsedIsTrue'
  BY <1>0, <1>2 DEF Begin, PresentedInv, LastUsedIsTrue, TypeOK
<1>3. ASSUME NEW d \in Callers, Touch(d) PROVE PresentedInv' /\ LastUsedIsTrue'
  BY <1>0, <1>3 DEF Touch, PresentedInv, LastUsedIsTrue, TypeOK
<1>4. ASSUME NEW d \in Callers, Query(d) \/ Fail(d) \/ Match(d) \/ Miss(d) \/ Finish(d)
      PROVE  PresentedInv' /\ LastUsedIsTrue'
  <2>1. /\ presented' = presented /\ lastUsed' = lastUsed
        /\ \A c \in Callers : \/ pc'[c] = "idle"
                              \/ cand'[c] = cand[c] /\ pc[c] # "idle"
                              \/ cand'[c] = cand[c] /\ pc'[c] = pc[c]
    BY <1>0, <1>4 DEF Query, Fail, Match, Miss, Finish, TypeOK
  <2> QED  BY <1>0, <2>1 DEF PresentedInv, LastUsedIsTrue
<1>5. \/ UNCHANGED <<pc, cand, presented, lastUsed>>
      \/ \E d \in Callers, k \in Keys \cup FileKeys : Begin(d, k)
      \/ \E d \in Callers : Touch(d)
      \/ \E d \in Callers : Query(d) \/ Fail(d) \/ Match(d) \/ Miss(d) \/ Finish(d)
  BY DEF Next, Step, Create, Delete, Expire, vars
<1> QED  BY <1>1, <1>2, <1>3, <1>4, <1>5

\* IInv is an invariant of the key store.
LEMMA SpecIInv == Spec => []IInv
<1>1. Init => IInv
  <2> SUFFICES ASSUME Init PROVE IInv
    OBVIOUS
  <2>1. Cardinality({}) = 0
    BY FS_EmptySet
  <2>2. TypeOK
    BY <2>1, KeyStoreAssumption DEF Init, TypeOK
  <2> QED  BY <2>2 DEF Init, IInv, DeadInv, PresentedInv, RevokedIsRejected, NamesUnique,
                       LastUsedIsTrue
<1>2. IInv /\ [Next]_vars => IInv'
  BY TypeStep, DeadStep, NamesStep, UsedStep DEF IInv
<1> QED  BY <1>1, <1>2, PTL DEF Spec

-----------------------------------------------------------------------------
(* The theorems.                                                           *)

\* Every path of Authenticate gives its connection back, and the pool never
\* gives out more than MaxConns.
THEOREM KeyStoreTypeCorrect == Spec => []TypeOK
<1>1. IInv => TypeOK
  BY DEF IInv
<1> QED  BY <1>1, SpecIInv, PTL

\* Authenticate never accepts a key that was deleted or expired before it
\* began.
THEOREM RevocationHolds == Spec => []RevokedIsRejected
<1>1. IInv => RevokedIsRejected
  BY DEF IInv
<1> QED  BY <1>1, SpecIInv, PTL

\* No two rows of the table have one name.
THEOREM NamesStayUnique == Spec => []NamesUnique
<1>1. IInv => NamesUnique
  BY DEF IInv
<1> QED  BY <1>1, SpecIInv, PTL

\* touchLastUsed marks presented keys only.
THEOREM LastUsedHolds == Spec => []LastUsedIsTrue
<1>1. IInv => LastUsedIsTrue
  BY DEF IInv
<1> QED  BY <1>1, SpecIInv, PTL

=============================================================================
