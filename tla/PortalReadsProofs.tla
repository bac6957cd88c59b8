--------------------------- MODULE PortalReadsProofs ---------------------------
(***************************************************************************)
(* Proofs about the portal's reads.                                        *)
(*   I.  The NDJSON export over OFFSET pages, for any finite set of rows,  *)
(*       any page size and any cap.                                        *)
(*   II. The other endpoints: a page and its total, the summaries, the two *)
(*       evaluations of a filter, what redaction hides, and text search,   *)
(*       for any events, any JSON documents and any queries.               *)
(***************************************************************************)
EXTENDS PortalReads, FiniteSetTheorems, WellFoundedInduction, TLAPS

(***************************************************************************)
(* I. The export.                                                          *)
(***************************************************************************)

-----------------------------------------------------------------------------
(* The places of the rows of a finite table.                               *)

\* A non-empty set of naturals has a least element.
LEMMA LeastNat ==
  ASSUME NEW N \in SUBSET Nat, N # {}
  PROVE  \E n \in N : \A m \in N : n <= m
<1>1. PICK n \in N : \A m \in N : ~(<<m, n>> \in OpToRel(<, Nat))
  BY NatLessThanWellFounded, WFMin
<1>2. ASSUME NEW m \in N PROVE n <= m
  <2>1. ~(m < n)
    BY <1>1 DEF OpToRel
  <2>. QED
    BY <2>1
<1>. QED
  BY <1>2

\* How many elements of S come before r.
Rank(S, r) == Cardinality({x \in S : x > r})

LEMMA PlaceIsRank == \A r : Place(r) = Rank(Result, r)
  BY DEF Place, Rank

\* A table of rows is a finite set of integers.
LEMMA RowsFacts ==
  ASSUME NEW S \in SUBSET Rows
  PROVE  /\ S \subseteq Int /\ IsFiniteSet(S) /\ Cardinality(S) \in Nat
         /\ \A r : IsFiniteSet({x \in S : x > r}) /\ Rank(S, r) \in Nat
<1>1. \A T \in SUBSET Rows : IsFiniteSet(T) /\ Cardinality(T) \in Nat
  BY AuditExportAssumption, FS_Subset, FS_CardinalityType
<1>2. S \subseteq Int
  BY AuditExportAssumption
<1>. QED
  BY <1>1, <1>2 DEF Rank

\* A newer row comes before an older one.
LEMMA RankOrder ==
  ASSUME NEW S \in SUBSET Rows, NEW x \in Int, NEW y \in Int, x <= y
  PROVE  /\ Rank(S, y) <= Rank(S, x)
         /\ x < y /\ y \in S => Rank(S, y) < Rank(S, x)
<1> DEFINE X == {z \in S : z > x}
           Y == {z \in S : z > y}
<1>0. IsFiniteSet(X) /\ IsFiniteSet(Y) /\ Cardinality(X) \in Nat /\ Cardinality(Y) \in Nat
  BY RowsFacts DEF Rank
<1>1. Y \subseteq X
  BY RowsFacts
<1>2. Cardinality(Y) <= Cardinality(X)
  BY <1>0, <1>1, FS_Subset
<1>3. ASSUME x < y, y \in S PROVE Cardinality(Y) < Cardinality(X)
  <2>1. y \in X /\ y \notin Y
    BY <1>3, RowsFacts
  <2>2. Y \subseteq X \ {y}
    BY <1>1, <2>1
  <2>3. IsFiniteSet(X \ {y}) /\ Cardinality(X \ {y}) = Cardinality(X) - 1
    BY <1>0, <2>1, FS_RemoveElement
  <2>4. Cardinality(Y) <= Cardinality(X \ {y})
    BY <2>2, <2>3, FS_Subset
  <2>. QED
    BY <1>0, <2>3, <2>4
<1>. QED
  BY <1>2, <1>3 DEF Rank

\* Newest(S), of a non-empty table, is its largest row.
LEMMA NewestFacts ==
  ASSUME NEW S \in SUBSET Rows, S # {}
  PROVE  Newest(S) \in S /\ \A x \in S : x <= Newest(S)
<1> DEFINE N == {Rank(S, x) : x \in S}
<1>0. N \in SUBSET Nat /\ N # {}
  BY RowsFacts
<1>1. PICK n \in N : \A i \in N : n <= i
  <2> HIDE DEF N
  <2>. QED
    BY <1>0, LeastNat
<1>2. PICK m \in S : \A x \in S : Rank(S, m) <= Rank(S, x)
  BY <1>1
<1>3. ASSUME NEW x \in S PROVE x <= m
  <2>1. x \in Int /\ m \in Int /\ Rank(S, x) \in Nat /\ Rank(S, m) \in Nat
    BY RowsFacts
  <2>2. m < x => Rank(S, x) < Rank(S, m)
    BY <2>1, RankOrder
  <2>. QED
    BY <1>2, <2>1, <2>2
<1>. QED
  BY <1>3 DEF Newest

\* No place is skipped: where a row has a place, every earlier place is some
\* row's.
LEMMA NoGap ==
  ASSUME NEW S \in SUBSET Rows, NEW r \in S, NEW k \in Nat, k <= Rank(S, r)
  PROVE  \E x \in S : Rank(S, x) = k
<1> DEFINE A == {x \in S : k <= Rank(S, x)}
<1>0. \A x \in S : x \in Int /\ Rank(S, x) \in Nat
  BY RowsFacts
<1> DEFINE N == {Rank(S, x) : x \in A}
<1>1. N \in SUBSET Nat /\ N # {}
  BY <1>0
<1>N. PICK n \in N : \A i \in N : n <= i
  <2> HIDE DEF N
  <2>. QED
    BY <1>1, LeastNat
<1>2. PICK m \in A : \A x \in A : Rank(S, m) <= Rank(S, x)
  BY <1>N
<1>3. CASE Rank(S, m) # k
  <2> DEFINE P == {x \in S : x > m}
  <2>0. m \in Int /\ IsFiniteSet(P) /\ Rank(S, m) = Cardinality(P) /\ Cardinality(P) > k
    BY <1>0, <1>2, <1>3, RowsFacts DEF Rank
  <2>1. P # {}
    BY <2>0, FS_EmptySet
  <2> DEFINE D == {x - m : x \in P}
  <2>2. D \in SUBSET Nat /\ D # {}
    <3>1. \A x \in P : x - m \in Nat
      BY <1>0, <2>0
    <3>. QED
      BY <2>1, <3>1
  <2>D. PICK d \in D : \A i \in D : d <= i
    <3> HIDE DEF D
    <3>. QED
      BY <2>2, LeastNat
  <2>3. PICK p \in P : \A x \in P : p - m <= x - m
    BY <2>D
  <2>4. {x \in S : x > p} = P \ {p}
    <3>1. m \in Int /\ p \in Int /\ p > m /\ \A x \in P : p <= x
      BY <1>0, <2>0, <2>3
    <3>2. ASSUME NEW x \in S PROVE x > p <=> x \in P \ {p}
      <4>1. x \in Int
        BY <1>0
      <4>. QED
        BY <3>1, <4>1
    <3>. QED
      BY <3>2
  <2>5. Rank(S, p) = Cardinality(P) - 1
    <3>1. Cardinality(P \ {p}) = Cardinality(P) - 1
      BY <2>0, <2>3, FS_RemoveElement
    <3>2. Rank(S, p) = Cardinality(P \ {p})
      BY <2>4 DEF Rank
    <3>. QED
      BY <3>1, <3>2
  <2>6. p \in A /\ Rank(S, p) < Rank(S, m)
    BY <1>0, <2>0, <2>3, <2>5
  <2>. QED
    BY <1>0, <1>2, <2>6
<1>. QED
  BY <1>2, <1>3

\* The rows of S at the places o .. o + n - 1.
Places(S, o, n) == {x \in S : o <= Rank(S, x) /\ Rank(S, x) < o + n}

\* A page has at most as many rows as places, and exactly as many when there
\* is a row behind it.
LEMMA PlacesSize ==
  ASSUME NEW S \in SUBSET Rows, NEW o \in Nat, NEW n \in Nat
  PROVE  /\ Places(S, o, n) \in SUBSET Rows /\ Cardinality(Places(S, o, n)) \in Nat
         /\ Cardinality(Places(S, o, n)) <= n
         /\ (\E r \in S : o + n <= Rank(S, r)) => Cardinality(Places(S, o, n)) = n
<1> DEFINE P == Places(S, o, n)
           I == o .. (o + n - 1)
           f == [x \in P |-> Rank(S, x)]
<1>0. /\ P \in SUBSET Rows /\ P \in SUBSET S /\ IsFiniteSet(P) /\ Cardinality(P) \in Nat
      /\ \A x \in S : x \in Int /\ Rank(S, x) \in Nat
  BY RowsFacts DEF Places
<1>1. IsFiniteSet(I) /\ Cardinality(I) = n
  BY FS_Interval
<1>2. f \in [P -> I]
  BY <1>0 DEF Places
<1>3. ASSUME NEW x \in P, NEW y \in P, f[x] = f[y] PROVE x = y
  <2>1. x \in S /\ y \in S /\ x \in Int /\ y \in Int /\ Rank(S, x) = Rank(S, y)
    BY <1>0, <1>3
  <2>2. ~(x < y) /\ ~(y < x)
    BY <1>0, <2>1, RankOrder
  <2>. QED
    BY <2>1, <2>2
<1>4. f \in Injection(P, I)
  BY <1>2, <1>3 DEF Injection, IsInjective
<1>5. Cardinality(P) <= n
  BY <1>1, <1>4, FS_Injection
<1>6. ASSUME NEW r \in S, o + n <= Rank(S, r) PROVE Cardinality(P) = n
  <2>1. ASSUME NEW k \in I PROVE \E x \in P : f[x] = k
    <3>1. k \in Nat /\ k <= Rank(S, r) /\ o <= k /\ k < o + n
      BY <1>0, <1>6
    <3>2. PICK x \in S : Rank(S, x) = k
      BY <3>1, NoGap
    <3>3. x \in P
      BY <3>1, <3>2 DEF Places
    <3>. QED
      BY <3>2, <3>3
  <2>2. f \in Surjection(P, I)
    BY <1>2, <2>1 DEF Surjection
  <2>. QED
    BY <1>1, <1>4, <2>2, FS_Injection
<1>. QED
  BY <1>0, <1>5, <1>6

\* With more rows before it, a row's place is further back.
LEMMA RankGrows ==
  ASSUME NEW S \in SUBSET Rows, NEW T \in SUBSET Rows, NEW x,
         \A y \in S : y > x => y \in T
  PROVE  Rank(S, x) <= Rank(T, x)
<1>1. {y \in S : y > x} \subseteq {y \in T : y > x} /\ IsFiniteSet({y \in T : y > x})
  BY RowsFacts
<1>. QED
  BY <1>1, FS_Subset DEF Rank

\* A sequence that gets one more element keeps what it had.
LEMMA AppendFacts ==
  ASSUME NEW S, NEW q \in Seq(S), NEW x \in S
  PROVE  /\ Append(q, x) \in Seq(S) /\ Append(q, x) # <<>>
         /\ Len(Append(q, x)) = Len(q) + 1 /\ Len(q) \in Nat
         /\ \A i \in 1 .. Len(q) : Append(q, x)[i] = q[i]
         /\ Append(q, x)[Len(q) + 1] = x
         /\ Elems(Append(q, x)) = Elems(q) \cup {x}
<1>1. /\ Append(q, x) \in Seq(S) /\ Append(q, x) # <<>>
      /\ Len(Append(q, x)) = Len(q) + 1 /\ Len(q) \in Nat
      /\ \A i \in 1 .. Len(q) : Append(q, x)[i] = q[i]
      /\ Append(q, x)[Len(q) + 1] = x
  OBVIOUS
<1>2. \A i : i \in 1 .. (Len(q) + 1) <=> i \in 1 .. Len(q) \/ i = Len(q) + 1
  BY <1>1
<1>. QED
  BY <1>1, <1>2 DEF Elems

-----------------------------------------------------------------------------
(* The inductive invariant.                                                *)

\* The status line while the export runs.
StatusInv ==
  /\ pc # "end" => outcome = "none" /\ status # "500" /\ (status = "200" <=> out # <<>>)
  /\ StatusIsHonest

\* The rows of a page, written or not, are at most a page.
PageInv == pc = "row" => Cardinality(page) + count <= PageSize

\* The exception: the row may have moved past the walk.
Slipped(r) == filter.link /\ LinkLost(r)

\* A row of the start that was not deleted and has not slipped still matches;
\* it is written, about to be written, or still ahead, and it can only be ahead
\* of a full page.
ReachInv ==
  \A r \in start \ pruned : ~Slipped(r) =>
       /\ r \in Result
       /\ pc = "page" => r \in Elems(out) \/ offset <= Place(r)
       /\ pc = "row" => \/ r \in Elems(out) \cup page
                        \/ /\ Cardinality(page) + count = PageSize
                           /\ offset + PageSize <= Place(r)

\* While no row comes or goes, what is written is the front of the table, and
\* what is left of the page follows it.
QuietInv ==
  quiet =>
    /\ Result = start
    /\ \A i, j \in 1 .. Len(out) : i < j => out[i] > out[j]
    /\ \A r \in start, i \in 1 .. Len(out) : r > out[i] => r \in Elems(out)
    /\ pc = "page" => Elems(out) = Places(Result, 0, offset)
    /\ pc = "row" => /\ Elems(out) \cup page = Places(Result, 0, offset + PageSize)
                     /\ \A x \in page, y \in Elems(out) : x < y
    /\ outcome = "capped" => Len(out) = Cap /\ start \ Elems(out) # {}

IInv == TypeOK /\ StatusInv /\ PageInv /\ ReachInv /\ ExportComplete /\ QuietInv

-----------------------------------------------------------------------------
(* Each part is preserved by every step.                                   *)

\* What writing a row does to the page and the output.
LEMMA WriteFacts ==
  ASSUME TypeOK, PageInv, WriteRow
  PROVE  /\ Newest(page) \in page /\ \A x \in page : x <= Newest(page)
         /\ page' = page \ {Newest(page)} /\ page' \in SUBSET Rows
         /\ Cardinality(page') = Cardinality(page) - 1 /\ Cardinality(page) \in Nat
         /\ count' = count + 1 /\ Cardinality(page') + count' = Cardinality(page) + count
         /\ count' \in 0 .. PageSize
         /\ out' \in Seq(Rows) /\ Len(out') = Len(out) + 1 /\ Len(out') <= Cap
         /\ Elems(out') = Elems(out) \cup {Newest(page)}
<1>1. /\ page \in SUBSET Rows /\ page # {} /\ count \in Nat /\ PageSize \in Nat
      /\ out \in Seq(Rows) /\ Len(out) < Cap /\ Cap \in Nat /\ pc = "row"
  BY AuditExportAssumption DEF TypeOK, WriteRow
<1>2. Newest(page) \in page /\ \A x \in page : x <= Newest(page)
  BY <1>1, NewestFacts
<1>3. IsFiniteSet(page) /\ Cardinality(page) \in Nat
  BY <1>1, RowsFacts
<1>4. /\ Cardinality(page \ {Newest(page)}) = Cardinality(page) - 1
      /\ Cardinality(page \ {Newest(page)}) \in Nat
  BY <1>1, <1>2, <1>3, FS_RemoveElement, FS_CardinalityType
<1>5. page' = page \ {Newest(page)} /\ count' = count + 1 /\ out' = Append(out, Newest(page))
  BY DEF WriteRow
<1>6. Cardinality(page) + count <= PageSize
  BY <1>1 DEF PageInv
<1>7. Newest(page) \in Rows
  BY <1>1, <1>2
<1>8. /\ out' \in Seq(Rows) /\ Len(out') = Len(out) + 1 /\ Len(out) \in Nat
      /\ Elems(out') = Elems(out) \cup {Newest(page)}
  BY <1>1, <1>5, <1>7, AppendFacts
<1>9. count' \in 0 .. PageSize /\ Len(out') <= Cap
  BY <1>1, <1>3, <1>4, <1>5, <1>6, <1>8
<1>. QED
  BY <1>1, <1>2, <1>3, <1>4, <1>5, <1>8, <1>9

\* What fetching a page puts into it.
LEMMA FetchFacts ==
  ASSUME TypeOK, FetchPage
  PROVE  /\ page' = Places(Result, offset, PageSize) /\ count' = 0 /\ page' \in SUBSET Rows
         /\ Cardinality(page') \in Nat /\ Cardinality(page') <= PageSize
         /\ (\E r \in Result : offset + PageSize <= Place(r)) => Cardinality(page') = PageSize
<1>1. Result \in SUBSET Rows /\ offset \in Nat /\ PageSize \in Nat
  BY AuditExportAssumption DEF TypeOK, Result
<1>2. page' = Places(Result, offset, PageSize) /\ count' = 0
  BY PlaceIsRank DEF FetchPage, Places
<1>. QED
  BY <1>1, <1>2, PlacesSize, PlaceIsRank

\* Every step keeps the types; a page is never passed on beyond its size.
LEMMA TypeStep == TypeOK /\ PageInv /\ [Next]_vars => TypeOK'
<1> SUFFICES ASSUME TypeOK, PageInv, [Next]_vars PROVE TypeOK'
  OBVIOUS
<1>1. ASSUME NEW r \in Rows, Insert(r) \/ Prune(r) PROVE TypeOK'
  BY <1>1 DEF Insert, Prune, TypeOK, streamVars
<1>2. CASE ClientGone
  BY <1>2 DEF ClientGone, TypeOK, tableVars, streamVars
<1>3. CASE FetchPage
  <2>1. page' \in SUBSET Rows /\ count' \in 0 .. PageSize
    BY <1>3, FetchFacts, AuditExportAssumption
  <2>. QED
    BY <1>3, <2>1 DEF FetchPage, TypeOK, tableVars
<1>4. ASSUME NEW result \in {"complete", "capped", "cancelled", "failed"}, Finish(result)
      PROVE  TypeOK'
  BY <1>4 DEF Finish, TypeOK, tableVars
<1>5. CASE WriteRow
  BY <1>5, WriteFacts DEF WriteRow, TypeOK, tableVars
<1>6. CASE EncodeError
  BY <1>6 DEF EncodeError, TypeOK, tableVars
<1>7. CASE NextPage
  BY <1>7, AuditExportAssumption DEF NextPage, TypeOK, tableVars
<1>8. CASE UNCHANGED vars
  BY <1>8 DEF vars, tableVars, streamVars, TypeOK
<1>. QED
  BY <1>1, <1>2, <1>3, <1>4, <1>5, <1>6, <1>7, <1>8
     DEF Next, Stream, SeeCancel, SeeCap, StreamError, LastPage

\* The first row commits the status, and Finish only sets one that is not set.
LEMMA StatusStep == TypeOK /\ StatusInv /\ [Next]_vars => StatusInv'
<1> SUFFICES ASSUME TypeOK, StatusInv, [Next]_vars PROVE StatusInv'
  OBVIOUS
<1> USE DEF StatusInv, StatusIsHonest
<1>1. ASSUME NEW r \in Rows, Insert(r) \/ Prune(r) PROVE StatusInv'
  BY <1>1 DEF Insert, Prune, streamVars
<1>2. CASE ClientGone
  BY <1>2 DEF ClientGone, streamVars
<1>3. CASE FetchPage
  BY <1>3 DEF FetchPage
<1>4. ASSUME NEW result \in {"complete", "capped", "cancelled", "failed"}, Finish(result),
             pc # "end"
      PROVE  StatusInv'
  BY <1>4 DEF Finish, TypeOK
<1>5. CASE WriteRow
  <2>1. out' # <<>>
    <3>1. out \in Seq(Rows) /\ Newest(page) \in page /\ page \in SUBSET Rows
      BY <1>5, NewestFacts DEF WriteRow, TypeOK
    <3>. QED
      BY <1>5, <3>1, AppendFacts DEF WriteRow
  <2>. QED
    BY <1>5, <2>1 DEF WriteRow
<1>6. CASE EncodeError
  BY <1>6 DEF EncodeError
<1>7. CASE NextPage
  BY <1>7 DEF NextPage
<1>8. CASE UNCHANGED vars
  BY <1>8 DEF vars, streamVars
<1>. QED
  BY <1>1, <1>2, <1>3, <1>4, <1>5, <1>6, <1>7, <1>8
     DEF Next, Stream, SeeCancel, SeeCap, StreamError, LastPage

\* Every step keeps a page within its size.
LEMMA PageStep == TypeOK /\ PageInv /\ [Next]_vars => PageInv'
<1> SUFFICES ASSUME TypeOK, PageInv, [Next]_vars PROVE PageInv'
  OBVIOUS
<1>1. CASE UNCHANGED <<page, count, pc>> \/ pc' # "row"
  BY <1>1 DEF PageInv
<1>2. CASE FetchPage
  BY <1>2, FetchFacts, AuditExportAssumption DEF PageInv
<1>3. CASE WriteRow
  BY <1>3, WriteFacts DEF PageInv, WriteRow
<1>4. ~FetchPage /\ ~WriteRow => UNCHANGED <<page, count, pc>> \/ pc' # "row"
  BY DEF Next, Stream, SeeCancel, SeeCap, StreamError, LastPage, Finish, EncodeError, NextPage,
         Insert, Prune, ClientGone, vars, streamVars
<1>. QED
  BY <1>1, <1>2, <1>3, <1>4

\* A link that is lost stays lost.
LEMMA SlippedStep ==
  ASSUME NEW p \in Rows, Insert(p) \/ Prune(p), NEW r
  PROVE  /\ table \cup pruned \subseteq table' \cup pruned' /\ pruned \subseteq pruned'
         /\ LinkLost(r) => LinkLost(r)'
         /\ Slipped(r) => Slipped(r)'
<1>1. /\ table \cup pruned \subseteq table' \cup pruned' /\ pruned \subseteq pruned'
      /\ filter' = filter
  BY DEF Insert, Prune
<1>2. LinkLost(r) => LinkLost(r)'
  BY <1>1 DEF LinkLost
<1>. QED
  BY <1>1, <1>2 DEF Slipped

\* A row keeps its link through an insert, and through a deletion unless that is
\* the deletion of the row it names, which is then a loss for all that is behind.
LEMMA LinkStep ==
  ASSUME TypeOK, NEW p \in Rows, Insert(p) \/ Prune(p), NEW r \in table, r \in table',
         NEW y \in table, y >= r, ~LinkLost(r)'
  PROVE  y \in table' /\ Linked(y)' = Linked(y)
<1>0. table \in SUBSET Rows /\ p \in Int /\ r \in Int /\ y \in Int
  BY AuditExportAssumption DEF TypeOK
<1>1. CASE Insert(p)
  <2>1. ReplayOf[y] # p /\ table' = table \cup {p}
    BY <1>1 DEF Insert
  <2>. QED
    BY <2>1 DEF Linked
<1>2. CASE Prune(p)
  <2>1. table' = table \ {p} /\ p \in pruned' /\ p <= r
    BY <1>2 DEF Prune
  <2>2. y \in table'
    BY <1>0, <2>1
  <2>3. ReplayOf[y] # p
    BY <2>1, <2>2 DEF LinkLost
  <2>. QED
    BY <2>1, <2>2, <2>3 DEF Linked
<1>. QED
  BY <1>1, <1>2

\* A row that matched and has neither been deleted nor slipped still matches, and
\* so do the rows before it.
LEMMA ResultStep ==
  ASSUME TypeOK, NEW p \in Rows, Insert(p) \/ Prune(p),
         NEW r \in Result, r \notin pruned', ~Slipped(r)'
  PROVE  r \in Result' /\ \A y \in Result : y > r => y \in Result'
<1>1. r \in table /\ r \in table' /\ table \in SUBSET Rows /\ filter' = filter
  BY DEF Result, Insert, Prune, TypeOK
<1>2. r \in Int /\ p \in Int /\ \A y \in table : y \in Int
  BY <1>1, AuditExportAssumption DEF TypeOK
<1>3. ASSUME NEW y \in Result, y >= r PROVE y \in Result'
  <2>1. y \in table /\ y \in filter.rows /\ (filter.link => Linked(y))
    BY DEF Result
  <2>2. CASE filter.link
    <3>1. ~LinkLost(r)'
      BY <1>1, <2>2 DEF Slipped
    <3>2. y \in table' /\ Linked(y)' = Linked(y)
      BY <1>1, <1>3, <2>1, <3>1, LinkStep
    <3>. QED
      BY <1>1, <2>1, <3>2 DEF Result
  <2>3. CASE ~filter.link
    <3>1. y \in table'
      <4>1. CASE Insert(p)
        BY <2>1, <4>1 DEF Insert
      <4>2. CASE Prune(p)
        <5>1. table' = table \ {p} /\ p <= r /\ r # p
          BY <1>1, <4>2 DEF Prune
        <5>. QED
          BY <1>2, <1>3, <2>1, <5>1
      <4>. QED
        BY <4>1, <4>2
    <3>. QED
      BY <1>1, <2>1, <2>3, <3>1 DEF Result
  <2>. QED
    BY <2>2, <2>3
<1>4. r >= r /\ \A y \in table : y > r => y >= r
  BY <1>2
<1>5. Result \subseteq table
  BY DEF Result
<1>. QED
  BY <1>3, <1>4, <1>5

\* Every step keeps a row of the start within reach: an insert only moves it
\* back, the retention job does not move it, a full page is followed by the
\* next one, and the walk ends only after a page that is not full.
LEMMA ReachStep ==
  TypeOK /\ PageInv /\ ReachInv /\ ExportComplete /\ StatusInv /\ [Next]_vars
    => ReachInv' /\ ExportComplete'
<1> SUFFICES ASSUME TypeOK, PageInv, ReachInv, ExportComplete, StatusInv, [Next]_vars
             PROVE  ReachInv' /\ ExportComplete'
  OBVIOUS
<1>t. /\ Result \in SUBSET Rows /\ start \in SUBSET Rows /\ offset \in Nat /\ count \in Nat
      /\ PageSize \in Nat \ {0} /\ page \in SUBSET Rows /\ Cardinality(page) \in Nat
      /\ \A r : Place(r) \in Nat
  <2>1. /\ Result \in SUBSET Rows /\ start \in SUBSET Rows /\ offset \in Nat /\ count \in Nat
        /\ PageSize \in Nat \ {0} /\ page \in SUBSET Rows
    BY AuditExportAssumption DEF TypeOK, Result
  <2>2. Cardinality(page) \in Nat
    BY <2>1, RowsFacts
  <2>3. \A r : Place(r) \in Nat
    BY <2>1, RowsFacts, PlaceIsRank
  <2>. QED
    BY <2>1, <2>2, <2>3
<1>1. ASSUME NEW p \in Rows, Insert(p) \/ Prune(p) PROVE ReachInv' /\ ExportComplete'
  <2>1. UNCHANGED <<filter, start, pc, offset, page, count, out, outcome>>
    BY <1>1 DEF Insert, Prune, streamVars
  <2>2. pruned \subseteq pruned'
    BY <1>1 DEF Insert, Prune
  <2>3. ASSUME NEW r \in start \ pruned', ~Slipped(r)' PROVE ~Slipped(r) /\ r \in start \ pruned
    BY <1>1, <2>1, <2>2, <2>3, SlippedStep
  <2>4. ASSUME NEW r \in start \ pruned', ~Slipped(r)'
        PROVE  r \in Result' /\ Place(r) <= Place(r)' /\ Place(r)' \in Nat
    <3>1. r \in Result
      BY <2>3, <2>4 DEF ReachInv
    <3>2. r \in Result' /\ \A y \in Result : y > r => y \in Result'
      BY <1>1, <2>4, <3>1, ResultStep
    <3>3. Result' \in SUBSET Rows
      BY <1>1 DEF Result, TypeOK, Insert, Prune
    <3>4. Place(r)' = Rank(Result', r)
      BY DEF Place, Rank
    <3>. QED
      BY <1>t, <3>2, <3>3, <3>4, RankGrows, RowsFacts, PlaceIsRank
  <2>5. ReachInv'
    BY <1>t, <2>1, <2>3, <2>4 DEF ReachInv, Elems
  <2>. QED
    BY <2>1, <2>3, <2>5 DEF ExportComplete, Slipped, Elems
<1>2. ASSUME UNCHANGED <<table, pruned, filter, start>>
      PROVE  /\ Result' = Result /\ \A r : Place(r)' = Place(r) /\ Slipped(r)' = Slipped(r)
             /\ start' = start /\ pruned' = pruned
  BY <1>2 DEF Result, Linked, Place, Slipped, LinkLost
<1>3. CASE FetchPage
  <2>1. /\ UNCHANGED <<table, pruned, filter, start, offset, out, outcome>> /\ pc = "page" /\ pc' = "row"
        /\ page' = Places(Result, offset, PageSize) /\ count' = 0
        /\ Cardinality(page') \in Nat
    BY <1>3, FetchFacts DEF FetchPage, tableVars
  <2>2. ASSUME NEW r \in start \ pruned, ~Slipped(r)
        PROVE  \/ r \in Elems(out) \cup page'
               \/ Cardinality(page') + count' = PageSize /\ offset + PageSize <= Place(r)
    <3>1. r \in Result /\ (r \in Elems(out) \/ offset <= Place(r))
      BY <2>1, <2>2 DEF ReachInv
    <3>2. Place(r) < offset + PageSize /\ offset <= Place(r) => r \in page'
      BY <2>1, <3>1, PlaceIsRank DEF Places
    <3>3. offset + PageSize <= Place(r) => Cardinality(page') = PageSize
      BY <1>3, <3>1, FetchFacts
    <3>. QED
      BY <1>t, <2>1, <3>1, <3>2, <3>3
  <2>3. Elems(out)' = Elems(out) /\ offset' = offset
    BY <2>1 DEF Elems
  <2>4. \A r : Place(r)' = Place(r) /\ Slipped(r)' = Slipped(r)
    BY <1>2, <2>1
  <2>5. Result' = Result /\ start' = start /\ pruned' = pruned
    BY <1>2, <2>1
  <2>6. \A r \in start \ pruned : ~Slipped(r) => r \in Result
    BY DEF ReachInv
  <2>7. ReachInv'
    BY <2>1, <2>2, <2>3, <2>4, <2>5, <2>6 DEF ReachInv
  <2>. QED
    BY <2>1, <2>7 DEF ExportComplete, StatusInv
<1>4. CASE WriteRow
  <2>1. /\ UNCHANGED <<table, pruned, filter, start, offset, outcome, pc>> /\ pc = "row"
        /\ page \subseteq page' \cup Elems(out') /\ Elems(out) \subseteq Elems(out')
        /\ Cardinality(page') + count' = Cardinality(page) + count
    BY <1>4, WriteFacts DEF WriteRow, tableVars
  <2>3. Elems(out)' = Elems(out')
    BY DEF Elems
  <2>4. ReachInv'
    BY <1>t, <1>2, <2>1, <2>3 DEF ReachInv
  <2>5. ExportComplete'
    BY <2>1 DEF StatusInv, ExportComplete
  <2>. QED
    BY <2>4, <2>5
<1>5. CASE NextPage
  <2>1. /\ UNCHANGED <<table, pruned, filter, start, out, outcome>> /\ pc = "row" /\ pc' = "page"
        /\ page = {} /\ offset' = offset + PageSize
    BY <1>5 DEF NextPage, tableVars
  <2>3. ReachInv'
    BY <1>t, <1>2, <2>1 DEF ReachInv, Elems
  <2>. QED
    BY <2>1, <2>3 DEF ExportComplete, StatusInv
<1>6. CASE LastPage
  <2>1. /\ UNCHANGED <<table, pruned, filter, start, out, page, count>> /\ pc = "row" /\ pc' = "end"
        /\ page = {} /\ count < PageSize
    BY <1>6 DEF LastPage, Finish, tableVars
  <2>2. Cardinality(page) + count # PageSize
    BY <1>t, <2>1, FS_EmptySet
  <2>3. \A r \in start \ pruned : r \in Elems(out) \/ Slipped(r)
    BY <2>1, <2>2 DEF ReachInv
  <2>. QED
    BY <1>2, <2>1, <2>3 DEF ReachInv, ExportComplete, Slipped, Elems
<1>7. CASE SeeCancel \/ SeeCap \/ StreamError \/ EncodeError
  <2>1. /\ pc' = "end" /\ outcome' # "complete" /\ UNCHANGED <<table, pruned, filter, start>>
    BY <1>7 DEF SeeCancel, SeeCap, StreamError, EncodeError, Finish, tableVars
  <2>. QED
    BY <1>2, <2>1 DEF ReachInv, ExportComplete
<1>8. CASE UNCHANGED <<table, pruned, filter, start, offset, page, count, out, outcome, pc>>
  <2>1. ReachInv'
    BY <1>2, <1>8 DEF ReachInv, Elems
  <2>2. ExportComplete'
    BY <1>2, <1>8 DEF ExportComplete, Slipped, Elems
  <2>. QED
    BY <2>1, <2>2
<1>. QED
  BY <1>1, <1>3, <1>4, <1>5, <1>6, <1>7, <1>8
     DEF Next, Stream, ClientGone, vars, tableVars, streamVars

\* The front of a table is what is before a place, and is closed under newer
\* rows; the next page lies behind it.
LEMMA FrontFacts ==
  ASSUME NEW S \in SUBSET Rows, NEW o \in Nat, NEW n \in Nat
  PROVE  /\ Places(S, 0, o) \cup Places(S, o, n) = Places(S, 0, o + n)
         /\ \A x \in Places(S, o, n), y \in Places(S, 0, o) : x < y
         /\ \A x \in Places(S, 0, o), y \in S : x < y => y \in Places(S, 0, o)
<1>0. \A x \in S : x \in Int /\ Rank(S, x) \in Nat
  BY RowsFacts
<1>1. Places(S, 0, o) \cup Places(S, o, n) = Places(S, 0, o + n)
  <2>1. ASSUME NEW x \in S
        PROVE  x \in Places(S, 0, o) \cup Places(S, o, n) <=> x \in Places(S, 0, o + n)
    <3>1. Rank(S, x) \in Nat
      BY <1>0
    <3>. QED
      BY <3>1 DEF Places
  <2>. QED
    BY <2>1 DEF Places
<1>2. ASSUME NEW x \in Places(S, o, n), NEW y \in Places(S, 0, o) PROVE x < y
  <2>1. /\ x \in S /\ y \in S /\ x \in Int /\ y \in Int /\ Rank(S, x) \in Nat
        /\ Rank(S, y) \in Nat /\ Rank(S, y) < Rank(S, x)
    BY <1>0 DEF Places
  <2>2. y <= x => Rank(S, x) <= Rank(S, y)
    BY <2>1, RankOrder
  <2>. QED
    BY <2>1, <2>2
<1>3. ASSUME NEW x \in Places(S, 0, o), NEW y \in S, x < y PROVE y \in Places(S, 0, o)
  <2>1. /\ x \in S /\ x \in Int /\ y \in Int /\ Rank(S, x) \in Nat
        /\ Rank(S, y) \in Nat /\ Rank(S, x) < o
    BY <1>0 DEF Places
  <2>2. Rank(S, y) < Rank(S, x)
    BY <1>3, <2>1, RankOrder
  <2>. QED
    BY <2>1, <2>2 DEF Places
<1>. QED
  BY <1>1, <1>2, <1>3

\* Every step keeps a quiet export exact: pages follow each other without gap
\* or overlap, and each is written from its newest row on.
LEMMA QuietStep ==
  TypeOK /\ StatusInv /\ PageInv /\ QuietInv /\ [Next]_vars => QuietInv'
<1> SUFFICES ASSUME TypeOK, StatusInv, PageInv, QuietInv, [Next]_vars, quiet'
             PROVE  QuietInv'
  BY DEF QuietInv
<1>t. /\ Result \in SUBSET Rows /\ start \in SUBSET Rows /\ offset \in Nat /\ PageSize \in Nat
      /\ out \in Seq(Rows) /\ Len(out) \in Nat /\ Cap \in Nat /\ Len(out) <= Cap
  BY AuditExportAssumption DEF TypeOK, Result
<1>u. table' = table /\ filter' = filter => Result' = Result
  BY DEF Result, Linked
<1>s. Elems(out)' = Elems(out')
  BY DEF Elems
<1>1. CASE FetchPage
  <2>1. /\ UNCHANGED <<Result, start, offset, out, outcome, quiet>> /\ pc = "page" /\ pc' = "row"
        /\ page' = Places(Result, offset, PageSize) /\ quiet
    BY <1>u, <1>1, FetchFacts DEF FetchPage, tableVars
  <2>2. Elems(out) = Places(Result, 0, offset)
    BY <2>1 DEF QuietInv
  <2>3. /\ Elems(out) \cup page' = Places(Result, 0, offset + PageSize)
        /\ \A x \in page', y \in Elems(out) : x < y
    <3>1. PICK R \in SUBSET Rows : R = Result
      BY <1>t
    <3>2. /\ Places(R, 0, offset) \cup Places(R, offset, PageSize) = Places(R, 0, offset + PageSize)
          /\ \A x \in Places(R, offset, PageSize), y \in Places(R, 0, offset) : x < y
      BY <1>t, <3>1, FrontFacts
    <3>3. Elems(out) = Places(R, 0, offset) /\ page' = Places(R, offset, PageSize)
      BY <2>1, <2>2, <3>1
    <3>4. Elems(out) \cup page' = Places(R, 0, offset + PageSize)
      BY <3>2, <3>3
    <3>5. \A x \in page', y \in Elems(out) : x < y
      BY <3>2, <3>3
    <3>. QED
      BY <3>1, <3>4, <3>5
  <2>4. Elems(out') = Elems(out) /\ Places(Result, 0, offset + PageSize)'
                                      = Places(Result, 0, offset + PageSize)
    BY <2>1 DEF Elems, Places, Rank
  <2>. QED
    BY <1>s, <2>1, <2>3, <2>4 DEF QuietInv
<1>2. CASE WriteRow
  <2> DEFINE m == Newest(page)
  <2>1. /\ UNCHANGED <<Result, start, offset, outcome, quiet, pc>> /\ pc = "row" /\ quiet
        /\ out' = Append(out, m) /\ Result = start /\ outcome = "none"
    BY <1>u, <1>2 DEF WriteRow, tableVars, QuietInv, StatusInv
  <2>2. /\ m \in page /\ (\A x \in page : x <= m) /\ page' = page \ {m}
        /\ Elems(out') = Elems(out) \cup {m} /\ Len(out') = Len(out) + 1
    BY <1>2, WriteFacts
  <2>3. /\ Elems(out) \cup page = Places(Result, 0, offset + PageSize)
        /\ \A x \in page, y \in Elems(out) : x < y
        /\ \A i, j \in 1 .. Len(out) : i < j => out[i] > out[j]
        /\ \A r \in start, i \in 1 .. Len(out) : r > out[i] => r \in Elems(out)
    BY <2>1 DEF QuietInv
  <2>4. /\ page \in SUBSET Rows /\ m \in Rows
        /\ \A x \in Rows : x \in Int
    BY <2>2, RowsFacts, AuditExportAssumption DEF TypeOK
  <2>5. /\ \A i \in 1 .. Len(out) : out'[i] = out[i] /\ out[i] \in Elems(out)
        /\ out'[Len(out) + 1] = m
    BY <1>t, <2>1, <2>4, AppendFacts DEF Elems
  <2>6. ASSUME NEW i \in 1 .. Len(out'), NEW j \in 1 .. Len(out'), i < j PROVE out'[i] > out'[j]
    <3>1. i \in 1 .. Len(out) /\ (j \in 1 .. Len(out) \/ j = Len(out) + 1)
      BY <1>t, <2>2, <2>6
    <3>2. CASE j \in 1 .. Len(out)
      BY <2>3, <2>5, <2>6, <3>1, <3>2
    <3>3. CASE j = Len(out) + 1
      <4>1. m < out[i]
        BY <2>2, <2>3, <2>5, <3>1
      <4>. QED
        BY <2>5, <3>1, <3>3, <4>1
    <3>. QED
      BY <3>1, <3>2, <3>3
  <2>7. ASSUME NEW r \in start, NEW i \in 1 .. Len(out'), r > out'[i] PROVE r \in Elems(out')
    <3>1. i \in 1 .. Len(out) \/ i = Len(out) + 1
      BY <1>t, <2>2
    <3>2. CASE i \in 1 .. Len(out)
      BY <2>2, <2>3, <2>5, <2>7, <3>2
    <3>3. CASE i = Len(out) + 1
      <4>1. m < r /\ r \in Result
        BY <2>1, <2>5, <2>7, <3>3
      <4>2. m \in Places(Result, 0, offset + PageSize) /\ offset + PageSize \in Nat
        BY <1>t, <2>2, <2>3
      <4>3. r \in Places(Result, 0, offset + PageSize)
        BY <1>t, <4>1, <4>2, FrontFacts
      <4>4. r \notin page
        BY <2>2, <2>4, <4>1
      <4>. QED
        BY <2>2, <2>3, <4>3, <4>4
    <3>. QED
      BY <3>1, <3>2, <3>3
  <2>8. ASSUME NEW x \in page', NEW y \in Elems(out') PROVE x < y
    <3>1. CASE y \in Elems(out)
      BY <2>2, <2>3, <3>1
    <3>2. CASE y = m
      <4>1. x \in page /\ x # m /\ x \in Int /\ m \in Int /\ x <= m
        BY <2>2, <2>4
      <4>. QED
        BY <3>2, <4>1
    <3>. QED
      BY <2>2, <3>1, <3>2
  <2>9. Elems(out') \cup page' = Places(Result, 0, offset + PageSize)
    BY <2>2, <2>3
  <2>10. Places(Result, 0, offset + PageSize)' = Places(Result, 0, offset + PageSize)
    BY <2>1 DEF Places, Rank
  <2>. QED
    BY <1>s, <2>1, <2>6, <2>7, <2>8, <2>9, <2>10 DEF QuietInv
<1>3. CASE NextPage
  <2>1. /\ UNCHANGED <<Result, start, out, outcome, quiet>> /\ pc = "row" /\ pc' = "page"
        /\ page = {} /\ offset' = offset + PageSize /\ quiet
    BY <1>u, <1>3 DEF NextPage, tableVars
  <2>2. Elems(out') = Elems(out) /\ Places(Result, 0, offset)' = Places(Result, 0, offset + PageSize)
    BY <2>1 DEF Elems, Places, Rank
  <2>. QED
    BY <1>s, <2>1, <2>2 DEF QuietInv
<1>4. CASE SeeCap
  <2>1. /\ UNCHANGED <<Result, start, out, quiet>> /\ pc = "row" /\ pc' = "end" /\ quiet
        /\ page # {} /\ Len(out) >= Cap
    BY <1>u, <1>4 DEF SeeCap, Finish, tableVars
  <2>2. Len(out) = Cap
    BY <1>t, <2>1
  <2>3. page \subseteq start /\ \A x \in page, y \in Elems(out) : x < y
    BY <2>1 DEF QuietInv, Places
  <2>4. \A x \in page : x \in Int /\ ~(x < x)
    BY RowsFacts, AuditExportAssumption DEF TypeOK
  <2>5. start \ Elems(out) # {}
    BY <2>1, <2>3, <2>4
  <2>. QED
    BY <2>1, <2>2, <2>5 DEF QuietInv, Elems
<1>5. CASE SeeCancel \/ StreamError \/ LastPage \/ EncodeError
  <2>1. /\ UNCHANGED <<Result, start, out, quiet>> /\ pc' = "end" /\ quiet /\ outcome' # "capped"
    BY <1>u, <1>5 DEF SeeCancel, StreamError, LastPage, EncodeError, Finish, tableVars
  <2>. QED
    BY <2>1 DEF QuietInv, Elems
<1>6. CASE UNCHANGED <<Result, start, offset, page, out, outcome, pc, quiet>>
  <2>1. Elems(out)' = Elems(out)
    BY <1>6 DEF Elems
  <2>2. /\ Places(Result, 0, offset)' = Places(Result, 0, offset)
        /\ Places(Result, 0, offset + PageSize)' = Places(Result, 0, offset + PageSize)
    BY <1>6 DEF Places, Rank
  <2>. QED
    BY <1>6, <2>1, <2>2 DEF QuietInv
<1>. QED
  BY <1>u, <1>1, <1>2, <1>3, <1>4, <1>5, <1>6
     DEF Next, Stream, Insert, Prune, ClientGone, vars, tableVars, streamVars

-----------------------------------------------------------------------------
(* The invariant, and what follows from it.                                *)

LEMMA InitIInv == Init => IInv
<1> SUFFICES ASSUME Init PROVE IInv
  OBVIOUS
<1>0. /\ Len(out) = 0 /\ out \in Seq(Rows) /\ Elems(out) = {} /\ offset = 0 /\ pc = "page"
  BY DEF Init, Elems
<1>1. TypeOK
  <2>1. /\ Len(out) <= Cap /\ offset \in Nat /\ count \in 0 .. PageSize
        /\ table \subseteq Rows /\ pruned \subseteq Rows /\ start \subseteq Rows
        /\ page \subseteq Rows
    BY <1>0, AuditExportAssumption DEF Init, Result
  <2>2. /\ pc \in {"page", "row", "end"} /\ status \in {"none", "200", "500"}
        /\ outcome \in {"none", "complete", "capped", "cancelled", "failed"}
        /\ filter \in Filters /\ gone \in BOOLEAN /\ quiet \in BOOLEAN
    BY DEF Init
  <2>. QED
    BY <1>0, <2>1, <2>2 DEF TypeOK
<1>2. StatusInv /\ PageInv /\ ExportComplete
  BY DEF Init, StatusInv, StatusIsHonest, PageInv, ExportComplete
<1>3. Result \in SUBSET Rows /\ \A r : Rank(Result, r) \in Nat
  BY <1>1, RowsFacts DEF TypeOK, Result
<1>4. ReachInv
  <2>1. start = Result /\ \A x : 0 <= Place(x)
    BY <1>3, PlaceIsRank DEF Init
  <2>. QED
    BY <1>0, <2>1 DEF ReachInv
<1>5. Places(Result, 0, 0) = {}
  BY <1>3 DEF Places
<1>6. QuietInv
  <2>1. Result = start /\ outcome = "none"
    BY DEF Init
  <2>2. 1 .. Len(out) = {}
    BY <1>0
  <2>. QED
    BY <1>0, <1>5, <2>1, <2>2 DEF QuietInv
<1>. QED
  BY <1>1, <1>2, <1>4, <1>6 DEF IInv

LEMMA SpecIInv == Spec => []IInv
<1>1. IInv /\ [Next]_vars => IInv'
  BY TypeStep, StatusStep, PageStep, ReachStep, QuietStep DEF IInv
<1>. QED
  BY <1>1, InitIInv, PTL DEF Spec

\* TypeOK holds in every state of the export.
THEOREM TypeCorrect == Spec => []TypeOK
<1>1. IInv => TypeOK
  BY DEF IInv
<1>. QED
  BY <1>1, SpecIInv, PTL

\* An export that ends by itself has every row that matched when it began and was
\* not deleted meanwhile, however many rows come in between its pages, but for
\* those an export by has=replayed_from skips because they or newer rows lost
\* their link (Stream's OFFSET walk in the Postgres store).
THEOREM NothingMissed == Spec => []ExportComplete
<1>1. IInv => ExportComplete
  BY DEF IInv
<1>. QED
  BY <1>1, SpecIInv, PTL

\* While no row comes or goes, the export is the table, newest first, without
\* gap or repeat, up to its cap.
THEOREM QuietExportIsTable == Spec => []QuietExportExact
<1>1. ASSUME IInv PROVE QuietExportExact
  <2>1. Len(out) <= Cap
    BY <1>1 DEF IInv, TypeOK
  <2>2. QuietInv
    BY <1>1 DEF IInv
  <2>. QED
    BY <2>1, <2>2 DEF QuietInv, QuietExportExact
<1>. QED
  BY <1>1, SpecIInv, PTL

\* auditExport's status line agrees with the body it sent.
THEOREM HonestStatus == Spec => []StatusIsHonest
<1>1. IInv => StatusIsHonest
  BY DEF IInv, StatusInv
<1>. QED
  BY <1>1, SpecIInv, PTL

(***************************************************************************)
(* II. The portal's reads, one request among writers and retention.        *)
(***************************************************************************)

\* Every step of the portal is a step of the export's specification.
LEMMA PortalStepFrame == [PortalNext]_portalVars => [Next]_vars
  BY DEF PortalNext, EventsQuery, EventsCount, DetailQuery, DetailPayload, Timeseries, Breakdown,
         DashboardStats, DashboardRecent, ReadError, Reads, Next, portalVars

\* The portal exports as AuditExport specifies it, so that its theorems hold of
\* /audit/export next to the other endpoints.
THEOREM PortalRunsExport == PortalSpec => Spec
<1>1. PortalInit => Init
  BY DEF PortalInit
<1>. QED
  BY <1>1, PortalStepFrame, PTL DEF PortalSpec, Spec

\* What is proved of the export alone holds of the portal's export.
THEOREM PortalExportSound == PortalSpec => [](ExportComplete /\ QuietExportExact /\ StatusIsHonest)
  BY PortalRunsExport, NothingMissed, QuietExportIsTable, HonestStatus, PTL

-----------------------------------------------------------------------------
(* Pages.                                                                  *)

\* S, newest first: ORDER BY ts DESC, id ASC.
Listed(S) == InOrder(S, LAMBDA a, b : a > b)

\* There is a row at every place.
LEMMA PlaceTaken ==
  ASSUME NEW S \in SUBSET Rows, NEW k \in Nat, k < Cardinality(S)
  PROVE  \E x \in S : Rank(S, x) = k
<1>1. \E r \in S : k <= Rank(S, r)
  <2>1. SUFFICES ASSUME \A r \in S : ~(k <= Rank(S, r)) PROVE FALSE
    OBVIOUS
  <2>2. \A r \in S : Rank(S, r) \in Nat
    BY RowsFacts
  <2>3. Places(S, 0, k) = S
    BY <2>1, <2>2 DEF Places
  <2>4. Cardinality(Places(S, 0, k)) <= k
    BY PlacesSize
  <2>. QED
    BY <2>3, <2>4, RowsFacts
<1>. QED
  BY <1>1, NoGap

\* The list has each row at its place.
LEMMA ListedFacts ==
  ASSUME NEW S \in SUBSET Rows
  PROVE  /\ Listed(S) \in Seq(S) /\ Len(Listed(S)) = Cardinality(S) /\ Cardinality(S) \in Nat
         /\ \A i \in 1 .. Cardinality(S) : /\ Listed(S)[i] \in S
                                           /\ Rank(S, Listed(S)[i]) = i - 1
<1>1. Cardinality(S) \in Nat
  BY RowsFacts
<1>2. Listed(S) = [i \in 1 .. Cardinality(S) |-> CHOOSE e \in S : Rank(S, e) = i - 1]
  BY DEF Listed, InOrder, Rank
<1>3. ASSUME NEW i \in 1 .. Cardinality(S)
      PROVE  Listed(S)[i] \in S /\ Rank(S, Listed(S)[i]) = i - 1
  <2>1. i - 1 \in Nat /\ i - 1 < Cardinality(S)
    BY <1>1
  <2>2. \E e \in S : Rank(S, e) = i - 1
    BY <2>1, PlaceTaken
  <2>3. Listed(S)[i] = CHOOSE e \in S : Rank(S, e) = i - 1
    BY <1>2
  <2>. QED
    BY <2>2, <2>3
<1>. QED
  BY <1>1, <1>2, <1>3

LEMMA WindowFacts ==
  ASSUME NEW S, NEW q \in Seq(S), NEW a \in Nat, NEW n \in Nat, n <= Len(q)
  PROVE  \E p \in Seq(S) :
           /\ p = SubSeq(q, a + 1, n)
           /\ Len(p) = IF a < n THEN n - a ELSE 0
           /\ \A i \in 1 .. Len(p) : p[i] = q[a + i] /\ a + i \in 1 .. Len(q)
<1> DEFINE p == SubSeq(q, a + 1, n)
<1>1. p \in Seq(S)
  OBVIOUS
<1>2. Len(p) = IF a < n THEN n - a ELSE 0
  OBVIOUS
<1>3. ASSUME NEW i \in 1 .. Len(p) PROVE p[i] = q[a + i] /\ a + i \in 1 .. Len(q)
  <2>1. i \in 1 .. n - a /\ a + i \in 1 .. Len(q)
    BY <1>2
  <2>2. p[i] = q[(a + 1) + i - 1]
    BY <2>1
  <2>. QED
    BY <2>1, <2>2
<1> HIDE DEF p
<1>4. p = SubSeq(q, a + 1, n)
  BY DEF p
<1>. QED
  BY <1>1, <1>2, <1>3, <1>4

\* A page has the rows from its offset on.
LEMMA PageFacts ==
  ASSUME NEW S \in SUBSET Rows, NEW f, f.offset \in Nat, f.limit \in Int
  PROVE  \E p \in Seq(S) :
           /\ p = Slice(Listed(S), f)
           /\ \A i \in 1 .. Len(p) : p[i] \in S /\ Rank(S, p[i]) = f.offset + i - 1
<1>0. PICK L \in Seq(S) : /\ L = Listed(S)
                          /\ \A i \in 1 .. Len(L) : L[i] \in S /\ Rank(S, L[i]) = i - 1
  BY ListedFacts
<1>1. Clamp(f.limit) \in Nat /\ Len(L) \in Nat
  BY <1>0, AuditFiltersAssumption DEF Clamp
<1>3. PICK o \in Nat, c \in Nat : o = f.offset /\ c = Clamp(f.limit)
  BY <1>1
<1>2. PICK n \in Nat : n <= Len(L) /\ n = IF Len(L) < o + c THEN Len(L) ELSE o + c
  BY <1>1
<1>4. PICK p \in Seq(S) : /\ p = SubSeq(L, o + 1, n)
                          /\ \A i \in 1 .. Len(p) : p[i] = L[o + i] /\ o + i \in 1 .. Len(L)
  <2>1. L \in Seq(S) /\ o \in Nat /\ n \in Nat /\ n <= Len(L)
    BY <1>0, <1>2, <1>3
  <2>2. \E p \in Seq(S) : /\ p = SubSeq(L, o + 1, n)
                          /\ Len(p) = IF o < n THEN n - o ELSE 0
                          /\ \A i \in 1 .. Len(p) : p[i] = L[o + i] /\ o + i \in 1 .. Len(L)
    BY ONLY <2>1, WindowFacts, Zenon
  <2>. QED
    BY <2>2
<1>5. p = Slice(Listed(S), f)
  BY <1>0, <1>2, <1>3, <1>4 DEF Slice
<1>6. ASSUME NEW i \in 1 .. Len(p) PROVE p[i] \in S /\ Rank(S, p[i]) = o + i - 1
  <2>1. L[o + i] \in S /\ Rank(S, L[o + i]) = (o + i) - 1
    BY <1>0, <1>4
  <2>. QED
    BY <1>4, <2>1
<1>. QED
  BY <1>3, <1>4, <1>5, <1>6

\* A row is among the rows it has before it and itself.
LEMMA RankBound ==
  ASSUME NEW S \in SUBSET Rows, NEW x \in S
  PROVE  Rank(S, x) + 1 <= Cardinality(S)
<1> DEFINE B == {y \in S : y > x}
<1>1. x \in Int /\ x \notin B /\ IsFiniteSet(B) /\ IsFiniteSet(S) /\ Cardinality(B) = Rank(S, x)
  BY RowsFacts DEF Rank
<1>2. Cardinality(B) \in Nat /\ Cardinality(S) \in Nat
  BY <1>1, RowsFacts
<1>3. B \cup {x} \subseteq S /\ IsFiniteSet(B \cup {x}) /\ Cardinality(B \cup {x}) = Cardinality(B) + 1
  BY <1>1, FS_AddElement
<1>4. Cardinality(B \cup {x}) <= Cardinality(S)
  BY <1>1, <1>3, FS_Subset
<1>. QED
  BY <1>1, <1>2, <1>3, <1>4

-----------------------------------------------------------------------------
(* The invariant.                                                          *)

\* One request, which its reads leave alone; nothing is answered before the
\* last read.
ReadInv ==
  /\ request \in {Export} \cup Queries
  /\ step \in {"first", "second", "done"}
  /\ DOMAIN ans = DOMAIN NoAnswer /\ ans.rows \in Seq(Rows)
  /\ step # "done" => ans.status = "none"

\* The exception: the request asks for links, and the row or one before it lost its own.
Unlinked(x) == "replayed_from" \in Asked.has /\ LinkLost(x)

\* Between its two reads, a row of the page that is still there, and no exception,
\* matches and has at least as many matching rows before it as when the page was
\* read.
PageReadInv ==
  request.kind = "events" /\ step = "second" =>
    \A i \in DOMAIN ans.rows : ans.rows[i] \notin pruned /\ ~Unlinked(ans.rows[i]) =>
      /\ ans.rows[i] \in Matching(EventsFilter)
      /\ Asked.offset + i <= Rank(Matching(EventsFilter), ans.rows[i]) + 1

\* While no row comes or goes, what was read is what a read would find now.
QuietReadInv ==
  quiet =>
    /\ request.kind = "events" /\ step = "second" => ans.rows = PgQuery(EventsFilter)
    /\ Answered("events") => /\ ans.rows = PgQuery(EventsFilter)
                             /\ ~ans.partial => ans.total = PgCount(EventsFilter)
    /\ Answered("timeseries") =>
         /\ ans.groups = PgTimeSeries(Events, Asked.from, Asked.to, Bucket)
         /\ ~TooManyBuckets(Asked.from, Asked.to, Bucket)
    /\ Answered("breakdown") /\ Dimension \in Dimensions =>
         ans.groups \in PgBreakdown(Events, Asked.from, Asked.to, Dimension)
    /\ request.kind = "dashboard" /\ step = "second" =>
         ans.stats = PgStats(Events, request.now - Hour, request.now)
    /\ Answered("dashboard") => /\ ans.stats = PgStats(Events, request.now - Hour, request.now)
                                /\ ~ans.partial => ans.rows = PgQuery(RecentFilter)

PortalInv == TypeOK /\ ReadInv /\ PageReadInv /\ PageWithinTotal /\ QuietReadInv

LEMMA PgQueryIsPage == \A f : PgQuery(f) = Slice(Listed(Matching(f)), f)
  BY DEF PgQuery, Listed

\* The filter of /audit/events.
LEMMA EventsFilterFacts ==
  ASSUME ReadInv, request.kind = "events"
  PROVE  /\ request \in Queries /\ Asked.offset \in Nat
         /\ EventsFilter.offset = Asked.offset /\ EventsFilter.limit \in Int
         /\ EventsFilter.json = Asked.json /\ EventsFilter.has = Asked.has
         /\ Asked.has \subseteq HasKeys
<1>1. request \in Queries
  BY DEF ReadInv, Export
<1>2. request.u.limit \in Int /\ request.u.offset \in Int
  BY <1>1, QueryAssumption
<1>3. Asked.offset \in Nat /\ Asked.limit \in Nat
  BY <1>2 DEF Asked, parseQueryFilter
<1>4. /\ EventsFilter.offset = Asked.offset
      /\ EventsFilter.json = Asked.json /\ EventsFilter.has = Asked.has
      /\ Asked.has \subseteq HasKeys
  BY DEF EventsFilter, Asked, parseQueryFilter
<1>5. EventsFilter.limit = IF Asked.limit = 0 THEN EventsLimit ELSE Asked.limit
  BY DEF EventsFilter, Asked, parseQueryFilter
<1>. QED
  BY <1>1, <1>3, <1>4, <1>5, QueryAssumption

LEMMA QueryType ==
  ASSUME TypeOK, NEW f, f.offset \in Nat, f.limit \in Int
  PROVE  PgQuery(f) \in Seq(Rows)
<1>1. Matching(f) \in SUBSET Rows
  BY DEF TypeOK, Matching
<1>2. Slice(Listed(Matching(f)), f) \in Seq(Matching(f))
  BY <1>1, PageFacts
<1>. QED
  BY <1>1, <1>2, PgQueryIsPage

LEMMA ReadStep == TypeOK /\ ReadInv /\ [PortalNext]_portalVars => ReadInv'
<1> SUFFICES ASSUME TypeOK, ReadInv, [PortalNext]_portalVars PROVE ReadInv'
  OBVIOUS
<1>1. /\ request' = request /\ step' \in {"first", "second", "done"}
      /\ DOMAIN ans' = DOMAIN NoAnswer /\ (step' # "done" => ans'.status = "none")
  BY DEF ReadInv, NoAnswer, PortalNext, EventsQuery, EventsCount, DetailQuery, DetailPayload,
         Timeseries, Breakdown, DashboardStats, DashboardRecent, ReadError, Reads, Respond,
         portalVars, readVars
<1>2. \A f : f.offset \in Nat /\ f.limit \in Int => PgQuery(f) \in Seq(Rows)
  BY QueryType
<1>3. CASE EventsQuery
  <2>1. PgQuery(EventsFilter) \in Seq(Rows)
    BY <1>2, <1>3, EventsFilterFacts DEF EventsQuery, Reads
  <2>. QED
    BY <1>1, <1>3, <2>1 DEF EventsQuery, ReadInv, NoAnswer
<1>4. CASE DetailQuery
  <2>1. DetailFilter.offset = 0 /\ DetailFilter.limit = 1
    BY DEF DetailFilter, NoFilter
  <2>2. PgQuery(DetailFilter) \in Seq(Rows)
    BY <1>2, <2>1
  <2>. QED
    BY <1>1, <1>4, <2>2 DEF DetailQuery, ReadInv, NoAnswer, Respond
<1>5. CASE DashboardRecent
  <2>1. RecentFilter.offset = 0 /\ RecentFilter.limit \in Int
    BY QueryAssumption DEF RecentFilter, NoFilter
  <2>2. PgQuery(RecentFilter) \in Seq(Rows) /\ <<>> \in Seq(Rows)
    BY <1>2, <2>1
  <2>. QED
    BY <1>1, <1>5, <2>2 DEF DashboardRecent, ReadInv, NoAnswer, Respond
<1>6. CASE ~(EventsQuery \/ DetailQuery \/ DashboardRecent)
  <2>1. ans'.rows = ans.rows
    BY <1>6 DEF ReadInv, NoAnswer, PortalNext, EventsCount, DetailPayload, Timeseries, Breakdown,
                DashboardStats, ReadError, Respond, portalVars, readVars
  <2>. QED
    BY <1>1, <2>1 DEF ReadInv
<1>. QED
  BY <1>3, <1>4, <1>5, <1>6

\* Only the writers and retention change the table, and they leave the request alone.
LEMMA PortalCases ==
  ASSUME [PortalNext]_portalVars
  PROVE  \/ /\ \E r \in Rows : Insert(r) \/ Prune(r)
            /\ UNCHANGED readVars
         \/ /\ request.kind = "export" /\ UNCHANGED readVars
         \/ /\ UNCHANGED vars /\ request' = request
            /\ \/ UNCHANGED readVars
               \/ EventsQuery \/ EventsCount \/ DetailQuery \/ DetailPayload
               \/ Timeseries \/ Breakdown \/ DashboardStats \/ DashboardRecent \/ ReadError
  BY DEF PortalNext, EventsQuery, EventsCount, DetailQuery, DetailPayload, Timeseries, Breakdown,
         DashboardStats, DashboardRecent, ReadError, Reads, portalVars, readVars

\* What is stored for a row.
LEMMA StoredFacts ==
  ASSUME NEW r \in Rows
  PROVE  /\ DOMAIN Stored[r] = Columns
         /\ \A c \in Columns : c \notin {"request_params", "replayed_from"} => Stored[r][c] = Call[r][c]
         /\ Stored[r].request_params = SanitizeParameters(Call[r].request_params)
         /\ Stored[r].ts \in Int /\ Stored[r].id \in Int
         /\ Stored[r].replayed_from = IF Linked(r) THEN Call[r].replayed_from ELSE <<>>
<1>1. DOMAIN Call[r] = Columns /\ Call[r].ts \in Int /\ Call[r].id \in Int
  BY CallAssumption
<1>2. Stored[r] = [Call[r] EXCEPT !.request_params = SanitizeParameters(@),
                                  !.replayed_from = IF Linked(r) THEN @ ELSE <<>>]
  BY DEF Stored
<1>3. {"ts", "id", "request_params", "replayed_from"} \subseteq Columns
  BY DEF Columns, HasKeys
<1>. QED
  BY <1>1, <1>2, <1>3

\* What an URL's JSON filters are.
LEMMA AskedJSON ==
  ASSUME ReadInv, request.kind = "events", NEW jf \in Asked.json
  PROVE  /\ jf.source \in {"param", "response", "header"}
         /\ jf.source = "header" => Len(jf.path) = 1 /\ \E S : jf.path \in Seq(S)
         /\ jf.source # "header" => jf.path \in Seq(STRING)
         /\ Encodable(jf) => FilterDoc(jf) \in JSON
<1>1. request \in Queries
  BY EventsFilterFacts
<1>2. Asked.json = parseQueryFilter(request.u).json
  BY DEF Asked
<1>3. Encodable(jf) => FilterDoc(jf) \in JSON
  BY <1>1, <1>2, QueryAssumption
<1>4. PICK p \in request.u.json : jf \in JSONFilter(p)
  BY <1>2, Zenon DEF parseQueryFilter
<1>5. p \in [source : {"param", "response", "header"}, path : Seq(STRING),
             value : [quoted : BOOLEAN, body : STRING]]
  BY <1>1, <1>4, QueryAssumption
<1>6. jf = [p EXCEPT !.path = IF p.source = "header" THEN <<CanonicalKey[p.path[1]]>> ELSE @]
  BY <1>4, Zenon DEF JSONFilter
<1>7. jf.source = p.source /\ jf.path = IF p.source = "header" THEN <<CanonicalKey[p.path[1]]>> ELSE p.path
  BY <1>5, <1>6
<1>8. \A k : <<k>> \in Seq({k}) /\ Len(<<k>>) = 1
  OBVIOUS
<1>9. jf.source = "header" => Len(jf.path) = 1 /\ \E S : jf.path \in Seq(S)
  BY <1>7, <1>8, Zenon
<1>. QED
  BY <1>3, <1>5, <1>7, <1>9

\* A filter without has=replayed_from does not see that column.
LEMMA SelectsUnlinked ==
  ASSUME NEW f, NEW a, NEW b, f.has \subseteq HasKeys \ {"replayed_from"},
         \A jf \in f.json : jf.source \in {"param", "response", "header"},
         \A c \in Columns \ {"replayed_from"} : a[c] = b[c]
  PROVE  Selects(f, a) = Selects(f, b)
<1>1. /\ a.ts = b.ts /\ a.id = b.id /\ a.tool = b.tool /\ a.user = b.user
      /\ a.session = b.session /\ a.success = b.success /\ a.texts = b.texts
      /\ a.captured = b.captured
  BY DEF Columns
<1>2. ASSUME NEW c \in HasKeys \ {"replayed_from"} PROVE marshalJSONB(a, c) = marshalJSONB(b, c)
  <2>1. a[c] = b[c]
    BY DEF Columns
  <2>. QED
    BY <2>1 DEF marshalJSONB
<1>3. \A jf \in f.json : jsonFilterColumn(jf.source) \in HasKeys \ {"replayed_from"}
  BY DEF jsonFilterColumn, HasKeys
<1>4. \A jf \in f.json : marshalJSONB(a, jsonFilterColumn(jf.source))
                            = marshalJSONB(b, jsonFilterColumn(jf.source))
  BY <1>2, <1>3
<1>5. InWindow(a, f.from, f.to) = InWindow(b, f.from, f.to)
  BY <1>1 DEF InWindow
<1>. QED
  BY <1>1, <1>2, <1>4, <1>5, Zenon DEF Selects

\* A row that is still there matches as before, unless it lost its link and the
\* filter asks for one.
LEMMA SelectsStep ==
  ASSUME NEW y \in Rows, NEW f, f.has \subseteq HasKeys,
         \A jf \in f.json : jf.source \in {"param", "response", "header"},
         Linked(y)' = Linked(y) \/ "replayed_from" \notin f.has
  PROVE  Selects(f, Stored'[y]) = Selects(f, Stored[y])
<1> DEFINE S(l) == [Call[y] EXCEPT !.request_params = SanitizeParameters(@),
                                   !.replayed_from = IF l THEN @ ELSE <<>>]
<1>1. Stored[y] = S(Linked(y)) /\ Stored'[y] = S(Linked(y)')
  BY DEF Stored
<1>2. CASE Linked(y)' = Linked(y)
  BY <1>1, <1>2
<1>3. CASE "replayed_from" \notin f.has
  <2>1. DOMAIN Call[y] = Columns /\ {"request_params", "replayed_from"} \subseteq Columns
    BY CallAssumption DEF Columns, HasKeys
  <2>2. \A c \in Columns \ {"replayed_from"} : Stored'[y][c] = Stored[y][c]
    BY <1>1, <2>1
  <2>. QED
    BY <1>3, <2>2, SelectsUnlinked
<1>. QED
  BY <1>2, <1>3

\* What a change of the table does to the matching rows.
LEMMA MatchingStep ==
  ASSUME TypeOK, NEW r \in Rows, Insert(r) \/ Prune(r), NEW f, f.has \subseteq HasKeys,
         \A jf \in f.json : jf.source \in {"param", "response", "header"}
  PROVE  /\ Matching(f) \in SUBSET Rows /\ Matching(f)' \in SUBSET Rows /\ pruned \subseteq pruned'
         /\ \A x \in Matching(f) \ pruned' : ~("replayed_from" \in f.has /\ LinkLost(x)') =>
              /\ x \in Matching(f)'
              /\ Rank(Matching(f), x) <= Rank(Matching(f)', x)
<1>1. table \in SUBSET Rows /\ table' \in SUBSET Rows /\ Rows \subseteq Int /\ pruned \subseteq pruned'
  BY AuditExportAssumption DEF TypeOK, Insert, Prune
<1>2. Matching(f) \in SUBSET Rows /\ Matching(f)' \in SUBSET Rows
  BY <1>1 DEF Matching
<1>m. Matching(f)' = {y \in table' : Selects(f, Stored'[y])}
  BY DEF Matching
<1>3. ASSUME NEW x \in Matching(f) \ pruned', ~("replayed_from" \in f.has /\ LinkLost(x)')
      PROVE  x \in Matching(f)' /\ \A y \in Matching(f) : y > x => y \in Matching(f)'
  <2>0. x \in table /\ x \in table'
    BY <1>3 DEF Matching, Insert, Prune
  <2>1. \A y \in table : y >= x => y \in table'
    <3>1. CASE Insert(r)
      BY <3>1 DEF Insert
    <3>2. CASE Prune(r)
      <4>1. x \in table /\ x # r /\ r \in Int /\ x \in Int /\ r <= x
        BY <1>1, <1>3, <3>2 DEF Prune, Matching
      <4>2. \A y \in table : y >= x => y # r
        BY <1>1, <4>1
      <4>. QED
        BY <3>2, <4>2 DEF Prune
    <3>. QED
      BY <3>1, <3>2
  <2>2. \A y \in Matching(f) : y \in Int /\ y \in table /\ y \in Rows /\ Selects(f, Stored[y])
    BY <1>1 DEF Matching
  <2>3. ASSUME NEW y \in Matching(f), y >= x PROVE y \in Matching(f)'
    <3>1. Linked(y)' = Linked(y) \/ "replayed_from" \notin f.has
      BY <1>3, <2>0, <2>2, <2>3, LinkStep
    <3>2. Selects(f, Stored'[y])
      BY <2>2, <3>1, SelectsStep
    <3>. QED
      BY <1>m, <2>1, <2>2, <2>3, <3>2
  <2>4. x >= x /\ \A y \in Matching(f) : y > x => y >= x
    BY <1>3, <2>2
  <2>. QED
    BY <1>3, <2>3, <2>4
<1>4. ASSUME NEW x \in Matching(f) \ pruned', ~("replayed_from" \in f.has /\ LinkLost(x)')
      PROVE  Rank(Matching(f), x) <= Rank(Matching(f)', x)
  BY <1>2, <1>3, <1>4, RankGrows
<1>. QED
  BY <1>1, <1>2, <1>3, <1>4

LEMMA PageReadStep ==
  TypeOK /\ ReadInv /\ PageReadInv /\ [PortalNext]_portalVars => PageReadInv'
<1> SUFFICES ASSUME TypeOK, ReadInv, PageReadInv, [PortalNext]_portalVars,
                    request'.kind = "events", step' = "second",
                    NEW i \in DOMAIN ans'.rows, ans'.rows[i] \notin pruned',
                    ~Unlinked(ans.rows[i])'
             PROVE  /\ ans'.rows[i] \in Matching(EventsFilter)'
                    /\ Asked'.offset + i <= Rank(Matching(EventsFilter)', ans'.rows[i]) + 1
  BY DEF PageReadInv
<1>0. request' = request /\ request.kind = "events"
  BY PortalCases DEF readVars
<1>1. /\ Asked' = Asked /\ Asked.offset \in Nat /\ EventsFilter' = EventsFilter
      /\ EventsFilter.offset = Asked.offset /\ EventsFilter.limit \in Int
      /\ EventsFilter.json = Asked.json /\ EventsFilter.has = Asked.has /\ Asked.has \subseteq HasKeys
      /\ \A jf \in Asked.json : jf.source \in {"param", "response", "header"}
  BY <1>0, EventsFilterFacts, AskedJSON DEF Asked, EventsFilter
<1>f. PICK f : f = EventsFilter
  OBVIOUS
<1>2. /\ Matching(EventsFilter) = Matching(f) /\ Matching(EventsFilter)' = Matching(f)'
      /\ Matching(f) \in SUBSET Rows
  BY <1>1, <1>f DEF Matching, TypeOK
<1> DEFINE Goal == /\ ans'.rows[i] \in Matching(f)'
                   /\ Asked.offset + i <= Rank(Matching(f)', ans'.rows[i]) + 1
<1>3. ASSUME UNCHANGED readVars, ans.rows[i] \notin pruned, ~Unlinked(ans.rows[i])
      PROVE  /\ ans' = ans /\ i \in DOMAIN ans.rows /\ ans.rows[i] \in Matching(f)
             /\ Asked.offset + i <= Rank(Matching(f), ans.rows[i]) + 1
  BY <1>0, <1>2, <1>3 DEF PageReadInv, readVars
<1>4. ASSUME NEW r \in Rows, Insert(r) \/ Prune(r), UNCHANGED readVars PROVE Goal
  <2>1. /\ Matching(f)' \in SUBSET Rows /\ pruned \subseteq pruned'
        /\ \A x \in Matching(f) \ pruned' : ~("replayed_from" \in f.has /\ LinkLost(x)') =>
             x \in Matching(f)' /\ Rank(Matching(f), x) <= Rank(Matching(f)', x)
    BY <1>1, <1>f, <1>4, MatchingStep
  <2>2. ans' = ans
    BY <1>4 DEF readVars
  <2>3. PICK x : x = ans.rows[i]
    OBVIOUS
  <2>a. ~("replayed_from" \in f.has /\ LinkLost(x)') /\ ~Unlinked(ans.rows[i])
    <3>1. Unlinked(ans.rows[i])' = ("replayed_from" \in Asked'.has /\ LinkLost(x)')
      BY <2>2, <2>3 DEF Unlinked, LinkLost
    <3>2. LinkLost(x) => LinkLost(x)'
      BY <1>4, SlippedStep
    <3>. QED
      BY <1>1, <1>f, <2>3, <3>1, <3>2 DEF Unlinked
  <2>4. /\ x \in Matching(f) \ pruned' /\ i \in DOMAIN ans.rows
        /\ Asked.offset + i <= Rank(Matching(f), x) + 1
    BY <1>3, <1>4, <2>1, <2>2, <2>3, <2>a
  <2>5. i \in Int
    BY <2>4 DEF ReadInv
  <2>6. \A S \in SUBSET Rows : Rank(S, x) \in Nat
    BY RowsFacts
  <2>7. Rank(Matching(f), x) \in Nat /\ Rank(Matching(f)', x) \in Nat
    BY <1>2, <2>1, <2>6
  <2>. QED
    BY <1>1, <2>1, <2>2, <2>3, <2>a, <2>4, <2>5, <2>7
<1>5. ASSUME UNCHANGED vars, UNCHANGED readVars PROVE Goal
  <2>0. table' = table /\ pruned' = pruned /\ ans' = ans
    BY <1>5 DEF vars, tableVars, readVars
  <2>1. Matching(f)' = Matching(f) /\ pruned' = pruned /\ ans' = ans
    BY <2>0 DEF Matching, Stored, Linked
  <2>2. ~Unlinked(ans.rows[i])
    BY <1>1, <2>0 DEF Unlinked, LinkLost
  <2>. QED
    BY <1>3, <1>5, <2>1, <2>2
<1>6. ASSUME UNCHANGED vars, EventsQuery PROVE Goal
  <2>1. Matching(f)' = Matching(f)
    BY <1>6 DEF Matching, Stored, Linked, vars, tableVars
  <2>2. ans'.rows = Slice(Listed(Matching(f)), f)
    BY <1>6, <1>f, PgQueryIsPage DEF EventsQuery, ReadInv, NoAnswer
  <2>3. f.offset \in Nat /\ f.limit \in Int
    BY <1>1, <1>f
  <2>4. PICK q \in Seq(Matching(f)) :
          /\ q = Slice(Listed(Matching(f)), f)
          /\ \A k \in 1 .. Len(q) : q[k] \in Matching(f) /\ Rank(Matching(f), q[k]) = f.offset + k - 1
    BY <1>2, <2>3, PageFacts
  <2>5. i \in 1 .. Len(q) /\ ans'.rows[i] = q[i]
    BY <2>2, <2>4
  <2>6. q[i] \in Matching(f) /\ Asked.offset + i <= Rank(Matching(f), q[i]) + 1
    BY <1>1, <1>f, <2>3, <2>4, <2>5
  <2>. QED
    BY <2>1, <2>5, <2>6
<1>7. Goal
  BY <1>0, <1>4, <1>5, <1>6, PortalCases
     DEF EventsCount, DetailQuery, DetailPayload, Timeseries, Breakdown, DashboardStats,
         DashboardRecent, ReadError, Reads, Respond
<1>. QED
  BY <1>1, <1>2, <1>7

LEMMA TotalStep ==
  TypeOK /\ ReadInv /\ PageReadInv /\ PageWithinTotal /\ [PortalNext]_portalVars => PageWithinTotal'
<1> SUFFICES ASSUME TypeOK, ReadInv, PageReadInv, PageWithinTotal, [PortalNext]_portalVars,
                    request'.kind = "events", ans'.status = "200", ~ans'.partial,
                    NEW i \in DOMAIN ans'.rows, ans'.rows[i] \notin pruned',
                    ~Unlinked(ans.rows[i])'
             PROVE  Asked'.offset + i <= ans'.total
  BY DEF PageWithinTotal, Answered, Unlinked
<1>0. request' = request /\ request.kind = "events" /\ Asked' = Asked /\ pruned \subseteq pruned'
  <2>1. request' = request /\ (UNCHANGED vars \/ \E r \in Rows : Insert(r) \/ Prune(r)
                               \/ request.kind = "export")
    BY PortalCases DEF readVars
  <2>. QED
    BY <2>1 DEF Asked, Insert, Prune, vars, tableVars
<1>u. ASSUME ans'.rows = ans.rows PROVE ~Unlinked(ans.rows[i])
  <2>1. PICK x : x = ans.rows[i]
    OBVIOUS
  <2>2. LinkLost(x) => LinkLost(x)'
    <3>1. CASE UNCHANGED vars
      BY <3>1 DEF vars, tableVars, LinkLost
    <3>2. ASSUME NEW p \in Rows, Insert(p) \/ Prune(p) PROVE LinkLost(x) => LinkLost(x)'
      BY <3>2, SlippedStep
    <3>. QED
      BY <1>0, <3>1, <3>2, PortalCases
  <2>3. Unlinked(ans.rows[i])' = ("replayed_from" \in Asked'.has /\ LinkLost(x)')
    BY <1>u, <2>1 DEF Unlinked, LinkLost
  <2>. QED
    BY <1>0, <2>1, <2>2, <2>3 DEF Unlinked
<1>1. CASE UNCHANGED readVars
  BY <1>0, <1>1, <1>u DEF PageWithinTotal, Answered, Unlinked, readVars
<1>2. CASE UNCHANGED vars /\ EventsCount
  <2>1. /\ ans'.rows = ans.rows /\ ans'.total = PgCount(EventsFilter)
        /\ step = "second" /\ i \in DOMAIN ans.rows /\ ans.rows[i] \notin pruned
    BY <1>0, <1>2 DEF EventsCount, Reads, Respond, ReadInv, NoAnswer
  <2>2. PICK M \in SUBSET Rows : M = Matching(EventsFilter)
    BY DEF TypeOK, Matching
  <2>3. PICK x \in M : x = ans.rows[i] /\ Asked.offset + i <= Rank(M, x) + 1
    BY <1>0, <1>u, <2>1, <2>2 DEF PageReadInv
  <2>4. Rank(M, x) + 1 <= Cardinality(M) /\ Rank(M, x) \in Nat /\ Cardinality(M) \in Nat
    BY <2>2, <2>3, RankBound, RowsFacts
  <2>5. i \in Int /\ Asked.offset \in Nat
    BY <1>0, <2>1, EventsFilterFacts DEF ReadInv
  <2>. QED
    BY <1>0, <2>1, <2>2, <2>3, <2>4, <2>5 DEF PgCount
<1>. QED
  BY <1>0, <1>1, <1>2, PortalCases
     DEF EventsQuery, DetailQuery, DetailPayload, Timeseries, Breakdown, DashboardStats,
         DashboardRecent, ReadError, Reads, Respond, ReadInv, NoAnswer

\* What a read finds depends on the request and the table only.
LEMMA ReadFrame ==
  ASSUME UNCHANGED vars, request' = request
  PROVE  /\ PgQuery(EventsFilter)' = PgQuery(EventsFilter)
         /\ PgCount(EventsFilter)' = PgCount(EventsFilter)
         /\ PgQuery(RecentFilter)' = PgQuery(RecentFilter)
         /\ Asked' = Asked /\ Bucket' = Bucket /\ Dimension' = Dimension /\ Events' = Events
<1>1. table' = table
  BY DEF vars, tableVars
<1>2. Asked' = Asked /\ EventsFilter' = EventsFilter /\ RecentFilter' = RecentFilter
  BY DEF Asked, EventsFilter, RecentFilter
<1>3. /\ Matching(EventsFilter)' = Matching(EventsFilter)
      /\ Matching(RecentFilter)' = Matching(RecentFilter)
  BY <1>1, <1>2 DEF Matching, Stored, Linked
<1>4. Events' = Events /\ Bucket' = Bucket /\ Dimension' = Dimension
  BY <1>1 DEF Events, Stored, Linked, Bucket, Dimension
<1>5. PgQuery(EventsFilter)' = Slice(Listed(Matching(EventsFilter)'), EventsFilter')
  BY DEF PgQuery, Listed, InOrder
<1>6. PgQuery(RecentFilter)' = Slice(Listed(Matching(RecentFilter)'), RecentFilter')
  BY DEF PgQuery, Listed, InOrder
<1>7. PgCount(EventsFilter)' = PgCount(EventsFilter)
  BY <1>3 DEF PgCount
<1>. QED
  BY <1>2, <1>3, <1>4, <1>5, <1>6, <1>7, PgQueryIsPage

LEMMA QuietReadStep ==
  TypeOK /\ ReadInv /\ QuietReadInv /\ [PortalNext]_portalVars => QuietReadInv'
<1> SUFFICES ASSUME TypeOK, ReadInv, QuietReadInv, [PortalNext]_portalVars, quiet'
             PROVE  QuietReadInv'
  BY DEF QuietReadInv
<1>1. CASE request.kind = "export"
  <2>1. request' = request
    BY PortalCases DEF readVars
  <2>. QED
    BY <1>1, <2>1 DEF QuietReadInv, Answered
<1>2. CASE request.kind # "export"
  <2>1. /\ UNCHANGED vars /\ request' = request
        /\ \/ UNCHANGED readVars
           \/ EventsQuery \/ EventsCount \/ DetailQuery \/ DetailPayload
           \/ Timeseries \/ Breakdown \/ DashboardStats \/ DashboardRecent \/ ReadError
    BY <1>2, PortalCases DEF Insert, Prune
  <2>2. quiet
    BY <2>1 DEF vars
  <2>3. /\ PgQuery(EventsFilter)' = PgQuery(EventsFilter)
        /\ PgCount(EventsFilter)' = PgCount(EventsFilter)
        /\ PgQuery(RecentFilter)' = PgQuery(RecentFilter)
        /\ Asked' = Asked /\ Bucket' = Bucket /\ Dimension' = Dimension /\ Events' = Events
    BY <2>1, ReadFrame
  <2>. QED
    BY <2>1, <2>2, <2>3
       DEF QuietReadInv, Answered, EventsQuery, EventsCount, DetailQuery, DetailPayload,
           Timeseries, Breakdown, DashboardStats, DashboardRecent, ReadError, Reads, Respond,
           ReadInv, NoAnswer, readVars
<1>. QED
  BY <1>1, <1>2

LEMMA InitPortalInv == PortalInit => PortalInv
<1> SUFFICES ASSUME PortalInit PROVE PortalInv
  OBVIOUS
<1>1. TypeOK
  BY InitIInv DEF PortalInit, IInv
<1>. QED
  BY <1>1 DEF PortalInit, PortalInv, ReadInv, PageReadInv, PageWithinTotal, QuietReadInv, Answered, NoAnswer

LEMMA SpecPortalInv == PortalSpec => []PortalInv
<1>1. PortalInv /\ [PortalNext]_portalVars /\ IInv /\ IInv' => PortalInv'
  BY ReadStep, PageReadStep, TotalStep, QuietReadStep DEF PortalInv, IInv
<1>. QED
  BY <1>1, InitPortalInv, PortalRunsExport, SpecIInv, PTL DEF PortalSpec

\* auditEvents reads the page and the total with two statements; whatever is
\* inserted between them, every row of the page that retention has left is
\* counted, with all the rows before it, unless the request has
\* has=replayed_from and that row or a newer one lost its link.
THEOREM PageFitsTotal == PortalSpec => []PageWithinTotal
<1>1. PortalInv => PageWithinTotal
  BY DEF PortalInv
<1>. QED
  BY <1>1, SpecPortalInv, PTL

-----------------------------------------------------------------------------
(* Counting.                                                               *)

\* The image of a finite set.
LEMMA ImageSize ==
  ASSUME NEW S, IsFiniteSet(S), NEW f, DOMAIN f = S, NEW T, T = {f[x] : x \in S}
  PROVE  /\ IsFiniteSet(T) /\ Cardinality(T) <= Cardinality(S)
         /\ (\A x, y \in S : f[x] = f[y] => x = y) => Cardinality(T) = Cardinality(S)
<1>1. PICK g \in [S -> T] : \A x \in S : g[x] = f[x]
  <2> DEFINE g == [x \in S |-> f[x]]
  <2>1. g \in [S -> T] /\ \A x \in S : g[x] = f[x]
    OBVIOUS
  <2>. QED
    BY <2>1
<1>2. g \in Surjection(S, T)
  BY <1>1 DEF Surjection
<1>3. (\A x, y \in S : f[x] = f[y] => x = y) => g \in Injection(S, T)
  BY <1>1 DEF Injection, IsInjective
<1>. QED
  BY <1>2, <1>3, FS_Surjection

\* A number is its quotient times the divisor, and a remainder.
LEMMA DivMod ==
  ASSUME NEW x \in Int, NEW b \in Nat \ {0}
  PROVE  /\ x \div b \in Int /\ x % b \in 0 .. b - 1 /\ x = b * (x \div b) + (x % b)
  BY Z3

LEMMA ModUnique ==
  ASSUME NEW x \in Int, NEW b \in Nat \ {0}, NEW k \in Int, NEW r \in 0 .. b - 1, x = b * k + r
  PROVE  x % b = r /\ x \div b = k
<1>1. PICK q \in Int, m \in 0 .. b - 1 : q = x \div b /\ m = x % b /\ x = b * q + m
  BY DivMod
<1>2. b * (q - k) = r - m
  BY <1>1
<1>3. q - k < 1
  <2>1. SUFFICES ASSUME q - k >= 1 PROVE FALSE
    BY <1>1
  <2>2. b * (q - k) >= b
    BY <1>1, <2>1
  <2>. QED
    BY <1>1, <1>2, <2>2
<1>4. q - k > -1
  <2>1. SUFFICES ASSUME q - k <= -1 PROVE FALSE
    BY <1>1
  <2>2. b * (q - k) <= -b
    BY <1>1, <2>1
  <2>. QED
    BY <1>1, <1>2, <2>2
<1>5. q = k
  BY <1>1, <1>3, <1>4
<1>. QED
  BY <1>1, <1>2, <1>5

LEMMA ModShift ==
  ASSUME NEW x \in Int, NEW e \in Nat, NEW b \in Nat \ {0}, e % b = 0
  PROVE  (x + e) % b = x % b
<1>1. PICK k \in Int, r \in 0 .. b - 1 : x = b * k + r /\ r = x % b
  BY DivMod
<1>2. PICK j \in Int : e = b * j
  <2>1. e \in Int /\ e \div b \in Int /\ e = b * (e \div b) + 0
    BY DivMod
  <2>. QED
    BY <2>1
<1>3. x + e = b * (k + j) + r
  BY <1>1, <1>2
<1>4. PICK y \in Int, i \in Int : y = x + e /\ i = k + j
  <2>1. x + e \in Int /\ k + j \in Int
    BY <1>1, <1>2
  <2>. QED
    BY ONLY <2>1, Zenon
<1>5. y = b * i + r
  BY <1>3, <1>4
<1>6. y % b = r
  BY <1>5, ModUnique
<1>. QED
  BY <1>1, <1>4, <1>6

LEMMA DivSpread ==
  ASSUME NEW x \in Int, NEW y \in Int, x <= y, NEW b \in Nat \ {0}
  PROVE  (x \div b) <= (y \div b) /\ (y \div b) - (x \div b) <= ((y - x) \div b) + 1
<1>1. PICK i \in Int, r \in 0 .. b - 1 : x = b * i + r /\ i = x \div b
  BY DivMod
<1>2. PICK j \in Int, s \in 0 .. b - 1 : y = b * j + s /\ j = y \div b
  BY DivMod
<1>3. y - x \in Int
  OBVIOUS
<1>4. PICK k \in Int, t \in 0 .. b - 1 : y - x = b * k + t /\ k = (y - x) \div b
  BY <1>3, DivMod
<1>5. i <= j
  <2>1. SUFFICES ASSUME i - j >= 1 PROVE FALSE
    BY <1>1, <1>2
  <2>2. b * (i - j) >= b
    BY <1>1, <1>2, <2>1
  <2>3. b * (i - j) = (x - y) + (s - r)
    BY <1>1, <1>2
  <2>. QED
    BY <1>1, <1>2, <2>2, <2>3
<1>6. j - i <= k + 1
  <2>1. SUFFICES ASSUME (j - i) - k >= 2 PROVE FALSE
    BY <1>1, <1>2, <1>4
  <2>2. b * ((j - i) - k) >= b * 2
    BY <1>1, <1>2, <1>4, <2>1
  <2>3. b * ((j - i) - k) = t + r - s
    BY <1>1, <1>2, <1>4
  <2>. QED
    BY <1>1, <1>2, <1>4, <2>2, <2>3
<1>. QED
  BY <1>1, <1>2, <1>4, <1>5, <1>6

LEMMA EventsFacts ==
  ASSUME TypeOK
  PROVE  IsFiniteSet(Events) /\ \A e \in Events : e.ts \in Int
<1>1. table \in SUBSET Rows /\ IsFiniteSet(table)
  BY RowsFacts DEF TypeOK
<1>2. PICK f : f = [r \in table |-> Stored[r]]
  OBVIOUS
<1>3. DOMAIN f = table /\ Events = {f[r] : r \in table}
  BY <1>2 DEF Events
<1>4. IsFiniteSet(Events)
  BY <1>1, <1>3, ImageSize
<1>5. \A e \in Events : e.ts \in Int
  BY <1>1, StoredFacts DEF Events
<1>. QED
  BY <1>4, <1>5

\* Postgres and time.Truncate put an event in the same bucket.
LEMMA SeriesAgree ==
  ASSUME NEW S, \A e \in S : e.ts \in Int, NEW from, NEW to, NEW b \in Nat \ {0}, EpochOffset % b = 0
  PROVE  PgTimeSeries(S, from, to, b) = MemTimeSeries(S, from, to, b)
<1>1. \A e \in S : EpochBucket(e.ts, b) = GoTruncate(e.ts, b)
  <2>1. EpochOffset \in Nat
    BY AuditFiltersAssumption
  <2>2. \A x \in Int : (x + EpochOffset) % b = x % b
    BY <2>1, ModShift
  <2>. QED
    BY <2>2 DEF EpochBucket, GoTruncate
<1> DEFINE W == {e \in S : InWindow(e, from, to)}
           Pg(k) == [key |-> k, n |-> Cardinality({e \in W : EpochBucket(e.ts, b) = k}),
                     errors |-> Cardinality({e \in W : EpochBucket(e.ts, b) = k /\ ~e.success}),
                     dur |-> TotalDur({e \in W : EpochBucket(e.ts, b) = k})]
           Mem(k) == [key |-> k, n |-> Cardinality({e \in W : GoTruncate(e.ts, b) = k}),
                      errors |-> Cardinality({e \in W : GoTruncate(e.ts, b) = k /\ ~e.success}),
                      dur |-> TotalDur({e \in W : GoTruncate(e.ts, b) = k})]
<1>2. PgTimeSeries(S, from, to, b) = {Pg(k) : k \in {EpochBucket(e.ts, b) : e \in W}}
  BY DEF PgTimeSeries, GroupBy
<1>3. MemTimeSeries(S, from, to, b) = {Mem(k) : k \in {GoTruncate(e.ts, b) : e \in W}}
  BY DEF MemTimeSeries, GroupBy
<1>4. \A k : /\ {e \in W : EpochBucket(e.ts, b) = k} = {e \in W : GoTruncate(e.ts, b) = k}
             /\ {e \in W : EpochBucket(e.ts, b) = k /\ ~e.success}
                  = {e \in W : GoTruncate(e.ts, b) = k /\ ~e.success}
  BY <1>1
<1>5. \A k : Pg(k) = Mem(k)
  BY <1>4
<1>6. {EpochBucket(e.ts, b) : e \in W} = {GoTruncate(e.ts, b) : e \in W}
  BY <1>1
<1> HIDE DEF Pg, Mem, W
<1>. QED
  BY <1>2, <1>3, <1>5, <1>6

\* A bounded series has a point for every bucket the window touches, at most.
LEMMA SeriesSize ==
  ASSUME NEW S, \A e \in S : e.ts \in Int, NEW from \in Int, NEW to \in Int, NEW b \in Nat \ {0},
         from # 0, to # 0, ~TooManyBuckets(from, to, b)
  PROVE  Cardinality(PgTimeSeries(S, from, to, b)) <= MaxBuckets + 2
<1> DEFINE W == {e \in S : InWindow(e, from, to)}
           Pg(k) == [key |-> k, n |-> Cardinality({e \in W : EpochBucket(e.ts, b) = k}),
                     errors |-> Cardinality({e \in W : EpochBucket(e.ts, b) = k /\ ~e.success}),
                     dur |-> TotalDur({e \in W : EpochBucket(e.ts, b) = k})]
           K == {EpochBucket(e.ts, b) : e \in W}
<1>1. PgTimeSeries(S, from, to, b) = {Pg(k) : k \in K}
  BY DEF PgTimeSeries, GroupBy
<1>0. MaxBuckets \in Nat
  BY AuditFiltersAssumption
<1>2. PICK lo \in Int, hi \in Int : lo = from \div b /\ hi = to \div b
  BY DivMod
<1>3. PICK h : h = [m \in lo .. hi |-> b * m]
  OBVIOUS
<1>4. PICK H : H = {h[m] : m \in lo .. hi}
  OBVIOUS
<1>5. DOMAIN h = lo .. hi /\ IsFiniteSet(lo .. hi)
  BY <1>2, <1>3, FS_Interval
<1>6. IsFiniteSet(H) /\ Cardinality(H) <= Cardinality(lo .. hi)
  BY <1>4, <1>5, ImageSize
<1>7. K \subseteq H
  <2>1. SUFFICES ASSUME NEW e \in W PROVE EpochBucket(e.ts, b) \in H
    OBVIOUS
  <2>2. PICK t \in Int : t = e.ts /\ from <= t /\ t <= to
    BY DEF InWindow
  <2>3. lo <= t \div b /\ t \div b <= hi /\ t \div b \in Int
    <3>1. (from \div b) <= (t \div b)
      BY ONLY <2>2, DivSpread, from \in Int, b \in Nat \ {0}
    <3>2. (t \div b) <= (to \div b)
      BY ONLY <2>2, DivSpread, to \in Int, b \in Nat \ {0}
    <3>. QED
      BY <1>2, <2>2, <3>1, <3>2, DivMod
  <2>4. t \div b \in Int /\ t % b \in 0 .. b - 1 /\ t = b * (t \div b) + (t % b)
    BY ONLY <2>2, b \in Nat \ {0}, DivMod, Zenon
  <2>5. PICK m \in lo .. hi : m = t \div b
    BY <1>2, <2>3
  <2>6. PICK n \in Int : n = b * m
    BY <1>2, <2>5
  <2>7. t - (t % b) = n
    BY <2>2, <2>4, <2>5, <2>6
  <2>. QED
    BY <1>3, <1>4, <2>2, <2>5, <2>6, <2>7 DEF EpochBucket
<1>8. PICK p : p = [k \in K |-> Pg(k)]
  OBVIOUS
<1> HIDE DEF Pg, K
<1>9. IsFiniteSet(K) /\ Cardinality(K) <= Cardinality(H)
  BY <1>6, <1>7, FS_Subset
<1>10. DOMAIN p = K /\ PgTimeSeries(S, from, to, b) = {p[k] : k \in K}
  BY <1>1, <1>8
<1>11. /\ IsFiniteSet(PgTimeSeries(S, from, to, b))
       /\ Cardinality(PgTimeSeries(S, from, to, b)) <= Cardinality(K)
  BY <1>9, <1>10, ImageSize
<1>12. /\ Cardinality(K) \in Nat /\ Cardinality(H) \in Nat /\ Cardinality(lo .. hi) \in Nat
       /\ Cardinality(PgTimeSeries(S, from, to, b)) \in Nat
  BY <1>5, <1>6, <1>9, <1>11, FS_CardinalityType
<1>13. CASE from <= to
  <2>1. hi - lo <= ((to - from) \div b) + 1
    BY <1>2, <1>13, DivSpread
  <2>2. PICK d \in Int : d = to - from
    OBVIOUS
  <2>3. d \div b \in Int /\ d \div b <= MaxBuckets
    <3>1. CASE from = to
      <4>1. d = b * 0 + 0 /\ 0 \in 0 .. b - 1
        BY <2>2, <3>1
      <4>2. d \div b = 0
        BY <4>1, ModUnique
      <4>. QED
        BY <4>2, <1>0
    <3>2. CASE from < to
      BY <1>0, <2>2, <3>2, DivMod DEF TooManyBuckets
    <3>. QED
      BY <1>13, <3>1, <3>2
  <2>4. Cardinality(lo .. hi) <= MaxBuckets + 2
    <3>1. Cardinality(lo .. hi) = IF lo > hi THEN 0 ELSE hi - lo + 1
      BY <1>2, FS_Interval
    <3>. QED
      BY <1>0, <1>2, <2>1, <2>2, <2>3, <3>1
  <2>. QED
    BY <1>0, <1>6, <1>9, <1>11, <1>12, <2>4
<1>14. CASE from > to
  <2>1. W = {}
    BY <1>14 DEF InWindow
  <2>2. K = {}
    BY <2>1 DEF K
  <2>3. Cardinality(K) = 0
    BY <2>2, FS_EmptySet
  <2>. QED
    BY <1>0, <1>11, <1>12, <2>3
<1>. QED
  BY <1>13, <1>14

\* A breakdown has the largest of MemoryLogger's groups, and all of them when
\* they fit.
LEMMA BreakdownAgree ==
  ASSUME NEW S, IsFiniteSet(S), NEW from, NEW to, NEW dim,
         NEW top \in PgBreakdown(S, from, to, dim), NEW all, all = MemBreakdown(S, from, to, dim)
  PROVE  /\ top \subseteq all
         /\ top # all => Cardinality(top) = MaxGroups
         /\ \A g \in top, h \in all \ top : g.n >= h.n
<1> DEFINE W == {e \in S : InWindow(e, from, to)}
           Key(k) == [key |-> k, n |-> Cardinality({e \in W : breakdownKey(e, dim) = k}),
                      errors |-> Cardinality({e \in W : breakdownKey(e, dim) = k /\ ~e.success}),
                      dur |-> TotalDur({e \in W : breakdownKey(e, dim) = k})]
           K == {breakdownKey(e, dim) : e \in W}
<1>1. all = {Key(k) : k \in K}
  BY DEF MemBreakdown, GroupBy
<1>2. /\ top \in SUBSET all
      /\ Cardinality(top) = IF Cardinality(all) > MaxGroups THEN MaxGroups ELSE Cardinality(all)
      /\ \A g \in top, h \in all \ top : g.n >= h.n
  BY <1>1 DEF PgBreakdown, GroupBy
<1>3. PICK b : b = [e \in W |-> breakdownKey(e, dim)]
  OBVIOUS
<1>4. PICK p : p = [k \in K |-> Key(k)]
  OBVIOUS
<1>5. DOMAIN b = W /\ K = {b[e] : e \in W} /\ IsFiniteSet(W)
  BY <1>3, FS_Subset
<1>6. IsFiniteSet(K)
  BY <1>5, ImageSize
<1> HIDE DEF Key, K, W
<1>7. DOMAIN p = K /\ all = {p[k] : k \in K}
  BY <1>1, <1>4
<1>8. IsFiniteSet(all)
  BY <1>6, <1>7, ImageSize
<1>9. top # all => Cardinality(top) # Cardinality(all)
  BY <1>2, <1>8, FS_Subset
<1>. QED
  BY <1>2, <1>9

\* Leaving a value out of a count.
LEMMA CountWithout ==
  ASSUME NEW T, IsFiniteSet(T), NEW z
  PROVE  /\ z \in T => Cardinality(T) = Cardinality(T \ {z}) + 1
         /\ z \notin T => Cardinality(T) = Cardinality(T \ {z})
<1>1. Cardinality(T) \in Nat
  BY FS_CardinalityType
<1>2. Cardinality(T \ {z}) = IF z \in T THEN Cardinality(T) - 1 ELSE Cardinality(T)
  BY FS_RemoveElement
<1>. QED
  BY <1>1, <1>2

OneMore(m) == [m EXCEPT !.tools = @ + 1]

\* The statistics are MemoryLogger's, which does not count an empty tool name.
LEMMA StatsAgree ==
  ASSUME NEW S, IsFiniteSet(S), NEW from, NEW to
  PROVE  IF \E e \in S : e.tool = "" /\ InWindow(e, from, to)
         THEN PgStats(S, from, to) = OneMore(MemStats(S, from, to))
         ELSE PgStats(S, from, to) = MemStats(S, from, to)
<1> DEFINE W == {e \in S : InWindow(e, from, to)}
           T == {e.tool : e \in W}
<1>0. PICK mem : mem = MemStats(S, from, to)
  OBVIOUS
<1>1. PICK t : t = [e \in W |-> e.tool]
  OBVIOUS
<1>2. IsFiniteSet(W) /\ DOMAIN t = W /\ T = {t[e] : e \in W}
  BY <1>1, FS_Subset
<1>3. PICK n, er, d, u, c, k :
        /\ PgStats(S, from, to) = [total |-> n, errors |-> er, dur |-> d, subjects |-> u, tools |-> c]
        /\ mem = [total |-> n, errors |-> er, dur |-> d, subjects |-> u, tools |-> k]
        /\ c = Cardinality(T) /\ k = Cardinality(T \ {""})
  BY <1>0 DEF PgStats, MemStats
<1>4. "" \in T <=> \E e \in S : e.tool = "" /\ InWindow(e, from, to)
  BY Zenon
<1> HIDE DEF T, W
<1>5. IsFiniteSet(T)
  BY <1>2, ImageSize
<1>6. /\ "" \in T => Cardinality(T) = Cardinality(T \ {""}) + 1
      /\ "" \notin T => Cardinality(T) = Cardinality(T \ {""})
  BY <1>5, CountWithout, Zenon
<1>7. CASE "" \in T
  <2>1. c = k + 1
    BY <1>3, <1>6, <1>7, Zenon
  <2>2. /\ PgStats(S, from, to) = [total |-> n, errors |-> er, dur |-> d, subjects |-> u, tools |-> c]
        /\ mem = [total |-> n, errors |-> er, dur |-> d, subjects |-> u, tools |-> k]
    BY <1>3, Zenon
  <2>3. PgStats(S, from, to) = OneMore(mem)
    BY <2>1, <2>2 DEF OneMore
  <2>. QED
    BY <1>0, <1>4, <1>7, <2>3, Zenon
<1>8. CASE "" \notin T
  <2>1. c = k
    BY <1>3, <1>6, <1>8, Zenon
  <2>2. /\ PgStats(S, from, to) = [total |-> n, errors |-> er, dur |-> d, subjects |-> u, tools |-> c]
        /\ mem = [total |-> n, errors |-> er, dur |-> d, subjects |-> u, tools |-> k]
    BY <1>3, Zenon
  <2>3. PgStats(S, from, to) = mem
    BY <2>1, <2>2
  <2>. QED
    BY <1>0, <1>4, <1>8, <2>3, Zenon
<1>. QED
  BY <1>7, <1>8, Zenon

-----------------------------------------------------------------------------
(* The order of the two backends.                                          *)

Newer(a, b) == a.ts > b.ts \/ (a.ts = b.ts /\ a.id < b.id)

\* E as MemoryLogger sorts it.
Sorted(E) == InOrder(E, LAMBDA a, b : a.ts > b.ts \/ (a.ts = b.ts /\ a.id < b.id))

\* Row numbers are the order of what is stored.
LEMMA StoredOrder ==
  ASSUME NEW r \in Rows, NEW s \in Rows
  PROVE  /\ r > s <=> Newer(Stored[r], Stored[s])
         /\ Stored[r] = Stored[s] => r = s
<1>1. /\ Stored[r].ts = Call[r].ts /\ Stored[s].ts = Call[s].ts
      /\ Stored[r].id = Call[r].id /\ Stored[s].id = Call[s].id
  <2>1. "ts" \in Columns /\ "id" \in Columns /\ "ts" # "request_params" /\ "id" # "request_params"
    BY DEF Columns
  <2>. QED
    BY <2>1, StoredFacts
<1>2. r > s <=> Newer(Call[r], Call[s])
  BY CallAssumption DEF Newer
<1>3. s > r <=> Newer(Call[s], Call[r])
  BY CallAssumption DEF Newer
<1>4. r > s <=> Newer(Stored[r], Stored[s])
  BY <1>1, <1>2 DEF Newer
<1>5. ASSUME Stored[r] = Stored[s] PROVE r = s
  <2>1. Call[r].ts = Call[s].ts /\ Call[r].id = Call[s].id /\ Call[r].ts \in Int /\ Call[r].id \in Int
    BY <1>1, <1>5, CallAssumption
  <2>2. ~(r > s) /\ ~(s > r)
    BY <1>2, <1>3, <2>1 DEF Newer
  <2>3. r \in Int /\ s \in Int
    BY AuditExportAssumption
  <2>. QED
    BY <2>2, <2>3
<1>. QED
  BY <1>4, <1>5

\* What MemoryLogger sorts is what Postgres lists.
LEMMA SortedIsListed ==
  ASSUME NEW S \in SUBSET Rows, NEW E, E = {Stored[r] : r \in S}
  PROVE  /\ Sorted(E) = [i \in 1 .. Cardinality(S) |-> Stored[Listed(S)[i]]]
         /\ Cardinality(E) = Cardinality(S)
<1>0. IsFiniteSet(S) /\ Cardinality(S) \in Nat
  BY RowsFacts
<1>1. Cardinality(E) = Cardinality(S)
  <2>1. PICK f : f = [r \in S |-> Stored[r]]
    OBVIOUS
  <2>2. DOMAIN f = S /\ E = {f[r] : r \in S} /\ \A x, y \in S : f[x] = f[y] => x = y
    BY <2>1, StoredOrder
  <2>. QED
    BY <1>0, <2>2, ImageSize
<1> DEFINE Before(e) == {x \in E : x.ts > e.ts \/ (x.ts = e.ts /\ x.id < e.id)}
<1>2. ASSUME NEW r \in S PROVE Cardinality(Before(Stored[r])) = Rank(S, r)
  <2>1. PICK B : B = {y \in S : y > r}
    OBVIOUS
  <2>2. IsFiniteSet(B) /\ Cardinality(B) = Rank(S, r) /\ B \subseteq S
    BY <2>1, RowsFacts DEF Rank
  <2>3. PICK f : f = [y \in B |-> Stored[y]]
    OBVIOUS
  <2>4. DOMAIN f = B /\ \A x, y \in B : f[x] = f[y] => x = y
    BY <2>2, <2>3, StoredOrder
  <2>5. Before(Stored[r]) = {f[y] : y \in B}
    <3>1. \A y \in S : y > r <=> Newer(Stored[y], Stored[r])
      BY StoredOrder
    <3>2. Before(Stored[r]) = {x \in E : Newer(x, Stored[r])}
      BY DEF Newer
    <3>. QED
      BY <2>1, <2>3, <3>1, <3>2
  <2> HIDE DEF Before
  <2>. QED
    BY <2>2, <2>4, <2>5, ImageSize
<1>3. Sorted(E) = [i \in 1 .. Cardinality(E) |-> CHOOSE e \in E : Cardinality(Before(e)) = i - 1]
  BY DEF Sorted, InOrder
<1> HIDE DEF Before
<1>4. ASSUME NEW i \in 1 .. Cardinality(S)
      PROVE  Stored[Listed(S)[i]] = CHOOSE e \in E : Cardinality(Before(e)) = i - 1
  <2>1. PICK r \in S : r = Listed(S)[i] /\ Rank(S, r) = i - 1
    BY ListedFacts
  <2>2. Stored[r] \in E /\ Cardinality(Before(Stored[r])) = i - 1
    BY <1>2, <2>1
  <2>3. ASSUME NEW e \in E, Cardinality(Before(e)) = i - 1 PROVE e = Stored[r]
    <3>1. PICK s \in S : e = Stored[s]
      BY <2>3
    <3>2. Rank(S, s) = Rank(S, r)
      BY <1>2, <2>1, <2>3, <3>1
    <3>3. s = r
      <4>1. s \in Int /\ r \in Int /\ Rank(S, s) \in Nat
        BY RowsFacts
      <4>2. ~(s < r)
        BY <3>2, <4>1, RankOrder
      <4>3. ~(r < s)
        BY <3>2, <4>1, RankOrder
      <4>. QED
        BY <4>1, <4>2, <4>3
    <3>. QED
      BY <3>1, <3>3
  <2>. QED
    BY <2>1, <2>2, <2>3
<1>. QED
  BY <1>0, <1>1, <1>3, <1>4

\* Where the two backends select the same events, they give the same pages and
\* the same count.
LEMMA QueryAgree ==
  ASSUME TypeOK, NEW f, NEW g, f.offset \in Nat, f.limit \in Int,
         g.offset = f.offset, g.limit = f.limit,
         \A r \in table : Selects(g, Stored[r]) <=> matchesFilter(Stored[r], f)
  PROVE  /\ Ids(PgQuery(g)) = IdsOf(Slice(matchAll(Events, f), f))
         /\ f.offset = 0 => Ids(PgQuery(g)) = IdsOf(MemQuery(Events, f))
         /\ PgCount(g) = MemCount(Events, f)
<1>1. PICK S \in SUBSET Rows : S = Matching(g)
  BY DEF TypeOK, Matching
<1>2. PICK E : E = {e \in Events : matchesFilter(e, f)}
  OBVIOUS
<1>3. E = {Stored[r] : r \in S}
  BY <1>1, <1>2 DEF Matching, Events
<1>4. matchAll(Events, f) = Sorted(E)
  BY <1>2 DEF matchAll, Sorted, InOrder
<1>5. PICK L \in Seq(S) : /\ L = Listed(S) /\ Len(L) = Cardinality(S) /\ Len(L) \in Nat
                          /\ \A i \in 1 .. Len(L) : L[i] \in S
  BY ListedFacts
<1>6. PICK Q \in Seq(E) : /\ Q = matchAll(Events, f) /\ Len(Q) = Len(L)
                          /\ \A i \in 1 .. Len(L) : Q[i] = Stored[L[i]]
  <2>1. Sorted(E) = [i \in 1 .. Len(L) |-> Stored[L[i]]]
    BY <1>3, <1>5, SortedIsListed
  <2>2. \A i \in 1 .. Len(L) : Stored[L[i]] \in E
    BY <1>3, <1>5
  <2>3. [i \in 1 .. Len(L) |-> Stored[L[i]]] \in Seq(E)
    BY <1>5, <2>2
  <2>4. Len([i \in 1 .. Len(L) |-> Stored[L[i]]]) = Len(L)
    BY <1>5
  <2>. QED
    BY <1>4, <2>1, <2>3, <2>4
<1>7. PICK o \in Nat, c \in Nat : o = f.offset /\ c = Clamp(f.limit)
  BY AuditFiltersAssumption DEF Clamp
<1>8. PICK m \in Nat : m <= Len(L) /\ m = IF Len(L) < o + c THEN Len(L) ELSE o + c
  BY <1>5, <1>7
<1>9. PICK p \in Seq(S) : /\ p = SubSeq(L, o + 1, m) /\ Len(p) = IF o < m THEN m - o ELSE 0
                          /\ \A i \in 1 .. Len(p) : p[i] = L[o + i] /\ o + i \in 1 .. Len(L)
  <2>1. L \in Seq(S) /\ o \in Nat /\ m \in Nat /\ m <= Len(L)
    BY <1>5, <1>7, <1>8
  <2>. QED
    BY ONLY <2>1, WindowFacts, Zenon
<1>10. PICK w \in Seq(E) : /\ w = SubSeq(Q, o + 1, m) /\ Len(w) = IF o < m THEN m - o ELSE 0
                           /\ \A i \in 1 .. Len(w) : w[i] = Q[o + i] /\ o + i \in 1 .. Len(Q)
  <2>1. Q \in Seq(E) /\ o \in Nat /\ m \in Nat /\ m <= Len(Q)
    BY <1>6, <1>7, <1>8
  <2>. QED
    BY ONLY <2>1, WindowFacts, Zenon
<1>11. PgQuery(g) = p
  BY <1>1, <1>5, <1>7, <1>8, <1>9, PgQueryIsPage DEF Slice
<1>12. Slice(matchAll(Events, f), f) = w
  BY <1>6, <1>7, <1>8, <1>10 DEF Slice
<1>13. Ids(p) = IdsOf(w)
  <2>1. DOMAIN p = 1 .. Len(p) /\ DOMAIN w = 1 .. Len(p) /\ Len(w) = Len(p)
    BY <1>9, <1>10
  <2>2. \A i \in 1 .. Len(p) : w[i] = Stored[p[i]]
    BY <1>6, <1>9, <1>10, <2>1
  <2>. QED
    BY <2>1, <2>2 DEF Ids, IdsOf
<1>14. f.offset = 0 => MemQuery(Events, f) = w
  <2>1. ASSUME o = 0 PROVE m = IF Len(Q) > c THEN c ELSE Len(Q)
    BY <1>5, <1>6, <1>7, <1>8, <2>1
  <2>. QED
    BY <1>6, <1>7, <1>10, <2>1 DEF MemQuery, FirstN
<1>15. PgCount(g) = MemCount(Events, f)
  BY <1>1, <1>5, <1>6 DEF PgCount, MemCount
<1>. QED
  BY <1>11, <1>12, <1>13, <1>14, <1>15

\* The dashboard's list asks for a window only.
LEMMA RecentAgree ==
  ASSUME NEW ev PROVE Selects(RecentFilter, ev) <=> matchesFilter(ev, RecentFilter)
<1>1. /\ RecentFilter.from = request.now - Hour /\ RecentFilter.to = request.now
      /\ RecentFilter.tool = NoFilter.tool /\ RecentFilter.user = NoFilter.user
      /\ RecentFilter.session = NoFilter.session /\ RecentFilter.id = 0
      /\ RecentFilter.success = NoFilter.success /\ RecentFilter.search = <<>>
      /\ RecentFilter.json = {} /\ RecentFilter.has = {}
  BY DEF RecentFilter, NoFilter
<1>2. NoFilter.tool = "" /\ NoFilter.user = "" /\ NoFilter.session = "" /\ NoFilter.success = ""
  BY Zenon DEF NoFilter
<1>. QED
  BY <1>1, <1>2, Zenon DEF Selects, matchesFilter, matchesHasKeys

LEMMA DashboardInv == PortalInv => DashboardAgree
<1> SUFFICES ASSUME PortalInv, quiet PROVE DashboardAgree
  BY DEF DashboardAgree
<1>0. TypeOK /\ ReadInv /\ QuietReadInv
  BY DEF PortalInv
<1>1. IsFiniteSet(Events) /\ \A e \in Events : e.ts \in Int
  BY <1>0, EventsFacts
<1>2. ASSUME Answered("timeseries")
      PROVE  /\ EpochOffset % Bucket = 0 =>
                  ans.groups = MemTimeSeries(Events, Asked.from, Asked.to, Bucket)
             /\ Asked.from # 0 /\ Asked.to # 0 => Cardinality(ans.groups) <= MaxBuckets + 2
  <2>1. /\ ans.groups = PgTimeSeries(Events, Asked.from, Asked.to, Bucket)
        /\ ~TooManyBuckets(Asked.from, Asked.to, Bucket)
    BY <1>0, <1>2 DEF QuietReadInv
  <2>2. request \in Queries /\ request.kind = "timeseries"
    BY <1>0, <1>2 DEF ReadInv, Answered, Export
  <2>3. request.bucket \in Int /\ request.u.from \in Int /\ request.u.to \in Int
    BY <2>2, QueryAssumption
  <2>4. PICK b \in Nat \ {0} : b = Bucket
    BY <2>3, QueryAssumption DEF Bucket
  <2>5. PICK from \in Int, to \in Int : from = Asked.from /\ to = Asked.to
    BY <2>3 DEF Asked, parseQueryFilter
  <2>. QED
    BY <1>1, <2>1, <2>4, <2>5, SeriesAgree, SeriesSize
<1>3. ASSUME Answered("breakdown"), Dimension \in Dimensions,
             NEW all, all = MemBreakdown(Events, Asked.from, Asked.to, Dimension)
      PROVE  /\ ans.groups \subseteq all
             /\ ans.groups # all => Cardinality(ans.groups) = MaxGroups
             /\ \A g \in ans.groups, h \in all \ ans.groups : g.n >= h.n
  <2>1. ans.groups \in PgBreakdown(Events, Asked.from, Asked.to, Dimension)
    BY <1>0, <1>3 DEF QuietReadInv
  <2>. QED
    BY <1>1, <1>3, <2>1, BreakdownAgree
<1>4. ASSUME Answered("dashboard"),
             NEW mem, mem = MemStats(Events, request.now - Hour, request.now)
      PROVE  /\ ans.stats = [mem EXCEPT !.tools =
                  IF \E e \in Events : e.tool = "" /\ InWindow(e, request.now - Hour, request.now)
                  THEN @ + 1 ELSE @]
             /\ ~ans.partial => Ids(ans.rows) = IdsOf(MemQuery(Events, RecentFilter))
  <2>1. /\ ans.stats = PgStats(Events, request.now - Hour, request.now)
        /\ ~ans.partial => ans.rows = PgQuery(RecentFilter)
    BY <1>0, <1>4 DEF QuietReadInv
  <2>2. RecentFilter.offset = 0 /\ RecentFilter.limit \in Int
    BY QueryAssumption DEF RecentFilter, NoFilter
  <2>3. Ids(PgQuery(RecentFilter)) = IdsOf(MemQuery(Events, RecentFilter))
    <3>1. \A r \in table : Selects(RecentFilter, Stored[r]) <=> matchesFilter(Stored[r], RecentFilter)
      BY RecentAgree
    <3>2. RecentFilter.offset \in Nat
      BY <2>2
    <3>. QED
      BY ONLY <1>0, <2>2, <3>1, <3>2, QueryAgree, Zenon
  <2>4. ans.stats = [mem EXCEPT !.tools =
                  IF \E e \in Events : e.tool = "" /\ InWindow(e, request.now - Hour, request.now)
                  THEN @ + 1 ELSE @]
    <3>1. PICK S, from, to : S = Events /\ from = request.now - Hour /\ to = request.now
      OBVIOUS
    <3>2. IsFiniteSet(S) /\ mem = MemStats(S, from, to) /\ ans.stats = PgStats(S, from, to)
      BY <1>1, <1>4, <2>1, <3>1
    <3>3. IF \E e \in S : e.tool = "" /\ InWindow(e, from, to)
          THEN PgStats(S, from, to) = OneMore(MemStats(S, from, to))
          ELSE PgStats(S, from, to) = MemStats(S, from, to)
      BY ONLY <3>2, StatsAgree, Zenon
    <3>4. OneMore(mem) = [mem EXCEPT !.tools = @ + 1] /\ mem = [mem EXCEPT !.tools = @]
      BY <1>4 DEF OneMore, MemStats
    <3>5. CASE \E e \in S : e.tool = "" /\ InWindow(e, from, to)
      BY <3>1, <3>2, <3>3, <3>4, <3>5, Zenon
    <3>6. CASE ~(\E e \in S : e.tool = "" /\ InWindow(e, from, to))
      BY <3>1, <3>2, <3>3, <3>4, <3>6, Zenon
    <3>. QED
      BY <3>5, <3>6, Zenon
  <2>. QED
    BY <2>1, <2>3, <2>4, Zenon
<1>. QED
  BY <1>2, <1>3, <1>4, Zenon DEF DashboardAgree

\* While no row comes or goes, the dashboard's statistics, series, breakdowns
\* and recent calls (store.go) are the ones MemoryLogger computes (memory.go).
THEOREM SummariesAgree == PortalSpec => []DashboardAgree
  BY DashboardInv, SpecPortalInv, PTL

-----------------------------------------------------------------------------
(* The recursive definitions.                                              *)

\* What holds of 0 and of every next number holds up to n.
LEMMA Climb ==
  ASSUME NEW n \in Nat, NEW N, 0 \in N, \A i \in 0 .. n - 1 : i \in N => i + 1 \in N
  PROVE  0 .. n \subseteq N
<1>1. SUFFICES ASSUME ~(0 .. n \subseteq N) PROVE FALSE
  OBVIOUS
<1>2. PICK B : B = {i \in 0 .. n : i \notin N}
  OBVIOUS
<1>7. B \in SUBSET Nat /\ B # {}
  BY <1>1, <1>2
<1>3. PICK k \in B : \A m \in B : k <= m
  BY <1>7, LeastNat
<1>4. k \in 1 .. n /\ k - 1 \in 0 .. n - 1 /\ k - 1 < k
  BY <1>2, <1>3
<1>5. k - 1 \in N
  BY <1>2, <1>3, <1>4
<1>6. (k - 1) + 1 \in N
  BY <1>4, <1>5
<1>. QED
  BY <1>2, <1>3, <1>4, <1>6

\* The values along a path.
LEMMA WalkDef ==
  ASSUME NEW m, NEW S, NEW path \in Seq(S)
  PROVE  Walk(m, path) =
           [i \in 0 .. Len(path) |->
              IF i = 0 THEN m
              ELSE IF Walk(m, path)[i - 1].t = "obj" /\ path[i] \in DOMAIN Walk(m, path)[i - 1].f
                   THEN Walk(m, path)[i - 1].f[path[i]]
              ELSE Absent]
<1> DEFINE Next1(v, i) == IF v.t = "obj" /\ path[i] \in DOMAIN v.f THEN v.f[path[i]] ELSE Absent
           IsWalk(g, n) == g = [i \in 0 .. n |-> IF i = 0 THEN m ELSE Next1(g[i - 1], i)]
           N == {n \in 0 .. Len(path) : \E g : IsWalk(g, n)}
<1>0. Len(path) \in Nat
  OBVIOUS
<1>1. 0 \in N
  <2>1. IsWalk([i \in 0 .. 0 |-> m], 0)
    OBVIOUS
  <2> HIDE DEF IsWalk
  <2>2. \E g : IsWalk(g, 0)
    BY <2>1
  <2>. QED
    BY <1>0, <2>2
<1>2. ASSUME NEW n \in 0 .. Len(path) - 1, n \in N PROVE n + 1 \in N
  <2>1. PICK g : IsWalk(g, n)
    BY <1>2
  <2> HIDE DEF Next1
  <2>2. PICK h : h = [i \in 0 .. n + 1 |-> IF i = n + 1 THEN Next1(g[n], n + 1) ELSE g[i]]
    OBVIOUS
  <2>3. \A i \in 0 .. n : h[i] = g[i]
    BY <1>0, <2>2
  <2>4. \A i \in 1 .. n : g[i] = Next1(g[i - 1], i)
    BY <1>0, <2>1
  <2>5. \A i \in 0 .. n + 1 : h[i] = IF i = 0 THEN m ELSE Next1(h[i - 1], i)
    <3>1. SUFFICES ASSUME NEW i \in 0 .. n + 1 PROVE h[i] = IF i = 0 THEN m ELSE Next1(h[i - 1], i)
      OBVIOUS
    <3>2. CASE i = 0
      BY <1>0, <2>1, <2>2, <3>2
    <3>3. CASE i \in 1 .. n
      <4>1. h[i] = g[i] /\ h[i - 1] = g[i - 1]
        BY <1>0, <2>3, <3>3
      <4>. QED
        BY <2>4, <3>3, <4>1
    <3>4. CASE i = n + 1
      <4>1. h[i] = Next1(g[n], n + 1) /\ h[i - 1] = g[n]
        BY <1>0, <2>2, <2>3, <3>4
      <4>. QED
        BY <1>0, <3>4, <4>1
    <3>. QED
      BY <1>0, <3>2, <3>3, <3>4
  <2>6. IsWalk(h, n + 1)
    BY <2>2, <2>5
  <2>. QED
    BY <1>0, <2>6
<1>3. 0 .. Len(path) \subseteq N
  BY <1>0, <1>1, <1>2, Climb
<1>4. \E g : IsWalk(g, Len(path))
  BY <1>0, <1>3
<1>. QED
  BY <1>4 DEF Walk

\* An object with one member.
Named(k, v) == Obj([x \in {k} |-> v])

\* A value wrapped in the names of a path.
LEMMA WrappedDef ==
  ASSUME NEW value, NEW S, NEW path \in Seq(S)
  PROVE  Wrapped(path, value) =
           [i \in 0 .. Len(path) |->
              IF i = 0 THEN value ELSE Named(path[Len(path) + 1 - i], Wrapped(path, value)[i - 1])]
<1> DEFINE Around(v, i) == Named(path[Len(path) + 1 - i], v)
           IsWrapped(g, n) == g = [i \in 0 .. n |-> IF i = 0 THEN value ELSE Around(g[i - 1], i)]
           N == {n \in 0 .. Len(path) : \E g : IsWrapped(g, n)}
<1>0. Len(path) \in Nat
  OBVIOUS
<1>1. 0 \in N
  <2>1. IsWrapped([i \in 0 .. 0 |-> value], 0)
    OBVIOUS
  <2> HIDE DEF IsWrapped
  <2>2. \E g : IsWrapped(g, 0)
    BY <2>1
  <2>. QED
    BY <1>0, <2>2
<1>2. ASSUME NEW n \in 0 .. Len(path) - 1, n \in N PROVE n + 1 \in N
  <2>1. PICK g : IsWrapped(g, n)
    BY <1>2
  <2> HIDE DEF Around
  <2>2. PICK h : h = [i \in 0 .. n + 1 |-> IF i = n + 1 THEN Around(g[n], n + 1) ELSE g[i]]
    OBVIOUS
  <2>3. \A i \in 0 .. n : h[i] = g[i]
    BY <1>0, <2>2
  <2>4. \A i \in 1 .. n : g[i] = Around(g[i - 1], i)
    BY <1>0, <2>1
  <2>5. \A i \in 0 .. n + 1 : h[i] = IF i = 0 THEN value ELSE Around(h[i - 1], i)
    <3>1. SUFFICES ASSUME NEW i \in 0 .. n + 1
                   PROVE  h[i] = IF i = 0 THEN value ELSE Around(h[i - 1], i)
      OBVIOUS
    <3>2. CASE i = 0
      BY <1>0, <2>1, <2>2, <3>2
    <3>3. CASE i \in 1 .. n
      <4>1. h[i] = g[i] /\ h[i - 1] = g[i - 1]
        BY <1>0, <2>3, <3>3
      <4>. QED
        BY <2>4, <3>3, <4>1
    <3>4. CASE i = n + 1
      <4>1. h[i] = Around(g[n], n + 1) /\ h[i - 1] = g[n]
        BY <1>0, <2>2, <2>3, <3>4
      <4>. QED
        BY <1>0, <3>4, <4>1
    <3>. QED
      BY <1>0, <3>2, <3>3, <3>4
  <2>6. IsWrapped(h, n + 1)
    BY <2>2, <2>5
  <2>. QED
    BY <1>0, <2>6
<1>3. 0 .. Len(path) \subseteq N
  BY <1>0, <1>1, <1>2, Climb
<1>4. \E g : IsWrapped(g, Len(path))
  <2> HIDE DEF IsWrapped
  <2>. QED
    BY <1>0, <1>3
<1>. QED
  BY <1>4 DEF Wrapped, Named

LEMMA WrappedAt ==
  ASSUME NEW value, NEW S, NEW path \in Seq(S), NEW n \in Nat, n = Len(path)
  PROVE  /\ Wrapped(path, value)[0] = value
         /\ \A i \in 1 .. n : Wrapped(path, value)[i] = Named(path[n + 1 - i], Wrapped(path, value)[i - 1])
  BY WrappedDef

\* The values with fewer than n levels.
Below(n) == {v \in JSON : Depth[v] < n}

LEMMA BelowFacts ==
  /\ MaxDepth + 1 \in Nat /\ Below(0) = {} /\ Below(MaxDepth + 1) = JSON
  /\ \A n \in Nat : Below(n) \subseteq Below(n + 1) /\ Below(n) \subseteq JSON
  /\ \A n \in Nat : \A v \in Below(n + 1) : Parts(v) \subseteq Below(n)
<1>1. MaxDepth \in Nat /\ \A v \in JSON : Depth[v] \in 0 .. MaxDepth
  BY JSONAssumption
<1>2. \A v \in JSON : \A w \in Parts(v) : w \in JSON /\ Depth[w] < Depth[v]
  BY JSONAssumption
<1>3. ASSUME NEW n \in Nat, NEW v \in Below(n + 1), NEW w \in Parts(v) PROVE w \in Below(n)
  <2>1. v \in JSON /\ Depth[v] < n + 1
    BY DEF Below
  <2>. QED
    BY <1>1, <1>2, <2>1 DEF Below
<1>4. MaxDepth + 1 \in Nat /\ Below(0) = {} /\ Below(MaxDepth + 1) = JSON
  BY <1>1 DEF Below
<1>5. \A n \in Nat : Below(n) \subseteq Below(n + 1) /\ Below(n) \subseteq JSON
  BY <1>1 DEF Below
<1>. QED
  BY <1>3, <1>4, <1>5

\* What sanitizing does to a value whose parts become g[part].
SanitizedBy(g, v) ==
  CASE v.t = "obj" -> Obj([k \in DOMAIN v.f |-> IF k \in RedactedKeys THEN Redacted ELSE g[v.f[k]]])
    [] v.t = "arr" -> Arr([i \in DOMAIN v.s |-> g[v.s[i]]])
    [] OTHER       -> v

LEMMA SanitizedByParts ==
  ASSUME NEW v, NEW g, NEW h, \A w \in Parts(v) : g[w] = h[w]
  PROVE  SanitizedBy(g, v) = SanitizedBy(h, v)
<1>1. CASE v.t = "obj"
  <2>1. \A k \in DOMAIN v.f : g[v.f[k]] = h[v.f[k]]
    BY <1>1 DEF Parts
  <2>2. [k \in DOMAIN v.f |-> IF k \in RedactedKeys THEN Redacted ELSE g[v.f[k]]]
          = [k \in DOMAIN v.f |-> IF k \in RedactedKeys THEN Redacted ELSE h[v.f[k]]]
    BY <2>1
  <2>. QED
    BY <1>1, <2>2 DEF SanitizedBy
<1>2. CASE v.t = "arr"
  <2>1. \A i \in DOMAIN v.s : g[v.s[i]] = h[v.s[i]]
    BY <1>2 DEF Parts
  <2>2. [i \in DOMAIN v.s |-> g[v.s[i]]] = [i \in DOMAIN v.s |-> h[v.s[i]]]
    BY <2>1
  <2>. QED
    BY <1>2, <2>2 DEF SanitizedBy
<1>3. CASE v.t # "obj" /\ v.t # "arr"
  BY <1>3 DEF SanitizedBy
<1>. QED
  BY <1>1, <1>2, <1>3

LEMMA SanitizeValueDef == SanitizeValue = [v \in JSON |-> SanitizedBy(SanitizeValue, v)]
<1> DEFINE IsIt(g, n) == g = [v \in Below(n) |-> SanitizedBy(g, v)]
           N == {n \in 0 .. MaxDepth + 1 : \E g : IsIt(g, n)}
<1>0. MaxDepth + 1 \in Nat
  BY BelowFacts
<1>1. 0 \in N
  <2>1. PICK g : g = [v \in {} |-> v]
    OBVIOUS
  <2>2. IsIt(g, 0)
    BY <2>1, BelowFacts
  <2> HIDE DEF IsIt
  <2>. QED
    BY <1>0, <2>2
<1>2. ASSUME NEW n \in 0 .. (MaxDepth + 1) - 1, n \in N PROVE n + 1 \in N
  <2>0. n \in Nat /\ n + 1 \in 0 .. MaxDepth + 1
    BY <1>0
  <2>1. PICK g : IsIt(g, n)
    BY <1>2
  <2>2. PICK h : h = [v \in Below(n + 1) |-> SanitizedBy(g, v)]
    OBVIOUS
  <2>3. \A v \in Below(n) : h[v] = g[v]
    BY <2>0, <2>1, <2>2, BelowFacts
  <2>4. \A v \in Below(n + 1) : \A w \in Parts(v) : h[w] = g[w]
    BY <2>0, <2>3, BelowFacts
  <2>5. \A v \in Below(n + 1) : SanitizedBy(g, v) = SanitizedBy(h, v)
    BY <2>4, SanitizedByParts
  <2>6. IsIt(h, n + 1)
    BY <2>2, <2>5
  <2> HIDE DEF IsIt
  <2>. QED
    BY <2>0, <2>6
<1>3. 0 .. MaxDepth + 1 \subseteq N
  BY <1>0, <1>1, <1>2, Climb
<1>4. \E g : g = [v \in JSON |-> SanitizedBy(g, v)]
  <2>1. \E g : IsIt(g, MaxDepth + 1)
    BY <1>0, <1>3
  <2>. QED
    BY <2>1, BelowFacts
<1>. QED
  BY <1>4 DEF SanitizeValue, SanitizedBy

\* Whether d contains p, when g says it of the parts of p.
ContainsBy(g, p, d) ==
  CASE p.t = "obj" -> /\ d.t = "obj"
                      /\ \A k \in DOMAIN p.f : k \in DOMAIN d.f /\ g[p.f[k]][d.f[k]]
    [] p.t = "arr" -> /\ d.t = "arr"
                      /\ \A i \in DOMAIN p.s : \E j \in DOMAIN d.s : g[p.s[i]][d.s[j]]
    [] OTHER       -> Marshaled(d) = p

LEMMA ContainsByParts ==
  ASSUME NEW p, NEW d, NEW g, NEW h, \A w \in Parts(p) : g[w] = h[w]
  PROVE  ContainsBy(g, p, d) = ContainsBy(h, p, d)
<1>1. CASE p.t = "obj"
  <2>1. \A k \in DOMAIN p.f : g[p.f[k]] = h[p.f[k]]
    BY <1>1 DEF Parts
  <2>. QED
    BY <1>1, <2>1 DEF ContainsBy
<1>2. CASE p.t = "arr"
  <2>1. \A i \in DOMAIN p.s : g[p.s[i]] = h[p.s[i]]
    BY <1>2 DEF Parts
  <2>. QED
    BY <1>2, <2>1 DEF ContainsBy
<1>3. CASE p.t # "obj" /\ p.t # "arr"
  BY <1>3 DEF ContainsBy
<1>. QED
  BY <1>1, <1>2, <1>3

LEMMA JsonbContainsDef ==
  JsonbContains = [p \in JSON |-> [d \in JSON |-> ContainsBy(JsonbContains, p, d)]]
<1> DEFINE IsIt(g, n) == g = [p \in Below(n) |-> [d \in JSON |-> ContainsBy(g, p, d)]]
           N == {n \in 0 .. MaxDepth + 1 : \E g : IsIt(g, n)}
<1>0. MaxDepth + 1 \in Nat
  BY BelowFacts
<1>1. 0 \in N
  <2>1. PICK g : g = [v \in {} |-> v]
    OBVIOUS
  <2>2. IsIt(g, 0)
    BY <2>1, BelowFacts
  <2> HIDE DEF IsIt
  <2>. QED
    BY <1>0, <2>2
<1>2. ASSUME NEW n \in 0 .. (MaxDepth + 1) - 1, n \in N PROVE n + 1 \in N
  <2>0. n \in Nat /\ n + 1 \in 0 .. MaxDepth + 1
    BY <1>0
  <2>1. PICK g : IsIt(g, n)
    BY <1>2
  <2>2. PICK h : h = [p \in Below(n + 1) |-> [d \in JSON |-> ContainsBy(g, p, d)]]
    OBVIOUS
  <2>3. \A p \in Below(n) : h[p] = g[p]
    BY <2>0, <2>1, <2>2, BelowFacts
  <2>4. \A p \in Below(n + 1) : \A w \in Parts(p) : g[w] = h[w]
    BY <2>0, <2>3, BelowFacts
  <2>5. \A p \in Below(n + 1) : \A d : ContainsBy(g, p, d) = ContainsBy(h, p, d)
    BY <2>4, ContainsByParts
  <2>6. IsIt(h, n + 1)
    <3>1. \A p \in Below(n + 1) :
            [d \in JSON |-> ContainsBy(g, p, d)] = [d \in JSON |-> ContainsBy(h, p, d)]
      BY <2>5
    <3>. QED
      BY <2>2, <3>1
  <2> HIDE DEF IsIt
  <2>. QED
    BY <2>0, <2>6
<1>3. 0 .. MaxDepth + 1 \subseteq N
  BY <1>0, <1>1, <1>2, Climb
<1>4. \E g : g = [p \in JSON |-> [d \in JSON |-> ContainsBy(g, p, d)]]
  <2>1. \E g : IsIt(g, MaxDepth + 1)
    BY <1>0, <1>3
  <2>. QED
    BY <2>1, BelowFacts
<1>. QED
  BY <1>4 DEF JsonbContains, ContainsBy

-----------------------------------------------------------------------------
(* Containment and paths.                                                  *)

LEMMA ContainsEquation ==
  ASSUME NEW p \in JSON, NEW d \in JSON
  PROVE  JsonbContains[p][d] <=> ContainsBy(JsonbContains, p, d)
<1>1. JsonbContains[p] = [x \in JSON |-> ContainsBy(JsonbContains, p, x)]
  BY JsonbContainsDef
<1>2. JsonbContains[p][d] = ContainsBy(JsonbContains, p, d)
  BY <1>1
<1>. QED
  BY <1>2

\* One name around w, and a scalar.
LEMMA ContainsName ==
  ASSUME NEW k, NEW w, NEW p \in JSON, p = Named(k, w), NEW d \in JSON
  PROVE  JsonbContains[p][d] <=> d.t = "obj" /\ k \in DOMAIN d.f /\ JsonbContains[w][d.f[k]]
<1>1. JsonbContains[p][d] <=> ContainsBy(JsonbContains, p, d)
  BY ContainsEquation
<1>2. p.t = "obj" /\ DOMAIN p.f = {k} /\ p.f[k] = w
  BY DEF Obj, Named
<1>3. ContainsBy(JsonbContains, p, d) <=>
        d.t = "obj" /\ \A x \in DOMAIN p.f : x \in DOMAIN d.f /\ JsonbContains[p.f[x]][d.f[x]]
  BY <1>2 DEF ContainsBy
<1>. QED
  BY <1>1, <1>2, <1>3

LEMMA ContainsScalar ==
  ASSUME NEW p \in JSON, p.t # "obj", p.t # "arr", NEW d \in JSON
  PROVE  JsonbContains[p][d] <=> Marshaled(d) = p
  BY ContainsEquation DEF ContainsBy

LEMMA MarshaledSame == \A v : v.t # "num" => Marshaled(v) = v
  BY DEF Marshaled

LEMMA DecodedFacts ==
  /\ Decoded \subseteq JSON /\ Absent \in Decoded /\ \A v \in Decoded : Parts(v) \subseteq Decoded
  /\ \A v \in JSON : Parts(v) \subseteq JSON
  BY JSONAssumption

LEMMA NameParts ==
  /\ \A v, k : v.t = "obj" /\ k \in DOMAIN v.f => v.f[k] \in Parts(v)
  /\ \A k, w : w \in Parts(Named(k, w))
<1>1. ASSUME NEW v, NEW k, v.t = "obj", k \in DOMAIN v.f PROVE v.f[k] \in Parts(v)
  BY <1>1 DEF Parts
<1>2. ASSUME NEW k, NEW w PROVE w \in Parts(Named(k, w))
  <2>1. PICK p : p = Named(k, w)
    OBVIOUS
  <2>2. p.t = "obj" /\ k \in DOMAIN p.f /\ p.f[k] = w
    BY <2>1 DEF Obj, Named
  <2>. QED
    BY <1>1, <2>1, <2>2
<1>. QED
  BY <1>1, <1>2

\* A decoded document stays decoded along a path.
LEMMA WalkDecoded ==
  ASSUME NEW m \in Decoded, NEW S, NEW path \in Seq(S)
  PROVE  \A i \in 0 .. Len(path) : Walk(m, path)[i] \in Decoded
<1>1. PICK A : A = Walk(m, path)
  OBVIOUS
<1>2. PICK n \in Nat : n = Len(path)
  OBVIOUS
<1>3. A[0] = m /\ \A i \in 1 .. n :
        A[i] = IF A[i - 1].t = "obj" /\ path[i] \in DOMAIN A[i - 1].f THEN A[i - 1].f[path[i]] ELSE Absent
  BY <1>1, <1>2, WalkDef
<1>4. PICK N : N = {i \in 0 .. n : A[i] \in Decoded}
  OBVIOUS
<1>5. 0 \in N
  BY <1>2, <1>3, <1>4
<1>6. ASSUME NEW i \in 0 .. n - 1, i \in N PROVE i + 1 \in N
  <2>1. A[i] \in Decoded /\ i + 1 \in 1 .. n /\ (i + 1) - 1 = i
    BY <1>2, <1>4, <1>6
  <2>2. A[i + 1] = IF A[i].t = "obj" /\ path[i + 1] \in DOMAIN A[i].f THEN A[i].f[path[i + 1]] ELSE Absent
    BY <1>3, <2>1
  <2>3. A[i + 1] \in Decoded
    BY <2>1, <2>2, NameParts, DecodedFacts
  <2>. QED
    BY <1>2, <1>4, <2>1, <2>3
<1>7. 0 .. n \subseteq N
  BY <1>2, <1>5, <1>6, Climb
<1>. QED
  BY <1>1, <1>2, <1>4, <1>7

\* Every layer of a wrapped value is a JSON value when the outermost is.
LEMMA WrappedJSON ==
  ASSUME NEW S, NEW path \in Seq(S), NEW want, NEW W, W = Wrapped(path, want),
         NEW n \in Nat, n = Len(path), W[n] \in JSON
  PROVE  W[0] = want /\ want \in JSON /\ \A i \in 0 .. n : W[n - i] \in JSON
<1>1. W[0] = want /\ \A i \in 1 .. n : W[i] = Named(path[n + 1 - i], W[i - 1])
  BY WrappedDef
<1>2. PICK N : N = {i \in 0 .. n : W[n - i] \in JSON}
  OBVIOUS
<1>3. 0 \in N
  BY <1>2
<1>4. ASSUME NEW i \in 0 .. n - 1, i \in N PROVE i + 1 \in N
  <2>1. W[n - i] \in JSON /\ n - i \in 1 .. n /\ (n - i) - 1 = n - (i + 1)
    BY <1>2, <1>4
  <2>2. W[n - (i + 1)] \in JSON
    BY <1>1, <2>1, NameParts, DecodedFacts
  <2>. QED
    BY <1>2, <2>2
<1>5. 0 .. n \subseteq N
  BY <1>3, <1>4, Climb
<1>6. n \in 0 .. n /\ n - n = 0
  OBVIOUS
<1>. QED
  BY <1>1, <1>2, <1>5, <1>6

\* A document contains a value wrapped in a path when the path leads to a
\* value that is written like it: the same as looking it up.
LEMMA PathContains ==
  ASSUME NEW path \in Seq(STRING), NEW want, want.t \in {"num", "bool", "str"},
         NEW W, W = Wrapped(path, want), NEW n \in Nat, n = Len(path), W[n] \in JSON,
         NEW m \in Decoded, NEW A, A = Walk(m, path)
  PROVE  JsonbContains[W[n]][m] <=> Marshaled(A[n]) = want
<1>1. W[0] = want /\ \A i \in 1 .. n : W[i] = Named(path[n + 1 - i], W[i - 1])
  BY WrappedDef
<1>2. A[0] = m /\ \A i \in 1 .. n :
        A[i] = IF A[i - 1].t = "obj" /\ path[i] \in DOMAIN A[i - 1].f THEN A[i - 1].f[path[i]] ELSE Absent
  BY WalkDef
<1>3. \A i \in 0 .. n : A[i] \in JSON
  BY WalkDecoded, DecodedFacts
<1>4. ASSUME NEW i \in 0 .. n - 1
      PROVE  /\ W[n - i] = Named(path[i + 1], W[n - (i + 1)])
             /\ A[i + 1] = IF A[i].t = "obj" /\ path[i + 1] \in DOMAIN A[i].f
                           THEN A[i].f[path[i + 1]] ELSE Absent
  <2>1. n - i \in 1 .. n /\ n + 1 - (n - i) = i + 1 /\ (n - i) - 1 = n - (i + 1)
    OBVIOUS
  <2>2. i + 1 \in 1 .. n /\ (i + 1) - 1 = i
    OBVIOUS
  <2>. QED
    BY <1>1, <1>2, <2>1, <2>2
<1>5. \A i \in 0 .. n : W[n - i] \in JSON
  BY WrappedJSON
<1>6. ASSUME NEW i \in 0 .. n PROVE ~JsonbContains[W[n - i]][Absent]
  <2>1. Absent \in JSON /\ Absent.t = "absent" /\ W[n - i] \in JSON
    BY <1>5, DecodedFacts DEF Absent
  <2>2. CASE i = n
    <3>1. W[n - i] = want /\ want.t # "obj" /\ want.t # "arr" /\ want # Absent
      BY <1>1, <2>1, <2>2
    <3>. QED
      BY <2>1, <3>1, ContainsScalar, MarshaledSame
  <2>3. CASE i \in 0 .. n - 1
    BY <1>4, <2>1, <2>3, ContainsName
  <2>. QED
    BY <2>2, <2>3
<1>7. PICK N : N = {i \in 0 .. n : JsonbContains[W[n]][m] <=> JsonbContains[W[n - i]][A[i]]}
  OBVIOUS
<1>8. 0 \in N
  BY <1>2, <1>7
<1>9. ASSUME NEW i \in 0 .. n - 1, i \in N PROVE i + 1 \in N
  <2>1. i \in 0 .. n /\ i + 1 \in 0 .. n
    OBVIOUS
  <2>2. JsonbContains[W[n]][m] <=> JsonbContains[W[n - i]][A[i]]
    BY <1>7, <1>9
  <2>3. JsonbContains[W[n - i]][A[i]] <=> A[i].t = "obj" /\ path[i + 1] \in DOMAIN A[i].f
                                       /\ JsonbContains[W[n - (i + 1)]][A[i].f[path[i + 1]]]
    BY <1>3, <1>4, <1>5, <2>1, ContainsName
  <2>4. JsonbContains[W[n - i]][A[i]] <=> JsonbContains[W[n - (i + 1)]][A[i + 1]]
    BY <1>4, <1>6, <2>1, <2>3
  <2>. QED
    BY <1>7, <2>1, <2>2, <2>4
<1>10. n \in N
  <2>1. 0 .. n \subseteq N
    BY <1>8, <1>9, Climb
  <2>. QED
    BY <2>1
<1>11. JsonbContains[W[n]][m] <=> JsonbContains[want][A[n]]
  BY <1>1, <1>7, <1>10
<1>12. want \in JSON
  BY <1>1, <1>5
<1>. QED
  BY <1>3, <1>11, <1>12, ContainsScalar

-----------------------------------------------------------------------------
(* The filters of a query.                                                 *)

LEMMA ObjFacts ==
  ASSUME NEW m PROVE Obj(m).t = "obj" /\ Obj(m).f = m /\ Obj(m) # Absent
  BY DEF Obj, Absent

\* The documents stored are decoded ones.
LEMMA StoredDocs ==
  ASSUME NEW r \in Rows
  PROVE  /\ Obj(Stored[r].request_params) = SanitizeValue[Obj(Call[r].request_params)]
         /\ Obj(Stored[r].request_params) \in Decoded
         /\ Obj(Stored[r].response_result) \in Decoded
         /\ marshalJSONB(Stored[r], "request_headers") \in JSON
<1>1. PICK m : m = Call[r].request_params
  OBVIOUS
<1>2. Obj(m) \in JSON /\ SanitizeValue[Obj(m)] \in Decoded
  BY <1>1, CallAssumption, DecodedFacts
<1>3. PICK c : SanitizeValue[Obj(m)] = Obj(c)
  <2>1. SanitizeValue[Obj(m)] = SanitizedBy(SanitizeValue, Obj(m))
    BY <1>2, SanitizeValueDef
  <2>2. Obj(m).t = "obj"
    BY ObjFacts
  <2>. QED
    BY <2>1, <2>2 DEF SanitizedBy
<1>4. SanitizeParameters(m) = c
  BY <1>3, ObjFacts DEF SanitizeParameters
<1>5. /\ "response_result" \in Columns /\ "response_result" # "request_params"
      /\ "request_headers" \in Columns /\ "request_headers" # "request_params"
  BY DEF Columns, HasKeys
<1>6. /\ Stored[r].response_result = Call[r].response_result
      /\ Stored[r]["request_headers"] = Call[r]["request_headers"]
  BY <1>5, StoredFacts
<1>7. Obj(Stored[r].response_result) \in Decoded
  BY <1>6, CallAssumption
<1>8. marshalJSONB(Stored[r], "request_headers") \in JSON
  <2>1. marshalJSONB(Call[r], "request_headers") \in JSON
    BY CallAssumption
  <2>2. marshalJSONB(Stored[r], "request_headers") = marshalJSONB(Call[r], "request_headers")
    BY <1>6 DEF marshalJSONB
  <2>. QED
    BY <2>1, <2>2
<1>. QED
  BY <1>1, <1>2, <1>3, <1>4, <1>7, <1>8, StoredFacts

\* A wanted value is a scalar, and MemoryLogger's comparison is equality.
LEMMA ParsedFacts ==
  ASSUME NEW x, ParseJSONFilterValue(x) # NotNum
  PROVE  ParseJSONFilterValue(x).t \in {"num", "bool", "str"}
  BY DEF ParseJSONFilterValue, Str, Bool, Num

LEMMA JsonEqualIs ==
  ASSUME NEW a \in Decoded, NEW want \in JSON, want.t \in {"num", "bool", "str"},
         want.t = "num" => Exact(want.n)
  PROVE  jsonEqual(a, want) <=> Marshaled(a) = want
<1>1. /\ a.t = "num" => a = Num(a.n) /\ Float64(a.n) = a.n
      /\ want.t = "num" => want = Num(want.n)
  BY JSONAssumption DEF WellFormed
<1>2. CASE a.t = "num" /\ want.t = "num"
  <2>1. Float64(want.n) = want.n
    BY <1>2 DEF Float64
  <2>2. jsonEqual(a, want) <=> a.n = want.n
    BY <1>1, <1>2, <2>1 DEF jsonEqual
  <2>3. CASE Exact(a.n)
    BY <1>1, <1>2, <2>2, <2>3 DEF Marshaled
  <2>4. CASE ~Exact(a.n)
    <3>1. Float64(Shortest[a.n]) = a.n
      BY <1>2, <2>4, JSONAssumption
    <3>2. Marshaled(a) = Num(Shortest[a.n])
      BY <1>2, <2>4 DEF Marshaled
    <3>3. Marshaled(a) = want => Shortest[a.n] = want.n
      BY <1>1, <1>2, <3>2 DEF Num
    <3>. QED
      BY <1>2, <2>1, <2>2, <2>4, <3>1, <3>3
  <2>. QED
    BY <2>3, <2>4
<1>3. CASE a.t = "num" /\ want.t # "num"
  <2>1. Marshaled(a).t = "num"
    BY <1>3 DEF Marshaled, Num
  <2>. QED
    BY <1>3, <2>1 DEF jsonEqual
<1>4. CASE a.t # "num"
  BY <1>4, MarshaledSame DEF jsonEqual
<1>. QED
  BY <1>2, <1>3, <1>4

\* Nothing is contained in a column that is NULL or in an empty object.
LEMMA EmptyContains ==
  ASSUME NEW path \in Seq(STRING), NEW want, want.t \in {"num", "bool", "str"},
         NEW W, W = Wrapped(path, want), NEW n \in Nat, n = Len(path), W[n] \in JSON,
         NEW d \in JSON, d = Absent \/ (d.t = "obj" /\ DOMAIN d.f = {})
  PROVE  ~JsonbContains[W[n]][d]
<1>1. W[0] = want /\ \A i \in 1 .. n : W[i] = Named(path[n + 1 - i], W[i - 1])
  BY WrappedDef
<1>2. d.t \in {"obj", "absent"}
  BY DEF Absent
<1>3. CASE n = 0
  <2>1. W[n].t # "obj" /\ W[n].t # "arr" /\ W[n] # d
    BY <1>1, <1>2, <1>3
  <2>. QED
    BY <1>2, <2>1, ContainsScalar, MarshaledSame
<1>4. CASE n \in 1 .. n
  <2>1. PICK k, w : W[n] = Named(k, w)
    BY <1>1, <1>4
  <2>2. ~(d.t = "obj" /\ k \in DOMAIN d.f)
    BY DEF Absent
  <2>. QED
    BY <2>1, <2>2, ContainsName
<1>. QED
  BY <1>3, <1>4

\* jsonb containment and MatchJSONPath agree on a document.
LEMMA DocAgree ==
  ASSUME NEW path \in Seq(STRING), NEW want, want.t \in {"num", "bool", "str"},
         want.t = "num" => Exact(want.n),
         JSONFilterToContainment(path, want) \in JSON, NEW m, Obj(m) \in Decoded,
         NEW d, d = IF DOMAIN m = {} THEN Absent ELSE Obj(m)
  PROVE  JsonbContains[JSONFilterToContainment(path, want)][d] <=> MatchJSONPath(Obj(m), path, want)
<1>1. PICK W, n, A : /\ W = Wrapped(path, want) /\ n = Len(path) /\ n \in Nat
                     /\ A = Walk(Obj(m), path)
  <2>1. Len(path) \in Nat
    OBVIOUS
  <2>. QED
    BY <2>1, Zenon
<1>2. W[n] \in JSON /\ W[n] = JSONFilterToContainment(path, want)
  BY <1>1 DEF JSONFilterToContainment
<1>3. JsonbContains[W[n]][Obj(m)] <=> Marshaled(A[n]) = want
  BY <1>1, <1>2, PathContains
<1>4. want \in JSON /\ A[n] \in Decoded
  <2>1. A[n] \in Decoded
    BY <1>1, WalkDecoded
  <2>. QED
    BY <1>1, <1>2, <2>1, WrappedJSON
<1>5. jsonEqual(A[n], want) <=> Marshaled(A[n]) = want
  BY <1>4, JsonEqualIs
<1>6. JsonbContains[W[n]][d] <=> JsonbContains[W[n]][Obj(m)]
  <2>1. CASE DOMAIN m = {}
    <3>1. Absent \in JSON /\ Obj(m) \in JSON /\ Obj(m).t = "obj" /\ DOMAIN Obj(m).f = {} /\ d = Absent
      BY <2>1, DecodedFacts, ObjFacts
    <3>2. ~JsonbContains[W[n]][Absent]
      BY <1>1, <1>2, <3>1, EmptyContains
    <3>3. ~JsonbContains[W[n]][Obj(m)]
      BY <1>1, <1>2, <3>1, EmptyContains
    <3>. QED
      BY <3>1, <3>2, <3>3
  <2>2. CASE DOMAIN m # {}
    BY <2>2
  <2>. QED
    BY <2>1, <2>2
<1>. QED
  BY <1>1, <1>2, <1>3, <1>5, <1>6 DEF MatchJSONPath

OneValue(v) == Arr(<<Str(v)>>)

\* A header's list of values, and the value asked for.
LEMMA HeaderAgree ==
  ASSUME NEW S, NEW path \in Seq(S), Len(path) = 1, NEW v,
         JSONFilterToContainment(path, OneValue(v)) \in JSON,
         NEW ev, marshalJSONB(ev, "request_headers") \in JSON
  PROVE  JsonbContains[JSONFilterToContainment(path, OneValue(v))][marshalJSONB(ev, "request_headers")]
           <=> path[1] \in DOMAIN ev.request_headers
               /\ \E i \in DOMAIN ev.request_headers[path[1]] : ev.request_headers[path[1]][i] = v
<1>8. PICK hdr, d, h : hdr = ev.request_headers /\ d = marshalJSONB(ev, "request_headers") /\ h = path[1]
  OBVIOUS
<1>1. PICK a, p : a = OneValue(v) /\ p = JSONFilterToContainment(path, OneValue(v)) /\ p \in JSON
  OBVIOUS
<1>9. SUFFICES JsonbContains[p][d] <=> h \in DOMAIN hdr /\ \E i \in DOMAIN hdr[h] : hdr[h][i] = v
  BY <1>1, <1>8
<1>10. d \in JSON
  BY <1>8
<1>2. p = Named(h, a) /\ a \in JSON
  <2>1. PICK W : W = Wrapped(path, a)
    OBVIOUS
  <2>2. W[1] = p
    BY <1>1, <2>1 DEF JSONFilterToContainment
  <2>3. W[0] = a /\ \A i \in 1 .. 1 : W[i] = Named(path[1 + 1 - i], W[i - 1])
    <3>1. 1 \in Nat /\ 1 = Len(path)
      OBVIOUS
    <3>2. /\ Wrapped(path, a)[0] = a
          /\ \A i \in 1 .. 1 : Wrapped(path, a)[i] = Named(path[1 + 1 - i], Wrapped(path, a)[i - 1])
      BY ONLY <3>1, path \in Seq(S), WrappedAt
    <3>. QED
      BY <2>1, <3>2
  <2>4. W[1] = Named(path[1 + 1 - 1], W[1 - 1])
    BY <2>3
  <2>5. p = Named(h, a)
    BY <1>8, <2>2, <2>3, <2>4
  <2>. QED
    BY <1>1, <2>5, NameParts, DecodedFacts
<1>3. JsonbContains[p][d] <=> d.t = "obj" /\ h \in DOMAIN d.f /\ JsonbContains[a][d.f[h]]
  BY <1>1, <1>2, <1>10, ContainsName
<1> DEFINE F == [k \in DOMAIN hdr |-> Arr([i \in DOMAIN hdr[k] |-> Str(hdr[k][i])])]
<1>7. d = IF DOMAIN hdr = {} THEN Absent ELSE Obj(F)
  BY <1>8 DEF marshalJSONB
<1>4. CASE DOMAIN hdr = {}
  <2>1. d.t # "obj"
    BY <1>4, <1>7 DEF Absent
  <2>. QED
    BY <1>1, <1>3, <1>4, <2>1
<1>5. CASE DOMAIN hdr # {} /\ h \notin DOMAIN hdr
  <2>1. d = Obj(F) /\ DOMAIN F = DOMAIN hdr
    BY <1>5, <1>7
  <2> HIDE DEF F
  <2>. QED
    BY <1>1, <1>3, <1>5, <2>1, ObjFacts
<1>6. CASE h \in DOMAIN hdr
  <2>1. d = Obj(F) /\ DOMAIN F = DOMAIN hdr
    BY <1>6, <1>7
  <2>2. PICK s : s = [i \in DOMAIN hdr[h] |-> Str(hdr[h][i])] /\ F[h] = Arr(s)
    BY <1>6
  <2> HIDE DEF F
  <2>3. d.t = "obj" /\ h \in DOMAIN d.f /\ d.f[h] = Arr(s)
    BY <1>6, <2>1, <2>2, ObjFacts
  <2>4. Arr(s) \in JSON
    BY <1>10, <2>3, NameParts, DecodedFacts
  <2>5. a.t = "arr" /\ DOMAIN a.s = {1} /\ a.s[1] = Str(v) /\ Arr(s).t = "arr" /\ Arr(s).s = s
    BY <1>1 DEF Arr, OneValue
  <2>6. Str(v) \in JSON /\ \A i \in DOMAIN s : s[i] \in JSON
    BY <1>2, <2>4, <2>5, DecodedFacts DEF Parts
  <2>7. JsonbContains[a][Arr(s)] <=> \E j \in DOMAIN s : JsonbContains[Str(v)][s[j]]
    <3>1. PICK x : x = Arr(s) /\ x \in JSON /\ x.t = "arr" /\ x.s = s
      BY <2>4, <2>5
    <3>2. JsonbContains[a][x] <=> ContainsBy(JsonbContains, a, x)
      BY <1>2, <3>1, ContainsEquation
    <3>3. ContainsBy(JsonbContains, a, x) <=>
            \A i \in DOMAIN a.s : \E j \in DOMAIN x.s : JsonbContains[a.s[i]][x.s[j]]
      BY <2>5, <3>1 DEF ContainsBy
    <3>. QED
      BY <2>5, <3>1, <3>2, <3>3
  <2>8. Str(v).t = "str" /\ \A x, y : Str(x) = Str(y) <=> x = y
    BY DEF Str
  <2>9. \A i \in DOMAIN s : JsonbContains[Str(v)][s[i]] <=> s[i] = Str(v)
    <3>1. \A x : Marshaled(x) = Str(v) <=> x = Str(v)
      BY <2>8 DEF Marshaled, Num
    <3>. QED
      BY <2>6, <2>8, <3>1, ContainsScalar
  <2>. QED
    BY <1>1, <1>3, <1>6, <2>2, <2>3, <2>7, <2>8, <2>9
<1>. QED
  BY <1>4, <1>5, <1>6

\* A payload column is NULL when it is empty.
LEMMA HasAgree ==
  ASSUME NEW ev, NEW k PROVE marshalJSONB(ev, k) # Absent <=> DOMAIN ev[k] # {}
<1>1. \A x : Obj(x) # Absent /\ Arr(x) # Absent
  BY DEF Absent, Arr, Obj
<1>2. CASE DOMAIN ev[k] = {}
  BY <1>2 DEF marshalJSONB
<1>3. CASE DOMAIN ev[k] # {} /\ k = "notifications"
  BY <1>1, <1>3 DEF marshalJSONB
<1>4. CASE DOMAIN ev[k] # {} /\ k = "request_headers"
  <2>1. \E x : marshalJSONB(ev, k) = Obj(x)
    BY <1>4, Zenon DEF marshalJSONB
  <2>. QED
    BY <1>1, <1>4, <2>1
<1>5. CASE DOMAIN ev[k] # {} /\ k \notin {"notifications", "request_headers"}
  BY <1>1, <1>5 DEF marshalJSONB
<1>. QED
  BY <1>2, <1>3, <1>4, <1>5

\* Containment in a payload column and MemoryLogger's lookup agree.
LEMMA JSONFilterAgree ==
  ASSUME ReadInv, request.kind = "events", ExactNumbers(Asked), NEW jf \in Asked.json, Encodable(jf),
         NEW r \in Rows
  PROVE  JsonbContains[FilterDoc(jf)][marshalJSONB(Stored[r], jsonFilterColumn(jf.source))]
           <=> matchesJSONFilter(Stored[r], jf)
<1>1. PICK ev : ev = Stored[r]
  OBVIOUS
<1>2. /\ jf.source \in {"param", "response", "header"} /\ FilterDoc(jf) \in JSON
      /\ jf.source = "header" => Len(jf.path) = 1 /\ \E S : jf.path \in Seq(S)
      /\ jf.source # "header" => jf.path \in Seq(STRING)
  BY AskedJSON
<1>3. CASE jf.source = "header"
  <2>1. PICK S : jf.path \in Seq(S) /\ Len(jf.path) = 1
    BY <1>2, <1>3
  <2>2. PICK path, v : path = jf.path /\ v = jf.value
    OBVIOUS
  <2>3. FilterDoc(jf) = JSONFilterToContainment(path, OneValue(v))
    BY <1>3, <2>2 DEF FilterDoc, OneValue
  <2>4. /\ marshalJSONB(ev, "request_headers") \in JSON /\ path \in Seq(S) /\ Len(path) = 1
        /\ JSONFilterToContainment(path, OneValue(v)) \in JSON
    BY <1>1, <1>2, <2>1, <2>2, <2>3, StoredDocs
  <2>5. JsonbContains[JSONFilterToContainment(path, OneValue(v))][marshalJSONB(ev, "request_headers")]
           <=> path[1] \in DOMAIN ev.request_headers
               /\ \E i \in DOMAIN ev.request_headers[path[1]] : ev.request_headers[path[1]][i] = v
    BY ONLY <2>4, HeaderAgree
  <2>6. jsonFilterColumn(jf.source) = "request_headers"
    BY <1>3 DEF jsonFilterColumn
  <2>7. matchesJSONFilter(ev, jf) <=>
          path[1] \in DOMAIN ev.request_headers
          /\ \E i \in DOMAIN ev.request_headers[path[1]] : ev.request_headers[path[1]][i] = v
    BY <1>3, <2>2 DEF matchesJSONFilter
  <2>. QED
    BY <1>1, <2>3, <2>5, <2>6, <2>7
<1>4. CASE jf.source # "header"
  <2>1. PICK want : want = ParseJSONFilterValue(jf.value)
    OBVIOUS
  <2>2. want # NotNum
    BY <1>4, <2>1 DEF Encodable
  <2>3. want.t \in {"num", "bool", "str"} /\ (want.t = "num" => Exact(want.n))
    BY <2>1, <2>2, ParsedFacts DEF ExactNumbers
  <2>4. FilterDoc(jf) = JSONFilterToContainment(jf.path, want)
    <3>1. MarshaledValue(jf.value) = want
      BY <2>1, <2>3 DEF MarshaledValue, Marshaled
    <3>. QED
      BY <1>4, <3>1 DEF FilterDoc
  <2>5. PICK m : /\ Obj(m) \in Decoded
                 /\ marshalJSONB(ev, jsonFilterColumn(jf.source)) = IF DOMAIN m = {} THEN Absent ELSE Obj(m)
                 /\ matchesJSONFilter(ev, jf) <=> MatchJSONPath(Obj(m), jf.path, want)
    <3>1. CASE jf.source = "param"
      <4>1. jsonFilterColumn(jf.source) = "request_params"
        BY <3>1 DEF jsonFilterColumn
      <4>2. marshalJSONB(ev, "request_params") =
              IF DOMAIN ev.request_params = {} THEN Absent ELSE Obj(ev.request_params)
        BY DEF marshalJSONB
      <4>3. matchesJSONFilter(ev, jf) <=> MatchJSONPath(Obj(ev.request_params), jf.path, want)
        BY <2>1, <3>1 DEF matchesJSONFilter
      <4>4. Obj(ev.request_params) \in Decoded
        BY <1>1, StoredDocs
      <4>. QED
        BY <4>1, <4>2, <4>3, <4>4
    <3>2. CASE jf.source = "response"
      <4>1. jsonFilterColumn(jf.source) = "response_result"
        BY <3>2 DEF jsonFilterColumn
      <4>2. marshalJSONB(ev, "response_result") =
              IF DOMAIN ev.response_result = {} THEN Absent ELSE Obj(ev.response_result)
        BY DEF marshalJSONB
      <4>3. matchesJSONFilter(ev, jf) <=> MatchJSONPath(Obj(ev.response_result), jf.path, want)
        BY <2>1, <3>2 DEF matchesJSONFilter
      <4>4. Obj(ev.response_result) \in Decoded
        BY <1>1, StoredDocs
      <4>. QED
        BY <4>1, <4>2, <4>3, <4>4
    <3>. QED
      BY <1>2, <1>4, <3>1, <3>2
  <2>6. jf.path \in Seq(STRING) /\ JSONFilterToContainment(jf.path, want) \in JSON
    BY <1>2, <1>4, <2>4
  <2>7. PICK d : d = IF DOMAIN m = {} THEN Absent ELSE Obj(m)
    OBVIOUS
  <2>8. JsonbContains[JSONFilterToContainment(jf.path, want)][d] <=> MatchJSONPath(Obj(m), jf.path, want)
    BY <2>3, <2>5, <2>6, <2>7, DocAgree
  <2>. QED
    BY <1>1, <2>4, <2>5, <2>7, <2>8
<1>. QED
  BY <1>3, <1>4

\* The WHERE clause and matchesFilter, part by part.
LEMMA SelectsAgree ==
  ASSUME NEW g, NEW f, NEW ev, g.search = <<>>,
         f.from = g.from, f.to = g.to, f.tool = g.tool, f.user = g.user, f.session = g.session,
         f.id = g.id, f.success = g.success, f.has = g.has,
         f.json = {jf \in g.json : Encodable(jf)},
         \A jf \in f.json : JsonbContains[FilterDoc(jf)][marshalJSONB(ev, jsonFilterColumn(jf.source))]
                              <=> matchesJSONFilter(ev, jf)
  PROVE  Selects(g, ev) <=> matchesFilter(ev, f)
<1>1. (\A jf \in g.json : Encodable(jf) =>
         /\ ev.captured
         /\ JsonbContains[FilterDoc(jf)][marshalJSONB(ev, jsonFilterColumn(jf.source))])
      <=> (f.json # {} => ev.captured /\ \A jf \in f.json : matchesJSONFilter(ev, jf))
  BY Zenon
<1>2. (\A k \in g.has : ev.captured /\ marshalJSONB(ev, k) # Absent) <=> matchesHasKeys(ev, f.has)
  BY HasAgree DEF matchesHasKeys
<1>. QED
  BY <1>1, <1>2, Zenon DEF Selects, matchesFilter

LEMMA BackendsInv == PortalInv => BackendsAgree
<1> SUFFICES ASSUME PortalInv, Answered("events"), quiet, Asked.search = <<>>, ExactNumbers(Asked)
             PROVE  LET f == [EventsFilter EXCEPT !.json = {jf \in @ : Encodable(jf)}]
                    IN  /\ Ids(ans.rows) = IdsOf(Slice(matchAll(Events, f), f))
                        /\ f.offset = 0 => Ids(ans.rows) = IdsOf(MemQuery(Events, f))
                        /\ ~ans.partial => ans.total = MemCount(Events, f)
  BY DEF BackendsAgree
<1>1. TypeOK /\ ReadInv /\ request.kind = "events"
  BY DEF PortalInv, Answered
<1>2. ans.rows = PgQuery(EventsFilter) /\ (~ans.partial => ans.total = PgCount(EventsFilter))
  BY DEF PortalInv, QuietReadInv
<1>3. PICK g : g = EventsFilter
  OBVIOUS
<1>4. PICK f : f = [g EXCEPT !.json = {jf \in g.json : Encodable(jf)}]
  OBVIOUS
<1>5. /\ DOMAIN g = DOMAIN NoFilter /\ g.search = <<>> /\ g.json = Asked.json
      /\ g.offset \in Nat /\ g.limit \in Int
  <2>1. DOMAIN g = DOMAIN NoFilter /\ g.search = Asked.search /\ g.json = Asked.json
    BY <1>3 DEF EventsFilter, Asked, parseQueryFilter, NoFilter
  <2>. QED
    BY <1>1, <1>3, <2>1, EventsFilterFacts
<1>6. DOMAIN NoFilter = {"from", "to", "tool", "user", "session", "id", "success", "search", "limit",
                         "offset", "json", "has"}
  BY DEF NoFilter
<1>7. /\ f.from = g.from /\ f.to = g.to /\ f.tool = g.tool /\ f.user = g.user /\ f.session = g.session
      /\ f.id = g.id /\ f.success = g.success /\ f.has = g.has
      /\ f.offset = g.offset /\ f.limit = g.limit
      /\ f.json = {jf \in g.json : Encodable(jf)}
  BY <1>4, <1>5, <1>6
<1>8. \A r \in table : Selects(g, Stored[r]) <=> matchesFilter(Stored[r], f)
  <2>1. SUFFICES ASSUME NEW r \in table PROVE Selects(g, Stored[r]) <=> matchesFilter(Stored[r], f)
    OBVIOUS
  <2>2. r \in Rows
    BY <1>1 DEF TypeOK
  <2>3. \A jf \in f.json :
          JsonbContains[FilterDoc(jf)][marshalJSONB(Stored[r], jsonFilterColumn(jf.source))]
            <=> matchesJSONFilter(Stored[r], jf)
    BY <1>1, <1>5, <1>7, <2>2, JSONFilterAgree
  <2>. QED
    BY <1>5, <1>7, <2>3, SelectsAgree
<1>9. /\ Ids(PgQuery(g)) = IdsOf(Slice(matchAll(Events, f), f))
      /\ f.offset = 0 => Ids(PgQuery(g)) = IdsOf(MemQuery(Events, f))
      /\ PgCount(g) = MemCount(Events, f)
  <2>1. f.offset \in Nat /\ f.limit \in Int /\ g.offset = f.offset /\ g.limit = f.limit
    BY <1>5, <1>7
  <2>. QED
    BY ONLY <1>1, <1>8, <2>1, QueryAgree, Zenon
<1>. QED
  BY <1>2, <1>3, <1>4, <1>9

\* While no row comes or goes, /audit/events answers what MemoryLogger would
\* (jsonfilter.go and memory.go), through jsonb containment (store.go): for
\* every filter, with every number a float64 and no text search.
THEOREM BackendsAnswerAlike == PortalSpec => []BackendsAgree
  BY BackendsInv, SpecPortalInv, PTL

-----------------------------------------------------------------------------
(* Redaction.                                                              *)

\* What sanitizing leaves of a value.
LEMMA SanitizeFacts ==
  ASSUME NEW v \in JSON
  PROVE  /\ SanitizeValue[v].t = v.t
         /\ v.t # "obj" /\ v.t # "arr" => SanitizeValue[v] = v
         /\ v.t = "obj" =>
              /\ DOMAIN SanitizeValue[v].f = DOMAIN v.f
              /\ \A k \in DOMAIN v.f :
                   SanitizeValue[v].f[k] = IF k \in RedactedKeys THEN Redacted ELSE SanitizeValue[v.f[k]]
<1>1. SanitizeValue[v] = SanitizedBy(SanitizeValue, v)
  BY SanitizeValueDef
<1>2. CASE v.t = "obj"
  <2> DEFINE F == [k \in DOMAIN v.f |-> IF k \in RedactedKeys THEN Redacted ELSE SanitizeValue[v.f[k]]]
  <2>1. SanitizeValue[v] = Obj(F)
    BY <1>1, <1>2 DEF SanitizedBy
  <2>2. /\ DOMAIN F = DOMAIN v.f
        /\ \A k \in DOMAIN v.f : F[k] = IF k \in RedactedKeys THEN Redacted ELSE SanitizeValue[v.f[k]]
    OBVIOUS
  <2> HIDE DEF F
  <2>. QED
    BY <1>2, <2>1, <2>2, ObjFacts
<1>3. CASE v.t = "arr"
  <2>1. \E s : SanitizeValue[v] = Arr(s)
    BY <1>1, <1>3 DEF SanitizedBy
  <2>. QED
    BY <1>3, <2>1 DEF Arr
<1>4. CASE v.t # "obj" /\ v.t # "arr"
  BY <1>1, <1>4 DEF SanitizedBy
<1>. QED
  BY <1>2, <1>3, <1>4

LEMMA AbsentFacts ==
  /\ Absent \in JSON /\ Absent.t = "absent" /\ SanitizeValue[Absent] = Absent
  /\ \A v \in JSON : Absent \notin Parts(v)
  /\ Redacted.t = "str" /\ Redacted # Absent
<1>1. Absent \in JSON /\ Absent.t = "absent" /\ Redacted.t = "str" /\ Redacted # Absent
  BY DecodedFacts DEF Absent, Redacted, Str
<1>2. \A v \in JSON : Absent \notin Parts(v)
  BY JSONAssumption
<1>3. SanitizeValue[Absent] = Absent
  BY <1>1, SanitizeFacts
<1>. QED
  BY <1>1, <1>2, <1>3

\* The member a step of a walk takes.
Member(v, k) == IF v.t = "obj" /\ k \in DOMAIN v.f THEN v.f[k] ELSE Absent

LEMMA WalkSteps ==
  ASSUME NEW m, NEW S, NEW path \in Seq(S), NEW n \in Nat, n = Len(path), NEW A, A = Walk(m, path)
  PROVE  A[0] = m /\ \A i \in 0 .. n - 1 : A[i + 1] = Member(A[i], path[i + 1])
<1>1. A[0] = m /\ \A i \in 1 .. n :
        A[i] = IF A[i - 1].t = "obj" /\ path[i] \in DOMAIN A[i - 1].f THEN A[i - 1].f[path[i]] ELSE Absent
  BY WalkDef
<1>2. \A i \in 0 .. n - 1 : i + 1 \in 1 .. n /\ (i + 1) - 1 = i
  OBVIOUS
<1>. QED
  BY <1>1, <1>2 DEF Member

LEMMA MemberFacts ==
  ASSUME NEW v \in JSON, NEW k
  PROVE  /\ Member(v, k) \in JSON
         /\ k \notin RedactedKeys => Member(SanitizeValue[v], k) = SanitizeValue[Member(v, k)]
         /\ k \in RedactedKeys => Member(SanitizeValue[v], k) = IF Member(v, k) = Absent THEN Absent ELSE Redacted
         /\ v.t # "obj" => Member(v, k) = Absent
<1>1. CASE v.t = "obj" /\ k \in DOMAIN v.f
  <2>1. Member(v, k) = v.f[k] /\ v.f[k] \in Parts(v) /\ v.f[k] \in JSON
    BY <1>1, NameParts, DecodedFacts DEF Member
  <2>2. Member(v, k) # Absent
    BY <2>1, AbsentFacts
  <2>3. Member(SanitizeValue[v], k) = IF k \in RedactedKeys THEN Redacted ELSE SanitizeValue[v.f[k]]
    BY <1>1, SanitizeFacts DEF Member
  <2>. QED
    BY <1>1, <2>1, <2>2, <2>3
<1>2. CASE ~(v.t = "obj" /\ k \in DOMAIN v.f)
  <2>1. Member(v, k) = Absent /\ Member(SanitizeValue[v], k) = Absent
    BY <1>2, SanitizeFacts DEF Member
  <2>. QED
    BY <2>1, AbsentFacts
<1>. QED
  BY <1>1, <1>2

\* Comparing with a scalar does not see what sanitizing does inside a value.
LEMMA SanitizedEqual ==
  ASSUME NEW a \in JSON, NEW want
  PROVE  jsonEqual(SanitizeValue[a], want) <=> jsonEqual(a, want)
<1>1. CASE a.t = "obj" \/ a.t = "arr"
  <2>1. SanitizeValue[a].t = a.t
    BY SanitizeFacts
  <2>. QED
    BY <1>1, <2>1 DEF jsonEqual
<1>2. CASE a.t # "obj" /\ a.t # "arr"
  BY <1>2, SanitizeFacts
<1>. QED
  BY <1>1, <1>2

LEMMA RedactedAtFacts ==
  ASSUME NEW S, NEW path \in Seq(S), NEW n \in Nat, n = Len(path), NEW at, at = RedactedAt(path)
  PROVE  /\ at \in 0 .. n
         /\ at = 0 => \A i \in 1 .. n : path[i] \notin RedactedKeys
         /\ at # 0 => path[at] \in RedactedKeys /\ \A i \in 1 .. at - 1 : path[i] \notin RedactedKeys
<1>1. PICK R : R = {i \in DOMAIN path : path[i] \in RedactedKeys}
  OBVIOUS
<1>2. R \in SUBSET Nat /\ R \subseteq 1 .. n /\ 1 .. n = DOMAIN path
  BY <1>1
<1>3. at = IF R = {} THEN 0 ELSE CHOOSE i \in R : \A j \in R : i <= j
  BY <1>1 DEF RedactedAt
<1>4. CASE R = {}
  BY <1>1, <1>2, <1>3, <1>4
<1>5. CASE R # {}
  <2>1. \E i \in R : \A j \in R : i <= j
    BY <1>2, <1>5, LeastNat
  <2>2. at \in R /\ \A j \in R : at <= j
    BY <1>3, <1>5, <2>1
  <2>3. at \in 1 .. n /\ path[at] \in RedactedKeys
    BY <1>1, <1>2, <2>2
  <2>4. ASSUME NEW i \in 1 .. at - 1 PROVE path[i] \notin RedactedKeys
    <3>1. i \in 1 .. n /\ i < at
      BY <2>3
    <3>2. i \notin R
      BY <2>2, <2>3, <3>1
    <3>. QED
      BY <1>1, <1>2, <3>1, <3>2
  <2>. QED
    BY <2>3, <2>4
<1>. QED
  BY <1>4, <1>5

\* Up to the first redacted name, the sanitized document is walked like the
\* document itself.
LEMMA WalkSanitized ==
  ASSUME NEW m \in JSON, NEW S, NEW path \in Seq(S), NEW n \in Nat, n = Len(path),
         NEW A, A = Walk(m, path), NEW B, B = Walk(SanitizeValue[m], path),
         NEW c \in Nat, c <= n, \A i \in 1 .. c : path[i] \notin RedactedKeys
  PROVE  \A i \in 0 .. c : A[i] \in JSON /\ B[i] = SanitizeValue[A[i]]
<1>1. /\ A[0] = m /\ \A i \in 0 .. n - 1 : A[i + 1] = Member(A[i], path[i + 1])
      /\ B[0] = SanitizeValue[m] /\ \A i \in 0 .. n - 1 : B[i + 1] = Member(B[i], path[i + 1])
  BY WalkSteps
<1>2. PICK N : N = {i \in 0 .. c : A[i] \in JSON /\ B[i] = SanitizeValue[A[i]]}
  OBVIOUS
<1>3. 0 \in N
  BY <1>1, <1>2
<1>4. ASSUME NEW i \in 0 .. c - 1, i \in N PROVE i + 1 \in N
  <2>1. i \in 0 .. n - 1 /\ i + 1 \in 1 .. c /\ A[i] \in JSON /\ B[i] = SanitizeValue[A[i]]
    BY <1>2, <1>4
  <2>2. A[i + 1] \in JSON /\ B[i + 1] = SanitizeValue[A[i + 1]]
    BY <1>1, <2>1, MemberFacts
  <2>. QED
    BY <1>2, <2>1, <2>2
<1>5. 0 .. c \subseteq N
  BY <1>3, <1>4, Climb
<1>. QED
  BY <1>2, <1>5

\* Below something that is no object there is nothing.
LEMMA WalkEnds ==
  ASSUME NEW m, NEW S, NEW path \in Seq(S), NEW n \in Nat, n = Len(path),
         NEW B, B = Walk(m, path), NEW j \in Nat, j < n, B[j].t # "obj"
  PROVE  B[n] = Absent
<1>1. \A i \in 0 .. n - 1 : B[i + 1] = Member(B[i], path[i + 1])
  BY WalkSteps
<1>2. PICK k \in Nat : n = j + 1 + k
  <2>1. n - j - 1 \in Nat /\ n = j + 1 + (n - j - 1)
    OBVIOUS
  <2>. QED
    BY <2>1
<1>3. PICK N : N = {i \in 0 .. k : B[j + 1 + i] = Absent}
  OBVIOUS
<1>4. 0 \in N
  <2>1. B[j + 1] = Member(B[j], path[j + 1])
    BY <1>1
  <2>2. B[j + 1] = Absent /\ j + 1 + 0 = j + 1
    BY <2>1 DEF Member
  <2>. QED
    BY <1>2, <1>3, <2>2
<1>5. ASSUME NEW i \in 0 .. k - 1, i \in N PROVE i + 1 \in N
  <2>1. B[j + 1 + i] = Absent /\ j + 1 + i \in 0 .. n - 1 /\ (j + 1 + i) + 1 = j + 1 + (i + 1)
    BY <1>2, <1>3, <1>5
  <2>2. B[j + 1 + (i + 1)] = Member(Absent, path[j + 1 + (i + 1)])
    BY <1>1, <2>1
  <2>3. B[j + 1 + (i + 1)] = Absent
    BY <2>2, AbsentFacts DEF Member
  <2>. QED
    BY <1>2, <1>3, <2>3
<1>6. 0 .. k \subseteq N
  BY <1>2, <1>4, <1>5, Climb
<1>7. k \in N
  BY <1>2, <1>6
<1>8. B[j + 1 + k] = Absent
  BY <1>3, <1>7
<1>. QED
  BY <1>2, <1>8

\* What a lookup finds in a sanitized document.
LEMMA SecretWalk ==
  ASSUME NEW m \in JSON, NEW S, NEW path \in Seq(S), NEW n \in Nat, n = Len(path),
         NEW A, A = Walk(m, path), NEW B, B = Walk(SanitizeValue[m], path), NEW want,
         NEW at, at = RedactedAt(path)
  PROVE  jsonEqual(B[n], want) <=> IF at = 0 THEN jsonEqual(A[n], want)
                                   ELSE at = n /\ want = Redacted /\ A[n] # Absent
<1>1. /\ at \in 0 .. n
      /\ at = 0 => \A i \in 1 .. n : path[i] \notin RedactedKeys
      /\ at # 0 => path[at] \in RedactedKeys /\ \A i \in 1 .. at - 1 : path[i] \notin RedactedKeys
  BY RedactedAtFacts
<1>2. CASE at = 0
  <2>1. n <= n /\ n \in 0 .. n
    OBVIOUS
  <2>2. A[n] \in JSON /\ B[n] = SanitizeValue[A[n]]
    BY <1>1, <1>2, <2>1, WalkSanitized
  <2>. QED
    BY <1>2, <2>2, SanitizedEqual
<1>3. CASE at # 0
  <2>1. PICK c \in Nat : at = c + 1 /\ c <= n /\ c \in 0 .. n - 1
    <3>1. at - 1 \in Nat /\ at = (at - 1) + 1 /\ at - 1 <= n /\ at - 1 \in 0 .. n - 1
      BY <1>1, <1>3
    <3>. QED
      BY <3>1
  <2>2. \A i \in 1 .. c : path[i] \notin RedactedKeys
    BY <1>1, <1>3, <2>1
  <2>3. A[c] \in JSON /\ B[c] = SanitizeValue[A[c]]
    BY <2>1, <2>2, WalkSanitized
  <2>4. A[at] = Member(A[c], path[at]) /\ B[at] = Member(B[c], path[at])
    BY <2>1, WalkSteps
  <2>5. B[at] = IF A[at] = Absent THEN Absent ELSE Redacted
    BY <1>1, <1>3, <2>3, <2>4, MemberFacts
  <2>6. /\ jsonEqual(Redacted, want) <=> want = Redacted
        /\ ~jsonEqual(Absent, want)
    BY AbsentFacts DEF jsonEqual
  <2>7. CASE at = n
    BY <1>3, <2>5, <2>6, <2>7
  <2>8. CASE at # n
    <3>1. at \in Nat /\ at < n /\ B[at].t # "obj"
      BY <1>1, <2>5, <2>8, AbsentFacts
    <3>2. B[n] = Absent
      BY <3>1, WalkEnds
    <3>. QED
      BY <1>3, <2>6, <2>8, <3>2
  <2>. QED
    BY <2>7, <2>8
<1>. QED
  BY <1>2, <1>3

LEMMA SecretsInv == PortalInv => FilterHidesSecrets
<1> SUFFICES ASSUME PortalInv, Answered("events"), quiet, ~ans.partial, NEW jf \in Asked.json,
                    Asked = [NoFilter EXCEPT !.json = {jf}], jf.source = "param", Encodable(jf),
                    ExactNumbers(Asked)
             PROVE  LET want == ParseJSONFilterValue(jf.value)
                        at   == RedactedAt(jf.path)
                        cut  == SubSeq(jf.path, 1, at)
                        raw(r) == Obj(Call[r].request_params)
                        Has(r) == Walk(raw(r), cut)[at] # Absent
                    IN  ans.total = Cardinality({r \in table : Call[r].captured /\
                          IF at = 0 THEN MatchJSONPath(raw(r), jf.path, want)
                          ELSE at = Len(jf.path) /\ want = Redacted /\ Has(r)})
  BY Zenon DEF FilterHidesSecrets
<1>1. TypeOK /\ ReadInv /\ request.kind = "events"
  BY DEF PortalInv, Answered
<1>2. PICK g : g = EventsFilter
  OBVIOUS
<1>3. ans.total = Cardinality({r \in table : Selects(g, Stored[r])})
  BY <1>2 DEF PortalInv, QuietReadInv, PgCount, Matching
<1>4. /\ g.from = 0 /\ g.to = 0 /\ g.tool = "" /\ g.user = "" /\ g.session = "" /\ g.id = 0
      /\ g.success = "" /\ g.search = <<>> /\ g.json = {jf} /\ g.has = {}
  BY <1>2, Zenon DEF EventsFilter, NoFilter
<1>5. PICK want, at, path, n :
        want = ParseJSONFilterValue(jf.value) /\ at = RedactedAt(jf.path) /\ path = jf.path /\ n = Len(path)
  OBVIOUS
<1>6. path \in Seq(STRING) /\ n \in Nat
  BY <1>1, <1>5, AskedJSON
<1>7. ASSUME NEW r \in table
      PROVE  Selects(g, Stored[r]) <=>
               Call[r].captured /\
               IF at = 0 THEN MatchJSONPath(Obj(Call[r].request_params), path, want)
               ELSE at = n /\ want = Redacted
                    /\ Walk(Obj(Call[r].request_params), SubSeq(path, 1, at))[at] # Absent
  <2>1. r \in Rows
    BY <1>1 DEF TypeOK
  <2>2. Stored[r].captured = Call[r].captured
    <3>1. "captured" \in Columns /\ "captured" # "request_params"
      BY DEF Columns
    <3>. QED
      BY <2>1, <3>1, StoredFacts
  <2>3. JsonbContains[FilterDoc(jf)][marshalJSONB(Stored[r], jsonFilterColumn(jf.source))]
          <=> matchesJSONFilter(Stored[r], jf)
    BY <1>1, <2>1, JSONFilterAgree
  <2>4. Selects(g, Stored[r]) <=> Stored[r].captured /\ matchesJSONFilter(Stored[r], jf)
    BY <1>4, <2>3, Zenon DEF Selects, InWindow
  <2>5. PICK m \in JSON : m = Obj(Call[r].request_params)
    BY <2>1, CallAssumption, DecodedFacts
  <2>6. Obj(Stored[r].request_params) = SanitizeValue[m]
    BY <2>1, <2>5, StoredDocs
  <2>7. PICK A, B : A = Walk(m, path) /\ B = Walk(SanitizeValue[m], path)
    OBVIOUS
  <2>8. matchesJSONFilter(Stored[r], jf) <=> jsonEqual(B[n], want)
    <3>1. PICK ev : ev = Stored[r]
      OBVIOUS
    <3>2. matchesJSONFilter(ev, jf) <=> MatchJSONPath(Obj(ev.request_params), jf.path, want)
      BY <1>5 DEF matchesJSONFilter
    <3>3. MatchJSONPath(SanitizeValue[m], path, want) <=> jsonEqual(B[n], want)
      BY <1>5, <2>7 DEF MatchJSONPath
    <3>. QED
      BY <1>5, <2>6, <3>1, <3>2, <3>3
  <2>9. jsonEqual(B[n], want) <=> IF at = 0 THEN jsonEqual(A[n], want)
                                  ELSE at = n /\ want = Redacted /\ A[n] # Absent
    BY <1>5, <1>6, <2>5, <2>7, SecretWalk
  <2>10. MatchJSONPath(m, path, want) <=> jsonEqual(A[n], want)
    BY <1>5, <2>7 DEF MatchJSONPath
  <2>11. SubSeq(path, 1, n) = path
    BY <1>5, <1>6
  <2>12. at = n => Walk(m, SubSeq(path, 1, at))[at] = A[n]
    BY <2>7, <2>11
  <2>. QED
    BY <2>2, <2>4, <2>5, <2>8, <2>9, <2>10, <2>12
<1>8. {r \in table : Selects(g, Stored[r])} =
        {r \in table : Call[r].captured /\
           IF at = 0 THEN MatchJSONPath(Obj(Call[r].request_params), path, want)
           ELSE at = n /\ want = Redacted
                /\ Walk(Obj(Call[r].request_params), SubSeq(path, 1, at))[at] # Absent}
  BY <1>7
<1>. QED
  BY <1>3, <1>5, <1>8

\* While no row comes or goes, a parameter filter counts the calls made with the
\* value, and below a redacted name none, at the name only the placeholder:
\* SanitizeParameters (event.go) runs before the row is stored.
THEOREM SecretsStayHidden == PortalSpec => []FilterHidesSecrets
  BY SecretsInv, SpecPortalInv, PTL

-----------------------------------------------------------------------------
(* Text search.                                                            *)

\* The escaped prefixes of a term.
LEMMA EscapedDef ==
  ASSUME NEW S, NEW s \in Seq(S)
  PROVE  EscapedUpTo(s) =
           [i \in 0 .. Len(s) |-> IF i = 0 THEN <<>> ELSE EscapedUpTo(s)[i - 1] \o Escaped(s[i])]
<1> DEFINE More(e, i) == e \o Escaped(s[i])
           IsEsc(g, n) == g = [i \in 0 .. n |-> IF i = 0 THEN <<>> ELSE More(g[i - 1], i)]
           N == {n \in 0 .. Len(s) : \E g : IsEsc(g, n)}
<1>0. Len(s) \in Nat
  OBVIOUS
<1>1. 0 \in N
  <2>1. IsEsc([i \in 0 .. 0 |-> <<>>], 0)
    OBVIOUS
  <2> HIDE DEF IsEsc
  <2>2. \E g : IsEsc(g, 0)
    BY <2>1
  <2>. QED
    BY <1>0, <2>2
<1>2. ASSUME NEW n \in 0 .. Len(s) - 1, n \in N PROVE n + 1 \in N
  <2>1. PICK g : IsEsc(g, n)
    BY <1>2
  <2> HIDE DEF More
  <2>2. PICK h : h = [i \in 0 .. n + 1 |-> IF i = n + 1 THEN More(g[n], n + 1) ELSE g[i]]
    OBVIOUS
  <2>3. \A i \in 0 .. n : h[i] = g[i]
    BY <1>0, <2>2
  <2>4. \A i \in 1 .. n : g[i] = More(g[i - 1], i)
    BY <1>0, <2>1
  <2>5. \A i \in 0 .. n + 1 : h[i] = IF i = 0 THEN <<>> ELSE More(h[i - 1], i)
    <3>1. SUFFICES ASSUME NEW i \in 0 .. n + 1 PROVE h[i] = IF i = 0 THEN <<>> ELSE More(h[i - 1], i)
      OBVIOUS
    <3>2. CASE i = 0
      BY <1>0, <2>1, <2>2, <3>2
    <3>3. CASE i \in 1 .. n
      <4>1. h[i] = g[i] /\ h[i - 1] = g[i - 1]
        BY <1>0, <2>3, <3>3
      <4>. QED
        BY <2>4, <3>3, <4>1
    <3>4. CASE i = n + 1
      <4>1. h[i] = More(g[n], n + 1) /\ h[i - 1] = g[n]
        BY <1>0, <2>2, <2>3, <3>4
      <4>. QED
        BY <1>0, <3>4, <4>1
    <3>. QED
      BY <1>0, <3>2, <3>3, <3>4
  <2>6. IsEsc(h, n + 1)
    BY <2>2, <2>5
  <2>. QED
    BY <1>0, <2>6
<1>3. 0 .. Len(s) \subseteq N
  BY <1>0, <1>1, <1>2, Climb
<1>4. \E g : IsEsc(g, Len(s))
  <2> HIDE DEF IsEsc
  <2>1. Len(s) \in N
    BY <1>0, <1>3
  <2>. QED
    BY <2>1
<1>. QED
  BY <1>4 DEF EscapedUpTo

\* Whether the text from i on matches the pattern from j on, given the answers
\* for the places after j.
LikeCell(text, p, like, j, i) ==
  IF j > Len(p) THEN i > Len(text)
  ELSE IF p[j] = "%" THEN \E n \in i .. Len(text) + 1 : like[j + 1][n]
  ELSE LET lit == IF p[j] = "\\" /\ j < Len(p) THEN j + 1 ELSE j
       IN  /\ i <= Len(text)
           /\ text[i] = p[lit] \/ (lit = j /\ p[j] = "_")
           /\ like[lit + 1][i + 1]

LikeRow(text, p, like, j) == [i \in 1 .. Len(text) + 1 |-> LikeCell(text, p, like, j, i)]

LEMMA LikeLater ==
  ASSUME NEW text, NEW S, NEW p \in Seq(S), NEW g, NEW h, NEW j \in 1 .. Len(p) + 1,
         \A x \in j + 1 .. Len(p) + 1 : g[x] = h[x]
  PROVE  LikeRow(text, p, g, j) = LikeRow(text, p, h, j)
<1>0. Len(p) \in Nat
  OBVIOUS
<1>1. ASSUME NEW i PROVE LikeCell(text, p, g, j, i) = LikeCell(text, p, h, j, i)
  <2>1. CASE j > Len(p)
    BY <2>1 DEF LikeCell
  <2>2. CASE ~(j > Len(p))
    <3>1. g[j + 1] = h[j + 1]
      BY <1>0, <2>2
    <3>2. PICK lit : lit = IF p[j] = "\\" /\ j < Len(p) THEN j + 1 ELSE j
      OBVIOUS
    <3>3. g[lit + 1] = h[lit + 1]
      BY <1>0, <2>2, <3>2
    <3>. QED
      BY <2>2, <3>1, <3>2, <3>3, Zenon DEF LikeCell
  <2>. QED
    BY <2>1, <2>2
<1>. QED
  BY <1>1, Zenon DEF LikeRow

LEMMA LikeDef ==
  ASSUME NEW text, NEW S, NEW p \in Seq(S)
  PROVE  LikeFrom(text, p) =
           [j \in 1 .. Len(p) + 1 |-> LikeRow(text, p, LikeFrom(text, p), j)]
<1> DEFINE L == Len(p)
           IsLike(g, n) == g = [j \in L + 1 - n .. L + 1 |-> LikeRow(text, p, g, j)]
           N == {n \in 0 .. L : \E g : IsLike(g, n)}
<1>0. L \in Nat
  OBVIOUS
<1> HIDE DEF L
<1>1. 0 \in N
  <2>1. PICK z : z = [j \in L + 1 .. L + 1 |-> LikeRow(text, p, <<>>, j)]
    OBVIOUS
  <2>2. LikeRow(text, p, <<>>, L + 1) = LikeRow(text, p, z, L + 1)
    BY <1>0, LikeLater DEF L
  <2>3. IsLike(z, 0)
    BY <1>0, <2>1, <2>2
  <2> HIDE DEF IsLike
  <2>4. \E g : IsLike(g, 0)
    BY <2>3
  <2>. QED
    BY <1>0, <2>4
<1>2. ASSUME NEW n \in 0 .. L - 1, n \in N PROVE n + 1 \in N
  <2>1. PICK g : IsLike(g, n)
    BY <1>2
  <2>2. PICK k \in 1 .. L : k = L - n
    BY <1>0
  <2>7. L + 1 - n = k + 1 /\ L + 1 - (n + 1) = k
    BY <1>0, <2>2
  <2>3. PICK h : h = [j \in k .. L + 1 |-> IF j = k THEN LikeRow(text, p, g, k) ELSE g[j]]
    OBVIOUS
  <2>4. \A j \in k + 1 .. L + 1 : h[j] = g[j] /\ g[j] = LikeRow(text, p, g, j)
    <3>1. \A j \in k + 1 .. L + 1 : h[j] = g[j]
      BY <1>0, <2>3
    <3>2. \A j \in k + 1 .. L + 1 : g[j] = LikeRow(text, p, g, j)
      BY <1>0, <2>1, <2>7
    <3>. QED
      BY <3>1, <3>2
  <2>5. ASSUME NEW j \in k .. L + 1 PROVE h[j] = LikeRow(text, p, h, j)
    <3>1. \A x \in j + 1 .. L + 1 : g[x] = h[x]
      BY <1>0, <2>4
    <3>2. LikeRow(text, p, g, j) = LikeRow(text, p, h, j)
      BY <1>0, <3>1, LikeLater DEF L
    <3>3. h[j] = LikeRow(text, p, g, j)
      BY <1>0, <2>2, <2>3, <2>4
    <3>. QED
      BY <3>2, <3>3
  <2>6. IsLike(h, n + 1)
    <3>1. h = [j \in k .. L + 1 |-> LikeRow(text, p, h, j)]
      BY <2>3, <2>5
    <3>. QED
      BY <2>7, <3>1
  <2> HIDE DEF IsLike
  <2>8. \E x : IsLike(x, n + 1)
    BY <2>6
  <2>. QED
    BY <1>0, <2>8
<1>3. 0 .. L \subseteq N
  BY <1>0, <1>1, <1>2, Climb
<1>4. \E g : IsLike(g, L)
  BY <1>0, <1>3
<1>5. \E g : g = [j \in 1 .. Len(p) + 1 |-> LikeRow(text, p, g, j)]
  BY <1>0, <1>4 DEF L
<1>. QED
  BY <1>5 DEF LikeFrom, LikeRow, LikeCell

\* The escape character.
Backslash == "\\"

\* After place a, up to b, the pattern has the letter c, escaped.
LetterAt(p, a, b, c) ==
  \/ c \in Meta /\ b = a + 2 /\ p[a + 1] = Backslash /\ p[a + 2] = c
  \/ c \notin Meta /\ b = a + 1 /\ p[a + 1] = c

\* Sequence x is e followed by y.
Joined(e, y, x) ==
  /\ Len(x) = Len(e) + Len(y)
  /\ \A i \in 1 .. Len(e) : x[i] = e[i]
  /\ \A i \in 1 .. Len(y) : x[Len(e) + i] = y[i]

LEMMA JoinedFacts ==
  ASSUME NEW S, NEW e \in Seq(S), NEW y \in Seq(S)
  PROVE  e \o y \in Seq(S) /\ Joined(e, y, e \o y)
<1>1. Len(e \o y) = Len(e) + Len(y)
  OBVIOUS
<1>2. \A i \in 1 .. Len(e) : (e \o y)[i] = e[i]
  OBVIOUS
<1>3. \A i \in 1 .. Len(y) : (e \o y)[Len(e) + i] = y[i]
  OBVIOUS
<1>. QED
  BY <1>1, <1>2, <1>3 DEF Joined

\* Sequence x begins with e.
Begins(e, x) == Len(e) <= Len(x) /\ \A i \in 1 .. Len(e) : x[i] = e[i]

\* One more letter of the term, at the end of what is escaped so far.
LEMMA EscapedStep ==
  ASSUME NEW S, Meta \subseteq S, NEW e \in Seq(S), NEW c \in S
  PROVE  \E x \in Seq(S) :
           x = e \o Escaped(c) /\ LetterAt(x, Len(e), Len(x), c) /\ Begins(e, x)
<1>0. Backslash \in S
  BY Zenon DEF Meta, Backslash
<1>3. Len(e) \in Nat
  OBVIOUS
<1>1. CASE c \in Meta
  <2>1. PICK y : y = <<Backslash, c>>
    OBVIOUS
  <2>2. y \in Seq(S) /\ Len(y) = 2 /\ y[1] = Backslash /\ y[2] = c
    BY <1>0, <2>1
  <2>3. y = Escaped(c)
    BY <1>0, <1>1, <2>1, Zenon DEF Escaped, Backslash
  <2>4. e \o y \in Seq(S) /\ Joined(e, y, e \o y)
    BY <2>2, JoinedFacts
  <2>5. PICK x \in Seq(S) : x = e \o Escaped(c) /\ Joined(e, y, x)
    BY <2>3, <2>4, Zenon
  <2>6. Len(x) = Len(e) + 2 /\ \A i \in 1 .. Len(e) : x[i] = e[i]
    BY <2>2, <2>5 DEF Joined
  <2>7. x[Len(e) + 1] = Backslash /\ x[Len(e) + 2] = c
    BY <2>2, <2>5 DEF Joined
  <2>8. LetterAt(x, Len(e), Len(x), c) /\ Begins(e, x)
    BY <1>3, <1>1, <2>6, <2>7 DEF LetterAt, Begins
  <2>. QED
    BY <2>5, <2>6, <2>8, Zenon
<1>2. CASE c \notin Meta
  <2>1. PICK y : y = <<c>>
    OBVIOUS
  <2>2. y \in Seq(S) /\ Len(y) = 1 /\ y[1] = c
    BY <1>0, <2>1
  <2>3. y = Escaped(c)
    BY <1>0, <1>2, <2>1, Zenon DEF Escaped, Backslash
  <2>4. e \o y \in Seq(S) /\ Joined(e, y, e \o y)
    BY <2>2, JoinedFacts
  <2>5. PICK x \in Seq(S) : x = e \o Escaped(c) /\ Joined(e, y, x)
    BY <2>3, <2>4, Zenon
  <2>6. Len(x) = Len(e) + 1 /\ \A i \in 1 .. Len(e) : x[i] = e[i]
    BY <2>2, <2>5 DEF Joined
  <2>7. x[Len(e) + 1] = c
    BY <2>2, <2>5 DEF Joined
  <2>8. LetterAt(x, Len(e), Len(x), c) /\ Begins(e, x)
    BY <1>3, <1>2, <2>6, <2>7 DEF LetterAt, Begins
  <2>. QED
    BY <2>5, <2>6, <2>8, Zenon
<1>. QED
  BY <1>1, <1>2, Zenon

\* Sequences that grow at the end are all found in the last one.
LEMMA GrownFrom ==
  ASSUME NEW n \in Nat, NEW E, \A k \in 0 .. n : Len(E[k]) \in Nat,
         \A k \in 1 .. n : Begins(E[k - 1], E[k])
  PROVE  \A k \in 0 .. n : Begins(E[k], E[n])
<1> DEFINE N == {d \in 0 .. n : Begins(E[n - d], E[n])}
<1>1. 0 \in N
  <2>1. n - 0 = n /\ Len(E[n]) <= Len(E[n])
    OBVIOUS
  <2>2. Begins(E[n - 0], E[n])
    BY <2>1 DEF Begins
  <2>. QED
    BY <2>2
<1>2. ASSUME NEW d \in 0 .. n - 1, d \in N PROVE d + 1 \in N
  <2>1. PICK k \in 1 .. n : k = n - d /\ k - 1 = n - (d + 1)
    OBVIOUS
  <2>2. PICK x, y, z : x = E[k - 1] /\ y = E[k] /\ z = E[n]
    OBVIOUS
  <2>3. Len(x) \in Nat /\ Len(y) \in Nat /\ Len(z) \in Nat
    BY <2>1, <2>2
  <2>4. Begins(y, z) /\ Begins(x, y)
    BY <1>2, <2>1, <2>2
  <2>5. Begins(x, z)
    BY ONLY <2>3, <2>4 DEF Begins
  <2>6. d + 1 \in 0 .. n
    OBVIOUS
  <2>. QED
    BY <2>1, <2>2, <2>5, <2>6
<1> HIDE DEF N
<1>3. 0 .. n \subseteq N
  BY <1>1, <1>2, Climb
<1>. SUFFICES ASSUME NEW k \in 0 .. n PROVE Begins(E[k], E[n])
  OBVIOUS
<1>4. n - k \in 0 .. n /\ n - (n - k) = k
  OBVIOUS
<1>5. n - k \in N
  BY <1>3, <1>4
<1>6. Begins(E[n - (n - k)], E[n])
  BY <1>5 DEF N
<1>. QED
  BY <1>4, <1>6

\* Where the letters of a term are in the pattern escapeLike makes of it.
LEMMA EscapedFacts ==
  ASSUME NEW S, Meta \subseteq S, NEW s \in Seq(S)
  PROVE  /\ EscapedUpTo(s)[Len(s)] \in Seq(S)
         /\ \E at : /\ at[0] = 0 /\ at[Len(s)] = Len(EscapedUpTo(s)[Len(s)])
                    /\ \A k \in 0 .. Len(s) : at[k] \in Nat
                    /\ \A k \in 1 .. Len(s) :
                         /\ at[k] <= at[Len(s)]
                         /\ LetterAt(EscapedUpTo(s)[Len(s)], at[k - 1], at[k], s[k])
<1>0. PICK n, E : n = Len(s) /\ E = EscapedUpTo(s)
  OBVIOUS
<1>1. n \in Nat
  BY <1>0
<1>2. E[0] = <<>> /\ \A k \in 1 .. n : E[k] = E[k - 1] \o Escaped(s[k])
  <2>1. E = [i \in 0 .. n |-> IF i = 0 THEN <<>> ELSE E[i - 1] \o Escaped(s[i])]
    BY <1>0, EscapedDef, Zenon
  <2>2. ASSUME NEW k \in 1 .. n PROVE k \in 0 .. n /\ k # 0
    BY <1>1
  <2>3. 0 \in 0 .. n
    BY <1>1
  <2>. QED
    BY <2>1, <2>2, <2>3, Zenon
<1>3. \A k \in 0 .. n : E[k] \in Seq(S)
  <2> DEFINE N == {k \in 0 .. n : E[k] \in Seq(S)}
  <2>1. 0 \in N
    <3>1. 0 \in 0 .. n
      BY <1>1
    <3>2. E[0] \in Seq(S)
      BY <1>2
    <3>. QED
      BY <3>1, <3>2
  <2>2. ASSUME NEW k \in 0 .. n - 1, k \in N PROVE k + 1 \in N
    <3>1. k + 1 \in 1 .. n /\ (k + 1) - 1 = k /\ k + 1 \in 0 .. n
      BY <1>1
    <3>2. s[k + 1] \in S
      BY <1>0, <3>1
    <3>3. E[k] \in Seq(S)
      BY <2>2
    <3>4. E[k] \o Escaped(s[k + 1]) \in Seq(S)
      BY <3>2, <3>3, EscapedStep, Zenon
    <3>5. E[k + 1] = E[k] \o Escaped(s[k + 1])
      BY <1>2, <3>1
    <3>6. E[k + 1] \in Seq(S)
      BY <3>4, <3>5, Zenon
    <3>. QED
      BY <3>1, <3>6
  <2> HIDE DEF N
  <2>3. 0 .. n \subseteq N
    BY <1>1, <2>1, <2>2, Climb
  <2>. QED
    BY <2>3 DEF N
<1>4. ASSUME NEW k \in 1 .. n
      PROVE  LetterAt(E[k], Len(E[k - 1]), Len(E[k]), s[k]) /\ Begins(E[k - 1], E[k])
  <2>1. k - 1 \in 0 .. n
    BY <1>1
  <2>2. s[k] \in S
    BY <1>0
  <2>3. E[k - 1] \in Seq(S) /\ E[k] = E[k - 1] \o Escaped(s[k])
    BY <1>2, <1>3, <2>1, Zenon
  <2>4. PICK e \in Seq(S) : e = E[k - 1]
    BY <2>3, Zenon
  <2>5. PICK x \in Seq(S) : x = e \o Escaped(s[k]) /\ LetterAt(x, Len(e), Len(x), s[k]) /\ Begins(e, x)
    BY <2>2, EscapedStep, Zenon
  <2>6. x = E[k]
    BY <2>3, <2>4, <2>5, Zenon
  <2>. QED
    BY <2>4, <2>5, <2>6, Zenon
<1>5. \A k \in 0 .. n : Len(E[k]) \in Nat
  BY <1>3
<1>6. \A k \in 0 .. n : Begins(E[k], E[n])
  BY <1>1, <1>4, <1>5, GrownFrom
<1>7. PICK at : at = [k \in 0 .. n |-> Len(E[k])]
  OBVIOUS
<1>8. \A k \in 0 .. n : at[k] = Len(E[k]) /\ at[k] \in Nat
  BY <1>5, <1>7
<1>9. ASSUME NEW k \in 1 .. n
      PROVE  at[k] <= at[n] /\ LetterAt(E[n], at[k - 1], at[k], s[k])
  <2>1. k - 1 \in 0 .. n /\ k \in 0 .. n /\ n \in 0 .. n
    BY <1>1
  <2>2. /\ at[k] = Len(E[k]) /\ at[k - 1] = Len(E[k - 1]) /\ at[k] \in Nat /\ at[k - 1] \in Nat
        /\ at[n] = Len(E[n])
    BY <1>8, <2>1, Zenon
  <2>3. LetterAt(E[k], at[k - 1], at[k], s[k]) /\ Begins(E[k], E[n])
    BY <1>4, <1>6, <2>1, <2>2, Zenon
  <2>4. at[k] <= at[n] /\ \A i \in 1 .. at[k] : E[n][i] = E[k][i]
    BY <2>2, <2>3 DEF Begins
  <2>5. PICK p, q, a, b, c : p = E[n] /\ q = E[k] /\ a = at[k - 1] /\ b = at[k] /\ c = s[k]
    OBVIOUS
  <2>6. a \in Nat /\ b \in Nat /\ LetterAt(q, a, b, c) /\ \A i \in 1 .. b : p[i] = q[i]
    BY <2>2, <2>3, <2>4, <2>5, Zenon
  <2>7. LetterAt(p, a, b, c)
    BY ONLY <2>6 DEF LetterAt
  <2>. QED
    BY <2>4, <2>5, <2>7, Zenon
<1>10. at[0] = 0
  BY <1>1, <1>2, <1>8
<1>11. E[n] \in Seq(S) /\ at[n] = Len(E[n])
  BY <1>1, <1>3, <1>8
<1>. QED
  BY <1>0, <1>8, <1>9, <1>10, <1>11, Zenon

AnyText == "%"
AnyLetter == "_"

LEMMA MetaFacts ==
  /\ Meta = {Backslash, AnyText, AnyLetter}
  /\ Backslash # AnyText /\ Backslash # AnyLetter /\ AnyText # AnyLetter
<1>1. Meta = {Backslash, AnyText, AnyLetter}
  BY Zenon DEF Meta, Backslash, AnyText, AnyLetter
<1>2. Backslash # AnyText /\ Backslash # AnyLetter /\ AnyText # AnyLetter
  BY Zenon DEF Backslash, AnyText, AnyLetter
<1>. QED
  BY <1>1, <1>2, Zenon

\* ILIKE at one place, by what the pattern has there.
LEMMA LikeAny ==
  ASSUME NEW text, NEW p, NEW like, NEW i, NEW j, ~(j > Len(p)), p[j] = AnyText
  PROVE  LikeCell(text, p, like, j, i) <=> \E n \in i .. Len(text) + 1 : like[j + 1][n]
  BY Zenon DEF LikeCell, AnyText

LEMMA LikePlain ==
  ASSUME NEW text, NEW p, NEW like, NEW i, NEW j, ~(j > Len(p)), p[j] \notin Meta
  PROVE  LikeCell(text, p, like, j, i) <=>
           i <= Len(text) /\ text[i] = p[j] /\ like[j + 1][i + 1]
<1>1. p[j] # "%" /\ p[j] # "\\" /\ p[j] # "_"
  BY Zenon DEF Meta
<1>. QED
  BY <1>1, Zenon DEF LikeCell

LEMMA LikeEscaped ==
  ASSUME NEW text, NEW p, NEW like, NEW i, NEW j, ~(j > Len(p)), j < Len(p), j + 1 # j,
         p[j] = Backslash
  PROVE  LikeCell(text, p, like, j, i) <=>
           i <= Len(text) /\ text[i] = p[j + 1] /\ like[(j + 1) + 1][i + 1]
<1>1. p[j] # "%" /\ p[j] = "\\"
  BY Zenon DEF Backslash
<1>. QED
  BY <1>1, Zenon DEF LikeCell

\* Postgres' search pattern: the escaped term between two wildcards.
LEMMA PatternFacts ==
  ASSUME NEW S, Meta \subseteq S, NEW e \in Seq(S)
  PROVE  \E p \in Seq(S) :
           /\ p = <<"%">> \o e \o <<"%">>
           /\ Len(p) = Len(e) + 2 /\ p[1] = AnyText /\ p[Len(e) + 2] = AnyText
           /\ \A i \in 1 .. Len(e) : p[i + 1] = e[i]
<1>1. AnyText \in S
  BY MetaFacts
<1>2. PICK w \in Seq(S) : w = <<AnyText>> /\ Len(w) = 1 /\ w[1] = AnyText
  <2>1. <<AnyText>> \in Seq(S) /\ Len(<<AnyText>>) = 1 /\ <<AnyText>>[1] = AnyText
    BY <1>1
  <2>. QED
    BY <2>1, Zenon
<1>3. PICK q \in Seq(S) : q = w \o e /\ Joined(w, e, q)
  BY JoinedFacts, Zenon
<1>4. PICK p \in Seq(S) : p = q \o w /\ Joined(q, w, p)
  BY JoinedFacts, Zenon
<1>5. p = <<"%">> \o e \o <<"%">>
  BY <1>2, <1>3, <1>4, Zenon DEF AnyText
<1>6. Len(e) \in Nat
  OBVIOUS
<1>7. Len(q) = Len(e) + 1 /\ q[1] = AnyText /\ \A i \in 1 .. Len(e) : q[1 + i] = e[i]
  <2>1. Joined(w, e, q) /\ Len(w) = 1 /\ w[1] = AnyText
    BY <1>2, <1>3
  <2>. QED
    BY ONLY <1>6, <2>1 DEF Joined
<1>8. Len(p) = Len(e) + 2 /\ p[Len(e) + 2] = AnyText /\ \A i \in 1 .. Len(e) + 1 : p[i] = q[i]
  <2>1. Joined(q, w, p) /\ Len(w) = 1 /\ w[1] = AnyText /\ Len(q) = Len(e) + 1
    BY <1>2, <1>4, <1>7
  <2>. QED
    BY ONLY <1>6, <2>1 DEF Joined
<1>9. p[1] = AnyText /\ \A i \in 1 .. Len(e) : p[i + 1] = e[i]
  BY ONLY <1>6, <1>7, <1>8
<1>. QED
  BY <1>5, <1>8, <1>9, Zenon

\* The letters of s after the k-th are those of the text, when its first is at q.
RestAt(text, s, k, q) ==
  q + Len(s) <= Len(text) + 1 /\ \A m \in k + 1 .. Len(s) : text[q + m - 1] = s[m]

\* From the k-th letter of the term on, the pattern matches the texts that go
\* on with the rest of the term.
LEMMA LiteralRest ==
  ASSUME NEW S, Meta \subseteq S, NEW s \in Seq(S), NEW text \in Seq(S), NEW p \in Seq(S), NEW at,
         at[0] = 0, \A k \in 0 .. Len(s) : at[k] \in Nat,
         Len(p) = at[Len(s)] + 2, p[Len(p)] = AnyText,
         \A k \in 1 .. Len(s) : at[k] <= at[Len(s)] /\ LetterAt(p, at[k - 1] + 1, at[k] + 1, s[k])
  PROVE  \A k \in 0 .. Len(s) : \A q \in Nat \ {0} : q + k <= Len(text) + 1 =>
           (LikeFrom(text, p)[at[k] + 2][q + k] <=> RestAt(text, s, k, q))
<1> DEFINE T == Len(text)
           L == Len(p)
<1>0. PICK n, like : n = Len(s) /\ like = LikeFrom(text, p)
  OBVIOUS
<1>1. n \in Nat /\ T \in Nat /\ L \in Nat 
  BY <1>0
<1> HIDE DEF T, L
<1>2. ASSUME NEW j \in 1 .. L + 1, NEW i \in 1 .. T + 1
      PROVE  like[j][i] = LikeCell(text, p, like, j, i)
  <2>1. LikeFrom(text, p) = [x \in 1 .. L + 1 |-> LikeRow(text, p, LikeFrom(text, p), x)]
    BY LikeDef DEF L
  <2>2. LikeFrom(text, p)[j] = LikeRow(text, p, LikeFrom(text, p), j)
    BY <2>1, Zenon
  <2>. QED
    BY <1>0, <2>2, Zenon DEF LikeRow, T
<1> DEFINE Claim(k) == \A q \in Nat \ {0} : q + k <= T + 1 =>
                         (like[at[k] + 2][q + k] <=> RestAt(text, s, k, q))
           N == {d \in 0 .. n : Claim(n - d)}
<1>3. Claim(n)
  <2>. SUFFICES ASSUME NEW q \in Nat \ {0}, q + n <= T + 1
                PROVE  like[at[n] + 2][q + n] <=> RestAt(text, s, n, q)
    BY Zenon
  <2>1. PICK i \in 1 .. T + 1 : i = q + n
    BY <1>1
  <2>2. at[n] + 2 = L /\ L \in 1 .. L + 1 /\ L + 1 \in 1 .. L + 1 /\ T + 1 \in 1 .. T + 1 /\ T + 1 > T
        /\ T + 1 \in i .. T + 1 /\ L + 1 > L /\ ~(L > L)
    <3>1. at[n] + 2 = L /\ at[n] \in Nat
      BY <1>0, <1>1 DEF L
    <3>. QED
      BY <1>1, <3>1
  <2>3. like[L + 1][T + 1]
    <3>1. LikeCell(text, p, like, L + 1, T + 1)
      BY <2>2, Zenon DEF LikeCell, L, T
    <3>. QED
      BY <1>2, <2>2, <3>1, Zenon
  <2>4. LikeCell(text, p, like, L, i)
    <3>1. LikeCell(text, p, like, L, i) <=> \E x \in i .. T + 1 : like[L + 1][x]
      BY <2>2, LikeAny, Zenon DEF L, T
    <3>. QED
      BY <2>2, <2>3, <3>1, Zenon
  <2>5. like[at[n] + 2][q + n]
    BY <1>2, <2>1, <2>2, <2>4, Zenon
  <2>6. RestAt(text, s, n, q)
    BY <1>0, <1>1 DEF RestAt, T
  <2>. QED
    BY <2>5, <2>6, Zenon
<1>4. ASSUME NEW k \in 1 .. n, Claim(k) PROVE Claim(k - 1)
  <2>. SUFFICES ASSUME NEW q \in Nat \ {0}, q + (k - 1) <= T + 1
                PROVE  like[at[k - 1] + 2][q + (k - 1)] <=> RestAt(text, s, k - 1, q)
    BY Zenon
  <2>1. PICK i \in 1 .. T + 1 : i = q + (k - 1) /\ i + 1 = q + k /\ i = q + k - 1
    BY <1>1
  <2>2. PICK a, b, c : a = at[k - 1] /\ b = at[k] /\ c = s[k]
    OBVIOUS
  <2>3. a \in Nat /\ b \in Nat /\ b + 2 <= L /\ LetterAt(p, a + 1, b + 1, c)
    <3>1. k - 1 \in 0 .. n /\ k \in 0 .. n /\ n \in 0 .. n
      BY <1>1
    <3>2. a \in Nat /\ b \in Nat /\ at[n] \in Nat /\ b <= at[n] /\ L = at[n] + 2
      BY <1>0, <2>2, <3>1 DEF L
    <3>3. LetterAt(p, a + 1, b + 1, c)
      BY <1>0, <2>2, Zenon
    <3>. QED
      BY <3>2, <3>3
  <2>4. like[a + 2][i] <=> i <= T /\ text[i] = c /\ like[b + 2][i + 1]
    <3>1. CASE c \in Meta
      <4>1. p[a + 2] = Backslash /\ p[a + 3] = c /\ b = a + 2
        BY <2>3, <3>1 DEF LetterAt
      <4>2. a + 2 \in 1 .. L + 1 /\ ~(a + 2 > L) /\ a + 2 < L /\ (a + 2) + 1 = a + 3
            /\ a + 3 # a + 2 /\ (a + 3) + 1 = b + 2
        BY <1>1, <2>3, <4>1
      <4>3. LikeCell(text, p, like, a + 2, i) <=>
              i <= T /\ text[i] = p[(a + 2) + 1] /\ like[((a + 2) + 1) + 1][i + 1]
        BY <4>1, <4>2, LikeEscaped, Zenon DEF L, T
      <4>. QED
        BY <1>2, <4>1, <4>2, <4>3, Zenon
    <3>2. CASE c \notin Meta
      <4>1. p[a + 2] = c /\ b = a + 1
        BY <2>3, <3>2 DEF LetterAt
      <4>2. a + 2 \in 1 .. L + 1 /\ ~(a + 2 > L) /\ (a + 2) + 1 = b + 2
        BY <1>1, <2>3, <4>1
      <4>3. LikeCell(text, p, like, a + 2, i) <=>
              i <= T /\ text[i] = p[a + 2] /\ like[(a + 2) + 1][i + 1]
        BY <3>2, <4>1, <4>2, LikePlain, Zenon DEF L, T
      <4>. QED
        BY <1>2, <4>1, <4>2, <4>3, Zenon
    <3>. QED
      BY <3>1, <3>2, Zenon
  <2>5. RestAt(text, s, k - 1, q) <=> i <= T /\ text[i] = c /\ RestAt(text, s, k, q)
    <3>1. (\A m \in (k - 1) + 1 .. n : text[q + m - 1] = s[m])
            <=> (text[i] = c /\ \A m \in k + 1 .. n : text[q + m - 1] = s[m])
      <4>1. \A m \in (k - 1) + 1 .. n : m = k \/ m \in k + 1 .. n
        BY <1>1
      <4>2. k \in (k - 1) + 1 .. n /\ \A m \in k + 1 .. n : m \in (k - 1) + 1 .. n
        BY <1>1
      <4>. QED
        BY <2>1, <2>2, <4>1, <4>2, Zenon
    <3>2. q + n <= T + 1 => i <= T
      BY <1>1, <2>1
    <3>. QED
      BY <1>0, <3>1, <3>2, Zenon DEF RestAt, T
  <2>6. i <= T => (like[b + 2][i + 1] <=> RestAt(text, s, k, q))
    <3>1. i <= T => q + k <= T + 1
      BY <1>1, <2>1
    <3>. QED
      BY <1>4, <2>1, <2>2, <3>1, Zenon
  <2>. QED
    BY <2>1, <2>2, <2>4, <2>5, <2>6, Zenon
<1> HIDE DEF Claim
<1>5. 0 \in N
  <2>1. n - 0 = n /\ 0 \in 0 .. n
    BY <1>1
  <2>. QED
    BY <1>3, <2>1
<1>6. ASSUME NEW d \in 0 .. n - 1, d \in N PROVE d + 1 \in N
  <2>1. n - d \in 1 .. n /\ (n - d) - 1 = n - (d + 1) /\ d + 1 \in 0 .. n
    BY <1>1
  <2>2. Claim(n - d)
    BY <1>6
  <2>3. Claim((n - d) - 1)
    BY <1>4, <2>1, <2>2, Zenon
  <2>. QED
    BY <2>1, <2>3
<1>7. 0 .. n \subseteq N
  <2> HIDE DEF N
  <2>. QED
    BY <1>1, <1>5, <1>6, Climb
<1>8. ASSUME NEW k \in 0 .. n PROVE Claim(k)
  <2>1. n - k \in 0 .. n /\ n - (n - k) = k
    BY <1>1
  <2>2. Claim(n - (n - k))
    BY <1>7, <2>1
  <2>. QED
    BY <2>1, <2>2
<1>. QED
  BY <1>0, <1>8, Zenon DEF Claim, T

\* The term is somewhere in the text.
Occurs(text, term) ==
  \E i \in 0 .. Len(text) - Len(term) : SubSeq(text, i + 1, i + Len(term)) = term

LEMMA OccursAt ==
  ASSUME NEW S, NEW s \in Seq(S), NEW text \in Seq(S)
  PROVE  Occurs(text, s) <=> \E q \in 1 .. Len(text) + 1 : RestAt(text, s, 0, q)
<1>0. PICK n \in Nat, T \in Nat : n = Len(s) /\ T = Len(text)
  OBVIOUS
<1>1. ASSUME NEW i \in Nat, i + n <= T
      PROVE  SubSeq(text, i + 1, i + n) = s <=> \A m \in 1 .. n : text[i + m] = s[m]
  <2>1. i + n \in Nat /\ i + n <= Len(text)
    BY <1>0, <1>1
  <2>2. PICK w \in Seq(S) : /\ w = SubSeq(text, i + 1, i + n)
                            /\ Len(w) = IF i < i + n THEN (i + n) - i ELSE 0
                            /\ \A m \in 1 .. Len(w) : w[m] = text[i + m] /\ i + m \in 1 .. Len(text)
    BY <2>1, WindowFacts
  <2>3. Len(w) = n
    BY <1>1, <2>2
  <2>4. w = s <=> \A m \in 1 .. n : w[m] = s[m]
    BY <1>0, <2>3
  <2>5. \A m \in 1 .. n : w[m] = text[i + m]
    BY <2>2, <2>3
  <2>. QED
    BY <2>2, <2>4, <2>5, Zenon
<1>2. ASSUME NEW i \in Nat, i + n <= T
      PROVE  SubSeq(text, i + 1, i + n) = s <=> RestAt(text, s, 0, i + 1)
  <2>1. (i + 1) + n <= T + 1 /\ 0 + 1 = 1
    BY <1>2
  <2>2. \A m \in 1 .. n : (i + 1) + m - 1 = i + m
    OBVIOUS
  <2>3. RestAt(text, s, 0, i + 1) <=> \A m \in 1 .. n : text[i + m] = s[m]
    BY <1>0, <2>1, <2>2, Zenon DEF RestAt
  <2>. QED
    BY <1>1, <1>2, <2>3, Zenon
<1>3. ASSUME NEW i \in 0 .. T - n, SubSeq(text, i + 1, i + n) = s
      PROVE  \E q \in 1 .. T + 1 : RestAt(text, s, 0, q)
  <2>1. i \in Nat /\ i + n <= T /\ i + 1 \in 1 .. T + 1
    BY <1>0
  <2>. QED
    BY <1>2, <1>3, <2>1, Zenon
<1>4. ASSUME NEW q \in 1 .. T + 1, RestAt(text, s, 0, q)
      PROVE  \E i \in 0 .. T - n : SubSeq(text, i + 1, i + n) = s
  <2>1. q + n <= T + 1
    BY <1>0, <1>4, Zenon DEF RestAt
  <2>2. PICK i \in 0 .. T - n : q = i + 1 /\ i \in Nat /\ i + n <= T
    BY <1>0, <2>1
  <2>. QED
    BY <1>2, <1>4, <2>2, Zenon
<1>. QED
  BY <1>0, <1>3, <1>4, Zenon DEF Occurs

\* Escaped and between two wildcards, a term matches the texts it occurs in.
LEMMA LiteralMatch ==
  ASSUME NEW S, Meta \subseteq S, NEW s \in Seq(S), NEW text \in Seq(S)
  PROVE  ILike(text, <<"%">> \o EscapedUpTo(s)[Len(s)] \o <<"%">>) <=> Occurs(text, s)
<1>0. PICK n \in Nat, T \in Nat : n = Len(s) /\ T = Len(text)
  OBVIOUS
<1>9. PICK e \in Seq(S) : e = EscapedUpTo(s)[Len(s)]
  BY EscapedFacts, Zenon
<1>1. PICK at :
        /\ at[0] = 0 /\ at[Len(s)] = Len(e) /\ \A k \in 0 .. Len(s) : at[k] \in Nat
        /\ \A k \in 1 .. Len(s) : at[k] <= at[Len(s)] /\ LetterAt(e, at[k - 1], at[k], s[k])
  BY <1>9, EscapedFacts, Zenon
<1>2. PICK p \in Seq(S) :
        /\ p = <<"%">> \o e \o <<"%">>
        /\ Len(p) = Len(e) + 2 /\ p[1] = AnyText /\ p[Len(e) + 2] = AnyText
        /\ \A i \in 1 .. Len(e) : p[i + 1] = e[i]
  BY PatternFacts, Zenon
<1>3. ASSUME NEW k \in 1 .. n PROVE LetterAt(p, at[k - 1] + 1, at[k] + 1, s[k])
  <2>1. PICK a, b, c, l : a = at[k - 1] /\ b = at[k] /\ c = s[k] /\ l = Len(e)
    OBVIOUS
  <2>2. k - 1 \in 0 .. n /\ k \in 0 .. n
    BY <1>0
  <2>3. a \in Nat /\ b \in Nat /\ l \in Nat /\ b <= l /\ LetterAt(e, a, b, c)
    BY <1>0, <1>1, <2>1, <2>2
  <2>4. \A i \in 1 .. l : p[i + 1] = e[i]
    BY <1>2, <2>1
  <2>5. LetterAt(p, a + 1, b + 1, c)
    <3>1. CASE c \in Meta
      <4>1. b = a + 2 /\ e[a + 1] = Backslash /\ e[a + 2] = c
        BY <2>3, <3>1 DEF LetterAt
      <4>2. p[(a + 1) + 1] = e[a + 1] /\ p[(a + 2) + 1] = e[a + 2] /\ (a + 1) + 2 = (a + 2) + 1
        BY <2>3, <2>4, <4>1
      <4>. QED
        BY <3>1, <4>1, <4>2, Zenon DEF LetterAt
    <3>2. CASE c \notin Meta
      <4>1. b = a + 1 /\ e[a + 1] = c
        BY <2>3, <3>2 DEF LetterAt
      <4>2. p[(a + 1) + 1] = e[a + 1]
        BY <2>3, <2>4, <4>1
      <4>. QED
        BY <3>2, <4>1, <4>2, Zenon DEF LetterAt
    <3>. QED
      BY <3>1, <3>2
  <2>. QED
    BY <2>1, <2>5, Zenon
<1>4. PICK like : like = LikeFrom(text, p)
  OBVIOUS
<1>5. \A k \in 0 .. n : \A q \in Nat \ {0} : q + k <= T + 1 =>
        (like[at[k] + 2][q + k] <=> RestAt(text, s, k, q))
  <2>1. Len(p) = at[Len(s)] + 2 /\ p[Len(p)] = AnyText
    BY <1>1, <1>2, Zenon
  <2>2. \A k \in 1 .. Len(s) : at[k] <= at[Len(s)] /\ LetterAt(p, at[k - 1] + 1, at[k] + 1, s[k])
    BY <1>0, <1>1, <1>3, Zenon
  <2>3. at[0] = 0 /\ \A k \in 0 .. Len(s) : at[k] \in Nat
    BY <1>1, Zenon
  <2>. QED
    BY <1>0, <1>4, <2>1, <2>2, <2>3, LiteralRest, Zenon
<1>6. ASSUME NEW q \in 1 .. T + 1 PROVE like[1 + 1][q] <=> RestAt(text, s, 0, q)
  <2>1. q \in Nat \ {0} /\ q + 0 <= T + 1 /\ q + 0 = q /\ 0 \in 0 .. n /\ 0 + 2 = 1 + 1
    BY <1>0
  <2>2. like[at[0] + 2][q + 0] <=> RestAt(text, s, 0, q)
    BY <1>5, <2>1, Zenon
  <2>. QED
    BY <1>1, <2>1, <2>2, Zenon
<1>7. like[1][1] <=> \E q \in 1 .. T + 1 : like[1 + 1][q]
  <2>1. Len(p) \in Nat /\ Len(p) = Len(e) + 2 /\ Len(e) \in Nat
    BY <1>2
  <2>2. 1 \in 1 .. Len(p) + 1 /\ ~(1 > Len(p)) /\ 1 \in 1 .. T + 1
    <3>1. PICK l \in Nat : l = Len(p) /\ l >= 2
      BY <2>1
    <3>. QED
      BY <1>0, <3>1
  <2>3. LikeFrom(text, p) = [j \in 1 .. Len(p) + 1 |-> LikeRow(text, p, LikeFrom(text, p), j)]
    BY LikeDef
  <2>4. LikeFrom(text, p)[1] = LikeRow(text, p, LikeFrom(text, p), 1)
    BY <2>2, <2>3, Zenon
  <2>5. like[1][1] = LikeCell(text, p, like, 1, 1)
    BY <1>0, <1>4, <2>2, <2>4, Zenon DEF LikeRow
  <2>6. LikeCell(text, p, like, 1, 1) <=> \E q \in 1 .. Len(text) + 1 : like[1 + 1][q]
    BY <1>2, <2>2, LikeAny, Zenon
  <2>. QED
    BY <1>0, <2>5, <2>6, Zenon
<1>8. ILike(text, p) <=> \E q \in 1 .. T + 1 : RestAt(text, s, 0, q)
  BY <1>4, <1>6, <1>7, Zenon DEF ILike
<1>. QED
  BY <1>0, <1>2, <1>8, <1>9, OccursAt, Zenon

LEMMA WiderSeq ==
  ASSUME NEW A, NEW S, A \subseteq S, NEW s \in Seq(A)
  PROVE  s \in Seq(S)
  OBVIOUS

LEMMA CutTerm ==
  ASSUME NEW S, NEW s \in Seq(S)
  PROVE  FirstN(s, SearchCap) \in Seq(S)
<1>1. PICK n \in Nat : n <= Len(s) /\ n = IF Len(s) > SearchCap THEN SearchCap ELSE Len(s)
  BY AuditFiltersAssumption
<1>2. SubSeq(s, 0 + 1, n) \in Seq(S)
  BY <1>1, WindowFacts
<1>. QED
  BY <1>1, <1>2 DEF FirstN

LEMMA SearchInv == PortalInv => SearchIsLiteral
<1> SUFFICES ASSUME PortalInv, Answered("events"), quiet, Asked.search # <<>>
             PROVE  LET term  == FirstN(Asked.search, SearchCap)
                        Has(text) == \E i \in 0 .. Len(text) - Len(term) :
                                       SubSeq(text, i + 1, i + Len(term)) = term
                        found == {r \in table : /\ Selects([Asked EXCEPT !.search = <<>>], Stored[r])
                                                /\ \E text \in Stored[r].texts : Has(text)}
                    IN  /\ Elems(ans.rows) \subseteq found
                        /\ ~ans.partial => ans.total = Cardinality(found)
  BY Zenon DEF SearchIsLiteral
<1>1. TypeOK /\ ReadInv /\ request.kind = "events"
  BY DEF PortalInv, Answered
<1>2. ans.rows = PgQuery(EventsFilter) /\ (~ans.partial => ans.total = PgCount(EventsFilter))
  BY DEF PortalInv, QuietReadInv
<1>3. PICK g, h, term : /\ g = EventsFilter /\ h = [Asked EXCEPT !.search = <<>>]
                        /\ term = FirstN(Asked.search, SearchCap)
  OBVIOUS
<1>4. /\ g.search = Asked.search /\ h.search = <<>>
      /\ g.from = h.from /\ g.to = h.to /\ g.tool = h.tool /\ g.user = h.user
      /\ g.session = h.session /\ g.id = h.id /\ g.success = h.success /\ g.json = h.json
      /\ g.has = h.has
  <2>1. DOMAIN Asked = DOMAIN NoFilter
    BY DEF Asked, parseQueryFilter, NoFilter
  <2>2. DOMAIN NoFilter = {"from", "to", "tool", "user", "session", "id", "success", "search", "limit",
                           "offset", "json", "has"}
    BY DEF NoFilter
  <2>3. PICK a : a = Asked
    OBVIOUS
  <2>4. g = [a EXCEPT !.limit = IF a.limit = 0 THEN EventsLimit ELSE a.limit]
    BY <1>3, <2>3 DEF EventsFilter
  <2>. QED
    BY <1>3, <2>1, <2>2, <2>3, <2>4
<1>5. PICK S : STRING \subseteq S /\ Meta \subseteq S
  <2>1. STRING \subseteq STRING \cup Meta /\ Meta \subseteq STRING \cup Meta
    BY Zenon
  <2>. QED
    BY <2>1, Zenon
<1>6. Asked.search \in Seq(S)
  <2>2. request \in Queries
    BY <1>1, EventsFilterFacts
  <2>3. request.u.q \in Seq(STRING)
    BY <1>1, <2>2, QueryAssumption
  <2>4. Asked.search = request.u.q
    BY DEF Asked, parseQueryFilter
  <2>. QED
    BY <1>5, <2>3, <2>4, WiderSeq, Zenon
<1>7. term \in Seq(S)
  BY <1>3, <1>6, CutTerm
<1>8. ASSUME NEW r \in table
      PROVE  Selects(g, Stored[r]) <=>
               Selects(h, Stored[r]) /\ \E text \in Stored[r].texts : Occurs(text, term)
  <2>1. r \in Rows
    BY <1>1 DEF TypeOK
  <2>2. Stored[r].texts \subseteq Seq(S)
    <3>1. "texts" \in Columns /\ "texts" # "request_params"
      BY DEF Columns
    <3>2. Stored[r].texts = Call[r].texts
      BY <2>1, <3>1, StoredFacts
    <3>3. Call[r].texts \subseteq Seq(STRING)
      BY <2>1, CallAssumption
    <3>. QED
      BY <1>5, <3>2, <3>3, WiderSeq, Zenon
  <2>3. escapeLike(g.search) = EscapedUpTo(term)[Len(term)]
    BY <1>3, <1>4, Zenon DEF escapeLike
  <2>4. ASSUME NEW text \in Stored[r].texts
        PROVE  ILike(text, <<"%">> \o escapeLike(g.search) \o <<"%">>) <=> Occurs(text, term)
    BY <1>5, <1>7, <2>2, <2>3, LiteralMatch, Zenon
  <2>5. g.search # <<>>
    BY <1>4
  <2>6. Selects(g, Stored[r]) <=>
          Selects(h, Stored[r])
          /\ \E text \in Stored[r].texts : ILike(text, <<"%">> \o escapeLike(g.search) \o <<"%">>)
    BY <1>4, <2>5, Zenon DEF Selects
  <2>. QED
    BY <2>4, <2>6, Zenon
<1>9. PICK M : M = {r \in table : Selects(h, Stored[r])
                                  /\ \E text \in Stored[r].texts : Occurs(text, term)}
  OBVIOUS
<1>10. Matching(g) = M
  BY <1>8, <1>9 DEF Matching
<1>11. Elems(PgQuery(g)) \subseteq M
  <2>1. M \in SUBSET Rows
    BY <1>1, <1>9 DEF TypeOK
  <2>2. g.offset \in Nat /\ g.limit \in Int
    BY <1>1, <1>3, EventsFilterFacts
  <2>3. PgQuery(g) \in Seq(M)
    BY <1>10, <2>1, <2>2, PgQueryIsPage, PageFacts
  <2>. QED
    BY <2>3 DEF Elems
<1>12. Elems(ans.rows) \subseteq M /\ (~ans.partial => ans.total = Cardinality(M))
  BY <1>2, <1>3, <1>10, <1>11 DEF PgCount
<1>. QED
  BY <1>3, <1>9, <1>12 DEF Occurs

\* While no row comes or goes, a search finds the rows one of whose texts has
\* the term, its first SearchCap letters, in it: escapeLike (store.go) leaves
\* no letter of it a wildcard, also where the term is cut.
THEOREM SearchTakenLiterally == PortalSpec => []SearchIsLiteral
  BY SearchInv, SpecPortalInv, PTL

=============================================================================
