----------------------------- MODULE AuditExport -----------------------------
(***************************************************************************)
(* The NDJSON export: auditExport (pkg/httpsrv/portal_api.go) over Stream  *)
(* of the Postgres store (pkg/audit/postgres/store.go), which walks the    *)
(* matching rows in pages with ORDER BY ts DESC, id ASC and OFFSET, one    *)
(* SELECT per page, while the audit worker keeps inserting and an          *)
(* operator's retention job deletes the oldest rows.                       *)
(*                                                                         *)
(* A row is its place in the order: a larger number is newer and comes     *)
(* first.  An event's timestamp is taken when the call starts and the row  *)
(* is written later, so a new row can appear at any place.                 *)
(*                                                                         *)
(* The filter selects rows by what never changes about them, and with      *)
(* has=replayed_from by a link that does: the row of a replay refers to    *)
(* the row of the call it repeats, and loses the reference when that row   *)
(* is deleted (ON DELETE SET NULL).                                        *)
(***************************************************************************)
EXTENDS Integers, FiniteSets, Sequences

CONSTANTS
  Rows,       \* the rows that may come to exist: numbers
  ReplayOf,   \* the row a row is a replay of, or
  NoRow,      \*   none
  Filters,    \* the filters of an export
  PageSize,   \* audit.MaxQueryLimit
  Cap         \* exportCap: the caller's limit or maxExportEvents

ASSUME AuditExportAssumption ==
  /\ IsFiniteSet(Rows) /\ Rows \subseteq Int
  /\ PageSize \in Nat \ {0} /\ Cap \in Nat \ {0}
  /\ NoRow \notin Rows /\ ReplayOf \in [Rows -> Rows \cup {NoRow}]
  /\ \A r \in Rows : ReplayOf[r] # r
  /\ Filters \subseteq [rows : SUBSET Rows, link : BOOLEAN]

VARIABLES
  table,      \* the rows in audit_events
  pruned,     \* the rows the retention job has deleted
  filter,     \* the export's: the rows that meet its conditions but for has=replayed_from,
              \*   and whether it has that one
  pc,         \* where Stream is: "page", "row" or "end"
  offset,     \* page.Offset
  page,       \* the rows of this page not yet passed to fn
  count,      \* rows of this page passed to fn
  out,        \* the lines written, first to last
  gone,       \* r.Context() is cancelled
  status,     \* the response's status line: "none", "200" or "500"
  outcome,    \* how Stream ended
  start,      \* history: the matching rows when the export began
  quiet       \* history: no row came or went since then

tableVars  == <<table, pruned>>
streamVars == <<pc, offset, page, count, out, status, outcome>>
vars == <<tableVars, filter, streamVars, gone, start, quiet>>

Newest(S) == CHOOSE r \in S : \A x \in S : x <= r

Elems(q) == {q[i] : i \in 1 .. Len(q)}

\* replayed_from is set as long as the row it names is there.
Linked(r) == ReplayOf[r] \in table

\* The rows that match the filter.
Result == {r \in table : r \in filter.rows /\ (filter.link => Linked(r))}

\* The place of r among them: how many come before it.
Place(r) == Cardinality({x \in Result : x > r})

Init ==
  /\ table \in SUBSET Rows
  /\ pruned = {}
  /\ filter \in Filters
  /\ pc = "page" /\ offset = 0 /\ page = {} /\ count = 0
  /\ out = <<>> /\ gone = FALSE /\ status = "none" /\ outcome = "none"
  /\ start = Result /\ quiet = TRUE

-----------------------------------------------------------------------------
(* Writers, the retention job, and the client.                             *)

\* A replay is made of a row that was read from the table; the foreign key
\* refuses its row when the other has been deleted meanwhile.
Insert(r) ==
  /\ r \notin table \cup pruned
  /\ ReplayOf[r] # NoRow => Linked(r)
  /\ \A x \in table : ReplayOf[x] # r
  /\ table' = table \cup {r}
  /\ quiet' = FALSE
  /\ UNCHANGED <<pruned, filter, streamVars, gone, start>>

\* The oldest row is deleted; the replays of it are no longer Linked.
Prune(r) ==
  /\ r \in table /\ \A x \in table : r <= x
  /\ table' = table \ {r}
  /\ pruned' = pruned \cup {r}
  /\ quiet' = FALSE
  /\ UNCHANGED <<filter, streamVars, gone, start>>

ClientGone ==
  /\ pc # "end" /\ ~gone
  /\ gone' = TRUE
  /\ UNCHANGED <<tableVars, filter, streamVars, start, quiet>>

-----------------------------------------------------------------------------
(* Stream, with auditExport's callback and its treatment of the result.    *)

\* Mutated form of Finish: a failed export commits the export's headers.
FinishOK(result) ==
  /\ pc' = "end" /\ outcome' = result
  /\ status' = "200"
  /\ UNCHANGED <<tableVars, filter, offset, page, count, out, gone, start, quiet>>

\* The switch after Stream.  Headers go out with the first row, or here.
Finish(result) ==
  /\ pc' = "end" /\ outcome' = result
  /\ status' = IF status = "200" \/ result = "cancelled" THEN status
               ELSE IF result = "failed" THEN "500" ELSE "200"
  /\ UNCHANGED <<tableVars, filter, offset, page, count, out, gone, start, quiet>>

FetchPage ==
  /\ pc = "page" /\ ~gone
  /\ page' = {r \in Result : offset <= Place(r) /\ Place(r) < offset + PageSize}
  /\ count' = 0
  /\ pc' = "row"
  /\ UNCHANGED <<tableVars, filter, offset, out, gone, status, outcome, start, quiet>>

\* ctx.Err() before a page or a row, or the driver's error for a cancelled query.
SeeCancel ==
  /\ pc \in {"page", "row"} /\ gone
  /\ Finish("cancelled")

SeeCap ==
  /\ pc = "row" /\ page # {} /\ ~gone
  /\ Len(out) >= Cap
  /\ Finish("capped")

\* Mutated form of WriteRow: the cap is compared after the row is written.
WriteRowLate ==
  /\ pc = "row" /\ page # {} /\ ~gone
  /\ Len(out) <= Cap
  /\ out' = Append(out, Newest(page))
  /\ page' = page \ {Newest(page)}
  /\ count' = count + 1
  /\ status' = "200"
  /\ UNCHANGED <<tableVars, filter, pc, offset, gone, outcome, start, quiet>>

\* The callback writes one line; the first one commits the headers.
WriteRow ==
  /\ pc = "row" /\ page # {} /\ ~gone
  /\ Len(out) < Cap
  /\ out' = Append(out, Newest(page))
  /\ page' = page \ {Newest(page)}
  /\ count' = count + 1
  /\ status' = "200"
  /\ UNCHANGED <<tableVars, filter, pc, offset, gone, outcome, start, quiet>>

\* A write to the client fails.  The headers were committed before it.
EncodeError ==
  /\ pc = "row" /\ page # {} /\ ~gone
  /\ Len(out) < Cap
  /\ status' = "200"
  /\ pc' = "end" /\ outcome' = "failed"
  /\ UNCHANGED <<tableVars, filter, offset, page, count, out, gone, start, quiet>>

\* A query or a scan fails.
StreamError ==
  /\ pc \in {"page", "row"}
  /\ Finish("failed")

\* Mutated form of LastPage: a full page is taken for the last one too.
LastPageAny ==
  /\ pc = "row" /\ page = {}
  /\ Finish("complete")

LastPage ==
  /\ pc = "row" /\ page = {} /\ count < PageSize
  /\ Finish("complete")

NextPage ==
  /\ pc = "row" /\ page = {} /\ count = PageSize
  /\ offset' = offset + PageSize
  /\ pc' = "page"
  /\ UNCHANGED <<tableVars, filter, page, count, out, gone, status, outcome, start, quiet>>

Stream ==
  \/ FetchPage \/ SeeCancel \/ SeeCap \/ WriteRow \/ EncodeError
  \/ StreamError \/ LastPage \/ NextPage

Next ==
  \/ \E r \in Rows : Insert(r) \/ Prune(r)
  \/ ClientGone
  \/ Stream

Spec == Init /\ [][Next]_vars

-----------------------------------------------------------------------------
(* Properties.                                                             *)

\* The type of every variable; the export never exceeds its cap.
TypeOK ==
  /\ table \subseteq Rows /\ pruned \subseteq Rows /\ start \subseteq Rows
  /\ filter \in Filters
  /\ pc \in {"page", "row", "end"}
  /\ offset \in Nat
  /\ page \subseteq Rows
  /\ count \in 0 .. PageSize
  /\ out \in Seq(Rows) /\ Len(out) <= Cap
  /\ gone \in BOOLEAN /\ quiet \in BOOLEAN
  /\ status \in {"none", "200", "500"}
  /\ outcome \in {"none", "complete", "capped", "cancelled", "failed"}

\* Since the beginning, the row or a newer one lost its link.
LinkLost(r) == \E x \in table \cup pruned : x >= r /\ ReplayOf[x] \in pruned

\* OFFSET paging over a table that changes misses nothing but what its filter
\* loses: an export that ends by itself has every row that matched when it
\* began and that the retention job did not delete meanwhile, whatever came in
\* between the pages.  Only under has=replayed_from may a row be missing, and
\* only when it or a newer row lost its link: the rows behind that one move to
\* earlier places, and the next page begins behind them.  (The contract of
\* Stream, "iterates the whole filtered set", has no such exception.)
ExportComplete ==
  outcome = "complete" =>
    \A r \in start \ pruned : r \in Elems(out) \/ (filter.link /\ LinkLost(r))

\* While no row comes or goes, each row is written once, newest first, with
\* no gap between the first and the last line; the export never exceeds its
\* cap, and stops there only when another row was left.
QuietExportExact ==
  /\ Len(out) <= Cap
  /\ quiet => /\ \A i, j \in 1 .. Len(out) : i < j => out[i] > out[j]
              /\ \A r \in start, i \in 1 .. Len(out) : r > out[i] => r \in Elems(out)
              /\ outcome = "capped" => Len(out) = Cap /\ start \ Elems(out) # {}

\* The status line tells the truth about the body: an error status only
\* without a single row, a success status only when a row was found (its
\* write may have failed) or the export ended well; a client that left
\* before the first row got neither.
StatusIsHonest ==
  /\ status = "500" => out = <<>> /\ outcome = "failed"
  /\ status = "200" => \/ out # <<>>
                       \/ outcome \in {"complete", "capped"}
                       \/ outcome = "failed" /\ page # {}
  /\ out # <<>> => status = "200"
  /\ outcome \in {"complete", "capped"} => status = "200"

=============================================================================
