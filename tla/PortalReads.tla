----------------------------- MODULE PortalReads -----------------------------
(***************************************************************************)
(* The portal's reads of the audit trail (pkg/httpsrv/portal_api.go) over  *)
(* the Postgres store: one request, of any of the endpoints, while the     *)
(* audit worker inserts and a retention job deletes.  An export walks the  *)
(* table as AuditExport says; auditEvents, auditEventDetail and dashboard  *)
(* make two reads that other transactions can come between, auditTimeseries*)
(* and auditBreakdown make one.                                            *)
(*                                                                         *)
(* Row r of AuditExport's table is the event of Call[r], which has the     *)
(* call's arguments as they were sent; what is stored is sanitized.        *)
(***************************************************************************)
EXTENDS AuditExport, AuditFilters

CONSTANTS
  Call,            \* Call[r]: the event of row r
  Queries,         \* the requests other than an export
  EventsLimit,     \* the page size of auditEvents and
  RecentLimit,     \*   of the dashboard's list
  Hour, MaxWindow, \* the dashboard's window and the time series' largest
  Second, Minute   \* the smallest and the default bucket

Columns == {"ts", "id", "tool", "user", "session", "auth", "success", "dur", "texts",
            "captured"} \cup HasKeys

\* Row numbers follow ORDER BY ts DESC, id ASC.
ASSUME CallAssumption ==
  /\ \A r \in Rows :
       /\ DOMAIN Call[r] = Columns
       /\ Call[r].replayed_from = <<>> <=> ReplayOf[r] = NoRow
       /\ Call[r].ts \in Int /\ Call[r].id \in Int
       /\ Call[r].texts \subseteq Seq(STRING)
       /\ {Obj(Call[r].request_params), Obj(Call[r].response_result)} \subseteq Decoded
       /\ SanitizeValue[Obj(Call[r].request_params)] \in Decoded
       /\ marshalJSONB(Call[r], "request_headers") \in JSON
  /\ \A r, s \in Rows : r > s <=> \/ Call[r].ts > Call[s].ts
                                  \/ Call[r].ts = Call[s].ts /\ Call[r].id < Call[s].id

ASSUME QueryAssumption ==
  /\ MaxQueryLimit = PageSize
  /\ [rows |-> Rows, link |-> FALSE] \in Filters
  /\ {EventsLimit, RecentLimit, Second, Minute} \subseteq Nat \ {0}
  /\ \A q \in Queries :
       /\ q.kind \in {"events", "detail", "timeseries", "breakdown", "dashboard"}
       /\ q.kind = "timeseries" => q.bucket \in Int
       /\ q.kind \in {"events", "timeseries", "breakdown"} =>
            /\ {q.u.from, q.u.to, q.u.limit, q.u.offset} \subseteq Int
            /\ q.u.q \in Seq(STRING)
            /\ q.u.json \subseteq [source : {"param", "response", "header"}, path : Seq(STRING),
                                   value : [quoted : BOOLEAN, body : STRING]]
            /\ \A jf \in parseQueryFilter(q.u).json : Encodable(jf) => FilterDoc(jf) \in JSON

VARIABLES
  request,   \* an export, or a member of Queries
  step,      \* the read to come: "first", "second" or "done"
  ans        \* the response

readVars == <<request, step, ans>>
portalVars == <<vars, readVars>>

Export == [kind |-> "export"]

\* The filter of no export.
AnyRow == [rows |-> Rows, link |-> FALSE]

NoAnswer == [status |-> "none", rows |-> <<>>, total |-> 0, groups |-> {}, stats |-> <<>>,
             payload |-> FALSE, partial |-> FALSE]

\* What is in the two tables for row r.
Stored ==
  [r \in Rows |-> [Call[r] EXCEPT !.request_params = SanitizeParameters(@),
                                  !.replayed_from = IF Linked(r) THEN @ ELSE <<>>]]

Events == {Stored[r] : r \in table}

PortalInit ==
  /\ Init
  /\ request \in {Export} \cup Queries
  /\ request # Export => filter = AnyRow
  /\ step = "first" /\ ans = NoAnswer

-----------------------------------------------------------------------------
(* The statements.                                                         *)

Matching(f) == {r \in table : Selects(f, Stored[r])}

\* LIMIT and OFFSET.
Slice(q, f) ==
  SubSeq(q, f.offset + 1,
         IF Len(q) < f.offset + Clamp(f.limit) THEN Len(q) ELSE f.offset + Clamp(f.limit))

PgQuery(f) == Slice(InOrder(Matching(f), LAMBDA a, b : a > b), f)

\* Mutated form of PgCount: the count is limited like the page.
PgCountPage(f) == Len(PgQuery(f))

PgCount(f) == Cardinality(Matching(f))

-----------------------------------------------------------------------------
(* The handlers.                                                           *)

Asked == parseQueryFilter(request.u)

EventsFilter == [Asked EXCEPT !.limit = IF @ = 0 THEN EventsLimit ELSE @]

RecentFilter ==
  [NoFilter EXCEPT !.from = request.now - Hour, !.to = request.now, !.limit = RecentLimit]

DetailFilter == [NoFilter EXCEPT !.id = request.id, !.limit = 1]

Reads(kind, at) == request.kind = kind /\ step = at /\ UNCHANGED <<vars, request>>

Respond(a) == step' = "done" /\ ans' = a

EventsQuery ==
  /\ Reads("events", "first")
  /\ ans' = [ans EXCEPT !.rows = PgQuery(EventsFilter)]
  /\ step' = "second"

\* An error of the count is ignored: the total is then 0.
EventsCount ==
  /\ Reads("events", "second")
  /\ \E fails \in BOOLEAN :
       Respond([ans EXCEPT !.status = "200", !.partial = fails,
                           !.total = IF fails THEN 0 ELSE PgCount(EventsFilter)])

\* An id that is no UUID is refused; id 0 stands for it.
DetailQuery ==
  /\ Reads("detail", "first")
  /\ IF request.id = 0 THEN Respond([ans EXCEPT !.status = "400"])
     ELSE IF PgQuery(DetailFilter) = <<>> THEN Respond([ans EXCEPT !.status = "404"])
     ELSE /\ ans' = [ans EXCEPT !.rows = PgQuery(DetailFilter)]
          /\ step' = "second"

\* GetPayload; its error only costs the payload.
DetailPayload ==
  /\ Reads("detail", "second")
  /\ \E fails \in BOOLEAN :
       Respond([ans EXCEPT !.status = "200", !.partial = fails,
                           !.payload = ~fails /\ ans.rows[1] \in table
                                              /\ Stored[ans.rows[1]].captured])

Bucket == IF request.bucket <= 0 THEN Minute
          ELSE IF request.bucket < Second THEN Second ELSE request.bucket

WindowTooLong == Asked.from # 0 /\ Asked.to # 0 /\ Asked.to - Asked.from > MaxWindow

Timeseries ==
  /\ Reads("timeseries", "first")
  /\ IF WindowTooLong \/ TooManyBuckets(Asked.from, Asked.to, Bucket)
     THEN Respond([ans EXCEPT !.status = "400"])
     ELSE Respond([ans EXCEPT !.status = "200",
                              !.groups = PgTimeSeries(Events, Asked.from, Asked.to, Bucket)])

Dimension == IF request.by = "" THEN "tool" ELSE request.by

Breakdown ==
  /\ Reads("breakdown", "first")
  /\ \E top \in IF Dimension \in Dimensions
                THEN PgBreakdown(Events, Asked.from, Asked.to, Dimension) ELSE {{}} :
       Respond([ans EXCEPT !.status = "200", !.groups = top])

DashboardStats ==
  /\ Reads("dashboard", "first")
  /\ ans' = [ans EXCEPT !.stats = PgStats(Events, request.now - Hour, request.now)]
  /\ step' = "second"

\* An error of the query is ignored: the list is then null.
DashboardRecent ==
  /\ Reads("dashboard", "second")
  /\ \E fails \in BOOLEAN :
       Respond([ans EXCEPT !.status = "200", !.partial = fails,
                           !.rows = IF fails THEN <<>> ELSE PgQuery(RecentFilter)])

\* The first read fails, or the client has gone.
ReadError ==
  /\ request.kind # "export" /\ step = "first"
  /\ UNCHANGED <<vars, request>>
  /\ Respond([ans EXCEPT !.status = IF request.kind = "timeseries" THEN "400" ELSE "500"])

PortalNext ==
  \/ request.kind = "export" /\ Next /\ UNCHANGED readVars
  \/ request.kind # "export" /\ (\E r \in Rows : Insert(r) \/ Prune(r)) /\ UNCHANGED readVars
  \/ EventsQuery \/ EventsCount \/ DetailQuery \/ DetailPayload
  \/ Timeseries \/ Breakdown \/ DashboardStats \/ DashboardRecent \/ ReadError

PortalSpec == PortalInit /\ [][PortalNext]_portalVars

-----------------------------------------------------------------------------
(* Properties.                                                             *)

Answered(kind) == request.kind = kind /\ ans.status = "200"

Ids(rows) == [i \in DOMAIN rows |-> Stored[rows[i]].id]

IdsOf(q) == [i \in DOMAIN q |-> q[i].id]

\* No number of the filter is beyond 2^53.
ExactNumbers(f) ==
  \A jf \in f.json : LET v == ParseJSONFilterValue(jf.value)
                     IN  v.t = "num" => Exact(v.n)

\* The two backends agree, as the comments of both promise: while no row
\* comes or goes, a page of /audit/events is the slice of what MemoryLogger
\* finds among the same events, and the total is its count, through two
\* evaluations of type detection, paths, header lists, has= and clamps.  A
\* filter that JSON cannot express (NaN) is dropped by Postgres, a number
\* beyond 2^53 is compared there with the digits that were written, and only
\* Postgres searches.
BackendsAgree ==
  Answered("events") /\ quiet /\ Asked.search = <<>> /\ ExactNumbers(Asked) =>
    LET f == [EventsFilter EXCEPT !.json = {jf \in @ : Encodable(jf)}]
    IN  /\ Ids(ans.rows) = IdsOf(Slice(matchAll(Events, f), f))
        /\ f.offset = 0 => Ids(ans.rows) = IdsOf(MemQuery(Events, f))
        /\ ~ans.partial => ans.total = MemCount(Events, f)

\* A page and its total are read apart, and still fit together: a row that
\* retention has not deleted is counted, with all the rows before it,
\* whatever was inserted between the two reads.  The exception is a request
\* with has=replayed_from, when that row or a newer one lost its link: the row
\* it named was deleted, and it matches no more although it is still there.
PageWithinTotal ==
  Answered("events") /\ ~ans.partial =>
    \A i \in DOMAIN ans.rows :
      \/ ans.rows[i] \in pruned
      \/ "replayed_from" \in Asked.has /\ LinkLost(ans.rows[i])
      \/ Asked.offset + i <= ans.total

\* Text search takes the term literally: a row is found when one of its
\* texts contains the first SearchCap letters of the term, also when the
\* term has pattern characters or is cut next to one.  The other conditions
\* of the query stay what they are without it.
SearchIsLiteral ==
  Answered("events") /\ quiet /\ Asked.search # <<>> =>
    LET term  == FirstN(Asked.search, SearchCap)
        Has(text) == \E i \in 0 .. Len(text) - Len(term) :
                       SubSeq(text, i + 1, i + Len(term)) = term
        found == {r \in table : /\ Selects([Asked EXCEPT !.search = <<>>], Stored[r])
                                /\ \E text \in Stored[r].texts : Has(text)}
    IN  /\ Elems(ans.rows) \subseteq found
        /\ ~ans.partial => ans.total = Cardinality(found)

\* The first redacted name on a path, or 0.
RedactedAt(path) ==
  LET at == {i \in DOMAIN path : path[i] \in RedactedKeys}
  IN  IF at = {} THEN 0 ELSE CHOOSE i \in at : \A j \in at : i <= j

\* A parameter filter (param.<path>) finds the calls that were made with the
\* value, as if nothing were redacted, except below a redacted name: there
\* nothing is found, and at the name itself only the placeholder, never the
\* value.  Responses are stored as the tool gave them, and nothing is said of
\* filters on those.
FilterHidesSecrets ==
  Answered("events") /\ quiet /\ ~ans.partial =>
    \A jf \in Asked.json :
      Asked = [NoFilter EXCEPT !.json = {jf}] /\ jf.source = "param" /\ Encodable(jf)
                                              /\ ExactNumbers(Asked) =>
        LET want == ParseJSONFilterValue(jf.value)
            at   == RedactedAt(jf.path)
            cut  == SubSeq(jf.path, 1, at)
            raw(r) == Obj(Call[r].request_params)
            Has(r) == Walk(raw(r), cut)[at] # Absent
        IN  ans.total = Cardinality({r \in table : Call[r].captured /\
                          IF at = 0 THEN MatchJSONPath(raw(r), jf.path, want)
                          ELSE at = Len(jf.path) /\ want = Redacted /\ Has(r)})

\* The dashboard's summaries are what MemoryLogger computes from the same
\* events: the totals (without the percentiles, and but for calls with an
\* empty tool name, which only Postgres counts as a tool), the series for
\* buckets that divide the distance between Go's and Unix's zero times, and
\* the largest groups of a breakdown.  A bounded series has at most two points more than the bound.
DashboardAgree ==
  quiet =>
    /\ Answered("timeseries") =>
         /\ EpochOffset % Bucket = 0 =>
              ans.groups = MemTimeSeries(Events, Asked.from, Asked.to, Bucket)
         /\ Asked.from # 0 /\ Asked.to # 0 => Cardinality(ans.groups) <= MaxBuckets + 2
    /\ Answered("breakdown") /\ Dimension \in Dimensions =>
         LET all == MemBreakdown(Events, Asked.from, Asked.to, Dimension)
         IN  /\ ans.groups \subseteq all
             /\ ans.groups # all => Cardinality(ans.groups) = MaxGroups
             /\ \A g \in ans.groups, h \in all \ ans.groups : g.n >= h.n
    /\ Answered("dashboard") =>
         LET mem   == MemStats(Events, request.now - Hour, request.now)
             blank == \E e \in Events : e.tool = "" /\ InWindow(e, request.now - Hour, request.now)
         IN  /\ ans.stats = [mem EXCEPT !.tools = IF blank THEN @ + 1 ELSE @]
             /\ ~ans.partial => Ids(ans.rows) = IdsOf(MemQuery(Events, RecentFilter))

=============================================================================
