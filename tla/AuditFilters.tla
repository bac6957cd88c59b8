---------------------------- MODULE AuditFilters ----------------------------
(***************************************************************************)
(* What a portal query asks for and which events answer it: the filter     *)
(* read from the URL (parseQueryFilter, pkg/httpsrv/portal_api.go), what   *)
(* SanitizeParameters leaves of a call's arguments (pkg/audit/event.go),   *)
(* and the two evaluations of a filter and of the dashboard's summaries:   *)
(* SQL text for Postgres (pkg/audit/postgres/store.go), Go for             *)
(* MemoryLogger (pkg/audit/memory.go, jsonfilter.go).                      *)
(*                                                                         *)
(* JSON values are records tagged with their kind; a text is a word with   *)
(* or without a pair of quotes around it; a number is a whole number.      *)
(* Times are seconds, the zero time is 0.  A stored event `ev` is a record *)
(*   ts, id, tool, user, session, auth, success, dur                       *)
(*   texts      its tool name, error message and user, as letters          *)
(*   captured   it has a payload, with the columns of HasKeys below        *)
(***************************************************************************)
EXTENDS Integers, FiniteSets, SequencesExt

CONSTANTS
  Depth,         \* the JSON values there are, and how deeply each is nested
  MaxDepth,      \* the deepest nesting encoding/json takes
  Decoded,       \* the JSON values encoding/json can give
  NumberOf,      \* the words strconv reads as a number, and that number
  IntWords,      \* those among them that ParseInt takes; ParseFloat has the others
  Unencodable,   \* the words it reads as NaN or an infinity
  MaxExact,      \* 2^53: up to it all whole numbers are float64 values
  Shortest,      \* the shortest decimal that reads back as a float64, beyond MaxExact
  RedactedKeys,  \* the names matchesRedactKey is true of
  CanonicalKey,  \* http.CanonicalHeaderKey
  MaxQueryLimit, QueryDefault, SearchCap, MaxBuckets, MaxGroups,
  EpochOffset    \* from Go's zero time to the Unix epoch

ASSUME AuditFiltersAssumption ==
  /\ MaxExact \in Nat
  /\ \A k \in DOMAIN NumberOf : NumberOf[k] \in Int
  /\ IntWords \subseteq DOMAIN NumberOf
  /\ DOMAIN NumberOf \cap Unencodable = {}
  /\ {"true", "false"} \cap (DOMAIN NumberOf \cup Unencodable) = {}
  /\ {MaxQueryLimit, QueryDefault, MaxGroups} \subseteq Nat \ {0}
  /\ {SearchCap, MaxBuckets, EpochOffset} \subseteq Nat

-----------------------------------------------------------------------------
(* JSON values.                                                            *)

Word(w)   == [quoted |-> FALSE, body |-> w]
Quoted(w) == [quoted |-> TRUE, body |-> w]

Obj(f)  == [t |-> "obj", f |-> f]
Arr(s)  == [t |-> "arr", s |-> s]
Num(n)  == [t |-> "num", n |-> n]
Bool(b) == [t |-> "bool", b |-> b]
Str(x)  == [t |-> "str", x |-> x]
Null    == [t |-> "null"]
NotNum  == [t |-> "notnum"]     \* a float64 that JSON cannot express
Absent  == [t |-> "absent"]

Redacted == Str(Word("[redacted]"))

JSON == DOMAIN Depth

Exact(n) == -MaxExact <= n /\ n <= MaxExact

\* The float64 nearest to n, the even one of two.  Beyond MaxExact the distance
\* of neighbours doubles at every power of two.
Float64(n) ==
  IF Exact(n) THEN n
  ELSE LET size == IF n < 0 THEN -n ELSE n
           ulp  == 2 ^ (CHOOSE k \in 1 .. size : /\ MaxExact * 2 ^ (k - 1) < size
                                                /\ size <= MaxExact * 2 ^ k)
           low  == size \div ulp
           up   == \/ 2 * (size % ulp) > ulp
                   \/ 2 * (size % ulp) = ulp /\ low % 2 = 1
           near == ulp * (IF up THEN low + 1 ELSE low)
       IN  IF n < 0 THEN -near ELSE near

\* What json.Marshal writes of a scalar: a float64 is written with as few
\* digits as read back as the same float64.
Marshaled(v) == IF v.t = "num" /\ ~Exact(v.n) THEN Num(Shortest[v.n]) ELSE v

\* A value of one of the kinds above.
WellFormed(v) ==
  CASE v.t = "obj"  -> v = Obj(v.f)
    [] v.t = "arr"  -> v = Arr(v.s)
    [] v.t = "num"  -> v = Num(v.n) /\ v.n \in Int
    [] v.t = "bool" -> v = Bool(v.b)
    [] v.t = "str"  -> v = Str(v.x)
    [] OTHER        -> v \in {Null, Absent}

Parts(v) == CASE v.t = "obj" -> {v.f[k] : k \in DOMAIN v.f}
              [] v.t = "arr" -> {v.s[i] : i \in DOMAIN v.s}
              [] OTHER       -> {}

\* JSON values are finite trees.  encoding/json reads every number as a float64,
\* and reads back what it wrote.
ASSUME JSONAssumption ==
  /\ MaxDepth \in Nat /\ Depth \in [JSON -> 0 .. MaxDepth]
  /\ \A v \in JSON : /\ WellFormed(v)
                     /\ \A w \in Parts(v) : w \in JSON \ {Absent} /\ Depth[w] < Depth[v]
  /\ Decoded \subseteq JSON /\ {Absent, Redacted} \subseteq Decoded
  /\ \A v \in Decoded : /\ Parts(v) \subseteq Decoded
                        /\ v.t = "num" => Float64(v.n) = v.n
                        /\ v.t = "num" /\ ~Exact(v.n) => Float64(Shortest[v.n]) = v.n

\* SanitizeParameters and sanitizeSlice.
SanitizeValue[v \in JSON] ==
  CASE v.t = "obj" -> Obj([k \in DOMAIN v.f |-> IF k \in RedactedKeys THEN Redacted
                                                ELSE SanitizeValue[v.f[k]]])
    [] v.t = "arr" -> Arr([i \in DOMAIN v.s |-> SanitizeValue[v.s[i]]])
    [] OTHER       -> v

\* Mutated form of SanitizeParameters: only the outermost names are looked at.
SanitizeShallow(m) == [k \in DOMAIN m |-> IF k \in RedactedKeys THEN Redacted ELSE m[k]]

SanitizeParameters(m) == SanitizeValue[Obj(m)].f

-----------------------------------------------------------------------------
(* The filter.                                                             *)

HasKeys == {"request_params", "request_headers", "response_result", "response_error",
            "notifications", "replayed_from"}

\* A segment is refused when it is empty or has control characters.
validPath(path) == path # <<>> /\ \A i \in DOMAIN path : path[i] \notin {"", "\t"}

\* One URL parameter param.<path>, response.<path> or header.<path>: the
\* filters it gives, none when it is malformed.
JSONFilter(p) ==
  LET ok == /\ validPath(p.path) /\ p.value.body # ""
            /\ p.source = "header" => Len(p.path) = 1
  IN  IF ~ok THEN {}
      ELSE {[p EXCEPT !.path = IF p.source = "header" THEN <<CanonicalKey[p.path[1]]>> ELSE @]}

parseQueryFilter(u) ==
  [from |-> IF u.from > 0 THEN u.from ELSE 0, to |-> IF u.to > 0 THEN u.to ELSE 0,
   tool |-> u.tool, user |-> u.user, session |-> u.session, id |-> 0,
   success |-> IF u.success \in {"true", "false"} THEN u.success ELSE "",
   search |-> u.q,
   limit |-> IF u.limit > 0 THEN u.limit ELSE 0,
   offset |-> IF u.offset > 0 THEN u.offset ELSE 0,
   json |-> UNION {JSONFilter(p) : p \in u.json},
   has |-> u.has \cap HasKeys]

NoFilter ==
  [from |-> 0, to |-> 0, tool |-> "", user |-> "", session |-> "", id |-> 0, success |-> "",
   search |-> <<>>, limit |-> 0, offset |-> 0, json |-> {}, has |-> {}]

\* How both backends bound a page.
Clamp(limit) ==
  IF limit <= 0 THEN QueryDefault
  ELSE IF limit > MaxQueryLimit THEN MaxQueryLimit ELSE limit

ParseJSONFilterValue(x) ==
  CASE x.quoted                      -> Str(Word(x.body))
    [] x \in {Word("true"), Word("false")} -> Bool(x.body = "true")
    [] ~x.quoted /\ x.body \in IntWords -> Num(NumberOf[x.body])
    [] ~x.quoted /\ x.body \in DOMAIN NumberOf \ IntWords -> Num(Float64(NumberOf[x.body]))
    [] ~x.quoted /\ x.body \in Unencodable -> NotNum
    [] OTHER                         -> Str(x)

\* The events of S in the order Before, which is total on them.
InOrder(S, Before(_, _)) ==
  [i \in 1 .. Cardinality(S) |->
     CHOOSE e \in S : Cardinality({x \in S : Before(x, e)}) = i - 1]

InWindow(ev, from, to) == (from # 0 => ev.ts >= from) /\ (to # 0 => ev.ts <= to)

FirstN(q, n) == SubSeq(q, 1, IF Len(q) > n THEN n ELSE Len(q))

TotalDur(S) == FoldSet(LAMBDA ev, n : n + ev.dur, 0, S)

-----------------------------------------------------------------------------
(* Postgres.                                                               *)

\* The jsonb operator @> on the text json.Marshal wrote of the stored document
\* d, below the top level: an array does not contain a bare scalar there.
JsonbContains[p \in JSON] ==
  [d \in JSON |->
     CASE p.t = "obj" -> /\ d.t = "obj"
                         /\ \A k \in DOMAIN p.f : k \in DOMAIN d.f /\ JsonbContains[p.f[k]][d.f[k]]
       [] p.t = "arr" -> /\ d.t = "arr"
                         /\ \A i \in DOMAIN p.s : \E j \in DOMAIN d.s : JsonbContains[p.s[i]][d.s[j]]
       [] OTHER       -> Marshaled(d) = p]

\* Names are wrapped around the value from the last to the first.
Wrapped(path, value) ==
  LET doc[i \in 0 .. Len(path)] ==
        IF i = 0 THEN value ELSE Obj([k \in {path[Len(path) + 1 - i]} |-> doc[i - 1]])
  IN  doc

JSONFilterToContainment(path, value) == Wrapped(path, value)[Len(path)]

jsonFilterColumn(source) ==
  CASE source = "param"    -> "request_params"
    [] source = "response" -> "response_result"
    [] source = "header"   -> "request_headers"

\* A payload column as the insert has it: an empty one is SQL NULL.
marshalJSONB(ev, col) ==
  IF DOMAIN ev[col] = {} THEN Absent
  ELSE CASE col = "notifications"   -> Arr(ev[col])
         [] col = "request_headers" ->
              Obj([h \in DOMAIN ev[col] |-> Arr([i \in DOMAIN ev[col][h] |-> Str(ev[col][h][i])])])
         [] OTHER                   -> Obj(ev[col])

\* json.Marshal of the value looked for: an int64 is written as it is.
MarshaledValue(x) ==
  IF x.body \in IntWords THEN ParseJSONFilterValue(x) ELSE Marshaled(ParseJSONFilterValue(x))

\* Mutated form of FilterDoc: a header's value is typed like the others.
FilterDocTyped(jf) ==
  JSONFilterToContainment(jf.path, IF jf.source = "header" THEN Arr(<<MarshaledValue(jf.value)>>)
                                   ELSE MarshaledValue(jf.value))

\* The document the column must contain.
FilterDoc(jf) ==
  IF jf.source = "header" THEN JSONFilterToContainment(jf.path, Arr(<<Str(jf.value)>>))
  ELSE JSONFilterToContainment(jf.path, MarshaledValue(jf.value))

\* json.Marshal fails on NaN and the infinities; the filter is dropped then.
Encodable(jf) == jf.source = "header" \/ ParseJSONFilterValue(jf.value) # NotNum

Meta == {"\\", "%", "_"}

Escaped(c) == IF c \in Meta THEN <<"\\", c>> ELSE <<c>>

EscapedUpTo(s) ==
  LET esc[i \in 0 .. Len(s)] == IF i = 0 THEN <<>> ELSE esc[i - 1] \o Escaped(s[i])
  IN  esc

\* Mutated form of escapeLike: the escaped term is cut, not the term.
EscapeThenCut(s) == FirstN(EscapedUpTo(s)[Len(s)], SearchCap)

escapeLike(s) == LET cut == FirstN(s, SearchCap) IN EscapedUpTo(cut)[Len(cut)]

\* The SQL operator ILIKE: whether the text from i on matches the pattern from
\* j on.  A letter stands for its two cases.
LikeFrom(text, p) ==
  LET like[j \in 1 .. Len(p) + 1] ==
        [i \in 1 .. Len(text) + 1 |->
           IF j > Len(p) THEN i > Len(text)
           ELSE IF p[j] = "%" THEN \E n \in i .. Len(text) + 1 : like[j + 1][n]
           ELSE LET lit == IF p[j] = "\\" /\ j < Len(p) THEN j + 1 ELSE j
                IN  /\ i <= Len(text)
                    /\ text[i] = p[lit] \/ (lit = j /\ p[j] = "_")
                    /\ like[lit + 1][i + 1]]
  IN  like

ILike(text, p) == LikeFrom(text, p)[1][1]

\* The WHERE clause of buildSelect.
Selects(f, ev) ==
  /\ InWindow(ev, f.from, f.to)
  /\ f.tool # "" => ev.tool = f.tool
  /\ f.user # "" => ev.user = f.user
  /\ f.session # "" => ev.session = f.session
  /\ f.id # 0 => ev.id = f.id
  /\ f.success # "" => ev.success = (f.success = "true")
  /\ f.search # <<>> =>
       \E text \in ev.texts : ILike(text, <<"%">> \o escapeLike(f.search) \o <<"%">>)
  /\ \A jf \in f.json : Encodable(jf) =>
       /\ ev.captured
       /\ JsonbContains[FilterDoc(jf)][marshalJSONB(ev, jsonFilterColumn(jf.source))]
  /\ \A k \in f.has : ev.captured /\ marshalJSONB(ev, k) # Absent

\* to_timestamp(floor(epoch / bucket) * bucket)
EpochBucket(ts, bucket) == ts - (ts % bucket)

TooManyBuckets(from, to, bucket) ==
  from # 0 /\ to # 0 /\ to > from /\ (to - from) \div bucket > MaxBuckets

\* Rows grouped by a key: how many, how many failed, their total duration.
GroupBy(S, Key(_)) ==
  {[key |-> k, n |-> Cardinality({e \in S : Key(e) = k}),
    errors |-> Cardinality({e \in S : Key(e) = k /\ ~e.success}),
    dur |-> TotalDur({e \in S : Key(e) = k})] : k \in {Key(e) : e \in S}}

PgTimeSeries(S, from, to, bucket) ==
  GroupBy({e \in S : InWindow(e, from, to)}, LAMBDA e : EpochBucket(e.ts, bucket))

Dimensions == {"tool", "user", "success", "auth_type"}

breakdownKey(ev, dim) ==
  CASE dim = "tool"      -> ev.tool
    [] dim = "user"      -> ev.user
    [] dim = "success"   -> IF ev.success THEN "success" ELSE "error"
    [] dim = "auth_type" -> ev.auth

\* The answers ORDER BY n DESC LIMIT 50 may give: ties fall as they like.
PgBreakdown(S, from, to, dim) ==
  LET groups == GroupBy({e \in S : InWindow(e, from, to)}, LAMBDA e : breakdownKey(e, dim))
      size   == IF Cardinality(groups) > MaxGroups THEN MaxGroups ELSE Cardinality(groups)
  IN  {top \in SUBSET groups : /\ Cardinality(top) = size
                               /\ \A g \in top, h \in groups \ top : g.n >= h.n}

\* Mutated form of PgStats: NULL and '' are not told apart.
PgStatsAnySubject(S, from, to) ==
  LET W == {e \in S : InWindow(e, from, to)}
  IN  [total |-> Cardinality(W), errors |-> Cardinality({e \in W : ~e.success}),
       dur |-> TotalDur(W),
       subjects |-> Cardinality({e.user : e \in W}),
       tools |-> Cardinality({e.tool : e \in W})]

PgStats(S, from, to) ==
  LET W == {e \in S : InWindow(e, from, to)}
  IN  [total |-> Cardinality(W), errors |-> Cardinality({e \in W : ~e.success}),
       dur |-> TotalDur(W),
       subjects |-> Cardinality({e.user : e \in W} \ {""}),
       tools |-> Cardinality({e.tool : e \in W})]

-----------------------------------------------------------------------------
(* MemoryLogger.                                                           *)

jsonEqual(a, b) ==
  IF a.t = "num" /\ b.t = "num" THEN Float64(a.n) = Float64(b.n)
  ELSE a.t \in {"bool", "str"} /\ a = b

\* The values met on the way along a path.
Walk(m, path) ==
  LET at[i \in 0 .. Len(path)] ==
        IF i = 0 THEN m
        ELSE IF at[i - 1].t = "obj" /\ path[i] \in DOMAIN at[i - 1].f THEN at[i - 1].f[path[i]]
        ELSE Absent
  IN  at

MatchJSONPath(m, path, want) == jsonEqual(Walk(m, path)[Len(path)], want)

matchesJSONFilter(ev, jf) ==
  CASE jf.source = "param"    -> MatchJSONPath(Obj(ev.request_params), jf.path,
                                               ParseJSONFilterValue(jf.value))
    [] jf.source = "response" -> MatchJSONPath(Obj(ev.response_result), jf.path,
                                               ParseJSONFilterValue(jf.value))
    [] jf.source = "header"   -> /\ jf.path[1] \in DOMAIN ev.request_headers
                                 /\ \E i \in DOMAIN ev.request_headers[jf.path[1]] :
                                      ev.request_headers[jf.path[1]][i] = jf.value

matchesHasKeys(ev, keys) == keys # {} => ev.captured /\ \A k \in keys : DOMAIN ev[k] # {}

\* Search is not among the conditions.
matchesFilter(ev, f) ==
  /\ f.id # 0 => ev.id = f.id
  /\ f.tool # "" => ev.tool = f.tool
  /\ f.user # "" => ev.user = f.user
  /\ f.session # "" => ev.session = f.session
  /\ InWindow(ev, f.from, f.to)
  /\ f.success # "" => ev.success = (f.success = "true")
  /\ f.json # {} => ev.captured /\ \A jf \in f.json : matchesJSONFilter(ev, jf)
  /\ matchesHasKeys(ev, f.has)

matchAll(S, f) ==
  InOrder({e \in S : matchesFilter(e, f)},
          LAMBDA a, b : a.ts > b.ts \/ (a.ts = b.ts /\ a.id < b.id))

MemQuery(S, f) == FirstN(matchAll(S, f), Clamp(f.limit))

MemCount(S, f) == Len(matchAll(S, f))

\* time.Truncate counts from Go's zero time.
GoTruncate(ts, bucket) == ts - ((ts + EpochOffset) % bucket)

MemTimeSeries(S, from, to, bucket) ==
  GroupBy({e \in S : InWindow(e, from, to)}, LAMBDA e : GoTruncate(e.ts, bucket))

MemBreakdown(S, from, to, dim) ==
  GroupBy({e \in S : InWindow(e, from, to)}, LAMBDA e : breakdownKey(e, dim))

MemStats(S, from, to) ==
  LET W == {e \in S : InWindow(e, from, to)}
  IN  [total |-> Cardinality(W), errors |-> Cardinality({e \in W : ~e.success}),
       dur |-> TotalDur(W),
       subjects |-> Cardinality({e.user : e \in W} \ {""}),
       tools |-> Cardinality({e.tool : e \in W} \ {""})]

=============================================================================
