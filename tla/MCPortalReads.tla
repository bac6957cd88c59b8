---------------------------- MODULE MCPortalReads ----------------------------
(* Model-checking instance of PortalReads: five calls and the requests that *)
(* tell them apart.  Times are half seconds.                                *)
EXTENDS PortalReads

CONSTANT MaxRow   \* bound: the rows are 1 to MaxRow

MCRows == 1 .. MaxRow

\* Two rows are replays of the second, one of the first.
MCReplayOf == [r \in MCRows |-> CASE r = 3 -> 2 [] r = 4 -> 2 [] r = 5 -> 1 [] OTHER -> 0]

MCFilters == [rows : {MCRows, MCRows \ {3}}, link : BOOLEAN]

MCNumberOf == [w \in {"4", "4.0", "8", "-9", "31", "32", "32.0"} |->
                 CASE w \in {"4", "4.0"} -> 4
                   [] w = "8"  -> 8
                   [] w = "-9" -> -9
                   [] w = "31" -> 31
                   [] w \in {"32", "32.0"} -> 32]

MCIntWords == {"4", "8", "-9", "31", "32"}

\* With three binary digits, 30 reads back as 32.
Zeros[d \in Nat] == IF d = 0 \/ d % 10 # 0 THEN 0 ELSE 1 + Zeros[d \div 10]

MCShortest ==
  [n \in {32} |->
     LET back == {d \in 1 .. 2 * n : Float64(d) = n}
         best == {d \in back : \A e \in back : Zeros[e] <= Zeros[d]}
     IN  CHOOSE d \in best : \A e \in best : (d - n) * (d - n) <= (e - n) * (e - n)]

MCCanonicalKey == [h \in {"x-n", "X-N"} |-> "X-N"]

MCRedactedKeys == {"token"}

None == <<>>

\* An event without a payload; the calls below differ from it.
Bare == [ts |-> 5, id |-> 4, tool |-> "a", user |-> "u", session |-> "s", auth |-> "apikey",
         success |-> TRUE, dur |-> 3, texts |-> {<<"a", "b">>, <<>>}, captured |-> FALSE,
         request_params |-> None, request_headers |-> None, response_result |-> None,
         response_error |-> None, notifications |-> None, replayed_from |-> None]

MCCall == [r \in MCRows |->
  CASE r = 1 -> [Bare EXCEPT !.ts = 3, !.id = 5, !.captured = TRUE,
                   !.request_params = [x |-> Num(4),
                     user |-> Obj([id |-> Str(Word("4")), token |-> Str(Word("4"))])],
                   !.request_headers = [h \in {"X-N"} |-> <<Word("5"), Word("4")>>],
                   !.response_result = [isError |-> Bool(TRUE)], !.success = FALSE,
                   !.texts = {<<"a", "%">>, <<"b">>}]
    [] r = 2 -> [Bare EXCEPT !.user = "v", !.auth = "oidc"]
    [] r = 3 -> [Bare EXCEPT !.id = 3, !.tool = "b", !.user = "", !.captured = TRUE,
                   !.request_params = [x |-> Arr(<<Num(4)>>), token |-> Obj([id |-> Num(4)])],
                   !.response_result = [isError |-> Bool(FALSE)],
                   !.notifications = <<Null>>, !.replayed_from = <<"2">>, !.dur = 1, !.session = "",
                   !.texts = {<<"b", "\\", "a">>}]
    [] r = 4 -> [Bare EXCEPT !.ts = 6, !.id = 2, !.captured = TRUE, !.tool = "",
                   !.request_params = [x |-> Str(Word("4")),
                     user |-> Arr(<<Obj([token |-> Num(4)])>>)],
                   !.request_headers = [h \in {"X-N"} |-> <<Word("true")>>],
                   !.response_result = [isError |-> Str(Word("true"))], !.replayed_from = <<"2">>,
                   !.texts = {<<"a", "b", "%", "b">>}]
    [] r = 5 -> [Bare EXCEPT !.ts = 8, !.id = 1, !.tool = "c", !.captured = TRUE,
                   !.request_params = [x |-> Num(32), user |-> Null,
                                       token |-> Str(Word("[redacted]"))],
                   !.response_error = [message |-> Str(Word("4"))], !.replayed_from = <<"1">>, !.success = FALSE,
                   !.texts = {<<"a", "_">>, <<"c">>}]]

\* What can be left of a value when some redacted names are redacted.
RECURSIVE Redactions(_)
Redactions(v) ==
  CASE v.t = "obj" ->
         {Obj(f) : f \in {g \in [DOMAIN v.f -> UNION {Redactions(v.f[k]) : k \in DOMAIN v.f}
                                                  \cup {Redacted}] :
            \A k \in DOMAIN v.f : \/ g[k] \in Redactions(v.f[k])
                                  \/ k \in MCRedactedKeys /\ g[k] = Redacted}}
    [] v.t = "arr" -> {Arr(s) : s \in {q \in [DOMAIN v.s -> UNION {Redactions(v.s[i]) : i \in DOMAIN v.s}] :
                         \A i \in DOMAIN v.s : q[i] \in Redactions(v.s[i])}}
    [] OTHER       -> {v}

RECURSIVE Nested(_), DepthOf(_)
Nested(v) == {v} \cup UNION {Nested(w) : w \in Parts(v)}
DepthOf(v) == IF Parts(v) = {} THEN 0 ELSE 1 + Max({DepthOf(w) : w \in Parts(v)})

MCDecoded ==
  {Absent, Redacted} \cup
  UNION {UNION {Nested(w) : w \in Redactions(Obj(MCCall[r].request_params))}
         \cup Nested(Obj(MCCall[r].response_result)) : r \in MCRows}

Plain == [from |-> 0, to |-> 0, tool |-> "", user |-> "", session |-> "", success |-> "",
          q |-> <<>>, limit |-> 0, offset |-> 0, json |-> {}, has |-> {}]

\* Plain filters, alone and with windows, limits and offsets.
PlainUrls ==
  { [Plain EXCEPT !.tool = "a"], [Plain EXCEPT !.user = "u", !.limit = 2],
    [Plain EXCEPT !.session = "s", !.limit = 5], [Plain EXCEPT !.success = "false"],
    [Plain EXCEPT !.success = "no", !.limit = -1],
    [Plain EXCEPT !.from = 5, !.to = 6, !.limit = 2],
    [Plain EXCEPT !.from = -1, !.to = 5, !.offset = 1, !.limit = 2],
    [Plain EXCEPT !.offset = 1], [Plain EXCEPT !.offset = -1, !.limit = 2] }

HasUrls == {[Plain EXCEPT !.has = {k}, !.limit = 2] : k \in HasKeys \cup {"parameters"}}

SearchUrls ==
  {[Plain EXCEPT !.q = term, !.limit = 2] :
     term \in {<<"a">>, <<"%">>, <<"_">>, <<"\\">>, <<"a", "%">>, <<"a", "b", "%">>, <<"b", "%", "a">>}}

JsonParams ==
  [source : {"param"},
   path : {<<"x">>, <<"token">>, <<"user", "id">>, <<"user", "token">>, <<"token", "id">>},
   value : {Word(w) : w \in DOMAIN MCNumberOf \cup {"NaN", "[redacted]"}} \cup {Quoted("4")}]
  \cup [source : {"response"}, path : {<<"isError">>}, value : {Word("true"), Quoted("true"), Word("false")}]
  \cup [source : {"header"}, path : {<<"x-n">>, <<"X-N", "y">>}, value : {Word("4"), Word("true")}]
  \cup [source : {"param"}, path : {<<"x">>, <<"x", "">>}, value : {Word("")}]

\* The documents filters look for.
FilterDocs ==
  LET leaves == {MarshaledValue(p.value) : p \in JsonParams} \cup {Str(p.value) : p \in JsonParams}
  IN  UNION {Nested(JSONFilterToContainment(path, leaf)) :
               path \in {p.path : p \in JsonParams} \cup {<<"X-N">>},
               leaf \in (leaves \ {NotNum}) \cup {Arr(<<l>>) : l \in leaves \ {NotNum}}}

MCJSON == MCDecoded \cup FilterDocs
          \cup UNION {Nested(marshalJSONB(MCCall[r], "request_headers")) : r \in MCRows}

MCDepth == [v \in MCJSON |-> DepthOf(v)]

JsonUrls ==
  {[Plain EXCEPT !.json = {p}] : p \in JsonParams}
  \cup {[Plain EXCEPT !.json = {p, q}] :
          p \in {x \in JsonParams : x.source = "header" /\ x.path = <<"x-n">>},
          q \in {x \in JsonParams : x.source = "response"}}

Windows == {Plain, [Plain EXCEPT !.from = 5], [Plain EXCEPT !.from = 3, !.to = 8],
            [Plain EXCEPT !.from = 5, !.to = 8], [Plain EXCEPT !.from = 1, !.to = 10]}

MCQueries ==
  [kind : {"events"}, u : PlainUrls \cup HasUrls \cup SearchUrls \cup JsonUrls]
  \cup [kind : {"detail"}, id : {0, 3, 4}]
  \cup [kind : {"timeseries"}, u : Windows, bucket : {0, 1, 3}]
  \cup [kind : {"breakdown"}, u : {Plain, [Plain EXCEPT !.from = 5, !.to = 9]},
        by : Dimensions \cup {"", "color"}]
  \cup [kind : {"dashboard"}, now : {8, 9}]

=============================================================================
