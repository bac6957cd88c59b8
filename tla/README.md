# mcp-test in TLA+

mcp-test is an MCP server with deterministic test tools. Around the tools sit
the parts with state and concurrency: every tool call is audited through an
asynchronous pipeline into Postgres, a portal reads the audit log, tails it
live, exports it and replays captured calls, and requests are authenticated by
API keys, OIDC tokens or a browser session. This directory models those parts,
checks them with TLC on small instances, and proves the most important
properties with TLAPS for instances of any size.

## 1. Inventory

| component (source) | state | operations | what is hard |
|---|---|---|---|
| async audit pipeline (`pkg/audit/async.go`) | bounded channel, drop counter, subscriber registry | `Log`, `Close`, worker `run`/`write`/`broadcast`, `Subscribe`/cancel | full channel, close racing with log, cancel racing with broadcast, slow subscribers |
| server life cycle (`internal/server/server.go`, `cmd/mcp-test/main.go`, `pkg/httpsrv/health.go`) | readiness, listener, timers, pool | `Run`, `Close`, signals | order of shutdown, waits that may never end |
| replay rate limiter (`pkg/httpsrv/ratelimit.go`) | bucket per identity, last sweep | `Allow`, `RetryAfter`, `gcLocked` | lazy refill, forgetting idle buckets, rounding |
| API key store (`pkg/apikeys`, `pkg/auth/dbkeys.go`, `pkg/auth/apikey.go`, `pkg/database/pg.go`) | `api_keys` table, connection pool | `Create`, `Delete`, `Authenticate`, `touchLastUsed` | revocation during a request, two connections per request |
| tool-call audit middleware (`pkg/mcpmw`) | per-call notification recorder, the event being built | `Audit`, `Append`, `Snapshot`, `buildPayload` | early returns, two critical sections, stragglers |
| replay and Try-It (`portal_api.go`, `admin_api.go`) | none of their own | `auditReplay`, `tryit`, `record...Audit` | rows that vanish or were altered between lookup and use |
| Postgres audit store (`pkg/audit/postgres/store.go`, migrations) | `audit_events`, `audit_payloads` | `Log`, `GetPayload`, `Query`, `Stream`, aggregations | two rows per event, foreign keys, paging over a changing table |
| audit export (`auditExport`) | none of its own | one NDJSON response | cap, cancellation, errors before and after the first row |
| live tail (`auditStream`) | its subscription | subscribe, forward, heartbeat | slow client, shutdown |
| OIDC validator (`pkg/auth/oidc.go`) | JWKS cache, the flight of `singleflight` | `ValidateBearer`, `publicKey`, `refreshJWKS` | shared refresh, stale keys, cache read twice |
| auth chain (`pkg/auth/chain.go`) | warning ledger | `Authenticate`, `logAuthFailure`, `shouldWarn` | a store that fails, a clock read before the mutex, window edges |
| gates (`authgate.go`, `portalauth.go`, `mcpmw/audit.go`) | none | `MCPAuthGateway`, `PortalAuth.Middleware`, `enrichContext` | one chain behind two entrances, three readings of the same headers |
| filters and sanitizing (`pkg/audit/event.go`, `jsonfilter.go`, `memory.go`) | in-memory events | `SanitizeParameters`, `MatchJSONPath`, `Query`, `TimeSeries`, ... | two evaluations of one filter |
| portal queries (`portal_api.go`) | none | `auditEvents`, `auditEventDetail`, `auditTimeseries`, `auditBreakdown`, `dashboard` | two reads per response, clamps, errors between them |
| browser login (`browserauth.go`, `session.go`, `portalauth.go`) | nonce ledger, cookies | login, callback, logout | stateless server, ledger that forgets, tabs, late responses |
| other HTTP middleware, tools, configuration, migrations, UI | none shared | | |

Interactions. A request passes the HTTP gates and the auth chain, runs a tool,
and the middleware calls `Log` on the pipeline. The pipeline's one worker calls
the store and then offers the event to live tails. The portal's replay goes
through the rate limiter, reads the store, calls the tool over an in-memory
connection (on which the middleware stays silent) and logs its own event. The
worker, the key store and the portal share one connection pool. `Run` stops the
listener, waits for handlers, and `Close` drains the pipeline before it closes
the pool.

What makes each part correct is stated as the properties of section 3; what
could go wrong, line by line, is the list `hazards` in `PROJECT.json`.

## 2. Modules

| module | models | extends / composes |
|---|---|---|
| `AuditTrail` | contract of an audit log: an event is recorded, reported failed, or counted as dropped; tails show a selection of the record | |
| `AsyncLogger` | the pipeline | instance of `AuditTrail` (refinement) |
| `Lifecycle` | `Run`, `Close`, `main` with requests, live tails and timers | composes `AsyncLogger` |
| `LifecycleProofs` | proofs of the pipeline, of its refinement, and of the server around it | `Lifecycle` |
| `TokenBucket` | contract of a rate limiter: buckets that fill continuously and are never forgotten | |
| `RateLimiter` | the limiter and the `Retry-After` header | instance of `TokenBucket` (refinement) |
| `RateLimiterProofs` | proofs | `RateLimiter` |
| `KeyStore` | API keys over the pool | |
| `KeyStoreProofs` | proofs | `KeyStore` |
| `ToolCalls` | MCP calls, Try-It and replay, with the recorder, the limiter's verdict, the pipeline's outcome and both audit tables | abstracts the pipeline and the limiter |
| `ToolCallsProofs` | proofs | `ToolCalls` |
| `AuditExport` | `auditExport` over `Store.Stream` | |
| `AuditFilters` | the URL's filter, sanitizing, and both evaluations (SQL and Go) of filters and summaries, as operators | |
| `PortalReads` | the portal's reads, one at a time, over a table that changes | composes `AuditExport` and `AuditFilters` |
| `PortalReadsProofs` | proofs of the export and of the portal's other reads | `PortalReads` |
| `OIDCValidator` | token validation over the JWKS cache, the shared fetch, a clock and the provider's key set | |
| `OIDCValidatorProofs` | proofs | `OIDCValidator` |
| `AuthChain` | the two entrances, the chain behind them and its warning ledger | takes the verdicts of `KeyStore` and `OIDCValidator` as choices |
| `AuthChainProofs` | proofs | `AuthChain` |
| `BrowserLogin` | PKCE login, callback, nonce ledger, session cookie | takes `ValidateBearer`'s verdict as a choice |
| `BrowserLoginProofs` | proofs | `BrowserLogin` |
| `MC*` | constants and symmetry sets for TLC | |

How state and actions correspond to the code:

* **AsyncLogger.** Channels are sequences with a read index (`accepted`/`taken`
  for `a.ch`, `delivered[s]`/`rd[s]` for a subscriber), so that properties can
  speak of what went through. `Log` is split where the code is: the
  non-blocking send (`LogEnqueue`), the full case (`LogFull`) and the counted
  drop under its own lock (`LogDrop`). The worker's program counter goes
  through receive, write, copy of the registry, one send per subscriber. The
  select that may see `stop` or an event is two actions with overlapping
  guards; draining ends in `Exit` when the channel is empty. `WriteError` has
  both outcomes a timed-out commit can have. `cancel` is two steps, registry
  first, `closeOnce` second. `broadcast` copies the registry, a map, into a
  slice, so the order in which one event is sent to several subscribers is any.
* **Lifecycle.** One action per case of each select. A call whose client is
  gone is `detached`: its HTTP handler returned, its goroutine still logs. (That
  the MCP SDK lets it run on is taken from how its streamable handler is used
  and is marked external.) A request may hold a connection of the pool for any
  time (`TakeConn`, `GiveConn`): `Authenticate` does while it compares hashes, an
  export while its client reads a page, and there is no write timeout. Closing the
  pool is two steps, as `pool.Close` returns only when the last one is back.
* **RateLimiter.** Time in units, tokens in units of 1/`Refill`, so that the
  lazy refill is exact integer arithmetic; the code uses `float64`, whose
  rounding is not modelled. `Allow` and `RetryAfter` hold the mutex and are one
  step each.
* **KeyStore.** A statement that runs on one connection and holds nothing else
  is one step. `Authenticate` holds a connection from its SELECT (`Query`) to
  its return, and `Touch` needs a second one. A key is its row, its plaintext
  and its hash in one; bcrypt is "equal".
* **ToolCalls.** A call's event bears the call's name. Arguments are model
  values that say what happens to them: redacted, too large, empty, or kept.
  `Decode` is what `encoding/json` makes of them, where numbers become `float64`:
  over MCP the tool gets the bytes and the row what was decoded
  (`extractCallParams`); Try-It and replay call with what they have decoded. A tool
  may reply with its arguments, as `echo` does, with something too large, or with
  neither; the reply is stored in `response_result`, or in `error_message` and
  `response_error`, as it is.
  The pipeline is the choice between pending and lost, the database one
  transaction that stores both rows or neither; `Prune` deletes with the
  cascade and the SET NULL of the migrations. A replay's lookup, its fetch of
  the payload, its token and its call are separate steps, since rows can be
  deleted between any two. What `CallTool` returns is all the portal handlers
  see of the tool; a caller whose wait is cut short gets a handler error.
* **AuditExport.** A row is its rank in ORDER BY ts DESC, id ASC. One SELECT per
  page is one step; rows appear at any rank, since an event's time is taken
  when its call starts, and the oldest are pruned. A filter is the set of rows that
  meet its fixed conditions, and whether it has `has=replayed_from`: a replay's row
  loses its link when the row it names is pruned (`Linked`), and then matches no
  more although it stays.
* **AuditFilters.** Operators keep the source's names where they translate one
  function. A JSON value is a record tagged with its kind, a text a word with or
  without quotes, and what `strconv`, the redaction list and
  `CanonicalHeaderKey` say of a word are constants. So are the JSON values there
  are: `Depth` gives each one's nesting, at most `MaxDepth` (`encoding/json` takes
  10000 levels), and `Decoded` are those that `encoding/json` can give, whose
  numbers are `float64`. Numbers are whole numbers; `Float64` rounds those beyond
  2^53 (`MaxExact`) as Go's conversion does, and `Marshaled` is what `json.Marshal`
  writes of a stored one, the shortest decimal that reads back (`Shortest`), which
  is what Postgres compares. `SanitizeValue` and `JsonbContains` are recursive functions
  on them. `Absent` marks a missing value and is never part of another. The SQL is
  modelled by what its conditions select: a containment document (`FilterDoc`,
  `JsonbContains`), a LIKE pattern (`escapeLike`, `ILike`), buckets counted from the
  epoch, GROUP BY with LIMIT. The Go side is `MemoryLogger` and `jsonfilter.go`.
* **PortalReads.** One request of any endpoint. Each SQL statement is a step, so
  inserts, pruning and errors come between the page and its total, an event and
  its payload, the statistics and the recent list. Row `r` stands for the event
  `Call[r]`; `Stored` is that event after sanitizing, with its link as long as the
  original is there. `quiet` says that no row
  came or went since the request began, which is when answers are compared.
* **AuthChain.** A request presents a credential in one of seven ways (`Forms`).
  A reader of the headers hands the chain the token, the token with blanks in front
  of it, or nothing (`Readings`): `tokenFromHeader` trims, `tokenFromRequest` does
  not. What the stores know of it is a set, and a store can fail whenever it is asked.
  `shouldWarn` is split between `time.Now()` (in `Refuse`) and the mutex
  (`LogAuthFailure`), at most `Lag` apart. `MCPRequest` is a `tools/call`: the
  middleware asks the chain for no other method. `allowAnonymous` is drawn once,
  in the initial state.
* **OIDCValidator.** A token is the id of the key that signed it; whether it
  parses and passes signature and claims is a choice. `publicKey` is split at
  its two critical sections and at `refresh.Do`; the fetch is asked, answered,
  stored and delivered in separate steps, and a request can join it at any of
  them. A fetch can fail at any time, also because the client whose context it
  uses went away. Two assumptions on time: a fetch does not outlast the HTTP
  client's timeout (`FetchMax`), and a request told of a successful refresh
  looks at the cache before the clock moves, as the code does not look at
  `expiresAt` again.
* **BrowserLogin.** A login stands for its state, verifier and nonce. Cookies are
  the browser's state; they change when a response arrives, which may be long
  after it was sent, or never. The server has the ledger and the callbacks in
  progress, split where they talk to the provider. The provider may accept any
  code any number of times, so that what holds is due to this code alone. A
  browser drops the PKCE cookie when it likes, as the server does not look at its
  age; a callback takes any time to arrive. `consumeNonce` reads the clock
  (`ReadClock`) at most `Lag` before it has its mutex (`ConsumeNonce`).

## 3. Runs

| run | question | bounds | result |
|---|---|---|---|
| `lifecycle` | does the pipeline lose, repeat, reorder or invent anything unaccounted for while requests, live tails and a shutdown run against it; does it implement `AuditTrail`, are tails fresh; is the shutdown ordered and complete, does a signal end the process, and is what was accepted written? | 2 requests, 1 live tail, 1 signal, 1 connection, channels of 1 | holds |
| `lifecycle_delay` | is the pre-shutdown delay waited for? | same, 2 signals | violated |
| `rate_limiter` | is the rate bounded in spite of lazy refill and sweeps; is the wait enough? | 2 identities, burst 2, refill 3, 11 units of time | holds |
| `rate_limiter_header` | is the rounded header enough? | burst 1, refill 6, second 4 | violated |
| `key_store` | do revoked keys stay revoked, are connections given back, do requests get answers unless the whole pool is jammed? | 2 requests, 2 keys of one name, 1 file key, 2 connections | holds |
| `key_store_pool` | is the touch best-effort? | 2 requests, 2 connections | violated |
| `tool_calls` | one row per call, its request side sanitized; replays repeat the original; tables agree; recorders keep their cap | 2 calls, 1 user, 5 kinds of arguments, 2 notifications, recorder of 1, burst 1 | holds |
| `tool_calls_promise` | does the promised replay id lead to a row? | 2 calls, 1 user | violated |
| `portal_reads` | is an export over a changing table complete and its status honest; do pages, totals, searches and summaries match what `MemoryLogger` computes from the same events; do filters keep redacted values hidden? | 5 rows, pages of 2, cap of 4, exports with and without `has=replayed_from` and 120 other requests | holds |
| `oidc_validator` | do withdrawn keys stop working, are rejections justified, is every request answered? | 2 requests, 1 key, lifetime 2, grace 1, fetch 1, 5 units of time | holds |
| `auth_chain` | is a denial justified, does the portal stay closed to anonymous callers, do warnings come neither too often nor too seldom? | 2 requests, 2 addresses, window 2, lag 1, 4 units of time | holds |
| `browser_login` | does a session go to the browser that began the login, and are replays refused for the ledger's lifetime? | 2 browsers, 2 logins, 2 callbacks at a time, nonce lifetime 2, lag 1, 5 units of time | holds |

Why the bounds are enough. A channel of one with two requests overflows and
drains in either order with a shutdown and a cancelled tail in between; what more
events and subscribers could add to the pipeline itself is covered by its proofs,
which hold for any number. Two identities suffice for the limiter,
as a bucket is touched only by its own calls and by sweeps that another identity
triggers; eleven units are more than a sweep interval after a full drain. Two
keys competing for one name and two requests show every pair of interleaved
statements; over two connections one of them waits in `touchLastUsed` for the
other's, or both jam the pool. Pages of
two over up to five rows give three pages, an exact multiple and a partial one; the
cap falls on a page boundary with a row behind it. The five events and the
requests are chosen so that each clause of a filter separates them: numbers as
number, text and array element, quoted values, NaN, numbers of either sign that
float64 cannot hold (`MaxExact` is 8 there, so that numbers round by twos beyond 8 and by fours beyond 16),
links that are lost while a request runs, header lists, nested and redacted names, pattern
characters at the cut of a search term, empty names, ties in time, windows that
begin or end on an event, buckets that do and do not divide `EpochOffset`, more
groups than `MaxGroups`. Two addresses let one request evict the other's entry,
and four units see a warning, a demotion at the window's edge and a second
warning. With two calls one replays the other, and the
limiter may deny it, as buckets start with any number of tokens that earlier
replays left; arguments are plain, secret, too large, empty, or a number that
decoding rounds. Two notifications with a value to redact race for the last place
in a recorder. One user is enough, since a call that was refused has a row that
names nobody. Chains of replays, more users, notifications that are too large, and
capture switched off are covered by the proof. A key's entry in the cache depends on no other key, so one
key that comes and goes is enough; two requests can be ahead of and behind each
other's fetch, and five units see a cache expire, its grace end and a new one.
Callbacks are reused when they end, so a login can be tried any number of times;
five units let a ledger entry be evicted. All passing runs but those with liveness
properties use symmetry where the constants are interchangeable.

Deadlock is checked for `auth_chain`. Elsewhere every instance has finitely many
events, keys or rows and stops when they are used up, and the process of
`Lifecycle` is meant to end.

Fairness. `Lifecycle` assumes weak fairness of the worker (a goroutine that can
run does, and `inner.Log` returns because its context expires), of main and of
the grace timer. It assumes nothing of the requests that hold connections, so
`SignalEndsProcess` ends in the exit or in a `pool.Close` that waits for one.
`OIDCValidator` assumes it of a request's own steps, of the
failure of a fetch that is not answered (the HTTP client's `Timeout`) and of the
delivery of a flight that is over; the provider may stay silent forever. `KeyStore` assumes weak fairness of a request's local steps and strong
fairness of its two acquisitions, since the pool serves waiters in order. Nothing
is assumed of clients: tools may hang, tails may never read, nobody need call
`Close` or send a signal.

### What the violated properties show

* `PreShutdownDelayHonoured`: the select of the delay (`server.go:275-282`) also
  waits for `ctx`, which is done already: that is why Run got there. The delay
  is never waited for.
* `RetryAfterHeaderSuffices`: `Round` goes to the nearest second, also downwards.
  The exact duration is right (`RetryAfterSuffices`, proved).
* `TouchIsBestEffort`: `touchLastUsed` runs while the rows of the SELECT are
  open. As many matching requests as connections wait for each other.
* `PromisedRowExists`: `replayed_from` is a foreign key. If the original is
  deleted between the lookup and the insert, the transaction fails and the
  replay's event is gone, although the tool ran and the id was promised.

Smaller disagreements that are not runs:

* `portal_api.go:919-920` says export headers wait until the first row encodes,
  but they are sent before it is encoded (`EncodeError` models that;
  `StatusIsHonest` allows it).
* `logger.go:34-35` says `Stream` iterates the whole filtered set, and its caveat
  (`postgres/store.go:295-301`) speaks only of rows that come twice. Under
  `has=replayed_from` the deletion of an original takes its replay's row out of the
  set in the middle of an export, the rows behind it move up, and OFFSET
  (`postgres/store.go:339`) steps over one that matched all the time. `LinkLost` is
  the exception in `ExportComplete` and `PageWithinTotal`.
* `portal_api.go:256-258` says replay mirrors Try-It's status codes, but Try-It
  answers 200 for a tool's own error.
* `async.go:190` says Close "stops accepting new events"; `Log` does not look at
  `stop`, so a detached call can enqueue after the worker is gone, and the event
  is neither written nor counted. `CleanShutdownLosesNothing` shows that only
  such calls are affected.
* `docs/configuration/reference.md:332` says the cache refreshes on any unknown
  `kid`. A request with a new key may join a fetch that was answered before the
  key was published, and is refused; `RejectionJustified` bounds how new the key
  must be.
* `server.go:223-224` and the grace period suggest that a signal ends the process in
  bounded time. After a timed-out `Shutdown`, `pool.Close` waits for every
  connection without a limit: an export whose client stopped reading, or requests
  that wait for each other in `touchLastUsed`, keep the process alive. `CloseWaits`
  is the exception in `SignalEndsProcess`.
* Requests are sanitized, replies are not (`mcpmw/audit.go:232-255`,
  `admin_api.go:246-254`, `portal_api.go:526-534`): what `echo` is given under a
  redacted name is in the response of its row. `NoSecretStored` says so.
* Capture decodes numbers to `float64` (`mcpmw/audit.go:473`), so the replay of a
  call over MCP may round a whole number beyond 2^53. `ReplaySameArgs` says so.
* The PKCE cookie's `MaxAge` is the ledger's lifetime, but only the browser acts on
  it. A cookie that is kept, or a callback that is under way, for longer than ten
  minutes after its nonce was used finds the nonce evicted (`browserauth.go:277`)
  and gets as far as the exchange again. `ReplaySpacing` says what the ledger gives.
* `browserauth.go:45-46` and `128-130` say the nonce is recorded on a successful
  callback. It is recorded first, so a login whose exchange failed cannot be
  repeated with the same cookie. A successful callback also clears the cookie of
  a login begun meanwhile in another tab (`Respond`).

* `postgres/store.go:604-610` calls a filter value that JSON cannot encode
  "unreachable in practice". `strconv.ParseFloat` reads NaN and Inf, so such a
  filter is dropped by Postgres, which then finds every row, and matches nothing
  in `MemoryLogger`.
* The two backends also part where numbers exceed 2^53 in size (Postgres compares
  the digits that were written, Go `float64` values), for buckets such as 7m that do not divide the time between
  year 1 and 1970, for an empty tool name (only Postgres counts it as a tool),
  and beyond 50 groups (only Postgres cuts). `MemoryLogger` ignores offset and
  search. Each is an exception written into `BackendsAgree` or `DashboardAgree`,
  and without the exception the property fails.
* The bound on a time series divides with truncation, so a series can have two
  points more than the 5000 of the bound.
* A failing `Count` is ignored: the page arrives with total 0 and status 200. A
  failing recent list makes the dashboard answer `null`, although
  `portal_api.go:1069-1070` says backends guarantee a slice. `ans.partial` marks both.
* The clock is read before the ledger's mutex (`chain.go:181-182`), so two
  warnings about an address can be closer than the window by the age of a
  reading. Portal requests carry no remote address, and each of their refusals
  is logged at WARN.
* The MCP endpoint accepts the scheme in any spelling, the portal only `Bearer`
  and `bearer`; and the portal does not trim, so a token after two blanks is another
  token there. `DenialJustified` names both exceptions.

## 4. Proofs

All theorems are of the form Spec => property, for every value of the constants
that satisfies the module's ASSUME.

* **AsyncLogger.** `TypeCorrect` stands alone. The others follow from `IInv`,
  which adds to the types: no event enters the channel twice and only with its
  caller recorded (`QueueInv`); the worker's event is the last one taken
  (`WorkerInv`); what is stored or failed was taken before, in order, and
  everything taken is one of the two or in hand (`WrittenInv`); what a tail has
  lies in the store, before the event now being sent unless this subscriber is
  done with it (`TailInv`); the counter equals the number of rejected calls
  (`DropInv`); a drained worker has taken everything before the stop
  (`ExitInv`). It is needed because the properties speak of the past
  (accepted, stored), while steps look only at indices. From it come
  `SilentLossFree`, `StoreOrdered`, `TailIsSound`, `CloseDrains`,
  `ClosedStaysSilent` and, action by action, `Refinement` to `AuditTrail`.
* **Lifecycle.** `ServerRunsPipeline` says the server uses the pipeline as its
  specification allows: every step of the server is a step of the pipeline or
  leaves it alone. So everything proved of the pipeline holds in the server, its
  refinement included (`ServerKeepsTrail`). What the server adds needs three more
  parts. The order of a shutdown (`OrderInv`: the stop signal comes after `Run`
  has returned, the pool begins to close after the worker has gone) gives
  `PoolClosedLast`. `CleanInv` (after a clean `Shutdown` no handler is running,
  and what is in the channel of a worker that has gone was put there by calls
  whose client had gone) gives `CleanShutdown`; it rests on `ExitInv` of the
  pipeline. `FreshInv` (the event now being broadcast is news to every subscriber
  that it may reach) gives `TailsStayFresh`.
* **RateLimiter.** The heart is `SweepHarmless`: what a sweep forgets would be
  full anyway. It needs MaxIdle >= Burst * Refill, which holds in production
  (10 minutes against 1). Then `Level` moves like a continuous bucket, which
  gives `LimiterRateBound` and `LimiterRefinement`; `DueInv` carries a client's
  wait to `LimiterRetrySuffices`.
* **KeyStore.** `DeadInv`: a key dead when a request began stays dead and is not
  among the rows its SELECT returns. `PresentedInv`: a matched key was
  presented. `KeyStoreTypeCorrect` contains the accounting of connections.
* **ToolCalls.** All seven invariants, for any number of calls, so for chains of
  replays of any length. `PathInv` ties a call's place to the way it came in;
  `LogInv` says a call is logged in the step that answers it or not at all,
  from which `AuditedOnce` and `RowTellsAnswer` follow. `CaptureInv` (what a row
  captured is gone, redacted, or the decoded arguments its call still has),
  `DecodedInv` (what did not come over MCP is decoded already) and `SameInv` carry
  `ReplayRepeatsOriginal`: a replay takes its arguments from an answered call,
  whose arguments no longer change, and decoding twice is decoding once. `HeldInv`
  (a reply with a secret is the call's own arguments, and a replay has none) is the
  response half of `SecretsStayOut`. `SeenInv` (a replay past its lookup has a
  target that was stored, and so is never stored again) is what makes
  `TablesStayTogether` inductive; `NotesInv` and `BlankInv` serve
  `SecretsStayOut` and `TokensAccounted`.
* **AuditExport.** The argument is about a row's rank, the number of newer rows.
  Ranks have no gaps (`NoGap`), so an OFFSET page is short only at the end of the
  table (`SliceSize`); an insertion raises ranks, and retention, which takes the
  oldest row, leaves the others' alone (`RankInsert`, `RankPrune`) unless the filter
  asks for links and the row or a newer one loses its own (`LinkLost`, which stays
  true). Hence a row of the start, such rows aside, is written, on the page in hand,
  or ahead, and it can be ahead only of a full page (`ReachInv`), which gives
  `NothingMissed`. While the table rests,
  what is written is exactly the rows of the ranks below the offset (`QuietInv`),
  which gives `QuietExportIsTable`. `StatusInv` (200 has been sent exactly when a
  row has been written, until the end) gives `HonestStatus`. Every step of the
  portal is a step of the export or leaves its variables alone (`PortalRunsExport`),
  so the three hold of the portal too (`PortalExportSound`).
* **PortalReads.** `PortalInv` has four parts besides the export's types: one
  request, unanswered until its last read (`ReadInv`); between its two reads, a
  row of the page that is still there, and whose result no link was lost from,
  matches and has at least the rank it was read at (`PageReadInv`); `PageWithinTotal` itself; and while nothing changes,
  what was read is what a read would find now (`QuietReadInv`). A row's rank among
  the matching rows only grows, as in the export, and is less than their number
  (`RankGrows`, `RankBound`): `PageFitsTotal`. The other theorems are about what
  the statements compute, for every table; `QuietReadInv` carries them to answers.
    * `SummariesAgree`. Truncation from the epoch and from Go's zero time agree
      when the bucket divides the distance (`ModShift`); the buckets of a window of
      at most `MaxBuckets` lengths number at most two more (`DivSpread`,
      `SeriesSize`); both orders, by row and by time and id, list the same events
      (`SortedIsListed`: an element is where its rank says, and the ranks agree).
    * `BackendsAnswerAlike`. A document that wraps a scalar in the names of a path
      is contained in a column exactly when walking the path ends at that scalar
      (`PathContains`), where for numbers up to `MaxExact` the written digits and the
      `float64` values say the same; `HeaderAgree` and `HasAgree` do the same for header lists
      and `has=`. The order and the slice are those of `SortedIsListed`.
    * `SecretsStayHidden`. The walk through a sanitized document is the sanitized
      walk up to the first redacted name, the placeholder there, and nothing beyond
      it (`WalkSanitized`, `WalkEnds`, `SecretWalk`).
    * `SearchTakenLiterally`. Each letter of the cut term stands in the pattern as
      itself or after a backslash, at a known place (`EscapedFacts`); from the
      place of the k-th letter on, the pattern matches just the texts that go on
      with the rest of the term (`LiteralRest`), so between two wildcards it
      matches the texts the term occurs in (`LiteralMatch`).

  The recursive functions are unfolded by showing that a function with their
  equation exists (`WalkDef`, `WrappedDef`, `SanitizeValueDef`, `JsonbContainsDef`,
  `EscapedDef`, `LikeDef`). Inductions go along a finite range, from 0 up, over a
  set of naturals rather than a predicate (`Climb`, `BelowFacts`): its step is a
  least element (`LeastNat`), which comes from the library's theorem that < is
  well founded. That replaces the induction theorems that the provers cannot
  instantiate, here because paths, terms and nesting are finite.

  Assumptions: `AuditFiltersAssumption` (what `strconv` reads as a number is a
  number, and "true" is none), `JSONAssumption` (values are finite trees; decoded
  numbers are `float64`), `CallAssumption` (rows are numbered as ORDER BY ts DESC,
  id ASC sorts them; arguments and results were decoded; sanitizing leads to
  another such value), `QueryAssumption` (what the URL gives; a page of the portal
  is at most a page of the export; filter documents are JSON values). TLC evaluates
  all four on the instance of `portal_reads`.
* **AuthChain.** A request carries the stores that know its token and have not
  failed on it; all of them are still to be asked (`Sound`), whichever store the
  token's look puts first, unless the token was read with blanks (`Garbled`). So
  when nobody is left to ask, nobody knew it: `DenialsAreJustified`; `PortalIsNeverAnonymous` is part of the same invariant. A
  reading of the clock is at most `Lag` old when it is used (`ClockInv`). A ledger
  entry is at most as late as the last warning and at most `Lag` earlier, and when
  the entry is missing the last warning is more than a window, less `Lag`, ago
  (`LedgerInv`); without the second half eviction could bring a warning back too
  soon. Together they give `WarnsAreSpaced` and the action property
  `DemotionsFollowWarns`.
* **OIDCValidator.** Every set of keys the code acts on mirrors the provider since
  a known moment (`Mirrors`): a fetch's answer since the fetch began
  (`FetchInv`), the cache since `FetchMax` before it was stored (`CacheInv`), what
  a waiting request remembers since `FetchMax` before the cache it looked at was
  stored, and what it sees after a refresh since `FetchMax` ago (`ReqInv`).
  Mirrors stay mirrors (`ProviderStep`). One direction of the definition gives
  `RevocationReachesCache`, the other `RejectionsJustified`.
* **BrowserLogin.** A reading of the clock is at most `Lag` old when it is used
  (`ClockInv`). A nonce that passed is in the ledger with the reading it passed at,
  or was evicted and more than `NonceTtl` has passed since that reading (`LedgerInv`);
  a reading still to be used is at most `Lag` before now, hence `ReplaysRejected`. `CookieInv` and
  `CallbackInv` tie a cookie and a callback to the browser that began the login,
  which with `SessionInv` gives `SessionsOwned`.

Proved but not part of a run any more, because `lifecycle` and the others check
something stronger or closer to the code: the types of `AsyncLogger`,
`RateLimiter`, `OIDCValidator`, `BrowserLogin`, `AuthChain` and `AuditExport`, `TailSound`, `DrainedAtExit`,
`RateBound` and `NamesUnique`.

Only model-checked: everything under fairness (`AcceptedIsWritten`,
`SignalEndsProcess`, `AuthAnswers`, `RequestAnswered`), since ENABLED is out of
the prover's reach. Every other property of a passing run is stated by a theorem.

## 5. Not modelled

* Request checks that decide from one request's headers: CORS, CSRF, the browser
  redirect, static documents.
* Start-up: configuration, migrations, wiring. Nothing runs concurrently yet.
* The tools: deterministic, with no state shared between calls.
* SSE framing and heartbeat, response bodies, sizes and error texts: data that no
  property tells apart. `List` of keys and the read-only delegates of the
  pipeline change nothing.
* Percentiles: Postgres interpolates, Go picks an element, and nothing promises
  that they agree. In Go the median of two durations can exceed the 95th
  percentile.
* Letters: a search term is cut after 200 bytes, which may split a UTF-8
  character; the model's letters are whole.
* The subscriber code of `MemoryLogger`, which repeats that of `AsyncLogger`.
* The connection pool as one resource of all components. `KeyStore` has it with the
  requests that compete for it, `Lifecycle` with requests that hold it while it is
  closed; how long an export may keep others waiting is a matter of throughput about
  which the code promises nothing.
* Fractions: the numbers of documents and filters are whole.

## 6. What could come next

The modules were written and proved in the order of the table in section 2:
pipeline and server, limiter, keys, calls and replay, export, validator, login,
chain, and last the portal's reads. Left are

1. the liveness properties, for which TLC's instances are the only evidence;
2. rounding: `float64` in the limiter's refill, percentiles of `Stats`;
3. one connection pool for key store, worker, replay and export, if the code ever
   promises how long a request may wait for a connection.
