------------------------------ MODULE ToolCalls ------------------------------
(***************************************************************************)
(* The three ways a tool is called and the audit row each leaves behind:   *)
(* over MCP, through the Audit middleware (pkg/mcpmw/audit.go); from the   *)
(* portal's Try-It form (pkg/httpsrv/admin_api.go); and as the replay of   *)
(* an earlier call's row (auditReplay, pkg/httpsrv/portal_api.go).  The    *)
(* portal's two go through an in-memory connection and write their rows    *)
(* themselves.  A row goes through the audit pipeline, which may drop it,  *)
(* into audit_events and audit_payloads (pkg/audit/postgres/store.go,      *)
(* Log); a retention job deletes rows.                                     *)
(*                                                                         *)
(* A call's audit event bears the call's name.  Arguments are model        *)
(* values: those in Secret hold a value under a redacted key, those in     *)
(* Huge exceed MaxPayloadBytes, NoArgs is the empty object.  A tool may    *)
(* return its arguments (echo), and what it returns is stored as it is.    *)
(***************************************************************************)
EXTENDS Integers, FiniteSets, Sequences

CONSTANTS
  Calls,      \* the calls that may be made
  Users,      \* the identities that make them
  Args,       \* arguments of calls
  NoteArgs,   \* parameters of notifications
  Secret, Huge, NoArgs,
  Decode,     \* what encoding/json makes of arguments: numbers become float64
  Message,    \* a reply or an error with nothing of the arguments in it
  Redacted,   \* arguments of Secret after SanitizeParameters
  Null,       \* SQL NULL, a nil map or an absent reference
  Notes,      \* the notifications that tools may send
  MaxNotes,   \* maxNotifications
  Burst,      \* replayBurst
  Capture     \* capturePayloads

ASSUME ToolCallsAssumption ==
  /\ Secret \subseteq Args /\ Huge \subseteq Args /\ NoArgs \in Args
  /\ Secret \cap Huge = {} /\ NoArgs \notin Secret \cup Huge
  /\ NoteArgs \subseteq Args
  /\ Redacted \notin Args /\ Null \notin Args \cup Calls /\ Redacted # Null
  /\ Message \notin Args
  /\ Decode \in [Args -> Args]
  /\ \A a \in Args : /\ Decode[Decode[a]] = Decode[a]
                     /\ Decode[a] \in Secret <=> a \in Secret
                     /\ Decode[a] = NoArgs <=> a = NoArgs
  /\ IsFiniteSet(Calls)
  /\ MaxNotes \in Nat \ {0} /\ Burst \in Nat /\ Capture \in BOOLEAN

VARIABLES
  pc,         \* where each call is
  source,     \* who made it: "mcp", "portal-tryit" or "portal-replay"
  who,        \* its identity
  args,       \* what the tool is called with; what a replay found to call it with
  target,     \* the event a replay was asked for
  result,     \* what came back from the tool: "ok", "tool" or "handler" error
  reply,      \* what it says
  answer,     \* the caller's answer
  logged,     \* how often the call was handed to audit.Log
  recorder,   \* the call's notificationRecorder.items
  sending,    \* notifications inside Append, between its two critical sections
  sent,       \* notifications sent
  tokens,     \* the replay limiter's bucket per identity
  spent,      \* history: tokens taken from it
  row,        \* the event as given to audit.Log
  where,      \* "none", "pending" in the pipeline, "stored", "pruned", "lost" (by
              \* a full pipeline or a failing database), "dangling" (refused)
  payloads    \* the events with a row in audit_payloads

callVars == <<pc, source, who, args, target, result, reply, answer>>
noteVars == <<recorder, sending, sent>>
rateVars == <<tokens, spent>>
rowVars  == <<logged, row, where, payloads>>
vars     == <<callVars, noteVars, rateVars, rowVars>>

Stored == {c \in Calls : where[c] = "stored"}

Sanitize(a) == IF a \in Secret THEN Redacted ELSE a

\* jsonSizeWithin, as buildPayload uses it: oversize parameters are dropped.
Fitted(a) == IF a \in Huge THEN Null ELSE a

\* fitNotifications: the longest prefix in which every entry fits.
FitNotes(s) ==
  SubSeq(s, 1, Cardinality({n \in 1 .. Len(s) : \A i \in 1 .. n : s[i] \notin Huge}))

\* marshalJSONB: an empty map is stored as NULL.
Column(a) == IF a = NoArgs THEN Null ELSE a

\* An event with the columns the properties speak of: replayed_from, the user,
\* error_category ("" for success), parameters, error_message (which is also
\* the message of response_error), whether it comes with a payload, and the
\* payload's request_params, notifications and response_result.
NoRow == [from |-> Null, who |-> Null, category |-> "", params |-> Null, message |-> Null,
          payload |-> FALSE, request |-> Null, notes |-> <<>>, response |-> Null]

\* What a reply may be, and a message.
Texts == Args \cup {Redacted, Message, Null}

Row == [from : Calls \cup {Null}, who : Users \cup {Null},
        category : {"", "auth", "tool", "handler"},
        params : Args \cup {Redacted, Null}, message : Texts, payload : BOOLEAN,
        request : Args \cup {Redacted, Null}, notes : Seq(Args \cup {Redacted}),
        response : Texts]

\* Earlier replays may have emptied the limiter's buckets.
Init ==
  /\ pc = [c \in Calls |-> "idle"] /\ source = [c \in Calls |-> "none"]
  /\ who = [c \in Calls |-> Null] /\ args = [c \in Calls |-> Null]
  /\ target = [c \in Calls |-> Null] /\ result = [c \in Calls |-> "none"]
  /\ reply = [c \in Calls |-> Null] /\ answer = [c \in Calls |-> "none"]
  /\ recorder = [c \in Calls |-> <<>>] /\ sending = {} /\ sent = {}
  /\ tokens \in [Users -> 0 .. Burst] /\ spent = [u \in Users |-> 0]
  /\ logged = [c \in Calls |-> 0] /\ row = [c \in Calls |-> NoRow]
  /\ where = [c \in Calls |-> "none"] /\ payloads = {}

-----------------------------------------------------------------------------
(* Steps the three have in common.                                         *)

Arrive(c, s, first, u, a, t) ==
  /\ pc[c] = "idle"
  /\ pc' = [pc EXCEPT ![c] = first]
  /\ source' = [source EXCEPT ![c] = s]
  /\ who' = [who EXCEPT ![c] = u]
  /\ args' = [args EXCEPT ![c] = a]
  /\ target' = [target EXCEPT ![c] = t]
  /\ UNCHANGED <<result, reply, answer, noteVars, rateVars, rowVars>>

Answer(c, code) ==
  /\ pc' = [pc EXCEPT ![c] = "done"]
  /\ answer' = [answer EXCEPT ![c] = code]
  /\ UNCHANGED <<source, who, args, target, result, reply>>

Goto(c, label) ==
  /\ pc' = [pc EXCEPT ![c] = label]
  /\ UNCHANGED <<source, who, args, target, result, reply, answer>>

\* audit.Log: the pipeline takes the event, or drops it when it is full.
Log(c, r) ==
  /\ logged' = [logged EXCEPT ![c] = @ + 1]
  /\ row' = [row EXCEPT ![c] = r]
  /\ \E w \in {"pending", "lost"} : where' = [where EXCEPT ![c] = w]
  /\ UNCHANGED payloads

\* The portal handlers' early returns: no server, no identity, a bad id or
\* body, a backend without payloads.
PortalReject(c) ==
  /\ \/ pc[c] = "query"
     \/ pc[c] = "connect" /\ source[c] = "portal-tryit"
  /\ Answer(c, "400")
  /\ UNCHANGED <<noteVars, rateVars, rowVars>>

\* Connecting the in-memory session fails: no call, no row.
ConnectError(c) ==
  /\ pc[c] = "connect"
  /\ Answer(c, "500")
  /\ UNCHANGED <<noteVars, rateVars, rowVars>>

Connect(c) ==
  /\ pc[c] = "connect"
  /\ Goto(c, "running")
  /\ UNCHANGED <<noteVars, rateVars, rowVars>>

\* What a tool may say: its arguments, none of them, more than a payload takes.
Replies(c) == {args[c], Message} \cup Huge

\* The tool returns, or the caller's wait for it is cut short.
ToolReturn(c, r, m) ==
  /\ pc[c] = "running"
  /\ pc' = [pc EXCEPT ![c] = "returned"]
  /\ result' = [result EXCEPT ![c] = r]
  /\ reply' = [reply EXCEPT ![c] = m]
  /\ UNCHANGED <<source, who, args, target, answer, noteVars, rateVars, rowVars>>

-----------------------------------------------------------------------------
(* Notifications sent while a call runs.                                   *)

\* Append, first critical section.  A full recorder turns the note away.  Only
\* MCP calls have a recorder; once the row is built it is read no more.
NoteCheck(n, c, a) ==
  /\ n \notin sent /\ source[c] = "mcp" /\ pc[c] \in {"running", "returned"} /\ Capture
  /\ sent' = sent \cup {n}
  /\ sending' = IF Len(recorder[c]) >= MaxNotes THEN sending
                ELSE sending \cup {[note |-> n, call |-> c, params |-> Sanitize(Decode[a])]}
  /\ UNCHANGED <<recorder, callVars, rateVars, rowVars>>

\* Mutated form of NoteAppend: the second critical section trusts the first.
NoteAppendUnchecked(m) ==
  /\ recorder' = [recorder EXCEPT ![m.call] = Append(@, m.params)]
  /\ sending' = sending \ {m}
  /\ UNCHANGED <<sent, callVars, rateVars, rowVars>>

\* Append, second critical section, perhaps after the call has returned.
NoteAppend(m) ==
  /\ recorder' = IF Len(recorder[m.call]) >= MaxNotes THEN recorder
                 ELSE [recorder EXCEPT ![m.call] = Append(@, m.params)]
  /\ sending' = sending \ {m}
  /\ UNCHANGED <<sent, callVars, rateVars, rowVars>>

-----------------------------------------------------------------------------
(* A call over MCP: the Audit middleware.                                  *)

CallArrive(c, u, a) == Arrive(c, "mcp", "auth", u, a, Null)

\* The arguments that are recorded.  The tool is given the bytes that arrived.
extractCallParams(c) == Decode[args[c]]

\* The event of a call the auth chain refused, with buildPayload's payload.
RejectedRow(c) ==
  [NoRow EXCEPT !.category = "auth", !.message = Message, !.payload = Capture,
                !.request = IF Capture THEN Fitted(Sanitize(extractCallParams(c))) ELSE Null]

\* The auth chain refuses: the row is written all the same.
AuthReject(c) ==
  /\ pc[c] = "auth"
  /\ Log(c, RejectedRow(c))
  /\ Answer(c, "401")
  /\ UNCHANGED <<noteVars, rateVars>>

AuthAccept(c) ==
  /\ pc[c] = "auth"
  /\ Goto(c, "running")
  /\ UNCHANGED <<noteVars, rateVars, rowVars>>

Category(r) == IF r = "ok" THEN "" ELSE r

\* The CallToolResult and the error that came back.
Returned(c) == IF result[c] = "handler" THEN Null ELSE reply[c]
Failure(c)  == IF result[c] = "handler" THEN reply[c] ELSE Null

\* Mutated form of SkipsAudit: in-memory connections are audited as well.
SkipsAuditNever(c) == FALSE

\* In-memory connections carry no headers; whoever made them writes the row.
SkipsAudit(c) == source[c] # "mcp"

\* The event of a call that ran, with buildPayload's payload.
AuditRow(c) ==
  [from |-> Null, who |-> who[c], category |-> Category(result[c]),
   params |-> Sanitize(extractCallParams(c)), message |-> Failure(c), payload |-> Capture,
   request |-> IF Capture THEN Fitted(Sanitize(extractCallParams(c))) ELSE Null,
   notes |-> FitNotes(recorder[c]),
   response |-> IF Capture THEN Fitted(Returned(c)) ELSE Null]

\* What the middleware does after next has returned.  Over MCP an answer is
\* a result, perhaps a tool's error ("200"), or a JSON-RPC error ("502").
AuditReturn(c) ==
  /\ pc[c] = "returned"
  /\ IF SkipsAudit(c) THEN UNCHANGED rowVars
     ELSE Log(c, AuditRow(c))
  /\ IF source[c] = "mcp" THEN Answer(c, IF result[c] = "handler" THEN "502" ELSE "200")
     ELSE Goto(c, "record")
  /\ UNCHANGED <<noteVars, rateVars>>

-----------------------------------------------------------------------------
(* Try-It.                                                                 *)

\* The handler decodes the request and passes on what it has decoded.
TryitArrive(c, u, a) == Arrive(c, "portal-tryit", "connect", u, Decode[a], Null)

\* What the portal's handlers put into error_message.
PortalMessage(c) == IF result[c] = "tool" THEN Message ELSE Failure(c)

\* Mutated form of TryitRow: the payload keeps the arguments as given.
TryitRowRaw(c) ==
  [NoRow EXCEPT !.who = who[c], !.category = Category(result[c]),
                !.params = Sanitize(args[c]), !.message = PortalMessage(c), !.payload = TRUE,
                !.request = args[c], !.response = Returned(c)]

TryitRow(c) ==
  [NoRow EXCEPT !.who = who[c], !.category = Category(result[c]),
                !.params = Sanitize(args[c]), !.message = PortalMessage(c), !.payload = TRUE,
                !.request = Sanitize(args[c]), !.response = Returned(c)]

RecordTryit(c) ==
  /\ pc[c] = "record" /\ source[c] = "portal-tryit"
  /\ Log(c, TryitRow(c))
  /\ Answer(c, IF result[c] = "handler" THEN "502" ELSE "200")
  /\ UNCHANGED <<noteVars, rateVars>>

-----------------------------------------------------------------------------
(* Replay.                                                                 *)

ReplayArrive(c, u, t) == Arrive(c, "portal-replay", "query", u, Null, t)

\* Query finds the event, does not, or fails.
ReplayFound(c) ==
  /\ pc[c] = "query" /\ target[c] \in Stored
  /\ Goto(c, "payload")
  /\ UNCHANGED <<noteVars, rateVars, rowVars>>

ReplayNotFound(c) ==
  /\ pc[c] = "query" /\ target[c] \notin Stored
  /\ Answer(c, "404")
  /\ UNCHANGED <<noteVars, rateVars, rowVars>>

ReplayDBError(c) ==
  /\ pc[c] \in {"query", "payload"}
  /\ Answer(c, "500")
  /\ UNCHANGED <<noteVars, rateVars, rowVars>>

\* The request_params GetPayload reads: Null without a payload row.
Captured(t) == IF t \in payloads THEN Column(row[t].request) ELSE Null

\* Mutated form of Replayable: redacted parameters pass.
ReplayableRedacted(a) == a # Null

Replayable(a) == a # Null /\ a # Redacted

\* GetPayload and the checks on what it returned.
ReplayValid(c) ==
  /\ pc[c] = "payload" /\ Replayable(Captured(target[c]))
  /\ pc' = [pc EXCEPT ![c] = "limit"]
  /\ args' = [args EXCEPT ![c] = Captured(target[c])]
  /\ UNCHANGED <<source, who, target, result, reply, answer, noteVars, rateVars, rowVars>>

\* Mutated form of ReplayRefuse: the token was taken before the checks.
ReplayRefuseLate(c) ==
  /\ pc[c] = "payload" /\ tokens[who[c]] > 0
  /\ tokens' = [tokens EXCEPT ![who[c]] = @ - 1]
  /\ spent' = [spent EXCEPT ![who[c]] = @ + 1]
  /\ Answer(c, "400")
  /\ UNCHANGED <<noteVars, rowVars>>

\* Nothing captured, something redacted, or the tool is no longer registered.
ReplayRefuse(c) ==
  /\ pc[c] = "payload"
  /\ Answer(c, "400")
  /\ UNCHANGED <<noteVars, rateVars, rowVars>>

\* limiterForReplay().Allow, true and false.
ReplayAllow(c) ==
  /\ pc[c] = "limit" /\ tokens[who[c]] > 0
  /\ tokens' = [tokens EXCEPT ![who[c]] = @ - 1]
  /\ spent' = [spent EXCEPT ![who[c]] = @ + 1]
  /\ Goto(c, "connect")
  /\ UNCHANGED <<noteVars, rowVars>>

ReplayDeny(c) ==
  /\ pc[c] = "limit" /\ tokens[who[c]] = 0
  /\ Answer(c, "429")
  /\ UNCHANGED <<noteVars, rateVars, rowVars>>

\* A token flows back into a bucket.
Refill(u) ==
  /\ tokens[u] < Burst
  /\ tokens' = [tokens EXCEPT ![u] = @ + 1]
  /\ UNCHANGED <<spent, callVars, noteVars, rowVars>>

\* Mutated form of ReplayRow: the row names the original's caller.
ReplayRowAsOriginal(c) ==
  [NoRow EXCEPT !.from = target[c], !.who = row[target[c]].who,
                !.category = Category(result[c]), !.params = Sanitize(args[c]),
                !.message = PortalMessage(c), !.payload = TRUE,
                !.request = Sanitize(args[c]), !.response = Returned(c)]

ReplayRow(c) ==
  [NoRow EXCEPT !.from = target[c], !.who = who[c],
                !.category = Category(result[c]), !.params = Sanitize(args[c]),
                !.message = PortalMessage(c), !.payload = TRUE,
                !.request = Sanitize(args[c]), !.response = Returned(c)]

\* recordReplayAudit, then the answer, which promises the new event's id.
RecordReplay(c) ==
  /\ pc[c] = "record" /\ source[c] = "portal-replay"
  /\ Log(c, ReplayRow(c))
  /\ Answer(c, IF result[c] = "ok" THEN "200" ELSE "502")
  /\ UNCHANGED <<noteVars, rateVars>>

-----------------------------------------------------------------------------
(* The pipeline's worker, the tables and the retention job.                *)

\* Mutated form of Insert: a payload that cannot be inserted is left out.
InsertSplit(c) ==
  /\ where[c] = "pending"
  /\ where' = [where EXCEPT ![c] = "stored"]
  /\ payloads' = IF row[c].payload /\ row[c].from \in Stored \cup {Null}
                 THEN payloads \cup {c} ELSE payloads
  /\ UNCHANGED <<logged, row, callVars, noteVars, rateVars>>

\* Store.Log: both rows in one transaction; replayed_from must refer to a row.
Insert(c) ==
  /\ where[c] = "pending"
  /\ row[c].from \in Stored \cup {Null}
  /\ where' = [where EXCEPT ![c] = "stored"]
  /\ payloads' = IF row[c].payload THEN payloads \cup {c} ELSE payloads
  /\ UNCHANGED <<logged, row, callVars, noteVars, rateVars>>

\* The foreign key refuses the payload, and with it the event.
InsertDangling(c) ==
  /\ where[c] = "pending"
  /\ row[c].from \notin Stored \cup {Null}
  /\ where' = [where EXCEPT ![c] = "dangling"]
  /\ UNCHANGED <<logged, row, payloads, callVars, noteVars, rateVars>>

\* The transaction fails for another reason.
InsertError(c) ==
  /\ where[c] = "pending"
  /\ where' = [where EXCEPT ![c] = "lost"]
  /\ UNCHANGED <<logged, row, payloads, callVars, noteVars, rateVars>>

\* DELETE FROM audit_events: cascades to the payload, nulls references to it.
Prune(c) ==
  /\ where[c] = "stored"
  /\ where' = [where EXCEPT ![c] = "pruned"]
  /\ payloads' = payloads \ {c}
  /\ row' = [d \in Calls |-> IF d \in payloads /\ row[d].from = c
                             THEN [row[d] EXCEPT !.from = Null] ELSE row[d]]
  /\ UNCHANGED <<logged, callVars, noteVars, rateVars>>

CallStep(c) ==
  \/ AuthReject(c) \/ AuthAccept(c) \/ AuditReturn(c)
  \/ PortalReject(c) \/ ConnectError(c) \/ Connect(c) \/ RecordTryit(c)
  \/ ReplayFound(c) \/ ReplayNotFound(c) \/ ReplayDBError(c) \/ ReplayValid(c)
  \/ ReplayRefuse(c) \/ ReplayAllow(c) \/ ReplayDeny(c) \/ RecordReplay(c)
  \/ \E r \in {"ok", "tool", "handler"}, m \in Replies(c) : ToolReturn(c, r, m)

TableStep(c) == Insert(c) \/ InsertDangling(c) \/ InsertError(c) \/ Prune(c)

Next ==
  \/ \E c \in Calls, u \in Users :
       \/ \E a \in Args : CallArrive(c, u, a) \/ TryitArrive(c, u, a)
       \/ \E t \in Calls : ReplayArrive(c, u, t)
  \/ \E c \in Calls : CallStep(c) \/ TableStep(c)
  \/ \E n \in Notes, c \in Calls, a \in NoteArgs : NoteCheck(n, c, a)
  \/ \E m \in sending : NoteAppend(m)
  \/ \E u \in Users : Refill(u)

Spec == Init /\ [][Next]_vars

-----------------------------------------------------------------------------
(* Properties.                                                             *)

Sanitized == (Args \ Secret) \cup {Redacted, Null}

Labels == {"idle", "auth", "connect", "query", "payload", "limit", "running",
           "returned", "record", "done"}
Answers == {"none", "200", "400", "401", "404", "429", "500", "502"}

CallTypeOK ==
  /\ pc \in [Calls -> Labels]
  /\ source \in [Calls -> {"none", "mcp", "portal-tryit", "portal-replay"}]
  /\ who \in [Calls -> Users \cup {Null}]
  /\ args \in [Calls -> Args \cup {Redacted, Null}]
  /\ target \in [Calls -> Calls \cup {Null}]
  /\ result \in [Calls -> {"none", "ok", "tool", "handler"}]
  /\ reply \in [Calls -> Texts]
  /\ answer \in [Calls -> Answers]

NoteTypeOK ==
  /\ recorder \in [Calls -> Seq(Args \cup {Redacted})]
  /\ \A c \in Calls : Len(recorder[c]) <= MaxNotes
  /\ sent \subseteq Notes
  /\ sending \subseteq [note : Notes, call : Calls, params : Args \cup {Redacted}]

RateTypeOK == tokens \in [Users -> 0 .. Burst] /\ spent \in [Users -> Nat]

RowTypeOK ==
  /\ logged \in [Calls -> Nat]
  /\ row \in [Calls -> Row]
  /\ where \in [Calls -> {"none", "pending", "stored", "pruned", "lost", "dangling"}]
  /\ payloads \subseteq Calls

\* The type of every variable; in particular no recorder exceeds its cap,
\* although Append looks at it in two critical sections.
TypeOK == CallTypeOK /\ NoteTypeOK /\ RateTypeOK /\ RowTypeOK

\* What SanitizeParameters was to remove is in no row's parameters, captured
\* request or notifications, on any of the three paths.  Replies are stored as
\* they are: a secret is in the response or the error of a row only when the
\* tool was given it and returned it.  The row of a replay holds none at all,
\* although a replay runs on what earlier rows hold.
NoSecretStored ==
  \A c \in Calls :
    /\ row[c].params \in Sanitized /\ row[c].request \in Sanitized
    /\ \A i \in 1 .. Len(row[c].notes) : row[c].notes[i] \in Sanitized
    /\ \A x \in {row[c].response, row[c].message} :
         x \in Secret => x = args[c] /\ source[c] # "portal-replay"

\* A replay that gets as far as calling the tool calls it with what the
\* original was called with, through truncation, redaction, the pipeline, the
\* JSONB column and any number of replays of replays, except that its numbers
\* are float64: capture decodes what came over MCP, so a replay of such a call
\* may round a whole number beyond 2^53 that the tool was given exactly.
ReplaySameArgs ==
  \A c \in Calls :
    source[c] = "portal-replay" /\ pc[c] \in {"connect", "running", "returned", "record"}
      => /\ args[c] = Decode[args[target[c]]]
         /\ source[target[c]] # "mcp" => args[c] = args[target[c]]

\* Each call that reached the tool, or was refused by the auth chain, is
\* given to the audit log exactly once when it is answered, by the
\* middleware or by the portal handler but never by both; a request turned
\* away earlier leaves nothing.
OneEventPerCall ==
  \A c \in Calls :
    pc[c] = "done" =>
      logged[c] = IF result[c] # "none" \/ answer[c] = "401" THEN 1 ELSE 0

\* What the row says agrees with what the caller was told, and the row of a
\* replay names whoever asked for the replay.
RowMatchesAnswer ==
  \A c \in Calls :
    pc[c] = "done" /\ logged[c] > 0 =>
      /\ row[c].who = IF answer[c] = "401" THEN Null ELSE who[c]
      /\ answer[c] = "401" <=> row[c].category = "auth"
      /\ row[c].category = "" => answer[c] = "200"
      /\ row[c].category = "handler" => answer[c] = "502"

\* The two tables stay together: a stored event that came with a payload has
\* it, a payload has its event, and a replay's payload refers to its original
\* for as long as that exists and to nothing afterwards.
TablesAgree ==
  /\ payloads = {c \in Stored : row[c].payload}
  /\ \A c \in payloads :
       row[c].from = IF target[c] \in Stored THEN target[c] ELSE Null

\* A replay that is refused for what it asks costs no token: a user's tokens
\* went to replays that passed every check.
TokensForValidReplays ==
  \A u \in Users :
    spent[u] = Cardinality({c \in Calls :
                 /\ source[c] = "portal-replay" /\ who[c] = u
                 /\ \/ pc[c] \in {"connect", "running", "returned", "record"}
                    \/ answer[c] \in {"200", "502"}
                    \/ answer[c] = "500" /\ args[c] # Null})

\* What the comment of recordReplayAudit says: the id that the response
\* promises leads to a row.  Rows lost to a full pipeline or to a failing
\* database are not held against it.
PromisedRowExists ==
  \A c \in Calls :
    source[c] = "portal-replay" /\ answer[c] \in {"200", "502"} => where[c] # "dangling"

=============================================================================
