--------------------------- MODULE ToolCallsProofs ---------------------------
(***************************************************************************)
(* Proofs about module ToolCalls for any number of calls, users, arguments *)
(* and notifications.                                                      *)
(*                                                                         *)
(* A call's arguments are fixed before its row is built, and a row is      *)
(* built once, so what a row captured is Null, redacted or what decoding   *)
(* makes of the arguments its call still has.  A replay takes what it      *)
(* finds only in the last case, whoever made the call it replays, a replay *)
(* included.  Decoding twice is decoding once.                             *)
(***************************************************************************)
EXTENDS ToolCalls, FiniteSetTheorems, TLAPS

\* A call's path, arguments and bookkeeping go together.
PathInv ==
  \A c \in Calls :
    /\ pc[c] = "auth" => source[c] = "mcp"
    /\ pc[c] \in {"query", "payload", "limit"} => source[c] = "portal-replay"
    /\ pc[c] \in {"connect", "record"} => source[c] \in {"portal-tryit", "portal-replay"}
    /\ pc[c] # "idle" => source[c] # "none" /\ who[c] \in Users
    /\ source[c] = "portal-replay" <=> target[c] \in Calls
    /\ pc[c] # "idle" /\ source[c] # "portal-replay" => args[c] \in Args
    /\ pc[c] \in {"returned", "record"} => result[c] # "none"
    /\ pc[c] \notin {"returned", "record", "done"} => result[c] = "none"
    /\ result[c] = "none" => reply[c] = Null

\* A call is logged in the step that answers it, or not at all.
LogInv ==
  \A c \in Calls :
    /\ pc[c] # "done" => answer[c] = "none" /\ logged[c] = 0
    /\ pc[c] = "done" => answer[c] # "none"
    /\ logged[c] \in {0, 1}
    /\ logged[c] = 0 => row[c] = NoRow /\ where[c] = "none"

-----------------------------------------------------------------------------
(* Types.                                                                  *)

\* What fitNotifications keeps is a prefix of what was recorded.
LEMMA FitNotesPrefix ==
  ASSUME NEW S, NEW s \in Seq(S)
  PROVE  /\ FitNotes(s) \in Seq(S)
         /\ Len(FitNotes(s)) <= Len(s)
         /\ \A i \in 1 .. Len(FitNotes(s)) : i \in 1 .. Len(s) /\ FitNotes(s)[i] = s[i]
<1> DEFINE P == {n \in 1 .. Len(s) : \A i \in 1 .. n : s[i] \notin Huge}
<1>1. IsFiniteSet(1 .. Len(s)) /\ Cardinality(1 .. Len(s)) = Len(s)
  <2>1. Len(s) \in Nat
    OBVIOUS
  <2>2. Len(s) = IF 1 > Len(s) THEN 0 ELSE Len(s) - 1 + 1
    BY <2>1
  <2> QED  BY <2>1, <2>2, FS_Interval
<1>2. Cardinality(P) \in Nat /\ Cardinality(P) <= Len(s)
  BY <1>1, FS_Subset, FS_CardinalityType
<1>3. FitNotes(s) = SubSeq(s, 1, Cardinality(P))
  BY DEF FitNotes
<1> HIDE DEF P
<1> QED  BY <1>2, <1>3

\* What SanitizeParameters and the size check return.
LEMMA SanitizeType ==
  /\ \A a \in Args : Decode[a] \in Args /\ Sanitize(a) \in Args \cup {Redacted}
  /\ \A m \in Texts : Fitted(m) \in {Null, m}
  /\ \A a \in Args \cup {Redacted, Null} :
       /\ Sanitize(a) \in Args \cup {Redacted, Null} /\ Sanitize(a) \in Sanitized
       /\ Fitted(Sanitize(a)) \in Args \cup {Redacted, Null}
       /\ Fitted(Sanitize(a)) \in Sanitized
       /\ Fitted(Sanitize(a)) \in {Null, Redacted, a} /\ Sanitize(a) \in {Redacted, a}
BY ToolCallsAssumption DEF Sanitize, Fitted, Sanitized, Texts

\* The rows that the four callers of Log build have the type of a row.
LEMMA RowTypes ==
  ASSUME TypeOK, NEW c \in Calls
  PROVE  /\ NoRow \in Row
         /\ args[c] \in Args => RejectedRow(c) \in Row
         /\ args[c] \in Args /\ result[c] # "none" => AuditRow(c) \in Row
         /\ result[c] # "none" => TryitRow(c) \in Row /\ ReplayRow(c) \in Row
<1>1. /\ args[c] \in Args \cup {Redacted, Null} /\ who[c] \in Users \cup {Null}
      /\ target[c] \in Calls \cup {Null} /\ recorder[c] \in Seq(Args \cup {Redacted})
      /\ result[c] \in {"none", "ok", "tool", "handler"} /\ reply[c] \in Texts
  BY DEF TypeOK, CallTypeOK, NoteTypeOK
<1>2. FitNotes(recorder[c]) \in Seq(Args \cup {Redacted})
  BY <1>1, FitNotesPrefix
<1>3. NoRow \in Row
  BY DEF NoRow, Row, Texts
<1>4. Sanitize(args[c]) \in Args \cup {Redacted, Null} /\ Capture \in BOOLEAN
  BY <1>1, SanitizeType, ToolCallsAssumption
<1>5. ASSUME args[c] \in Args
      PROVE  /\ Sanitize(Decode[args[c]]) \in Args \cup {Redacted, Null}
             /\ (IF Capture THEN Fitted(Sanitize(Decode[args[c]])) ELSE Null)
                  \in Args \cup {Redacted, Null}
  BY <1>4, <1>5, SanitizeType
<1>6. /\ Returned(c) \in Texts /\ Failure(c) \in Texts /\ PortalMessage(c) \in Texts
      /\ Message \in Texts /\ Null \in Texts
      /\ (IF Capture THEN Fitted(Returned(c)) ELSE Null) \in Texts
  <2>1. Message \in Texts /\ Null \in Texts
    BY DEF Texts
  <2>2. Returned(c) \in Texts /\ Failure(c) \in Texts /\ PortalMessage(c) \in Texts
    BY <1>1, <2>1 DEF Returned, Failure, PortalMessage
  <2> QED  BY <1>4, <2>1, <2>2, SanitizeType
<1>7. args[c] \in Args => RejectedRow(c) \in Row
  BY <1>3, <1>4, <1>5, <1>6 DEF Row, RejectedRow, extractCallParams
<1>8. ASSUME result[c] # "none"
      PROVE  /\ args[c] \in Args => AuditRow(c) \in Row
             /\ TryitRow(c) \in Row /\ ReplayRow(c) \in Row
  <2>1. Category(result[c]) \in {"", "auth", "tool", "handler"}
    BY <1>1, <1>8 DEF Category
  <2>2. args[c] \in Args => AuditRow(c) \in Row
    BY <1>1, <1>2, <1>4, <1>5, <1>6, <2>1 DEF Row, AuditRow, extractCallParams
  <2>3. TryitRow(c) \in Row
    BY <1>1, <1>3, <1>4, <1>6, <2>1 DEF Row, TryitRow
  <2>4. ReplayRow(c) \in Row
    BY <1>1, <1>3, <1>4, <1>6, <2>1 DEF Row, ReplayRow
  <2> QED  BY <2>2, <2>3, <2>4
<1> QED  BY <1>3, <1>7, <1>8

\* Going on and answering keep the types of a call.
LEMMA MoveTypes ==
  ASSUME CallTypeOK, NEW c \in Calls
  PROVE  /\ \A code \in Answers : Answer(c, code) => CallTypeOK'
         /\ \A l \in Labels : Goto(c, l) => CallTypeOK'
<1>1. "done" \in Labels
  BY DEF Labels
<1> QED  BY <1>1 DEF CallTypeOK, Answer, Goto

\* Steps that leave some of the variables alone keep their types.
LEMMA SameTypes ==
  /\ CallTypeOK /\ UNCHANGED callVars => CallTypeOK'
  /\ NoteTypeOK /\ UNCHANGED noteVars => NoteTypeOK'
  /\ RateTypeOK /\ UNCHANGED rateVars => RateTypeOK'
  /\ RowTypeOK /\ UNCHANGED rowVars => RowTypeOK'
BY DEF CallTypeOK, NoteTypeOK, RateTypeOK, RowTypeOK, callVars, noteVars, rateVars, rowVars

\* Log keeps the types of the tables.
LEMMA LogTypes ==
  ASSUME RowTypeOK, NEW c \in Calls, NEW r \in Row, Log(c, r)
  PROVE  RowTypeOK'
BY DEF RowTypeOK, Log

\* Every step keeps the types, and no recorder outgrows its cap.
LEMMA TypeStep == TypeOK /\ PathInv /\ [Next]_vars => TypeOK'
<1> SUFFICES ASSUME TypeOK, PathInv, [Next]_vars PROVE TypeOK'
  OBVIOUS
<1> USE SameTypes, MoveTypes DEF TypeOK
<1>0. \A l \in {"auth", "connect", "query", "payload", "limit", "running", "returned",
                "record", "done"} : l \in Labels
  BY DEF Labels
<1>00. \A code \in {"200", "400", "401", "404", "429", "500", "502"} : code \in Answers
  BY DEF Answers
<1>1. ASSUME NEW c \in Calls, NEW u \in Users, NEW a \in Args,
             CallArrive(c, u, a) \/ TryitArrive(c, u, a)
      PROVE  TypeOK'
  <2>1. CallTypeOK'
    BY <1>0, <1>1, SanitizeType DEF CallTypeOK, CallArrive, TryitArrive, Arrive
  <2> QED  BY <1>1, <2>1 DEF CallArrive, TryitArrive, Arrive
<1>2. ASSUME NEW c \in Calls, NEW u \in Users, NEW t \in Calls, ReplayArrive(c, u, t)
      PROVE  TypeOK'
  <2>1. CallTypeOK'
    BY <1>0, <1>2 DEF CallTypeOK, ReplayArrive, Arrive
  <2> QED  BY <1>2, <2>1 DEF ReplayArrive, Arrive
<1>3. ASSUME NEW c \in Calls, AuthReject(c) PROVE TypeOK'
  <2>1. args[c] \in Args
    BY <1>3 DEF AuthReject, PathInv
  <2> QED  BY <1>00, <1>3, <2>1, LogTypes, RowTypes DEF AuthReject
<1>4. ASSUME NEW c \in Calls, AuthAccept(c) \/ Connect(c) \/ ReplayFound(c) PROVE TypeOK'
  BY <1>0, <1>4 DEF AuthAccept, Connect, ReplayFound
<1>5. ASSUME NEW c \in Calls, AuditReturn(c) PROVE TypeOK'
  <2>1. CallTypeOK'
    BY <1>0, <1>00, <1>5 DEF AuditReturn
  <2>2. RowTypeOK'
    BY <1>5, LogTypes, RowTypes DEF AuditReturn, SkipsAudit, PathInv
  <2> QED  BY <1>5, <2>1, <2>2 DEF AuditReturn
<1>6. ASSUME NEW c \in Calls, RecordTryit(c) \/ RecordReplay(c) PROVE TypeOK'
  <2>1. CallTypeOK'
    BY <1>00, <1>6 DEF RecordTryit, RecordReplay
  <2>2. RowTypeOK'
    BY <1>6, LogTypes, RowTypes DEF RecordTryit, RecordReplay, PathInv
  <2> QED  BY <1>6, <2>1, <2>2 DEF RecordTryit, RecordReplay
<1>7. ASSUME NEW c \in Calls,
             \/ PortalReject(c) \/ ConnectError(c) \/ ReplayNotFound(c) \/ ReplayDBError(c)
             \/ ReplayRefuse(c) \/ ReplayDeny(c)
      PROVE  TypeOK'
  BY <1>00, <1>7 DEF PortalReject, ConnectError, ReplayNotFound, ReplayDBError,
                     ReplayRefuse, ReplayDeny
<1>8. ASSUME NEW c \in Calls, ReplayValid(c) PROVE TypeOK'
  <2>1. target[c] \in Calls /\ row[target[c]] \in Row
    BY <1>8 DEF ReplayValid, PathInv, RowTypeOK
  <2>2. Captured(target[c]) \in Args \cup {Redacted, Null}
    BY <2>1 DEF Captured, Column, Row
  <2>3. CallTypeOK'
    BY <1>0, <1>8, <2>2 DEF ReplayValid, CallTypeOK
  <2> QED  BY <1>8, <2>3 DEF ReplayValid
<1>9. ASSUME NEW c \in Calls, ReplayAllow(c) PROVE TypeOK'
  <2>1. who[c] \in Users
    BY <1>9 DEF ReplayAllow, PathInv
  <2>2. RateTypeOK'
    BY <1>9, <2>1, ToolCallsAssumption DEF ReplayAllow, RateTypeOK
  <2> QED  BY <1>0, <1>9, <2>2 DEF ReplayAllow
<1>10. ASSUME NEW c \in Calls, NEW r \in {"ok", "tool", "handler"}, NEW m \in Replies(c),
             ToolReturn(c, r, m)
       PROVE  TypeOK'
  <2>1. CallTypeOK'
    BY <1>0, <1>10, ToolCallsAssumption DEF ToolReturn, CallTypeOK, Replies, Texts
  <2> QED  BY <1>10, <2>1 DEF ToolReturn
<1>11. ASSUME NEW c \in Calls, TableStep(c) PROVE TypeOK'
  <2>1. \A r \in Row : [r EXCEPT !.from = Null] \in Row
    BY DEF Row
  <2>2. RowTypeOK'
    BY <1>11, <2>1 DEF TableStep, Insert, InsertDangling, InsertError, Prune, RowTypeOK
  <2> QED  BY <1>11, <2>2 DEF TableStep, Insert, InsertDangling, InsertError, Prune
<1>12. ASSUME NEW n \in Notes, NEW c \in Calls, NEW a \in NoteArgs, NoteCheck(n, c, a)
       PROVE  TypeOK'
  <2>1. [note |-> n, call |-> c, params |-> Sanitize(Decode[a])]
          \in [note : Notes, call : Calls, params : Args \cup {Redacted}]
    BY SanitizeType, ToolCallsAssumption
  <2>2. NoteTypeOK'
    BY <1>12, <2>1 DEF NoteCheck, NoteTypeOK
  <2> QED  BY <1>12, <2>2 DEF NoteCheck
<1>13. ASSUME NEW m \in sending, NoteAppend(m) PROVE TypeOK'
  <2>1. m.call \in Calls /\ m.params \in Args \cup {Redacted}
    BY DEF NoteTypeOK
  <2>2. recorder[m.call] \in Seq(Args \cup {Redacted})
    BY <2>1 DEF NoteTypeOK
  <2>3. /\ Append(recorder[m.call], m.params) \in Seq(Args \cup {Redacted})
        /\ Len(Append(recorder[m.call], m.params)) = Len(recorder[m.call]) + 1
        /\ Len(recorder[m.call]) \in Nat
    BY <2>1, <2>2
  <2>4. NoteTypeOK'
    BY <1>13, <2>1, <2>3, ToolCallsAssumption DEF NoteAppend, NoteTypeOK
  <2> QED  BY <1>13, <2>4 DEF NoteAppend
<1>14. ASSUME NEW u \in Users, Refill(u) PROVE TypeOK'
  <2>1. RateTypeOK'
    BY <1>14, ToolCallsAssumption DEF Refill, RateTypeOK
  <2> QED  BY <1>14, <2>1 DEF Refill
<1>15. CASE UNCHANGED vars
  BY <1>15 DEF vars
<1> QED
  BY <1>1, <1>2, <1>3, <1>4, <1>5, <1>6, <1>7, <1>8, <1>9, <1>10, <1>11, <1>12, <1>13,
     <1>14, <1>15 DEF Next, CallStep

-----------------------------------------------------------------------------
(* Paths and logging.                                                      *)

\* Every step keeps a call on one of the three paths.
LEMMA PathStep == TypeOK /\ PathInv /\ [Next]_vars => PathInv'
<1> SUFFICES ASSUME TypeOK, PathInv, [Next]_vars PROVE PathInv'
  OBVIOUS
<1> USE DEF TypeOK, CallTypeOK, PathInv
<1>1. ASSUME NEW c \in Calls, NEW u \in Users, NEW a \in Args,
             CallArrive(c, u, a) \/ TryitArrive(c, u, a)
      PROVE  PathInv'
  BY <1>1, SanitizeType, ToolCallsAssumption DEF CallArrive, TryitArrive, Arrive
<1>2. ASSUME NEW c \in Calls, NEW u \in Users, NEW t \in Calls, ReplayArrive(c, u, t)
      PROVE  PathInv'
  BY <1>2 DEF ReplayArrive, Arrive
<1>3. ASSUME NEW c \in Calls, AuthReject(c) \/ RecordTryit(c) \/ RecordReplay(c) PROVE PathInv'
  BY <1>3 DEF AuthReject, RecordTryit, RecordReplay, Answer
<1>4. ASSUME NEW c \in Calls, AuthAccept(c) \/ Connect(c) \/ ReplayFound(c) PROVE PathInv'
  BY <1>4 DEF AuthAccept, Connect, ReplayFound, Goto
<1>5. ASSUME NEW c \in Calls, AuditReturn(c) PROVE PathInv'
  BY <1>5 DEF AuditReturn, Answer, Goto
<1>6. ASSUME NEW c \in Calls,
             \/ PortalReject(c) \/ ConnectError(c) \/ ReplayNotFound(c) \/ ReplayDBError(c)
             \/ ReplayRefuse(c) \/ ReplayDeny(c)
      PROVE  PathInv'
  BY <1>6 DEF PortalReject, ConnectError, ReplayNotFound, ReplayDBError, ReplayRefuse,
              ReplayDeny, Answer
<1>7. ASSUME NEW c \in Calls, ReplayValid(c) PROVE PathInv'
  BY <1>7 DEF ReplayValid
<1>8. ASSUME NEW c \in Calls, ReplayAllow(c) PROVE PathInv'
  BY <1>8 DEF ReplayAllow, Goto
<1>9. ASSUME NEW c \in Calls, NEW r \in {"ok", "tool", "handler"}, NEW m \in Replies(c),
             ToolReturn(c, r, m)
      PROVE  PathInv'
  BY <1>9 DEF ToolReturn
<1>10. ASSUME UNCHANGED callVars PROVE PathInv'
  BY <1>10 DEF callVars
<1>11. ASSUME NEW c \in Calls, TableStep(c) PROVE UNCHANGED callVars
  BY <1>11 DEF TableStep, Insert, InsertDangling, InsertError, Prune
<1>12. ASSUME NEW n \in Notes, NEW c \in Calls, NEW a \in NoteArgs, NoteCheck(n, c, a)
       PROVE  UNCHANGED callVars
  BY <1>12 DEF NoteCheck
<1>13. ASSUME NEW m \in sending, NoteAppend(m) PROVE UNCHANGED callVars
  BY <1>13 DEF NoteAppend
<1>14. ASSUME NEW u \in Users, Refill(u) PROVE UNCHANGED callVars
  BY <1>14 DEF Refill
<1>15. CASE UNCHANGED vars
  BY <1>10, <1>15 DEF vars
<1> USE DEF Next, CallStep
<1> HIDE DEF TypeOK, CallTypeOK, PathInv
<1> QED
  BY <1>1, <1>2, <1>3, <1>4, <1>5, <1>6, <1>7, <1>8, <1>9, <1>10, <1>11, <1>12, <1>13,
     <1>14, <1>15

\* What no step changes: anything of an answered call, the arguments of a
\* call except where a replay reads them, what a tool said, where a call came
\* from once it has arrived; and a call is neither undone nor answered twice.
Fixed(d) ==
  /\ pc[d] = "done" => /\ pc'[d] = "done" /\ result'[d] = result[d] /\ answer'[d] = answer[d]
  /\ pc[d] # "idle" => /\ pc'[d] # "idle" /\ source'[d] = source[d]
                       /\ who'[d] = who[d] /\ target'[d] = target[d]
  /\ pc[d] \notin {"idle", "payload"} => args'[d] = args[d]
  /\ pc[d] # "running" => reply'[d] = reply[d]
  /\ pc[d] # "done" /\ pc'[d] # "done" => answer'[d] = answer[d]

\* Every step leaves that alone.
LEMMA StepsKeepFixed == TypeOK /\ [Next]_vars => \A d \in Calls : Fixed(d)
<1> SUFFICES ASSUME TypeOK, [Next]_vars PROVE \A d \in Calls : Fixed(d)
  OBVIOUS
<1> DEFINE Keep == \A d \in Calls : Fixed(d)
<1> USE DEF TypeOK, CallTypeOK, Fixed
<1>1. ASSUME NEW c \in Calls, NEW u \in Users, NEW a \in Args,
             CallArrive(c, u, a) \/ TryitArrive(c, u, a)
      PROVE  Keep
  BY <1>1 DEF CallArrive, TryitArrive, Arrive
<1>2. ASSUME NEW c \in Calls, NEW u \in Users, NEW t \in Calls, ReplayArrive(c, u, t)
      PROVE  Keep
  BY <1>2 DEF ReplayArrive, Arrive
<1>3. ASSUME NEW c \in Calls, AuthReject(c) \/ RecordTryit(c) \/ RecordReplay(c) PROVE Keep
  BY <1>3 DEF AuthReject, RecordTryit, RecordReplay, Answer
<1>4. ASSUME NEW c \in Calls, AuthAccept(c) \/ Connect(c) \/ ReplayFound(c) PROVE Keep
  BY <1>4 DEF AuthAccept, Connect, ReplayFound, Goto
<1>5. ASSUME NEW c \in Calls, AuditReturn(c) PROVE Keep
  BY <1>5 DEF AuditReturn, Answer, Goto
<1>6. ASSUME NEW c \in Calls,
             \/ PortalReject(c) \/ ConnectError(c) \/ ReplayNotFound(c) \/ ReplayDBError(c)
             \/ ReplayRefuse(c) \/ ReplayDeny(c)
      PROVE  Keep
  BY <1>6 DEF PortalReject, ConnectError, ReplayNotFound, ReplayDBError, ReplayRefuse,
              ReplayDeny, Answer
<1>7. ASSUME NEW c \in Calls, ReplayValid(c) PROVE Keep
  BY <1>7 DEF ReplayValid
<1>8. ASSUME NEW c \in Calls, ReplayAllow(c) PROVE Keep
  BY <1>8 DEF ReplayAllow, Goto
<1>9. ASSUME NEW c \in Calls, NEW r \in {"ok", "tool", "handler"}, NEW m \in Replies(c),
             ToolReturn(c, r, m)
      PROVE  Keep
  BY <1>9 DEF ToolReturn
<1>10. ASSUME UNCHANGED callVars PROVE Keep
  BY <1>10 DEF callVars
<1> HIDE DEF TypeOK, CallTypeOK, Fixed, Keep
<1> QED
  BY <1>1, <1>2, <1>3, <1>4, <1>5, <1>6, <1>7, <1>8, <1>9, <1>10
  DEF Next, CallStep, TableStep, Insert, InsertDangling, InsertError, Prune, NoteCheck,
      NoteAppend, Refill, vars, Keep

\* The steps that answer a call that was given to audit.Log: what they were
\* at, the row they give, and the answer.
LogStep(c) ==
  \/ /\ pc[c] = "auth" /\ Log(c, RejectedRow(c)) /\ answer'[c] = "401"
     /\ result'[c] = "none"
  \/ /\ pc[c] = "returned" /\ source[c] = "mcp" /\ Log(c, AuditRow(c))
     /\ answer'[c] = IF result[c] = "handler" THEN "502" ELSE "200"
     /\ result'[c] = result[c]
  \/ /\ pc[c] = "record" /\ source[c] = "portal-tryit" /\ Log(c, TryitRow(c))
     /\ answer'[c] = IF result[c] = "handler" THEN "502" ELSE "200"
     /\ result'[c] = result[c]
  \/ /\ pc[c] = "record" /\ source[c] = "portal-replay" /\ Log(c, ReplayRow(c))
     /\ answer'[c] = IF result[c] = "ok" THEN "200" ELSE "502"
     /\ result'[c] = result[c]

\* The effect of a step on the audit log: none, in which case a call it
\* answers never reached the tool; one event of the call it answers; or a
\* step of the tables.
LEMMA LogEffects ==
  ASSUME TypeOK, PathInv, LogInv, [Next]_vars
  PROVE  \/ /\ UNCHANGED rowVars
            /\ \A d \in Calls : pc[d] # "done" /\ pc'[d] = "done" =>
                 result'[d] = "none" /\ answer'[d] \notin {"none", "401", "200", "502"}
         \/ \E c \in Calls :
              /\ LogStep(c) /\ pc'[c] = "done"
              /\ \A d \in Calls \ {c} : pc'[d] = pc[d]
         \/ (\E c \in Calls : TableStep(c)) /\ UNCHANGED callVars
<1> DEFINE Quiet == /\ UNCHANGED rowVars
                    /\ \A d \in Calls : pc[d] # "done" /\ pc'[d] = "done" =>
                         /\ result'[d] = "none"
                         /\ answer'[d] \notin {"none", "401", "200", "502"}
           Logs(c) == /\ LogStep(c) /\ pc'[c] = "done"
                      /\ \A d \in Calls \ {c} : pc'[d] = pc[d]
<1> USE DEF TypeOK, CallTypeOK, PathInv
<1>1. ASSUME NEW c \in Calls, NEW u \in Users, NEW a \in Args,
             CallArrive(c, u, a) \/ TryitArrive(c, u, a)
      PROVE  Quiet
  BY <1>1 DEF CallArrive, TryitArrive, Arrive
<1>2. ASSUME NEW c \in Calls, NEW u \in Users, NEW t \in Calls, ReplayArrive(c, u, t)
      PROVE  Quiet
  BY <1>2 DEF ReplayArrive, Arrive
<1>3. ASSUME NEW c \in Calls, AuthReject(c) \/ RecordTryit(c) \/ RecordReplay(c) PROVE Logs(c)
  BY <1>3 DEF AuthReject, RecordTryit, RecordReplay, Answer, LogStep
<1>4. ASSUME NEW c \in Calls, AuthAccept(c) \/ Connect(c) \/ ReplayFound(c) PROVE Quiet
  BY <1>4 DEF AuthAccept, Connect, ReplayFound, Goto
<1>5. ASSUME NEW c \in Calls, AuditReturn(c) PROVE Quiet \/ Logs(c)
  BY <1>5 DEF AuditReturn, SkipsAudit, Answer, Goto, LogStep
<1>6. ASSUME NEW c \in Calls,
             \/ PortalReject(c) \/ ConnectError(c) \/ ReplayNotFound(c) \/ ReplayDBError(c)
             \/ ReplayRefuse(c) \/ ReplayDeny(c)
      PROVE  Quiet
  BY <1>6 DEF PortalReject, ConnectError, ReplayNotFound, ReplayDBError, ReplayRefuse,
              ReplayDeny, Answer
<1>7. ASSUME NEW c \in Calls, ReplayValid(c) PROVE Quiet
  BY <1>7 DEF ReplayValid
<1>8. ASSUME NEW c \in Calls, ReplayAllow(c) PROVE Quiet
  BY <1>8 DEF ReplayAllow, Goto
<1>9. ASSUME NEW c \in Calls, NEW r \in {"ok", "tool", "handler"}, NEW m \in Replies(c),
             ToolReturn(c, r, m)
      PROVE  Quiet
  BY <1>9 DEF ToolReturn
<1>10. ASSUME UNCHANGED callVars, UNCHANGED rowVars PROVE Quiet
  BY <1>10 DEF callVars
<1>11. ASSUME NEW c \in Calls, TableStep(c) PROVE UNCHANGED callVars
  BY <1>11 DEF TableStep, Insert, InsertDangling, InsertError, Prune
<1> HIDE DEF TypeOK, CallTypeOK, PathInv, Quiet, Logs
<1>12. Quiet \/ (\E c \in Calls : Logs(c)) \/ ((\E c \in Calls : TableStep(c)) /\ UNCHANGED callVars)
  BY <1>1, <1>2, <1>3, <1>4, <1>5, <1>6, <1>7, <1>8, <1>9, <1>10, <1>11
  DEF Next, CallStep, NoteCheck, NoteAppend, Refill, vars
<1> QED  BY <1>12 DEF Quiet, Logs

\* What a step of the tables does to the rows: only Prune changes any, and
\* only the reference of a row that is in audit_payloads.
LEMMA TableEffects ==
  ASSUME TypeOK, NEW c \in Calls, TableStep(c)
  PROVE  /\ logged' = logged /\ where[c] \in {"pending", "stored"}
         /\ \A d \in Calls \ {c} : where'[d] = where[d]
         /\ where[c] = "pending" => where'[c] \in {"stored", "dangling", "lost"} /\ row' = row
         /\ where[c] = "stored" => where'[c] = "pruned" /\ payloads' = payloads \ {c}
         /\ where[c] = "pending" =>
              payloads' = IF where'[c] = "stored" /\ row[c].payload THEN payloads \cup {c}
                          ELSE payloads
         /\ where[c] = "pending" /\ where'[c] = "stored" => row[c].from \in Stored \cup {Null}
         /\ \A d \in Calls :
              /\ d \notin payloads => row'[d] = row[d]
              /\ row'[d].from = IF where[c] = "stored" /\ d \in payloads /\ row[d].from = c
                                THEN Null ELSE row[d].from
              /\ row'[d].who = row[d].who /\ row'[d].category = row[d].category
              /\ row'[d].params = row[d].params /\ row'[d].payload = row[d].payload
              /\ row'[d].request = row[d].request /\ row'[d].notes = row[d].notes
              /\ row'[d].response = row[d].response /\ row'[d].message = row[d].message
<1> USE DEF TypeOK, RowTypeOK
<1>1. CASE Insert(c) \/ InsertDangling(c) \/ InsertError(c)
  BY <1>1 DEF Insert, InsertDangling, InsertError
<1>2. CASE Prune(c)
  <2>1. /\ logged' = logged /\ where[c] = "stored" /\ where'[c] = "pruned"
        /\ payloads' = payloads \ {c} /\ \A d \in Calls \ {c} : where'[d] = where[d]
    BY <1>2 DEF Prune
  <2>2. ASSUME NEW d \in Calls
        PROVE  row'[d] = IF d \in payloads /\ row[d].from = c
                         THEN [row[d] EXCEPT !.from = Null] ELSE row[d]
    BY <1>2 DEF Prune
  <2>3. ASSUME NEW d \in Calls
        PROVE  /\ d \notin payloads => row'[d] = row[d]
               /\ row'[d].from = IF d \in payloads /\ row[d].from = c
                                 THEN Null ELSE row[d].from
               /\ row'[d].who = row[d].who /\ row'[d].category = row[d].category
               /\ row'[d].params = row[d].params /\ row'[d].payload = row[d].payload
               /\ row'[d].request = row[d].request /\ row'[d].notes = row[d].notes
              /\ row'[d].response = row[d].response /\ row'[d].message = row[d].message
    <3>1. row[d] \in Row
      OBVIOUS
    <3> QED  BY <2>2, <3>1 DEF Row
  <2> QED  BY <2>1, <2>3
<1> QED  BY <1>1, <1>2 DEF TableStep

\* The two tables hold the same events as far as payloads go.
SyncInv == payloads = {c \in Stored : row[c].payload}

\* What the row that answers a call says.
LEMMA LoggedRow ==
  ASSUME TypeOK, PathInv, NEW c \in Calls, LogStep(c)
  PROVE  /\ row'[c].from = target[c]
         /\ row'[c].who = IF answer'[c] = "401" THEN Null ELSE who[c]
         /\ answer'[c] = "401" <=> row'[c].category = "auth"
         /\ row'[c].category = "" => answer'[c] = "200"
         /\ row'[c].category = "handler" => answer'[c] = "502"
         /\ row'[c].params \in Sanitized /\ row'[c].request \in Sanitized
         /\ row'[c].notes \in {<<>>, FitNotes(recorder[c])}
         /\ row'[c].response \in {Null, reply[c]} /\ row'[c].message \in {Null, Message, reply[c]}
<1> USE DEF TypeOK, CallTypeOK, RowTypeOK
<1>1. source[c] # "portal-replay" => target[c] = Null
  BY DEF PathInv
<1>2. /\ args[c] \in Args \cup {Redacted, Null} /\ Null \in Sanitized
      /\ result[c] \in {"none", "ok", "tool", "handler"} /\ reply[c] \in Texts
  BY DEF Sanitized
<1>3. Sanitize(args[c]) \in Sanitized
  BY <1>2, SanitizeType
<1>4. ASSUME args[c] \in Args
      PROVE  /\ Sanitize(Decode[args[c]]) \in Sanitized
             /\ (IF Capture THEN Fitted(Sanitize(Decode[args[c]])) ELSE Null) \in Sanitized
  <2>1. Decode[args[c]] \in Args
    BY <1>4, SanitizeType
  <2> QED  BY <1>2, <2>1, SanitizeType
<1>5. /\ Returned(c) \in {Null, reply[c]} /\ Failure(c) \in {Null, reply[c]}
      /\ PortalMessage(c) \in {Null, Message, reply[c]}
      /\ (IF Capture THEN Fitted(Returned(c)) ELSE Null) \in {Null, reply[c]}
  <2>1. Returned(c) \in {Null, reply[c]} /\ Failure(c) \in {Null, reply[c]}
    BY DEF Returned, Failure
  <2>2. PortalMessage(c) \in {Null, Message, reply[c]}
    BY <2>1 DEF PortalMessage
  <2>3. Null \in Texts
    BY DEF Texts
  <2> QED  BY <1>2, <2>1, <2>2, <2>3, SanitizeType
<1>6. CASE pc[c] = "auth" /\ Log(c, RejectedRow(c)) /\ answer'[c] = "401"
  <2>1. row'[c] = RejectedRow(c)
    BY <1>6 DEF Log
  <2>2. source[c] = "mcp" /\ args[c] \in Args
    BY <1>6 DEF PathInv
  <2>3. /\ row'[c].from = Null /\ row'[c].who = Null /\ row'[c].category = "auth"
        /\ row'[c].params = Null /\ row'[c].message = Message /\ row'[c].response = Null
        /\ row'[c].notes = <<>>
        /\ row'[c].request = IF Capture THEN Fitted(Sanitize(Decode[args[c]])) ELSE Null
    BY <2>1 DEF RejectedRow, extractCallParams, NoRow
  <2> QED  BY <1>1, <1>2, <1>4, <1>6, <2>2, <2>3
<1>7. CASE /\ pc[c] = "returned" /\ source[c] = "mcp" /\ Log(c, AuditRow(c))
           /\ answer'[c] = IF result[c] = "handler" THEN "502" ELSE "200"
  <2>1. row'[c] = AuditRow(c)
    BY <1>7 DEF Log
  <2>2. result[c] # "none" /\ args[c] \in Args
    BY <1>7 DEF PathInv
  <2>3. /\ row'[c].from = Null /\ row'[c].who = who[c]
        /\ row'[c].category = Category(result[c]) /\ row'[c].params = Sanitize(Decode[args[c]])
        /\ row'[c].notes = FitNotes(recorder[c]) /\ row'[c].message = Failure(c)
        /\ row'[c].request = IF Capture THEN Fitted(Sanitize(Decode[args[c]])) ELSE Null
        /\ row'[c].response = IF Capture THEN Fitted(Returned(c)) ELSE Null
    BY <2>1 DEF AuditRow, extractCallParams
  <2>4. /\ row'[c].category # "auth"
        /\ row'[c].category = "" <=> result[c] = "ok"
        /\ row'[c].category = "handler" <=> result[c] = "handler"
    BY <1>2, <2>2, <2>3 DEF Category
  <2> QED  BY <1>1, <1>4, <1>5, <1>7, <2>2, <2>3, <2>4
<1>8. CASE /\ pc[c] = "record" /\ source[c] = "portal-tryit" /\ Log(c, TryitRow(c))
           /\ answer'[c] = IF result[c] = "handler" THEN "502" ELSE "200"
  <2>1. row'[c] = TryitRow(c)
    BY <1>8 DEF Log
  <2>2. result[c] # "none"
    BY <1>8 DEF PathInv
  <2> QED  BY <1>1, <1>2, <1>3, <1>5, <1>8, <2>1, <2>2 DEF TryitRow, NoRow, Category
<1>9. CASE /\ pc[c] = "record" /\ source[c] = "portal-replay" /\ Log(c, ReplayRow(c))
           /\ answer'[c] = IF result[c] = "ok" THEN "200" ELSE "502"
  <2>1. row'[c] = ReplayRow(c)
    BY <1>9 DEF Log
  <2>2. result[c] # "none"
    BY <1>9 DEF PathInv
  <2> QED  BY <1>1, <1>2, <1>3, <1>5, <1>9, <2>1, <2>2 DEF ReplayRow, NoRow, Category
<1> QED  BY <1>6, <1>7, <1>8, <1>9 DEF LogStep

\* What a call of Log leaves alone, and what it does to the call it is for.
LEMMA LogFrame ==
  ASSUME TypeOK, LogInv, NEW c \in Calls, LogStep(c)
  PROVE  /\ pc[c] # "done" /\ logged[c] = 0 /\ logged'[c] = 1 /\ answer'[c] # "none"
         /\ where[c] = "none" /\ where'[c] \in {"pending", "lost"} /\ payloads' = payloads
         /\ \A d \in Calls \ {c} :
              row'[d] = row[d] /\ where'[d] = where[d] /\ logged'[d] = logged[d]
<1>1. \E r : Log(c, r)
  BY DEF LogStep
<1>2. pc[c] # "done" /\ answer'[c] # "none"
  BY DEF LogStep
<1> QED  BY <1>1, <1>2 DEF TypeOK, RowTypeOK, LogInv, Log

\* A call that is not logged has no row anywhere.
LEMMA LogStepInv ==
  ASSUME TypeOK, PathInv, LogInv, SyncInv, [Next]_vars
  PROVE  LogInv' /\ SyncInv'
<1> USE DEF TypeOK, RowTypeOK
<1>1. \A d \in Calls : Fixed(d)
  BY StepsKeepFixed
<1>2. ASSUME UNCHANGED rowVars,
             \A d \in Calls : pc[d] # "done" /\ pc'[d] = "done" => answer'[d] # "none"
      PROVE  LogInv' /\ SyncInv'
  <2>1. SyncInv'
    BY <1>2 DEF SyncInv, Stored, rowVars
  <2>2. LogInv'
    BY <1>1, <1>2 DEF LogInv, rowVars, Fixed
  <2> QED  BY <2>1, <2>2
<1>3. ASSUME NEW c \in Calls, LogStep(c), pc'[c] = "done",
             \A d \in Calls \ {c} : pc'[d] = pc[d]
      PROVE  LogInv' /\ SyncInv'
  <2>1. LogInv'
    BY <1>1, <1>3, LogFrame DEF LogInv, Fixed
  <2>2. SyncInv'
    BY <1>3, LogFrame DEF SyncInv, Stored
  <2> QED  BY <2>1, <2>2
<1>4. ASSUME NEW c \in Calls, TableStep(c), UNCHANGED callVars PROVE LogInv' /\ SyncInv'
  <2>1. SyncInv'
    BY <1>4, TableEffects DEF SyncInv, Stored
  <2>2. \A d \in Calls : logged[d] = 0 => d # c /\ d \notin payloads
    BY <1>4, TableEffects DEF SyncInv, Stored, LogInv
  <2>3. LogInv'
    BY <1>4, <2>2, TableEffects DEF LogInv, callVars
  <2> QED  BY <2>1, <2>3
<1> QED  BY <1>2, <1>3, <1>4, LogEffects

\* What the row of one call says about its answer.
Says(c) ==
  /\ row[c].who = IF answer[c] = "401" THEN Null ELSE who[c]
  /\ answer[c] = "401" <=> row[c].category = "auth"
  /\ row[c].category = "" => answer[c] = "200"
  /\ row[c].category = "handler" => answer[c] = "502"

\* One event per call is logged, and it says what the caller was told.
LEMMA AnsweredInv ==
  ASSUME TypeOK, PathInv, LogInv, SyncInv, OneEventPerCall, RowMatchesAnswer, [Next]_vars
  PROVE  OneEventPerCall' /\ RowMatchesAnswer'
<1>0. /\ RowMatchesAnswer => \A d \in Calls : pc[d] = "done" /\ logged[d] > 0 => Says(d)
      /\ (\A d \in Calls : pc'[d] = "done" /\ logged'[d] > 0 => Says(d)') => RowMatchesAnswer'
  BY Zenon DEF RowMatchesAnswer, Says
<1>1. \A d \in Calls : Fixed(d)
  BY StepsKeepFixed
<1>2. ASSUME UNCHANGED rowVars,
             \A d \in Calls : pc[d] # "done" /\ pc'[d] = "done" =>
               result'[d] = "none" /\ answer'[d] \notin {"none", "401", "200", "502"}
      PROVE  OneEventPerCall' /\ RowMatchesAnswer'
  <2>1. \A d \in Calls : pc[d] # "done" => logged[d] = 0
    BY DEF LogInv
  <2>2. OneEventPerCall'
    BY <1>1, <1>2, <2>1 DEF OneEventPerCall, rowVars, Fixed
  <2>3. RowMatchesAnswer'
    <3> SUFFICES ASSUME NEW d \in Calls, pc'[d] = "done", logged'[d] > 0 PROVE Says(d)'
      BY <1>0
    <3>1. pc[d] = "done" /\ logged[d] > 0
      BY <1>2, <2>1 DEF rowVars
    <3>2. who'[d] = who[d] /\ answer'[d] = answer[d] /\ row'[d] = row[d]
      BY <1>1, <1>2, <3>1 DEF Fixed, rowVars
    <3> QED  BY <1>0, <3>1, <3>2 DEF Says
  <2> QED  BY <2>2, <2>3
<1>3. ASSUME NEW c \in Calls, LogStep(c), pc'[c] = "done",
             \A d \in Calls \ {c} : pc'[d] = pc[d]
      PROVE  OneEventPerCall' /\ RowMatchesAnswer'
  <2>1. pc[c] # "done" /\ logged'[c] = 1 /\ \A d \in Calls \ {c} :
          row'[d] = row[d] /\ logged'[d] = logged[d]
    BY <1>3, LogFrame
  <2>2. result'[c] # "none" \/ answer'[c] = "401"
    BY <1>3 DEF LogStep, PathInv
  <2>3. OneEventPerCall'
    BY <1>1, <1>3, <2>1, <2>2 DEF OneEventPerCall, Fixed
  <2>4. who'[c] = who[c]
    BY <1>1, <1>3 DEF LogStep, Fixed
  <2>5. RowMatchesAnswer'
    <3> SUFFICES ASSUME NEW d \in Calls, pc'[d] = "done", logged'[d] > 0 PROVE Says(d)'
      BY <1>0
    <3>1. CASE d = c
      BY <1>3, <2>4, <3>1, LoggedRow DEF Says
    <3>2. CASE d # c
      <4>1. pc[d] = "done" /\ logged[d] > 0 /\ row'[d] = row[d]
        BY <1>3, <2>1, <3>2
      <4>2. who'[d] = who[d] /\ answer'[d] = answer[d]
        BY <1>1, <4>1 DEF Fixed
      <4> QED  BY <1>0, <4>1, <4>2 DEF Says
    <3> QED  BY <3>1, <3>2
  <2> QED  BY <2>3, <2>5
<1>4. ASSUME NEW c \in Calls, TableStep(c), UNCHANGED callVars
      PROVE  OneEventPerCall' /\ RowMatchesAnswer'
  <2>1. OneEventPerCall'
    BY <1>4, TableEffects DEF OneEventPerCall, callVars
  <2>2. RowMatchesAnswer'
    <3> SUFFICES ASSUME NEW d \in Calls, pc'[d] = "done", logged'[d] > 0 PROVE Says(d)'
      BY <1>0
    <3>1. pc[d] = "done" /\ logged[d] > 0 /\ who' = who /\ answer' = answer
      BY <1>4, TableEffects DEF callVars
    <3>2. row'[d].who = row[d].who /\ row'[d].category = row[d].category
      BY <1>4, TableEffects
    <3> QED  BY <1>0, <3>1, <3>2 DEF Says
  <2> QED  BY <2>1, <2>2
<1> QED  BY <1>2, <1>3, <1>4, LogEffects

-----------------------------------------------------------------------------
(* Replays.                                                                *)

Called == {"limit", "connect", "running", "returned", "record"}

\* A replay goes on to its call only from what GetPayload gave it, and to
\* GetPayload only when Query found its target.
Ordered(d) ==
  source'[d] = "portal-replay" =>
    /\ pc'[d] \in Called /\ pc[d] \notin Called =>
         /\ pc[d] = "payload" /\ pc'[d] = "limit" /\ args'[d] = Captured(target[d])
         /\ Replayable(Captured(target[d]))
    /\ pc'[d] \in Called \cup {"payload"} /\ pc[d] \notin Called \cup {"payload"} =>
         pc[d] = "query" /\ target[d] \in Stored

\* No step takes a short cut.
LEMMA StepsKeepOrder == TypeOK /\ PathInv /\ [Next]_vars => \A d \in Calls : Ordered(d)
<1> SUFFICES ASSUME TypeOK, PathInv, [Next]_vars PROVE \A d \in Calls : Ordered(d)
  OBVIOUS
<1> DEFINE Keep == \A d \in Calls : Ordered(d)
<1> USE DEF TypeOK, CallTypeOK, PathInv, Ordered, Called
<1>1. ASSUME NEW c \in Calls, NEW u \in Users, NEW a \in Args,
             CallArrive(c, u, a) \/ TryitArrive(c, u, a)
      PROVE  Keep
  BY <1>1 DEF CallArrive, TryitArrive, Arrive
<1>2. ASSUME NEW c \in Calls, NEW u \in Users, NEW t \in Calls, ReplayArrive(c, u, t)
      PROVE  Keep
  BY <1>2 DEF ReplayArrive, Arrive
<1>3. ASSUME NEW c \in Calls, AuthReject(c) \/ RecordTryit(c) \/ RecordReplay(c) PROVE Keep
  BY <1>3 DEF AuthReject, RecordTryit, RecordReplay, Answer
<1>4. ASSUME NEW c \in Calls, AuthAccept(c) \/ Connect(c) \/ ReplayFound(c) PROVE Keep
  BY <1>4 DEF AuthAccept, Connect, ReplayFound, Goto
<1>5. ASSUME NEW c \in Calls, AuditReturn(c) PROVE Keep
  BY <1>5 DEF AuditReturn, Answer, Goto
<1>6. ASSUME NEW c \in Calls,
             \/ PortalReject(c) \/ ConnectError(c) \/ ReplayNotFound(c) \/ ReplayDBError(c)
             \/ ReplayRefuse(c) \/ ReplayDeny(c)
      PROVE  Keep
  BY <1>6 DEF PortalReject, ConnectError, ReplayNotFound, ReplayDBError, ReplayRefuse,
              ReplayDeny, Answer
<1>7. ASSUME NEW c \in Calls, ReplayValid(c) PROVE Keep
  BY <1>7 DEF ReplayValid
<1>8. ASSUME NEW c \in Calls, ReplayAllow(c) PROVE Keep
  BY <1>8 DEF ReplayAllow, Goto
<1>9. ASSUME NEW c \in Calls, NEW r \in {"ok", "tool", "handler"}, NEW m \in Replies(c),
             ToolReturn(c, r, m)
      PROVE  Keep
  BY <1>9 DEF ToolReturn
<1>10. ASSUME UNCHANGED callVars PROVE Keep
  BY <1>10 DEF callVars
<1> HIDE DEF TypeOK, CallTypeOK, PathInv, Ordered, Called, Keep
<1> QED
  BY <1>1, <1>2, <1>3, <1>4, <1>5, <1>6, <1>7, <1>8, <1>9, <1>10
  DEF Next, CallStep, TableStep, Insert, InsertDangling, InsertError, Prune, NoteCheck,
      NoteAppend, Refill, vars, Keep

\* How a call comes by its arguments and its reply.
Given(d) ==
  /\ \/ args'[d] = args[d] /\ source'[d] = source[d]
     \/ pc[d] = "idle" /\ source'[d] = "mcp"
     \/ pc[d] = "idle" /\ source'[d] = "portal-tryit" /\ \E a \in Args : args'[d] = Decode[a]
     \/ pc[d] = "idle" /\ args'[d] = Null
     \/ /\ pc[d] = "payload" /\ source'[d] = source[d]
        /\ args'[d] = Captured(target[d]) /\ Replayable(args'[d])
  /\ reply'[d] = reply[d] \/ (pc[d] = "running" /\ reply'[d] \in Replies(d))

\* By no other way.
LEMMA StepsKeepGiven == TypeOK /\ [Next]_vars => \A d \in Calls : Given(d)
<1> SUFFICES ASSUME TypeOK, [Next]_vars PROVE \A d \in Calls : Given(d)
  OBVIOUS
<1> DEFINE Keep == \A d \in Calls : Given(d)
<1> USE DEF TypeOK, CallTypeOK, Given
<1>1. ASSUME NEW c \in Calls, NEW u \in Users, NEW a \in Args,
             CallArrive(c, u, a) \/ TryitArrive(c, u, a)
      PROVE  Keep
  BY <1>1 DEF CallArrive, TryitArrive, Arrive
<1>2. ASSUME NEW c \in Calls, NEW u \in Users, NEW t \in Calls, ReplayArrive(c, u, t)
      PROVE  Keep
  BY <1>2 DEF ReplayArrive, Arrive
<1>3. ASSUME NEW c \in Calls, ReplayValid(c) PROVE Keep
  BY <1>3 DEF ReplayValid
<1>4. ASSUME NEW c \in Calls, NEW r \in {"ok", "tool", "handler"}, NEW m \in Replies(c),
             ToolReturn(c, r, m)
      PROVE  Keep
  BY <1>4 DEF ToolReturn
<1>5. ASSUME UNCHANGED <<args, source, reply>> PROVE Keep
  BY <1>5
<1> HIDE DEF TypeOK, CallTypeOK, Given, Keep
<1> QED
  BY <1>1, <1>2, <1>3, <1>4, <1>5
  DEF Next, CallStep, AuthReject, AuthAccept, AuditReturn, PortalReject, ConnectError,
      Connect, RecordTryit, ReplayFound, ReplayNotFound, ReplayDBError, ReplayRefuse,
      ReplayAllow, ReplayDeny, RecordReplay, Answer, Goto, TableStep, Insert,
      InsertDangling, InsertError, Prune, NoteCheck, NoteAppend, Refill, vars, callVars, Keep

\* What the portal calls a tool with has been decoded.
DecodedInv == \A c \in Calls : source[c] # "mcp" /\ args[c] \in Args => Decode[args[c]] = args[c]

\* What a row captured is gone, redacted, or decoded from what its call still has.
Kept(c) == \/ row[c].request \in {Null, Redacted}
           \/ args[c] \in Args /\ row[c].request = Decode[args[c]]

CaptureInv == \A c \in Calls : Kept(c)

\* The row that answers a call captures that.
LEMMA LoggedRequest ==
  ASSUME TypeOK, PathInv, DecodedInv, NEW c \in Calls, LogStep(c)
  PROVE  \/ row'[c].request \in {Null, Redacted}
         \/ args[c] \in Args /\ row'[c].request = Decode[args[c]]
<1> USE DEF TypeOK, CallTypeOK, RowTypeOK
<1>1. args[c] \in Args \cup {Redacted, Null}
  OBVIOUS
<1>2. CASE /\ pc[c] \in {"auth", "returned"} /\ source[c] = "mcp"
           /\ row'[c].request = IF Capture THEN Fitted(Sanitize(Decode[args[c]])) ELSE Null
  <2>1. args[c] \in Args /\ Decode[args[c]] \in Args
    BY <1>2, SanitizeType DEF PathInv
  <2>2. Fitted(Sanitize(Decode[args[c]])) \in {Null, Redacted, Decode[args[c]]}
    BY <2>1, SanitizeType
  <2> QED  BY <1>2, <2>1, <2>2, ToolCallsAssumption
<1>3. CASE source[c] # "mcp" /\ row'[c].request = Sanitize(args[c])
  <2>1. Sanitize(args[c]) \in {Redacted, args[c]}
    BY <1>1, SanitizeType
  <2> QED  BY <1>1, <1>3, <2>1 DEF DecodedInv
<1>4. CASE pc[c] = "auth" /\ Log(c, RejectedRow(c))
  <2>1. row'[c] = RejectedRow(c) /\ source[c] = "mcp"
    BY <1>4 DEF Log, PathInv
  <2> QED  BY <1>2, <1>4, <2>1 DEF RejectedRow, extractCallParams, NoRow
<1>5. CASE pc[c] = "returned" /\ source[c] = "mcp" /\ Log(c, AuditRow(c))
  <2>1. row'[c] = AuditRow(c)
    BY <1>5 DEF Log
  <2> QED  BY <1>2, <1>5, <2>1 DEF AuditRow, extractCallParams
<1>6. CASE source[c] = "portal-tryit" /\ Log(c, TryitRow(c))
  <2>1. row'[c] = TryitRow(c)
    BY <1>6 DEF Log
  <2> QED  BY <1>3, <1>6, <2>1 DEF TryitRow, NoRow
<1>7. CASE source[c] = "portal-replay" /\ Log(c, ReplayRow(c))
  <2>1. row'[c] = ReplayRow(c)
    BY <1>7 DEF Log
  <2> QED  BY <1>3, <1>7, <2>1 DEF ReplayRow, NoRow
<1> QED  BY <1>4, <1>5, <1>6, <1>7 DEF LogStep

\* A replay that passed the checks has its original's arguments, for good.
SameInv ==
  \A c \in Calls :
    source[c] = "portal-replay" /\ pc[c] \in Called =>
      /\ target[c] \in Calls /\ pc[target[c]] = "done" /\ args[target[c]] \in Args
      /\ args[c] = Decode[args[target[c]]] /\ args[c] # Null

\* Every step keeps what rows captured and what replays found in them.
LEMMA ReplayStep ==
  ASSUME TypeOK, PathInv, LogInv, SyncInv, CaptureInv, SameInv, DecodedInv, [Next]_vars
  PROVE  CaptureInv' /\ SameInv' /\ DecodedInv'
<1>1. \A d \in Calls : Fixed(d) /\ Ordered(d) /\ Given(d)
  BY StepsKeepFixed, StepsKeepOrder, StepsKeepGiven
<1>2. \A d \in Calls : pc[d] # "done" => row[d].request = Null /\ logged[d] = 0
  <2>1. NoRow.request = Null
    BY DEF NoRow
  <2>2. \A d \in Calls : pc[d] # "done" => row[d] = NoRow /\ logged[d] = 0
    BY DEF LogInv
  <2> QED  BY <2>1, <2>2
<1>3. CaptureInv'
  <2>1. ASSUME NEW d \in Calls, row'[d].request = row[d].request PROVE Kept(d)'
    <3>1. CASE pc[d] = "done"
      <4>1. args'[d] = args[d]
        BY <1>1, <3>1 DEF Fixed
      <4> QED  BY <2>1, <4>1 DEF CaptureInv, Kept
    <3>2. CASE pc[d] # "done"
      BY <1>2, <2>1, <3>2 DEF Kept
    <3> QED  BY <3>1, <3>2
  <2>2. CASE UNCHANGED rowVars
    BY <2>1, <2>2 DEF CaptureInv, rowVars
  <2>3. ASSUME NEW c \in Calls, LogStep(c) PROVE CaptureInv'
    <3>1. args'[c] = args[c]
      BY <1>1, <2>3 DEF LogStep, Fixed
    <3>2. Kept(c)'
      BY <2>3, <3>1, LoggedRequest DEF Kept
    <3>3. \A d \in Calls \ {c} : row'[d] = row[d]
      BY <2>3, LogFrame
    <3> QED  BY <2>1, <3>2, <3>3 DEF CaptureInv
  <2>4. ASSUME NEW c \in Calls, TableStep(c) PROVE CaptureInv'
    BY <2>1, <2>4, TableEffects DEF CaptureInv
  <2> QED  BY <2>2, <2>3, <2>4, LogEffects
<1>4. ASSUME NEW c \in Calls, pc[c] = "payload", Replayable(Captured(target[c]))
      PROVE  /\ target[c] \in Calls /\ pc[target[c]] = "done" /\ args[target[c]] \in Args
             /\ Captured(target[c]) = Decode[args[target[c]]] /\ Captured(target[c]) # Null
  <2>1. target[c] \in Calls
    BY <1>4 DEF PathInv
  <2>2. /\ Captured(target[c]) = row[target[c]].request
        /\ Captured(target[c]) # Null /\ Captured(target[c]) # Redacted
    BY <1>4 DEF Captured, Replayable, Column
  <2>3. pc[target[c]] = "done"
    BY <1>2, <2>1, <2>2
  <2> QED  BY <2>1, <2>2, <2>3 DEF CaptureInv, Kept
<1>5. SameInv'
  <2> SUFFICES ASSUME NEW c \in Calls, source'[c] = "portal-replay", pc'[c] \in Called
               PROVE  /\ target'[c] \in Calls /\ pc'[target'[c]] = "done"
                      /\ args'[target'[c]] \in Args
                      /\ args'[c] = Decode[args'[target'[c]]] /\ args'[c] # Null
    BY DEF SameInv
  <2>1. \A d \in Calls : pc[d] = "done" => pc'[d] = "done" /\ args'[d] = args[d]
    BY <1>1 DEF Fixed
  <2>2. CASE pc[c] \in Called
    <3>1. source[c] = "portal-replay" /\ target'[c] = target[c] /\ args'[c] = args[c]
      BY <1>1, <2>2 DEF Fixed, Called
    <3> QED  BY <2>1, <2>2, <3>1 DEF SameInv
  <2>3. CASE pc[c] \notin Called
    <3>1. /\ pc[c] = "payload" /\ args'[c] = Captured(target[c])
          /\ Replayable(Captured(target[c]))
      BY <1>1, <2>3 DEF Ordered
    <3>2. target'[c] = target[c]
      BY <1>1, <3>1 DEF Fixed
    <3> QED  BY <1>4, <2>1, <3>1, <3>2
  <2> QED  BY <2>2, <2>3
<1>6. DecodedInv'
  <2> SUFFICES ASSUME NEW c \in Calls, source'[c] # "mcp", args'[c] \in Args
               PROVE  Decode[args'[c]] = args'[c]
    BY DEF DecodedInv
  <2>1. CASE args'[c] = args[c] /\ source'[c] = source[c]
    BY <2>1 DEF DecodedInv
  <2>2. ASSUME NEW a \in Args, args'[c] = Decode[a] PROVE Decode[args'[c]] = args'[c]
    BY <2>2, ToolCallsAssumption
  <2>3. CASE args'[c] = Null
    BY <2>3, ToolCallsAssumption
  <2>4. CASE pc[c] = "payload" /\ args'[c] = Captured(target[c]) /\ Replayable(args'[c])
    BY <1>4, <2>2, <2>4
  <2> QED  BY <1>1, <2>1, <2>2, <2>3, <2>4 DEF Given
<1> QED  BY <1>3, <1>5, <1>6

-----------------------------------------------------------------------------
(* Secrets.                                                                *)

\* Notifications are sanitized before they enter a recorder.
NotesInv ==
  /\ \A m \in sending : m.params \in Sanitized
  /\ \A c \in Calls : \A i \in 1 .. Len(recorder[c]) : recorder[c][i] \in Sanitized

\* A secret that a tool says it was given; a replay is given none.
HeldInv ==
  \A c \in Calls : /\ source[c] = "portal-replay" => args[c] \notin Secret
                   /\ reply[c] \in Secret => reply[c] = args[c]

\* Every step keeps that: what a replay finds was sanitized.
LEMMA HeldStep ==
  ASSUME TypeOK, PathInv, HeldInv, NoSecretStored, [Next]_vars
  PROVE  HeldInv'
<1>1. \A d \in Calls : Fixed(d) /\ Given(d)
  BY StepsKeepFixed, StepsKeepGiven
<1>2. Null \notin Secret /\ Message \notin Secret /\ \A a \in Huge : a \notin Secret
  BY ToolCallsAssumption
<1>3. \A d \in Calls : pc[d] \in {"idle", "payload"} => reply[d] = Null
  BY DEF PathInv
<1>4. ASSUME NEW d \in Calls, source'[d] = "portal-replay" PROVE args'[d] \notin Secret
  <2>1. CASE args'[d] = args[d] /\ source'[d] = source[d]
    BY <1>4, <2>1 DEF HeldInv
  <2>2. CASE args'[d] = Null
    BY <1>2, <2>2
  <2>3. CASE pc[d] = "payload" /\ args'[d] = Captured(target[d])
    <3>1. target[d] \in Calls
      BY <2>3 DEF PathInv
    <3>2. row[target[d]].request \notin Secret
      BY <3>1, <1>2, ToolCallsAssumption DEF NoSecretStored, Sanitized
    <3> QED  BY <1>2, <2>3, <3>2 DEF Captured, Column
  <2> QED  BY <1>1, <1>4, <2>1, <2>2, <2>3 DEF Given
<1>5. ASSUME NEW d \in Calls, reply'[d] \in Secret PROVE reply'[d] = args'[d]
  <2>1. CASE reply'[d] = reply[d]
    <3>1. pc[d] \notin {"idle", "payload"}
      BY <1>2, <1>3, <1>5, <2>1
    <3>2. args'[d] = args[d]
      BY <1>1, <3>1 DEF Fixed
    <3> QED  BY <1>5, <2>1, <3>2 DEF HeldInv
  <2>2. CASE pc[d] = "running" /\ reply'[d] \in Replies(d)
    <3>1. args'[d] = args[d]
      BY <1>1, <2>2 DEF Fixed
    <3> QED  BY <1>2, <1>5, <2>2, <3>1 DEF Replies
  <2> QED  BY <1>1, <2>1, <2>2 DEF Given
<1> QED  BY <1>4, <1>5 DEF HeldInv

\* The two halves of NoSecretStored, for one call.
Clean(c) ==
  /\ row[c].params \in Sanitized /\ row[c].request \in Sanitized
  /\ \A i \in 1 .. Len(row[c].notes) : row[c].notes[i] \in Sanitized
Said(c) ==
  \A x \in {row[c].response, row[c].message} :
    x \in Secret => x = args[c] /\ source[c] # "portal-replay"

\* No step puts a secret into a recorder or a row.
LEMMA SecretStep ==
  ASSUME TypeOK, PathInv, LogInv, NotesInv, HeldInv, NoSecretStored, [Next]_vars
  PROVE  NotesInv' /\ NoSecretStored'
<1> USE DEF TypeOK
<1>1. NotesInv'
  <2>1. CASE UNCHANGED noteVars
    BY <2>1 DEF NotesInv, noteVars
  <2>2. ASSUME NEW n \in Notes, NEW c \in Calls, NEW a \in NoteArgs, NoteCheck(n, c, a)
        PROVE  NotesInv'
    <3>1. Sanitize(Decode[a]) \in Sanitized
      BY SanitizeType, ToolCallsAssumption
    <3>2. \A m \in sending' :
            m \in sending \/ m = [note |-> n, call |-> c, params |-> Sanitize(Decode[a])]
      BY <2>2 DEF NoteCheck
    <3>3. \A m \in sending' : m.params \in Sanitized
      BY <3>1, <3>2 DEF NotesInv
    <3> QED  BY <2>2, <3>3 DEF NotesInv, NoteCheck
  <2>3. ASSUME NEW m \in sending, NoteAppend(m) PROVE NotesInv'
    <3>1. m.call \in Calls /\ m.params \in Sanitized
      BY DEF NotesInv, NoteTypeOK
    <3>2. ASSUME NEW c \in Calls, NEW i \in 1 .. Len(recorder'[c])
          PROVE  recorder'[c][i] \in Sanitized
      <4>1. recorder[c] \in Seq(Args \cup {Redacted})
        BY DEF NoteTypeOK
      <4>2. CASE recorder'[c] = recorder[c]
        BY <3>2, <4>2 DEF NotesInv
      <4>3. CASE recorder'[c] = Append(recorder[c], m.params)
        <5>1. i \in 1 .. Len(recorder[c]) => recorder'[c][i] = recorder[c][i]
          BY <4>1, <4>3
        <5>2. i \notin 1 .. Len(recorder[c]) => recorder'[c][i] = m.params
          BY <3>2, <4>1, <4>3
        <5> QED  BY <3>1, <5>1, <5>2 DEF NotesInv
      <4>4. recorder'[c] = recorder[c] \/ recorder'[c] = Append(recorder[c], m.params)
        BY <2>3, <3>1 DEF NoteAppend, NoteTypeOK
      <4> QED  BY <4>2, <4>3, <4>4
    <3>3. \A k \in sending' : k.params \in Sanitized
      BY <2>3 DEF NotesInv, NoteAppend
    <3> QED  BY <3>2, <3>3 DEF NotesInv
  <2> QED
    BY <2>1, <2>2, <2>3
    DEF Next, CallStep, CallArrive, TryitArrive, ReplayArrive, Arrive, AuthReject, AuthAccept,
        AuditReturn, PortalReject, ConnectError, Connect, RecordTryit, ReplayFound,
        ReplayNotFound, ReplayDBError, ReplayValid, ReplayRefuse, ReplayAllow, ReplayDeny,
        RecordReplay, ToolReturn, TableStep, Insert, InsertDangling, InsertError, Prune,
        Refill, vars
<1>2. \A c \in Calls : Clean(c)'
  <2>0. \A c \in Calls : Clean(c)
    BY DEF NoSecretStored, Clean
  <2>1. CASE UNCHANGED rowVars
    BY <2>0, <2>1 DEF Clean, rowVars
  <2>2. ASSUME NEW c \in Calls, LogStep(c) PROVE \A d \in Calls : Clean(d)'
    <3>1. \A d \in Calls \ {c} : row'[d] = row[d]
      BY <2>2, LogFrame
    <3>2. /\ row'[c].params \in Sanitized /\ row'[c].request \in Sanitized
          /\ row'[c].notes \in {<<>>, FitNotes(recorder[c])}
      BY <2>2, LoggedRow
    <3>3. \A i \in 1 .. Len(FitNotes(recorder[c])) : FitNotes(recorder[c])[i] \in Sanitized
      <4>1. recorder[c] \in Seq(Args \cup {Redacted})
        BY DEF NoteTypeOK
      <4> QED  BY <4>1, FitNotesPrefix DEF NotesInv
    <3>4. \A i \in 1 .. Len(row'[c].notes) : row'[c].notes[i] \in Sanitized
      <4>1. CASE row'[c].notes = <<>>
        BY <4>1
      <4>2. CASE row'[c].notes = FitNotes(recorder[c])
        BY <3>3, <4>2
      <4> QED  BY <3>2, <4>1, <4>2
    <3> QED  BY <2>0, <3>1, <3>2, <3>4 DEF Clean
  <2>3. ASSUME NEW c \in Calls, TableStep(c) PROVE \A d \in Calls : Clean(d)'
    BY <2>0, <2>3, TableEffects DEF Clean
  <2> QED  BY <2>1, <2>2, <2>3, LogEffects
<1>3. \A c \in Calls : Said(c)'
  <2>0. \A d \in Calls : Fixed(d) /\ Said(d)
    BY StepsKeepFixed DEF NoSecretStored, Said
  <2>1. Null \notin Secret /\ Message \notin Secret
    BY ToolCallsAssumption
  <2>2. ASSUME NEW d \in Calls, row'[d].response = row[d].response,
               row'[d].message = row[d].message
        PROVE  Said(d)'
    <3>1. CASE pc[d] = "done"
      <4>1. args'[d] = args[d] /\ source'[d] = source[d]
        BY <2>0, <3>1 DEF Fixed
      <4> QED  BY <2>0, <2>2, <4>1 DEF Said
    <3>2. CASE pc[d] # "done"
      <4>1. row[d] = NoRow
        BY <3>2 DEF LogInv
      <4>2. NoRow.response = Null /\ NoRow.message = Null
        BY DEF NoRow
      <4>3. row'[d].response = Null /\ row'[d].message = Null
        BY <2>2, <4>1, <4>2
      <4> QED  BY <2>1, <4>3 DEF Said
    <3> QED  BY <3>1, <3>2
  <2>3. CASE UNCHANGED rowVars
    BY <2>2, <2>3 DEF rowVars
  <2>4. ASSUME NEW c \in Calls, LogStep(c) PROVE \A d \in Calls : Said(d)'
    <3>1. args'[c] = args[c] /\ source'[c] = source[c]
      BY <2>0, <2>4 DEF LogStep, Fixed
    <3>2. /\ row'[c].response \in {Null, reply[c]}
          /\ row'[c].message \in {Null, Message, reply[c]}
      BY <2>4, LoggedRow
    <3>3. Said(c)'
      BY <2>1, <3>1, <3>2 DEF Said, HeldInv
    <3>4. \A d \in Calls \ {c} : row'[d] = row[d]
      BY <2>4, LogFrame
    <3> QED  BY <2>2, <3>3, <3>4
  <2>5. ASSUME NEW c \in Calls, TableStep(c) PROVE \A d \in Calls : Said(d)'
    BY <2>2, <2>5, TableEffects
  <2> QED  BY <2>3, <2>4, <2>5, LogEffects
<1>4. NoSecretStored'
  BY <1>2, <1>3 DEF NoSecretStored, Clean, Said
<1> QED  BY <1>1, <1>4

-----------------------------------------------------------------------------
(* The tables.                                                             *)

\* The target of a replay that got past Query, logged or not, was stored then;
\* a row in the pipeline refers to its call's target.
SeenInv ==
  \A c \in Calls :
    /\ /\ source[c] = "portal-replay"
       /\ pc[c] \in Called \cup {"payload"} \/ logged[c] > 0
       => where[target[c]] \in {"stored", "pruned"}
    /\ where[c] = "pending" => row[c].from = target[c]

\* Every step keeps references where they belong.
LEMMA TableInv ==
  ASSUME TypeOK, PathInv, LogInv, SyncInv, SeenInv, TablesAgree, [Next]_vars
  PROVE  SeenInv' /\ TablesAgree'
<1> USE DEF TypeOK, RowTypeOK
<1>1. \A d \in Calls : Fixed(d) /\ Ordered(d)
  BY StepsKeepFixed, StepsKeepOrder
<1>2. \A d \in Calls : where[d] # "none" \/ logged[d] > 0 => pc[d] = "done" /\ logged[d] > 0
  BY DEF LogInv
<1>3. \A d \in Calls : d \in Stored <=> where[d] = "stored"
  BY DEF Stored
<1>4. \A d \in Calls : d \in Stored' <=> where'[d] = "stored"
  BY DEF Stored
<1>5. \A d \in Calls : source[d] = "portal-replay" <=> target[d] \in Calls
  BY DEF PathInv
<1>6. \A d \in payloads : d \in Calls /\ where[d] = "stored"
  BY <1>3 DEF SyncInv, Stored
<1>7. \A d \in Calls : pc[d] # "idle" => source'[d] = source[d] /\ target'[d] = target[d]
  BY <1>1 DEF Fixed
<1>8. SyncInv'
  BY LogStepInv
<1>9. ASSUME UNCHANGED rowVars PROVE SeenInv' /\ TablesAgree'
  <2>1. where' = where /\ row' = row /\ logged' = logged /\ payloads' = payloads
    BY <1>9 DEF rowVars
  <2>2. ASSUME NEW d \in Calls, source'[d] = "portal-replay",
               pc'[d] \in Called \cup {"payload"} \/ logged'[d] > 0
        PROVE  where'[target'[d]] \in {"stored", "pruned"}
    <3>1. CASE pc[d] \in Called \cup {"payload"} \/ logged[d] > 0
      BY <1>2, <1>7, <2>1, <2>2, <3>1 DEF SeenInv, Called
    <3>2. CASE ~(pc[d] \in Called \cup {"payload"} \/ logged[d] > 0)
      <4>1. pc[d] = "query" /\ target[d] \in Stored
        BY <1>1, <2>1, <2>2, <3>2 DEF Ordered
      <4> QED  BY <1>3, <1>7, <2>1, <4>1 DEF Stored
    <3> QED  BY <3>1, <3>2
  <2>3. ASSUME NEW d \in Calls, where'[d] = "pending" PROVE row'[d].from = target'[d]
    BY <1>2, <1>7, <2>1, <2>3 DEF SeenInv
  <2>4. SeenInv'
    BY <2>2, <2>3 DEF SeenInv
  <2>5. TablesAgree'
    <3>1. Stored' = Stored
      BY <2>1 DEF Stored
    <3>2. \A d \in payloads : target'[d] = target[d]
      BY <1>2, <1>6, <1>7
    <3> QED  BY <1>8, <2>1, <3>1, <3>2 DEF TablesAgree, SyncInv
  <2> QED  BY <2>4, <2>5
<1>10. ASSUME NEW c \in Calls, LogStep(c), pc'[c] = "done",
              \A d \in Calls \ {c} : pc'[d] = pc[d]
       PROVE  SeenInv' /\ TablesAgree'
  <2>1. /\ where[c] = "none" /\ where'[c] \in {"pending", "lost"} /\ payloads' = payloads
        /\ \A d \in Calls \ {c} :
             row'[d] = row[d] /\ where'[d] = where[d] /\ logged'[d] = logged[d]
    BY <1>10, LogFrame
  <2>2. row'[c].from = target[c] /\ pc[c] # "idle"
    BY <1>10, LoggedRow DEF LogStep
  <2>3. source[c] = "portal-replay" => pc[c] \in Called
    BY <1>10 DEF LogStep, PathInv, Called
  <2>4. ASSUME NEW d \in Calls, source'[d] = "portal-replay",
               pc'[d] \in Called \cup {"payload"} \/ logged'[d] > 0
        PROVE  where'[target'[d]] \in {"stored", "pruned"}
    <3>1. pc[d] \in Called \cup {"payload"} \/ logged[d] > 0
      BY <1>7, <1>10, <2>1, <2>2, <2>3, <2>4
    <3>2. source[d] = "portal-replay" /\ target'[d] = target[d]
      BY <1>2, <1>7, <2>4, <3>1 DEF Called
    <3>3. where[target[d]] \in {"stored", "pruned"} /\ target[d] \in Calls
      BY <1>5, <3>1, <3>2 DEF SeenInv
    <3> QED  BY <2>1, <3>2, <3>3
  <2>5. ASSUME NEW d \in Calls, where'[d] = "pending" PROVE row'[d].from = target'[d]
    <3>1. CASE d = c
      BY <1>7, <2>2, <3>1
    <3>2. CASE d # c
      BY <1>2, <1>7, <2>1, <2>5, <3>2 DEF SeenInv
    <3> QED  BY <3>1, <3>2
  <2>6. SeenInv'
    BY <2>4, <2>5 DEF SeenInv
  <2>7. TablesAgree'
    <3>1. Stored' = Stored
      BY <2>1 DEF Stored
    <3>2. \A d \in payloads : target'[d] = target[d] /\ row'[d] = row[d]
      BY <1>2, <1>6, <1>7, <2>1
    <3> QED  BY <1>8, <2>1, <3>1, <3>2 DEF TablesAgree, SyncInv
  <2> QED  BY <2>6, <2>7
<1>11. ASSUME NEW c \in Calls, TableStep(c), UNCHANGED callVars
       PROVE  SeenInv' /\ TablesAgree'
  <2>1. source' = source /\ target' = target /\ pc' = pc /\ logged' = logged
    BY <1>11, TableEffects DEF callVars
  <2>2. /\ where[c] \in {"pending", "stored"}
        /\ where[c] = "stored" => where'[c] = "pruned"
        /\ \A d \in Calls \ {c} : where'[d] = where[d]
    BY <1>11, TableEffects
  <2>3. ASSUME NEW d \in Calls, where[d] \in {"stored", "pruned"}
        PROVE  where'[d] \in {"stored", "pruned"}
    BY <2>2, <2>3
  <2>4. ASSUME NEW d \in Calls, source'[d] = "portal-replay",
               pc'[d] \in Called \cup {"payload"} \/ logged'[d] > 0
        PROVE  where'[target'[d]] \in {"stored", "pruned"}
    BY <1>5, <2>1, <2>3, <2>4 DEF SeenInv
  <2>5. ASSUME NEW d \in Calls, where'[d] = "pending" PROVE row'[d].from = target'[d]
    <3>1. where[d] = "pending" /\ d \notin payloads
      BY <1>6, <1>11, <2>2, <2>5, TableEffects
    <3>2. row'[d] = row[d]
      BY <1>11, <3>1, TableEffects
    <3> QED  BY <2>1, <3>1, <3>2 DEF SeenInv
  <2>6. SeenInv'
    BY <2>4, <2>5 DEF SeenInv
  <2>7. ASSUME NEW d \in payloads'
        PROVE  row'[d].from = IF target'[d] \in Stored' THEN target'[d] ELSE Null
    <3>1. /\ d \in Calls /\ Null \notin Calls /\ Null \notin Stored'
          /\ target'[d] = target[d] /\ target[d] \in Calls \cup {Null}
      BY <1>8, <2>1, <2>7, ToolCallsAssumption DEF SyncInv, Stored, CallTypeOK
    <3>2. ASSUME d \in payloads
          PROVE  /\ row[d].from = IF target[d] \in Stored THEN target[d] ELSE Null
                 /\ target[d] \in Calls => where[target[d]] \in {"stored", "pruned"}
      <4>1. logged[d] > 0
        BY <1>2, <1>6, <3>2
      <4>2. target[d] \in Calls => where[target[d]] \in {"stored", "pruned"}
        BY <1>5, <3>1, <4>1 DEF SeenInv
      <4> QED  BY <3>2, <4>2 DEF TablesAgree
    <3>3. CASE where[c] = "pending" /\ d \in payloads
      <4>1. row' = row /\ target[d] # c
        BY <1>11, <3>2, <3>3, TableEffects
      <4>2. target[d] \in Stored' <=> target[d] \in Stored
        BY <1>3, <1>4, <2>2, <3>1, <4>1, ToolCallsAssumption DEF Stored
      <4> QED  BY <3>1, <3>2, <3>3, <4>1, <4>2
    <3>4. CASE where[c] = "pending" /\ d \notin payloads
      <4>1. /\ row' = row /\ d = c /\ where'[c] = "stored"
            /\ row[c].from \in Stored \cup {Null}
        BY <1>11, <2>7, <3>4, TableEffects
      <4>2. row[c].from = target[c]
        BY <3>4 DEF SeenInv
      <4>3. CASE target[c] \in Stored
        <5>1. target[c] \in Stored'
          BY <1>3, <1>4, <2>2, <3>4, <4>3 DEF Stored
        <5> QED  BY <3>1, <4>1, <4>2, <5>1
      <4>4. CASE target[c] = Null
        BY <3>1, <4>1, <4>2, <4>4
      <4> QED  BY <4>1, <4>2, <4>3, <4>4
    <3>5. CASE where[c] = "stored"
      <4>1. /\ d \in payloads /\ d # c
            /\ row'[d].from = IF row[d].from = c THEN Null ELSE row[d].from
        BY <1>11, <2>7, <3>1, <3>5, TableEffects
      <4>2. c \in Stored /\ c \notin Stored'
        BY <1>3, <1>4, <2>2, <3>5
      <4>3. CASE target[d] = c
        BY <3>1, <3>2, <4>1, <4>2, <4>3
      <4>4. CASE target[d] # c
        <5>1. target[d] \in Stored' <=> target[d] \in Stored
          BY <1>3, <1>4, <2>2, <3>1, <4>4 DEF Stored
        <5> QED  BY <3>1, <3>2, <4>1, <4>4, <5>1
      <4> QED  BY <4>3, <4>4
    <3> QED  BY <2>2, <3>3, <3>4, <3>5
  <2>8. TablesAgree'
    BY <1>8, <2>7 DEF TablesAgree, SyncInv
  <2> QED  BY <2>6, <2>8
<1> QED  BY <1>9, <1>10, <1>11, LogEffects

-----------------------------------------------------------------------------
(* Tokens.                                                                 *)

\* The replays that have passed the limiter, and those of one identity.
Passed(c) ==
  /\ source[c] = "portal-replay"
  /\ \/ pc[c] \in {"connect", "running", "returned", "record"}
     \/ answer[c] \in {"200", "502"}
     \/ answer[c] = "500" /\ args[c] # Null
Paid(u) == {c \in Calls : Passed(c) /\ who[c] = u}

\* A replay has no arguments before GetPayload.
BlankInv == \A c \in Calls : pc[c] \in {"query", "payload"} => args[c] = Null

\* Every step keeps that.
LEMMA BlankStep == TypeOK /\ BlankInv /\ [Next]_vars => BlankInv'
<1> SUFFICES ASSUME TypeOK, BlankInv, [Next]_vars PROVE BlankInv'
  OBVIOUS
<1> USE DEF TypeOK, CallTypeOK, BlankInv
<1>1. ASSUME NEW c \in Calls, NEW u \in Users, NEW a \in Args,
             CallArrive(c, u, a) \/ TryitArrive(c, u, a)
      PROVE  BlankInv'
  BY <1>1 DEF CallArrive, TryitArrive, Arrive
<1>2. ASSUME NEW c \in Calls, NEW u \in Users, NEW t \in Calls, ReplayArrive(c, u, t)
      PROVE  BlankInv'
  BY <1>2 DEF ReplayArrive, Arrive
<1>3. ASSUME NEW c \in Calls, CallStep(c) PROVE BlankInv'
  BY <1>3 DEF CallStep, AuthReject, AuthAccept, AuditReturn, PortalReject, ConnectError,
              Connect, RecordTryit, ReplayFound, ReplayNotFound, ReplayDBError, ReplayValid,
              ReplayRefuse, ReplayAllow, ReplayDeny, RecordReplay, ToolReturn, Answer, Goto
<1>4. ASSUME UNCHANGED callVars PROVE BlankInv'
  BY <1>4 DEF callVars
<1> HIDE DEF TypeOK, CallTypeOK, BlankInv
<1> QED
  BY <1>1, <1>2, <1>3, <1>4
  DEF Next, TableStep, Insert, InsertDangling, InsertError, Prune, NoteCheck, NoteAppend,
      Refill, vars

\* Only ReplayAllow makes a replay one that has passed, and none ceases to be.
LEMMA PassedEffects ==
  ASSUME TypeOK, PathInv, LogInv, SameInv, BlankInv, [Next]_vars
  PROVE  \/ spent' = spent /\ \A d \in Calls : Passed(d)' <=> Passed(d)
         \/ \E c \in Calls :
              /\ spent' = [spent EXCEPT ![who[c]] = @ + 1] /\ who' = who
              /\ ~Passed(c) /\ Passed(c)'
              /\ \A d \in Calls \ {c} : Passed(d)' <=> Passed(d)
<1> DEFINE Same == spent' = spent /\ \A d \in Calls : Passed(d)' <=> Passed(d)
<1> USE DEF TypeOK, CallTypeOK, PathInv, LogInv, Passed, rateVars
<1>1. ASSUME NEW c \in Calls, NEW u \in Users, NEW a \in Args,
             CallArrive(c, u, a) \/ TryitArrive(c, u, a)
      PROVE  Same
  BY <1>1 DEF CallArrive, TryitArrive, Arrive
<1>2. ASSUME NEW c \in Calls, NEW u \in Users, NEW t \in Calls, ReplayArrive(c, u, t)
      PROVE  Same
  BY <1>2 DEF ReplayArrive, Arrive
<1>3. ASSUME NEW c \in Calls, AuthReject(c) \/ RecordTryit(c) \/ RecordReplay(c) PROVE Same
  BY <1>3 DEF AuthReject, RecordTryit, RecordReplay, Answer
<1>4. ASSUME NEW c \in Calls, AuthAccept(c) \/ Connect(c) \/ ReplayFound(c) PROVE Same
  BY <1>4 DEF AuthAccept, Connect, ReplayFound, Goto
<1>5. ASSUME NEW c \in Calls, AuditReturn(c) PROVE Same
  BY <1>5 DEF AuditReturn, Answer, Goto
<1>6. ASSUME NEW c \in Calls,
             PortalReject(c) \/ ReplayNotFound(c) \/ ReplayRefuse(c) \/ ReplayDeny(c)
      PROVE  Same
  BY <1>6 DEF PortalReject, ReplayNotFound, ReplayRefuse, ReplayDeny, Answer
<1>7. ASSUME NEW c \in Calls, ConnectError(c) PROVE Same
  BY <1>7 DEF ConnectError, Answer, SameInv, Called
<1>8. ASSUME NEW c \in Calls, ReplayDBError(c) PROVE Same
  BY <1>8 DEF ReplayDBError, Answer, BlankInv
<1>9. ASSUME NEW c \in Calls, ReplayValid(c) PROVE Same
  BY <1>9 DEF ReplayValid
<1>10. ASSUME NEW c \in Calls, ReplayAllow(c)
       PROVE  /\ spent' = [spent EXCEPT ![who[c]] = @ + 1] /\ who' = who
              /\ ~Passed(c) /\ Passed(c)'
              /\ \A d \in Calls \ {c} : Passed(d)' <=> Passed(d)
  BY <1>10 DEF ReplayAllow, Goto
<1>11. ASSUME NEW c \in Calls, NEW r \in {"ok", "tool", "handler"}, NEW m \in Replies(c),
             ToolReturn(c, r, m)
       PROVE  Same
  BY <1>11 DEF ToolReturn
<1>12. ASSUME UNCHANGED callVars, spent' = spent PROVE Same
  BY <1>12 DEF callVars
<1> HIDE DEF TypeOK, CallTypeOK, PathInv, LogInv, Passed, Same
<1>13. Same \/ \E c \in Calls : ReplayAllow(c)
  BY <1>1, <1>2, <1>3, <1>4, <1>5, <1>6, <1>7, <1>8, <1>9, <1>11, <1>12
  DEF Next, CallStep, TableStep, Insert, InsertDangling, InsertError, Prune, NoteCheck,
      NoteAppend, Refill, vars
<1> QED  BY <1>10, <1>13 DEF Same

\* Every step keeps the books of the limiter.
LEMMA TokenStep ==
  ASSUME TypeOK, PathInv, LogInv, SameInv, BlankInv, TokensForValidReplays, [Next]_vars
  PROVE  TokensForValidReplays'
<1>1. /\ TokensForValidReplays <=> \A u \in Users : spent[u] = Cardinality(Paid(u))
      /\ TokensForValidReplays' <=> \A u \in Users : spent'[u] = Cardinality(Paid(u)')
  BY DEF TokensForValidReplays, Paid, Passed
<1>2. \A d \in Calls : Passed(d) => who'[d] = who[d]
  <2>1. \A d \in Calls : Passed(d) => pc[d] # "idle"
    BY DEF Passed, LogInv
  <2> QED  BY <2>1, StepsKeepFixed DEF Fixed
<1>3. ASSUME spent' = spent, \A d \in Calls : Passed(d)' <=> Passed(d)
      PROVE  TokensForValidReplays'
  <2>1. \A u \in Users : Paid(u)' = Paid(u)
    BY <1>2, <1>3 DEF Paid
  <2> QED  BY <1>1, <1>3, <2>1
<1>4. ASSUME NEW c \in Calls, spent' = [spent EXCEPT ![who[c]] = @ + 1], who' = who,
             ~Passed(c), Passed(c)', \A d \in Calls \ {c} : Passed(d)' <=> Passed(d)
      PROVE  TokensForValidReplays'
  <2> SUFFICES ASSUME NEW u \in Users PROVE spent'[u] = Cardinality(Paid(u)')
    BY <1>1
  <2>1. spent[u] = Cardinality(Paid(u)) /\ spent \in [Users -> Nat]
    BY <1>1 DEF TypeOK, RateTypeOK
  <2>2. CASE u = who[c]
    <3>1. Paid(u)' = Paid(u) \cup {c} /\ c \notin Paid(u)
      BY <1>4, <2>2 DEF Paid
    <3>2. IsFiniteSet(Paid(u))
      BY ToolCallsAssumption, FS_Subset DEF Paid
    <3>3. Cardinality(Paid(u) \cup {c}) = Cardinality(Paid(u)) + 1
      BY <3>1, <3>2, FS_AddElement
    <3>4. spent'[u] = spent[u] + 1
      BY <1>4, <2>1, <2>2
    <3> QED  BY <2>1, <3>1, <3>3, <3>4
  <2>3. CASE u # who[c]
    <3>1. Paid(u)' = Paid(u)
      BY <1>4, <2>3 DEF Paid
    <3>2. spent'[u] = spent[u]
      BY <1>4, <2>1, <2>3
    <3> QED  BY <2>1, <3>1, <3>2
  <2> QED  BY <2>2, <2>3
<1> QED  BY <1>3, <1>4, PassedEffects

-----------------------------------------------------------------------------
(* The theorems.                                                           *)

\* What holds in every reachable state, all of it together.
Inv ==
  /\ TypeOK /\ PathInv /\ LogInv /\ SyncInv
  /\ CaptureInv /\ SameInv /\ DecodedInv /\ NotesInv /\ HeldInv /\ SeenInv /\ BlankInv
  /\ NoSecretStored /\ OneEventPerCall /\ RowMatchesAnswer /\ TablesAgree
  /\ TokensForValidReplays

\* It holds at first, with nothing called.
LEMMA InvInit == Init => Inv
<1> SUFFICES ASSUME Init PROVE Inv
  OBVIOUS
<1>1. /\ NoRow \in Row /\ NoRow.request = Null /\ NoRow.params = Null /\ NoRow.notes = <<>>
      /\ NoRow.response = Null /\ NoRow.message = Null
  BY DEF NoRow, Row, Texts
<1>2. TypeOK
  <2>1. CallTypeOK
    BY DEF Init, CallTypeOK, Labels, Answers, Texts
  <2>2. NoteTypeOK
    BY ToolCallsAssumption DEF Init, NoteTypeOK
  <2>3. RateTypeOK
    BY ToolCallsAssumption DEF Init, RateTypeOK
  <2>4. RowTypeOK
    BY <1>1 DEF Init, RowTypeOK
  <2> QED  BY <2>1, <2>2, <2>3, <2>4 DEF TypeOK
<1>3. PathInv /\ LogInv /\ SameInv /\ BlankInv
  BY ToolCallsAssumption DEF Init, PathInv, LogInv, SameInv, BlankInv, Called
<1>4. SyncInv /\ TablesAgree /\ SeenInv
  BY DEF Init, SyncInv, TablesAgree, SeenInv, Stored, Called
<1>5. CaptureInv /\ DecodedInv /\ HeldInv
  BY <1>1, ToolCallsAssumption DEF Init, CaptureInv, Kept, DecodedInv, HeldInv
<1>6. NotesInv /\ NoSecretStored
  <2>1. Null \in Sanitized /\ Null \notin Secret
    BY ToolCallsAssumption DEF Sanitized
  <2>2. \A c \in Calls : recorder[c] = <<>> /\ row[c] = NoRow
    BY DEF Init
  <2>3. Len(<<>>) = 0 /\ sending = {}
    BY DEF Init
  <2> QED  BY <1>1, <2>1, <2>2, <2>3 DEF NotesInv, NoSecretStored
<1>7. OneEventPerCall /\ RowMatchesAnswer
  BY DEF Init, OneEventPerCall, RowMatchesAnswer
<1>8. TokensForValidReplays
  <2>1. \A u \in Users : Paid(u) = {} /\ spent[u] = 0
    BY DEF Init, Paid, Passed
  <2> QED  BY <2>1, FS_EmptySet DEF TokensForValidReplays, Paid, Passed
<1> QED  BY <1>2, <1>3, <1>4, <1>5, <1>6, <1>7, <1>8 DEF Inv

\* Every step keeps it.
LEMMA InvStep == Inv /\ [Next]_vars => Inv'
<1> SUFFICES ASSUME Inv, [Next]_vars PROVE Inv'
  OBVIOUS
<1> USE DEF Inv
<1>1. TypeOK' /\ PathInv' /\ BlankInv'
  BY TypeStep, PathStep, BlankStep
<1>2. LogInv' /\ SyncInv' /\ OneEventPerCall' /\ RowMatchesAnswer'
  BY LogStepInv, AnsweredInv
<1>3. CaptureInv' /\ SameInv' /\ DecodedInv'
  BY ReplayStep
<1>4. NotesInv' /\ HeldInv' /\ NoSecretStored'
  BY HeldStep, SecretStep
<1>5. SeenInv' /\ TablesAgree'
  BY TableInv
<1>6. TokensForValidReplays'
  BY TokenStep
<1> QED  BY <1>1, <1>2, <1>3, <1>4, <1>5, <1>6

\* Reachable states satisfy the invariant.
LEMMA InvHolds == Spec => []Inv
BY InvInit, InvStep, PTL DEF Spec

\* Every variable has its type in every reachable state; the recorder, which
\* Append looks at in two critical sections, never exceeds maxNotifications.
THEOREM ToolCallsTypeCorrect == Spec => []TypeOK
<1>1. Inv => TypeOK
  BY DEF Inv
<1> QED  BY <1>1, InvHolds, PTL

\* No row of audit_events or audit_payloads on any of the three paths holds
\* what SanitizeParameters was to remove, except where the tool itself returned
\* it: buildPayload and the portal's handlers store replies as they are.  The
\* row of a replay holds none.
THEOREM SecretsStayOut == Spec => []NoSecretStored
<1>1. Inv => NoSecretStored
  BY DEF Inv
<1> QED  BY <1>1, InvHolds, PTL

\* auditReplay calls the tool with what extractCallParams decoded from the
\* arguments of the original, which are those themselves unless the original
\* came over MCP, however long the chain of replays between them.
THEOREM ReplayRepeatsOriginal == Spec => []ReplaySameArgs
<1>1. Inv => ReplaySameArgs
  <2> SUFFICES ASSUME Inv, NEW c \in Calls, source[c] = "portal-replay",
                      pc[c] \in {"connect", "running", "returned", "record"}
               PROVE  /\ args[c] = Decode[args[target[c]]]
                      /\ source[target[c]] # "mcp" => args[c] = args[target[c]]
    BY DEF ReplaySameArgs
  <2>1. /\ target[c] \in Calls /\ args[target[c]] \in Args
        /\ args[c] = Decode[args[target[c]]]
    BY DEF Inv, SameInv, Called
  <2> QED  BY <2>1 DEF Inv, DecodedInv
<1> QED  BY <1>1, InvHolds, PTL

\* A call that reached the tool or was refused by the auth chain is given to
\* audit.Log exactly once, any other call never.
THEOREM AuditedOnce == Spec => []OneEventPerCall
<1>1. Inv => OneEventPerCall
  BY DEF Inv
<1> QED  BY <1>1, InvHolds, PTL

\* The event given to audit.Log agrees with the caller's answer.
THEOREM RowTellsAnswer == Spec => []RowMatchesAnswer
<1>1. Inv => RowMatchesAnswer
  BY DEF Inv
<1> QED  BY <1>1, InvHolds, PTL

\* Store.Log's transaction and the schema's cascades keep audit_events and
\* audit_payloads together, whatever is deleted meanwhile.
THEOREM TablesStayTogether == Spec => []TablesAgree
<1>1. Inv => TablesAgree
  BY DEF Inv
<1> QED  BY <1>1, InvHolds, PTL

\* The replay limiter's tokens go to replays that passed every check, one each.
THEOREM TokensAccounted == Spec => []TokensForValidReplays
<1>1. Inv => TokensForValidReplays
  BY DEF Inv
<1> QED  BY <1>1, InvHolds, PTL

=============================================================================
