-------------------------- MODULE RpcSessionProofs --------------------------
(***************************************************************************)
(* Proofs about RpcSession, for any sessions and tasks, and that what      *)
(* SessionLogs adds to it leaves its steps as they are.                    *)
(***************************************************************************)
EXTENDS SessionLogs, SequenceTheorems, FiniteSetTheorems, TLAPS

-----------------------------------------------------------------------------
(* The inductive invariant.                                                *)

(* CloseSession has met the handler that waited.                           *)
Signalled(s) == closing[s] \in {"signalled", "innerClosed", "ok"}

(* The handler has sent its acknowledgement.                               *)
Acknowledged(s) == handler[s] \in {"acked", "waiting"} \/ Signalled(s)

(* How the states of the client's call, the two handlers, the map and the  *)
(* plugin's executor go together.                                          *)
SessionOK(s) ==
  /\ client[s] = "none" <=> handler[s] = "none"
  /\ handler[s] \in {"none", "opening"} <=> inner[s] = "none"
  /\ inner[s] = "failed" => handler[s] = "ended"
  /\ Signalled(s) => handler[s] = "ended"
  /\ Acknowledged(s) <=> stream[s] \in {<<"ack">>, <<"log", "ack">>}
  /\ client[s] \in {"open", "closing", "closed"} => Acknowledged(s)
  /\ closing[s] # "none" => client[s] \in {"closing", "closed"}
  /\ s \in sessions <=> handler[s] = "waiting" \/ closing[s] \in {"signalled", "innerClosed"}
  /\ closing[s] = "signalled" => inner[s] = "open"
  /\ closing[s] \in {"innerClosed", "ok"} <=> inner[s] = "closed"
  /\ handler[s] = "ended" /\ inner[s] = "open" => Signalled(s) \/ cancelled
  /\ closed[s] = "none" <=> client[s] # "closed"
  /\ closed[s] = "ok" => closing[s] = "ok"
  /\ closed[s] = "cancelled" => cancelled
  /\ client[s] = "failed" =>
       cancelled \/ inner[s] = "failed" \/ stream[s] \in {<<"log">>, <<"log", "ack">>}

(* A session stays open while a call of Execute is in the plugin: one that *)
(* the client has given up lets the driver close nothing any more.         *)
TaskOK(t) ==
  /\ call[t] = "none" => answer[t] = "none"
  /\ call[t] \in {"sent", "executing"} =>
       client[Home[t]] = "open" /\ answer[t] \in {"none", "cancelled"}
  /\ call[t] = "ended" => answer[t] # "none"

SessionInv ==
  /\ TypeOK
  /\ \A s \in Sessions : SessionOK(s)
  /\ \A t \in Tasks : TaskOK(t)

LEMMA AppendPair ==
  ASSUME NEW S, NEW a \in S, NEW b \in S
  PROVE  Append(<<a>>, b) = <<a, b>>
<1>1. <<a>> \in Seq(S) /\ Len(<<a>>) = 1
  OBVIOUS
<1>2. <<a, b>> \in Seq(S) /\ Len(<<a, b>>) = 2 /\ <<a, b>>[1] = a /\ <<a, b>>[2] = b
  OBVIOUS
<1>3. Append(<<a>>, b) \in Seq(S) /\ Len(Append(<<a>>, b)) = 2
  BY <1>1
<1>4. Append(<<a>>, b)[1] = a /\ Append(<<a>>, b)[2] = b
  BY <1>1
<1>5. \A i \in 1..2 : Append(<<a>>, b)[i] = <<a, b>>[i]
  <2> SUFFICES ASSUME NEW i \in 1..2 PROVE Append(<<a>>, b)[i] = <<a, b>>[i]
    OBVIOUS
  <2>1. i = 1 \/ i = 2
    OBVIOUS
  <2> QED
    BY <1>2, <1>4, <2>1
<1>6. \A s, t \in Seq(S) : Len(s) = 2 /\ Len(t) = 2 /\ (\A i \in 1..2 : s[i] = t[i]) => s = t
  BY SeqEqual
<1> QED
  BY <1>2, <1>3, <1>5, <1>6

LEMMA Streams ==
  /\ Append(<<>>, "ack") = <<"ack">>
  /\ Append(<<"log">>, "ack") = <<"log", "ack">>
  /\ Head(<<"log">>) = "log" /\ Head(<<"log", "ack">>) = "log" /\ Head(<<"ack">>) = "ack"
  /\ <<"log">> # <<>> /\ <<"ack">> # <<>> /\ <<"log", "ack">> # <<>>
  /\ <<"log">> # <<"ack">> /\ <<"log">> # <<"log", "ack">> /\ <<"ack">> # <<"log", "ack">>
<1>1. Append(<<>>, "ack") = <<"ack">>
  OBVIOUS
<1>2. Append(<<"log">>, "ack") = <<"log", "ack">>
  <2>1. "log" \in {"log", "ack"} /\ "ack" \in {"log", "ack"}
    OBVIOUS
  <2> QED
    BY <2>1, AppendPair, Zenon
<1>3. Head(<<"log">>) = "log" /\ Head(<<"log", "ack">>) = "log" /\ Head(<<"ack">>) = "ack"
  OBVIOUS
<1>4. Len(<<"log">>) = 1 /\ Len(<<"ack">>) = 1 /\ Len(<<"log", "ack">>) = 2
  OBVIOUS
<1>5. <<"log">> # <<>> /\ <<"ack">> # <<>> /\ <<"log", "ack">> # <<>>
  OBVIOUS
<1>6. <<"log">> # <<"ack">>
  <2>1. <<"log">>[1] # <<"ack">>[1]
    OBVIOUS
  <2> QED
    BY <2>1
<1>7. <<"log">> # <<"log", "ack">> /\ <<"ack">> # <<"log", "ack">>
  BY <1>4
<1> QED
  BY <1>1, <1>2, <1>3, <1>5, <1>6, <1>7

LEMMA InitSessionInv == Init => SessionInv
BY Streams DEF Init, SessionInv, TypeOK, SessionOK, TaskOK, Acknowledged, Signalled, Response

(* A step that concerns a single session, or a single task.                *)
LocalToSession(s) ==
  /\ UNCHANGED <<call, answer, cancelled>>
  /\ client[s] = "open" /\ client'[s] # "open" => NothingPending /\ Succeeded
  /\ \A r \in Sessions \ {s} :
       /\ client'[r] = client[r] /\ handler'[r] = handler[r] /\ stream'[r] = stream[r]
       /\ inner'[r] = inner[r] /\ closing'[r] = closing[r] /\ closed'[r] = closed[r]
       /\ r \in sessions' <=> r \in sessions

LocalToTask(t) ==
  /\ UNCHANGED <<client, handler, stream, sessions, inner, closing, closed, cancelled>>
  /\ \A u \in Tasks \ {t} : call'[u] = call[u] /\ answer'[u] = answer[u]

LEMMA OneSession ==
  ASSUME SessionInv, NEW s \in Sessions, TypeOK', SessionOK(s)', LocalToSession(s)
  PROVE  SessionInv'
<1> USE DEF LocalToSession
<1>1. \A r \in Sessions : SessionOK(r)'
  <2> SUFFICES ASSUME NEW r \in Sessions, r # s PROVE SessionOK(r)'
    OBVIOUS
  <2> QED
    BY DEF SessionInv, SessionOK, Acknowledged, Signalled
<1>2. \A t \in Tasks : TaskOK(t)'
  <2> SUFFICES ASSUME NEW t \in Tasks PROVE TaskOK(t)'
    OBVIOUS
  <2>1. Home[t] \in Sessions
    BY RpcSessionAssumption
  <2>2. call[t] \in {"sent", "executing"} => client'[Home[t]] = "open"
    BY <2>1 DEF SessionInv, TaskOK, NothingPending, Pending, Succeeded
  <2> QED
    BY <2>2 DEF SessionInv, TaskOK
<1> QED
  BY <1>1, <1>2 DEF SessionInv

LEMMA OneTask ==
  ASSUME SessionInv, NEW t \in Tasks, TypeOK', TaskOK(t)', LocalToTask(t)
  PROVE  SessionInv'
<1> USE DEF LocalToTask
<1>1. \A r \in Sessions : SessionOK(r)'
  BY DEF SessionInv, SessionOK, Acknowledged, Signalled
<1>2. \A u \in Tasks : TaskOK(u)'
  BY DEF SessionInv, TaskOK
<1> QED
  BY <1>1, <1>2 DEF SessionInv

-----------------------------------------------------------------------------
(* The steps.                                                              *)

LEMMA OpeningStep ==
  ASSUME SessionInv, NEW s \in Sessions,
         OpenSession(s) \/ InnerLogs(s) \/ InnerOpened(s) \/ SendAck(s) \/ Register(s) \/ Opened(s)
  PROVE  SessionInv'
<1>0. TypeOK /\ SessionOK(s)
  BY DEF SessionInv
<1>1. CASE OpenSession(s)
  <2>1. TypeOK'
    BY <1>0, <1>1, Streams DEF OpenSession, TypeOK, server
  <2>2. SessionOK(s)'
    BY <1>0, <1>1, Streams DEF OpenSession, TypeOK, SessionOK, Acknowledged, Signalled, server
  <2>3. LocalToSession(s)
    BY <1>0, <1>1 DEF OpenSession, LocalToSession, TypeOK, server
  <2> QED
    BY <2>1, <2>2, <2>3, OneSession
<1>2. CASE InnerLogs(s)
  <2>1. TypeOK'
    BY <1>0, <1>2, Streams DEF InnerLogs, TypeOK, server
  <2>2. SessionOK(s)'
    BY <1>0, <1>2, Streams DEF InnerLogs, TypeOK, SessionOK, Acknowledged, Signalled, server
  <2>3. LocalToSession(s)
    BY <1>0, <1>2 DEF InnerLogs, LocalToSession, TypeOK, server
  <2> QED
    BY <2>1, <2>2, <2>3, OneSession
<1>3. CASE InnerOpened(s)
  <2>1. TypeOK'
    BY <1>0, <1>3 DEF InnerOpened, TypeOK, server
  <2>2. SessionOK(s)'
    BY <1>0, <1>3 DEF InnerOpened, TypeOK, SessionOK, Acknowledged, Signalled, server
  <2>3. LocalToSession(s)
    BY <1>0, <1>3 DEF InnerOpened, LocalToSession, TypeOK, server
  <2> QED
    BY <2>1, <2>2, <2>3, OneSession
<1>4. CASE SendAck(s)
  <2>0. handler[s] = "sending" /\ stream[s] \in {<<>>, <<"log">>}
    BY <1>0, <1>4 DEF SendAck, TypeOK, SessionOK, Acknowledged, Signalled
  <2>1. TypeOK'
    <3>1. Append(stream[s], "ack") \in {<<"ack">>, <<"log", "ack">>}
      BY <2>0, Streams
    <3>2. stream' \in [Sessions -> {<<>>, <<"log">>, <<"ack">>, <<"log", "ack">>}]
      BY <1>0, <1>4, <3>1 DEF SendAck, TypeOK
    <3>3. handler' \in [Sessions -> {"none", "opening", "sending", "acked", "waiting", "ended"}]
      BY <1>0, <1>4 DEF SendAck, TypeOK
    <3> QED
      BY <1>0, <1>4, <3>2, <3>3 DEF SendAck, TypeOK
  <2>2. SessionOK(s)'
    <3>1. CASE handler' = [handler EXCEPT ![s] = "ended"] /\ cancelled /\ UNCHANGED stream
      BY <1>0, <1>4, <2>0, <3>1 DEF SendAck, TypeOK, SessionOK, Acknowledged, Signalled, server
    <3>2. CASE handler' = [handler EXCEPT ![s] = "acked"]
               /\ stream' = [stream EXCEPT ![s] = Append(stream[s], "ack")]
      <4>1. stream'[s] \in {<<"ack">>, <<"log", "ack">>}
            /\ (stream[s] = <<"log">> => stream'[s] = <<"log", "ack">>)
        BY <1>0, <2>0, <3>2, Streams DEF TypeOK
      <4>2. handler'[s] = "acked"
        BY <1>0, <3>2 DEF TypeOK
      <4> QED
        BY <1>0, <1>4, <2>0, <4>1, <4>2, Streams
        DEF SendAck, TypeOK, SessionOK, Acknowledged, Signalled, server
    <3> QED
      BY <1>4, <3>1, <3>2 DEF SendAck
  <2>3. LocalToSession(s)
    BY <1>0, <1>4 DEF SendAck, LocalToSession, TypeOK, server
  <2> QED
    BY <2>1, <2>2, <2>3, OneSession
<1>5. CASE Register(s)
  <2>1. TypeOK'
    BY <1>0, <1>5 DEF Register, TypeOK, server
  <2>2. SessionOK(s)'
    BY <1>0, <1>5 DEF Register, TypeOK, SessionOK, Acknowledged, Signalled, server
  <2>3. LocalToSession(s)
    BY <1>0, <1>5 DEF Register, LocalToSession, TypeOK, server
  <2> QED
    BY <2>1, <2>2, <2>3, OneSession
<1>6. CASE Opened(s)
  <2>1. TypeOK'
    BY <1>0, <1>6, Streams DEF Opened, TypeOK, server
  <2>2. SessionOK(s)'
    BY <1>0, <1>6, Streams DEF Opened, TypeOK, SessionOK, Acknowledged, Signalled, server
  <2>3. LocalToSession(s)
    BY <1>0, <1>6 DEF Opened, LocalToSession, TypeOK, server
  <2> QED
    BY <2>1, <2>2, <2>3, OneSession
<1> QED
  BY <1>1, <1>2, <1>3, <1>4, <1>5, <1>6

LEMMA ClosingStep ==
  ASSUME SessionInv, NEW s \in Sessions,
         \/ CloseSession(s) \/ LookupClosing(s) \/ Signal(s)
         \/ InnerClosed(s) \/ Unregister(s) \/ Closed(s)
  PROVE  SessionInv'
<1>0. TypeOK /\ SessionOK(s)
  BY DEF SessionInv
<1>1. CASE CloseSession(s)
  <2>1. TypeOK'
    BY <1>0, <1>1 DEF CloseSession, TypeOK, server
  <2>2. SessionOK(s)'
    BY <1>0, <1>1 DEF CloseSession, TypeOK, SessionOK, Acknowledged, Signalled, server
  <2>3. LocalToSession(s)
    BY <1>0, <1>1 DEF CloseSession, LocalToSession, TypeOK, server
  <2> QED
    BY <2>1, <2>2, <2>3, OneSession
<1>2. CASE LookupClosing(s)
  <2>1. TypeOK'
    BY <1>0, <1>2 DEF LookupClosing, TypeOK, server
  <2>2. SessionOK(s)'
    BY <1>0, <1>2 DEF LookupClosing, TypeOK, SessionOK, Acknowledged, Signalled, server
  <2>3. LocalToSession(s)
    BY <1>0, <1>2 DEF LookupClosing, LocalToSession, TypeOK, server
  <2> QED
    BY <2>1, <2>2, <2>3, OneSession
<1>3. CASE Signal(s)
  <2>1. TypeOK'
    BY <1>0, <1>3 DEF Signal, TypeOK, server
  <2>2. SessionOK(s)'
    BY <1>0, <1>3 DEF Signal, TypeOK, SessionOK, Acknowledged, Signalled, server
  <2>3. LocalToSession(s)
    BY <1>0, <1>3 DEF Signal, LocalToSession, TypeOK, server
  <2> QED
    BY <2>1, <2>2, <2>3, OneSession
<1>4. CASE InnerClosed(s)
  <2>1. TypeOK'
    BY <1>0, <1>4 DEF InnerClosed, TypeOK, server
  <2>2. SessionOK(s)'
    BY <1>0, <1>4 DEF InnerClosed, TypeOK, SessionOK, Acknowledged, Signalled, server
  <2>3. LocalToSession(s)
    BY <1>0, <1>4 DEF InnerClosed, LocalToSession, TypeOK, server
  <2> QED
    BY <2>1, <2>2, <2>3, OneSession
<1>5. CASE Unregister(s)
  <2>1. TypeOK'
    BY <1>0, <1>5 DEF Unregister, TypeOK, server
  <2>2. SessionOK(s)'
    BY <1>0, <1>5 DEF Unregister, TypeOK, SessionOK, Acknowledged, Signalled, server
  <2>3. LocalToSession(s)
    BY <1>0, <1>5 DEF Unregister, LocalToSession, TypeOK, server
  <2> QED
    BY <2>1, <2>2, <2>3, OneSession
<1>6. CASE Closed(s)
  <2>1. TypeOK'
    BY <1>0, <1>6 DEF Closed, TypeOK, server
  <2>2. SessionOK(s)'
    BY <1>0, <1>6 DEF Closed, TypeOK, SessionOK, Acknowledged, Signalled, server
  <2>3. LocalToSession(s)
    BY <1>0, <1>6 DEF Closed, LocalToSession, TypeOK, server, SessionOK
  <2> QED
    BY <2>1, <2>2, <2>3, OneSession
<1> QED
  BY <1>1, <1>2, <1>3, <1>4, <1>5, <1>6

LEMMA Responded ==
  ASSUME TypeOK, NEW t \in Tasks, NEW a \in Response \ {"none"}, Respond(t, a)
  PROVE  /\ call' \in [Tasks -> {"none", "sent", "executing", "ended"}]
         /\ answer' \in [Tasks -> Response]
         /\ call'[t] = "ended" /\ answer'[t] # "none"
         /\ \A u \in Tasks \ {t} : call'[u] = call[u] /\ answer'[u] = answer[u]
<1>1. answer[t] \in Response
  BY DEF TypeOK
<1>2. (IF answer[t] = "none" THEN a ELSE answer[t]) \in Response \ {"none"}
  BY <1>1
<1>3. answer' = [answer EXCEPT ![t] = IF answer[t] = "none" THEN a ELSE answer[t]]
  BY DEF Respond
<1>4. answer' \in [Tasks -> Response] /\ answer'[t] # "none"
  BY <1>2, <1>3 DEF TypeOK
<1> QED
  BY <1>3, <1>4 DEF Respond, TypeOK

LEMMA Answered ==
  ASSUME SessionInv, NEW t \in Tasks, NEW a \in Response \ {"none"}, Respond(t, a),
         UNCHANGED <<client, handler, stream, sessions, inner, closing, closed, cancelled>>
  PROVE  SessionInv'
<1>1. TypeOK
  BY DEF SessionInv
<1>2. TypeOK'
  BY <1>1, Responded DEF TypeOK
<1>3. TaskOK(t)'
  BY <1>1, Responded DEF TaskOK
<1>4. LocalToTask(t)
  BY <1>1, Responded DEF LocalToTask
<1> QED
  BY <1>2, <1>3, <1>4, OneTask

LEMMA ExecuteStep ==
  ASSUME SessionInv, NEW t \in Tasks,
         Execute(t) \/ Lookup(t) \/ InnerExecuted(t) \/ GiveUp(t)
  PROVE  SessionInv'
<1>0. TypeOK /\ TaskOK(t)
  BY DEF SessionInv
<1>1. CASE Execute(t)
  <2>1. TypeOK' /\ TaskOK(t)'
    BY <1>0, <1>1 DEF Execute, TypeOK, TaskOK, Respond, Response, Pending, server
  <2>2. LocalToTask(t)
    BY <1>0, <1>1 DEF Execute, LocalToTask, TypeOK, Respond, server
  <2> QED
    BY <2>1, <2>2, OneTask
<1>2. CASE Lookup(t)
  <2>1. CASE Home[t] \in sessions
    <3>1. TypeOK' /\ TaskOK(t)'
      BY <1>0, <1>2, <2>1 DEF Lookup, TypeOK, TaskOK
    <3>2. LocalToTask(t)
      BY <1>0, <1>2, <2>1 DEF Lookup, LocalToTask, TypeOK
    <3> QED
      BY <3>1, <3>2, OneTask
  <2>2. CASE Home[t] \notin sessions
    <3>1. Respond(t, "unopened session")
          /\ UNCHANGED <<client, handler, stream, sessions, inner, closing, closed, cancelled>>
      BY <1>2, <2>2 DEF Lookup
    <3> QED
      BY <1>0, <3>1, Answered DEF Response
  <2> QED
    BY <2>1, <2>2
<1>3. CASE InnerExecuted(t)
  BY <1>0, <1>3, Answered DEF InnerExecuted, Response
<1>4. CASE GiveUp(t)
  <2>1. TypeOK' /\ TaskOK(t)'
    BY <1>0, <1>4 DEF GiveUp, TypeOK, TaskOK, Respond, Response, Pending, server
  <2>2. LocalToTask(t)
    BY <1>0, <1>4 DEF GiveUp, LocalToTask, TypeOK, Respond, server
  <2> QED
    BY <2>1, <2>2, OneTask
<1> QED
  BY <1>1, <1>2, <1>3, <1>4

LEMMA SessionInvStep == SessionInv /\ [Next]_vars => SessionInv'
<1> SUFFICES ASSUME SessionInv, [Next]_vars PROVE SessionInv'
  OBVIOUS
<1>1. CASE Cancel \/ UNCHANGED vars
  <2>1. UNCHANGED <<client, handler, stream, sessions, inner, call, answer, closing, closed>>
    BY <1>1 DEF Cancel, vars, server
  <2>2. cancelled => cancelled'
    BY <1>1 DEF Cancel, vars
  <2>3. TypeOK'
    BY <1>1, <2>1 DEF SessionInv, TypeOK, Cancel, vars
  <2>4. \A s \in Sessions : SessionOK(s)'
    BY <2>1, <2>2 DEF SessionInv, SessionOK, Acknowledged, Signalled
  <2>5. \A t \in Tasks : TaskOK(t)'
    BY <2>1 DEF SessionInv, TaskOK
  <2> QED
    BY <2>3, <2>4, <2>5 DEF SessionInv
<1> QED
  BY <1>1, OpeningStep, ClosingStep, ExecuteStep DEF Next, SessionStep, TaskStep

-----------------------------------------------------------------------------
(* SessionLogs implements RpcSession: what it adds only observes it.        *)

LEMMA LogsStep == [LogsNext]_logVars => [Next]_vars
<1> SUFFICES ASSUME [LogsNext]_logVars PROVE [Next]_vars
  OBVIOUS
<1>1. ASSUME NEW s \in Sessions,
             \/ (OpenSession(s) \/ InnerLogs(s) \/ CloseSession(s)) /\ UNCHANGED logs
             \/ OtherSessionStep(s) \/ StartReader(s) \/ ReaderStep(s)
      PROVE  [Next]_vars
  BY <1>1 DEF OtherSessionStep, StartReader, ReaderStep, Receive, StreamEnds, Next, SessionStep
<1>2. ASSUME NEW t \in Tasks, (Execute(t) /\ UNCHANGED logs) \/ TaskLogStep(t) \/ Log(t)
      PROVE  [Next]_vars
  BY <1>2 DEF TaskLogStep, OpenFiles, WriteText, WriteJSON, SendRecord, Cleanup, Log, Next, TaskStep
<1>3. CASE Cancel /\ UNCHANGED logs
  BY <1>3 DEF Next
<1>4. CASE UNCHANGED logVars
  BY <1>4 DEF logVars
<1> QED
  BY <1>1, <1>2, <1>3, <1>4 DEF LogsNext

(* With its log files and its stream of records, a session behaves as one  *)
(* without them (Plugin.Execute wraps the router's).                       *)
THEOREM LogsImplement == LogsSpec => Spec
<1>1. LogsInit => Init
  BY DEF LogsInit
<1> QED
  BY <1>1, LogsStep, PTL DEF LogsSpec, Spec

(* The states of the client, the handlers, the map of sessions and the     *)
(* plugin's executor always go together as SessionInv says.                *)
THEOREM SessionInvCorrect == LogsSpec => []SessionInv
BY InitSessionInv, SessionInvStep, LogsImplement, PTL DEF Spec

-----------------------------------------------------------------------------
(* The properties of RpcSession.                                           *)

(* Types: a stream carries at most one log record and one acknowledgement  *)
(* before the client takes the first message.                              *)
THEOREM SessionTyped == LogsSpec => []TypeOK
<1>1. SessionInv => TypeOK
  BY DEF SessionInv
<1> QED
  BY <1>1, SessionInvCorrect, PTL

(* grpcServer.ExecuteTask calls the executor only in a session that is     *)
(* open in it, whatever the client has given up.                           *)
THEOREM ExecutesOnlyInOpen == LogsSpec => []ExecutesInOpenSession
<1>1. SessionInv => ExecutesInOpenSession
  <2> SUFFICES ASSUME SessionInv, NEW t \in Tasks, call[t] = "executing"
               PROVE  inner[Home[t]] = "open"
    BY DEF ExecutesInOpenSession
  <2>1. Home[t] \in Sessions
    BY RpcSessionAssumption
  <2>2. client[Home[t]] = "open" /\ SessionOK(Home[t]) /\ TypeOK
    BY <2>1 DEF SessionInv, TaskOK
  <2> QED
    BY <2>1, <2>2 DEF SessionOK, Acknowledged, Signalled, TypeOK
<1> QED
  BY <1>1, SessionInvCorrect, PTL

(* ExecuteTask refuses a task of an open session only between the           *)
(* acknowledgement and the entry in the map.                               *)
THEOREM RefusesOnlyEarly == LogsSpec => RefusedOnlyEarly
<1>1. ASSUME SessionInv, [Next]_vars, NEW t \in Tasks,
             answer[t] = "none", answer'[t] = "unopened session"
      PROVE  handler[Home[t]] = "acked"
  <2>0. Home[t] \in Sessions
    BY RpcSessionAssumption
  <2>1. Home[t] \in Sessions /\ SessionOK(Home[t]) /\ TypeOK /\ TaskOK(t)
    BY <1>1, <2>0 DEF SessionInv
  <2>2. answer'[t] # answer[t]
    BY <1>1
  <2>3. CASE Lookup(t)
    <3>1. call[t] = "sent" /\ Home[t] \notin sessions
      BY <1>1, <2>3, <2>2 DEF Lookup
    <3> QED
      BY <2>1, <3>1 DEF SessionOK, TaskOK, Acknowledged, Signalled, TypeOK
  <2>4. CASE InnerExecuted(t) \/ GiveUp(t)
    BY <1>1, <2>1, <2>4 DEF InnerExecuted, GiveUp, Respond, TypeOK
  <2>5. ASSUME NEW u \in Tasks, u # t, TaskStep(u)
        PROVE  answer'[t] = answer[t]
    BY <2>1, <2>5 DEF TaskStep, Lookup, InnerExecuted, GiveUp, Respond, TypeOK
  <2>6. ASSUME NEW u \in Tasks, Execute(u)
        PROVE  answer'[t] = answer[t]
    BY <2>6 DEF Execute
  <2>7. ASSUME NEW s \in Sessions,
               OpenSession(s) \/ InnerLogs(s) \/ CloseSession(s) \/ SessionStep(s)
        PROVE  answer'[t] = answer[t]
    BY <2>7 DEF OpenSession, InnerLogs, CloseSession, SessionStep, InnerOpened, SendAck,
       Register, Opened, LookupClosing, Signal, InnerClosed, Unregister, Closed
  <2>8. CASE Cancel \/ UNCHANGED vars
    BY <2>2, <2>8 DEF Cancel, vars
  <2> QED
    BY <1>1, <2>2, <2>3, <2>4, <2>5, <2>6, <2>7, <2>8 DEF Next, TaskStep
<1>2. SessionInv /\ [Next]_vars =>
        [\A t \in Tasks :
           (answer[t] = "none" /\ answer'[t] = "unopened session") => handler[Home[t]] = "acked"]_vars
  BY <1>1
<1> QED
  BY <1>2, SessionInvCorrect, LogsImplement, PTL DEF Spec, RefusedOnlyEarly

(* CloseSession that succeeds frees what a session had, and a session that *)
(* stays open in the plugin has one of the causes listed.                  *)
THEOREM LeaksExplained == LogsSpec => []LeaksHaveCause
<1>1. SessionInv => LeaksHaveCause
  <2> SUFFICES ASSUME SessionInv, NEW s \in Sessions
               PROVE  /\ closed[s] = "ok" => s \notin sessions /\ inner[s] = "closed" /\ handler[s] = "ended"
                      /\ (client[s] \in {"failed", "closed"} /\ inner[s] = "open") =>
                           \/ client[s] = "failed" /\ stream[s] # <<>> /\ Head(stream[s]) = "log"
                           \/ cancelled
                           \/ closed[s] = "refused"
    BY DEF LeaksHaveCause
  <2>1. SessionOK(s) /\ TypeOK
    BY DEF SessionInv
  <2> QED
    BY <2>1, Streams DEF SessionOK, Acknowledged, Signalled, TypeOK
<1> QED
  BY <1>1, SessionInvCorrect, PTL

-----------------------------------------------------------------------------
(* The log files.                                                          *)

Places == {"none", "text", "json", "sending"}

LogTypes ==
  /\ files \in [Tasks -> {"none", "text", "both", "closed", "leaked"}]
  /\ record \in [Tasks -> [at : Places, level : {"debug", "info"}]]
  /\ kept \in [Tasks -> [text : Nat, json : Nat]]

(* A record is on its way only while its task is in the plugin's executor, *)
(* and has come to the text file before the other.                         *)
LogOK(t) ==
  /\ record[t].at = "none" <=> record[t] = NoRecord
  /\ call[t] \in {"none", "sent"} => files[t] = "none" /\ kept[t].text = 0
  /\ record[t] # NoRecord => call[t] = "executing" /\ files[t] = "both"
  /\ kept[t].text = IF record[t].at = "json" THEN kept[t].json + 1 ELSE kept[t].json
  /\ files[t] \in {"none", "text", "leaked"} => kept[t].text = 0
  /\ call[t] = "ended" =>
       files[t] \in {"none", "closed", "leaked"} /\ (files[t] = "leaked" => answer[t] # "ok")

LogsInv == LogTypes /\ \A t \in Tasks : LogOK(t)

LEMMA InitLogsInv == LogsInit => LogsInv
BY DEF LogsInit, Init, LogsInv, LogTypes, LogOK, NoRecord, Places

(* A step that leaves the files alone, and answers no task that has them.  *)
LEMMA LogsIdle ==
  ASSUME LogsInv, UNCHANGED <<files, record, kept>>,
         \A t \in Tasks :
           \/ call'[t] = call[t] /\ answer'[t] = answer[t]
           \/ call[t] = "none" /\ call'[t] = "sent"
           \/ call[t] = "sent" /\ call'[t] \in {"executing", "ended"}
           \/ call'[t] = call[t] /\ call[t] # "ended"
  PROVE  LogsInv'
<1>1. LogTypes'
  BY DEF LogsInv, LogTypes
<1>2. ASSUME NEW t \in Tasks PROVE LogOK(t)'
  <2>1. LogOK(t)
    BY DEF LogsInv
  <2> QED
    BY <2>1 DEF LogOK
<1> QED
  BY <1>1, <1>2 DEF LogsInv

LEMMA LogsCallStep ==
  ASSUME SessionInv, LogsInv, NEW t \in Tasks,
         (Execute(t) \/ Lookup(t) \/ GiveUp(t)) /\ UNCHANGED logs
  PROVE  LogsInv'
<1>0. TypeOK /\ TaskOK(t) /\ UNCHANGED <<files, record, kept>>
  BY DEF SessionInv, logs
<1>1. CASE Execute(t)
  <2>1. call[t] = "none" /\ call' = [call EXCEPT ![t] = "sent"] /\ UNCHANGED answer
    BY <1>1 DEF Execute
  <2> QED
    BY <1>0, <2>1, LogsIdle DEF TypeOK
<1>2. CASE Lookup(t) /\ Home[t] \in sessions
  <2>1. call[t] = "sent" /\ call' = [call EXCEPT ![t] = "executing"] /\ UNCHANGED answer
    BY <1>2 DEF Lookup
  <2> QED
    BY <1>0, <2>1, LogsIdle DEF TypeOK
<1>3. CASE Lookup(t) /\ Home[t] \notin sessions
  <2>1. call[t] = "sent" /\ Respond(t, "unopened session")
    BY <1>3 DEF Lookup
  <2>2. "unopened session" \in Response \ {"none"}
    BY DEF Response
  <2>3. /\ call'[t] = "ended"
        /\ \A u \in Tasks \ {t} : call'[u] = call[u] /\ answer'[u] = answer[u]
    BY <1>0, <2>1, <2>2, Responded
  <2> QED
    BY <1>0, <2>1, <2>3, LogsIdle
<1>4. CASE GiveUp(t)
  <2>1. call[t] # "ended" /\ UNCHANGED call /\ answer' = [answer EXCEPT ![t] = "cancelled"]
    BY <1>0, <1>4 DEF GiveUp, Pending, TaskOK, server
  <2> QED
    BY <1>0, <2>1, LogsIdle DEF TypeOK
<1> QED
  BY <1>1, <1>2, <1>3, <1>4

(* What the steps of a task's logger keep.                                 *)
LEMMA OneLogger ==
  ASSUME LogsInv, NEW t \in Tasks, LogTypes', LogOK(t)',
         \A u \in Tasks \ {t} :
           /\ files'[u] = files[u] /\ record'[u] = record[u] /\ kept'[u] = kept[u]
           /\ call'[u] = call[u] /\ answer'[u] = answer[u]
  PROVE  LogsInv'
<1>1. ASSUME NEW u \in Tasks \ {t} PROVE LogOK(u)'
  <2>1. LogOK(u)
    BY DEF LogsInv
  <2> QED
    BY <2>1 DEF LogOK
<1> QED
  BY <1>1 DEF LogsInv

LEMMA LoggerStep ==
  ASSUME SessionInv, LogsInv, NEW t \in Tasks,
         OpenFiles(t) \/ Log(t) \/ WriteText(t) \/ WriteJSON(t) \/ SendRecord(t)
  PROVE  LogsInv'
<1>0. LogTypes /\ LogOK(t) /\ TaskOK(t)
  BY DEF LogsInv, SessionInv
<1>1. UNCHANGED <<call, answer>>
  BY DEF OpenFiles, Log, WriteText, WriteJSON, SendRecord, vars, server
<1>2. CASE OpenFiles(t)
  <2>1. UNCHANGED <<record, kept>> /\ call[t] = "executing" /\ files[t] \in {"none", "text"}
    BY <1>2 DEF OpenFiles
  <2>2. PICK f \in {"text", "closed", "both", "leaked"} : files' = [files EXCEPT ![t] = f]
    BY <1>2 DEF OpenFiles
  <2>3. LogTypes'
    BY <1>0, <2>1, <2>2 DEF LogTypes
  <2>4. LogOK(t)'
    BY <1>0, <1>1, <2>1, <2>2 DEF LogTypes, LogOK
  <2> QED
    BY <1>0, <1>1, <2>1, <2>2, <2>3, <2>4, OneLogger DEF LogTypes
<1>3. CASE Log(t)
  <2>1. UNCHANGED <<files, kept>> /\ call[t] = "executing" /\ files[t] = "both" /\ record[t] = NoRecord
    BY <1>3 DEF Log
  <2>2. PICK level \in {"debug", "info"} : record' = [record EXCEPT ![t] = [at |-> "text", level |-> level]]
    BY <1>3 DEF Log
  <2>3. LogTypes'
    BY <1>0, <2>1, <2>2 DEF LogTypes, Places
  <2>4. record'[t] = [at |-> "text", level |-> level]
    BY <1>0, <2>2 DEF LogTypes
  <2>5. LogOK(t)'
    BY <1>0, <1>1, <2>1, <2>4 DEF LogOK, NoRecord
  <2> QED
    BY <1>0, <1>1, <2>1, <2>2, <2>3, <2>5, OneLogger DEF LogTypes
<1>4. CASE WriteText(t)
  <2>1. UNCHANGED files /\ record[t].at = "text"
        /\ kept' = [kept EXCEPT ![t].text = @ + 1] /\ record' = [record EXCEPT ![t].at = "json"]
    BY <1>4 DEF WriteText
  <2>2. /\ record[t] \in [at : Places, level : {"debug", "info"}]
        /\ kept[t] \in [text : Nat, json : Nat]
    BY <1>0 DEF LogTypes
  <2>3. record'[t].at = "json" /\ kept'[t].text = kept[t].text + 1 /\ kept'[t].json = kept[t].json
    BY <1>0, <2>1, <2>2 DEF LogTypes
  <2>4. LogTypes'
    BY <1>0, <2>1, <2>2 DEF LogTypes, Places
  <2>5. LogOK(t)'
    BY <1>0, <1>1, <2>1, <2>2, <2>3 DEF LogOK, NoRecord
  <2>6. \A u \in Tasks \ {t} : record'[u] = record[u] /\ kept'[u] = kept[u]
    BY <1>0, <2>1 DEF LogTypes
  <2> QED
    BY <1>1, <2>1, <2>4, <2>5, <2>6, OneLogger
<1>5. CASE WriteJSON(t)
  <2>1. UNCHANGED files /\ record[t].at = "json" /\ kept' = [kept EXCEPT ![t].json = @ + 1]
    BY <1>5 DEF WriteJSON
  <2>2. /\ record[t] \in [at : Places, level : {"debug", "info"}]
        /\ kept[t] \in [text : Nat, json : Nat]
        /\ NoRecord \in [at : Places, level : {"debug", "info"}]
    BY <1>0 DEF LogTypes, NoRecord, Places
  <2>3. PICK x \in {NoRecord, [record[t] EXCEPT !.at = "sending"]} : record' = [record EXCEPT ![t] = x]
    BY <1>5 DEF WriteJSON
  <2>4. x \in [at : Places, level : {"debug", "info"}] /\ x.at # "json"
        /\ (x.at = "none" <=> x = NoRecord)
    BY <2>2, <2>3 DEF Places, NoRecord
  <2>5. record'[t] = x /\ kept'[t].text = kept[t].text /\ kept'[t].json = kept[t].json + 1
    BY <1>0, <2>1, <2>2, <2>3 DEF LogTypes
  <2>6. LogTypes'
    BY <1>0, <2>1, <2>2, <2>3, <2>4 DEF LogTypes
  <2>7. LogOK(t)'
    BY <1>0, <1>1, <2>1, <2>2, <2>4, <2>5 DEF LogOK, NoRecord
  <2>8. \A u \in Tasks \ {t} : record'[u] = record[u] /\ kept'[u] = kept[u]
    BY <1>0, <2>1, <2>3 DEF LogTypes
  <2> QED
    BY <1>1, <2>1, <2>6, <2>7, <2>8, OneLogger
<1>6. CASE SendRecord(t)
  <2>1. UNCHANGED <<files, kept>> /\ record[t].at = "sending"
        /\ record' = [record EXCEPT ![t] = NoRecord]
    BY <1>6 DEF SendRecord, Sending
  <2>2. LogTypes'
    BY <1>0, <2>1 DEF LogTypes, NoRecord, Places
  <2>3. record'[t] = NoRecord
    BY <1>0, <2>1 DEF LogTypes
  <2>4. LogOK(t)'
    BY <1>0, <1>1, <2>1, <2>3 DEF LogOK, NoRecord
  <2> QED
    BY <1>0, <1>1, <2>1, <2>2, <2>4, OneLogger DEF LogTypes
<1> QED
  BY <1>2, <1>3, <1>4, <1>5, <1>6

LEMMA CleanupStep ==
  ASSUME SessionInv, LogsInv, NEW t \in Tasks, Cleanup(t)
  PROVE  LogsInv'
<1>0. TypeOK /\ LogTypes /\ LogOK(t)
  BY DEF LogsInv, SessionInv
<1>1. /\ record[t] = NoRecord /\ files[t] \in {"both", "closed", "leaked"}
      /\ files[t] # "both" => answer'[t] # "ok"
      /\ files' = [files EXCEPT ![t] = IF @ = "both" THEN "closed" ELSE @]
      /\ UNCHANGED <<record, kept>>
  BY DEF Cleanup
<1>2. PICK a \in {"ok", "error"} : Respond(t, a)
  BY DEF Cleanup, InnerExecuted
<1>3. a \in Response \ {"none"}
  BY <1>2 DEF Response
<1>4. /\ call'[t] = "ended"
      /\ \A u \in Tasks \ {t} : call'[u] = call[u] /\ answer'[u] = answer[u]
  BY <1>0, <1>2, <1>3, Responded
<1>5. files'[t] \in {"closed", "leaked"} /\ (files'[t] = "leaked" => files[t] = "leaked")
  BY <1>0, <1>1 DEF LogTypes
<1>6. LogTypes'
  BY <1>0, <1>1 DEF LogTypes
<1>7. LogOK(t)'
  BY <1>0, <1>1, <1>4, <1>5 DEF LogOK
<1>8. \A u \in Tasks \ {t} : files'[u] = files[u]
  BY <1>0, <1>1 DEF LogTypes
<1> QED
  BY <1>1, <1>4, <1>6, <1>7, <1>8, OneLogger

LEMMA LogsInvStep == SessionInv /\ LogsInv /\ [LogsNext]_logVars => LogsInv'
<1> SUFFICES ASSUME SessionInv, LogsInv, [LogsNext]_logVars PROVE LogsInv'
  OBVIOUS
<1>1. ASSUME UNCHANGED <<call, answer, files, record, kept>> PROVE LogsInv'
  BY <1>1, LogsIdle
<1>2. ASSUME NEW s \in Sessions,
             \/ (OpenSession(s) \/ InnerLogs(s) \/ CloseSession(s)) /\ UNCHANGED logs
             \/ OtherSessionStep(s)
      PROVE  LogsInv'
  <2>1. UNCHANGED <<call, answer>>
    BY <1>2 DEF OtherSessionStep, OpenSession, InnerLogs, CloseSession, InnerOpened, SendAck,
       Register, LookupClosing, Signal, InnerClosed, Unregister, Closed, server
  <2>2. UNCHANGED <<files, record, kept>>
    BY <1>2 DEF OtherSessionStep, logs
  <2> QED
    BY <1>1, <2>1, <2>2
<1>3. ASSUME NEW s \in Sessions, StartReader(s) \/ ReaderStep(s)
      PROVE  LogsInv'
  <2>1. UNCHANGED <<call, answer, files, record, kept>>
    BY <1>3 DEF StartReader, ReaderStep, Receive, StreamEnds, Opened, vars, server
  <2> QED
    BY <1>1, <2>1
<1>4. ASSUME NEW t \in Tasks, (Execute(t) /\ UNCHANGED logs) \/ TaskLogStep(t) \/ Log(t)
      PROVE  LogsInv'
  BY <1>4, LogsCallStep, LoggerStep, CleanupStep DEF TaskLogStep
<1>5. CASE (Cancel /\ UNCHANGED logs) \/ UNCHANGED logVars
  <2>1. UNCHANGED <<call, answer, files, record, kept>>
    BY <1>5 DEF Cancel, logVars, logs, vars, server
  <2> QED
    BY <1>1, <2>1
<1> QED
  BY <1>2, <1>3, <1>4, <1>5 DEF LogsNext

LEMMA LogsInvCorrect == LogsSpec => []LogsInv
BY InitLogsInv, LogsInvStep, SessionInvCorrect, PTL DEF LogsSpec

(* The two log files of a task that was answered have the same records and *)
(* are closed, unless the second one could not be created.                 *)
THEOREM LogFilesKept == LogsSpec => []LogsKept
<1>1. SessionInv /\ LogsInv => LogsKept
  <2> SUFFICES ASSUME SessionInv, LogsInv, NEW t \in Tasks, call[t] = "ended"
               PROVE  /\ kept[t].text = kept[t].json /\ record[t] = NoRecord
                      /\ files[t] \in {"none", "closed", "leaked"}
                      /\ files[t] = "leaked" => kept[t].text = 0 /\ answer[t] # "ok"
    BY DEF LogsKept
  <2>1. LogOK(t)
    BY DEF LogsInv
  <2> QED
    BY <2>1 DEF LogOK, NoRecord
<1> QED
  BY <1>1, LogsInvCorrect, SessionInvCorrect, PTL
-----------------------------------------------------------------------------
(* What keeps calls waiting.                                               *)

(* CloseSession's handler sends to a channel on which a handler receives.  *)
Meets == \A s \in Sessions : closing[s] = "signalling" => handler[s] = "waiting"

LEMMA MeetsStep == SessionInv /\ Meets /\ [Next]_vars => Meets'
<1> SUFFICES ASSUME SessionInv, Meets, [Next]_vars PROVE Meets'
  OBVIOUS
<1>1. /\ closing \in [Sessions -> {"none", "sent", "signalling", "signalled", "innerClosed", "ok", "refused"}]
      /\ handler \in [Sessions -> {"none", "opening", "sending", "acked", "waiting", "ended"}]
      /\ \A s \in Sessions : SessionOK(s)
  BY DEF SessionInv, TypeOK
<1>2. CASE UNCHANGED <<closing, handler>>
  BY <1>2 DEF Meets
<1>3. ASSUME NEW s \in Sessions, OpenSession(s)
      PROVE  Meets'
  <2>1. handler[s] = "none" /\ handler' = [handler EXCEPT ![s] = "opening"] /\ closing' = closing
    BY <1>1, <1>3 DEF OpenSession, SessionOK
  <2> QED
    BY <1>1, <2>1 DEF Meets
<1>4. ASSUME NEW s \in Sessions, InnerOpened(s) \/ SendAck(s) \/ Register(s)
      PROVE  Meets'
  <2>1. /\ handler[s] \in {"opening", "sending", "acked"} /\ closing' = closing
        /\ \A r \in Sessions \ {s} : handler'[r] = handler[r]
    BY <1>1, <1>4 DEF InnerOpened, SendAck, Register
  <2> QED
    BY <1>1, <2>1 DEF Meets
<1>5. ASSUME NEW s \in Sessions, CloseSession(s)
      PROVE  Meets'
  <2>1. closing' = [closing EXCEPT ![s] = "sent"] /\ handler' = handler
    BY <1>5 DEF CloseSession
  <2> QED
    BY <1>1, <2>1 DEF Meets
<1>6. ASSUME NEW s \in Sessions, LookupClosing(s)
      PROVE  Meets'
  <2>1. /\ closing[s] = "sent" /\ handler' = handler
        /\ closing' = [closing EXCEPT ![s] = IF s \in sessions THEN "signalling" ELSE "refused"]
    BY <1>6 DEF LookupClosing
  <2>2. s \in sessions => handler[s] = "waiting"
    BY <1>1, <2>1 DEF SessionOK
  <2> QED
    BY <1>1, <2>1, <2>2 DEF Meets
<1>7. ASSUME NEW s \in Sessions, Signal(s)
      PROVE  Meets'
  <2>1. /\ closing' = [closing EXCEPT ![s] = "signalled"]
        /\ handler' = [handler EXCEPT ![s] = "ended"]
    BY <1>7 DEF Signal
  <2> QED
    BY <1>1, <2>1 DEF Meets
<1>8. ASSUME NEW s \in Sessions, InnerClosed(s) \/ Unregister(s)
      PROVE  Meets'
  <2>1. handler' = handler /\ \E x \in {"innerClosed", "ok"} : closing' = [closing EXCEPT ![s] = x]
    BY <1>8 DEF InnerClosed, Unregister
  <2> QED
    BY <1>1, <2>1 DEF Meets
<1>9. ASSUME NEW s \in Sessions, InnerLogs(s) \/ Opened(s) \/ Closed(s)
      PROVE  Meets'
  BY <1>2, <1>9 DEF InnerLogs, Opened, Closed, server
<1>10. ASSUME NEW t \in Tasks, Execute(t) \/ TaskStep(t)
       PROVE  Meets'
  BY <1>2, <1>10 DEF Execute, TaskStep, Lookup, InnerExecuted, GiveUp, server
<1>11. CASE Cancel \/ UNCHANGED vars
  BY <1>2, <1>11 DEF Cancel, vars, server
<1> QED
  BY <1>3, <1>4, <1>5, <1>6, <1>7, <1>8, <1>9, <1>10, <1>11 DEF Next, SessionStep

(* A client that is closing a session has called the server.               *)
Sent == \A s \in Sessions : client[s] = "closing" => closing[s] # "none"

LEMMA SentStep == SessionInv /\ Sent /\ [Next]_vars => Sent'
<1> SUFFICES ASSUME SessionInv, Sent, [Next]_vars PROVE Sent'
  OBVIOUS
<1>1. /\ client \in [Sessions -> {"none", "opening", "open", "failed", "closing", "closed"}]
      /\ closing \in [Sessions -> {"none", "sent", "signalling", "signalled", "innerClosed", "ok", "refused"}]
  BY DEF SessionInv, TypeOK
<1>2. CASE UNCHANGED <<client, closing>>
  BY <1>2 DEF Sent
<1>3. ASSUME NEW s \in Sessions, OpenSession(s) \/ Opened(s) \/ Closed(s)
      PROVE  Sent'
  <2>1. /\ closing' = closing
        /\ \E x : x # "closing" /\ client' = [client EXCEPT ![s] = x]
    BY <1>3 DEF OpenSession, Opened, Closed, server
  <2> QED
    BY <1>1, <2>1 DEF Sent
<1>4. ASSUME NEW s \in Sessions, CloseSession(s)
      PROVE  Sent'
  BY <1>1, <1>4 DEF CloseSession, Sent
<1>5. ASSUME NEW s \in Sessions, LookupClosing(s) \/ Signal(s) \/ InnerClosed(s) \/ Unregister(s)
      PROVE  Sent'
  <2>1. /\ client' = client
        /\ \E x : x # "none" /\ closing' = [closing EXCEPT ![s] = x]
    BY <1>5 DEF LookupClosing, Signal, InnerClosed, Unregister
  <2> QED
    BY <1>1, <2>1 DEF Sent
<1>6. CASE \/ \E s \in Sessions : InnerLogs(s) \/ InnerOpened(s) \/ SendAck(s) \/ Register(s)
           \/ \E t \in Tasks : Execute(t) \/ TaskStep(t)
           \/ Cancel \/ UNCHANGED vars
  BY <1>2, <1>6 DEF InnerLogs, InnerOpened, SendAck, Register, Execute, TaskStep, Lookup,
     InnerExecuted, GiveUp, Cancel, vars, server
<1> QED
  BY <1>3, <1>4, <1>5, <1>6 DEF Next, SessionStep

(* The next step of a call that opens a session, of the handlers of a       *)
(* session, and of a task.                                                 *)
CanOpen(s) == client[s] = "opening" /\ (stream[s] # <<>> \/ handler[s] = "ended" \/ cancelled)

CanServe(s) ==
  \/ handler[s] \in {"opening", "sending", "acked"}
  \/ closing[s] \in {"sent", "signalled", "innerClosed"}
  \/ closing[s] = "signalling" /\ handler[s] = "waiting"
  \/ client[s] = "closing" /\ (closing[s] \in {"ok", "refused"} \/ cancelled)

CanExecute(t) ==
  \/ call[t] = "sent"
  \/ cancelled /\ Pending(t)
  \/ record[t].at # "none"
  \/ call[t] = "executing" /\ (files[t] \in {"none", "text"} \/ record[t] = NoRecord)

CallsGoOn ==
  /\ \A s \in Sessions :
       /\ client[s] \in {"opening", "closing"} => CanOpen(s) \/ CanServe(s)
       /\ closing[s] = "signalling" => handler[s] = "waiting"
  /\ \A t \in Tasks : Pending(t) \/ call[t] \in {"sent", "executing"} => CanExecute(t)

(* A call of the client's is never left without somebody who can go on with *)
(* it, the plugin does not leave a task undone that the client gave up, and *)
(* CloseSession does not block on its channel, cancelled or not.           *)
THEOREM CallsNeverStuck == LogsSpec => []CallsGoOn
<1>1. SessionInv /\ LogsInv /\ Meets /\ Sent => CallsGoOn
  <2> SUFFICES ASSUME SessionInv, LogsInv, Meets, Sent PROVE CallsGoOn
    OBVIOUS
  <2>1. ASSUME NEW s \in Sessions, client[s] = "opening"
        PROVE  CanOpen(s) \/ CanServe(s)
    <3>1. SessionOK(s) /\ handler[s] \in {"none", "opening", "sending", "acked", "waiting", "ended"}
      BY DEF SessionInv, TypeOK
    <3>2. handler[s] = "waiting" => stream[s] # <<>>
      BY <3>1, Streams DEF SessionOK, Acknowledged
    <3> QED
      BY <2>1, <3>1, <3>2 DEF SessionOK, CanOpen, CanServe
  <2>2. ASSUME NEW s \in Sessions, client[s] = "closing"
        PROVE  CanServe(s)
    <3>1. closing[s] \in {"sent", "signalling", "signalled", "innerClosed", "ok", "refused"}
      BY <2>2 DEF SessionInv, TypeOK, Sent
    <3> QED
      BY <2>2, <3>1 DEF Meets, CanServe
  <2>3. ASSUME NEW t \in Tasks, Pending(t) \/ call[t] \in {"sent", "executing"}
        PROVE  CanExecute(t)
    <3>1. call[t] \in {"sent", "executing"}
      BY <2>3 DEF SessionInv, TypeOK, TaskOK, Pending
    <3>2. record[t].at = "none" => record[t] = NoRecord
      BY DEF LogsInv, LogOK
    <3> QED
      BY <3>1, <3>2 DEF CanExecute
  <2> QED
    BY <2>1, <2>2, <2>3 DEF Meets, CallsGoOn
<1>2. Init => Meets /\ Sent
  BY DEF Init, Meets, Sent
<1>3. LogsInit => Init
  BY DEF LogsInit
<1> QED
  BY <1>1, <1>2, <1>3, LogsStep, MeetsStep, SentStep, SessionInvCorrect, LogsInvCorrect, PTL DEF LogsSpec

-----------------------------------------------------------------------------
(* The stream of records.                                                  *)

Count(seq, m) == Cardinality({i \in DOMAIN seq : seq[i] = m})

LEMMA CountAppend ==
  ASSUME NEW S, NEW seq \in Seq(S), NEW x \in S, NEW m
  PROVE  /\ Count(seq, m) \in Nat
         /\ Count(Append(seq, x), m) = Count(seq, m) + IF x = m THEN 1 ELSE 0
<1> DEFINE at == {i \in DOMAIN seq : seq[i] = m}
<1>1. /\ Append(seq, x) \in Seq(S) /\ Len(seq) \in Nat /\ Len(Append(seq, x)) = Len(seq) + 1
      /\ \A i \in 1..Len(seq) : Append(seq, x)[i] = seq[i]
      /\ Append(seq, x)[Len(seq) + 1] = x
  OBVIOUS
<1>2. DOMAIN seq = 1..Len(seq) /\ DOMAIN Append(seq, x) = 1..Len(seq) + 1
  BY <1>1
<1>3. 1..Len(seq) + 1 = (1..Len(seq)) \cup {Len(seq) + 1} /\ Len(seq) + 1 \notin 1..Len(seq)
  BY <1>1
<1>4. IsFiniteSet(at) /\ Cardinality(at) \in Nat /\ Len(seq) + 1 \notin at
  <2>1. IsFiniteSet(1..Len(seq))
    BY <1>1, FS_Interval
  <2>2. at \subseteq 1..Len(seq)
    BY <1>2
  <2> QED
    BY <1>3, <2>1, <2>2, FS_Subset, FS_CardinalityType
<1>5. {i \in DOMAIN Append(seq, x) : Append(seq, x)[i] = m} =
        IF x = m THEN at \cup {Len(seq) + 1} ELSE at
  <2>1. {i \in DOMAIN Append(seq, x) : Append(seq, x)[i] = m} =
          {i \in 1..Len(seq) : Append(seq, x)[i] = m} \cup
          {i \in {Len(seq) + 1} : Append(seq, x)[i] = m}
    BY <1>2, <1>3, Zenon
  <2>2. {i \in 1..Len(seq) : Append(seq, x)[i] = m} = at
    BY <1>1, <1>2
  <2>3. {i \in {Len(seq) + 1} : Append(seq, x)[i] = m} = IF x = m THEN {Len(seq) + 1} ELSE {}
    BY <1>1
  <2> HIDE DEF at
  <2>4. CASE x = m
    BY <2>1, <2>2, <2>3, <2>4, Zenon
  <2>5. CASE x # m
    <3>1. at \cup {} = at
      OBVIOUS
    <3> QED
      BY <2>1, <2>2, <2>3, <2>5, <3>1, Zenon
  <2> QED
    BY <2>4, <2>5
<1>6. Cardinality(at \cup {Len(seq) + 1}) = Cardinality(at) + 1
  BY <1>4, FS_AddElement
<1> HIDE DEF at
<1>7. Count(seq, m) = Cardinality(at)
  BY DEF Count, at
<1>8. Count(Append(seq, x), m) = Cardinality(IF x = m THEN at \cup {Len(seq) + 1} ELSE at)
  BY <1>5 DEF Count
<1>9. CASE x = m
  BY <1>4, <1>6, <1>7, <1>8, <1>9
<1>10. CASE x # m
  BY <1>4, <1>7, <1>8, <1>10
<1> QED
  BY <1>9, <1>10

LEMMA CountEmpty == ASSUME NEW m PROVE Count(<<>>, m) = 0
<1>1. {i \in DOMAIN <<>> : <<>>[i] = m} = {}
  OBVIOUS
<1> QED
  BY <1>1, FS_EmptySet DEF Count

LEMMA CountTail ==
  ASSUME NEW S, NEW seq \in Seq(S), seq # <<>>, NEW m
  PROVE  Count(seq, m) = Count(Tail(seq), m) + IF Head(seq) = m THEN 1 ELSE 0
<1> DEFINE at == {i \in DOMAIN Tail(seq) : Tail(seq)[i] = m}
           later == {i \in 2..Len(seq) : seq[i] = m}
<1>1. /\ Len(seq) \in Nat /\ Len(seq) >= 1 /\ DOMAIN seq = 1..Len(seq) /\ Head(seq) = seq[1]
      /\ DOMAIN Tail(seq) = 1..Len(seq) - 1
      /\ \A i \in 1..Len(seq) - 1 : Tail(seq)[i] = seq[i + 1]
  OBVIOUS
<1>2. IsFiniteSet(at) /\ Cardinality(at) \in Nat
  <2>1. IsFiniteSet(1..Len(seq) - 1)
    BY <1>1, FS_Interval
  <2> QED
    BY <1>1, <2>1, FS_Subset, FS_CardinalityType
<1>3. IsFiniteSet(later) /\ Cardinality(later) = Cardinality(at)
  <2> DEFINE f == [i \in at |-> i + 1]
  <2>1. f \in [at -> later]
    BY <1>1
  <2>2. \A i, j \in at : f[i] = f[j] => i = j
    BY <1>1
  <2>3. \A j \in later : \E i \in at : f[i] = j
    <3> SUFFICES ASSUME NEW j \in later PROVE j - 1 \in at /\ f[j - 1] = j
      OBVIOUS
    <3> QED
      BY <1>1
  <2>4. f \in Bijection(at, later)
    BY <2>1, <2>2, <2>3, Zenon DEF Bijection, Injection, Surjection, IsInjective
  <2>5. ExistsBijection(at, later)
    BY <2>4, Zenon DEF ExistsBijection
  <2> HIDE DEF at, later
  <2> QED
    BY <1>2, <2>5, FS_Bijection
<1>4. {i \in DOMAIN seq : seq[i] = m} = IF Head(seq) = m THEN later \cup {1} ELSE later
  BY <1>1
<1>5. 1 \notin later
  OBVIOUS
<1>6. Cardinality(later \cup {1}) = Cardinality(later) + 1
  BY <1>3, <1>5, FS_AddElement
<1> HIDE DEF at, later
<1>7. Count(seq, m) = Cardinality(IF Head(seq) = m THEN later \cup {1} ELSE later)
  BY <1>4 DEF Count
<1>8. Count(Tail(seq), m) = Cardinality(at)
  BY DEF Count, at
<1>9. CASE Head(seq) = m
  BY <1>3, <1>6, <1>7, <1>8, <1>9
<1>10. CASE Head(seq) # m
  BY <1>2, <1>3, <1>7, <1>8, <1>10
<1> QED
  BY <1>9, <1>10

StreamTypes ==
  /\ due \in [Tasks -> Nat] /\ heard \in [Tasks -> Nat]
  /\ wire \in [Sessions -> Seq(Tasks)]
  /\ reader \in [Sessions -> {"none", "reading", "ended"}]

(* A record that the stream took is under way, or the client has logged it, *)
(* and nothing is under way behind the end of the stream.                  *)
OnTheWay ==
  \A t \in Tasks : due[t] = heard[t] + Count(wire[Home[t]], t)

EndIsLast ==
  \A s \in Sessions : reader[s] = "ended" /\ ~cancelled => handler[s] = "ended" /\ wire[s] = <<>>

HomeOnly ==
  \A s \in Sessions : \A i \in DOMAIN wire[s] : Home[wire[s][i]] = s

StreamInv == StreamTypes /\ OnTheWay /\ EndIsLast /\ HomeOnly

LEMMA InitStreamInv == LogsInit => StreamInv
<1> SUFFICES ASSUME LogsInit PROVE StreamInv
  OBVIOUS
<1>1. \A s \in Sessions : wire[s] = <<>> /\ reader[s] = "none"
  BY DEF LogsInit
<1>2. StreamTypes
  BY DEF LogsInit, StreamTypes
<1>3. \A t \in Tasks : Count(wire[Home[t]], t) = 0 /\ due[t] = 0 /\ heard[t] = 0
  BY <1>1, CountEmpty, RpcSessionAssumption DEF LogsInit
<1> QED
  BY <1>1, <1>2, <1>3 DEF StreamInv, OnTheWay, EndIsLast, HomeOnly

(* Handlers end once, and a cancelled build stays cancelled.               *)
LEMMA EndedStays ==
  ASSUME SessionInv, [Next]_vars
  PROVE  /\ cancelled => cancelled'
         /\ \A s \in Sessions : handler[s] = "ended" => handler'[s] = "ended"
<1>1. /\ handler \in [Sessions -> {"none", "opening", "sending", "acked", "waiting", "ended"}]
      /\ \A s \in Sessions : SessionOK(s)
  BY DEF SessionInv, TypeOK
<1>2. cancelled => cancelled'
  BY DEF Next, SessionStep, TaskStep, OpenSession, InnerLogs, CloseSession, InnerOpened, SendAck,
         Register, Opened, LookupClosing, Signal, InnerClosed, Unregister, Closed, Execute, Lookup,
         InnerExecuted, GiveUp, Cancel, vars
<1>3. CASE UNCHANGED handler
  BY <1>2, <1>3
<1>4. ASSUME NEW s \in Sessions, handler[s] # "ended", \E x : handler' = [handler EXCEPT ![s] = x]
      PROVE  \A r \in Sessions : handler[r] = "ended" => handler'[r] = "ended"
  BY <1>1, <1>4
<1>5. ASSUME NEW s \in Sessions, OpenSession(s)
      PROVE  \A r \in Sessions : handler[r] = "ended" => handler'[r] = "ended"
  BY <1>1, <1>4, <1>5 DEF OpenSession, SessionOK
<1>6. ASSUME NEW s \in Sessions, InnerOpened(s) \/ SendAck(s) \/ Register(s) \/ Signal(s)
      PROVE  \A r \in Sessions : handler[r] = "ended" => handler'[r] = "ended"
  BY <1>1, <1>4, <1>6 DEF InnerOpened, SendAck, Register, Signal
<1>7. CASE \/ \E s \in Sessions :
                InnerLogs(s) \/ CloseSession(s) \/ Opened(s) \/ LookupClosing(s) \/ InnerClosed(s)
                \/ Unregister(s) \/ Closed(s)
           \/ \E t \in Tasks : Execute(t) \/ TaskStep(t)
           \/ Cancel \/ UNCHANGED vars
  BY <1>3, <1>7 DEF TaskStep, InnerLogs, CloseSession, Opened, LookupClosing, InnerClosed, Unregister,
     Closed, Execute, Lookup, InnerExecuted, GiveUp, Cancel, vars, server
<1> QED
  BY <1>2, <1>5, <1>6, <1>7 DEF Next, SessionStep

LEMMA SendStep ==
  ASSUME SessionInv, StreamInv, NEW t \in Tasks, SendRecord(t)
  PROVE  StreamInv'
<1>1. /\ StreamTypes /\ OnTheWay /\ EndIsLast /\ HomeOnly
      /\ Home[t] \in Sessions /\ UNCHANGED <<vars, heard, reader>>
  BY RpcSessionAssumption DEF StreamInv, SendRecord
<1>2. CASE UNCHANGED <<wire, due>>
  BY <1>1, <1>2 DEF StreamInv, StreamTypes, OnTheWay, EndIsLast, HomeOnly, vars, server
<1>3. CASE /\ handler[Home[t]] = "waiting"
           /\ wire' = [wire EXCEPT ![Home[t]] = Append(@, t)]
           /\ due' = [due EXCEPT ![t] = @ + 1]
  <2>1. StreamTypes'
    BY <1>1, <1>3 DEF StreamTypes
  <2>2. /\ wire[Home[t]] \in Seq(Tasks) /\ wire'[Home[t]] = Append(wire[Home[t]], t)
        /\ \A s \in Sessions \ {Home[t]} : wire'[s] = wire[s]
        /\ due'[t] = due[t] + 1 /\ \A u \in Tasks \ {t} : due'[u] = due[u]
    BY <1>1, <1>3 DEF StreamTypes
  <2>3. ASSUME NEW u \in Tasks PROVE due'[u] = heard'[u] + Count(wire'[Home[u]], u)
    <3>1. /\ due[u] = heard[u] + Count(wire[Home[u]], u) /\ Home[u] \in Sessions
          /\ due[u] \in Nat /\ heard[u] \in Nat /\ wire[Home[u]] \in Seq(Tasks) /\ heard'[u] = heard[u]
      BY <1>1, RpcSessionAssumption DEF OnTheWay, StreamTypes
    <3>2. Count(wire[Home[u]], u) \in Nat
      BY <3>1, CountAppend
    <3>3. CASE Home[u] = Home[t]
      <4>1. Count(Append(wire[Home[t]], t), u) = Count(wire[Home[t]], u) + IF t = u THEN 1 ELSE 0
        BY <2>2, CountAppend
      <4>2. Count(wire'[Home[u]], u) = Count(wire[Home[u]], u) + IF t = u THEN 1 ELSE 0
        BY <2>2, <3>3, <4>1, Zenon
      <4> QED
        BY <2>2, <3>1, <3>2, <4>2
    <3>4. CASE Home[u] # Home[t]
      BY <2>2, <3>1, <3>4
    <3> QED
      BY <3>3, <3>4
  <2>4. EndIsLast'
    <3>1. reader[Home[t]] = "ended" => cancelled
      BY <1>1, <1>3 DEF EndIsLast
    <3> QED
      BY <1>1, <2>2, <3>1 DEF EndIsLast, vars, server
  <2>5. ASSUME NEW s \in Sessions, NEW i \in DOMAIN wire'[s] PROVE Home[wire'[s][i]] = s
    <3>1. CASE s = Home[t]
      <4>1. /\ DOMAIN wire'[s] = 1..Len(wire[s]) + 1 /\ DOMAIN wire[s] = 1..Len(wire[s])
            /\ wire'[s][Len(wire[s]) + 1] = t
            /\ \A j \in 1..Len(wire[s]) : wire'[s][j] = wire[s][j]
        BY <2>2, <3>1
      <4> QED
        BY <1>1, <3>1, <4>1 DEF HomeOnly
    <3>2. CASE s # Home[t]
      BY <1>1, <2>2, <3>2 DEF HomeOnly
    <3> QED
      BY <3>1, <3>2
  <2> QED
    BY <2>1, <2>3, <2>4, <2>5 DEF StreamInv, OnTheWay, HomeOnly
<1> QED
  BY <1>2, <1>3 DEF SendRecord

LEMMA ReceiveStep ==
  ASSUME SessionInv, StreamInv, NEW s \in Sessions, Receive(s)
  PROVE  StreamInv'
<1> DEFINE t == Head(wire[s])
<1>1. /\ StreamTypes /\ OnTheWay /\ EndIsLast /\ HomeOnly
      /\ reader[s] = "reading" /\ wire[s] # <<>> /\ UNCHANGED <<vars, due, reader>>
      /\ wire' = [wire EXCEPT ![s] = Tail(@)] /\ heard' = [heard EXCEPT ![t] = @ + 1]
  BY DEF StreamInv, Receive
<1>2. wire[s] \in Seq(Tasks) /\ t \in Tasks /\ Tail(wire[s]) \in Seq(Tasks)
  BY <1>1 DEF StreamTypes
<1>3. Home[t] = s
  <2>1. 1 \in DOMAIN wire[s] /\ t = wire[s][1]
    BY <1>1, <1>2
  <2> QED
    BY <1>1, <2>1 DEF HomeOnly
<1>4. StreamTypes'
  BY <1>1, <1>2 DEF StreamTypes
<1>5. /\ wire'[s] = Tail(wire[s]) /\ \A r \in Sessions \ {s} : wire'[r] = wire[r]
      /\ heard'[t] = heard[t] + 1 /\ \A u \in Tasks \ {t} : heard'[u] = heard[u]
  BY <1>1, <1>2 DEF StreamTypes
<1> HIDE DEF t
<1>6. ASSUME NEW u \in Tasks PROVE due'[u] = heard'[u] + Count(wire'[Home[u]], u)
  <2>1. /\ due[u] = heard[u] + Count(wire[Home[u]], u) /\ Home[u] \in Sessions
        /\ due[u] \in Nat /\ heard[u] \in Nat /\ wire[Home[u]] \in Seq(Tasks) /\ due'[u] = due[u]
    BY <1>1, RpcSessionAssumption DEF OnTheWay, StreamTypes
  <2>2. CASE Home[u] = s
    <3>1. Count(wire[s], u) = Count(Tail(wire[s]), u) + IF t = u THEN 1 ELSE 0
      BY <1>1, <1>2, CountTail DEF t
    <3>2. Count(Tail(wire[s]), u) \in Nat
      BY <1>2, CountAppend
    <3> QED
      BY <1>5, <2>1, <2>2, <3>1, <3>2
  <2>3. CASE Home[u] # s
    BY <1>3, <1>5, <2>1, <2>3
  <2> QED
    BY <2>2, <2>3
<1>7. EndIsLast'
  BY <1>1, <1>5 DEF EndIsLast, vars, server
<1>8. ASSUME NEW r \in Sessions, NEW i \in DOMAIN wire'[r] PROVE Home[wire'[r][i]] = r
  <2>1. CASE r = s
    <3>1. /\ Len(wire[s]) \in Nat /\ DOMAIN wire[s] = 1..Len(wire[s])
          /\ DOMAIN Tail(wire[s]) = 1..Len(wire[s]) - 1
          /\ \A j \in 1..Len(wire[s]) - 1 : Tail(wire[s])[j] = wire[s][j + 1]
      BY <1>1, <1>2
    <3>2. i \in 1..Len(wire[s]) - 1
      BY <1>5, <1>8, <2>1, <3>1
    <3>3. i + 1 \in DOMAIN wire[s] /\ wire'[s][i] = wire[s][i + 1]
      BY <1>5, <3>1, <3>2
    <3> QED
      BY <1>1, <2>1, <3>3 DEF HomeOnly
  <2>2. CASE r # s
    BY <1>1, <1>5, <1>8, <2>2 DEF HomeOnly
  <2> QED
    BY <2>1, <2>2
<1> QED
  BY <1>4, <1>6, <1>7, <1>8 DEF StreamInv, OnTheWay, HomeOnly

LEMMA StreamInvStep == SessionInv /\ StreamInv /\ [LogsNext]_logVars => StreamInv'
<1> SUFFICES ASSUME SessionInv, StreamInv, [LogsNext]_logVars PROVE StreamInv'
  OBVIOUS
<1>1. /\ cancelled => cancelled'
      /\ \A s \in Sessions : handler[s] = "ended" => handler'[s] = "ended"
  BY LogsStep, EndedStays
<1>2. ASSUME UNCHANGED <<due, heard, wire, reader>> PROVE StreamInv'
  BY <1>1, <1>2 DEF StreamInv, StreamTypes, OnTheWay, EndIsLast, HomeOnly
<1>3. ASSUME NEW s \in Sessions, StartReader(s) PROVE StreamInv'
  <2>1. /\ client[s] = "opening" /\ UNCHANGED <<due, heard, wire, cancelled>>
        /\ reader' = [reader EXCEPT ![s] = IF client'[s] = "open" THEN "reading" ELSE @]
    BY <1>3 DEF StartReader, Opened
  <2>2. reader' \in [Sessions -> {"none", "reading", "ended"}]
        /\ \A r \in Sessions : reader'[r] = "ended" => reader[r] = "ended"
    BY <2>1 DEF StreamInv, StreamTypes
  <2> QED
    BY <1>1, <2>1, <2>2 DEF StreamInv, StreamTypes, OnTheWay, EndIsLast, HomeOnly
<1>4. ASSUME NEW s \in Sessions, StreamEnds(s) PROVE StreamInv'
  <2>1. /\ UNCHANGED <<due, heard, wire, vars>> /\ reader' = [reader EXCEPT ![s] = "ended"]
        /\ (handler[s] = "ended" /\ wire[s] = <<>>) \/ cancelled
    BY <1>4 DEF StreamEnds
  <2>2. reader' \in [Sessions -> {"none", "reading", "ended"}]
        /\ \A r \in Sessions \ {s} : reader'[r] = reader[r]
    BY <2>1 DEF StreamInv, StreamTypes
  <2>3. handler' = handler /\ cancelled' = cancelled
    BY <2>1 DEF vars, server
  <2> QED
    BY <2>1, <2>2, <2>3 DEF StreamInv, StreamTypes, OnTheWay, EndIsLast, HomeOnly
<1>5. CASE \/ \E s \in Sessions :
                \/ (OpenSession(s) \/ InnerLogs(s) \/ CloseSession(s)) /\ UNCHANGED logs
                \/ OtherSessionStep(s)
           \/ \E t \in Tasks : Execute(t) /\ UNCHANGED logs
           \/ Cancel /\ UNCHANGED logs
           \/ UNCHANGED logVars
  BY <1>2, <1>5 DEF OtherSessionStep, logs, logVars
<1>6. ASSUME NEW t \in Tasks, TaskLogStep(t) \/ Log(t), ~SendRecord(t) PROVE StreamInv'
  BY <1>2, <1>6 DEF TaskLogStep, Log, OpenFiles, WriteText, WriteJSON, Cleanup, logs
<1> QED
  BY <1>3, <1>4, <1>5, <1>6, SendStep, ReceiveStep DEF LogsNext, ReaderStep, TaskLogStep

RecordsHeard ==
  \A t \in Tasks :
    /\ heard[t] <= due[t]
    /\ reader[Home[t]] = "ended" /\ ~cancelled => heard[t] = due[t]

(* The client logs no record twice, and when it has read a stream to its   *)
(* end it has logged every record that the stream took, unless the build   *)
(* was cancelled.                                                          *)
THEOREM RecordsAreHeard == LogsSpec => []RecordsHeard
<1>1. StreamInv => RecordsHeard
  <2> SUFFICES ASSUME StreamInv, NEW t \in Tasks
               PROVE  /\ heard[t] <= due[t]
                      /\ reader[Home[t]] = "ended" /\ ~cancelled => heard[t] = due[t]
    BY DEF RecordsHeard
  <2>1. /\ Home[t] \in Sessions /\ wire[Home[t]] \in Seq(Tasks)
        /\ heard[t] \in Nat /\ due[t] \in Nat /\ due[t] = heard[t] + Count(wire[Home[t]], t)
    BY RpcSessionAssumption DEF StreamInv, StreamTypes, OnTheWay
  <2>2. Count(wire[Home[t]], t) \in Nat
    BY <2>1, CountAppend
  <2>3. reader[Home[t]] = "ended" /\ ~cancelled => Count(wire[Home[t]], t) = 0
    BY <2>1, CountEmpty DEF StreamInv, EndIsLast
  <2> QED
    BY <2>1, <2>2, <2>3
<1> QED
  BY <1>1, InitStreamInv, StreamInvStep, SessionInvCorrect, PTL DEF LogsSpec

=============================================================================
