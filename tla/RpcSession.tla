----------------------------- MODULE RpcSession -----------------------------
(***************************************************************************)
(* pkg/executor/rpc: an executor that runs in a plugin's process.          *)
(*                                                                         *)
(* A session is a streaming call: the server's handler opens the session   *)
(* in the plugin's executor, sends an acknowledgement, enters the session  *)
(* in a map and waits on a channel.  ExecuteTask and CloseSession are      *)
(* calls of their own, each with a handler of its own that looks the       *)
(* session up; CloseSession wakes the first handler through the channel.   *)
(* The stream also carries the log records of the session.                 *)
(*                                                                         *)
(* The client is called the way driver.Run does it: open a session, run    *)
(* its tasks, go on to the next one, and close them all in the end, unless *)
(* anything failed.  The build may be cancelled at any time: the client's  *)
(* calls then return, while the server's handlers go on.                   *)
(***************************************************************************)
EXTENDS Naturals, Sequences, FiniteSets

CONSTANTS
  Sessions,  \* task.SessionID values, each opened at most once
  Tasks,     \* calls of Execute
  Home       \* the session of each task

ASSUME RpcSessionAssumption == Home \in [Tasks -> Sessions]

VARIABLES
  client,      \* the client's progress with each session
  handler,     \* the server's OpenSession handler of each session
  stream,      \* messages of each stream before the client has opened it
  sessions,    \* grpcServer.sessions
  inner,       \* the session in the plugin's executor
  call,        \* the server's ExecuteTask handler of each task
  answer,      \* what Execute has returned to the client's caller
  closing,     \* the server's CloseSession handler of each session
  closed,      \* what CloseSession has returned to the client
  cancelled    \* has the build's context been cancelled?

server == <<handler, sessions, inner, call, closing>>
vars == <<client, stream, answer, closed, cancelled, server>>

-----------------------------------------------------------------------------
Init ==
  /\ client = [s \in Sessions |-> "none"]
  /\ handler = [s \in Sessions |-> "none"]
  /\ stream = [s \in Sessions |-> <<>>]
  /\ sessions = {}
  /\ inner = [s \in Sessions |-> "none"]
  /\ call = [t \in Tasks |-> "none"]
  /\ answer = [t \in Tasks |-> "none"]
  /\ closing = [s \in Sessions |-> "none"]
  /\ closed = [s \in Sessions |-> "none"]
  /\ cancelled = FALSE

Pending(t) == call[t] # "none" /\ answer[t] = "none"

(* ExecuteMany has returned.                                               *)
NothingPending == \A t \in Tasks : ~Pending(t)

(* No call of OpenSession or CloseSession is under way.                    *)
NothingMoving == \A s \in Sessions : client[s] \notin {"opening", "closing"}

-----------------------------------------------------------------------------
(* OpenSession.                                                            *)

OpenSession(s) ==
  /\ client[s] = "none" /\ NothingPending /\ NothingMoving
  /\ \A r \in Sessions : client[r] # "closed"
  /\ ~cancelled
  /\ client' = [client EXCEPT ![s] = "opening"]
  /\ handler' = [handler EXCEPT ![s] = "opening"]
  /\ UNCHANGED <<stream, sessions, inner, call, answer, closing, closed, cancelled>>

(* The plugin's executor logs while it opens the session, through the      *)
(* logger that the handler has put in its context.                         *)
InnerLogs(s) ==
  /\ handler[s] = "opening" /\ stream[s] = <<>> /\ client[s] = "opening"
  /\ stream' = [stream EXCEPT ![s] = <<"log">>]
  /\ UNCHANGED <<client, answer, closed, cancelled, server>>

InnerOpened(s) ==
  /\ handler[s] = "opening"
  /\ \/ /\ inner' = [inner EXCEPT ![s] = "open"]
        /\ handler' = [handler EXCEPT ![s] = "sending"]
     \/ /\ inner' = [inner EXCEPT ![s] = "failed"]
        /\ handler' = [handler EXCEPT ![s] = "ended"]
  /\ UNCHANGED <<client, stream, sessions, call, answer, closing, closed, cancelled>>

(* Mistake: the acknowledgement is sent again and again.                   *)
SendAckAgain(s) ==
  /\ handler[s] = "sending"
  /\ stream' = [stream EXCEPT ![s] = Append(@, "ack")]
  /\ UNCHANGED <<client, answer, closed, cancelled, server>>

(* Once the stream is cancelled, sending may fail.                         *)
SendAck(s) ==
  /\ handler[s] = "sending"
  /\ \/ /\ stream' = [stream EXCEPT ![s] = Append(@, "ack")]
        /\ handler' = [handler EXCEPT ![s] = "acked"]
     \/ /\ cancelled
        /\ handler' = [handler EXCEPT ![s] = "ended"]
        /\ UNCHANGED stream
  /\ UNCHANGED <<client, sessions, inner, call, answer, closing, closed, cancelled>>

(* Mistakes: the session is not entered; the handler does not wait.        *)
RegisterNot(s) ==
  /\ handler[s] = "acked"
  /\ handler' = [handler EXCEPT ![s] = "waiting"]
  /\ UNCHANGED <<client, stream, sessions, inner, call, answer, closing, closed, cancelled>>

RegisterAndEnd(s) ==
  /\ handler[s] = "acked"
  /\ sessions' = sessions \cup {s}
  /\ handler' = [handler EXCEPT ![s] = "ended"]
  /\ UNCHANGED <<client, stream, inner, call, answer, closing, closed, cancelled>>

(* Enter the session in the map and wait on its channel.                   *)
Register(s) ==
  /\ handler[s] = "acked"
  /\ sessions' = sessions \cup {s}
  /\ handler' = [handler EXCEPT ![s] = "waiting"]
  /\ UNCHANGED <<client, stream, inner, call, answer, closing, closed, cancelled>>

(* The client takes the first message, whatever it is.                     *)
Opened(s) ==
  /\ client[s] = "opening"
  /\ \/ /\ stream[s] # <<>>
        /\ client' = [client EXCEPT ![s] = IF Head(stream[s]) = "ack" THEN "open" ELSE "failed"]
     \/ /\ (stream[s] = <<>> /\ handler[s] = "ended") \/ cancelled
        /\ client' = [client EXCEPT ![s] = "failed"]
  /\ UNCHANGED <<stream, answer, closed, cancelled, server>>

-----------------------------------------------------------------------------
(* Execute.                                                                *)

Execute(t) ==
  /\ client[Home[t]] = "open" /\ call[t] = "none" /\ NothingMoving
  /\ \A s \in Sessions : client[s] # "closed"
  /\ call' = [call EXCEPT ![t] = "sent"]
  /\ UNCHANGED <<client, handler, stream, sessions, inner, answer, closing, closed, cancelled>>

(* The handler's response; a client that has given up does not see it.     *)
Respond(t, a) ==
  /\ call' = [call EXCEPT ![t] = "ended"]
  /\ answer' = [answer EXCEPT ![t] = IF @ = "none" THEN a ELSE @]

Lookup(t) ==
  /\ call[t] = "sent"
  /\ IF Home[t] \in sessions
     THEN call' = [call EXCEPT ![t] = "executing"] /\ UNCHANGED answer
     ELSE Respond(t, "unopened session")
  /\ UNCHANGED <<client, handler, stream, sessions, inner, closing, closed, cancelled>>

(* s.executor.Execute returned.                                            *)
InnerExecuted(t) ==
  /\ call[t] = "executing"
  /\ \E a \in {"ok", "error"} : Respond(t, a)
  /\ UNCHANGED <<client, handler, stream, sessions, inner, closing, closed, cancelled>>

(* gRPC gives up a call whose context is done; its handler does not see it.*)
GiveUp(t) ==
  /\ cancelled /\ Pending(t)
  /\ answer' = [answer EXCEPT ![t] = "cancelled"]
  /\ UNCHANGED <<client, stream, closed, cancelled, server>>

-----------------------------------------------------------------------------
(* CloseSession.                                                           *)

(* driver.Run closes sessions if all were opened and no task failed.       *)
Succeeded ==
  /\ \A s \in Sessions : client[s] \in {"open", "closing", "closed"}
  /\ \A t \in Tasks : answer[t] \in {"none", "ok"}

(* Mistake: the driver does not wait for its tasks.                        *)
CloseAtOnce(s) ==
  /\ client[s] = "open" /\ NothingMoving /\ Succeeded
  /\ client' = [client EXCEPT ![s] = "closing"]
  /\ closing' = [closing EXCEPT ![s] = "sent"]
  /\ UNCHANGED <<handler, stream, sessions, inner, call, answer, closed, cancelled>>

CloseSession(s) ==
  /\ client[s] = "open" /\ NothingMoving /\ NothingPending /\ Succeeded
  /\ client' = [client EXCEPT ![s] = "closing"]
  /\ closing' = [closing EXCEPT ![s] = "sent"]
  /\ UNCHANGED <<handler, stream, sessions, inner, call, answer, closed, cancelled>>

LookupClosing(s) ==
  /\ closing[s] = "sent"
  /\ closing' = [closing EXCEPT ![s] = IF s \in sessions THEN "signalling" ELSE "refused"]
  /\ UNCHANGED <<client, handler, stream, sessions, inner, call, answer, closed, cancelled>>

(* An unbuffered channel: the sender and the waiting handler meet.         *)
Signal(s) ==
  /\ closing[s] = "signalling" /\ handler[s] = "waiting"
  /\ closing' = [closing EXCEPT ![s] = "signalled"]
  /\ handler' = [handler EXCEPT ![s] = "ended"]
  /\ UNCHANGED <<client, stream, sessions, inner, call, answer, closed, cancelled>>

(* Mistake: the plugin's executor is not told.                             *)
InnerForgotten(s) ==
  /\ closing[s] = "signalled"
  /\ closing' = [closing EXCEPT ![s] = "innerClosed"]
  /\ UNCHANGED <<client, handler, stream, sessions, inner, call, answer, closed, cancelled>>

InnerClosed(s) ==
  /\ closing[s] = "signalled"
  /\ inner' = [inner EXCEPT ![s] = "closed"]
  /\ closing' = [closing EXCEPT ![s] = "innerClosed"]
  /\ UNCHANGED <<client, handler, stream, sessions, call, answer, closed, cancelled>>

Unregister(s) ==
  /\ closing[s] = "innerClosed"
  /\ sessions' = sessions \ {s}
  /\ closing' = [closing EXCEPT ![s] = "ok"]
  /\ UNCHANGED <<client, handler, stream, inner, call, answer, closed, cancelled>>

(* The client's call returns; it logs an error and has none to return.     *)
Closed(s) ==
  /\ client[s] = "closing"
  /\ \/ /\ closing[s] \in {"ok", "refused"}
        /\ closed' = [closed EXCEPT ![s] = closing[s]]
     \/ /\ cancelled
        /\ closed' = [closed EXCEPT ![s] = "cancelled"]
  /\ client' = [client EXCEPT ![s] = "closed"]
  /\ UNCHANGED <<stream, answer, cancelled, server>>

-----------------------------------------------------------------------------
Cancel ==
  /\ ~cancelled
  /\ cancelled' = TRUE
  /\ UNCHANGED <<client, stream, answer, closed, server>>

(* What a handler or a pending call of the client does next.               *)
SessionStep(s) ==
  \/ InnerOpened(s) \/ SendAck(s) \/ Register(s) \/ Opened(s)
  \/ LookupClosing(s) \/ Signal(s) \/ InnerClosed(s) \/ Unregister(s) \/ Closed(s)

TaskStep(t) == Lookup(t) \/ InnerExecuted(t) \/ GiveUp(t)

Next ==
  \/ \E s \in Sessions : OpenSession(s) \/ InnerLogs(s) \/ CloseSession(s) \/ SessionStep(s)
  \/ \E t \in Tasks : Execute(t) \/ TaskStep(t)
  \/ Cancel

Spec == Init /\ [][Next]_vars

-----------------------------------------------------------------------------
(* Properties.                                                             *)

Response == {"none", "ok", "error", "unopened session", "cancelled"}

TypeOK ==
  /\ client \in [Sessions -> {"none", "opening", "open", "failed", "closing", "closed"}]
  /\ handler \in [Sessions -> {"none", "opening", "sending", "acked", "waiting", "ended"}]
  /\ stream \in [Sessions -> {<<>>, <<"log">>, <<"ack">>, <<"log", "ack">>}]
  /\ sessions \subseteq Sessions
  /\ inner \in [Sessions -> {"none", "open", "failed", "closed"}]
  /\ call \in [Tasks -> {"none", "sent", "executing", "ended"}]
  /\ answer \in [Tasks -> Response]
  /\ closing \in [Sessions ->
       {"none", "sent", "signalling", "signalled", "innerClosed", "ok", "refused"}]
  /\ closed \in [Sessions -> {"none", "ok", "refused", "cancelled"}]
  /\ cancelled \in BOOLEAN

(* The plugin's executor executes a task only in a session it has opened   *)
(* and not yet closed, also when the client has given tasks up.            *)
ExecutesInOpenSession ==
  \A t \in Tasks : call[t] = "executing" => inner[Home[t]] = "open"

(* A task of an open session is told "unopened session id" only between    *)
(* the acknowledgement and the handler's next step.                        *)
RefusedOnlyEarly ==
  [][\A t \in Tasks :
       (answer[t] = "none" /\ answer'[t] = "unopened session") => handler[Home[t]] = "acked"]_vars

(* A close that the server accepted leaves nothing of the session: not in  *)
(* the map, not in the executor, and no handler that waits.  Otherwise it  *)
(* may stay open in the plugin when its client has failed to open it, or   *)
(* has closed it, for one of these causes: the executor logged before the  *)
(* acknowledgement, the build was cancelled, or the close came before the  *)
(* session was in the map.                                                 *)
LeaksHaveCause ==
  \A s \in Sessions :
    /\ closed[s] = "ok" => s \notin sessions /\ inner[s] = "closed" /\ handler[s] = "ended"
    /\ (client[s] \in {"failed", "closed"} /\ inner[s] = "open") =>
         \/ client[s] = "failed" /\ stream[s] # <<>> /\ Head(stream[s]) = "log"
         \/ cancelled
         \/ closed[s] = "refused"

(* Every call of the client's returns.                                     *)
CallsReturn ==
  /\ \A s \in Sessions : client[s] = "opening" ~> client[s] # "opening"
  /\ \A s \in Sessions : client[s] = "closing" ~> client[s] = "closed"
  /\ \A t \in Tasks : Pending(t) ~> ~Pending(t)

(* "CloseSession shuts down and frees all resources created over the       *)
(* course of a session" (executor.go): when CloseSession of a build that   *)
(* was not cancelled has returned, the plugin's executor has been told.    *)
CloseFrees ==
  \A s \in Sessions : (client[s] = "closed" /\ ~cancelled) => inner[s] = "closed"
=============================================================================
