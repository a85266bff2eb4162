---------------------------- MODULE SessionLogs ----------------------------
(***************************************************************************)
(* What tasks log in a plugin's process (pkg/executor/plugin, and the log  *)
(* streaming of pkg/executor/rpc).                                         *)
(*                                                                         *)
(* Plugin.Execute opens two log files for the task and puts a logger in    *)
(* its context that fans a record out to them and, from level info on, to  *)
(* the stream of the session.  Nothing orders the sends of tasks that run  *)
(* at the same time, which gRPC does not allow: what becomes of records    *)
(* that are sent together is open.  The client logs what it receives until *)
(* the stream ends.                                                        *)
(***************************************************************************)
EXTENDS RpcSession

CONSTANT MaxRecords   \* bound on the records of a task

ASSUME LogsAssumption == MaxRecords \in Nat

VARIABLES
  files,    \* log files of each task: none, text, both, closed, or leaked
  record,   \* where the record is that the task logs, if it does, and its level
  kept,     \* number of records in each of its files
  due,      \* number of records for the stream that the stream has taken
  garbled,  \* tasks whose records were sent together with another's
  wire,     \* tasks whose records the client has not come to, by session
  heard,    \* number of records of each task that the client has logged
  reader    \* the client's handleLogStreaming of each session

logs == <<files, record, kept, due, garbled, wire, heard, reader>>
logVars == <<vars, logs>>

NoRecord == [at |-> "none", level |-> "debug"]

LogsInit ==
  /\ Init
  /\ files = [t \in Tasks |-> "none"]
  /\ record = [t \in Tasks |-> NoRecord]
  /\ kept = [t \in Tasks |-> [text |-> 0, json |-> 0]]
  /\ due = [t \in Tasks |-> 0] /\ heard = [t \in Tasks |-> 0]
  /\ garbled = {}
  /\ wire = [s \in Sessions |-> <<>>]
  /\ reader = [s \in Sessions |-> "none"]

-----------------------------------------------------------------------------
(* Plugin.Execute.                                                         *)

(* getTaskLoggingContext, whose failure is that of the task.  When the      *)
(* second file cannot be created the first stays open.                     *)
OpenFiles(t) ==
  /\ call[t] = "executing"
  /\ \/ files[t] = "none" /\ files' \in {[files EXCEPT ![t] = f] : f \in {"text", "closed"}}
     \/ files[t] = "text" /\ files' \in {[files EXCEPT ![t] = f] : f \in {"both", "leaked"}}
  /\ UNCHANGED <<vars, record, kept, due, garbled, wire, heard, reader>>

Log(t) ==
  /\ call[t] = "executing" /\ files[t] = "both" /\ record[t] = NoRecord
  /\ kept[t].text < MaxRecords
  /\ \E level \in {"debug", "info"} : record' = [record EXCEPT ![t] = [at |-> "text", level |-> level]]
  /\ UNCHANGED <<vars, files, kept, due, garbled, wire, heard, reader>>

(* Fanout: one handler after the other.                                    *)
WriteText(t) ==
  /\ record[t].at = "text"
  /\ kept' = [kept EXCEPT ![t].text = @ + 1]
  /\ record' = [record EXCEPT ![t].at = "json"]
  /\ UNCHANGED <<vars, files, due, garbled, wire, heard, reader>>

Sending(t) == record[t].at = "sending"

Together(t) == \E u \in Tasks \ {t} : Home[u] = Home[t] /\ Sending(u)

WriteJSON(t) ==
  /\ record[t].at = "json"
  /\ kept' = [kept EXCEPT ![t].json = @ + 1]
  /\ record' = [record EXCEPT ![t] = IF @.level = "info" THEN [@ EXCEPT !.at = "sending"] ELSE NoRecord]
  /\ garbled' = IF record[t].level = "info" /\ Together(t)
                THEN garbled \cup {u \in Tasks : Home[u] = Home[t] /\ (u = t \/ Sending(u))}
                ELSE garbled
  /\ UNCHANGED <<vars, files, due, wire, heard, reader>>

(* stream.Send, whose error nobody looks at, on a stream that is open.     *)
SendRecord(t) ==
  /\ Sending(t)
  /\ record' = [record EXCEPT ![t] = NoRecord]
  /\ \/ /\ handler[Home[t]] = "waiting"
        /\ wire' = [wire EXCEPT ![Home[t]] = Append(@, t)]
        /\ due' = [due EXCEPT ![t] = @ + 1]
     \/ /\ handler[Home[t]] # "waiting" \/ t \in garbled \/ cancelled
        /\ UNCHANGED <<wire, due>>
  /\ UNCHANGED <<vars, files, kept, garbled, heard, reader>>

(* Mistake: the files are closed only when the task has succeeded.         *)
CleanupNot(t) ==
  /\ call[t] = "executing" /\ record[t] = NoRecord
  /\ files[t] \in {"both", "closed", "leaked"}
  /\ InnerExecuted(t)
  /\ files' = [files EXCEPT ![t] = IF @ = "both" /\ answer'[t] = "ok" THEN "closed" ELSE @]
  /\ UNCHANGED <<record, kept, due, garbled, wire, heard, reader>>

(* The router's Execute has returned.  Without both files it was not called *)
(* and the task fails; otherwise they are closed, and an error of that is  *)
(* one of the task.                                                        *)
Cleanup(t) ==
  /\ call[t] = "executing" /\ record[t] = NoRecord
  /\ files[t] \in {"both", "closed", "leaked"}
  /\ InnerExecuted(t)
  /\ files[t] # "both" => answer'[t] # "ok"
  /\ files' = [files EXCEPT ![t] = IF @ = "both" THEN "closed" ELSE @]
  /\ UNCHANGED <<record, kept, due, garbled, wire, heard, reader>>

-----------------------------------------------------------------------------
(* The client.                                                             *)

(* OpenSession starts handleLogStreaming after the acknowledgement.        *)
StartReader(s) ==
  /\ Opened(s)
  /\ reader' = [reader EXCEPT ![s] = IF client'[s] = "open" THEN "reading" ELSE @]
  /\ UNCHANGED <<files, record, kept, due, garbled, wire, heard>>

Receive(s) ==
  /\ reader[s] = "reading" /\ wire[s] # <<>>
  /\ wire' = [wire EXCEPT ![s] = Tail(@)]
  /\ heard' = [heard EXCEPT ![Head(wire[s])] = @ + 1]
  /\ UNCHANGED <<vars, files, record, kept, due, garbled, reader>>

(* Mistake: reading ends with the session, not with the stream.            *)
StreamEndsEarly(s) ==
  /\ reader[s] = "reading"
  /\ handler[s] = "ended" \/ cancelled
  /\ reader' = [reader EXCEPT ![s] = "ended"]
  /\ UNCHANGED <<vars, files, record, kept, due, garbled, wire, heard>>

(* EOF comes after what was sent; a context that is done ends it at once.  *)
StreamEnds(s) ==
  /\ reader[s] = "reading"
  /\ (handler[s] = "ended" /\ wire[s] = <<>>) \/ cancelled
  /\ reader' = [reader EXCEPT ![s] = "ended"]
  /\ UNCHANGED <<vars, files, record, kept, due, garbled, wire, heard>>

-----------------------------------------------------------------------------
OtherSessionStep(s) ==
  /\ \/ InnerOpened(s) \/ SendAck(s) \/ Register(s)
     \/ LookupClosing(s) \/ Signal(s) \/ InnerClosed(s) \/ Unregister(s) \/ Closed(s)
  /\ UNCHANGED logs

ReaderStep(s) == Receive(s) \/ StreamEnds(s)

TaskLogStep(t) ==
  \/ (Lookup(t) \/ GiveUp(t)) /\ UNCHANGED logs
  \/ OpenFiles(t) \/ WriteText(t) \/ WriteJSON(t) \/ SendRecord(t) \/ Cleanup(t)

LogsNext ==
  \/ \E s \in Sessions :
       \/ (OpenSession(s) \/ InnerLogs(s) \/ CloseSession(s)) /\ UNCHANGED logs
       \/ OtherSessionStep(s) \/ StartReader(s) \/ ReaderStep(s)
  \/ \E t \in Tasks : (Execute(t) /\ UNCHANGED logs) \/ TaskLogStep(t) \/ Log(t)
  \/ Cancel /\ UNCHANGED logs

(* Handlers run, gRPC delivers, the client reads its streams, and the      *)
(* plugin's executor returns.                                              *)
LogsSpec ==
  /\ LogsInit /\ [][LogsNext]_logVars
  /\ \A s \in Sessions :
       /\ WF_logVars(OtherSessionStep(s)) /\ WF_logVars(StartReader(s))
       /\ WF_logVars(ReaderStep(s))
  /\ \A t \in Tasks : WF_logVars(TaskLogStep(t))
-----------------------------------------------------------------------------
(* Properties.                                                             *)

(* When a task has been answered its log files are closed, and both have    *)
(* all of its records; only a task whose second file could not be created  *)
(* leaves one open, without a record, and fails.                           *)
LogsKept ==
  \A t \in Tasks : call[t] = "ended" =>
    /\ kept[t].text = kept[t].json /\ record[t] = NoRecord
    /\ files[t] \in {"none", "closed", "leaked"}
    /\ files[t] = "leaked" => kept[t].text = 0 /\ answer[t] # "ok"

(* A record that the stream took while nothing else was sent is logged by   *)
(* the client, unless the build was cancelled.                             *)
RecordsArrive ==
  \A t \in Tasks :
    due[t] > heard[t] ~> heard[t] = due[t] \/ cancelled \/ t \in garbled
=============================================================================
