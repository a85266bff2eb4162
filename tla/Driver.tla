------------------------------- MODULE Driver -------------------------------
(***************************************************************************)
(* pkg/driver/driver.go: Run starts plugins, registers executors, opens    *)
(* each session and executes its tasks, and closes the sessions.           *)
(*                                                                         *)
(* A session is opened in, executed by and closed in the executors below   *)
(* the plugin manager's router, under the router's read lock, which        *)
(* OpenSession and CloseSession take twice.  The layers in between pass    *)
(* calls on (Scheduler, Observable and Statecheck model what they add).    *)
(* Command.tla has the command that calls Run, and the next-state relation.*)
(***************************************************************************)
EXTENDS PluginManager

CONSTANTS
  Sessions,
  Tasks,      \* the Callers of the manager: one goroutine each
  Home        \* the session of each task

ASSUME DriverAssumption == Tasks = Callers /\ Home \in [Tasks -> Sessions]

VARIABLES
  phase,     \* where Run is
  todo,      \* what the loop of this phase has still to visit
  session,   \* the session Run is busy with
  rest,      \* executors ForEachExecutor has still to visit
  broken,    \* has an OpenSession of this session failed?
  err,       \* has anything failed?
  opened,    \* the executors in which each session is open
  task,      \* where each task is
  on         \* the executors that execute it: one, or none

run == <<phase, todo, session, rest, broken, err>>
work == <<opened, task, on>>
vars == <<manager, run, work>>

None == Free

Init ==
  /\ ManagerInit
  /\ phase = "starting"
  /\ todo = {}
  /\ session = None
  /\ rest = {}
  /\ broken = FALSE
  /\ err = FALSE
  /\ opened = [s \in Sessions |-> {}]
  /\ task = [t \in Tasks |-> "idle"]
  /\ on = [t \in Tasks |-> {}]

-----------------------------------------------------------------------------
(* Executors.                                                              *)

Starting(p) == StartPlugin(p) /\ UNCHANGED <<run, work>>

StartPluginsReturns ==
  /\ phase = "starting"
  /\ AllStarted
  /\ err' = StartFailed
  /\ phase' = IF StartFailed THEN "failed" ELSE "registering"
  /\ todo' = asked \cap Static
  /\ UNCHANGED <<manager, session, rest, broken, work>>

AnnounceExecutor ==
  /\ phase = "registering"
  /\ todo # {}
  /\ Announce(Main)
  /\ UNCHANGED <<plugins, readers, run, work>>

RegisterExecutor(exec) ==
  /\ phase = "registering"
  /\ exec \in todo
  /\ Exclusive(Main)
  /\ registered' = IF Taken(exec) THEN registered ELSE registered \cup {exec}
  /\ err' = (err \/ Taken(exec))
  /\ todo' = todo \ {exec}
  /\ writer' = Free
  /\ UNCHANGED <<asked, starter, running, mu, readers,
                 phase, session, rest, broken, work>>

AllRegistered ==
  /\ phase = "registering"
  /\ todo = {}
  /\ phase' = IF err THEN "failed" ELSE "sessions"
  /\ todo' = Sessions
  /\ UNCHANGED <<manager, session, rest, broken, err, work>>

-----------------------------------------------------------------------------
(* Sessions.                                                               *)

PickSession(s) ==
  /\ phase \in {"sessions", "closing"}
  /\ s \in todo
  /\ session' = s
  /\ todo' = todo \ {s}
  /\ broken' = FALSE
  /\ phase' = IF phase = "sessions" THEN "open" ELSE "close"
  /\ UNCHANGED <<manager, rest, err, work>>

(* Router.OpenSession and CloseSession take the read lock, and then        *)
(* ForEachExecutor does.                                                   *)
ReadLock ==
  /\ phase \in {"open", "close"}
  /\ readers[Main] < 2
  /\ RLock(Main)
  /\ rest' = registered
  /\ UNCHANGED <<plugins, writer, phase, todo, session, broken, err, work>>

Iterating == readers[Main] = 2

ReadUnlock == readers' = [readers EXCEPT ![Main] = 0]

(* An error is kept, and the other executors are still visited.            *)
OpenIn(exec) ==
  /\ phase = "open"
  /\ Iterating
  /\ exec \in rest
  /\ rest' = rest \ {exec}
  /\ \/ /\ opened' = [opened EXCEPT ![session] = @ \cup {exec}]
        /\ UNCHANGED broken
     \/ broken' = TRUE /\ UNCHANGED opened
  /\ UNCHANGED <<manager, phase, todo, session, err, task, on>>

(* Mistake: the tasks of a session that failed to open are executed.       *)
OpenedRegardless ==
  /\ phase = "open"
  /\ Iterating
  /\ rest = {}
  /\ ReadUnlock
  /\ err' = (err \/ broken)
  /\ phase' = "execute"
  /\ task' = [t \in Tasks |-> IF Home[t] = session THEN "ready" ELSE task[t]]
  /\ UNCHANGED <<plugins, writer, todo, session, rest, broken, opened, on>>

(* OpenSession returns; on success ExecuteMany starts the session's tasks. *)
Opened ==
  /\ phase = "open"
  /\ Iterating
  /\ rest = {}
  /\ ReadUnlock
  /\ err' = (err \/ broken)
  /\ IF broken
     THEN phase' = "sessions" /\ UNCHANGED task
     ELSE /\ phase' = "execute"
          /\ task' = [t \in Tasks |->
                        IF Home[t] = session THEN "ready" ELSE task[t]]
  /\ UNCHANGED <<plugins, writer, todo, session, rest, broken, opened, on>>

(* Router.Execute: under a read lock, some child of the router, or none.   *)
Execute(t) ==
  /\ task[t] = "ready"
  /\ RLock(t)
  /\ task' = [task EXCEPT ![t] = "executing"]
  /\ \E child \in {{}} \cup {{exec} : exec \in registered} :
       on' = [on EXCEPT ![t] = child]
  /\ UNCHANGED <<plugins, writer, run, opened>>

(* Mistake: the read lock is not given back on an error.                   *)
ExecutedKeepsLock(t) ==
  /\ task[t] = "executing"
  /\ \E failed \in BOOLEAN :
       /\ on[t] = {} => failed
       /\ task' = [task EXCEPT ![t] = IF failed THEN "failed" ELSE "done"]
       /\ readers' = IF failed THEN readers ELSE [readers EXCEPT ![t] = 0]
  /\ on' = [on EXCEPT ![t] = {}]
  /\ UNCHANGED <<plugins, writer, run, opened>>

Executed(t) ==
  /\ task[t] = "executing"
  /\ \E failed \in BOOLEAN :
       /\ on[t] = {} => failed
       /\ task' = [task EXCEPT ![t] = IF failed THEN "failed" ELSE "done"]
  /\ readers' = [readers EXCEPT ![t] = 0]
  /\ on' = [on EXCEPT ![t] = {}]
  /\ UNCHANGED <<plugins, writer, run, opened>>

(* ExecuteMany returns when every task has ended (Scheduler).              *)
ExecuteManyReturns ==
  /\ phase = "execute"
  /\ \A t \in Tasks : Home[t] = session => task[t] \in {"done", "failed"}
  /\ err' = (err \/ \E t \in Tasks : Home[t] = session /\ task[t] = "failed")
  /\ phase' = "sessions"
  /\ UNCHANGED <<manager, todo, session, rest, broken, work>>

(* An error ends Run here, with the sessions as they are.                  *)
AllExecuted ==
  /\ phase = "sessions"
  /\ todo = {}
  /\ phase' = IF err THEN "failed" ELSE "closing"
  /\ todo' = Sessions
  /\ UNCHANGED <<manager, session, rest, broken, err, work>>

CloseIn(exec) ==
  /\ phase = "close"
  /\ Iterating
  /\ exec \in rest
  /\ rest' = rest \ {exec}
  /\ opened' = [opened EXCEPT ![session] = @ \ {exec}]
  /\ UNCHANGED <<manager, phase, todo, session, broken, err, task, on>>

Closed ==
  /\ phase = "close"
  /\ Iterating
  /\ rest = {}
  /\ ReadUnlock
  /\ phase' = "closing"
  /\ UNCHANGED <<plugins, writer, todo, session, rest, broken, err, work>>

Finish ==
  /\ phase = "closing"
  /\ todo = {}
  /\ phase' = "ok"
  /\ UNCHANGED <<manager, todo, session, rest, broken, err, work>>

RunStep ==
  \/ StartPluginsReturns \/ AnnounceExecutor \/ AllRegistered
  \/ ReadLock \/ Opened \/ ExecuteManyReturns \/ AllExecuted \/ Closed \/ Finish
  \/ \E s \in Sessions : PickSession(s)
  \/ \E exec \in Executors :
       RegisterExecutor(exec) \/ OpenIn(exec) \/ CloseIn(exec)

-----------------------------------------------------------------------------
Phases == {"starting", "registering", "sessions", "open", "execute",
           "closing", "close", "ok", "failed"}

(* Types, and that a goroutine holds the read lock just while it is in the  *)
(* router.                                                                 *)
TypeOK ==
  /\ ManagerTypeOK
  /\ phase \in Phases
  /\ todo \subseteq Static \cup Sessions
  /\ session \in Sessions \cup {None}
  /\ rest \subseteq registered
  /\ broken \in BOOLEAN /\ err \in BOOLEAN
  /\ opened \in [Sessions -> SUBSET Executors]
  /\ task \in [Tasks -> {"idle", "ready", "executing", "done", "failed"}]
  /\ on \in [Tasks -> SUBSET Executors]
  /\ phase \notin {"open", "close"} => readers[Main] = 0
  /\ \A t \in Tasks : readers[t] = IF task[t] = "executing" THEN 1 ELSE 0

(* A plugin process that runs can be reached by tasks, or is about to be;  *)
(* one whose name was taken lingers, but then Run says that it failed.     *)
RunningIsReachable ==
  /\ \A p \in running :
       \/ p \in registered
       \/ starter[p] \in {"launched", "locked", "registering"}
       \/ starter[p] = "failed" /\ Taken(p)
  /\ phase \notin {"starting", "failed"} =>
       asked \cap Plugins = running \cap registered

(* A task is executed only where its session is open, and when Run returns *)
(* without an error no session is open anywhere.                           *)
SessionsPaired ==
  /\ \A t \in Tasks : on[t] \subseteq opened[Home[t]]
  /\ phase = "ok" => \A s \in Sessions : opened[s] = {}
=============================================================================
