---------------------------- MODULE DriverProofs ----------------------------
(***************************************************************************)
(* Proofs about Driver, Command and Shutdown, for any plugins, executors,   *)
(* sessions and tasks.                                                     *)
(***************************************************************************)
EXTENDS Command, TLAPS

-----------------------------------------------------------------------------
(* The inductive invariant of driver.Run.                                  *)

(* The state of a StartPlugin says which locks it holds, and whether its   *)
(* process runs.                                                           *)
StarterOK(p) ==
  /\ starter[p] = "idle" <=> p \notin asked
  /\ p \in running <=> \/ starter[p] \in {"launched", "locked", "registering", "started"}
                       \/ starter[p] = "failed" /\ p \in running
  /\ starter[p] = "started" => p \in registered
  /\ starter[p] = "failed" /\ p \in running => Taken(p)
  /\ mu = p <=> starter[p] \in {"locked", "registering"}
  /\ writer = p <=> starter[p] = "registering"

(* Nobody writes to the router once executors are registered.              *)
PhaseOK ==
  /\ phase # "starting" => AllStarted
  /\ phase \notin {"starting", "failed"} => ~StartFailed
  /\ phase = "registering" => todo \subseteq asked \cap Static
  /\ phase \notin {"starting", "registering", "failed"} => todo \subseteq Sessions
  /\ phase \in {"open", "execute", "close"} => session \in Sessions /\ session \notin todo
  /\ phase = "ok" => todo = {}
  /\ writer = Main => phase = "registering" /\ todo # {}
  /\ writer \notin Callers

(* How far the loops over executors have opened or closed a session.       *)
SessionsOK ==
  /\ \A s \in Sessions : opened[s] \subseteq registered
  /\ phase = "open" /\ Iterating /\ ~broken => registered \subseteq rest \cup opened[session]
  /\ phase = "execute" => registered \subseteq opened[session]
  /\ phase = "close" /\ Iterating => opened[session] \subseteq rest
  /\ phase \in {"closing", "ok"} => \A s \in Sessions \ todo : opened[s] = {}
  /\ phase = "close" => \A s \in Sessions \ (todo \cup {session}) : opened[s] = {}

TaskOK(t) ==
  /\ task[t] \in {"ready", "executing"} => phase = "execute" /\ Home[t] = session
  /\ on[t] # {} => task[t] = "executing" /\ on[t] \subseteq registered

DriverInv ==
  /\ TypeOK
  /\ \A p \in Plugins : StarterOK(p)
  /\ PhaseOK
  /\ SessionsOK
  /\ \A t \in Tasks : TaskOK(t)

LEMMA Distinct ==
  /\ Main \in Goroutines /\ Main \notin Plugins /\ Main \notin Tasks
  /\ Plugins \subseteq Goroutines /\ Tasks \subseteq Goroutines /\ Plugins \cap Tasks = {}
  /\ Tasks = Callers /\ Free \notin Plugins \cup Tasks \cup {Main} /\ Plugins \subseteq Executors
  /\ Static \subseteq Executors /\ Plugins \cap Static = {}
  /\ \A t \in Tasks : Home[t] \in Sessions
BY PluginManagerAssumption, DriverAssumption DEF Goroutines, Executors

LEMMA InitDriverInv == Init => DriverInv
<1> SUFFICES ASSUME Init PROVE DriverInv
  OBVIOUS
<1> USE Distinct
<1>1. TypeOK
  <2>1. ManagerTypeOK
    <3>1. asked \subseteq Executors /\ registered \subseteq asked /\ running \subseteq asked \cap Plugins
      BY DEF Init, ManagerInit
    <3>2. readers \in [Goroutines -> 0..2]
      BY DEF Init, ManagerInit
    <3> QED
      BY <3>1, <3>2 DEF Init, ManagerInit, ManagerTypeOK
  <2>2. readers[Main] = 0 /\ \A t \in Tasks : readers[t] = 0 /\ task[t] = "idle"
    BY DEF Init, ManagerInit
  <2> QED
    BY <2>1, <2>2 DEF Init, TypeOK, Phases, None
<1>2. ASSUME NEW p \in Plugins PROVE StarterOK(p)
  BY DEF Init, ManagerInit, StarterOK
<1>3. PhaseOK
  BY DEF Init, ManagerInit, PhaseOK
<1>4. SessionsOK
  BY DEF Init, SessionsOK
<1>5. ASSUME NEW t \in Tasks PROVE TaskOK(t)
  BY DEF Init, TaskOK
<1> QED
  BY <1>1, <1>2, <1>3, <1>4, <1>5 DEF DriverInv

-----------------------------------------------------------------------------
(* StartPlugin.                                                            *)

(* What a step of StartPlugin leaves alone.                                *)
StarterFrame(p) ==
  /\ UNCHANGED <<asked, readers, run, work>>
  /\ running \subseteq running' /\ running' \subseteq running \cup {p}
  /\ registered \subseteq registered' /\ registered' \subseteq registered \cup {p}
  /\ \A q \in Plugins \ {p} :
       starter'[q] = starter[q] /\ (mu' = q <=> mu = q) /\ (writer' = q <=> writer = q)

LEMMA StarterStep ==
  ASSUME DriverInv, NEW p \in Plugins, starter[p] \notin {"idle", "started", "failed"},
         StarterFrame(p), ManagerTypeOK', StarterOK(p)', writer' = writer \/ writer' \in {p, Free}
  PROVE  DriverInv'
<1> USE Distinct
<1>1. phase = "starting" /\ phase' = "starting"
  BY DEF DriverInv, PhaseOK, AllStarted, StarterFrame, run
<1>2. TypeOK'
  BY <1>1 DEF DriverInv, TypeOK, StarterFrame, run, work
<1>3. ASSUME NEW q \in Plugins PROVE StarterOK(q)'
  BY DEF DriverInv, StarterOK, StarterFrame, Taken
<1>4. PhaseOK'
  BY <1>1 DEF DriverInv, PhaseOK, StarterFrame, run
<1>5. SessionsOK'
  BY <1>1 DEF DriverInv, SessionsOK, StarterFrame, run, work
<1>6. ASSUME NEW t \in Tasks PROVE TaskOK(t)'
  BY <1>1 DEF DriverInv, TaskOK, StarterFrame, run, work
<1> QED
  BY <1>2, <1>3, <1>4, <1>5, <1>6 DEF DriverInv

LEMMA StartingStep ==
  ASSUME DriverInv, NEW p \in Plugins, Starting(p)
  PROVE  DriverInv'
<1> USE Distinct
<1>1. /\ ManagerTypeOK /\ StarterOK(p) /\ \A q \in Plugins : StarterOK(q)
      /\ UNCHANGED <<run, work>>
  BY DEF DriverInv, TypeOK, Starting
<1>2. CASE Launch(p)
  <2>1. p \in asked
    BY <1>1, <1>2 DEF Launch, StarterOK
  <2>2. ManagerTypeOK' /\ StarterOK(p)' /\ StarterFrame(p)
    BY <1>1, <1>2, <2>1 DEF Launch, ManagerTypeOK, StarterOK, StarterFrame, Taken
  <2> QED
    BY <1>2, <2>2, StarterStep DEF Launch
<1>3. CASE LaunchFails(p)
  <2>1. ManagerTypeOK' /\ StarterOK(p)' /\ StarterFrame(p)
    BY <1>1, <1>3 DEF LaunchFails, ManagerTypeOK, StarterOK, StarterFrame, Taken
  <2> QED
    BY <1>3, <2>1, StarterStep DEF LaunchFails
<1>4. CASE LockManager(p)
  <2>1. ManagerTypeOK' /\ StarterOK(p)' /\ StarterFrame(p)
    BY <1>1, <1>4 DEF LockManager, ManagerTypeOK, StarterOK, StarterFrame, Taken
  <2> QED
    BY <1>4, <2>1, StarterStep DEF LockManager
<1>5. CASE AnnouncePlugin(p)
  <2>1. ManagerTypeOK' /\ StarterOK(p)' /\ StarterFrame(p)
    BY <1>1, <1>5 DEF AnnouncePlugin, Announce, ManagerTypeOK, StarterOK, StarterFrame, Taken
  <2> QED
    BY <1>5, <2>1, StarterStep DEF AnnouncePlugin, Announce
<1>6. CASE RegisterPlugin(p)
  <2>1. p \in asked /\ writer = p /\ mu = p
    BY <1>1, <1>6 DEF RegisterPlugin, StarterOK
  <2>2. StarterFrame(p)
    BY <1>1, <1>6, <2>1 DEF RegisterPlugin, ManagerTypeOK, StarterFrame
  <2>3. ManagerTypeOK'
    BY <1>1, <1>6, <2>1 DEF RegisterPlugin, ManagerTypeOK
  <2>4. StarterOK(p)'
    BY <1>1, <1>6, <2>1 DEF RegisterPlugin, ManagerTypeOK, StarterOK, Taken
  <2> QED
    BY <1>6, <2>2, <2>3, <2>4, StarterStep DEF RegisterPlugin
<1> QED
  BY <1>2, <1>3, <1>4, <1>5, <1>6 DEF Starting, StartPlugin

-----------------------------------------------------------------------------
(* Run.                                                                    *)

LEMMA StartersStay ==
  ASSUME DriverInv, UNCHANGED <<asked, starter, running, registered, mu, writer>>
  PROVE  /\ \A p \in Plugins : StarterOK(p)'
         /\ AllStarted' <=> AllStarted
         /\ StartFailed' <=> StartFailed
BY DEF DriverInv, StarterOK, AllStarted, StartFailed, Taken

LEMMA StartPluginsReturnsStep ==
  ASSUME DriverInv, StartPluginsReturns
  PROVE  DriverInv'
<1> USE Distinct DEF StartPluginsReturns, manager, plugins, work
<1>1. TypeOK'
  BY DEF DriverInv, TypeOK, ManagerTypeOK, Phases, StartFailed
<1>2. \A p \in Plugins : StarterOK(p)'
  BY StartersStay
<1>3. PhaseOK'
  BY StartersStay DEF DriverInv, TypeOK, PhaseOK
<1>4. SessionsOK'
  BY DEF DriverInv, SessionsOK
<1>5. \A t \in Tasks : TaskOK(t)'
  BY DEF DriverInv, TaskOK
<1> QED
  BY <1>1, <1>2, <1>3, <1>4, <1>5 DEF DriverInv

LEMMA AnnounceExecutorStep ==
  ASSUME DriverInv, AnnounceExecutor
  PROVE  DriverInv'
<1> USE Distinct DEF AnnounceExecutor, Announce, plugins, run, work
<1>1. TypeOK'
  BY DEF DriverInv, TypeOK, ManagerTypeOK
<1>2. \A p \in Plugins : StarterOK(p)'
  BY DEF DriverInv, StarterOK, Taken
<1>3. PhaseOK'
  BY DEF DriverInv, PhaseOK, AllStarted, StartFailed
<1>4. SessionsOK'
  BY DEF DriverInv, SessionsOK
<1>5. \A t \in Tasks : TaskOK(t)'
  BY DEF DriverInv, TaskOK
<1> QED
  BY <1>1, <1>2, <1>3, <1>4, <1>5 DEF DriverInv

LEMMA RegisterExecutorStep ==
  ASSUME DriverInv, NEW exec \in Executors, RegisterExecutor(exec)
  PROVE  DriverInv'
<1> USE Distinct
<1>1. exec \in asked \cap Static /\ registered \subseteq registered'
      /\ registered' \subseteq registered \cup {exec}
  BY DEF DriverInv, PhaseOK, RegisterExecutor
<1>2. TypeOK'
  <2>1. err' \in BOOLEAN
    BY Zenon DEF RegisterExecutor
  <2>2. ManagerTypeOK'
    BY <1>1 DEF DriverInv, TypeOK, ManagerTypeOK, RegisterExecutor
  <2> QED
    BY <1>1, <2>1, <2>2 DEF DriverInv, TypeOK, RegisterExecutor, work
<1>3. \A p \in Plugins : StarterOK(p)'
  BY <1>1 DEF DriverInv, StarterOK, Taken, RegisterExecutor, Exclusive
<1>4. PhaseOK'
  BY DEF DriverInv, PhaseOK, AllStarted, StartFailed, RegisterExecutor
<1>5. SessionsOK'
  BY <1>1 DEF DriverInv, SessionsOK, RegisterExecutor, work
<1>6. \A t \in Tasks : TaskOK(t)'
  BY <1>1 DEF DriverInv, TaskOK, RegisterExecutor, work
<1> QED
  BY <1>2, <1>3, <1>4, <1>5, <1>6 DEF DriverInv

LEMMA AllRegisteredStep ==
  ASSUME DriverInv, AllRegistered
  PROVE  DriverInv'
<1> USE Distinct DEF AllRegistered, manager, plugins, work
<1>1. TypeOK'
  BY DEF DriverInv, TypeOK, ManagerTypeOK, Phases, Iterating, ReadUnlock, RLock
<1>2. \A p \in Plugins : StarterOK(p)'
  BY StartersStay
<1>3. PhaseOK'
  BY StartersStay DEF DriverInv, TypeOK, PhaseOK
<1>4. SessionsOK'
  BY DEF DriverInv, TypeOK, ManagerTypeOK, SessionsOK, PhaseOK, Iterating, ReadUnlock, RLock
<1>5. \A t \in Tasks : TaskOK(t)'
  BY DEF DriverInv, TypeOK, TaskOK
<1> QED
  BY <1>1, <1>2, <1>3, <1>4, <1>5 DEF DriverInv

LEMMA PickSessionStep ==
  ASSUME DriverInv, NEW s \in Sessions, PickSession(s)
  PROVE  DriverInv'
<1> USE Distinct DEF PickSession, manager, plugins, work
<1>1. TypeOK'
  BY DEF DriverInv, TypeOK, ManagerTypeOK, Phases, Iterating, ReadUnlock, RLock
<1>2. \A p \in Plugins : StarterOK(p)'
  BY StartersStay
<1>3. PhaseOK'
  BY StartersStay DEF DriverInv, TypeOK, PhaseOK
<1>4. SessionsOK'
  BY DEF DriverInv, TypeOK, ManagerTypeOK, SessionsOK, PhaseOK, Iterating, ReadUnlock, RLock
<1>5. \A t \in Tasks : TaskOK(t)'
  BY DEF DriverInv, TypeOK, TaskOK
<1> QED
  BY <1>1, <1>2, <1>3, <1>4, <1>5 DEF DriverInv

LEMMA ReadLockStep ==
  ASSUME DriverInv, ReadLock
  PROVE  DriverInv'
<1> USE Distinct DEF ReadLock, manager, plugins, work
<1>1. TypeOK'
  BY DEF DriverInv, TypeOK, ManagerTypeOK, Phases, Iterating, ReadUnlock, RLock
<1>2. \A p \in Plugins : StarterOK(p)'
  BY StartersStay
<1>3. PhaseOK'
  BY StartersStay DEF DriverInv, TypeOK, PhaseOK
<1>4. SessionsOK'
  BY DEF DriverInv, TypeOK, ManagerTypeOK, SessionsOK, PhaseOK, Iterating, ReadUnlock, RLock
<1>5. \A t \in Tasks : TaskOK(t)'
  BY DEF DriverInv, TypeOK, TaskOK
<1> QED
  BY <1>1, <1>2, <1>3, <1>4, <1>5 DEF DriverInv

LEMMA OpenInStep ==
  ASSUME DriverInv, NEW exec \in Executors, OpenIn(exec)
  PROVE  DriverInv'
<1> USE Distinct DEF OpenIn, manager, plugins, work
<1>1. TypeOK'
  <2>1. opened' \in [Sessions -> SUBSET Executors]
    BY DEF DriverInv, TypeOK
  <2>2. broken' \in BOOLEAN
    BY DEF DriverInv, TypeOK
  <2> QED
    BY <2>1, <2>2 DEF DriverInv, TypeOK, ManagerTypeOK
<1>2. \A p \in Plugins : StarterOK(p)'
  BY StartersStay
<1>3. PhaseOK'
  BY StartersStay DEF DriverInv, TypeOK, PhaseOK
<1>4. SessionsOK'
  BY DEF DriverInv, TypeOK, ManagerTypeOK, SessionsOK, PhaseOK, Iterating, ReadUnlock, RLock
<1>5. \A t \in Tasks : TaskOK(t)'
  BY DEF DriverInv, TypeOK, TaskOK
<1> QED
  BY <1>1, <1>2, <1>3, <1>4, <1>5 DEF DriverInv

LEMMA OpenedStep ==
  ASSUME DriverInv, Opened
  PROVE  DriverInv'
<1> USE Distinct DEF Opened, manager, plugins, work
<1>1. TypeOK'
  <2>1. err' \in BOOLEAN
    BY Zenon DEF Opened
  <2>2. ManagerTypeOK' /\ readers'[Main] = 0 /\ \A t \in Tasks : readers'[t] = readers[t]
    BY DEF DriverInv, TypeOK, ManagerTypeOK, ReadUnlock
  <2>3. task' \in [Tasks -> {"idle", "ready", "executing", "done", "failed"}]
    BY DEF DriverInv, TypeOK
  <2>4. \A t \in Tasks : task'[t] = "executing" <=> task[t] = "executing"
    BY DEF DriverInv, TypeOK, TaskOK
  <2>5. phase' \in Phases
    BY DEF Phases
  <2> QED
    BY <2>1, <2>2, <2>3, <2>4, <2>5 DEF DriverInv, TypeOK
<1>2. \A p \in Plugins : StarterOK(p)'
  BY StartersStay
<1>3. PhaseOK'
  BY StartersStay DEF DriverInv, TypeOK, PhaseOK
<1>4. SessionsOK'
  BY DEF DriverInv, TypeOK, ManagerTypeOK, SessionsOK, PhaseOK, Iterating, ReadUnlock, RLock
<1>5. \A t \in Tasks : TaskOK(t)'
  BY DEF DriverInv, TypeOK, TaskOK
<1> QED
  BY <1>1, <1>2, <1>3, <1>4, <1>5 DEF DriverInv

LEMMA ExecuteManyReturnsStep ==
  ASSUME DriverInv, ExecuteManyReturns
  PROVE  DriverInv'
<1> USE Distinct DEF ExecuteManyReturns, manager, plugins, work
<1>1. TypeOK'
  BY DEF DriverInv, TypeOK, ManagerTypeOK, Phases, Iterating, ReadUnlock, RLock
<1>2. \A p \in Plugins : StarterOK(p)'
  BY StartersStay
<1>3. PhaseOK'
  BY StartersStay DEF DriverInv, TypeOK, PhaseOK
<1>4. SessionsOK'
  BY DEF DriverInv, TypeOK, ManagerTypeOK, SessionsOK, PhaseOK, Iterating, ReadUnlock, RLock
<1>5. \A t \in Tasks : TaskOK(t)'
  BY DEF DriverInv, TypeOK, TaskOK
<1> QED
  BY <1>1, <1>2, <1>3, <1>4, <1>5 DEF DriverInv

LEMMA AllExecutedStep ==
  ASSUME DriverInv, AllExecuted
  PROVE  DriverInv'
<1> USE Distinct DEF AllExecuted, manager, plugins, work
<1>1. TypeOK'
  BY DEF DriverInv, TypeOK, ManagerTypeOK, Phases, Iterating, ReadUnlock, RLock
<1>2. \A p \in Plugins : StarterOK(p)'
  BY StartersStay
<1>3. PhaseOK'
  BY StartersStay DEF DriverInv, TypeOK, PhaseOK
<1>4. SessionsOK'
  BY DEF DriverInv, TypeOK, ManagerTypeOK, SessionsOK, PhaseOK, Iterating, ReadUnlock, RLock
<1>5. \A t \in Tasks : TaskOK(t)'
  BY DEF DriverInv, TypeOK, TaskOK
<1> QED
  BY <1>1, <1>2, <1>3, <1>4, <1>5 DEF DriverInv

LEMMA CloseInStep ==
  ASSUME DriverInv, NEW exec \in Executors, CloseIn(exec)
  PROVE  DriverInv'
<1> USE Distinct DEF CloseIn, manager, plugins, work
<1>1. TypeOK'
  BY DEF DriverInv, TypeOK, ManagerTypeOK, Phases, Iterating, ReadUnlock, RLock
<1>2. \A p \in Plugins : StarterOK(p)'
  BY StartersStay
<1>3. PhaseOK'
  BY StartersStay DEF DriverInv, TypeOK, PhaseOK
<1>4. SessionsOK'
  BY DEF DriverInv, TypeOK, ManagerTypeOK, SessionsOK, PhaseOK, Iterating, ReadUnlock, RLock
<1>5. \A t \in Tasks : TaskOK(t)'
  BY DEF DriverInv, TypeOK, TaskOK
<1> QED
  BY <1>1, <1>2, <1>3, <1>4, <1>5 DEF DriverInv

LEMMA ClosedStep ==
  ASSUME DriverInv, Closed
  PROVE  DriverInv'
<1> USE Distinct DEF Closed, manager, plugins, work
<1>1. TypeOK'
  BY DEF DriverInv, TypeOK, ManagerTypeOK, Phases, Iterating, ReadUnlock, RLock
<1>2. \A p \in Plugins : StarterOK(p)'
  BY StartersStay
<1>3. PhaseOK'
  BY StartersStay DEF DriverInv, TypeOK, PhaseOK
<1>4. SessionsOK'
  BY DEF DriverInv, TypeOK, ManagerTypeOK, SessionsOK, PhaseOK, Iterating, ReadUnlock, RLock
<1>5. \A t \in Tasks : TaskOK(t)'
  BY DEF DriverInv, TypeOK, TaskOK
<1> QED
  BY <1>1, <1>2, <1>3, <1>4, <1>5 DEF DriverInv

LEMMA FinishStep ==
  ASSUME DriverInv, Finish
  PROVE  DriverInv'
<1> USE Distinct DEF Finish, manager, plugins, work
<1>1. TypeOK'
  BY DEF DriverInv, TypeOK, ManagerTypeOK, Phases, Iterating, ReadUnlock, RLock
<1>2. \A p \in Plugins : StarterOK(p)'
  BY StartersStay
<1>3. PhaseOK'
  BY StartersStay DEF DriverInv, TypeOK, PhaseOK
<1>4. SessionsOK'
  BY DEF DriverInv, TypeOK, ManagerTypeOK, SessionsOK, PhaseOK, Iterating, ReadUnlock, RLock
<1>5. \A t \in Tasks : TaskOK(t)'
  BY DEF DriverInv, TypeOK, TaskOK
<1> QED
  BY <1>1, <1>2, <1>3, <1>4, <1>5 DEF DriverInv

-----------------------------------------------------------------------------
(* Tasks.                                                                  *)

LEMMA ExecuteStep ==
  ASSUME DriverInv, NEW t \in Tasks, Execute(t)
  PROVE  DriverInv'
<1> USE Distinct
<1>1. PICK child \in {{}} \cup {{exec} : exec \in registered} : on' = [on EXCEPT ![t] = child]
  BY DEF Execute
<1>2. child \subseteq registered
  OBVIOUS
<1>3. /\ task[t] = "ready" /\ task' = [task EXCEPT ![t] = "executing"]
      /\ readers' = [readers EXCEPT ![t] = @ + 1] /\ UNCHANGED <<plugins, writer, run, opened>>
  BY DEF Execute, RLock
<1>4. TypeOK'
  <2>1. readers[t] = 0 /\ registered \subseteq Executors
    BY <1>3 DEF DriverInv, TypeOK, ManagerTypeOK
  <2>2. on' \in [Tasks -> SUBSET Executors]
    BY <1>1, <1>2, <2>1 DEF DriverInv, TypeOK
  <2>3. readers' = [readers EXCEPT ![t] = 1] /\ readers' \in [Goroutines -> 0..2]
    BY <1>3, <2>1 DEF DriverInv, TypeOK, ManagerTypeOK
  <2>4. ManagerTypeOK'
    BY <1>3, <2>3 DEF DriverInv, TypeOK, ManagerTypeOK, plugins
  <2>5. \A u \in Tasks : readers'[u] = IF task'[u] = "executing" THEN 1 ELSE 0
    BY <1>3, <2>3 DEF DriverInv, TypeOK, ManagerTypeOK
  <2>6. readers'[Main] = readers[Main]
    BY <2>3 DEF DriverInv, TypeOK, ManagerTypeOK
  <2> QED
    BY <1>3, <2>2, <2>4, <2>5, <2>6 DEF DriverInv, TypeOK, plugins, run
<1>5. \A p \in Plugins : StarterOK(p)'
  BY <1>3, StartersStay DEF plugins
<1>6. PhaseOK'
  BY <1>3, StartersStay DEF DriverInv, PhaseOK, plugins, run
<1>7. SessionsOK'
  BY <1>3 DEF DriverInv, TypeOK, ManagerTypeOK, SessionsOK, Iterating, plugins, run
<1>8. \A u \in Tasks : TaskOK(u)'
  BY <1>1, <1>2, <1>3 DEF DriverInv, TypeOK, TaskOK, plugins, run
<1> QED
  BY <1>4, <1>5, <1>6, <1>7, <1>8 DEF DriverInv

LEMMA ExecutedStep ==
  ASSUME DriverInv, NEW t \in Tasks, Executed(t)
  PROVE  DriverInv'
<1> USE Distinct
<1>1. PICK end \in {"failed", "done"} : task' = [task EXCEPT ![t] = end]
  BY DEF Executed
<1>2. /\ task[t] = "executing" /\ on' = [on EXCEPT ![t] = {}]
      /\ readers' = [readers EXCEPT ![t] = 0] /\ UNCHANGED <<plugins, writer, run, opened>>
  BY DEF Executed
<1>3. TypeOK'
  BY <1>1, <1>2 DEF DriverInv, TypeOK, ManagerTypeOK, plugins, run
<1>4. \A p \in Plugins : StarterOK(p)'
  BY <1>2, StartersStay DEF plugins
<1>5. PhaseOK'
  BY <1>2, StartersStay DEF DriverInv, PhaseOK, plugins, run
<1>6. SessionsOK'
  BY <1>2 DEF DriverInv, TypeOK, ManagerTypeOK, SessionsOK, Iterating, plugins, run
<1>7. \A u \in Tasks : TaskOK(u)'
  BY <1>1, <1>2 DEF DriverInv, TypeOK, TaskOK, plugins, run
<1> QED
  BY <1>3, <1>4, <1>5, <1>6, <1>7 DEF DriverInv

LEMMA DriverStays ==
  ASSUME DriverInv, UNCHANGED vars
  PROVE  DriverInv'
<1> USE DEF vars, manager, plugins, run, work
<1>1. TypeOK'
  BY DEF DriverInv, TypeOK, ManagerTypeOK
<1>2. \A p \in Plugins : StarterOK(p)'
  BY StartersStay
<1>3. PhaseOK'
  BY StartersStay DEF DriverInv, PhaseOK
<1>4. SessionsOK'
  BY DEF DriverInv, SessionsOK, Iterating
<1>5. \A t \in Tasks : TaskOK(t)'
  BY DEF DriverInv, TaskOK
<1> QED
  BY <1>1, <1>2, <1>3, <1>4, <1>5 DEF DriverInv

LEMMA RunStepDriverInv ==
  ASSUME DriverInv, RunStep
  PROVE  DriverInv'
BY StartPluginsReturnsStep, AnnounceExecutorStep, RegisterExecutorStep, AllRegisteredStep,
   PickSessionStep, ReadLockStep, OpenInStep, OpenedStep, ExecuteManyReturnsStep,
   AllExecutedStep, CloseInStep, ClosedStep, FinishStep DEF RunStep

-----------------------------------------------------------------------------
(* The command and its display.                                            *)

(* A message that a session's tasks have sent is delivered before the      *)
(* session is closed, so that there is none when the driver has succeeded. *)
Delivered ==
  /\ phase \in {"closing", "ok"} => \A s \in Sessions \ todo : Waiter(s) = {}
  /\ phase = "close" => \A s \in Sessions \ (todo \cup {session}) : Waiter(s) = {}
  /\ phase = "close" /\ readers[Main] > 0 => Waiter(session) = {}

CommandOK ==
  /\ cmd \in {"driver", "quit", "waiting", "ok", "failed", "crashed"}
  /\ display \in {"running", "quitting", "ended"}
  /\ notices \subseteq Msgs
  /\ printing \in Nat
  /\ cmd \in {"quit", "waiting", "ok"} => phase = "ok"
  /\ logger = "plain" => display = "ended"
  /\ display # "running" => cutShort \/ cmd \in {"waiting", "ok"}
  /\ cmd = "ok" => logger = "plain" /\ printing = 0
  /\ missed => cutShort

CommandInv == DriverInv /\ Delivered /\ CommandOK

LEMMA InitCommandInv == CommandInit => CommandInv
<1> SUFFICES ASSUME CommandInit PROVE CommandInv
  OBVIOUS
<1>1. DriverInv
  BY InitDriverInv DEF CommandInit
<1>2. Delivered
  BY DEF CommandInit, Init, Delivered
<1>3. CommandOK
  BY DEF CommandInit, CommandOK
<1> QED
  BY <1>1, <1>2, <1>3 DEF CommandInv

LEMMA AllDelivered ==
  ASSUME CommandInv, phase = "ok"
  PROVE  notices = {}
<1>1. \A s \in Sessions : Waiter(s) = {}
  BY DEF CommandInv, DriverInv, PhaseOK, Delivered
<1>2. \A n \in notices : n.task \in Tasks
  BY DEF CommandInv, CommandOK, Msgs
<1>3. \A n \in notices : n \in Waiter(Home[n.task]) /\ Home[n.task] \in Sessions
  BY <1>2, Distinct DEF Waiter
<1> QED
  BY <1>1, <1>3

LEMMA DriveStep ==
  ASSUME CommandInv, Drive
  PROVE  CommandInv'
<1> USE Distinct
<1>1. /\ DriverInv /\ Delivered /\ CommandOK
      /\ phase \notin {"ok", "failed"} /\ cmd = "driver" /\ UNCHANGED console
  BY DEF CommandInv, Drive
<1>2. DriverInv'
  BY <1>1, RunStepDriverInv, StartingStep DEF Drive
<1>3. CommandOK'
  BY <1>1 DEF CommandOK, console, screen
<1>4. \A s : Waiter(s)' = Waiter(s)
  BY <1>1 DEF Waiter, console, screen
<1>5. readers[Main] \in 0..2
  BY <1>1 DEF DriverInv, TypeOK, ManagerTypeOK
<1>6. CASE \E p \in Plugins : Starting(p)
  <2>1. phase' = phase /\ todo' = todo /\ session' = session /\ readers' = readers
    BY <1>6 DEF Starting, StartPlugin, run, Launch, LaunchFails, LockManager, AnnouncePlugin,
                RegisterPlugin
  <2> QED
    BY <1>1, <1>2, <1>3, <1>4, <2>1 DEF CommandInv, Delivered
<1>7. CASE ReadLock
  <2>1. /\ phase' = phase /\ todo' = todo /\ session' = session
        /\ readers'[Main] = readers[Main] + 1
    BY <1>1, <1>7 DEF ReadLock, RLock, DriverInv, TypeOK, ManagerTypeOK
  <2>2. phase = "close" => Waiter(session) = {}
    BY <1>1, <1>5, <2>1 DEF Delivered, Drive, Closes
  <2> QED
    BY <1>1, <1>2, <1>3, <1>4, <2>1, <2>2 DEF CommandInv, Delivered
<1>8. CASE \E s \in Sessions : PickSession(s)
  <2>1. PICK s \in Sessions : PickSession(s)
    BY <1>8
  <2>2. readers'[Main] = 0
    BY <1>1, <2>1 DEF PickSession, DriverInv, TypeOK, manager
  <2> QED
    BY <1>1, <1>2, <1>3, <1>4, <2>1, <2>2 DEF CommandInv, Delivered, PickSession
<1>9. CASE Closed
  <2>1. phase = "close" /\ phase' = "closing" /\ todo' = todo /\ readers[Main] = 2
    BY <1>9 DEF Closed, Iterating
  <2> QED
    BY <1>1, <1>2, <1>3, <1>4, <2>1 DEF CommandInv, Delivered
<1>10. CASE Finish
  <2>1. phase = "closing" /\ phase' = "ok" /\ todo' = todo
    BY <1>10 DEF Finish
  <2> QED
    BY <1>1, <1>2, <1>3, <1>4, <2>1 DEF CommandInv, Delivered
<1>11. CASE AllExecuted
  <2>1. phase' \in {"failed", "closing"} /\ todo' = Sessions
    BY <1>11 DEF AllExecuted
  <2> QED
    BY <1>1, <1>2, <1>3, <1>4, <2>1 DEF CommandInv, Delivered
<1>12. CASE \E exec \in Executors : CloseIn(exec)
  <2>1. phase' = phase /\ todo' = todo /\ session' = session /\ readers' = readers
    BY <1>12 DEF CloseIn, manager
  <2> QED
    BY <1>1, <1>2, <1>3, <1>4, <2>1 DEF CommandInv, Delivered
<1>13. CASE \/ StartPluginsReturns \/ AnnounceExecutor \/ AllRegistered \/ Opened
            \/ ExecuteManyReturns
            \/ \E exec \in Executors : RegisterExecutor(exec) \/ OpenIn(exec)
  <2>1. phase' \notin {"closing", "close", "ok"}
    BY <1>13 DEF StartPluginsReturns, AnnounceExecutor, AllRegistered, Opened, ExecuteManyReturns,
                 RegisterExecutor, OpenIn, run
  <2> QED
    BY <1>2, <1>3, <2>1 DEF CommandInv, Delivered
<1> QED
  BY <1>6, <1>7, <1>8, <1>9, <1>10, <1>11, <1>12, <1>13 DEF Drive, RunStep

LEMMA ExecutesStep ==
  ASSUME CommandInv, NEW t \in Tasks, Executes(t)
  PROVE  CommandInv'
<1>1. DriverInv' /\ task[t] \in {"ready", "executing"} /\ phase' = phase
  BY ExecuteStep, ExecutedStep DEF CommandInv, Executes, Execute, Executed, run
<1>2. phase = "execute"
  BY <1>1 DEF CommandInv, DriverInv, TaskOK
<1>3. task'[t] \in {"done", "failed"} \/ notices' = notices \cup {Msg(t, "running")}
  BY DEF Executes, Executed, CommandInv, DriverInv, TypeOK
<1>4. notices' \subseteq Msgs
  <2>1. notices' = notices \cup {Msg(t, "running")} \/ notices' = notices \cup {Msg(t, task'[t])}
    BY DEF Executes
  <2>2. \A status \in {"running", "done", "failed"} : Msg(t, status) \in Msgs
    BY DEF Msg, Msgs
  <2> QED
    BY <1>3, <2>1, <2>2 DEF CommandInv, CommandOK
<1>5. UNCHANGED <<cmd, display, logger, cutShort, missed, printing>> /\ cmd = "driver"
  BY DEF Executes
<1> QED
  BY <1>1, <1>2, <1>4, <1>5 DEF CommandInv, Delivered, CommandOK

(* The steps of the display and the command leave the driver alone.        *)
LEMMA ConsoleStep ==
  ASSUME CommandInv, UNCHANGED vars, notices' \subseteq notices, CommandOK'
  PROVE  CommandInv'
<1>1. DriverInv'
  BY DriverStays DEF CommandInv
<1>2. \A s : Waiter(s)' \subseteq Waiter(s)
  BY DEF Waiter, vars, run
<1> QED
  BY <1>1, <1>2 DEF CommandInv, Delivered, vars, manager, run

LEMMA CommandStep ==
  ASSUME CommandInv,
         Display \/ Interrupt \/ PrintInVain \/ Command \/ \E t \in Tasks : Log(t)
  PROVE  CommandInv'
<1>1. CASE \E n \in notices : Send(n)
  <2>1. PICK n \in notices : Send(n)
    BY <1>1
  <2>2. phase # "ok"
    BY <2>1, AllDelivered
  <2>3. CommandOK'
    BY <2>1, <2>2 DEF Send, CommandInv, CommandOK, vars, run
  <2> QED
    BY <2>1, <2>3, ConsoleStep DEF Send
<1>2. CASE LoopEnds
  <2>1. CommandOK'
    BY <1>2 DEF LoopEnds, CommandInv, CommandOK, vars, run
  <2> QED
    BY <1>2, <2>1, ConsoleStep DEF LoopEnds
<1>10. CASE RunFails
  <2>1. CommandOK'
    BY <1>10 DEF RunFails, CommandInv, CommandOK, vars, run
  <2> QED
    BY <1>10, <2>1, ConsoleStep DEF RunFails
<1>3. CASE Restore
  <2>1. CommandOK'
    BY <1>3 DEF Restore, CommandInv, CommandOK, vars, run
  <2> QED
    BY <1>3, <2>1, ConsoleStep DEF Restore
<1>4. CASE PrintLine \/ PrintInVain
  <2>1. CommandOK'
    BY <1>4 DEF PrintLine, PrintInVain, CommandInv, CommandOK, vars, run
  <2> QED
    BY <1>4, <2>1, ConsoleStep DEF PrintLine, PrintInVain
<1>5. CASE Interrupt
  <2>1. CommandOK'
    BY <1>5 DEF Interrupt, CommandInv, CommandOK, vars, run
  <2> QED
    BY <1>5, <2>1, ConsoleStep DEF Interrupt
<1>6. CASE DriverReturns
  <2>1. CommandOK'
    BY <1>6 DEF DriverReturns, CommandInv, CommandOK, vars, run
  <2> QED
    BY <1>6, <2>1, ConsoleStep DEF DriverReturns
<1>7. CASE Quit
  <2>1. CommandOK'
    BY <1>7 DEF Quit, CommandInv, CommandOK, vars, run
  <2> QED
    BY <1>7, <2>1, ConsoleStep DEF Quit
<1>8. CASE Wait
  <2>1. CommandOK'
    BY <1>8 DEF Wait, CommandInv, CommandOK, vars, run, screen
  <2> QED
    BY <1>8, <2>1, ConsoleStep DEF Wait, screen
<1>9. CASE \E t \in Tasks : Log(t)
  <2>1. printing' \in {printing, printing + 1} /\ cmd' \in {"driver", "crashed"} /\ cmd = "driver"
        /\ UNCHANGED <<vars, display, logger, cutShort, notices, missed>>
    BY <1>9 DEF Log
  <2>2. CommandOK'
    BY <2>1 DEF CommandInv, CommandOK, vars, run
  <2> QED
    BY <2>1, <2>2, ConsoleStep
<1> QED
  BY <1>1, <1>2, <1>3, <1>4, <1>5, <1>6, <1>7, <1>8, <1>9, <1>10 DEF Display, Command

LEMMA NextCommandInv == CommandInv /\ [CommandNext]_commandVars => CommandInv'
<1>1. ASSUME CommandInv, UNCHANGED commandVars PROVE CommandInv'
  <2>1. CommandOK'
    BY <1>1 DEF CommandInv, CommandOK, commandVars, vars, run, console, screen
  <2> QED
    BY <1>1, <2>1, ConsoleStep DEF commandVars, console, screen
<1> QED
  BY <1>1, DriveStep, ExecutesStep, CommandStep DEF CommandNext

LEMMA CommandInvCorrect == CommandSpec => []CommandInv
BY InitCommandInv, NextCommandInv, PTL DEF CommandSpec

-----------------------------------------------------------------------------
(* What follows.                                                           *)

THEOREM DriverTyped == CommandSpec => []TypeOK
<1>1. CommandInv => TypeOK
  BY DEF CommandInv, DriverInv
<1> QED
  BY <1>1, CommandInvCorrect, PTL

(* Every plugin process is one that tasks can reach, is about to be, or is *)
(* one that Run has failed for.                                            *)
THEOREM ProcessesReachable == CommandSpec => []RunningIsReachable
<1>1. CommandInv => RunningIsReachable
  <2> SUFFICES ASSUME DriverInv PROVE RunningIsReachable
    BY DEF CommandInv
  <2>1. \A p \in Plugins : StarterOK(p)
    BY DEF DriverInv
  <2>2. running \subseteq asked \cap Plugins /\ Plugins \subseteq Executors
    BY Distinct DEF DriverInv, TypeOK, ManagerTypeOK
  <2>3. \A p \in running :
          \/ p \in registered
          \/ starter[p] \in {"launched", "locked", "registering"}
          \/ starter[p] = "failed" /\ Taken(p)
    BY <2>1, <2>2 DEF StarterOK
  <2>4. ASSUME phase \notin {"starting", "failed"}
        PROVE  asked \cap Plugins = running \cap registered
    <3>1. \A p \in Plugins : starter[p] \in {"idle", "started"}
      BY <2>4 DEF DriverInv, PhaseOK, AllStarted, StartFailed
    <3> QED
      BY <2>1, <2>2, <3>1 DEF StarterOK
  <2> QED
    BY <2>3, <2>4 DEF RunningIsReachable
<1> QED
  BY <1>1, CommandInvCorrect, PTL

(* Tasks execute in executors in which their session is open, and Run      *)
(* without an error leaves no session open.                                *)
THEOREM SessionsArePaired == CommandSpec => []SessionsPaired
<1>1. CommandInv => SessionsPaired
  <2> SUFFICES ASSUME DriverInv PROVE SessionsPaired
    BY DEF CommandInv
  <2>1. ASSUME NEW t \in Tasks PROVE on[t] \subseteq opened[Home[t]]
    BY DEF DriverInv, TaskOK, SessionsOK
  <2>2. phase = "ok" => \A s \in Sessions : opened[s] = {}
    BY DEF DriverInv, PhaseOK, SessionsOK
  <2> QED
    BY <2>1, <2>2 DEF SessionsPaired
<1> QED
  BY <1>1, CommandInvCorrect, PTL

(* The command ends well only with everything shown, printed and closed.   *)
THEOREM ExitClean == CommandSpec => []ExitIsClean
<1>1. CommandInv => ExitIsClean
  <2> SUFFICES ASSUME CommandInv, cmd = "ok" PROVE ExitIsClean
    BY DEF ExitIsClean
  <2>1. phase = "ok" /\ display = "ended" /\ logger = "plain" /\ printing = 0
        /\ (missed => cutShort)
    BY DEF CommandInv, CommandOK
  <2>2. \A s \in Sessions : opened[s] = {}
    BY <2>1 DEF CommandInv, DriverInv, PhaseOK, SessionsOK
  <2> QED
    BY <2>1, <2>2, AllDelivered DEF ExitIsClean
<1> QED
  BY <1>1, CommandInvCorrect, PTL
-----------------------------------------------------------------------------
(* What keeps a command from returning.                                    *)

(* Nobody but a starting plugin has the manager's mutex, plugins do not     *)
(* read the router, the tasks of the session that is executed have all     *)
(* been started, a display that Quit has told to end does, and a logger    *)
(* calls itself only where something else had ended it.                    *)
Untangled ==
  /\ mu \in Plugins \cup {Free}
  /\ \A p \in Plugins : readers[p] = 0
  /\ phase = "execute" => \A t \in Tasks : Home[t] = session => task[t] # "idle"
  /\ cmd = "waiting" => display # "running"
  /\ cmd = "crashed" => cutShort
  /\ logger \in {"display", "plain"}

LEMMA InitUntangled == CommandInit => Untangled
BY Distinct DEF CommandInit, Init, ManagerInit, Untangled

LEMMA DriveUntangled ==
  ASSUME CommandInv, Untangled, Drive
  PROVE  Untangled'
<1> USE Distinct
<1>1. cmd = "driver" /\ cmd' = cmd /\ logger' = logger
  BY DEF Drive, console, screen
<1>2. readers \in [Goroutines -> 0..2] /\ task \in [Tasks -> {"idle", "ready", "executing", "done", "failed"}]
  BY DEF CommandInv, DriverInv, TypeOK, ManagerTypeOK
<1>3. CASE \E p \in Plugins : Starting(p)
  <2>1. PICK p \in Plugins : Starting(p)
    BY <1>3
  <2>2. mu' \in {mu, p, Free} /\ UNCHANGED <<readers, run, work>>
    BY <2>1 DEF Starting, StartPlugin, Launch, LaunchFails, LockManager, AnnouncePlugin, RegisterPlugin
  <2> QED
    BY <1>1, <2>2 DEF Untangled, run, work
<1>4. CASE RunStep
  <2>1. mu' = mu
    BY <1>4
    DEF RunStep, StartPluginsReturns, AnnounceExecutor, AllRegistered, ReadLock, Opened,
        ExecuteManyReturns, AllExecuted, Closed, Finish, PickSession, RegisterExecutor, OpenIn,
        CloseIn, manager, plugins
  <2>2. \A p \in Plugins : readers'[p] = readers[p]
    BY <1>2, <1>4
    DEF RunStep, StartPluginsReturns, AnnounceExecutor, AllRegistered, ReadLock, RLock, Opened, ReadUnlock,
        ExecuteManyReturns, AllExecuted, Closed, Finish, PickSession, RegisterExecutor, OpenIn,
        CloseIn, manager, plugins
  <2>3. CASE Opened
    BY <1>1, <1>2, <2>1, <2>2, <2>3 DEF Opened, Untangled
  <2>4. CASE ~Opened
    <3>1. phase' = "execute" => phase = "execute" /\ session' = session
      BY <1>4, <2>4
      DEF RunStep, StartPluginsReturns, AnnounceExecutor, AllRegistered, ReadLock,
          ExecuteManyReturns, AllExecuted, Closed, Finish, PickSession, RegisterExecutor, OpenIn,
          CloseIn, run
    <3>2. task' = task
      BY <1>4, <2>4
      DEF RunStep, StartPluginsReturns, AnnounceExecutor, AllRegistered, ReadLock,
          ExecuteManyReturns, AllExecuted, Closed, Finish, PickSession, RegisterExecutor, OpenIn,
          CloseIn, work
    <3> QED
      BY <1>1, <2>1, <2>2, <3>1, <3>2 DEF Untangled
  <2> QED
    BY <2>3, <2>4
<1> QED
  BY <1>3, <1>4 DEF Drive

LEMMA ExecutesUntangled ==
  ASSUME CommandInv, Untangled, NEW t \in Tasks, Executes(t)
  PROVE  Untangled'
<1> USE Distinct
<1>1. /\ readers \in [Goroutines -> 0..2]
      /\ task \in [Tasks -> {"idle", "ready", "executing", "done", "failed"}]
  BY DEF CommandInv, DriverInv, TypeOK, ManagerTypeOK
<1>2. /\ cmd' = cmd /\ cmd = "driver" /\ mu' = mu /\ phase' = phase /\ session' = session
      /\ logger' = logger
  BY DEF Executes, Execute, Executed, plugins, run
<1>3. \A p \in Plugins : readers'[p] = readers[p]
  BY <1>1 DEF Executes, Execute, Executed, RLock
<1>4. \A u \in Tasks : task'[u] = "idle" => task[u] = "idle"
  BY <1>1 DEF Executes, Execute, Executed
<1> QED
  BY <1>2, <1>3, <1>4 DEF Untangled

LEMMA ConsoleUntangled ==
  ASSUME CommandInv, Untangled,
         Display \/ Interrupt \/ PrintInVain \/ Command \/ \E t \in Tasks : Log(t)
  PROVE  Untangled'
<1>1. UNCHANGED vars
  BY DEF Display, Interrupt, PrintInVain, Command, Log, LoopEnds, RunFails, Restore, PrintLine, Send,
         DriverReturns, Quit, Wait
<1>2. cmd' = "waiting" => display' # "running"
  BY DEF Display, Interrupt, PrintInVain, Command, Log, LoopEnds, RunFails, Restore, PrintLine, Send,
         DriverReturns, Quit, Wait, Untangled, screen
<1>3. cmd' = "crashed" => cutShort'
  BY DEF Display, Interrupt, PrintInVain, Command, Log, LoopEnds, RunFails, Restore, PrintLine, Send,
         DriverReturns, Quit, Wait, Untangled, screen, CommandInv, CommandOK
<1>4. logger' \in {logger, "plain"}
  BY DEF Display, Interrupt, PrintInVain, Command, Log, LoopEnds, RunFails, Restore, PrintLine, Send,
         DriverReturns, Quit, Wait, screen
<1> QED
  BY <1>1, <1>2, <1>3, <1>4 DEF Untangled, vars, manager, plugins, run, work

LEMMA UntangledCorrect == CommandSpec => []Untangled
<1>1. Untangled /\ UNCHANGED commandVars => Untangled'
  BY DEF Untangled, commandVars, vars, manager, plugins, run, work, console, screen
<1>2. CommandInv /\ Untangled /\ [CommandNext]_commandVars => Untangled'
  BY <1>1, DriveUntangled, ExecutesUntangled, ConsoleUntangled DEF CommandNext
<1> QED
  BY <1>2, InitUntangled, CommandInvCorrect, PTL DEF CommandSpec

(* A starting plugin's next step, the driver's, a task's, the display's and *)
(* the command's: what each has to wait for.                               *)
CanStart(p) ==
  \/ starter[p] = "launching"
  \/ starter[p] = "launched" /\ mu = Free
  \/ starter[p] = "locked" /\ writer = Free
  \/ starter[p] = "registering" /\ Exclusive(p)

CanRun ==
  \/ phase = "starting" /\ AllStarted
  \/ phase = "registering" /\ (todo = {} \/ writer = Free \/ Exclusive(Main))
  \/ phase \in {"sessions", "closing"}
  \/ phase \in {"open", "close"} /\ Iterating
  \/ phase \in {"open", "close"} /\ writer = Free /\ (readers[Main] = 0 => Closes)
  \/ phase = "execute" /\ \A t \in Tasks : Home[t] = session => task[t] \in {"done", "failed"}

CanDrive ==
  /\ cmd = "driver" /\ phase \notin {"ok", "failed"}
  /\ CanRun \/ \E p \in Plugins : CanStart(p)

CanExecute ==
  /\ cmd = "driver"
  /\ \E t \in Tasks : task[t] = "executing" \/ (task[t] = "ready" /\ writer = Free)

CanDisplay ==
  /\ cmd \in {"driver", "quit", "waiting"}
  /\ \/ display = "quitting"
     \/ display = "ended" /\ logger = "display"
     \/ display # "ended" /\ printing > 0
     \/ notices # {}

CanCommand ==
  \/ cmd = "driver" /\ phase \in {"ok", "failed"}
  \/ cmd = "quit"
  \/ cmd = "waiting" /\ logger = "plain" /\ printing = 0

(* It has returned, or has one of the two ends that CommandReturns excepts. *)
Ended ==
  \/ cmd \in {"ok", "failed"}
  \/ cmd = "waiting" /\ display = "ended" /\ printing > 0
  \/ cmd = "crashed" /\ cutShort

GoesOnUntilEnded == CanDrive \/ CanExecute \/ CanDisplay \/ CanCommand \/ Ended

(* One of two plugins that start has the locks that the other waits for,    *)
(* and nobody reads the router meanwhile.                                  *)
LEMMA StartGoesOn ==
  ASSUME CommandInv, Untangled, phase = "starting", ~AllStarted
  PROVE  \E p \in Plugins : CanStart(p)
<1> USE Distinct
<1>1. DriverInv /\ \A p \in Plugins : StarterOK(p)
  BY DEF CommandInv, DriverInv
<1>2. \A g \in Goroutines : readers[g] = 0
  <2>1. readers[Main] = 0
    BY <1>1 DEF DriverInv, TypeOK
  <2>2. \A t \in Tasks : readers[t] = 0
    BY <1>1 DEF DriverInv, TypeOK, TaskOK
  <2> QED
    BY <2>1, <2>2 DEF Untangled, Goroutines
<1>3. writer \in Plugins \cup {Free}
  BY <1>1 DEF DriverInv, PhaseOK, TypeOK, ManagerTypeOK, Goroutines
<1>4. ASSUME NEW q \in Plugins, writer = q PROVE CanStart(q)
  BY <1>1, <1>2, <1>4 DEF StarterOK, Exclusive, CanStart
<1>5. ASSUME NEW q \in Plugins, starter[q] \in {"locked", "registering"}
      PROVE  \E p \in Plugins : CanStart(p)
  BY <1>1, <1>3, <1>4, <1>5 DEF StarterOK, CanStart
<1>6. ASSUME NEW q \in Plugins, mu = q PROVE \E p \in Plugins : CanStart(p)
  BY <1>1, <1>5, <1>6 DEF StarterOK
<1>7. PICK p \in Plugins : starter[p] \notin {"idle", "started", "failed"}
  BY DEF AllStarted
<1>8. starter[p] \in {"launching", "launched", "locked", "registering"}
  BY <1>1, <1>7 DEF DriverInv, TypeOK, ManagerTypeOK
<1> QED
  BY <1>5, <1>6, <1>8 DEF CanStart, Untangled

LEMMA DriverGoesOn ==
  ASSUME CommandInv, Untangled, cmd = "driver", phase \notin {"ok", "failed"}
  PROVE  CanDrive \/ CanExecute \/ CanDisplay
<1> USE Distinct
<1>1. DriverInv /\ \A p \in Plugins : StarterOK(p)
  BY DEF CommandInv, DriverInv
<1>2. phase # "starting" => writer \in {Main, Free}
  BY <1>1 DEF DriverInv, PhaseOK, AllStarted, StarterOK, TypeOK, ManagerTypeOK, Goroutines
<1>3. phase \notin {"starting", "registering"} => writer = Free
  BY <1>1, <1>2 DEF DriverInv, PhaseOK
<1>4. CASE phase = "starting"
  BY <1>4, StartGoesOn DEF CanDrive, CanRun
<1>5. CASE phase = "registering"
  <2>1. readers[Main] = 0 /\ \A t \in Tasks : readers[t] = 0
    BY <1>1, <1>5 DEF DriverInv, TypeOK, TaskOK
  <2>2. \A g \in Goroutines : readers[g] = 0
    BY <2>1 DEF Untangled, Goroutines
  <2> QED
    BY <1>2, <1>5, <2>2 DEF CanDrive, CanRun, Exclusive
<1>6. CASE phase \in {"sessions", "closing"}
  BY <1>6 DEF CanDrive, CanRun
<1>7. CASE phase \in {"open", "close"}
  <2>1. notices = {} => Closes
    BY DEF Closes, Waiter
  <2>2. notices # {} => CanDisplay
    BY DEF CanDisplay
  <2> QED
    BY <1>3, <1>7, <2>1, <2>2 DEF CanDrive, CanRun
<1>8. CASE phase = "execute"
  <2>1. CASE \A t \in Tasks : Home[t] = session => task[t] \in {"done", "failed"}
    BY <1>8, <2>1 DEF CanDrive, CanRun
  <2>2. CASE \E t \in Tasks : Home[t] = session /\ task[t] \notin {"done", "failed"}
    <3>1. PICK t \in Tasks : Home[t] = session /\ task[t] \notin {"done", "failed"}
      BY <2>2
    <3>2. task[t] \in {"ready", "executing"}
      BY <1>1, <1>8, <3>1 DEF Untangled, DriverInv, TypeOK
    <3> QED
      BY <1>3, <1>8, <3>2 DEF CanExecute
  <2> QED
    BY <2>1, <2>2
<1> QED
  BY <1>1, <1>4, <1>5, <1>6, <1>7, <1>8 DEF DriverInv, TypeOK, Phases

(* A command can always go on until it returns or has one of the two ends  *)
(* named: for any plugins, executors, sessions and tasks no lock is waited *)
(* for in vain, though read locks of the router are taken twice.           *)
THEOREM CommandNeverStuck == CommandSpec => []GoesOnUntilEnded
<1>1. CommandInv /\ Untangled => GoesOnUntilEnded
  <2> SUFFICES ASSUME CommandInv, Untangled, ~Ended
               PROVE  CanDrive \/ CanExecute \/ CanDisplay \/ CanCommand
    BY DEF GoesOnUntilEnded
  <2>1. cmd \in {"driver", "quit", "waiting"}
    BY DEF CommandInv, CommandOK, Untangled, Ended
  <2>2. CASE cmd = "driver"
    BY <2>2, DriverGoesOn DEF CanCommand
  <2>3. CASE cmd = "quit"
    BY <2>3 DEF CanCommand
  <2>4. CASE cmd = "waiting"
    <3>1. display \in {"quitting", "ended"} /\ printing \in Nat
      BY <2>4 DEF CommandInv, CommandOK, Untangled
    <3>2. CASE display = "quitting"
      BY <2>4, <3>2 DEF CanDisplay
    <3>3. CASE display = "ended"
      <4>1. printing = 0
        BY <2>4, <3>1, <3>3 DEF Ended
      <4>2. logger = "display" => CanDisplay
        BY <2>4, <3>3 DEF CanDisplay
      <4>3. logger = "plain" => CanCommand
        BY <2>4, <4>1 DEF CanCommand
      <4> QED
        BY <4>2, <4>3 DEF Untangled
    <3> QED
      BY <3>1, <3>2, <3>3
  <2> QED
    BY <2>1, <2>2, <2>3, <2>4
<1> QED
  BY <1>1, CommandInvCorrect, UntangledCorrect, PTL

-----------------------------------------------------------------------------
(* Shutdown of the same manager.                                           *)

VARIABLES stopping, visited

Stop == INSTANCE Shutdown WITH step <- stopping

(* Main has the read lock of ForEachExecutor from before the first callback *)
(* until it has called back for everything registered.                     *)
LockedOut ==
  /\ readers \in [Goroutines -> Nat]
  /\ stopping \in {"starting", "locked", "iterating", "unregistering", "returned"}
  /\ stopping # "starting" => AllStarted
  /\ stopping \in {"iterating", "unregistering"} => readers[Main] = 1
  /\ stopping \in {"starting", "locked"} => readers[Main] = 0
  /\ stopping = "unregistering" <=> visited # {}
  /\ stopping = "returned" => registered = {}

LEMMA StopInit == Stop!Init => LockedOut
BY Distinct DEF Stop!Init, Stop!ManagerInit, LockedOut, Stop!Goroutines, Goroutines

(* The actions of Stop are those of the manager.                           *)
LEMMA StopStep ==
  ASSUME LockedOut, Stop!Next
  PROVE  /\ LockedOut'
         /\ running \subseteq running' /\ registered \subseteq registered'
         /\ visited # {} => visited' # {}
<1> USE Distinct
<1>1. ASSUME NEW p \in Plugins, Stop!Starting(p)
      PROVE  /\ stopping = "starting" /\ UNCHANGED <<stopping, visited, readers>>
             /\ running \subseteq running' /\ registered \subseteq registered'
  <2>1. /\ starter[p] \in {"launching", "launched", "locked", "registering"}
        /\ UNCHANGED <<stopping, visited, readers>>
    BY <1>1
    DEF Stop!Starting, Stop!StartPlugin, Stop!Launch, Stop!LaunchFails,
        Stop!LockManager, Stop!AnnouncePlugin, Stop!RegisterPlugin
  <2>2. running \subseteq running'
    BY <1>1
    DEF Stop!Starting, Stop!StartPlugin, Stop!Launch, Stop!LaunchFails,
        Stop!LockManager, Stop!AnnouncePlugin, Stop!RegisterPlugin
  <2>3. registered \subseteq registered'
    BY <1>1
    DEF Stop!Starting, Stop!StartPlugin, Stop!Launch, Stop!LaunchFails,
        Stop!LockManager, Stop!AnnouncePlugin, Stop!RegisterPlugin
  <2> QED
    BY <2>1, <2>2, <2>3 DEF LockedOut, AllStarted
<1>2. CASE \E p \in Plugins : Stop!Starting(p)
  BY <1>1, <1>2 DEF LockedOut
<1>3. CASE Stop!LockMu
  BY <1>3 DEF LockedOut, Stop!LockMu, Stop!AllStarted, AllStarted
<1>4. CASE Stop!ForEachExecutor
  BY <1>4 DEF LockedOut, AllStarted, Stop!ForEachExecutor, Stop!RLock, Stop!plugins
<1>5. ASSUME NEW exec \in Executors, Stop!Callback(exec)
      PROVE  /\ LockedOut'
             /\ running \subseteq running' /\ registered \subseteq registered'
             /\ visited # {} => visited' # {}
  BY <1>5 DEF LockedOut, AllStarted, Stop!Callback, Stop!plugins
<1>6. ASSUME NEW exec \in Executors
      PROVE  ~Stop!UnregisterAndKill(exec)
  BY DEF LockedOut, Stop!UnregisterAndKill, Stop!Exclusive, Stop!Goroutines
<1>7. CASE Stop!Unlock
  BY <1>7 DEF LockedOut, AllStarted, Stop!Unlock
<1> QED
  BY <1>2, <1>3, <1>4, <1>5, <1>6, <1>7 DEF Stop!Next, Stop!Step, Stop!Executors, Executors

LEMMA StopInv == Stop!Init /\ [][Stop!Next]_(Stop!vars) => []LockedOut
<1>1. LockedOut /\ UNCHANGED Stop!vars => LockedOut'
  BY DEF LockedOut, AllStarted, Stop!vars, Stop!manager, Stop!plugins
<1> QED
  BY <1>1, StopInit, StopStep, PTL

(* Shutdown kills no process and unregisters none, for any plugins: the     *)
(* callback of ForEachExecutor waits behind the read lock of its own loop.  *)
THEOREM ShutdownKillsNone ==
  Stop!Init /\ [][Stop!Next]_(Stop!vars) =>
    [][running \subseteq running' /\ registered \subseteq registered']_(Stop!vars)
BY StopInv, StopStep, PTL

(* It never returns once it has called back for an executor.               *)
THEOREM ShutdownHangs ==
  Stop!Init /\ [][Stop!Next]_(Stop!vars) =>
    [](visited # {} => [](stopping = "unregistering"))
<1>1. LockedOut /\ [Stop!Next]_(Stop!vars) /\ visited # {} => (visited # {})'
  BY StopStep DEF Stop!vars
<1>2. LockedOut /\ visited # {} => stopping = "unregistering"
  BY DEF LockedOut
<1> QED
  BY <1>1, <1>2, StopInv, PTL

=============================================================================
