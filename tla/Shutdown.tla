------------------------------ MODULE Shutdown ------------------------------
(***************************************************************************)
(* pluginClientManager.Shutdown, called after StartPlugins has returned.   *)
(*                                                                         *)
(* Shutdown holds mu, and ForEachExecutor a read lock of the router while  *)
(* it calls back; the callback's UnregisterExecutors asks the same router  *)
(* for its write lock.                                                     *)
(***************************************************************************)
EXTENDS PluginManager

VARIABLES
  step,    \* where Shutdown is
  visited  \* the executors for which ForEachExecutor has called back

vars == <<manager, step, visited>>

Init == ManagerInit /\ step = "starting" /\ visited = {}

Starting(p) == StartPlugin(p) /\ UNCHANGED <<step, visited>>

LockMu ==
  /\ step = "starting"
  /\ AllStarted
  /\ mu = Free
  /\ mu' = Main
  /\ step' = "locked"
  /\ UNCHANGED <<asked, starter, running, registered, readers, writer, visited>>

ForEachExecutor ==
  /\ step = "locked"
  /\ RLock(Main)
  /\ step' = "iterating"
  /\ UNCHANGED <<plugins, writer, visited>>

Callback(exec) ==
  /\ step = "iterating"
  /\ exec \in registered \ visited
  /\ Announce(Main)
  /\ visited' = visited \cup {exec}
  /\ step' = "unregistering"
  /\ UNCHANGED <<plugins, readers>>

UnregisterAndKill(exec) ==
  /\ step = "unregistering"
  /\ exec \in visited \cap registered
  /\ Exclusive(Main)
  /\ registered' = registered \ {exec}
  /\ running' = running \ {exec}
  /\ writer' = Free
  /\ step' = "iterating"
  /\ UNCHANGED <<asked, starter, mu, readers, visited>>

Unlock ==
  /\ step = "iterating"
  /\ registered \subseteq visited
  /\ readers' = [readers EXCEPT ![Main] = @ - 1]
  /\ mu' = Free
  /\ step' = "returned"
  /\ UNCHANGED <<asked, starter, running, registered, writer, visited>>

Step ==
  \/ LockMu \/ ForEachExecutor \/ Unlock
  \/ \E exec \in Executors : Callback(exec) \/ UnregisterAndKill(exec)

Next == Step \/ \E p \in Plugins : Starting(p)

(* Every goroutine that can take its next step takes it.                   *)
FairSpec ==
  /\ Init /\ [][Next]_vars
  /\ WF_vars(Step)
  /\ \A p \in Plugins : WF_vars(Starting(p))

(* "Shutdown does de initialization and kills all plugin processes."       *)
ShutdownKills == <>(step = "returned" /\ running = {})
=============================================================================
