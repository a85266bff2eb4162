--------------------------- MODULE PluginManager ---------------------------
(***************************************************************************)
(* pkg/executor/plugin/client_manager.go: plugin processes are started in  *)
(* parallel and registered in the manager's router, and shut down.         *)
(*                                                                         *)
(* The manager has a mutex, mu, and its router has a sync.RWMutex.  As in  *)
(* Go, a writer first announces itself, after which no reader gets in, and *)
(* then waits until the readers that were in have left; a reader that locks*)
(* again counts twice.  Names are opaque here: Router.tla has the tree.    *)
(***************************************************************************)
EXTENDS Naturals, FiniteSets

CONSTANTS
  Plugins,    \* paths of plugins; each also names its StartPlugin goroutine
  Static,     \* executors that live in the process itself
  Name,       \* the name each is registered by: path.Base of a plugin
  Callers,    \* other goroutines that use the manager
  Main,       \* the goroutine that calls StartPlugins and Shutdown
  Free        \* a lock that nobody holds

Executors == Plugins \cup Static
Goroutines == Plugins \cup Callers \cup {Main}

ASSUME PluginManagerAssumption ==
  /\ IsFiniteSet(Goroutines)
  /\ Plugins \cap Static = {}
  /\ Plugins \cap Callers = {}
  /\ Main \notin Plugins \cup Callers
  /\ Free \notin Goroutines
  /\ DOMAIN Name = Executors

VARIABLES
  asked,       \* the executors the caller asks for, processes or not
  starter,     \* where the StartPlugin of each plugin is
  running,     \* the plugins whose process runs
  registered,  \* the children of the router
  mu,          \* who holds the manager's mutex
  readers,     \* how many read locks of the router each goroutine holds
  writer       \* who waits for the router's write lock, or holds it

plugins == <<asked, starter, running, registered, mu>>
manager == <<plugins, readers, writer>>

-----------------------------------------------------------------------------
(* The router's RWMutex.                                                   *)

RLock(g) == writer = Free /\ readers' = [readers EXCEPT ![g] = @ + 1]

Announce(g) == writer = Free /\ writer' = g

Exclusive(g) == writer = g /\ \A other \in Goroutines : readers[other] = 0

Taken(exec) == \E other \in registered : Name[other] = Name[exec]

-----------------------------------------------------------------------------
(* StartPlugin.                                                            *)

Launch(p) ==
  /\ starter[p] = "launching"
  /\ running' = running \cup {p}
  /\ starter' = [starter EXCEPT ![p] = "launched"]
  /\ UNCHANGED <<asked, registered, mu, readers, writer>>

(* NewPluginClient fails, and leaves no process.                           *)
LaunchFails(p) ==
  /\ starter[p] = "launching"
  /\ starter' = [starter EXCEPT ![p] = "failed"]
  /\ UNCHANGED <<asked, running, registered, mu, readers, writer>>

LockManager(p) ==
  /\ starter[p] = "launched"
  /\ mu = Free
  /\ mu' = p
  /\ starter' = [starter EXCEPT ![p] = "locked"]
  /\ UNCHANGED <<asked, running, registered, readers, writer>>

AnnouncePlugin(p) ==
  /\ starter[p] = "locked"
  /\ Announce(p)
  /\ starter' = [starter EXCEPT ![p] = "registering"]
  /\ UNCHANGED <<asked, running, registered, mu, readers>>

(* Mistake: the error of a duplicate name is not returned.                 *)
RegisterPluginSilently(p) ==
  /\ starter[p] = "registering"
  /\ Exclusive(p)
  /\ registered' = IF Taken(p) THEN registered ELSE registered \cup {p}
  /\ starter' = [starter EXCEPT ![p] = "started"]
  /\ writer' = Free
  /\ mu' = Free
  /\ UNCHANGED <<asked, running, readers>>

(* RegisterExecutor under both locks, which are then given back.  When the  *)
(* name is taken the error is returned and the process is left as it is.   *)
RegisterPlugin(p) ==
  /\ starter[p] = "registering"
  /\ Exclusive(p)
  /\ registered' = IF Taken(p) THEN registered ELSE registered \cup {p}
  /\ starter' = [starter EXCEPT ![p] = IF Taken(p) THEN "failed" ELSE "started"]
  /\ writer' = Free
  /\ mu' = Free
  /\ UNCHANGED <<asked, running, readers>>

StartPlugin(p) ==
  \/ Launch(p) \/ LaunchFails(p) \/ LockManager(p)
  \/ AnnouncePlugin(p) \/ RegisterPlugin(p)

(* pluginWaiter.Wait, and the errors it has gathered.                      *)
AllStarted == \A p \in Plugins : starter[p] \in {"idle", "started", "failed"}

StartFailed == \E p \in Plugins : starter[p] = "failed"

ManagerInit ==
  /\ asked \in SUBSET Executors
  /\ starter = [p \in Plugins |-> IF p \in asked THEN "launching" ELSE "idle"]
  /\ running = {}
  /\ registered = {}
  /\ mu = Free
  /\ readers = [g \in Goroutines |-> 0]
  /\ writer = Free

ManagerTypeOK ==
  /\ asked \subseteq Executors
  /\ starter \in [Plugins -> {"idle", "launching", "launched", "locked",
                              "registering", "started", "failed"}]
  /\ running \subseteq asked \cap Plugins
  /\ registered \subseteq asked
  /\ mu \in Goroutines \cup {Free}
  /\ readers \in [Goroutines -> 0..2]
  /\ writer \in Goroutines \cup {Free}
=============================================================================
