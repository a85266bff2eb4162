# TLA+ specifications of bonk

bonk is a build system written in Go: tasks are executed by plugins, a task may
return followup tasks, and results are kept so that tasks that are up to date
are not run again.  This directory holds specifications of it, TLC
configurations that check them on small instances, and proofs checked by TLAPS.

## The system

A build is a call of `driver.Run` (`pkg/driver`), which stacks executors on top
of each other.  Every layer implements `executor.Executor`: `OpenSession`,
`CloseSession`, `Execute`.

    command       runs the driver under a display, and waits for the display
    scheduler     runs tasks and their followups on at most -j goroutines
    observable    tells observers about every task (only when there are observers)
    statecheck    skips tasks whose recorded state still matches
    router        picks the executor named by the task, in a tree of names
    plugin client starts plugin processes and registers them in the router
      rpc client ~ gRPC ~ rpc server -> plugin -> router -> argconv -> the executor

### Inventory

| component | state | operations | hard behaviour | what makes it correct |
| --- | --- | --- | --- | --- |
| `pkg/executor/scheduler` | errgroup (slots, wait group, first error), the caller's result | Execute, ExecuteMany, executeImpl | goroutines that block for a slot while they hold one; failing siblings; early return | every task once, after its parent; nothing alive on return; error kept; bounded concurrency; the call returns |
| `pkg/executor/observable` | sessions -> listeners and a wait group | OpenSession, CloseSession, Execute | one goroutine per notification, unordered; a wait group that tasks are in only now and then; tasks outliving their session | everybody is told everything once; what the caller waited for is over after close |
| `pkg/observer/bubbletea` | tree of task nodes with a status each; the event loop; the default logger | OnTaskStatusMsg, Update, Handle, Quit | messages and lines that come when the loop has ended; ctrl-c; a program that fails | the tree agrees with the messages; the terminal and the logger are left as they were |
| `pkg/executor/statecheck` | `state.json` per task ID in the output FS | Execute, SaveState, DetectStateMismatches | inputs that change while a task runs; two tasks of one ID; a crash or failure while saving | a task is skipped only if running it again would give what is recorded |
| `pkg/executor/rpc` | server: sessions -> closer; client: the session's stream | OpenSession stream, Execute, CloseSession, log streaming, conversion to protobuf values | acknowledgement races with registration; cancel against close; concurrent sends; values that cannot be converted | an acknowledged session can be used; every handler ends; arguments arrive |
| `pkg/executor/router` | tree of names, RW mutex per node, nameless child | RegisterExecutor, UnregisterExecutors, OpenSession, CloseSession, Execute, ForEachExecutor | recursive read locks; partial unregistration; shadowed fallbacks | the registered executor for a name answers for it; no deadlock |
| `pkg/executor/plugin` | client: plugin processes and the router they register in; server: log files of a task | StartPlugins, StartPlugin, Shutdown; Plugin.Execute, its logger | start failing half way; shutdown under lock; files that cannot be created; a logger chained to itself | every started plugin is reachable or reported; log files complete and closed |
| `pkg/driver` | the stack above, open sessions | Run, Options | open or run failing half way | what was opened is closed |
| `pkg/executor/argconv` | none | OpenSession, CloseSession, Execute (args boxed and unboxed) | arguments of an unexpected kind; nulls | a typed executor gets the arguments its task has, or the task fails |
| `pkg/task` | Result (outputs, followups, RW mutex), Session, ID | AddOutputs, AddFollowupTasks, Append, JSON | two locks at once; reads in two critical sections | nothing lost, calls atomic, no deadlock |
| `plugins` | files in the output FS | holos (platform, component), resources, kustomize, test | followups all or none; panics; namesakes that share a file | files hold what the platform says |
| `cmd` | the command line | RunE, main | ends of the driver, the display and the process in any order | a command that ends well leaves nothing behind |
| `api`, mocks | | | generated code | not modelled |

The hazards of each part, at their lines, are listed in `PROJECT.json`.

### Interactions

`driver.Run` starts plugins (a goroutine each), registers executors, opens each
session, hands its tasks to the scheduler and closes the sessions when nothing
failed.  Below the scheduler every call is made on the goroutine of a task, so
`Observable`, `Statecheck`, the router and the rpc client are entered by up to
-j goroutines at once.  They share: the caller's `Result`, observable's map of
sessions (no lock), the file system, the router's `RWMutex`, and one gRPC
connection per plugin.  On the plugin's side every call has a handler of its
own.  The display is one more goroutine, which every other one may send a
message or a line to.  Only the file system outlives a build.

## Modules

Which module uses which, an arrow meaning EXTENDS and ~> a refinement:

    Scheduler ~> TaskForest          TaskTree -> Observable
    Router ~> FlatRegistry           SessionLogs -> RpcSession (and SessionLogs ~> RpcSession)
    TaskResult ~> AtomicResult       Command -> Driver -> PluginManager <- Shutdown
    Plugins -> Arguments             Statecheck

A module `MCx` gives `x` (or what extends it) its constants for TLC, and a
module `xProofs` holds theorems.  Operators whose comment begins with "Mistake"
are not part of a specification: each is a plausible bug, and with it in place
of the definition after it TLC finds the property violated that `PROJECT.json`
names with it.

### TaskForest, Scheduler

`TaskForest` is what the scheduler promises: tasks form a forest that grows as
they succeed, each is executed once, outputs are delivered once, and the answer
is nil exactly when nothing failed.

`Scheduler` is `scheduler.go` on `errgroup`.  `pc[t]` is the place of a task's
goroutine: `queued` (in a list, not yet given to `Group.Go`), `executing`
(inside the wrapped executor), `spawning` (in the followup loop), `failed`,
`exiting` and `released` (leaving the group), `done`.  `pending[p]` is the rest
of the list p is handing over, `sem` and `wg` are the group's semaphore and wait
group.  `Go` is one turn of a loop that calls `Group.Go` and is disabled while
the group is full, which is how a blocked goroutine keeps its slot.  `Init`
chooses between `Execute` (one task on the caller's goroutine, `inline`) and
`ExecuteMany`.  errgroup is not in the repository: `Full`, `RecordError`,
`Release` and `WgDone` are marked external.

### AtomicResult, TaskResult

`AtomicResult` is two lists per result that only grow: a call adds to a list,
or appends both lists of another result, at one moment.

`TaskResult` is `result.go` with its `sync.RWMutex` as Go implements it: `Lock`
first keeps new readers out (`Announce`) and then waits for those that are in
(`Acquire`).  A call is a sequence of critical sections, `todo`: one list, or
both, one after the other, as in `MarshalJSON`, `String` and `UnmarshalJSON`.
`Append` is one section, in which the lock of one result is held while
`LockOther` asks for the read lock of the other.  `Copy` builds the slice and
`Store` assigns it.  What a call adds is a tag of that call.

### Observable, TaskTree

`Observable` is `observer.go`.  `Execute` looks the session up, `Notify` starts
one goroutine per listener (`inflight`), `Deliver` is such a goroutine whenever
it runs.  `CloseSession` is a call at any time after the session was opened,
also while tasks of it execute.  `Wait` is `waiter.Wait()`: it returns at once
when the group is empty, or blocks until the `Deliver` that empties it wakes it;
`Woken` returns then, or panics when the group is in use again, as
`sync.WaitGroup` does.  (It also panics when it is used again while the last
goroutine is still in `Done`, a window of a few instructions; that ends the
process as well and is not told apart.)  A panic ends the process.  `late` is a
history variable: the tasks whose `Execute` had not returned at the call of
`CloseSession` or was accepted after it.  `driver.Run` closes when
`ExecuteMany` has returned, so that for it there are none.

`TaskTree` extends it with the display's event loop and its tree, a status for
each node by its path.  `Take` is `program.Send` to a loop that waits for a
message, and `Apply` the `taskTree.Update` for it, which adds the nodes on the
way that are missing and sets the last; meanwhile no other message is taken.
`EndLoop` is ctrl-c or an error of the program, after which messages are
dropped (`Drop`).  `applied` counts the messages that are in the tree.
`TreeSpec` and `FairTreeSpec` are `Observable`'s specification and fairness
with the display.

### Statecheck

`out` and `st` are the outputs and `state.json` of each task ID, which outlive
builds.  `Look`, `Skip` and `Mismatch` are `DetectStateMismatches`;
`ExecutorReads`, `ExecutorWrites`, `ExecutorReturns` and `ExecutorFails` are the
wrapped executor; `Truncate`, `Encode` and `SaveFails` are `SaveState`.  `Die`
ends a build at any point; between builds the user edits sources and outputs,
removes directories, and the tasks ask for something else.  What a task makes
is a term, `Make(what it asked for, what it read)`, so that "up to date" can be
stated without saying what executors do.  Checksums have no collisions.
`Structured` executors give followups with structs as arguments, which hash
differently once they were decoded from JSON.

### RpcSession, SessionLogs

`handler`, `call` and `closing` are the server's handlers of OpenSession,
ExecuteTask and CloseSession; `client`, `answer` and `closed` are what the
client's calls have come to; `stream` holds what the client has not received
when it takes the first message.  `SendAck` and `Register` are two steps, as in
the code.  `Cancel` cancels the build's context: the client's calls return and
the handlers go on.

`SessionLogs` adds what tasks log.  `OpenFiles` and `Cleanup` are
`getTaskLoggingContext` and its deferred cleanup; `WriteText`, `WriteJSON` and
`SendRecord` are the `Fanout` handler, one sink after the other.  Records of a
session are sent on one stream by the goroutines of its tasks; those sent
together are `garbled`, and may be lost.  `reader` is the client's
`handleLogStreaming`.

### FlatRegistry, Router

`FlatRegistry` is a table with one executor per name.  `Router` is the tree in
`router.go`, with a node per path: `leaves` are executors, `routers` inner
nodes.  A call under the write lock is one step, except that
`UnregisterExecutors` takes one step per name (`todo`), since it may stop half
way.  `Execute` is an operator.  At each level the walk tries `SearchKeys`, the
exact key, the wildcard and the nameless child; `Reaches` says of an executor
whether the walk ends at it, which is when at every router on its path the key
of the path is the first of those keys that the router has.

### PluginManager, Shutdown, Driver, Command

`PluginManager` has the goroutines of `StartPlugins`, the manager's mutex and
the router's `RWMutex` as Go implements it: a writer that waits keeps new
readers out.  `Driver` is `driver.Run` on top of it, with the sessions, the
loops over executors in `OpenSession` and `CloseSession`, which lock twice, and
tasks that execute concurrently under a read lock.  `Shutdown` is the manager's
`Shutdown` after `StartPlugins`.

`Command` puts `Driver` under the display.  `cmd` is where `RunE` is, `display`
the event loop of bubbletea, `logger` the default logger, which the display
replaces and its goroutine puts back (`Restore`).  `notices` are the goroutines
that notify, `printing` those that print a line; `Send` drops a message once
the loop has ended, `PrintLine` and `PrintInVain` say that `Printf` returns for
sure before that and perhaps after it.  `Interrupt` is ctrl-c and `RunFails` an
error of the program itself, at any time; the driver is told of neither, and
`cutShort` remembers them.  `chained` is what the logger of an executor of the process
itself hands records to: with the default logger back in place and chained to
it, it calls itself without end, and the process crashes.

### Arguments, Plugins

`Arguments` has values by the kinds of `reflect` that the code tells apart, laid
out flat: a function from the keys that lead to a part (of a map, a struct or a
list, from the set `Names`) to the node there.  What code does to every part by
calling itself is then said of every path at once.  `IsValue` says which
functions are values of Go.
`EncodeFails` and `Wire` are `ToProtoValue` and the value on the other side:
structs become maps, integers `float64`, a type that structpb does not know is
an error and a null inside of anything a panic.  `UnboxArgs` is `argconv` with
what mapstructure and cuego do to the structs that the plugins declare.

`Plugins` runs the tasks of both commands with every executor in the process of
the build or in one of its own.  `Deliver` is everything from the rpc client to
the call of the typed executor; `RenderPlatform`, `RenderComponent`,
`CreateResources` and `WriteResources`, `Kustomize` and `Test` are the
executors; `Returns` encodes followups and queues them.  A panic fails every
call that its process has not answered.  Files are lists of documents; what CUE
and kustomize compute is a choice.

## Runs

| run | what it asks | bounds |
| --- | --- | --- |
| `scheduler_calls` | bounded concurrency, nothing alive after the return, exact outputs, the contract; only a wedge keeps a call from returning, and a wedge needs two tasks per slot | 4 tasks in any forest and order, 2 slots: enough for both slots to be held by parents with a followup each, which is the wedge |
| `task_results` | calls are atomic list by list; nothing added is lost; marshalling sees followups that came before outputs; calls return unless results are appended to each other | 2 goroutines, 2 results, 3 calls: two appends that cross, or one that crosses an add while a third call looks |
| `observable_driver` | whatever runs on after a close is of tasks that nobody waited for; everybody told everything once; a close returns or the wait group panics; the tree is that of the messages applied, at every moment | 2 tasks in any order, closed at any time, 1 listener: one task that was waited for and one that was not, or two that empty and refill the group; sessions and listeners do not interact, and the theorems are about any number |
| `observable_order` | violated: a task's latest message is its final one | 2 tasks |
| `statecheck_builds` | an incremental build equals a clean one; state files tell the truth; nothing up to date runs again | a task and its followup, 2 versions of a source, 3 builds, 2 edits: a success, a change or crash, and a build that must notice |
| `statecheck_sibling` | violated: a skipped task is up to date | a task that reads the output of a concurrent one, 2 builds |
| `rpc_session` | tasks run in open sessions; an accepted close frees; leaks and refusals have the listed causes; log files complete and closed; records reach the client; calls return | 2 sessions, of which one has 2 tasks that log a record each: two sends at one time, and a session without tasks |
| `rpc_close` | violated: a close frees the session | the same, without records |
| `router_names` | flat-table contract; routing exact; no dependence on history but for emptied routers | 6 names three segments deep with wildcards, 2 executors, 11 requests, 2 names per call |
| `driver_run` | tasks run where their session is open; unreachable plugins reported; a command that ends well leaves nothing behind; the command returns but for two causes | 3 plugins and an executor, among them two clashes of names, any subset asked for; 2 sessions, one with 2 tasks; a logged line; ctrl-c or an error of the display at any time |
| `shutdown_kills` | violated: Shutdown kills every process | 1 plugin, 1 executor |
| `plugin_steps` | executors get what tasks have; followups all or none; processes crash only on nulls; files hold what the platform says | both commands, 2 components with any of 6 build plans (none, one or two generators of resources, a null, an unknown type, a number that is no float), 8 arguments, any set of plugins in processes of their own |

Bounds named in the models: `MaxBuilds`, `MaxEdits` (Statecheck),
`MaxUnregister` (Router), `MaxLogs` (Command), `MaxRecords` (SessionLogs) and
`MaxCalls` (TaskResult).  `Exact` (Arguments) stands for 2^53 and is 8 in the
run: rounding depends on a number modulo 4 and on which side of `Exact` it is.
Everything else is finite by itself.

`statecheck_builds` is symmetric in the versions of a source: they are only
compared, and its properties are invariants and an action property.

Deadlock is checked in `router_names`.  Elsewhere the model may stop: the
scheduler when it is wedged (`WedgeNeedsTasks` says when that can be), results
appended to each other, a command that has ended or waits for a line, and the
others when their callers make no more calls.

### Fairness

Weak fairness of each goroutine's next step: a goroutine that can run does run.
The wrapped executor, listeners and plugins are assumed to return, which is
their caller's assumption too.  A blocked `Group.Go` needs no more than weak
fairness, because a token that is free stays free unless another task takes it,
and there are finitely many tasks; a lock of a result is free for good once
the bounded calls of others are over.  gRPC delivers what a stream has taken.
No fairness is assumed of callers (opening, executing, closing, cancelling),
users, crashes, ctrl-c, the end of an event loop or logging, and none of
`PrintInVain`: bubbletea
promises nothing of a `Printf` that comes when the event loop has ended.

### What the violated runs show

- `observable_order`: a message per goroutine, so "running" may come last.
- `statecheck_sibling`: inputs are hashed after the execution, so a task that
  raced with its input is recorded as built from what it never read.
- `rpc_close`: the acknowledgement is sent before the session can be found.
- `shutdown_kills`: `Shutdown` asks for a write lock behind its own read lock.

Met on the way, within what the passing runs allow:

- A build wedges when each slot is held by a parent that has a followup to hand
  over (`ReturnsUnlessWedged` excepts it, `WedgeNeedsTasks` bounds it).  With
  `DefaultOptions` the limit is 0 and the first task already blocks.
- A task whose followups have struct arguments is executed in every build:
  they hash differently once decoded from JSON (the exception in `NeverAgain`).
- All generators of a component make a followup called "resources": they write
  one file, and one state (`ResourcesWritten` says what may be in it).
- A null inside of arguments that are encoded panics in `reflect`, and ends the
  process (`CrashNeedsNil`).
- `Result.Append` of two results to each other waits for ever (`Deadlocked`).
- Documents and tests disagree about what closing means.  "After this call, no
  outstanding goroutines should be running" (`pkg/executor/executor.go`, line
  25), and `CloseSession` says "Block until outstanding tasks are done"
  (`observer.go`, line 75), but `waiter` holds notifications and no tasks, and
  `observer_test.go` (lines 58-71 and 116-129) closes while a task executes and
  expects its listener to be called afterwards.  `Observable` does what the code
  and the tests do: `ClosedIsQuiet` is what is left of the contract, with `late`
  for the tasks it does not hold for.  Taken without `late` it is violated in a
  few steps.  `driver.Run` makes no such call.
- Closing while a task executes may also panic: "WaitGroup is reused before
  previous Wait has returned", when its second message comes as `Wait` wakes
  (`CloseReturns` and `EveryoneIsTold` except it; `ClosedIsQuiet` says that
  nothing else causes it).
- After ctrl-c, or an error of the display's program, messages are dropped and
  a command still ends well (`ExitIsClean`); an executor of the process itself
  that logs may call itself without end, and a line that is logged too late may
  keep `Quit` waiting (`CommandReturns` excepts both).
- `UnregisterExecutors` stops at the first name it does not know, and leaves
  empty routers behind (`OnlyEmptiedHide` says what follows).
- `driver.Run` leaves sessions open when anything fails.
- `Task.Dependencies` is read by nothing.
- `IsDir` and `Exists` in `plugins/k8s/kustomize/filesystem.go` (lines 46-50
  and 92-96) return `err != nil && ...` and so never say yes.  The file is not
  modelled; this was met while reading it.

## Proofs

Every theorem holds for every value of the constants under the named
assumptions of the modules; the runs show the same properties on small
instances.  In each proof module the invariant has one lemma per action, or one
per group of actions that touch the same state.

`SchedulerProofs` (`SchedulerAssumption`): the safety properties of
`scheduler_calls`, for every finite set of tasks and every limit, negative ones
among them, and that `Scheduler` implements `TaskForest`.  The properties are
not inductive.  `QuietWhenReturned` follows from `wg = 0` only if `wg` counts
goroutines; that holds through a step only if a task is started once, so lists
must not repeat a task or share one (`PendingUnique`), must hold only tasks that
are queued (`PendingQueued`), and only goroutines in their followup loop may
have one (`SpawnersOnly`).  `InlineFirst` is what makes it safe for `Execute` to
return on an error without waiting: until its task has succeeded nothing else
exists.  `ErrorsKept` and `OutcomeMatchesPc` tie the group's error to the tasks
that failed.  `WedgeBound` counts: each holder of a wedge owns a queued task, by
`PendingUnique` a different one, so there are at least twice as many tasks as
slots.  The contract is proved by mapping each action to one of `TaskForest` or
a stutter.

`TaskResultProofs`: `LockInv` says who holds which lock at each place of a call
(`LockOwned`, `WriterAlone`, `SourceRead`, `ReaderIn`) and, what these are for,
that a slice that is about to be stored is still the list with what is to be
added (`CopyIsFresh`).  From it `Store` is a step of `AtomicResult`
(`ResultsAtomic`), and lists only grow.  A second invariant, about the tags of
calls, gives `NothingLost` (`AddedStays`).  A third, `OrderInv`, gives
`SeenInOrder` (`OutputsAfterFollowups`): a tag's number is at most that of its
caller's present call, so that nothing older than an output that was seen can
still be added, and `Append` brings a followup back only to where it is already.

`ObservableProofs`: `SentOnce` counts.  For each message, those received and
those on their way are one together when the task's loop over listeners has
passed that listener and none before; `Progress` says how far the loop is and
`OthersAreLate` that, once a session is being closed, only late tasks execute in
it, and that only they add to a wait group that `Wait` has seen empty.
`ClosedQuiet` and `ToldOnce` follow.  `DisplayOnlyListens` carries both to
builds that are shown.  `TreeRight` is about the tree: `TreeInv` says that a
listener's tree is what the messages that its loop has applied make of it, a
prefix of those it received; one more message adds the nodes to its path, and
changes the status of one.

`StatecheckProofs`: for tasks with an ID of their own (`DistinctIds`) that read
sources or what their parent made (`InputsSettled`), and with values that can
be told apart (`ValuesDistinct`: what the user leaves is not what a task makes,
and a torn file is no state), any history of builds, crashes, failures and
edits keeps state files truthful (`RecordsTruthful`), an incremental build
equal to a clean one (`IncrementalIsClean`), and nothing up to date is executed
(`UpToDateIsSkipped`).  The three assumptions are stated in the theorems; the
instance of `statecheck_builds` satisfies the first two, that of
`statecheck_sibling` violates `InputsSettled`, and its run shows what is lost.
Strings and model values are distinct for TLC, which is the third.  The
heart of `IInv` is `TaskOK`: a task that has looked at its state has a parent
that is finished, so that its input stays as it is; then what is read at the
end is what was read at the beginning.  `Kept` says what a state file is worth
between the end of an execution and the next attempt.

`RpcSessionProofs`: `SessionOK` relates the client's call, both handlers, the
map and the executor of a session; `TaskOK` says that a session stays open
while a call is in it, which holds after a cancellation only because the client
then closes nothing any more.  From them `ExecutesOnlyInOpen`, `RefusesOnlyEarly`
and `LeaksExplained`.  `LogsImplement` maps each step of `SessionLogs` to one of
`RpcSession` or a stutter, so that all of this holds with logging;
`LogFilesKept` is proved from `LogsInv`, which follows each file through the
life of its task.  `RecordsAreHeard` counts (`OnTheWay`): the records of a task
that its stream took are those that the client has logged and those under way,
and a stream that was read to its end has none under way (`EndIsLast`).

`DriverProofs` is about `CommandSpec`.  `StarterOK` says which locks a starting
plugin holds, `PhaseOK` that nobody writes to the router once executors are
registered, and `SessionsOK` how far the loops have opened and closed a session:
since `registered` cannot change between the two loops, what was opened is what
is closed (`SessionsArePaired`).  `Delivered` and `CommandOK` follow messages,
lines and the logger to the end of the command (`ExitClean`).  Its last section
is about `Shutdown`, by INSTANCE: what `shutdown_kills` finds for one plugin
holds for any (`ShutdownKillsNone`, `ShutdownHangs`), by `LockedOut`.

`RouterProofs`: for any set of names the nodes stay a tree (`TreeStaysTree`) and
implement a flat table (`RouterIsTable`).  Registering a name below an executor
moves it to the nameless child of a router; the lemmas about paths (`AboveIs`,
`PathOfPlain`, `MovedIs`, `SlotIs`) say that this changes no name and makes no
path twice.  `RoutesAreRight` needs that a task reaches one executor at most
(`OneReached`): of two paths look at the first key in which they differ; both
have the router above it, which picks one key.  `PastHidesByEmptied` compares
with the tree that registering the present names afresh would build (`Twin`): it
has the same executors, up to nameless keys, and a subset of the routers
(`FreshRoutersIs`).

`PluginsProofs` (`PluginsAssumption`: no plugin is the process of the build,
arguments are values, a struct of a declared type has the fields declared,
resources are lists): the properties of `plugin_steps` for any components,
build plans, user's arguments and choice of processes.  The first half are
lemmas about flat values: which paths composed values have and what their parts
are (`Composed`), that encoding keeps paths, commutes with taking a part and
changes numbers above `Exact` by one at most (`Wires`, `PartOfWire`, `FloatIs`),
and what `UnboxArgs` leaves of a value (`Unboxed`).  In `IInv`, `ArgsKnown`
says what arguments a task can have, those it was created with or their
encoding; `GotKnown` that what an executor was given comes from them by
`UnboxArgs`; `OnlyWritersCreate` and `FileKnown` follow each file through the
tasks that share it, those that failed among them; `Started` is `AllOrNone`, and
since it has followups absent until their parent succeeds, no followup replaces
the arguments of a task that is there (`ArgsNeverChange`).  `CrashesNeedNil`
needs a cause at the step where a process ends, and that the cause stays:
arguments and plans do not change.  `EncodedOnce` says that values which pass
through several processes lose something the first time only.

### What keeps a call from returning

Liveness under fairness is out of the prover's reach.  What can be proved of it
is the part that no fairness can make up for: that there is always somebody who
can go on.  Each of these theorems says that one of a list of guards holds; the
lists (`CanStep` and the like) repeat the guards of the actions that the
fairness of the module is about, and that they do is to be read, not proved,
`ENABLED` being unknown to the prover.

- `StuckOnlyWedged`: a call of the scheduler that has not returned has a
  goroutine that can go on, or is wedged.  `WedgeIsForever` and
  `JammedNeverReturns` are the converse of `ReturnsUnlessWedged`: a wedge stays,
  since nobody who is blocked in `Group.Go` releases a token, and a call that
  is in one never returns.  (With a limit of 0 nobody holds a token, and a
  single task without followups, which `Execute` runs itself, returns.)
- `StuckOnlyByAppends`, `DeadlockIsForever`: calls on results can go on unless
  results are appended to each other in a circle, and such calls wait for ever.
  `HoldInv` says of every lock who holds it.
- `CommandNeverStuck`: a command that has not ended can go on, but for the two
  ends that `CommandReturns` excepts.  `Untangled` is why: plugins never read
  the router and nobody else holds the manager's mutex, so that a second read
  lock meets no writer.
- `CallsNeverStuck`: a call of the rpc client can return or a handler can go on
  with it, with or without a cancellation; a handler that sends to a session's
  channel has somebody who receives (`Meets`).

### Only model-checked

Liveness under fairness: `ReturnsUnlessWedged`, `EveryoneIsTold`,
`CloseReturns`, `CallsReturn` (of RpcSession and TaskResult), `CommandReturns`
and `RecordsArrive`.  The runs check them on their instances; the section above
says what is proved of them.  Of the violated runs three show what they show by an
instance; that of `Shutdown` is also proved for any plugins.

## Not modelled

- Generated protobuf code, mocks, and the interface that all layers implement.
- Rendering of the tree, and flags, the configuration file and the generator
  of documentation in `cmd`: they keep no state.
- What CUE and kustomize compute, and `filesystem.go`, an adapter for kustomize.
- The concatenation of files that `hashFiles` hashes: contents are one value
  per task in `Statecheck`.  That it cannot tell two files from one with the
  text of both is plain, and no order of events makes it better or worse.
- Races on observable's map of sessions, which has no lock: a lookup and a
  change of it are single steps.  `driver.Run` opens and closes sessions while
  nothing is executed, and the tests' lookups come before the close.
- Closing a session that is not open, or twice, which `Observable` answers with
  a nil dereference: no caller does.
- Attributes of log records, and sessions that are not local: they decide
  nothing.

## Plan

Done: 1. `TaskForest`, `Scheduler`; 2. `Observable`, `TaskTree`; 3. `Statecheck`;
4. `RpcSession`, `SessionLogs`; 5. `Router`, `FlatRegistry`; 6. `PluginManager`,
`Driver`, `Shutdown`, `Command`; 7. `Arguments`, `Plugins`; 8. `TaskResult`,
`AtomicResult`; and proofs for 1 to 8.

Left: `Driver` on the abstract promises of the layers between it and the
router, in place of a task that just begins and ends, and the concatenation
that `hashFiles` hashes, as a function checked on bounded inputs.
