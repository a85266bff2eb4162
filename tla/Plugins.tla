------------------------------ MODULE Plugins ------------------------------
(***************************************************************************)
(* The executors of plugins/, and what happens to arguments, followups and *)
(* files between them.                                                     *)
(*                                                                         *)
(* cmd/holos renders a platform: a followup per component, and of each     *)
(* component a followup per generator of resources, which a third executor *)
(* writes to a file.  cmd/bonk runs a test task, a resources task and a    *)
(* kustomize task that reads what the resources task writes.               *)
(*                                                                         *)
(* An executor runs in the process of the build or in one of its own, in   *)
(* which case arguments and followups are encoded.  A panic ends the       *)
(* process it happens in.  The scheduler runs tasks in any order.          *)
(***************************************************************************)
EXTENDS Arguments

CONSTANTS
  Components,   \* names of the platform's components
  BuildPlans,   \* what a component may come to: its generators, or disabled
  UserArgs,     \* the arguments that tasks of the command may have
  Bonk          \* the process of the build

Plugin == {"holos", "resources", "kustomize", "test"}

(* The tasks of both commands by ID.  A followup of a component is told     *)
(* from the others by its generator; the code calls all of them "resources". *)
Platform == <<"platform">>
TestTask == <<"Test", "Test">>
ResourcesTask == <<"Test", "Resources">>
KustomizeTask == <<"Test", "Kustomize">>
Component(c) == <<"platform", "component", c>>
Generated(c, i) == <<"platform", "component", c, i>>

Generators == UNION {DOMAIN b.generators : b \in BuildPlans}
UserTasks == {Platform, TestTask, ResourcesTask, KustomizeTask}
ComponentTasks == {Component(c) : c \in Components}
GeneratedTasks == {Generated(c, i) : c \in Components, i \in Generators}
Tasks == UserTasks \cup ComponentTasks \cup GeneratedTasks

PluginOf(t) ==
  CASE t \in ComponentTasks \cup {Platform} -> "holos"
    [] t \in GeneratedTasks \cup {ResourcesTask} -> "resources"
    [] t = KustomizeTask -> "kustomize"
    [] OTHER -> "test"

(* The struct that each executor declares.                                 *)
PlatformParams == [name |-> "holos.Params", fields |-> [platform |-> "text"], lists |-> {}]
ComponentParams == [name |-> "core.Component", fields |-> [name |-> "text", path |-> "text"], lists |-> {}]
ResourcesParams == [name |-> "resources.Params", fields |-> [resources |-> "any"], lists |-> {"resources"}]
TestParams == [name |-> "test.Params", fields |-> [value |-> "num"], lists |-> {}]
Kustomization == [name |-> "Kustomization", fields |-> [resources |-> "list"], lists |-> {}]

Params(t) ==
  CASE t = Platform -> PlatformParams
    [] t \in ComponentTasks -> ComponentParams
    [] PluginOf(t) = "resources" -> ResourcesParams
    [] t = KustomizeTask -> Kustomization
    [] OTHER -> TestParams

Declared == {PlatformParams, ComponentParams, ResourcesParams, TestParams, Kustomization}

(* A struct of a declared type has the fields that are declared.           *)
ASSUME PluginsAssumption ==
  /\ Bonk \notin Plugin
  /\ \A type \in Declared : DOMAIN type.fields \subseteq Names
  /\ \A a \in UserArgs :
       /\ IsValue(a)
       /\ \A type \in Declared : OfType(a, type) => Keys(a) = DOMAIN type.fields
  /\ \A b \in BuildPlans : \A i \in DOMAIN b.generators :
       IsValue(b.generators[i].resources) /\ Kind(b.generators[i].resources) = "list"

(* Files of the project: one document or more, laid out as a list.  Output  *)
(* directories are below its .bonk.                                        *)
NoFile == Single([kind |-> "none"])
Mixed == Single([kind |-> "mixed"])
Empty == List(NoParts)
OutputFS(id) == <<".bonk">> \o id

(* Mistake: a followup keeps the ID that its executor gave it.             *)
OutputUnprefixed(t) ==
  CASE t \in GeneratedTasks -> OutputFS(<<"resources", "resources.yaml">>)
    [] t = ResourcesTask -> OutputFS(t \o <<"resources.yaml">>)
    [] OTHER -> OutputFS(t \o <<"kustomized.yaml">>)

Output(t) ==
  CASE t \in GeneratedTasks -> OutputFS(Component(t[3]) \o <<"resources", "resources.yaml">>)
    [] t = ResourcesTask -> OutputFS(t \o <<"resources.yaml">>)
    [] OTHER -> OutputFS(t \o <<"kustomized.yaml">>)
Writers == GeneratedTasks \cup {ResourcesTask, KustomizeTask}
Files == {Output(t) : t \in Writers}

VARIABLES
  plan,     \* what each component's CUE files say
  apart,    \* plugins that have a process of their own
  dead,     \* processes that ended in a panic
  status,   \* how far each task has come
  args,     \* Task.Args
  got,      \* what its executor was given
  disk      \* the documents of each file

inputs == <<plan, apart>>
vars == <<plan, apart, dead, status, args, got, disk>>

None == Single([kind |-> "none"])

Init ==
  /\ plan \in [Components -> BuildPlans]
  /\ apart \in SUBSET Plugin
  /\ dead = {}
  /\ \E command \in {{Platform}, {TestTask, ResourcesTask, KustomizeTask}} :
       /\ status = [t \in Tasks |-> IF t \in command THEN "queued" ELSE "absent"]
       /\ \E a \in UserArgs : args = [t \in Tasks |-> IF t \in command THEN a ELSE None]
  /\ got = [t \in Tasks |-> None]
  /\ disk = [f \in Files |-> NoFile]

-----------------------------------------------------------------------------
(* The way to the executor and back.                                       *)

Process(t) == IF PluginOf(t) \in apart THEN PluginOf(t) ELSE Bonk
Remote(t) == Process(t) # Bonk

Fails(t) == status' = [status EXCEPT ![t] = "failed"]

(* A panic fails every call that the process has not answered.             *)
Panics(p, t) ==
  /\ dead' = dead \cup {p}
  /\ status' = [u \in Tasks |->
       IF u = t \/ (status[u] \in {"running", "created"} /\ Process(u) = p)
       THEN "failed" ELSE status[u]]

(* grpcClient.Execute, grpcServer.ExecuteTask and the boxed executor, up to *)
(* the call of the typed one.                                              *)
Deliver(t) ==
  /\ status[t] = "queued" /\ Bonk \notin dead
  /\ LET sent == IF Remote(t) THEN Wire(args[t]) ELSE args[t]
         fails == IF Remote(t) THEN EncodeFails(args[t]) ELSE {}
     IN \/ "panic" \in fails /\ Panics(Bonk, t) /\ UNCHANGED got
        \/ "error" \in fails /\ Fails(t) /\ UNCHANGED <<dead, got>>
        \/ /\ fails = {}
           /\ Process(t) \in dead
           /\ Fails(t) /\ UNCHANGED <<dead, got>>
        \/ /\ fails = {}
           /\ Process(t) \notin dead
           /\ \E a \in UnboxArgs(sent, Params(t)) :
                IF a = Error THEN Fails(t) /\ UNCHANGED got
                ELSE /\ got' = [got EXCEPT ![t] = a]
                     /\ status' = [status EXCEPT ![t] = "running"]
           /\ UNCHANGED dead
  /\ UNCHANGED <<inputs, args, disk>>

(* Mistake: followups that cannot be encoded are left out of the response. *)
ReturnsWhatItCan(t, followups) ==
  LET kept == {u \in DOMAIN followups : ~Remote(t) \/ EncodeFails(followups[u]) = {}} IN
  /\ status' = [u \in Tasks |-> IF u = t THEN "ok"
                                ELSE IF u \in kept THEN "queued" ELSE status[u]]
  /\ args' = [u \in Tasks |-> IF u \in kept
                              THEN IF Remote(t) THEN Wire(followups[u]) ELSE followups[u]
                              ELSE args[u]]
  /\ UNCHANGED dead

(* The executor returned nil: ExecuteTask encodes the followups of the     *)
(* result, the client decodes them, and the scheduler queues them.  When   *)
(* one of them cannot be encoded the whole response is an error.           *)
Returns(t, followups) ==
  LET fails == IF Remote(t) THEN UNION {EncodeFails(followups[u]) : u \in DOMAIN followups}
               ELSE {}
  IN \/ /\ fails = {}
        /\ status' = [u \in Tasks |-> IF u = t THEN "ok"
                                      ELSE IF u \in DOMAIN followups THEN "queued" ELSE status[u]]
        /\ args' = [u \in Tasks |-> IF u \in DOMAIN followups
                                    THEN IF Remote(t) THEN Wire(followups[u]) ELSE followups[u]
                                    ELSE args[u]]
        /\ UNCHANGED dead
     \/ "panic" \in fails /\ Panics(Process(t), t) /\ UNCHANGED args
     \/ "error" \in fails /\ Fails(t) /\ UNCHANGED <<dead, args>>

Running(t) == status[t] = "running" /\ Bonk \notin dead

NoFollowups == [u \in {} |-> Nil]

-----------------------------------------------------------------------------
(* Executors.  All but Kustomize dereference their arguments.              *)

NilArgs(t) ==
  /\ Running(t) /\ got[t] = Nil /\ t \notin Writers
  /\ Panics(Process(t), t)
  /\ UNCHANGED <<inputs, args, got, disk>>

Test(t) ==
  /\ Running(t) /\ t = TestTask /\ got[t] # Nil
  /\ Returns(t, NoFollowups)
  /\ UNCHANGED <<inputs, got, disk>>

(* CUE may fail to load; else a followup per component.                    *)
RenderPlatform(t) ==
  /\ Running(t) /\ t = Platform /\ got[t] # Nil
  /\ \/ Fails(t) /\ UNCHANGED <<dead, args>>
     \/ Returns(t, [u \in ComponentTasks |->
          Struct("core.Component", [name |-> Text(u[3]), path |-> Text("path")])])
  /\ UNCHANGED <<inputs, got, disk>>

(* The generators of a build plan that become a task.                      *)
Rendered(b) ==
  IF b.disabled THEN {}
  ELSE {i \in DOMAIN b.generators :
          /\ ~b.generators[i].skip
          /\ b.generators[i].kind = "Resources"
          /\ b.generators[i].resources # Empty}

RenderComponent(t) ==
  /\ Running(t) /\ t \in ComponentTasks /\ got[t] # Nil
  /\ LET c == Part(got[t], "name")[<<>>].text IN
     \/ Fails(t) /\ UNCHANGED <<dead, args>>
     \/ Returns(t, [u \in {Generated(c, i) : i \in Rendered(plan[c])} |->
          Map([resources |-> plan[c].generators[u[4]].resources])])
  /\ UNCHANGED <<inputs, got, disk>>

(* ExecutorResources refuses inputs, and creates, that is truncates, its    *)
(* file before it looks at its arguments.                                  *)
CreateResources(t) ==
  /\ Running(t) /\ PluginOf(t) = "resources"
  /\ \/ Fails(t) /\ UNCHANGED <<dead, disk>>
     \/ /\ disk' = [disk EXCEPT ![Output(t)] = Empty]
        /\ IF got[t] = Nil \/ Part(got[t], "resources") = Nil
           THEN Panics(Process(t), t)
           ELSE status' = [status EXCEPT ![t] = "created"] /\ UNCHANGED dead
  /\ UNCHANGED <<inputs, args, got>>

Documents(v) == IF Kind(v) = "list" THEN v ELSE List([k \in {"0"} |-> v])

(* The documents at these places.                                          *)
Only(docs, places) ==
  [p \in {q \in DOMAIN docs : q = <<>> \/ Head(q) \in places} |-> docs[p]]

(* What is in the file when a task writes it from the beginning, as another *)
(* one may have done that opened it too.                                   *)
Written(old, docs) == IF old = Empty THEN {docs} ELSE {docs, Mixed}

(* A document per resource, but for those that cannot be encoded.          *)
WriteResources(t) ==
  /\ status[t] = "created" /\ Bonk \notin dead
  /\ LET docs == Documents(Part(got[t], "resources")) IN
     \E places \in SUBSET Keys(docs) :
     \E content \in Written(disk[Output(t)], Only(docs, places)) :
          /\ disk' = [disk EXCEPT ![Output(t)] = content]
          /\ IF places = Keys(docs) THEN Returns(t, NoFollowups)
             ELSE Fails(t) /\ UNCHANGED <<dead, args>>
  /\ UNCHANGED <<inputs, got>>

(* Kustomize reads its inputs through a layer in memory that holds the     *)
(* kustomization, and writes one file.                                     *)
Kustomize(t) ==
  /\ Running(t) /\ t = KustomizeTask
  /\ \/ Fails(t) /\ UNCHANGED <<dead, args, disk>>
     \/ /\ disk[Output(ResourcesTask)] # NoFile
        /\ disk' = [disk EXCEPT ![Output(t)] = disk[Output(ResourcesTask)]]
        /\ Returns(t, NoFollowups)
  /\ UNCHANGED <<inputs, got>>

Next ==
  \E t \in Tasks :
    \/ Deliver(t) \/ NilArgs(t) \/ Test(t) \/ RenderPlatform(t) \/ RenderComponent(t)
    \/ CreateResources(t) \/ WriteResources(t) \/ Kustomize(t)

Spec == Init /\ [][Next]_vars
-----------------------------------------------------------------------------
(* Properties.                                                             *)

TypeOK ==
  /\ plan \in [Components -> BuildPlans]
  /\ apart \subseteq Plugin
  /\ dead \subseteq apart \cup {Bonk}
  /\ status \in [Tasks -> {"absent", "queued", "running", "created", "ok", "failed"}]
  /\ \A t \in Tasks : (args[t] = None) <=> (status[t] = "absent")
  /\ \A t \in Tasks : status[t] \in {"running", "created", "ok"} => got[t] # None
  /\ DOMAIN disk = Files

(* The same data to a reader of it: a struct may have become a map, and an  *)
(* integer the nearest that a float64 has.                                 *)
AlikeNode(a, b) ==
  \/ a = b
  \/ a.kind = "num" /\ b.kind = "num" /\ a.n > Exact /\ b.n \in {a.n - 1, a.n + 1}
  \/ a.kind \in {"map", "struct"} /\ b.kind \in {"map", "struct"}

Alike(a, b) == DOMAIN a = DOMAIN b /\ \A p \in DOMAIN a : AlikeNode(a[p], b[p])

(* An executor is given the arguments its task has, wherever it runs: the   *)
(* fields it declares, with the values the task has for them.  It is given *)
(* none only if the task has none or has a struct of another type.         *)
GivenAsCreated ==
  \A t \in Tasks : got[t] # None =>
    IF got[t] = Nil
    THEN args[t] = Nil \/ (Kind(args[t]) = "struct" /\ ~OfType(args[t], Params(t)))
    ELSE /\ Keys(got[t]) = DOMAIN Params(t).fields
         /\ \A k \in Keys(got[t]) \cap Keys(args[t]) :
              LET had == Part(args[t], k)
                  has == Part(got[t], k)
              IN \/ Alike(had, has)
                 \/ had = Nil
                 \/ Kind(had) = "odd" /\ has = Text(had[<<>>].text)

(* A task that succeeded has all of its followups, one that failed none of  *)
(* them, although what it wrote stays.                                     *)
AllOrNone ==
  LET started(followups, t) ==
        \A u \in followups : (status[u] # "absent") <=> (status[t] = "ok")
  IN /\ started(ComponentTasks, Platform)
     /\ \A c \in Components :
          started({Generated(c, i) : i \in {j \in Generators :
                     /\ ~plan[c].disabled /\ j \in DOMAIN plan[c].generators
                     /\ plan[c].generators[j].resources # Empty
                     /\ plan[c].generators[j].kind = "Resources"
                     /\ ~plan[c].generators[j].skip}}, Component(c))

(* When the resources of a component have been written, its file has those  *)
(* of one of its generators, all of them and as the platform has them.     *)
(* Only the namesakes of a component with several generators lose theirs,  *)
(* or mix them up.                                                         *)
ResourcesWritten ==
  \A c \in Components, k \in Generators :
    LET mine == {i \in Generators : status[Generated(c, i)] # "absent"}
        file == disk[Output(Generated(c, k))]
    IN /\ mine = {} => file = NoFile
       /\ (mine # {} /\ \A i \in mine : status[Generated(c, i)] = "ok") =>
            \/ \E i \in mine :
                 /\ ~plan[c].disabled /\ ~plan[c].generators[i].skip
                 /\ Alike(plan[c].generators[i].resources, file)
            \/ file = Mixed /\ \E i, j \in mine : i # j

(* What makes a process panic: no arguments for an executor that needs      *)
(* some, or a null inside of arguments that are encoded.                   *)
HasNil(v) == \E p \in DOMAIN v : v[p].kind = "nil"

CrashNeedsNil ==
  dead # {} =>
    \/ \E t \in Tasks : args[t] # None /\
         \/ HasNil(args[t])
         \/ Kind(args[t]) = "struct" /\ ~OfType(args[t], Params(t))
         \/ PluginOf(t) = "resources" /\ Kind(args[t]) = "map" /\ "resources" \notin Keys(args[t])
    \/ \E c \in Components : \E i \in DOMAIN plan[c].generators :
         HasNil(plan[c].generators[i].resources)
=============================================================================
