------------------------------- MODULE Router -------------------------------
(***************************************************************************)
(* pkg/executor/router/router.go: the tree of executors in which a task    *)
(* finds the one it names.                                                 *)
(*                                                                         *)
(* A name such as "k8s.kustomize" is a sequence of segments.  A node of the*)
(* tree is the path of keys that leads to it: a router, which has a map of *)
(* children, or an executor.  When a name is registered below an executor, *)
(* the executor is replaced by a router that keeps it under the key "".    *)
(*                                                                         *)
(* Registering and unregistering hold the write lock of the root for their *)
(* whole length and routing holds its read lock, so a registration is one  *)
(* step and todo # <<>> stands for the lock of an UnregisterExecutors.     *)
(***************************************************************************)
EXTENDS Naturals, Sequences, FiniteSets

CONSTANTS
  Segments,   \* the keys of a name, Wildcard among them
  Wildcard,   \* "*"
  Nameless,   \* "", the key of an executor that became a router
  Names,      \* the names that are registered and unregistered
  Requests,   \* the Executor fields of tasks
  Execs,      \* the executors
  MaxUnregister  \* how many names one UnregisterExecutors is given

ASSUME RouterAssumption ==
  /\ Wildcard \in Segments
  /\ Nameless \notin Segments
  /\ Names \cup Requests \subseteq Seq(Segments) \ {<<>>}
  /\ MaxUnregister \in Nat

VARIABLES
  leaves,     \* the executors of the tree: [path, exec]
  routers,    \* the paths of its routers, <<>> for the root
  duplicate,  \* did the last registration fail with ErrDuplicateExecutor?
  todo        \* names a running UnregisterExecutors has not come to

vars == <<leaves, routers, duplicate, todo>>

-----------------------------------------------------------------------------
(* The tree.                                                               *)

LeafPaths == {leaf.path : leaf \in leaves}

Nodes == LeafPaths \cup routers

Above(path) == {SubSeq(path, 1, i) : i \in 0..Len(path) - 1}

Below(path) == {node \in Nodes : path \in Above(node)}

(* Mistake: an executor takes the place of a router of its name.           *)
SlotPlain(name) == name

(* Where the executor of a name is, or would be put.                       *)
Slot(name) == IF name \in routers THEN Append(name, Nameless) ELSE name

(* The name under which the executor at a path was registered.             *)
Plain(path) ==
  IF path[Len(path)] = Nameless THEN SubSeq(path, 1, Len(path) - 1) ELSE path

Init ==
  /\ leaves = {}
  /\ routers = {<<>>}
  /\ duplicate = FALSE
  /\ todo = <<>>

(***************************************************************************)
(* Every proper prefix of the name becomes a router; an executor that was  *)
(* in the way moves to the key "" of its router.                           *)
(***************************************************************************)
RegisterExecutor(name, exec) ==
  /\ todo = <<>>
  /\ Slot(name) \notin LeafPaths
  /\ leaves' = {IF leaf.path \in Above(name)
                THEN [leaf EXCEPT !.path = Append(@, Nameless)]
                ELSE leaf : leaf \in leaves}
                 \cup {[path |-> Slot(name), exec |-> exec]}
  /\ routers' = routers \cup Above(name)
  /\ duplicate' = FALSE
  /\ UNCHANGED todo

RefuseDuplicate(name) ==
  /\ todo = <<>>
  /\ Slot(name) \in LeafPaths
  /\ duplicate' = TRUE
  /\ UNCHANGED <<leaves, routers, todo>>

UnregisterExecutors(names) ==
  /\ todo = <<>>
  /\ todo' = names
  /\ UNCHANGED <<leaves, routers, duplicate>>

(* Mistake: a child is deleted without a look at what is left below it.     *)
UnregisterNameDeletes ==
  /\ todo # <<>>
  /\ leaves' = {leaf \in leaves : Head(todo) # leaf.path
                                    /\ Head(todo) \notin Above(leaf.path)}
  /\ routers' = {path \in routers : Head(todo) # path
                                      /\ Head(todo) \notin Above(path)}
  /\ todo' = Tail(todo)
  /\ UNCHANGED duplicate

(***************************************************************************)
(* One turn of the loop of UnregisterExecutors.  The executor goes, and so *)
(* does a router of that very name which is now empty; the routers on the  *)
(* way to a nested name stay, empty or not.  The loop, and the call, end at*)
(* a name whose first key is unknown, or below which executors remain.     *)
(***************************************************************************)
UnregisterName ==
  /\ todo # <<>>
  /\ LET name == Head(todo)
         top == SubSeq(name, 1, 1)
         gone == IF Below(name) \subseteq {Slot(name)}
                 THEN {name, Slot(name)} ELSE {Slot(name)}
     IN
       /\ leaves' = {leaf \in leaves : leaf.path \notin gone}
       /\ routers' = routers \ gone
       /\ todo' = IF top \notin Nodes \/ ~(Below(top) \subseteq gone)
                  THEN <<>> ELSE Tail(todo)
  /\ UNCHANGED duplicate

Next ==
  \/ \E name \in Names :
       \/ \E exec \in Execs : RegisterExecutor(name, exec)
       \/ RefuseDuplicate(name)
  \/ \E n \in 1..MaxUnregister : \E names \in [1..n -> Names] :
       UnregisterExecutors(names)
  \/ UnregisterName

Spec == Init /\ [][Next]_vars

-----------------------------------------------------------------------------
(* Execute.                                                                *)

(* What a router at depth i - 1 sees as the first segment.                 *)
Segment(request, i) == IF i <= Len(request) THEN request[i] ELSE Nameless

(* Mistakes: the wildcard is tried first; the key "" is not tried.         *)
SearchKeysWildcardFirst(request, i) ==
  <<Wildcard, Segment(request, i), Nameless>>

SearchKeysNoFallback(request, i) == <<Segment(request, i), Wildcard>>

(* The keys that router looks for among its children, in this order.       *)
SearchKeys(request, i) == <<Segment(request, i), Wildcard, Nameless>>

(***************************************************************************)
(* A router takes one segment off and gives the task to the first child it *)
(* finds, for good: it never tries another.  So the task comes to a node   *)
(* when every router above picks the key that leads there.                 *)
(***************************************************************************)
Reaches(nodes, request, path) ==
  \A i \in 1..Len(path) : \E k \in DOMAIN SearchKeys(request, i) :
    /\ path[i] = SearchKeys(request, i)[k]
    /\ \A j \in 1..k - 1 :
         Append(SubSeq(path, 1, i - 1), SearchKeys(request, i)[j]) \notin nodes

(* What the executor at a path finds in tsk.Executor: the segments that the *)
(* routers above it have not taken off.                                    *)
Remaining(request, path) ==
  SubSeq(request, Len(Plain(path)) + 1, Len(request))

(* The executor that is given a request, and what it is told.              *)
Execute(tree, inner, request) ==
  {[exec |-> leaf.exec, told |-> Remaining(request, leaf.path)] :
     leaf \in {found \in tree :
       Reaches({other.path : other \in tree} \cup inner, request, found.path)}}

Answers(request) == Execute(leaves, routers, request)

-----------------------------------------------------------------------------
(* Type invariant.                                                         *)

Paths == Seq(Segments \cup {Nameless})

(* The tree is a tree: one node per path, routers all the way down to it,   *)
(* and the key "" only for an executor.                                    *)
TypeOK ==
  /\ leaves \subseteq [path : Paths, exec : Execs]
  /\ routers \subseteq Paths
  /\ duplicate \in BOOLEAN
  /\ todo \in Seq(Names)
  /\ <<>> \in routers
  /\ LeafPaths \cap routers = {}
  /\ \A node \in Nodes : Above(node) \subseteq routers
  /\ \A l, m \in leaves : l.path = m.path => l = m
  /\ \A path \in LeafPaths : Plain(path) \in Seq(Segments)
  /\ routers \subseteq Seq(Segments)

-----------------------------------------------------------------------------
(* Registration.                                                           *)

registry ==
  {[name |-> Plain(leaf.path), exec |-> leaf.exec] : leaf \in leaves}

Contract == INSTANCE FlatRegistry

(* Whatever moves inside the tree, callers see a flat table of names: no   *)
(* registration is lost or renamed by another, a second one for a name is  *)
(* refused and changes nothing, and unregistering takes one name away.     *)
Implements == Contract!Spec

-----------------------------------------------------------------------------
(* Routing.                                                                *)

(* A name covers a request when their segments agree as far as the name    *)
(* goes; a wildcard agrees with every segment, and with a missing one.     *)
Covers(name, request) ==
  \A i \in 1..Len(name) :
    \/ name[i] = Wildcard
    \/ i <= Len(request) /\ name[i] = request[i]

(* An executor gets every task that names it, and no task goes to an       *)
(* executor whose name does not cover the task's; an executor is told      *)
(* exactly what follows its name, wherever it sits in the tree.            *)
RoutesRight ==
  /\ \A leaf \in leaves :
       Answers(Plain(leaf.path)) = {[exec |-> leaf.exec, told |-> <<>>]}
  /\ \A request \in Requests : \A answer \in Answers(request) :
       \E entry \in registry :
         /\ entry.exec = answer.exec
         /\ Covers(entry.name, request)
         /\ answer.told =
              SubSeq(request, Len(entry.name) + 1, Len(request))

(* The tree that registering the present names in an empty router builds.  *)
FreshRouters == {<<>>} \cup UNION {Above(name) : name \in Contract!Registered}

FreshLeaves ==
  {[path |-> IF entry.name \in FreshRouters
             THEN Append(entry.name, Nameless) ELSE entry.name,
    exec |-> entry.exec] : entry \in registry}

Emptied == {path \in routers \ {<<>>} : Below(path) \cap LeafPaths = {}}

(* What was registered and unregistered before does not matter to a task,  *)
(* but for one thing: a router that UnregisterExecutors emptied and left   *)
(* behind can hide a wildcard or a shorter name from tasks it covers.      *)
OnlyEmptiedHide ==
  \A request \in Requests :
    \/ Answers(request) = Execute(FreshLeaves, FreshRouters, request)
    \/ /\ Answers(request) = {}
       /\ \E path \in Emptied : Covers(path, request)
=============================================================================
