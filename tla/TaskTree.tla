------------------------------ MODULE TaskTree ------------------------------
(***************************************************************************)
(* pkg/observer/bubbletea: the tree a build is shown as.  The program of   *)
(* bubbletea is a listener of Observable: the call sends the message to    *)
(* the program's event loop, which takes one when it has applied the one   *)
(* before to a tree of nodes, found by the parts of the task's ID.  The    *)
(* loop ends at ctrl-c, or when the program fails; messages are then       *)
(* dropped and the tree stays as it is.  Every listener of this module is  *)
(* such a program.                                                         *)
(***************************************************************************)
EXTENDS Observable

CONSTANTS
  Parts,   \* what separators leave of an ID
  Path     \* the parts of each task's ID; one at least, perhaps empty

ASSUME TaskTreeAssumption == Path \in [Tasks -> Seq(Parts) \ {<<>>}]

VARIABLES
  tree,    \* what each listener shows: the status of every node, by its path
  applied, \* how many of the messages it received are in its tree
  running  \* whether its event loop has not ended

loopVars == <<tree, applied, running>>

treeVars == <<vars, loopVars>>

NoTree == [n \in {} |-> "none"]

(* The nodes on the way to a path, and its own.                            *)
NodesTo(p) == {SubSeq(p, 1, i) : i \in 1..Len(p)}

(* Mistake: the status is set at every node on the way.                    *)
UpdateAll(nodes, m) ==
  [n \in DOMAIN nodes \cup NodesTo(Path[m.task]) |->
     IF n \in NodesTo(Path[m.task]) THEN m.status ELSE nodes[n]]

(* The status of a node; one that is missing is made, with StatusNone.      *)
Node(nodes, n) == IF n \in DOMAIN nodes THEN nodes[n] ELSE "none"

(* taskTree.Update: walk down, adding the nodes that are missing, and set   *)
(* the value of the last.                                                  *)
Update(nodes, m) ==
  [n \in DOMAIN nodes \cup NodesTo(Path[m.task]) |->
     IF n = Path[m.task] THEN m.status ELSE Node(nodes, n)]

(* The event loop waits for a message.                                     *)
Idle(l) == running[l] /\ applied[l] = Len(received[l])

(* program.Send hands the message over to an event loop that waits for one.*)
Take(n) ==
  /\ Idle(n.to)
  /\ Deliver(n)
  /\ UNCHANGED loopVars

(* program.Send after the end of the loop: the listener just returns.      *)
Drop(n) ==
  /\ ~running[n.to]
  /\ Deliver(n)
  /\ UNCHANGED loopVars

(* The event loop applies the message that it took.                        *)
Apply(l) ==
  /\ ~panicked
  /\ running[l]
  /\ applied[l] < Len(received[l])
  /\ tree' = [tree EXCEPT ![l] = Update(@, received[l][applied[l] + 1])]
  /\ applied' = [applied EXCEPT ![l] = @ + 1]
  /\ UNCHANGED <<vars, running>>

(* ctrl-c, or an error of the program, ends the loop.                      *)
EndLoop(l) ==
  /\ ~panicked
  /\ Idle(l)
  /\ running' = [running EXCEPT ![l] = FALSE]
  /\ UNCHANGED <<vars, tree, applied>>

TreeInit ==
  /\ Init
  /\ tree = [l \in 1..Listeners |-> NoTree]
  /\ applied = [l \in 1..Listeners |-> 0]
  /\ running = [l \in 1..Listeners |-> TRUE]

Send(n) == Take(n) \/ Drop(n)

TreeNext ==
  \/ Work /\ UNCHANGED loopVars
  \/ \E n \in Notification : Send(n)
  \/ \E l \in 1..Listeners : Apply(l) \/ EndLoop(l)

TreeSpec == TreeInit /\ [][TreeNext]_treeVars

(* The fairness of Observable; an event loop that runs goes on.  Nobody    *)
(* has to end it.                                                          *)
FairTreeSpec ==
  /\ TreeSpec
  /\ \A t \in Tasks : WF_treeVars(TaskStep(t) /\ UNCHANGED loopVars)
  /\ \A s \in Sessions : WF_treeVars(SessionStep(s) /\ UNCHANGED loopVars)
  /\ \A n \in Notification : WF_treeVars(Send(n))
  /\ \A l \in 1..Listeners : WF_treeVars(Apply(l))

-----------------------------------------------------------------------------
(* Properties.                                                             *)

(* The messages in a listener's tree that are about the task of a node.    *)
About(l, n) == {i \in 1..applied[l] : Path[received[l][i].task] = n}

LatestStatus(l, n) ==
  IF About(l, n) = {} THEN "none"
  ELSE received[l][CHOOSE i \in About(l, n) : \A j \in About(l, n) : j <= i].status

(* The tree has a node for every task that an applied message told of and  *)
(* for each of its ancestors, in whatever order they came, and no other.   *)
NodesAreThose ==
  \A l \in 1..Listeners :
    DOMAIN tree[l] = UNION {NodesTo(Path[received[l][i].task]) : i \in 1..applied[l]}

(* A node's status is that of the latest applied message of a task with    *)
(* exactly its ID, or none when it only leads to other tasks.              *)
NodesShowLatest ==
  \A l \in 1..Listeners : \A n \in DOMAIN tree[l] : tree[l][n] = LatestStatus(l, n)

(* When no task is executing and no message is on its way, the nodes with  *)
(* a status, in a tree whose event loop runs and has nothing to apply, are *)
(* those of the tasks that were executed.                                  *)
EndShowsExecuted ==
  (inflight = {} /\ \A t \in Tasks : ~Executing(t)) =>
    \A l \in 1..Listeners : Idle(l) =>
      {n \in DOMAIN tree[l] : tree[l][n] # "none"} = {Path[t] : t \in {u \in Tasks : pc[u] = "done"}}

(* The tree of every listener shows the messages that its event loop has   *)
(* applied, and no others, at the nodes of their tasks; and all that was   *)
(* executed, when its loop has lasted to the end.                          *)
TreeIsRight == NodesAreThose /\ NodesShowLatest /\ EndShowsExecuted
=============================================================================
