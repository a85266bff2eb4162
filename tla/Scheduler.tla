----------------------------- MODULE Scheduler ------------------------------
(***************************************************************************)
(* pkg/executor/scheduler/scheduler.go: the root of the executor tree.     *)
(* Execute and ExecuteMany run a task, or a list of them, and every        *)
(* followup the executions return, on the goroutines of an                 *)
(* errgroup.Group whose limit is the scheduler's maxConcurrency.           *)
(*                                                                         *)
(* One goroutine per task, plus the one that made the call.  Each goroutine*)
(* goes through executeImpl: call the wrapped executor, hand the followups *)
(* one by one to Group.Go, append the outputs to the caller's result.      *)
(* Group.Go BLOCKS the goroutine that calls it while the group is full,    *)
(* and that goroutine keeps its own slot meanwhile.                        *)
(*                                                                         *)
(* errgroup (golang.org/x/sync) is not part of the repository; its         *)
(* semaphore, wait group and first error are modelled from their use here. *)
(* The wrapped executor is arbitrary: it may fail, and may return any list *)
(* of fresh followups.                                                     *)
(***************************************************************************)
EXTENDS Integers, Sequences, FiniteSets

CONSTANTS
  Tasks,      \* the *task.Task values that may come to exist
  Caller,     \* the goroutine inside Execute or ExecuteMany
  NoError,    \* a nil error
  Limit       \* maxConcurrency; negative for NoConcurrencyLimit

ASSUME SchedulerAssumption ==
  /\ IsFiniteSet(Tasks)
  /\ Caller \notin Tasks
  /\ NoError \notin Tasks
  /\ Limit \in Int

VARIABLES
  pc,         \* where the goroutine of each task is
  outcome,    \* what the executor returned for each task
  pending,    \* followups (for Caller: tasks) not yet accepted by Group.Go
  id,         \* task.ID: the names from the root task down
  collected,  \* how many times each task's outputs were added to result
  sem,        \* tokens in the group's semaphore
  wg,         \* the group's wait group counter
  groupErr,   \* the first error recorded by the group
  cancelled,  \* has the group's context been cancelled?
  inline,     \* the task Execute runs on the caller's own goroutine
  returned,   \* has Execute / ExecuteMany returned?
  callerErr   \* the error it returned

vars == <<pc, outcome, pending, id, collected, sem, wg, groupErr, cancelled,
          inline, returned, callerErr>>

group == <<sem, wg, groupErr, cancelled>>
call  == <<inline, returned, callerErr>>

-----------------------------------------------------------------------------
(* Lists of tasks: what a caller submits and what an executor returns.     *)

Lists(S) ==
  UNION {{s \in [1..n -> S] : \A i, j \in 1..n : s[i] = s[j] => i = j}
           : n \in 0..Cardinality(S)}

Elements(s) == {s[i] : i \in 1..Len(s)}

Unborn == {t \in Tasks : pc[t] = "unknown"}

-----------------------------------------------------------------------------
(* The errgroup.                                                           *)

Limited == Limit >= 0

(* Mistake: SetLimit(n + 1).                                               *)
FullOffByOne == Limited /\ sem > Limit

Full == Limited /\ sem >= Limit

(***************************************************************************)
(* ExecuteMany submits its tasks; Execute runs its task on the caller.     *)
(***************************************************************************)
Init ==
  /\ \E roots \in Lists(Tasks) :
       \/ /\ inline = {}
          /\ pending = [p \in Tasks \cup {Caller} |->
                          IF p = Caller THEN roots ELSE <<>>]
          /\ pc = [t \in Tasks |->
                     IF t \in Elements(roots) THEN "queued" ELSE "unknown"]
       \/ /\ Len(roots) = 1
          /\ inline = Elements(roots)
          /\ pending = [p \in Tasks \cup {Caller} |-> <<>>]
          /\ pc = [t \in Tasks |->
                     IF t \in Elements(roots) THEN "executing" ELSE "unknown"]
  /\ outcome = [t \in Tasks |-> "none"]
  /\ id = [t \in Tasks |-> <<t>>]
  /\ collected = [t \in Tasks |-> 0]
  /\ sem = 0
  /\ wg = 0
  /\ groupErr = NoError
  /\ cancelled = FALSE
  /\ returned = FALSE
  /\ callerErr = NoError

(***************************************************************************)
(* errgrp.Go: take a token, count the goroutine, start it.  The goroutine  *)
(* of a followup begins by making its ID a child of its parent's.          *)
(***************************************************************************)
(* Mistake: followup.ID.GetChild(tsk.ID).                                  *)
ChildIdSwapped(p, c) == id[c] \o id[p]

ChildId(p, c) == id[p] \o id[c]

Go(p) ==
  /\ pending[p] # <<>>
  /\ ~Full
  /\ LET c == Head(pending[p]) IN
       /\ pc' = [pc EXCEPT ![c] = "executing"]
       /\ id' = IF p = Caller THEN id ELSE [id EXCEPT ![c] = ChildId(p, c)]
  /\ pending' = [pending EXCEPT ![p] = Tail(@)]
  /\ sem' = IF Limited THEN sem + 1 ELSE sem
  /\ wg' = wg + 1
  /\ UNCHANGED <<outcome, collected, groupErr, cancelled, call>>

(***************************************************************************)
(* s.Executor.Execute returned nil and left followups in localRes.         *)
(***************************************************************************)
ExecuteOk(t) ==
  /\ pc[t] = "executing"
  /\ \E followups \in Lists(Unborn) :
       /\ pending' = [pending EXCEPT ![t] = followups]
       /\ pc' = [u \in Tasks |->
                   IF u = t THEN "spawning"
                   ELSE IF u \in Elements(followups) THEN "queued"
                   ELSE pc[u]]
  /\ outcome' = [outcome EXCEPT ![t] = "ok"]
  /\ UNCHANGED <<id, collected, group, call>>

(* Mistake: the outputs of a failed execution are collected too.           *)
ExecuteErrCollects(t) ==
  /\ pc[t] = "executing"
  /\ t \notin inline
  /\ outcome' = [outcome EXCEPT ![t] = "err"]
  /\ pc' = [pc EXCEPT ![t] = "failed"]
  /\ collected' = [collected EXCEPT ![t] = @ + 1]
  /\ UNCHANGED <<pending, id, group, call>>

(***************************************************************************)
(* s.Executor.Execute returned an error: executeImpl returns at once.  On  *)
(* the caller's goroutine Execute then returns without waiting.            *)
(***************************************************************************)
ExecuteErr(t) ==
  /\ pc[t] = "executing"
  /\ outcome' = [outcome EXCEPT ![t] = "err"]
  /\ IF t \in inline
     THEN /\ pc' = [pc EXCEPT ![t] = "done"]
          /\ inline' = {}
          /\ returned' = TRUE
          /\ callerErr' = t
     ELSE /\ pc' = [pc EXCEPT ![t] = "failed"]
          /\ UNCHANGED call
  /\ UNCHANGED <<pending, id, collected, group>>

(***************************************************************************)
(* The followup loop is over: result.AddOutputs, and executeImpl returns.  *)
(***************************************************************************)
AddOutputs(t) ==
  /\ pc[t] = "spawning"
  /\ pending[t] = <<>>
  /\ collected' = [collected EXCEPT ![t] = @ + 1]
  /\ pc' = [pc EXCEPT ![t] = IF t \in inline THEN "done" ELSE "exiting"]
  /\ inline' = inline \ {t}
  /\ UNCHANGED <<outcome, pending, id, group, returned, callerErr>>

(***************************************************************************)
(* The group's goroutine got an error from executeImpl: the first one is   *)
(* kept and cancels the context.                                           *)
(***************************************************************************)
RecordError(t) ==
  /\ pc[t] = "failed"
  /\ groupErr' = IF groupErr = NoError THEN t ELSE groupErr
  /\ cancelled' = TRUE
  /\ pc' = [pc EXCEPT ![t] = "exiting"]
  /\ UNCHANGED <<outcome, pending, id, collected, sem, wg, call>>

(* Mistakes: a failed goroutine keeps its token, or its place in the group. *)
ReleaseKeepsToken(t) ==
  /\ pc[t] = "exiting"
  /\ sem' = IF Limited /\ outcome[t] = "ok" THEN sem - 1 ELSE sem
  /\ pc' = [pc EXCEPT ![t] = "released"]
  /\ UNCHANGED <<outcome, pending, id, collected, wg, groupErr, cancelled, call>>

WgDoneForgets(t) ==
  /\ pc[t] = "released"
  /\ wg' = IF outcome[t] = "ok" THEN wg - 1 ELSE wg
  /\ pc' = [pc EXCEPT ![t] = "done"]
  /\ UNCHANGED <<outcome, pending, id, collected, sem, groupErr, cancelled, call>>

(***************************************************************************)
(* Group.done: give the token back, then count the goroutine out.          *)
(***************************************************************************)
Release(t) ==
  /\ pc[t] = "exiting"
  /\ sem' = IF Limited THEN sem - 1 ELSE sem
  /\ pc' = [pc EXCEPT ![t] = "released"]
  /\ UNCHANGED <<outcome, pending, id, collected, wg, groupErr, cancelled, call>>

WgDone(t) ==
  /\ pc[t] = "released"
  /\ wg' = wg - 1
  /\ pc' = [pc EXCEPT ![t] = "done"]
  /\ UNCHANGED <<outcome, pending, id, collected, sem, groupErr, cancelled, call>>

(* Mistakes: not waiting for the goroutines, and dropping Wait's error.    *)
WaitNot ==
  /\ ~returned
  /\ inline = {}
  /\ pending[Caller] = <<>>
  /\ returned' = TRUE
  /\ callerErr' = groupErr
  /\ cancelled' = TRUE
  /\ UNCHANGED <<pc, outcome, pending, id, collected, sem, wg, groupErr, inline>>

WaitDropsError ==
  /\ ~returned
  /\ inline = {}
  /\ pending[Caller] = <<>>
  /\ wg = 0
  /\ returned' = TRUE
  /\ callerErr' = NoError
  /\ cancelled' = TRUE
  /\ UNCHANGED <<pc, outcome, pending, id, collected, sem, wg, groupErr, inline>>

(***************************************************************************)
(* errgrp.Wait on the caller's goroutine, after its own executeImpl or     *)
(* submission loop.                                                        *)
(***************************************************************************)
Wait ==
  /\ ~returned
  /\ inline = {}
  /\ pending[Caller] = <<>>
  /\ wg = 0
  /\ returned' = TRUE
  /\ callerErr' = groupErr
  /\ cancelled' = TRUE
  /\ UNCHANGED <<pc, outcome, pending, id, collected, sem, wg, groupErr, inline>>

(* The call has returned; nothing more happens.                            *)
Returned == returned /\ UNCHANGED vars

Step(t) ==
  \/ ExecuteOk(t) \/ ExecuteErr(t) \/ AddOutputs(t)
  \/ RecordError(t) \/ Release(t) \/ WgDone(t)

Next ==
  \/ \E p \in Tasks \cup {Caller} : Go(p)
  \/ \E t \in Tasks : Step(t)
  \/ Wait
  \/ Returned

Spec == Init /\ [][Next]_vars

(***************************************************************************)
(* A runnable goroutine runs, and the wrapped executor returns.  A blocked *)
(* Group.Go gets a token once tokens stay available.                       *)
(***************************************************************************)
Fairness ==
  /\ \A p \in Tasks \cup {Caller} : WF_vars(Go(p))
  /\ \A t \in Tasks : WF_vars(Step(t))
  /\ WF_vars(Wait)

FairSpec == Spec /\ Fairness

-----------------------------------------------------------------------------
(* Type invariant.                                                         *)

PcStates == {"unknown", "queued", "executing", "spawning", "failed",
             "exiting", "released", "done"}

(* Every variable has its type; the counters never go below zero, which    *)
(* the semaphore and the wait group of errgroup rely on.                   *)
TypeOK ==
  /\ pc \in [Tasks -> PcStates]
  /\ outcome \in [Tasks -> {"none", "ok", "err"}]
  /\ pending \in [Tasks \cup {Caller} -> Seq(Tasks)]
  /\ id \in [Tasks -> Seq(Tasks)]
  /\ collected \in [Tasks -> Nat]
  /\ sem \in Nat
  /\ wg \in Nat
  /\ groupErr \in Tasks \cup {NoError}
  /\ cancelled \in BOOLEAN
  /\ inline \in SUBSET Tasks
  /\ returned \in BOOLEAN
  /\ callerErr \in Tasks \cup {NoError}

-----------------------------------------------------------------------------
(* Safety.                                                                 *)

(* The goroutines of the group that hold a token, and all of its live      *)
(* goroutines.                                                             *)
Holders ==
  {t \in Tasks \ inline : pc[t] \in {"executing", "spawning", "failed", "exiting"}}

Members == Holders \cup {t \in Tasks : pc[t] = "released"}

Born == {t \in Tasks : pc[t] # "unknown"}

(* The -j flag is "the max number of goroutines to run": never more than   *)
(* Limit goroutines of the group are between taking and returning a token. *)
ConcurrencyBounded == Limited => Cardinality(Holders) <= Limit

(* Execute and ExecuteMany return only when no goroutine they started is   *)
(* alive and no followup still waits for one: sessions may then be closed. *)
QuietWhenReturned ==
  returned => \A t \in Tasks : pc[t] \in {"unknown", "done"}

(* The caller's result holds the outputs of each task exactly once after   *)
(* its followup loop, and never those of a task whose execution failed.    *)
ResultExact ==
  \A t \in Tasks :
    collected[t] = IF outcome[t] = "ok" /\ pc[t] # "spawning" THEN 1 ELSE 0

(* A task is started only below ancestors that all succeeded: its ID names *)
(* a chain of executed tasks, and a failed task has no running followup.   *)
AncestorsSucceeded ==
  \A t \in Tasks : pc[t] \notin {"unknown", "queued"} =>
    \A i \in 1..Len(id[t]) - 1 : outcome[id[t][i]] = "ok"

(* Every token is held by a goroutine that is itself blocked in Group.Go.  *)
Wedged ==
  /\ Full
  /\ \A t \in Holders : pc[t] = "spawning" /\ pending[t] # <<>>

(* A build can wedge, but only once it has at least two tasks per slot: a  *)
(* blocked holder and the followup it cannot hand over, for each slot.     *)
WedgeNeedsTasks == Wedged => Cardinality(Born) >= 2 * Limit

-----------------------------------------------------------------------------
(***************************************************************************)
(* The inductive invariant behind the safety properties: how lists, program *)
(* counters, counters and errors determine one another.                    *)
(***************************************************************************)
Procs == Tasks \cup {Caller}

(* A task is queued exactly when it is in one list, once, and only a task   *)
(* in its followup loop has a list.                                        *)
PendingQueued ==
  \A p \in Procs : \A i \in 1..Len(pending[p]) : pc[pending[p][i]] = "queued"

PendingUnique ==
  \A p, q \in Procs : \A i \in 1..Len(pending[p]), j \in 1..Len(pending[q]) :
    pending[p][i] = pending[q][j] => p = q /\ i = j

QueuedPending ==
  \A t \in Tasks : pc[t] = "queued" =>
    \E p \in Procs : t \in Elements(pending[p])

SpawnersOnly == \A t \in Tasks : pending[t] # <<>> => pc[t] = "spawning"

(* The group's counters count goroutines.                                  *)
CountersExact ==
  /\ sem = IF Limited THEN Cardinality(Holders) ELSE 0
  /\ wg = Cardinality(Members)

(* While Execute runs its task inline nothing else exists, until the task   *)
(* has succeeded.                                                          *)
InlineFirst ==
  \A t \in inline :
    /\ pc[t] \in {"executing", "spawning"}
    /\ pending[Caller] = <<>>
    /\ pc[t] = "executing" => \A u \in Tasks \ {t} : pc[u] = "unknown"

ReturnedQuiet ==
  returned => inline = {} /\ pending[Caller] = <<>> /\ Members = {}

OutcomeMatchesPc ==
  \A t \in Tasks :
    /\ outcome[t] = "none" <=> pc[t] \in {"unknown", "queued", "executing"}
    /\ pc[t] = "spawning" => outcome[t] = "ok"
    /\ pc[t] = "failed" => outcome[t] = "err"

(* A failure is the group's error, or is about to be recorded, or came from *)
(* the inline task and ended the call.                                     *)
ErrorsKept ==
  /\ groupErr # NoError => outcome[groupErr] = "err"
  /\ groupErr = NoError /\ ~returned =>
       \A t \in Tasks : outcome[t] = "err" => pc[t] = "failed"

IdChain ==
  \A t \in Tasks :
    /\ pc[t] \in {"unknown", "queued"} => id[t] = <<t>>
    /\ Len(id[t]) > 0 /\ id[t][Len(id[t])] = t
    /\ \A i \in 1..Len(id[t]) - 1 : outcome[id[t][i]] = "ok"

(* The conjunction of the parts; SchedulerProofs shows it is inductive.    *)
IInv ==
  /\ TypeOK
  /\ PendingQueued /\ PendingUnique /\ QueuedPending /\ SpawnersOnly
  /\ CountersExact /\ ConcurrencyBounded
  /\ InlineFirst /\ ReturnedQuiet
  /\ OutcomeMatchesPc /\ ResultExact /\ ErrorsKept /\ IdChain

-----------------------------------------------------------------------------
(* The contract of TaskForest.                                             *)

(* Its view of a state: what exists and waits, what succeeded or failed,    *)
(* and what the caller's result holds.                                     *)
ready == {t \in Tasks : pc[t] \in {"queued", "executing"}}
succeeded == {t \in Tasks : outcome[t] = "ok"}
failed == {t \in Tasks : outcome[t] = "err"}
delivered == {t \in Tasks : collected[t] > 0}

Contract == INSTANCE TaskForest WITH answered <- returned, answer <- callerErr

(* The scheduler implements TaskForest: each task is executed once, only   *)
(* after the task it follows, and the answer is nil exactly when every     *)
(* task, followups of followups included, succeeded and was delivered.     *)
Implements == Contract!Spec

-----------------------------------------------------------------------------
(* Liveness.                                                               *)

(* Nothing but a wedge keeps Execute and ExecuteMany from returning.       *)
ReturnsUnlessWedged == <>(returned \/ Wedged)
=============================================================================
