----------------------------- MODULE Observable -----------------------------
(***************************************************************************)
(* pkg/executor/observable: an executor that tells listeners when a task   *)
(* begins and how it ends.                                                 *)
(*                                                                         *)
(* Execute looks the session up, triggers a "running" message, calls the   *)
(* wrapped executor and triggers a message with its outcome.  Triggering   *)
(* starts one goroutine per listener in the session's wait group: it is    *)
(* that goroutine which calls the listener, whenever it gets to run.       *)
(* CloseSession waits for the wait group, forgets the session, and closes  *)
(* it in the wrapped executor.                                             *)
(*                                                                         *)
(* A session may be closed while tasks of it execute, as the tests of the  *)
(* package do and driver.Run does not: such a task has goroutines in the   *)
(* wait group only while one of its messages is on its way, so that Wait   *)
(* may return long before it has ended.  A lookup in the map of sessions   *)
(* and a change of it are single steps: the map has no lock, and races on  *)
(* it are left out.                                                        *)
(***************************************************************************)
EXTENDS Naturals, Sequences, FiniteSets

CONSTANTS
  Tasks,      \* tasks that may be executed, each at most once
  Sessions,   \* task.SessionID values, each opened at most once
  Home,       \* the session of each task
  Listeners   \* how many observers Listen registered

ASSUME ObservableAssumption ==
  /\ Home \in [Tasks -> Sessions]
  /\ Listeners \in Nat

VARIABLES
  session,   \* how far each session's OpenSession and CloseSession have come
  pc,        \* how far each task's Execute has come
  outcome,   \* what the wrapped executor returned for each task
  next,      \* the listener that the task's trigger loop reaches next
  inflight,  \* goroutines of the wait groups: a listener to call, a message
  received,  \* the messages each listener was called with, in order
  panicked,  \* whether a wait group has ended the process
  late       \* history: tasks whose Execute had not returned when their
             \* session's CloseSession was called

vars == <<session, pc, outcome, next, inflight, received, panicked, late>>

-----------------------------------------------------------------------------
(* TaskStatusMsg.                                                          *)

Status == {"running", "success", "error"}

Msg(t, s) == [task |-> t, status |-> s]

Msgs == [task : Tasks, status : Status]

(* TaskRunningMsg before the wrapped executor, TaskFinishedMsg after it.    *)
NewStatus(t) == IF pc[t] = "starting" THEN "running" ELSE outcome[t]

(* Sessions in the map: from OpenSession's first statement on, even when   *)
(* the wrapped OpenSession fails, until CloseSession deletes them.         *)
Registered(s) ==
  session[s] \in {"opening", "open", "broken", "closing", "waiting", "woken"}

(* The goroutines in the wait group of a session.                          *)
Waiter(s) == {n \in inflight : Home[n.msg.task] = s}

Init ==
  /\ session = [s \in Sessions |-> "none"]
  /\ pc = [t \in Tasks |-> "idle"]
  /\ outcome = [t \in Tasks |-> "none"]
  /\ next = [t \in Tasks |-> 1]
  /\ inflight = {}
  /\ received = [l \in 1..Listeners |-> <<>>]
  /\ panicked = FALSE
  /\ late = {}

-----------------------------------------------------------------------------
(* OpenSession.                                                            *)

OpenSession(s) ==
  /\ session[s] = "none"
  /\ session' = [session EXCEPT ![s] = "opening"]
  /\ UNCHANGED <<pc, outcome, next, inflight, received, panicked, late>>

(* exec.OpenSession returned; an error leaves the session in the map.      *)
InnerOpened(s) ==
  /\ session[s] = "opening"
  /\ session' \in {[session EXCEPT ![s] = "open"], [session EXCEPT ![s] = "broken"]}
  /\ UNCHANGED <<pc, outcome, next, inflight, received, panicked, late>>

-----------------------------------------------------------------------------
(* Execute.                                                                *)

(* A session that was never opened, or that was forgotten, is refused; one *)
(* whose CloseSession waits is not.  Callers wait for OpenSession, and go  *)
(* on only if it did not fail.                                             *)
Execute(t) ==
  /\ pc[t] = "idle"
  /\ session[Home[t]] \notin {"opening", "broken"}
  /\ pc' = [pc EXCEPT ![t] = IF Registered(Home[t]) THEN "starting" ELSE "rejected"]
  /\ late' = late \cup {u \in {t} : session[Home[t]] \in {"closing", "waiting", "woken"}}
  /\ UNCHANGED <<session, outcome, next, inflight, received, panicked>>

(* The call of Execute was accepted and has not returned.                  *)
Executing(t) == pc[t] \in {"starting", "executing", "finishing"}

(* Mistake: one turn too many.                                             *)
NotifyPast(t) ==
  /\ pc[t] \in {"starting", "finishing"}
  /\ next[t] <= Listeners + 1
  /\ inflight' = inflight \cup {[to |-> next[t], msg |-> Msg(t, NewStatus(t))]}
  /\ next' = [next EXCEPT ![t] = @ + 1]
  /\ UNCHANGED <<session, pc, outcome, received, panicked, late>>

(* One turn of trigger's loop: session.waiter.Go.                          *)
Notify(t) ==
  /\ pc[t] \in {"starting", "finishing"}
  /\ next[t] <= Listeners
  /\ inflight' = inflight \cup {[to |-> next[t], msg |-> Msg(t, NewStatus(t))]}
  /\ next' = [next EXCEPT ![t] = @ + 1]
  /\ UNCHANGED <<session, pc, outcome, received, panicked, late>>

(* Mistake: the second trigger goes on where the first one stopped.        *)
TriggeredOnce(t) ==
  /\ pc[t] \in {"starting", "finishing"}
  /\ next[t] > Listeners
  /\ pc' = [pc EXCEPT ![t] = IF @ = "starting" THEN "executing" ELSE "done"]
  /\ UNCHANGED <<session, outcome, next, inflight, received, panicked, late>>

(* The loop is over: call the wrapped executor, or return its error.       *)
Triggered(t) ==
  /\ pc[t] \in {"starting", "finishing"}
  /\ next[t] > Listeners
  /\ next' = [next EXCEPT ![t] = 1]
  /\ pc' = [pc EXCEPT ![t] = IF @ = "starting" THEN "executing" ELSE "done"]
  /\ UNCHANGED <<session, outcome, inflight, received, panicked, late>>

(* Mistake: an error is returned at once.                                  *)
InnerExecutedReturns(t) ==
  /\ pc[t] = "executing"
  /\ \E o \in {"success", "error"} :
       /\ outcome' = [outcome EXCEPT ![t] = o]
       /\ pc' = [pc EXCEPT ![t] = IF o = "error" THEN "done" ELSE "finishing"]
  /\ UNCHANGED <<session, next, inflight, received, panicked, late>>

(* obs.exec.Execute returned.                                              *)
InnerExecuted(t) ==
  /\ pc[t] = "executing"
  /\ \E o \in {"success", "error"} : outcome' = [outcome EXCEPT ![t] = o]
  /\ pc' = [pc EXCEPT ![t] = "finishing"]
  /\ UNCHANGED <<session, next, inflight, received, panicked, late>>

(* Mistake: the goroutine stays in the wait group (Add without Done).      *)
DeliverStays(n) ==
  /\ n \in inflight
  /\ \A i \in DOMAIN received[n.to] : received[n.to][i] # n.msg
  /\ received' = [received EXCEPT ![n.to] = Append(@, n.msg)]
  /\ UNCHANGED <<session, pc, outcome, next, inflight, panicked, late>>

(* A goroutine calls its listener and leaves the wait group.  The last one *)
(* to leave wakes a CloseSession that waits.                               *)
Deliver(n) ==
  LET s == Home[n.msg.task] IN
  /\ ~panicked
  /\ n \in inflight
  /\ received' = [received EXCEPT ![n.to] = Append(@, n.msg)]
  /\ inflight' = inflight \ {n}
  /\ session' = [session EXCEPT ![s] =
                    IF @ = "waiting" /\ Waiter(s) = {n} THEN "woken" ELSE @]
  /\ UNCHANGED <<pc, outcome, next, panicked, late>>

-----------------------------------------------------------------------------
(* CloseSession.                                                           *)

CloseSession(s) ==
  /\ session[s] = "open"
  /\ session' = [session EXCEPT ![s] = "closing"]
  /\ late' = late \cup {t \in Tasks : Home[t] = s /\ Executing(t)}
  /\ UNCHANGED <<pc, outcome, next, inflight, received, panicked>>

(* Mistake: no waiter.Wait().                                              *)
ForgetAtOnce(s) ==
  /\ session[s] = "closing"
  /\ session' = [session EXCEPT ![s] = "forgotten"]
  /\ UNCHANGED <<pc, outcome, next, inflight, received, panicked, late>>

(* waiter.Wait() blocks, or finds nothing to wait for: it returns and the   *)
(* session leaves the map.                                                 *)
Wait(s) ==
  /\ session[s] = "closing"
  /\ session' = [session EXCEPT ![s] = IF Waiter(s) = {} THEN "forgotten" ELSE "waiting"]
  /\ UNCHANGED <<pc, outcome, next, inflight, received, panicked, late>>

(* A Wait that was woken returns.  It panics when the wait group is in use *)
(* again: "WaitGroup is reused before previous Wait has returned".         *)
Woken(s) ==
  /\ session[s] = "woken"
  /\ IF Waiter(s) = {}
     THEN session' = [session EXCEPT ![s] = "forgotten"] /\ UNCHANGED panicked
     ELSE panicked' = TRUE /\ UNCHANGED session
  /\ UNCHANGED <<pc, outcome, next, inflight, received, late>>

InnerClosed(s) ==
  /\ session[s] = "forgotten"
  /\ session' = [session EXCEPT ![s] = "closed"]
  /\ UNCHANGED <<pc, outcome, next, inflight, received, panicked, late>>

-----------------------------------------------------------------------------
Notification == [to : 1..Listeners, msg : Msgs]

(* A panic ends the process: nothing comes after it.                       *)
TaskStep(t) == ~panicked /\ (Notify(t) \/ Triggered(t) \/ InnerExecuted(t))

SessionStep(s) == ~panicked /\ (InnerOpened(s) \/ Wait(s) \/ Woken(s) \/ InnerClosed(s))

Call ==
  /\ ~panicked
  /\ \/ \E s \in Sessions : OpenSession(s) \/ CloseSession(s)
     \/ \E t \in Tasks : Execute(t)

(* What listeners do not see.                                              *)
Work ==
  \/ Call
  \/ \E s \in Sessions : SessionStep(s)
  \/ \E t \in Tasks : TaskStep(t)

Next == Work \/ \E n \in Notification : Deliver(n)

Spec == Init /\ [][Next]_vars

(* Calls that were made go on, listeners return, and so does the wrapped   *)
(* executor.  Nobody has to make a call.                                   *)
FairSpec ==
  /\ Spec
  /\ \A t \in Tasks : WF_vars(TaskStep(t))
  /\ \A s \in Sessions : WF_vars(SessionStep(s))
  /\ \A n \in Notification : WF_vars(Deliver(n))

-----------------------------------------------------------------------------
(* Properties.                                                             *)

TypeOK ==
  /\ session \in [Sessions ->
       {"none", "opening", "open", "broken", "closing", "waiting", "woken", "forgotten", "closed"}]
  /\ pc \in [Tasks ->
       {"idle", "starting", "executing", "finishing", "done", "rejected"}]
  /\ outcome \in [Tasks -> {"none", "success", "error"}]
  /\ next \in [Tasks -> 1..Listeners + 1]
  /\ inflight \in SUBSET Notification
  /\ received \in [1..Listeners -> Seq(Msgs)]
  /\ panicked \in BOOLEAN
  /\ late \in SUBSET Tasks

Received(l, m) == Cardinality({i \in DOMAIN received[l] : received[l][i] = m})

(* CloseSession has let the session go.                                    *)
Gone(s) == session[s] \in {"forgotten", "closed"}

(* Once CloseSession has let a session go, whatever still runs for it, be  *)
(* it an execution or a listener call, is of a task that was executing at  *)
(* the call of CloseSession or that was accepted after it.  Without such   *)
(* tasks, as in driver.Run, nothing runs: "After this call, no outstanding *)
(* goroutines should be running" (executor.go).  Nor does the wait group   *)
(* panic without them.                                                     *)
ClosedIsQuiet ==
  /\ \A s \in Sessions : Gone(s) =>
       /\ \A t \in Tasks : Home[t] = s /\ Executing(t) => t \in late
       /\ \A n \in Waiter(s) : n.msg.task \in late
  /\ panicked => late # {}

(* Every listener of a session that was closed has been told of every task *)
(* whose execution the caller waited for, exactly once that it runs and    *)
(* exactly once how it ended; of a task that was late, of either at most   *)
(* once; and of no other task.                                             *)
ToldExactly ==
  \A s \in Sessions : Gone(s) =>
    \A t \in Tasks, l \in 1..Listeners : Home[t] = s =>
      \A st \in Status :
        LET due == IF pc[t] \notin {"idle", "rejected"} /\ st \in {"running", outcome[t]} THEN 1 ELSE 0
        IN IF t \in late THEN Received(l, Msg(t, st)) <= due
                         ELSE Received(l, Msg(t, st)) = due

(* Every call of Execute that was accepted is heard by every listener, how *)
(* it began and how it ended, also when it failed and when its session is  *)
(* closed meanwhile, unless the wait group panics.                         *)
EveryoneIsTold ==
  \A t \in Tasks, l \in 1..Listeners :
    pc[t] = "starting" ~>
      \/ panicked
      \/ \E o \in {"success", "error"} :
           Received(l, Msg(t, "running")) = 1 /\ Received(l, Msg(t, o)) = 1

(* CloseSession returns, or the process ends in the wait group's panic.    *)
CloseReturns ==
  \A s \in Sessions : session[s] = "closing" ~> session[s] = "closed" \/ panicked

(* "Status is the new status for the task" (messages.go): a listener's     *)
(* latest message about a task that has ended is how it ended, once its    *)
(* session was closed.                                                     *)
LatestIsFinal ==
  \A t \in Tasks, l \in 1..Listeners :
    (session[Home[t]] = "closed" /\ pc[t] = "done") =>
      \A i \in DOMAIN received[l] :
        received[l][i] = Msg(t, "running") =>
          \E j \in DOMAIN received[l] : j > i /\ received[l][j] = Msg(t, outcome[t])
=============================================================================
