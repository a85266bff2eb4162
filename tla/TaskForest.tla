----------------------------- MODULE TaskForest -----------------------------
(***************************************************************************)
(* What the scheduler promises its caller, with no goroutine, slot or      *)
(* wait group in sight: "Execute will execute the task and all of it's     *)
(* followups" (pkg/executor/scheduler/scheduler.go).                       *)
(*                                                                         *)
(* Tasks form a forest that grows while it is executed.  A ready task is   *)
(* executed once; if it succeeds it may make fresh tasks ready, and its    *)
(* outputs are delivered once; if it fails its followups never exist.  The *)
(* caller is answered after every ready task was executed: with success    *)
(* exactly when all of them succeeded, and otherwise with the error of a   *)
(* task that failed.                                                       *)
(***************************************************************************)
CONSTANTS
  Tasks,     \* every task that may come to exist
  NoError    \* the answer of a build in which nothing failed

VARIABLES
  ready,      \* tasks that exist and have not been executed
  succeeded,  \* tasks whose execution succeeded
  failed,     \* tasks whose execution failed
  delivered,  \* tasks whose outputs are in the caller's result
  answered,   \* has the call returned?
  answer      \* the error it returned, or NoError

forest == <<ready, succeeded, failed, delivered, answered, answer>>

Unborn == Tasks \ (ready \cup succeeded \cup failed)

Init ==
  /\ ready \in SUBSET Tasks
  /\ succeeded = {}
  /\ failed = {}
  /\ delivered = {}
  /\ answered = FALSE
  /\ answer = NoError

Succeed(t) ==
  /\ t \in ready
  /\ \E followups \in SUBSET Unborn :
       ready' = (ready \ {t}) \cup followups
  /\ succeeded' = succeeded \cup {t}
  /\ UNCHANGED <<failed, delivered, answered, answer>>

Deliver(t) ==
  /\ t \in succeeded \ delivered
  /\ ~answered
  /\ delivered' = delivered \cup {t}
  /\ UNCHANGED <<ready, succeeded, failed, answered, answer>>

Fail(t) ==
  /\ t \in ready
  /\ ready' = ready \ {t}
  /\ failed' = failed \cup {t}
  /\ UNCHANGED <<succeeded, delivered, answered, answer>>

Answer ==
  /\ ~answered
  /\ ready = {}
  /\ delivered = succeeded
  /\ answered' = TRUE
  /\ IF failed = {} THEN answer' = NoError ELSE answer' \in failed
  /\ UNCHANGED <<ready, succeeded, failed, delivered>>

(***************************************************************************)
(* The call whose only task failed: execution and answer are one step.     *)
(***************************************************************************)
FailAndAnswer(t) ==
  /\ ~answered
  /\ ready = {t}
  /\ delivered = succeeded
  /\ ready' = {}
  /\ failed' = failed \cup {t}
  /\ answered' = TRUE
  /\ answer' \in failed'
  /\ UNCHANGED <<succeeded, delivered>>

Next ==
  \/ \E t \in Tasks : Succeed(t) \/ Deliver(t) \/ Fail(t) \/ FailAndAnswer(t)
  \/ Answer

Spec == Init /\ [][Next]_forest

LiveSpec == Spec /\ WF_forest(Next)
=============================================================================
