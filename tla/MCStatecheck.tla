---------------------------- MODULE MCStatecheck ----------------------------
(***************************************************************************)
(* Instances of Statecheck for TLC: two tasks, of which the first reads a  *)
(* source file.  The second one is a followup that reads what the first    *)
(* one made; or a sibling that reads it, as cmd/bonk/main.go's Kustomize   *)
(* reads what Resources makes.                                             *)
(***************************************************************************)
EXTENDS Statecheck, TLC

CONSTANTS T1, T2, D1, D2, F, V1, V2

TwoTasks == {T1, T2}
TwoIds == {D1, D2}
OneSource == {F}
TwoVersions == {V1, V2}
OneVersion == {V1}
NoExecutor == {}
SecondExecutor == {"e2"}

OwnId == [t \in Tasks |-> IF t = T1 THEN D1 ELSE D2]
Chain == [t \in Tasks |-> IF t = T1 THEN NoTask ELSE T1]
Siblings == [t \in Tasks |-> NoTask]

Asking(executors, args, inputs) ==
  [executor : executors, args : args, input : inputs]

(* Between builds the first task may change its executor or its arguments, *)
(* the second one its input.                                               *)
AskFollowup == [t \in Tasks |->
  IF t = T1 THEN Asking({"e1"}, {"a1", "a2"}, {F}) \cup Asking({"e2"}, {"a1"}, {F})
            ELSE Asking({"e1"}, {"a1"}, {D1, F})]

(* Nothing changes in what the tasks ask for.                              *)
AskSibling == [t \in Tasks |->
  Asking({"e1"}, {"a1"}, IF t = T1 THEN {F} ELSE {D1})]

VersionSymmetry == Permutations(Versions)
=============================================================================
