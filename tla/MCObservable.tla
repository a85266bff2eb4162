---------------------------- MODULE MCObservable ----------------------------
(***************************************************************************)
(* Instances of Observable and TaskTree for TLC: two tasks of one session, *)
(* one with an ID below the other's and below a name of no task, executed  *)
(* in any order.                                                           *)
(***************************************************************************)
EXTENDS TaskTree

CONSTANTS T1, T2, S1

TwoTasks == {T1, T2}
OneSession == {S1}

HomeOf == [t \in Tasks |-> S1]
NamesOf == {"a", "b", "c"}
PathOf == [t \in Tasks |-> IF t = T1 THEN <<"a">> ELSE <<"a", "b", "c">>]
=============================================================================
