---------------------------- MODULE MCRpcSession ----------------------------
(***************************************************************************)
(* An instance of RpcSession and SessionLogs for TLC: two sessions, one of *)
(* them with two tasks.                                                    *)
(***************************************************************************)
EXTENDS SessionLogs

CONSTANTS S1, S2, T1, T2

TwoSessions == {S1, S2}
TwoTasks == {T1, T2}
HomeOf == [t \in Tasks |-> S1]
=============================================================================
