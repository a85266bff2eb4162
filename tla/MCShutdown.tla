----------------------------- MODULE MCShutdown -----------------------------
(* One plugin and one executor of the process itself.                      *)
EXTENDS Shutdown

CONSTANTS p1, s1

MCName == [e \in {p1, s1} |-> e]
=============================================================================
