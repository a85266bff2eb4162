---------------------------- MODULE FlatRegistry ----------------------------
(***************************************************************************)
(* What a Router (pkg/executor/router/router.go) promises those who        *)
(* register executors in it, with no tree in sight: a table with at most   *)
(* one executor per name.  Registering a name twice is an error and changes*)
(* nothing; unregistering a name removes it and nothing else.              *)
(***************************************************************************)
CONSTANTS Names, Execs

VARIABLES
  registry,   \* entries [name, exec]
  duplicate   \* did the last registration fail with ErrDuplicateExecutor?

Registered == {entry.name : entry \in registry}

Init == registry = {} /\ duplicate = FALSE

Register(name, exec) ==
  /\ name \notin Registered
  /\ registry' = registry \cup {[name |-> name, exec |-> exec]}
  /\ duplicate' = FALSE

Refuse(name) ==
  /\ name \in Registered
  /\ duplicate' = TRUE
  /\ UNCHANGED registry

Unregister(name) ==
  /\ registry' = {entry \in registry : entry.name # name}
  /\ UNCHANGED duplicate

Next ==
  \E name \in Names :
    \/ \E exec \in Execs : Register(name, exec)
    \/ Refuse(name)
    \/ Unregister(name)

Spec == Init /\ [][Next]_<<registry, duplicate>>
=============================================================================
