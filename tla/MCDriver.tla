------------------------------ MODULE MCDriver ------------------------------
(***************************************************************************)
(* Three plugins, of which two end in the same path segment, an executor   *)
(* of the process itself with the name of the third, and two sessions.     *)
(***************************************************************************)
EXTENDS Command

CONSTANTS p1, p2, p3, s1, t1, t2, build, deploy

MCName == [e \in {p1, p2, p3, s1} |->
             IF e \in {p1, s1} THEN "kustomize" ELSE "holos"]

MCHome == [t \in {t1, t2} |-> build]
=============================================================================
