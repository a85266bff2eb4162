------------------------------ MODULE MCRouter ------------------------------
(***************************************************************************)
(* Names that nest, share prefixes, and end in a wildcard, after the names *)
(* of pkg/executor/router/router_test.go: "testing.child.abc" below        *)
(* "testing.child" below "testing", "testing.*", "*" and "unrelated".      *)
(***************************************************************************)
EXTENDS Router

CONSTANTS testing, child, abc, unrelated

MCSegments == {testing, child, abc, unrelated, Wildcard}

MCNames ==
  {<<testing>>, <<testing, child>>, <<testing, child, abc>>,
   <<testing, Wildcard>>, <<Wildcard>>, <<unrelated>>}

MCRequests ==
  MCNames \cup
  {<<testing, abc>>, <<testing, child, child>>, <<unrelated, abc>>,
   <<child>>, <<testing, abc, child>>}
=============================================================================
