---------------------------- MODULE AtomicResult ----------------------------
(***************************************************************************)
(* What pkg/task/result.go promises to goroutines that share results: two  *)
(* lists that only grow, each call at one moment, and an Append that takes *)
(* both lists of the other result as they are at that moment.              *)
(***************************************************************************)
EXTENDS Naturals, Sequences

CONSTANTS
  Results,
  Given      \* the values that calls on each result may add

Lists == {"outputs", "followups"}

VARIABLE lists

Init == lists = [r \in Results |-> [l \in Lists |-> <<>>]]

Extends(new, old) ==
  /\ Len(old) <= Len(new)
  /\ \A i \in 1..Len(old) : new[i] = old[i]

Add(r, l) ==
  /\ lists' = [lists EXCEPT ![r][l] = lists'[r][l]]
  /\ Extends(lists'[r][l], lists[r][l])
  /\ \A i \in Len(lists[r][l]) + 1..Len(lists'[r][l]) : lists'[r][l][i] \in Given[r]

AppendAll(r, other) ==
  lists' = [lists EXCEPT ![r] = [l \in Lists |-> @[l] \o lists[other][l]]]

Next ==
  \/ \E r \in Results, l \in Lists : Add(r, l)
  \/ \E r \in Results : \E other \in Results \ {r} : AppendAll(r, other)

Spec == Init /\ [][Next]_lists
=============================================================================
