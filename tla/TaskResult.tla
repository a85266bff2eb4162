----------------------------- MODULE TaskResult -----------------------------
(***************************************************************************)
(* pkg/task/result.go: results that goroutines share, each with a          *)
(* sync.RWMutex.  A goroutine that calls Lock first keeps new readers out  *)
(* ("drain") and then waits for those that are in.                         *)
(*                                                                         *)
(* A call works through critical sections: UnmarshalJSON adds to both      *)
(* lists in two, MarshalJSON and String read them in two, and Append has   *)
(* one in which it holds the lock of one result and the read lock of       *)
(* another.  What a call adds is tagged, so that it can be told apart.     *)
(***************************************************************************)
EXTENDS Naturals, Sequences, FiniteSets

CONSTANTS
  Callers,   \* goroutines
  Results,
  Nobody,    \* no caller, and the nil *Result
  MaxCalls   \* bound on the calls of a behaviour

ASSUME ResultAssumption ==
  /\ IsFiniteSet(Callers)
  /\ Nobody \notin Callers \cup Results
  /\ MaxCalls \in Nat

Lists == {"outputs", "followups"}
Tags == [by : Callers, number : Nat, on : Results]

VARIABLES
  lists,     \* outputs and followupTasks of each result
  writer,    \* the caller that has, or has announced, each mu.Lock
  readers,   \* the callers that have its mu.RLock
  at,        \* where each caller is
  call,      \* what it called: op, on, from, the lists it is for, and those still to do
  local,     \* the slices that it has computed, or read
  calls      \* number of calls so far

vars == <<lists, writer, readers, at, call, local, calls>>

Stages == {"idle", "lock", "drain", "rlock", "copy", "store", "read"}
Kinds == {"Add", "Append", "Read"}

(* Mistake: the followups are read before the outputs.                     *)
SectionsSwapped == {<<"outputs">>, <<"followups">>, <<"followups", "outputs">>}

(* What calls are for: one of the lists, or both, one after the other.      *)
Sections == {<<"outputs">>, <<"followups">>, <<"outputs", "followups">>}
Calls == [op : Kinds, on : Results, from : Results \cup {Nobody},
          whole : Sections, todo : Sections \cup {<<>>}, number : Nat]

NoCall(r) == [op |-> "Read", on |-> r, from |-> Nobody,
              whole |-> <<"outputs">>, todo |-> <<>>, number |-> 0]
Empty == [l \in Lists |-> <<>>]

Init ==
  /\ lists = [r \in Results |-> Empty]
  /\ writer = [r \in Results |-> Nobody]
  /\ readers = [r \in Results |-> {}]
  /\ at = [c \in Callers |-> "idle"]
  /\ \E r \in Results : call = [c \in Callers |-> NoCall(r)]
  /\ local = [c \in Callers |-> Empty]
  /\ calls = 0

-----------------------------------------------------------------------------
(* Calls.                                                                  *)

On(c) == call[c].on
From(c) == call[c].from
Appending(c) == call[c].op = "Append"
Adds(c) == call[c].op \in {"Add", "Append"}

(* Mistake: a result is appended to itself.                                *)
GoesOn(op, r, other) == r # Nobody /\ (op = "Append" => other # Nobody)

(* The calls that do anything: not those on a nil result, nor the Append   *)
(* of a nil one or of itself.                                              *)
Locks(op, r, other) ==
  r # Nobody /\ (op = "Append" => other \notin {Nobody, r})

(* GetOutputs, AddOutputs, GetFollowupTasks, AddFollowupTasks, Append,     *)
(* MarshalJSON and String, UnmarshalJSON.                                  *)
Begin(c) ==
  /\ at[c] = "idle" /\ calls < MaxCalls
  /\ calls' = calls + 1
  /\ \E op \in Kinds, r, other \in Results \cup {Nobody} :
       /\ op # "Append" => other = Nobody
       /\ \/ /\ Locks(op, r, other)
             /\ \E whole \in IF op = "Append" THEN {<<"outputs", "followups">>} ELSE Sections :
                  call' = [call EXCEPT ![c] = [op |-> op, on |-> r, from |-> other, whole |-> whole,
                                               todo |-> whole, number |-> calls]]
             /\ at' = [at EXCEPT ![c] = "lock"]
             /\ local' = [local EXCEPT ![c] = Empty]
          \/ ~Locks(op, r, other) /\ UNCHANGED <<at, call, local>>
  /\ UNCHANGED <<lists, writer, readers>>

(* Mistake: AddOutputs takes the read lock.                                *)
LockShared(c) ==
  /\ at[c] = "lock" /\ Adds(c) /\ ~Appending(c)
  /\ writer[On(c)] = Nobody
  /\ readers' = [readers EXCEPT ![On(c)] = @ \cup {c}]
  /\ at' = [at EXCEPT ![c] = "copy"]
  /\ UNCHANGED <<lists, writer, call, local, calls>>

(* mu.Lock()                                                               *)
Announce(c) ==
  /\ at[c] = "lock" /\ Adds(c)
  /\ writer[On(c)] = Nobody
  /\ writer' = [writer EXCEPT ![On(c)] = c]
  /\ at' = [at EXCEPT ![c] = "drain"]
  /\ UNCHANGED <<lists, readers, call, local, calls>>

Acquire(c) ==
  /\ at[c] = "drain"
  /\ readers[On(c)] = {}
  /\ at' = [at EXCEPT ![c] = IF Appending(c) THEN "rlock" ELSE "copy"]
  /\ UNCHANGED <<lists, writer, readers, call, local, calls>>

(* other.mu.RLock()                                                        *)
LockOther(c) ==
  /\ at[c] = "rlock"
  /\ writer[From(c)] = Nobody
  /\ readers' = [readers EXCEPT ![From(c)] = @ \cup {c}]
  /\ at' = [at EXCEPT ![c] = "copy"]
  /\ UNCHANGED <<lists, writer, call, local, calls>>

(* Mistake: Append forgets the followups.                                  *)
SectionFirst(c) == {Head(call[c].todo)}

Section(c) == IF Appending(c) THEN Lists ELSE {Head(call[c].todo)}

Tag(c) == [by |-> c, number |-> call[c].number, on |-> On(c)]

(* What is appended to a list.                                             *)
More(c, l) == IF Appending(c) THEN lists[From(c)][l] ELSE <<Tag(c)>>

Copy(c) ==
  /\ at[c] = "copy"
  /\ local' = [local EXCEPT ![c] = [l \in Lists |-> lists[On(c)][l] \o More(c, l)]]
  /\ at' = [at EXCEPT ![c] = "store"]
  /\ UNCHANGED <<lists, writer, readers, call, calls>>

(* The deferred unlocks, and the next section.                             *)
NextSection(c) ==
  LET rest == IF Appending(c) THEN <<>> ELSE Tail(call[c].todo) IN
  /\ call' = [call EXCEPT ![c].todo = rest]
  /\ at' = [at EXCEPT ![c] = IF rest = <<>> THEN "idle" ELSE "lock"]
  /\ UNCHANGED calls

Store(c) ==
  /\ at[c] = "store"
  /\ lists' = [lists EXCEPT ![On(c)] =
                 [l \in Lists |-> IF l \in Section(c) THEN local[c][l] ELSE @[l]]]
  /\ writer' = [writer EXCEPT ![On(c)] = Nobody]
  /\ readers' = [r \in Results |-> readers[r] \ {c}]
  /\ NextSection(c)
  /\ UNCHANGED local

(* mu.RLock()                                                              *)
LockShort(c) ==
  /\ at[c] = "lock" /\ ~Adds(c)
  /\ writer[On(c)] = Nobody
  /\ readers' = [readers EXCEPT ![On(c)] = @ \cup {c}]
  /\ at' = [at EXCEPT ![c] = "read"]
  /\ UNCHANGED <<lists, writer, call, local, calls>>

Read(c) ==
  /\ at[c] = "read"
  /\ local' = [local EXCEPT ![c] =
                 [l \in Lists |-> IF l \in Section(c) THEN lists[On(c)][l] ELSE @[l]]]
  /\ readers' = [readers EXCEPT ![On(c)] = @ \ {c}]
  /\ NextSection(c)
  /\ UNCHANGED <<lists, writer>>

Step(c) ==
  \/ Announce(c) \/ Acquire(c) \/ LockOther(c) \/ Copy(c) \/ Store(c)
  \/ LockShort(c) \/ Read(c)

Next == \E c \in Callers : Begin(c) \/ Step(c)

Spec == Init /\ [][Next]_vars

(* A goroutine that can run does; nobody need call anything.               *)
FairSpec == Spec /\ \A c \in Callers : WF_vars(Step(c))
-----------------------------------------------------------------------------
(* Properties.                                                             *)

TypeOK ==
  /\ lists \in [Results -> [Lists -> Seq(Tags)]]
  /\ writer \in [Results -> Callers \cup {Nobody}]
  /\ readers \in [Results -> SUBSET Callers]
  /\ at \in [Callers -> Stages]
  /\ call \in [Callers -> Calls]
  /\ local \in [Callers -> [Lists -> Seq(Tags)]]
  /\ calls \in Nat
  /\ \A c \in Callers :
       /\ (at[c] = "idle") <=> (call[c].todo = <<>>)
       /\ Appending(c) => From(c) \in Results \ {On(c)}

(* However the calls of goroutines interleave, each takes place at one     *)
(* moment, or at one for each of its lists, and nothing that was added is  *)
(* lost or overwritten.                                                    *)
Atomic == INSTANCE AtomicResult WITH Given <- [r \in Results |-> [by : Callers, number : Nat, on : {r}]]
Implements == Atomic!Spec

Positions(tag, r, l) == {i \in DOMAIN lists[r][l] : lists[r][l][i] = tag}

Returned(c) == at[c] = "idle"

(* Nothing was appended to a result that had not been added to it.         *)
Unmixed == \A r \in Results, l \in Lists : \A i \in DOMAIN lists[r][l] : lists[r][l][i].on = r

(* What a call has added by the time it returns is there, in each of the    *)
(* lists it was for, and once: a list has it again only if the result was   *)
(* appended to one that was appended to it.                                *)
NothingLost ==
  \A c \in Callers : Returned(c) /\ call[c].op = "Add" =>
    \A k \in DOMAIN call[c].whole :
      \E i \in Positions(Tag(c), On(c), call[c].whole[k]) :
        Unmixed => Positions(Tag(c), On(c), call[c].whole[k]) = {i}

(* A marshalled result that has an output also has the followups that its   *)
(* caller added before it, as the outputs are read first.                  *)
SeenInOrder ==
  \A c \in Callers : Returned(c) /\ call[c].op = "Read" /\ Len(call[c].whole) = 2 =>
    \A i \in DOMAIN local[c]["outputs"], j \in DOMAIN lists[On(c)]["followups"] :
      LET output == local[c]["outputs"][i]
          followup == lists[On(c)]["followups"][j]
      IN (output.by = followup.by /\ followup.number < output.number
          /\ followup.on = On(c) /\ output.on = On(c)) =>
            \E k \in DOMAIN local[c]["followups"] : local[c]["followups"][k] = followup

(* Every call returns, but for those that results appended to each other    *)
(* keep waiting, and for those that wait for one of these.                 *)
InCycle(S) ==
  /\ Cardinality(S) > 1
  /\ \A c \in S : at[c] = "rlock" /\ writer[From(c)] \in S

Deadlocked == \E S \in SUBSET Callers : InCycle(S)

CallsReturn == \A c \in Callers : at[c] # "idle" ~> at[c] = "idle" \/ Deadlocked
=============================================================================
