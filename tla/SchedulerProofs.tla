-------------------------- MODULE SchedulerProofs ---------------------------
(***************************************************************************)
(* Proofs about Scheduler, for every finite set of tasks and every limit:  *)
(* IInv is inductive, and with it the safety properties, the wedge bound   *)
(* and the implementation of TaskForest.                                   *)
(***************************************************************************)
EXTENDS Scheduler, FiniteSetTheorems, SequenceTheorems, TLAPS

-----------------------------------------------------------------------------
(* Lists and counters.                                                     *)

(* A list is a sequence over its set, without repetition.                  *)
LEMMA ListIsSeq ==
  ASSUME NEW S, NEW s \in Lists(S)
  PROVE  /\ s \in Seq(S)
         /\ Len(s) \in Nat
         /\ \A i \in 1..Len(s) : s[i] \in S
         /\ \A i, j \in 1..Len(s) : s[i] = s[j] => i = j
<1>1. PICK n \in 0..Cardinality(S) :
        s \in [1..n -> S] /\ \A i, j \in 1..n : s[i] = s[j] => i = j
  BY DEF Lists
<1>2. n \in Nat
  OBVIOUS
<1>3. s \in Seq(S) /\ Len(s) = n
  BY <1>1, <1>2
<1> QED
  BY <1>1, <1>2, <1>3

(* Every set of tasks the invariant counts is finite.                      *)
LEMMA FiniteTasks ==
  ASSUME NEW S \in SUBSET Tasks
  PROVE  IsFiniteSet(S) /\ Cardinality(S) \in Nat
BY SchedulerAssumption, FS_Subset, FS_CardinalityType

(* The counters before and after one element joins or leaves.              *)
LEMMA CountJoin ==
  ASSUME NEW S \in SUBSET Tasks, NEW t \in Tasks \ S
  PROVE  Cardinality(S \cup {t}) = Cardinality(S) + 1
BY FiniteTasks, FS_AddElement

LEMMA CountLeave ==
  ASSUME NEW S \in SUBSET Tasks, NEW t \in S
  PROVE  Cardinality(S \ {t}) = Cardinality(S) - 1
BY FiniteTasks, FS_RemoveElement

-----------------------------------------------------------------------------
(* The initial states.                                                     *)
LEMMA InitIInv == Init => IInv
<1> SUFFICES ASSUME Init PROVE IInv
  OBVIOUS
<1> USE SchedulerAssumption
<1>1. PICK roots \in Lists(Tasks) :
       \/ /\ inline = {}
          /\ pending = [p \in Tasks \cup {Caller} |->
                          IF p = Caller THEN roots ELSE <<>>]
          /\ pc = [t \in Tasks |->
                     IF t \in Elements(roots) THEN "queued" ELSE "unknown"]
       \/ /\ Len(roots) = 1
          /\ inline = Elements(roots)
          /\ pending = [p \in Tasks \cup {Caller} |-> <<>>]
          /\ pc = [t \in Tasks |->
                     IF t \in Elements(roots) THEN "executing" ELSE "unknown"]
  BY DEF Init
<1>2. /\ roots \in Seq(Tasks)
      /\ Len(roots) \in Nat
      /\ \A i \in 1..Len(roots) : roots[i] \in Tasks
      /\ \A i, j \in 1..Len(roots) : roots[i] = roots[j] => i = j
  BY ListIsSeq
<1>3. Elements(roots) \subseteq Tasks
  BY <1>2 DEF Elements
<1>4. TypeOK
  <2>1. pending \in [Tasks \cup {Caller} -> Seq(Tasks)]
    <3>1. <<>> \in Seq(Tasks)
      OBVIOUS
    <3> QED
      BY <1>1, <1>2, <3>1
  <2>2. id \in [Tasks -> Seq(Tasks)]
    BY DEF Init
  <2>3. pc \in [Tasks -> PcStates] /\ inline \in SUBSET Tasks
    BY <1>1, <1>3 DEF PcStates
  <2> QED
    BY <2>1, <2>2, <2>3 DEF Init, TypeOK
<1>5. PendingQueued
  BY <1>1, <1>2 DEF PendingQueued, Procs, Elements
<1>6. PendingUnique
  BY <1>1, <1>2 DEF PendingUnique, Procs
<1>7. QueuedPending
  BY <1>1, <1>2 DEF QueuedPending, Procs
<1>8. SpawnersOnly
  BY <1>1 DEF SpawnersOnly
<1>9. Holders = {} /\ Members = {}
  BY <1>1 DEF Holders, Members
<1>10. CountersExact /\ ConcurrencyBounded
  BY <1>9, FS_EmptySet DEF Init, CountersExact, ConcurrencyBounded, Limited
<1>11. InlineFirst
  <2>1. ASSUME Len(roots) = 1 PROVE Elements(roots) = {roots[1]}
    BY <2>1 DEF Elements
  <2>2. CASE inline = {}
    BY <2>2 DEF InlineFirst
  <2>3. CASE inline = Elements(roots) /\ Len(roots) = 1 /\ pc = [t \in Tasks |->
                     IF t \in Elements(roots) THEN "executing" ELSE "unknown"]
             /\ pending = [p \in Tasks \cup {Caller} |-> <<>>]
    BY <1>3, <2>1, <2>3 DEF InlineFirst
  <2> QED
    BY <1>1, <2>2, <2>3
<1>12. ReturnedQuiet /\ ErrorsKept
  BY DEF Init, ReturnedQuiet, ErrorsKept
<1>13. OutcomeMatchesPc /\ ResultExact
  BY <1>1 DEF Init, OutcomeMatchesPc, ResultExact
<1>14. IdChain
  BY DEF Init, IdChain
<1> QED
  BY <1>4, <1>5, <1>6, <1>7, <1>8, <1>10, <1>11, <1>12, <1>13, <1>14 DEF IInv

(* What the type of pending says of its lists.                             *)
LEMMA PendingTyped ==
  ASSUME TypeOK, NEW p \in Procs
  PROVE  /\ pending[p] \in Seq(Tasks)
         /\ Len(pending[p]) \in Nat
         /\ \A i \in 1..Len(pending[p]) : pending[p][i] \in Tasks
BY DEF TypeOK, Procs

-----------------------------------------------------------------------------
(* One lemma per action: it preserves IInv.                                *)
LEMMA GoStep ==
  ASSUME IInv, NEW p \in Procs, Go(p)
  PROVE  IInv'
<1> USE SchedulerAssumption
<1> DEFINE c == Head(pending[p])
           Was(q, j) == IF q = p THEN j + 1 ELSE j
<1>1. /\ pending[p] \in Seq(Tasks) /\ pending[p] # <<>>
      /\ pending \in [Procs -> Seq(Tasks)]
  BY DEF IInv, TypeOK, Procs, Go
<1>2. /\ c \in Tasks /\ c = pending[p][1]
      /\ Len(pending[p]) \in Nat /\ 1 \in 1..Len(pending[p])
      /\ Tail(pending[p]) \in Seq(Tasks)
      /\ Len(Tail(pending[p])) = Len(pending[p]) - 1
      /\ \A i \in 1..Len(Tail(pending[p])) : Tail(pending[p])[i] = pending[p][i + 1]
  BY <1>1, HeadTailProperties, LenProperties, EmptySeq
<1>3. pc[c] = "queued"
  BY <1>1, <1>2 DEF IInv, PendingQueued
<1>4. /\ pc' = [pc EXCEPT ![c] = "executing"]
      /\ pending' = [pending EXCEPT ![p] = Tail(pending[p])]
      /\ sem' = IF Limited THEN sem + 1 ELSE sem
      /\ Limited => ~(sem >= Limit)
      /\ wg' = wg + 1
      /\ outcome' = outcome /\ collected' = collected /\ groupErr' = groupErr
      /\ cancelled' = cancelled /\ inline' = inline /\ returned' = returned
      /\ callerErr' = callerErr
  BY DEF Go, call, Full
<1> HIDE DEF c
<1>5. /\ pending' \in [Procs -> Seq(Tasks)]
      /\ pending'[p] = Tail(pending[p])
      /\ \A q \in Procs \ {p} : pending'[q] = pending[q]
  BY <1>1, <1>2, <1>4
<1>6. /\ pc' \in [Tasks -> PcStates]
      /\ pc'[c] = "executing"
      /\ \A t \in Tasks \ {c} : pc'[t] = pc[t]
  BY <1>2, <1>4 DEF IInv, TypeOK, PcStates
<1>7. ASSUME NEW q \in Procs, NEW j \in 1..Len(pending'[q])
      PROVE  /\ Was(q, j) \in 1..Len(pending[q])
             /\ pending'[q][j] = pending[q][Was(q, j)]
             /\ pending[q][Was(q, j)] \in Tasks \ {c}
  <2>1. CASE q = p
    <3>1. j + 1 \in 1..Len(pending[p]) /\ pending'[p][j] = pending[p][j + 1]
      BY <1>2, <1>5, <2>1
    <3>2. pending[p][j + 1] # c
      BY <1>2, <3>1 DEF IInv, PendingUnique
    <3> QED
      BY <1>1, <2>1, <3>1, <3>2, ElementOfSeq
  <2>2. CASE q # p
    <3>1. j \in 1..Len(pending[q]) /\ pending'[q][j] = pending[q][j]
      BY <1>5, <2>2
    <3>2. pending[q][j] # c
      BY <1>2, <2>2, <3>1 DEF IInv, PendingUnique
    <3> QED
      BY <1>1, <2>2, <3>1, <3>2, ElementOfSeq
  <2> QED
    BY <2>1, <2>2
<1>8. /\ p # Caller => p \in Tasks /\ pc[p] = "spawning" /\ outcome[p] = "ok"
      /\ p = Caller => inline = {}
      /\ ~returned
  <2>1. p # Caller => p \in Tasks /\ pc[p] = "spawning" /\ outcome[p] = "ok"
    BY <1>1 DEF IInv, Procs, SpawnersOnly, OutcomeMatchesPc
  <2>2. p = Caller => inline = {}
    BY <1>1 DEF IInv, InlineFirst
  <2>3. ASSUME returned PROVE FALSE
    <3>1. p # Caller /\ inline = {} /\ Members = {}
      BY <1>1, <2>3 DEF IInv, ReturnedQuiet
    <3> QED
      BY <2>1, <3>1 DEF Members, Holders
  <2> QED
    BY <2>1, <2>2, <2>3
<1>9. c \notin inline /\ c \notin Holders /\ c \notin Members
  BY <1>3 DEF IInv, InlineFirst, Holders, Members
<1>10. Holders' = Holders \cup {c} /\ Members' = Members \cup {c}
  BY <1>2, <1>3, <1>4, <1>6, <1>9 DEF Holders, Members
<1>11. /\ Cardinality(Holders') = Cardinality(Holders) + 1
       /\ Cardinality(Members') = Cardinality(Members) + 1
       /\ Cardinality(Holders) \in Nat /\ Cardinality(Members) \in Nat
  <2>1. Holders \in SUBSET Tasks /\ Members \in SUBSET Tasks
    BY DEF Holders, Members
  <2>2. c \in Tasks \ Holders /\ c \in Tasks \ Members
    BY <1>2, <1>9
  <2>3. Cardinality(Holders \cup {c}) = Cardinality(Holders) + 1
    BY <2>1, <2>2, CountJoin
  <2>4. Cardinality(Members \cup {c}) = Cardinality(Members) + 1
    BY <2>1, <2>2, CountJoin
  <2> QED
    BY <1>10, <2>1, <2>3, <2>4, FiniteTasks
<1>12. id \in [Tasks -> Seq(Tasks)] /\ id[c] = <<c>>
  BY <1>2, <1>3 DEF IInv, TypeOK, IdChain
<1>13. /\ id' \in [Tasks -> Seq(Tasks)]
       /\ \A t \in Tasks \ {c} : id'[t] = id[t]
       /\ p = Caller => id' = id
       /\ p # Caller => id'[c] = id[p] \o <<c>>
  <2>1. CASE p = Caller
    <3>1. id' = id
      BY <2>1 DEF Go
    <3> QED
      BY <2>1, <3>1, <1>12
  <2>2. CASE p # Caller
    <3>1. id' = [id EXCEPT ![c] = id[p] \o <<c>>]
      BY <2>2, <1>12 DEF Go, ChildId, c
    <3>2. id[p] \o <<c>> \in Seq(Tasks)
      BY <2>2, <1>2, <1>8, <1>12
    <3> QED
      BY <2>2, <3>1, <3>2, <1>2, <1>12
  <2> QED
    BY <2>1, <2>2
<1>14. TypeOK'
  <2>1. sem' \in Nat /\ wg' \in Nat
    BY <1>4 DEF IInv, TypeOK
  <2>2. /\ outcome' \in [Tasks -> {"none", "ok", "err"}]
        /\ collected' \in [Tasks -> Nat]
        /\ groupErr' \in Tasks \cup {NoError} /\ cancelled' \in BOOLEAN
        /\ inline' \in SUBSET Tasks /\ returned' \in BOOLEAN
        /\ callerErr' \in Tasks \cup {NoError}
    BY <1>4 DEF IInv, TypeOK
  <2> QED
    BY <1>5, <1>6, <1>13, <2>1, <2>2 DEF TypeOK, Procs
<1>15. PendingQueued'
  <2> SUFFICES ASSUME NEW q \in Procs, NEW j \in 1..Len(pending'[q])
               PROVE  pc'[pending'[q][j]] = "queued"
    BY DEF PendingQueued
  <2>1. /\ Was(q, j) \in 1..Len(pending[q])
        /\ pending'[q][j] = pending[q][Was(q, j)]
        /\ pending[q][Was(q, j)] \in Tasks \ {c}
    BY <1>7
  <2> HIDE DEF Was
  <2>2. pc[pending[q][Was(q, j)]] = "queued"
    BY <2>1 DEF IInv, PendingQueued
  <2> QED
    BY <1>6, <2>1, <2>2
<1>16. PendingUnique'
  <2> SUFFICES ASSUME NEW q \in Procs, NEW r \in Procs,
                      NEW i \in 1..Len(pending'[q]), NEW j \in 1..Len(pending'[r]),
                      pending'[q][i] = pending'[r][j]
               PROVE  q = r /\ i = j
    BY DEF PendingUnique
  <2>1. /\ Was(q, i) \in 1..Len(pending[q]) /\ Was(r, j) \in 1..Len(pending[r])
        /\ pending[q][Was(q, i)] = pending[r][Was(r, j)]
    BY <1>7
  <2> HIDE DEF Was
  <2>2. q = r /\ Was(q, i) = Was(r, j)
    BY <2>1 DEF IInv, PendingUnique
  <2> QED
    BY <2>2 DEF Was
<1>17. QueuedPending'
  <2> SUFFICES ASSUME NEW t \in Tasks, pc'[t] = "queued"
               PROVE  \E q \in Procs : \E j \in 1..Len(pending'[q]) : t = pending'[q][j]
    BY DEF QueuedPending, Elements
  <2>1. t # c /\ pc[t] = "queued"
    BY <1>6
  <2>2. PICK q \in Procs : \E i \in 1..Len(pending[q]) : t = pending[q][i]
    BY <2>1 DEF IInv, QueuedPending, Elements
  <2>3. PICK i \in 1..Len(pending[q]) : t = pending[q][i]
    BY <2>2
  <2>4. CASE q = p
    <3>1. i # 1
      BY <1>2, <2>1, <2>3, <2>4
    <3>2. i - 1 \in 1..Len(Tail(pending[p])) /\ (i - 1) + 1 = i
      BY <1>2, <2>4, <3>1
    <3>3. Tail(pending[p])[i - 1] = pending[p][i]
      BY <1>2, <3>2
    <3> QED
      BY <1>5, <2>3, <2>4, <3>2, <3>3
  <2>5. CASE q # p
    BY <1>5, <2>3, <2>5
  <2> QED
    BY <2>4, <2>5
<1>18. SpawnersOnly'
  <2> SUFFICES ASSUME NEW t \in Tasks, pending'[t] # <<>>
               PROVE  pc'[t] = "spawning"
    BY DEF SpawnersOnly
  <2>1. pending[t] # <<>>
    BY <1>1, <1>5 DEF Procs
  <2>2. pc[t] = "spawning"
    BY <2>1 DEF IInv, SpawnersOnly
  <2> QED
    BY <1>3, <1>6, <2>2
<1>19. CountersExact' /\ ConcurrencyBounded'
  BY <1>4, <1>11 DEF IInv, CountersExact, ConcurrencyBounded, Limited
<1>20. InlineFirst'
  <2> SUFFICES ASSUME NEW t \in inline
               PROVE  /\ pc'[t] \in {"executing", "spawning"}
                      /\ pending'[Caller] = <<>>
                      /\ pc'[t] = "executing" =>
                           \A u \in Tasks \ {t} : pc'[u] = "unknown"
    BY <1>4 DEF InlineFirst
  <2>1. t \in Tasks /\ t # c /\ p # Caller /\ pending[Caller] = <<>>
    BY <1>8, <1>9 DEF IInv, TypeOK, InlineFirst
  <2>2. pc[t] \in {"executing", "spawning"} /\ pc[t] # "executing"
    BY <1>2, <1>3, <2>1 DEF IInv, InlineFirst
  <2> QED
    BY <1>5, <1>6, <2>1, <2>2 DEF Procs
<1>21. ReturnedQuiet'
  BY <1>4, <1>8 DEF ReturnedQuiet
<1>22. OutcomeMatchesPc' /\ ResultExact'
  BY <1>2, <1>3, <1>4, <1>6 DEF IInv, OutcomeMatchesPc, ResultExact
<1>23. ErrorsKept'
  BY <1>2, <1>3, <1>4, <1>6 DEF IInv, ErrorsKept, OutcomeMatchesPc
<1>24. IdChain'
  <2> SUFFICES ASSUME NEW t \in Tasks
               PROVE  /\ pc'[t] \in {"unknown", "queued"} => id'[t] = <<t>>
                      /\ Len(id'[t]) > 0 /\ id'[t][Len(id'[t])] = t
                      /\ \A i \in 1..Len(id'[t]) - 1 : outcome[id'[t][i]] = "ok"
    BY <1>4 DEF IdChain
  <2>1. CASE t # c
    <3>1. pc'[t] = pc[t] /\ id'[t] = id[t]
      BY <1>6, <1>13, <2>1
    <3> QED
      BY <3>1 DEF IInv, IdChain
  <2>2. CASE t = c /\ p = Caller
    BY <1>6, <1>13, <2>2 DEF IInv, IdChain
  <2>3. CASE t = c /\ p # Caller
    <3>1. /\ Len(id'[c]) = Len(id[p]) + 1 /\ Len(id[p]) \in Nat
          /\ id'[c][Len(id[p]) + 1] = c
          /\ \A i \in 1..Len(id[p]) : id'[c][i] = id[p][i]
      <4>1. id[p] \in Seq(Tasks) /\ <<c>> \in Seq(Tasks) /\ Len(<<c>>) = 1
        BY <1>2, <1>8, <1>12, <2>3
      <4> QED
        BY <1>13, <2>3, <4>1, ConcatProperties, LenProperties
    <3>2. \A i \in 1..Len(id[p]) : outcome[id[p][i]] = "ok"
      BY <1>8, <2>3, <3>1 DEF IInv, IdChain
    <3> QED
      BY <1>6, <2>3, <3>1, <3>2
  <2> QED
    BY <2>1, <2>2, <2>3
<1> QED
  BY <1>14, <1>15, <1>16, <1>17, <1>18, <1>19, <1>20, <1>21, <1>22, <1>23, <1>24
  DEF IInv

(* The followups become queued, in the one list that was empty.            *)
LEMMA ExecuteOkStep ==
  ASSUME IInv, NEW t \in Tasks, ExecuteOk(t)
  PROVE  IInv'
<1> USE SchedulerAssumption
<1>1. PICK followups \in Lists(Unborn) :
        /\ pending' = [pending EXCEPT ![t] = followups]
        /\ pc' = [u \in Tasks |->
                    IF u = t THEN "spawning"
                    ELSE IF u \in Elements(followups) THEN "queued"
                    ELSE pc[u]]
  BY DEF ExecuteOk
<1>2. /\ pc[t] = "executing" /\ outcome' = [outcome EXCEPT ![t] = "ok"]
      /\ id' = id /\ collected' = collected /\ sem' = sem /\ wg' = wg
      /\ groupErr' = groupErr /\ cancelled' = cancelled /\ inline' = inline
      /\ returned' = returned /\ callerErr' = callerErr
  BY DEF ExecuteOk, group, call
<1>3. /\ Len(followups) \in Nat
      /\ \A i \in 1..Len(followups) :
           /\ followups[i] \in Tasks /\ followups[i] # t
           /\ pc[followups[i]] = "unknown"
      /\ \A i, j \in 1..Len(followups) : followups[i] = followups[j] => i = j
      /\ followups \in Seq(Tasks)
  <2>1. /\ followups \in Seq(Unborn) /\ Len(followups) \in Nat
        /\ \A i \in 1..Len(followups) : followups[i] \in Unborn
        /\ \A i, j \in 1..Len(followups) : followups[i] = followups[j] => i = j
    BY ListIsSeq
  <2>2. followups \in Seq(Tasks)
    BY <2>1, SeqMonotonic DEF Unborn
  <2> QED
    BY <1>2, <2>1, <2>2 DEF Unborn
<1>4. Elements(followups) = {followups[i] : i \in 1..Len(followups)}
  BY DEF Elements
<1>5. /\ pc' \in [Tasks -> PcStates]
      /\ pc'[t] = "spawning"
      /\ \A u \in Tasks \ {t} :
           pc'[u] = IF u \in Elements(followups) THEN "queued" ELSE pc[u]
      /\ \A u \in Elements(followups) : u \in Tasks \ {t} /\ pc[u] = "unknown"
  <2>1. \A u \in Elements(followups) : u \in Tasks \ {t} /\ pc[u] = "unknown"
    BY <1>3, <1>4
  <2> QED
    BY <1>1, <2>1 DEF IInv, TypeOK, PcStates
<1>6. /\ pending \in [Procs -> Seq(Tasks)] /\ pending' \in [Procs -> Seq(Tasks)]
      /\ t \in Procs /\ pending[t] = <<>> /\ pending'[t] = followups
      /\ \A q \in Procs \ {t} : pending'[q] = pending[q]
  <2>1. pending \in [Procs -> Seq(Tasks)] /\ t \in Procs
    BY DEF IInv, TypeOK, Procs
  <2>2. pending[t] = <<>>
    BY <1>2 DEF IInv, SpawnersOnly
  <2> QED
    BY <1>1, <1>3, <2>1, <2>2
<1>7. \A q \in Procs : \A j \in 1..Len(pending[q]) :
        /\ pending[q][j] \in Tasks \ Elements(followups)
        /\ pending[q][j] # t
        /\ pc[pending[q][j]] = "queued"
  <2> SUFFICES ASSUME NEW q \in Procs, NEW j \in 1..Len(pending[q])
               PROVE  /\ pending[q][j] \in Tasks \ Elements(followups)
                      /\ pending[q][j] # t
                      /\ pc[pending[q][j]] = "queued"
    OBVIOUS
  <2>1. pending[q][j] \in Tasks
    BY PendingTyped DEF IInv
  <2>2. pc[pending[q][j]] = "queued"
    BY DEF IInv, PendingQueued
  <2> QED
    BY <1>2, <1>5, <2>1, <2>2
<1>8. Holders' = Holders /\ Members' = Members
  BY <1>2, <1>5 DEF Holders, Members
<1>9. TypeOK'
  <2>1. outcome' \in [Tasks -> {"none", "ok", "err"}]
    BY <1>2 DEF IInv, TypeOK
  <2> QED
    BY <1>2, <1>5, <1>6, <2>1 DEF IInv, TypeOK, Procs
<1>10. PendingQueued'
  <2> SUFFICES ASSUME NEW q \in Procs, NEW j \in 1..Len(pending'[q])
               PROVE  pc'[pending'[q][j]] = "queued"
    BY DEF PendingQueued
  <2>1. CASE q = t
    BY <1>3, <1>4, <1>5, <1>6, <2>1
  <2>2. CASE q # t
    BY <1>5, <1>6, <1>7, <2>2
  <2> QED
    BY <2>1, <2>2
<1>11. PendingUnique'
  <2> SUFFICES ASSUME NEW q \in Procs, NEW r \in Procs,
                      NEW i \in 1..Len(pending'[q]), NEW j \in 1..Len(pending'[r]),
                      pending'[q][i] = pending'[r][j]
               PROVE  q = r /\ i = j
    BY DEF PendingUnique
  <2>1. CASE q = t /\ r = t
    BY <1>3, <1>6, <2>1
  <2>2. CASE q # t /\ r # t
    BY <1>6, <2>2 DEF IInv, PendingUnique
  <2>3. CASE q = t /\ r # t
    BY <1>3, <1>4, <1>6, <1>7, <2>3
  <2>4. CASE q # t /\ r = t
    BY <1>3, <1>4, <1>6, <1>7, <2>4
  <2> QED
    BY <2>1, <2>2, <2>3, <2>4
<1>12. QueuedPending'
  <2> SUFFICES ASSUME NEW u \in Tasks, pc'[u] = "queued"
               PROVE  \E q \in Procs : \E j \in 1..Len(pending'[q]) : u = pending'[q][j]
    BY DEF QueuedPending, Elements
  <2>1. CASE u \in Elements(followups)
    BY <1>4, <1>6, <2>1
  <2>2. CASE u \notin Elements(followups)
    <3>1. pc[u] = "queued"
      BY <1>5, <2>2
    <3>2. PICK q \in Procs : \E j \in 1..Len(pending[q]) : u = pending[q][j]
      BY <3>1 DEF IInv, QueuedPending, Elements
    <3>3. q # t
      BY <1>6, <3>2
    <3> QED
      BY <1>6, <3>2, <3>3
  <2> QED
    BY <2>1, <2>2
<1>13. SpawnersOnly'
  <2> SUFFICES ASSUME NEW u \in Tasks, pending'[u] # <<>>
               PROVE  pc'[u] = "spawning"
    BY DEF SpawnersOnly
  <2>1. CASE u = t
    BY <1>5, <2>1
  <2>2. CASE u # t
    <3>1. pc[u] = "spawning"
      BY <1>6, <2>2 DEF IInv, SpawnersOnly, Procs
    <3> QED
      BY <1>5, <2>2, <3>1
  <2> QED
    BY <2>1, <2>2
<1>14. CountersExact' /\ ConcurrencyBounded'
  BY <1>2, <1>8 DEF IInv, CountersExact, ConcurrencyBounded, Limited
<1>15. InlineFirst'
  <2> SUFFICES ASSUME NEW u \in inline
               PROVE  /\ pc'[u] \in {"executing", "spawning"}
                      /\ pending'[Caller] = <<>>
                      /\ pc'[u] = "executing" =>
                           \A v \in Tasks \ {u} : pc'[v] = "unknown"
    BY <1>2 DEF InlineFirst
  <2>1. /\ u \in Tasks /\ pc[u] \in {"executing", "spawning"}
        /\ pending[Caller] = <<>>
        /\ pc[u] = "executing" => \A v \in Tasks \ {u} : pc[v] = "unknown"
    BY DEF IInv, TypeOK, InlineFirst
  <2>2. pc'[u] = "spawning"
    BY <1>2, <1>5, <2>1
  <2>3. pending'[Caller] = <<>>
    BY <1>6, <2>1 DEF Procs
  <2> QED
    BY <2>2, <2>3
<1>16. ReturnedQuiet'
  <2>1. ~returned
    BY <1>2 DEF IInv, ReturnedQuiet, Members, Holders
  <2> QED
    BY <1>2, <2>1 DEF ReturnedQuiet
<1>17. /\ outcome[t] = "none" /\ outcome'[t] = "ok"
       /\ \A u \in Tasks \ {t} : outcome'[u] = outcome[u]
  BY <1>2 DEF IInv, TypeOK, OutcomeMatchesPc
<1>18. OutcomeMatchesPc'
  <2> SUFFICES ASSUME NEW u \in Tasks
               PROVE  /\ outcome'[u] = "none" <=>
                           pc'[u] \in {"unknown", "queued", "executing"}
                      /\ pc'[u] = "spawning" => outcome'[u] = "ok"
                      /\ pc'[u] = "failed" => outcome'[u] = "err"
    BY DEF OutcomeMatchesPc
  <2>1. CASE u = t
    BY <1>5, <1>17, <2>1
  <2>2. CASE u # t
    BY <1>5, <1>17, <2>2 DEF IInv, OutcomeMatchesPc
  <2> QED
    BY <2>1, <2>2
<1>19. ResultExact'
  BY <1>2, <1>5, <1>17 DEF IInv, ResultExact, OutcomeMatchesPc
<1>20. ErrorsKept'
  BY <1>2, <1>5, <1>17 DEF IInv, TypeOK, ErrorsKept, OutcomeMatchesPc
<1>21. IdChain'
  <2> SUFFICES ASSUME NEW u \in Tasks
               PROVE  /\ pc'[u] \in {"unknown", "queued"} => id[u] = <<u>>
                      /\ Len(id[u]) > 0 /\ id[u][Len(id[u])] = u
                      /\ \A i \in 1..Len(id[u]) - 1 : outcome'[id[u][i]] = "ok"
    BY <1>2 DEF IdChain
  <2>1. pc'[u] \in {"unknown", "queued"} => pc[u] \in {"unknown", "queued"}
    BY <1>5
  <2>2. ASSUME NEW i \in 1..Len(id[u]) - 1 PROVE outcome'[id[u][i]] = "ok"
    <3>1. outcome[id[u][i]] = "ok"
      BY DEF IInv, IdChain
    <3>2. id[u][i] \in Tasks
      BY ElementOfSeq DEF IInv, TypeOK
    <3> QED
      BY <1>17, <3>1, <3>2
  <2> QED
    BY <2>1, <2>2 DEF IInv, IdChain
<1> QED
  BY <1>9, <1>10, <1>11, <1>12, <1>13, <1>14, <1>15, <1>16, <1>18, <1>19, <1>20, <1>21
  DEF IInv

(* Actions that touch no list and move no task into or out of "queued".    *)
LEMMA KeepLists ==
  ASSUME IInv, pending' = pending,
         \A u \in Tasks : pc'[u] = "queued" <=> pc[u] = "queued"
  PROVE  PendingQueued' /\ PendingUnique' /\ QueuedPending'
<1>1. \A p \in Procs : \A i \in 1..Len(pending[p]) :
        pending[p][i] \in Tasks /\ pc[pending[p][i]] = "queued"
  BY PendingTyped DEF IInv, PendingQueued
<1>2. PendingQueued'
  BY <1>1 DEF PendingQueued
<1>3. PendingUnique'
  BY DEF IInv, PendingUnique
<1>4. QueuedPending'
  BY DEF IInv, QueuedPending, Elements
<1> QED
  BY <1>2, <1>3, <1>4

(* Actions that record no outcome and rename no task.                      *)
LEMMA KeepIds ==
  ASSUME IInv, id' = id, outcome' = outcome,
         \A u \in Tasks : pc'[u] \in {"unknown", "queued"} => pc'[u] = pc[u]
  PROVE  IdChain'
BY DEF IInv, IdChain

(* An error ends the call at once, or waits to be recorded.                *)
LEMMA ExecuteErrStep ==
  ASSUME IInv, NEW t \in Tasks, ExecuteErr(t)
  PROVE  IInv'
<1> USE SchedulerAssumption
<1>1. /\ pc[t] = "executing" /\ outcome' = [outcome EXCEPT ![t] = "err"]
      /\ pending' = pending /\ id' = id /\ collected' = collected /\ sem' = sem
      /\ wg' = wg /\ groupErr' = groupErr /\ cancelled' = cancelled
  BY DEF ExecuteErr, group
<1>2. /\ outcome[t] = "none" /\ outcome'[t] = "err"
      /\ \A u \in Tasks \ {t} : outcome'[u] = outcome[u]
      /\ outcome' \in [Tasks -> {"none", "ok", "err"}]
  BY <1>1 DEF IInv, TypeOK, OutcomeMatchesPc
<1>3. ~returned
  BY <1>1 DEF IInv, ReturnedQuiet, Members, Holders
<1>4. /\ pc' \in [Tasks -> PcStates]
      /\ pc'[t] = IF t \in inline THEN "done" ELSE "failed"
      /\ \A u \in Tasks \ {t} : pc'[u] = pc[u]
  BY DEF IInv, TypeOK, PcStates, ExecuteErr
<1>5. PendingQueued' /\ PendingUnique' /\ QueuedPending'
  BY <1>1, <1>4, KeepLists
<1>6. SpawnersOnly'
  BY <1>1, <1>4 DEF IInv, SpawnersOnly
<1>7. OutcomeMatchesPc' /\ ResultExact'
  BY <1>1, <1>2, <1>4 DEF IInv, OutcomeMatchesPc, ResultExact
<1>8. IdChain'
  <2> SUFFICES ASSUME NEW u \in Tasks
               PROVE  /\ pc'[u] \in {"unknown", "queued"} => id[u] = <<u>>
                      /\ Len(id[u]) > 0 /\ id[u][Len(id[u])] = u
                      /\ \A i \in 1..Len(id[u]) - 1 : outcome'[id[u][i]] = "ok"
    BY <1>1 DEF IdChain
  <2>1. ASSUME NEW i \in 1..Len(id[u]) - 1 PROVE outcome'[id[u][i]] = "ok"
    <3>1. outcome[id[u][i]] = "ok"
      BY DEF IInv, IdChain
    <3>2. id[u][i] \in Tasks
      BY ElementOfSeq DEF IInv, TypeOK
    <3> QED
      BY <1>2, <3>1, <3>2
  <2> QED
    BY <1>4, <2>1 DEF IInv, IdChain
<1>9. CASE t \in inline
  <2>1. /\ inline' = {} /\ returned' = TRUE /\ callerErr' = t
        /\ pc'[t] = "done"
    BY <1>4, <1>9 DEF ExecuteErr
  <2>2. /\ \A u \in Tasks \ {t} : pc[u] = "unknown" /\ pc'[u] = "unknown"
        /\ pending[Caller] = <<>>
    BY <1>1, <1>4, <1>9 DEF IInv, InlineFirst
  <2>3. Holders' = {} /\ Members' = {} /\ Holders = {} /\ Members = {}
    BY <1>1, <1>9, <2>1, <2>2 DEF Holders, Members
  <2>4. TypeOK'
    BY <1>1, <1>2, <1>4, <2>1 DEF IInv, TypeOK
  <2>5. CountersExact' /\ ConcurrencyBounded'
    BY <1>1, <2>3 DEF IInv, CountersExact, ConcurrencyBounded, Limited
  <2>6. InlineFirst' /\ ReturnedQuiet'
    BY <1>1, <2>1, <2>2, <2>3 DEF InlineFirst, ReturnedQuiet
  <2>7. ErrorsKept'
    BY <1>1, <1>2, <2>1 DEF IInv, TypeOK, ErrorsKept
  <2> QED
    BY <1>5, <1>6, <1>7, <1>8, <2>4, <2>5, <2>6, <2>7 DEF IInv
<1>10. CASE t \notin inline
  <2>1. /\ inline' = inline /\ returned' = returned /\ callerErr' = callerErr
        /\ pc'[t] = "failed"
    BY <1>4, <1>10 DEF ExecuteErr, call
  <2>2. Holders' = Holders /\ Members' = Members
    BY <1>1, <1>4, <2>1 DEF Holders, Members
  <2>3. TypeOK'
    BY <1>1, <1>2, <1>4, <2>1 DEF IInv, TypeOK
  <2>4. CountersExact' /\ ConcurrencyBounded'
    BY <1>1, <2>2 DEF IInv, CountersExact, ConcurrencyBounded, Limited
  <2>5. InlineFirst'
    BY <1>1, <1>4, <1>10, <2>1 DEF IInv, TypeOK, InlineFirst
  <2>6. ReturnedQuiet'
    BY <1>3, <2>1 DEF ReturnedQuiet
  <2>7. ErrorsKept'
    BY <1>1, <1>2, <1>4, <2>1 DEF IInv, TypeOK, ErrorsKept
  <2> QED
    BY <1>5, <1>6, <1>7, <1>8, <2>3, <2>4, <2>5, <2>6, <2>7 DEF IInv
<1> QED
  BY <1>9, <1>10

(* The outputs are collected when the list is empty.                       *)
LEMMA AddOutputsStep ==
  ASSUME IInv, NEW t \in Tasks, AddOutputs(t)
  PROVE  IInv'
<1> USE SchedulerAssumption
<1>1. /\ pc[t] = "spawning" /\ pending[t] = <<>>
      /\ collected' = [collected EXCEPT ![t] = @ + 1]
      /\ inline' = inline \ {t} /\ outcome' = outcome /\ pending' = pending
      /\ id' = id /\ sem' = sem /\ wg' = wg /\ groupErr' = groupErr
      /\ cancelled' = cancelled /\ returned' = returned /\ callerErr' = callerErr
  BY DEF AddOutputs, group
<1>2. /\ pc' \in [Tasks -> PcStates]
      /\ pc'[t] = IF t \in inline THEN "done" ELSE "exiting"
      /\ \A u \in Tasks \ {t} : pc'[u] = pc[u]
  BY DEF IInv, TypeOK, PcStates, AddOutputs
<1>2a. /\ collected' \in [Tasks -> Nat]
             /\ outcome[t] = "ok" /\ collected[t] = 0 /\ collected'[t] = 1
             /\ \A u \in Tasks \ {t} : collected'[u] = collected[u]
  <2>1. collected \in [Tasks -> Nat]
    BY DEF IInv, TypeOK
  <2>2. outcome[t] = "ok" /\ collected[t] = 0
    BY <1>1 DEF IInv, OutcomeMatchesPc, ResultExact
  <2> QED
    BY <1>1, <2>1, <2>2
<1>3. TypeOK'
  BY <1>1, <1>2, <1>2a DEF IInv, TypeOK
<1>4. PendingQueued' /\ PendingUnique' /\ QueuedPending'
  BY <1>1, <1>2, KeepLists
<1>5. SpawnersOnly'
  BY <1>1, <1>2 DEF IInv, SpawnersOnly
<1>6. Holders' = Holders /\ Members' = Members
  BY <1>1, <1>2 DEF Holders, Members
<1>7. CountersExact' /\ ConcurrencyBounded'
  BY <1>1, <1>6 DEF IInv, CountersExact, ConcurrencyBounded, Limited
<1>8. InlineFirst'
  BY <1>1, <1>2 DEF IInv, TypeOK, InlineFirst
<1>9. ReturnedQuiet'
  BY <1>1, <1>2, <1>6 DEF IInv, ReturnedQuiet
<1>10. OutcomeMatchesPc'
  BY <1>1, <1>2 DEF IInv, OutcomeMatchesPc
<1>11. ResultExact'
  BY <1>1, <1>2, <1>2a DEF IInv, ResultExact
<1>12. ErrorsKept'
  BY <1>1, <1>2 DEF IInv, ErrorsKept, OutcomeMatchesPc
<1>13. IdChain'
  BY <1>1, <1>2, KeepIds
<1> QED
  BY <1>3, <1>4, <1>5, <1>7, <1>8, <1>9, <1>10, <1>11, <1>12, <1>13 DEF IInv

(* The first error stays.                                                  *)
LEMMA RecordErrorStep ==
  ASSUME IInv, NEW t \in Tasks, RecordError(t)
  PROVE  IInv'
<1> USE SchedulerAssumption
<1>1. /\ pc[t] = "failed"
      /\ groupErr' = IF groupErr = NoError THEN t ELSE groupErr
      /\ cancelled' = TRUE /\ collected' = collected
      /\ inline' = inline /\ outcome' = outcome /\ pending' = pending
      /\ id' = id /\ sem' = sem /\ wg' = wg
      /\ returned' = returned /\ callerErr' = callerErr
  BY DEF RecordError, call
<1>2. /\ pc' \in [Tasks -> PcStates] /\ pc'[t] = "exiting"
      /\ \A u \in Tasks \ {t} : pc'[u] = pc[u]
  BY DEF IInv, TypeOK, PcStates, RecordError
<1>3. TypeOK'
  BY <1>1, <1>2 DEF IInv, TypeOK
<1>4. PendingQueued' /\ PendingUnique' /\ QueuedPending'
  BY <1>1, <1>2, KeepLists
<1>5. SpawnersOnly'
  BY <1>1, <1>2 DEF IInv, SpawnersOnly
<1>6. Holders' = Holders /\ Members' = Members
  BY <1>1, <1>2 DEF Holders, Members
<1>7. CountersExact' /\ ConcurrencyBounded'
  BY <1>1, <1>6 DEF IInv, CountersExact, ConcurrencyBounded, Limited
<1>8. InlineFirst'
  BY <1>1, <1>2 DEF IInv, TypeOK, InlineFirst
<1>9. ReturnedQuiet'
  BY <1>1, <1>6 DEF IInv, ReturnedQuiet
<1>10. OutcomeMatchesPc' /\ ResultExact'
  BY <1>1, <1>2 DEF IInv, OutcomeMatchesPc, ResultExact
<1>11. ErrorsKept'
  BY <1>1, <1>2 DEF IInv, ErrorsKept, OutcomeMatchesPc
<1>12. IdChain'
  BY <1>1, <1>2, KeepIds
<1> QED
  BY <1>3, <1>4, <1>5, <1>7, <1>8, <1>9, <1>10, <1>11, <1>12 DEF IInv

(* The token goes back to the semaphore.                                   *)
LEMMA ReleaseStep ==
  ASSUME IInv, NEW t \in Tasks, Release(t)
  PROVE  IInv'
<1> USE SchedulerAssumption
<1>1. /\ pc[t] = "exiting"
      /\ sem' = IF Limited THEN sem - 1 ELSE sem
      /\ groupErr' = groupErr /\ cancelled' = cancelled /\ collected' = collected
      /\ inline' = inline /\ outcome' = outcome /\ pending' = pending
      /\ id' = id /\ wg' = wg /\ returned' = returned /\ callerErr' = callerErr
  BY DEF Release, call
<1>2. /\ pc' \in [Tasks -> PcStates] /\ pc'[t] = "released"
      /\ \A u \in Tasks \ {t} : pc'[u] = pc[u]
  BY DEF IInv, TypeOK, PcStates, Release
<1>3. PendingQueued' /\ PendingUnique' /\ QueuedPending'
  BY <1>1, <1>2, KeepLists
<1>4. SpawnersOnly'
  BY <1>1, <1>2 DEF IInv, SpawnersOnly
<1>5. t \in Holders
  BY <1>1 DEF IInv, InlineFirst, Holders
<1>6. Holders' = Holders \ {t} /\ Members' = Members
  BY <1>1, <1>2, <1>5 DEF Holders, Members
<1>7. /\ Cardinality(Holders') = Cardinality(Holders) - 1
      /\ Cardinality(Holders) \in Nat /\ Cardinality(Holders') \in Nat
  <2>1. Holders \in SUBSET Tasks /\ Holders' \in SUBSET Tasks
    BY <1>6 DEF Holders
  <2> QED
    BY <1>5, <1>6, <2>1, CountLeave, FiniteTasks
<1>8. CountersExact' /\ ConcurrencyBounded'
  BY <1>1, <1>6, <1>7 DEF IInv, CountersExact, ConcurrencyBounded, Limited
<1>9. TypeOK'
  <2>1. sem' \in Nat
    BY <1>1, <1>7 DEF IInv, TypeOK, CountersExact
  <2> QED
    BY <1>1, <1>2, <2>1 DEF IInv, TypeOK
<1>10. InlineFirst'
  BY <1>1, <1>2 DEF IInv, TypeOK, InlineFirst
<1>11. ReturnedQuiet'
  BY <1>1, <1>6 DEF IInv, ReturnedQuiet
<1>12. OutcomeMatchesPc' /\ ResultExact'
  BY <1>1, <1>2 DEF IInv, OutcomeMatchesPc, ResultExact
<1>13. ErrorsKept'
  BY <1>1, <1>2 DEF IInv, ErrorsKept
<1>14. IdChain'
  BY <1>1, <1>2, KeepIds
<1> QED
  BY <1>3, <1>4, <1>8, <1>9, <1>10, <1>11, <1>12, <1>13, <1>14 DEF IInv

(* The goroutine leaves the wait group.                                    *)
LEMMA WgDoneStep ==
  ASSUME IInv, NEW t \in Tasks, WgDone(t)
  PROVE  IInv'
<1> USE SchedulerAssumption
<1>1. /\ pc[t] = "released" /\ wg' = wg - 1
      /\ groupErr' = groupErr /\ cancelled' = cancelled /\ collected' = collected
      /\ inline' = inline /\ outcome' = outcome /\ pending' = pending
      /\ id' = id /\ sem' = sem /\ returned' = returned /\ callerErr' = callerErr
  BY DEF WgDone, call
<1>2. /\ pc' \in [Tasks -> PcStates] /\ pc'[t] = "done"
      /\ \A u \in Tasks \ {t} : pc'[u] = pc[u]
  BY DEF IInv, TypeOK, PcStates, WgDone
<1>3. PendingQueued' /\ PendingUnique' /\ QueuedPending'
  BY <1>1, <1>2, KeepLists
<1>4. SpawnersOnly'
  BY <1>1, <1>2 DEF IInv, SpawnersOnly
<1>5. t \in Members
  BY <1>1 DEF Members
<1>6. Holders' = Holders /\ Members' = Members \ {t}
  BY <1>1, <1>2 DEF Holders, Members
<1>7. /\ Cardinality(Members') = Cardinality(Members) - 1
      /\ Cardinality(Members') \in Nat
  <2>1. Members \in SUBSET Tasks /\ Members' \in SUBSET Tasks
    BY <1>6 DEF Holders, Members
  <2> QED
    BY <1>5, <1>6, <2>1, CountLeave, FiniteTasks
<1>8. CountersExact' /\ ConcurrencyBounded'
  BY <1>1, <1>6, <1>7 DEF IInv, CountersExact, ConcurrencyBounded, Limited
<1>9. TypeOK'
  <2>1. wg' \in Nat
    BY <1>1, <1>7 DEF IInv, CountersExact
  <2> QED
    BY <1>1, <1>2, <2>1 DEF IInv, TypeOK
<1>10. InlineFirst'
  BY <1>1, <1>2 DEF IInv, TypeOK, InlineFirst
<1>11. ReturnedQuiet'
  BY <1>1, <1>6 DEF IInv, ReturnedQuiet
<1>12. OutcomeMatchesPc' /\ ResultExact'
  BY <1>1, <1>2 DEF IInv, OutcomeMatchesPc, ResultExact
<1>13. ErrorsKept'
  BY <1>1, <1>2 DEF IInv, ErrorsKept
<1>14. IdChain'
  BY <1>1, <1>2, KeepIds
<1> QED
  BY <1>3, <1>4, <1>8, <1>9, <1>10, <1>11, <1>12, <1>13, <1>14 DEF IInv

(* Wait returns when the wait group is empty, hence with nobody alive.     *)
LEMMA WaitStep ==
  ASSUME IInv, Wait
  PROVE  IInv'
<1> USE SchedulerAssumption
<1>1. /\ inline = {} /\ pending[Caller] = <<>> /\ wg = 0 /\ ~returned
      /\ returned' = TRUE /\ callerErr' = groupErr /\ cancelled' = TRUE
      /\ pc' = pc /\ outcome' = outcome /\ pending' = pending /\ id' = id
      /\ collected' = collected /\ sem' = sem /\ wg' = wg
      /\ groupErr' = groupErr /\ inline' = inline
  BY DEF Wait
<1>2. Members = {}
  BY <1>1, FiniteTasks, FS_EmptySet DEF IInv, CountersExact, Members, Holders
<1>3. Holders' = Holders /\ Members' = Members
  BY <1>1 DEF Holders, Members
<1>4. TypeOK'
  BY <1>1 DEF IInv, TypeOK
<1>5. PendingQueued' /\ PendingUnique' /\ QueuedPending'
  BY <1>1, KeepLists
<1>6. CountersExact' /\ ConcurrencyBounded'
  BY <1>1, <1>3 DEF IInv, CountersExact, ConcurrencyBounded, Limited
<1>7. SpawnersOnly' /\ OutcomeMatchesPc' /\ ResultExact'
  BY <1>1 DEF IInv, SpawnersOnly, OutcomeMatchesPc, ResultExact
<1>8. InlineFirst' /\ ReturnedQuiet' /\ ErrorsKept'
  BY <1>1, <1>2, <1>3 DEF IInv, InlineFirst, ReturnedQuiet, ErrorsKept
<1>9. IdChain'
  BY <1>1, KeepIds
<1> QED
  BY <1>4, <1>5, <1>6, <1>7, <1>8, <1>9 DEF IInv

-----------------------------------------------------------------------------
(* IInv is an invariant.                                                   *)
LEMMA NextIInv == IInv /\ [Next]_vars => IInv'
<1> SUFFICES ASSUME IInv, [Next]_vars PROVE IInv'
  OBVIOUS
<1>1. ASSUME NEW p \in Tasks \cup {Caller}, Go(p) PROVE IInv'
  BY <1>1, GoStep DEF Procs
<1>2. ASSUME NEW t \in Tasks, Step(t) PROVE IInv'
  BY <1>2, ExecuteOkStep, ExecuteErrStep, AddOutputsStep, RecordErrorStep,
     ReleaseStep, WgDoneStep DEF Step
<1>3. CASE Wait
  BY <1>3, WaitStep
<1>4. CASE UNCHANGED vars
  <2>1. Holders' = Holders /\ Members' = Members
    BY <1>4 DEF vars, Holders, Members
  <2>2. TypeOK' /\ CountersExact' /\ ConcurrencyBounded'
    BY <1>4, <2>1 DEF IInv, vars, TypeOK, CountersExact, ConcurrencyBounded
  <2>3. PendingQueued' /\ PendingUnique' /\ QueuedPending' /\ IdChain'
    BY <1>4, KeepLists, KeepIds DEF vars
  <2>4. SpawnersOnly' /\ InlineFirst' /\ ReturnedQuiet'
    BY <1>4, <2>1 DEF IInv, vars, SpawnersOnly, InlineFirst, ReturnedQuiet
  <2>5. OutcomeMatchesPc' /\ ResultExact' /\ ErrorsKept'
    BY <1>4 DEF IInv, vars, OutcomeMatchesPc, ResultExact, ErrorsKept
  <2> QED
    BY <2>2, <2>3, <2>4, <2>5 DEF IInv
<1> QED
  BY <1>1, <1>2, <1>3, <1>4 DEF Next, Returned

(* Every reachable state satisfies the inductive invariant.                *)
THEOREM Inductive == Spec => []IInv
  BY InitIInv, NextIInv, PTL DEF Spec

(* With the group empty and the caller's list handed over, every task that  *)
(* exists is done: a queued one would keep its parent in the group.        *)
LEMMA NobodyLeft ==
  ASSUME IInv, inline = {}, pending[Caller] = <<>>, Members = {}
  PROVE  \A t \in Tasks : pc[t] \in {"unknown", "done"}
<1>1. \A u \in Tasks :
        pc[u] \notin {"executing", "spawning", "failed", "exiting", "released"}
  BY DEF Members, Holders
<1>2. ASSUME NEW t \in Tasks, pc[t] = "queued" PROVE FALSE
  <2>1. PICK p \in Procs : \E i \in 1..Len(pending[p]) : t = pending[p][i]
    BY <1>2 DEF IInv, QueuedPending, Elements
  <2>2. pending[p] # <<>>
    BY <2>1
  <2> QED
    BY <1>1, <2>2 DEF IInv, SpawnersOnly, Procs
<1> QED
  BY <1>1, <1>2 DEF IInv, TypeOK, PcStates

(* Types, and counters of the errgroup that never go below zero.           *)
THEOREM TypeCorrect == Spec => []TypeOK
<1>1. IInv => TypeOK
  BY DEF IInv
<1> QED
  BY <1>1, Inductive, PTL

(* At most Limit goroutines of the group run at any time, for every limit.  *)
THEOREM ConcurrencyCorrect == Spec => []ConcurrencyBounded
<1>1. IInv => ConcurrencyBounded
  BY DEF IInv
<1> QED
  BY <1>1, Inductive, PTL

(* Nothing started by a call is alive, or still to start, when it returns.  *)
THEOREM QuietCorrect == Spec => []QuietWhenReturned
<1>1. IInv => QuietWhenReturned
  BY NobodyLeft DEF IInv, ReturnedQuiet, QuietWhenReturned
<1> QED
  BY <1>1, Inductive, PTL

(* The result holds the outputs of each successful task exactly once.      *)
THEOREM ResultCorrect == Spec => []ResultExact
<1>1. IInv => ResultExact
  BY DEF IInv
<1> QED
  BY <1>1, Inductive, PTL

(* A task's ID names ancestors that all succeeded.                         *)
THEOREM AncestorsCorrect == Spec => []AncestorsSucceeded
<1>1. IInv => AncestorsSucceeded
  BY DEF IInv, IdChain, AncestorsSucceeded
<1> QED
  BY <1>1, Inductive, PTL

(* A wedge takes two tasks per slot: each holder blocks on a task of its own. *)
THEOREM WedgeBound == Spec => []WedgeNeedsTasks
<1>1. IInv => WedgeNeedsTasks
  <2> SUFFICES ASSUME IInv, Wedged PROVE Cardinality(Born) >= 2 * Limit
    BY DEF WedgeNeedsTasks
  <2> DEFINE Queued == {t \in Tasks : pc[t] = "queued"}
             blocksOn == [t \in Holders |-> Head(pending[t])]
  <2>1. /\ Holders \in SUBSET Tasks /\ Queued \in SUBSET Tasks
        /\ Born \in SUBSET Tasks /\ Holders \cup Queued \in SUBSET Born
        /\ Holders \cap Queued = {}
    BY DEF Holders, Born
  <2>2. ASSUME NEW t \in Holders
        PROVE  /\ t \in Procs /\ 1 \in 1..Len(pending[t])
               /\ blocksOn[t] = pending[t][1] /\ blocksOn[t] \in Queued
    <3>1. /\ t \in Procs /\ pending[t] \in Seq(Tasks) /\ pending[t] # <<>>
      BY DEF Wedged, IInv, TypeOK, Procs, Holders
    <3>2. 1 \in 1..Len(pending[t]) /\ blocksOn[t] = pending[t][1]
      BY <3>1, EmptySeq
    <3>3. pending[t][1] \in Tasks /\ pc[pending[t][1]] = "queued"
      BY <3>1, <3>2, PendingTyped DEF IInv, PendingQueued
    <3> QED
      BY <3>1, <3>2, <3>3
  <2>3. blocksOn \in Injection(Holders, Queued)
    <3>1. blocksOn \in [Holders -> Queued]
      BY <2>2
    <3>2. ASSUME NEW t \in Holders, NEW u \in Holders, blocksOn[t] = blocksOn[u]
          PROVE  t = u
      BY <2>2, <3>2 DEF IInv, PendingUnique
    <3> QED
      BY <3>1, <3>2 DEF Injection, IsInjective
  <2>4. /\ IsFiniteSet(Holders) /\ IsFiniteSet(Queued) /\ IsFiniteSet(Born)
        /\ Cardinality(Holders) \in Nat /\ Cardinality(Queued) \in Nat
        /\ Cardinality(Born) \in Nat
    BY <2>1, FiniteTasks
  <2>5. Cardinality(Holders) <= Cardinality(Queued)
    BY <2>3, <2>4, FS_Injection
  <2>6. /\ Cardinality(Holders \cup Queued) = Cardinality(Holders) + Cardinality(Queued)
        /\ Cardinality(Holders \cup Queued) <= Cardinality(Born)
    <3>1. Cardinality(Holders \cup Queued) =
            Cardinality(Holders) + Cardinality(Queued) - Cardinality(Holders \cap Queued)
      BY <2>4, FS_Union
    <3>2. Cardinality(Holders \cap Queued) = 0
      BY <2>1, FS_EmptySet
    <3>3. Cardinality(Holders \cup Queued) <= Cardinality(Born)
      BY <2>1, <2>4, FS_Subset
    <3> QED
      BY <2>4, <3>1, <3>2, <3>3
  <2>7. Limit \in Int /\ Limit <= Cardinality(Holders)
    BY SchedulerAssumption, <2>4 DEF Wedged, Full, IInv, CountersExact, Limited
  <2> QED
    BY <2>4, <2>5, <2>6, <2>7
<1> QED
  BY <1>1, Inductive, PTL

-----------------------------------------------------------------------------
(* What keeps a call from returning.                                       *)

(* Some goroutine can go on: a loop that calls Group.Go, a goroutine in or  *)
(* after executeImpl, or the caller behind errgrp.Wait.                    *)
CanGo == \E p \in Procs : pending[p] # <<>> /\ ~Full

CanStep ==
  \E t \in Tasks :
    \/ pc[t] \in {"executing", "failed", "exiting", "released"}
    \/ pc[t] = "spawning" /\ pending[t] = <<>>

CanReturn == inline = {} /\ pending[Caller] = <<>> /\ wg = 0

StuckMeansWedged == ~returned => CanGo \/ CanStep \/ CanReturn \/ Wedged

(* A call that has not returned can always go on, but for a wedge: neither  *)
(* failures nor any shape of the forest make goroutines wait for one       *)
(* another otherwise.                                                      *)
THEOREM StuckOnlyWedged == Spec => []StuckMeansWedged
<1>1. IInv => StuckMeansWedged
  <2> SUFFICES ASSUME IInv, ~CanGo, ~CanStep, ~Wedged PROVE CanReturn
    BY DEF StuckMeansWedged
  <2>1. \A t \in Tasks :
          /\ pc[t] \notin {"executing", "failed", "exiting", "released"}
          /\ pc[t] = "spawning" => pending[t] # <<>>
    BY DEF CanStep
  <2>2. ~Full
    BY <2>1 DEF Wedged, Holders
  <2>3. \A p \in Procs : pending[p] = <<>>
    BY <2>2 DEF CanGo
  <2>4. \A t \in Tasks : pc[t] # "spawning"
    BY <2>1, <2>3 DEF Procs
  <2>5. Members = {}
    BY <2>1, <2>4 DEF Members, Holders
  <2>6. wg = 0
    BY <2>5, FS_EmptySet DEF IInv, CountersExact
  <2>7. inline = {}
    BY <2>1, <2>4 DEF IInv, InlineFirst, TypeOK
  <2> QED
    BY <2>3, <2>6, <2>7 DEF CanReturn, Procs
<1> QED
  BY <1>1, Inductive, PTL

(* Goroutines that hold no token finish, and give none back.               *)
LEMMA WedgeStays == IInv /\ Wedged /\ [Next]_vars => Wedged'
<1> SUFFICES ASSUME IInv, Wedged, [Next]_vars PROVE Wedged'
  OBVIOUS
<1>1. /\ Full /\ \A t \in Holders : pc[t] = "spawning" /\ pending[t] # <<>>
      /\ pc \in [Tasks -> PcStates] /\ pending \in [Tasks \cup {Caller} -> Seq(Tasks)]
  BY DEF Wedged, IInv, TypeOK
<1>2. CASE UNCHANGED vars
  BY <1>1, <1>2 DEF vars, Wedged, Full, Holders
<1>3. CASE Wait
  BY <1>1, <1>3 DEF Wait, Wedged, Full, Holders
<1>4. ASSUME NEW p \in Tasks \cup {Caller}, Go(p) PROVE FALSE
  BY <1>1, <1>4 DEF Go
<1>5. ASSUME NEW t \in Tasks, Step(t) PROVE Wedged'
  <2>1. t \in inline \/ pc[t] = "released"
    BY <1>1, <1>5 DEF Step, ExecuteOk, ExecuteErr, AddOutputs, RecordError, Release, WgDone, Holders
  <2>2. sem' = sem /\ t \notin Holders
    BY <1>1, <1>5, <2>1
    DEF Step, ExecuteOk, ExecuteErr, AddOutputs, RecordError, Release, WgDone, group, Holders,
        IInv, InlineFirst
  <2>3. ASSUME NEW u \in Holders' PROVE u \in Holders /\ pc'[u] = pc[u] /\ pending'[u] = pending[u]
    <3>1. u \in Tasks /\ u \notin inline' /\ pc'[u] \in {"executing", "spawning", "failed", "exiting"}
      BY <2>3 DEF Holders
    <3>2. u # t
      <4>1. CASE t \in inline
        <5>1. pc[t] \in {"executing", "spawning"}
          BY <4>1 DEF IInv, InlineFirst
        <5>2. pc'[t] = "done" \/ t \in inline'
          BY <1>1, <1>5, <4>1, <5>1
          DEF Step, ExecuteOk, ExecuteErr, AddOutputs, RecordError, Release, WgDone, call
        <5> QED
          BY <3>1, <5>2
      <4>2. CASE pc[t] = "released"
        BY <1>1, <1>5, <3>1, <4>2
        DEF Step, ExecuteOk, ExecuteErr, AddOutputs, RecordError, Release, WgDone
      <4> QED
        BY <2>1, <4>1, <4>2
    <3>3. pc'[u] = pc[u] /\ pending'[u] = pending[u]
      <4>1. CASE ExecuteOk(t)
        BY <1>1, <3>1, <3>2, <4>1 DEF ExecuteOk
      <4>2. CASE ExecuteErr(t)
        BY <1>1, <3>1, <3>2, <4>2 DEF ExecuteErr
      <4>3. CASE AddOutputs(t)
        BY <1>1, <3>1, <3>2, <4>3 DEF AddOutputs
      <4>4. CASE RecordError(t) \/ Release(t) \/ WgDone(t)
        BY <1>1, <3>1, <3>2, <4>4 DEF RecordError, Release, WgDone
      <4> QED
        BY <1>5, <4>1, <4>2, <4>3, <4>4 DEF Step
    <3>4. u \notin inline
      <4>1. CASE ExecuteErr(t) /\ t \in inline
        BY <3>1, <3>2, <3>3, <4>1 DEF ExecuteErr, IInv, InlineFirst
      <4>2. CASE ~(ExecuteErr(t) /\ t \in inline)
        BY <1>5, <3>1, <3>2, <4>2
        DEF Step, ExecuteOk, ExecuteErr, AddOutputs, RecordError, Release, WgDone, call
      <4> QED
        BY <4>1, <4>2
    <3> QED
      BY <3>1, <3>3, <3>4 DEF Holders
  <2> QED
    BY <1>1, <2>2, <2>3 DEF Wedged, Full
<1> QED
  BY <1>2, <1>3, <1>4, <1>5 DEF Next, Returned

(* A wedge is never resolved: not by the goroutines that still finish, and  *)
(* not by the group's context, which nobody who is blocked in Group.Go     *)
(* looks at.                                                               *)
THEOREM WedgeIsForever == Spec => [](Wedged => []Wedged)
BY WedgeStays, Inductive, PTL DEF Spec

(* With no token at all nobody holds one, and Execute of a task without    *)
(* followups still returns.                                                *)
Jammed == Limit > 0 /\ Wedged

(* Otherwise a call that wedges never returns.                             *)
THEOREM JammedNeverReturns == Spec => [](Jammed => []~returned)
<1>1. IInv /\ Jammed => ~returned
  <2> SUFFICES ASSUME IInv, Limit > 0, Wedged, returned PROVE FALSE
    BY DEF Jammed
  <2>1. Holders = {}
    BY DEF IInv, ReturnedQuiet, Members
  <2>2. Limited /\ sem = 0
    BY <2>1, SchedulerAssumption, FS_EmptySet DEF IInv, CountersExact, Limited
  <2> QED
    BY <2>2, SchedulerAssumption DEF Wedged, Full
<1>2. IInv /\ Jammed /\ [Next]_vars => Jammed'
  BY WedgeStays DEF Jammed
<1> QED
  BY <1>1, <1>2, Inductive, PTL DEF Spec

-----------------------------------------------------------------------------
(* The implementation of TaskForest.                                       *)

LEMMA InitContract == Init => Contract!Init
<1> SUFFICES ASSUME Init PROVE Contract!Init
  OBVIOUS
<1> USE DEF Init
<1>1. /\ succeeded = {} /\ failed = {} /\ delivered = {}
      /\ ready \in SUBSET Tasks
  BY DEF ready, succeeded, failed, delivered
<1> QED
  BY <1>1 DEF Contract!Init, ready, succeeded, failed, delivered

(* Each task is succeeded, failed, ready or unborn, and never two of them.  *)
LEMMA Partition ==
  ASSUME IInv
  PROVE  /\ ready \cap (succeeded \cup failed) = {} /\ succeeded \cap failed = {}
         /\ Contract!Unborn = Unborn
         /\ delivered = {t \in succeeded : pc[t] # "spawning"}
<1>1. ready \cap (succeeded \cup failed) = {} /\ succeeded \cap failed = {}
  BY DEF IInv, OutcomeMatchesPc, ready, succeeded, failed
<1>2. ASSUME NEW t \in Tasks
      PROVE  t \notin ready \cup succeeded \cup failed <=> pc[t] = "unknown"
  <2>1. outcome[t] \in {"none", "ok", "err"}
    BY DEF IInv, TypeOK
  <2> QED
    BY <2>1 DEF IInv, OutcomeMatchesPc, ready, succeeded, failed
<1>3. Contract!Unborn = Unborn
  BY <1>2 DEF Contract!Unborn, Unborn, ready, succeeded, failed
<1>4. delivered = {t \in succeeded : pc[t] # "spawning"}
  BY DEF IInv, ResultExact, delivered, succeeded
<1> QED
  BY <1>1, <1>3, <1>4

(* A successful execution is the contract's Succeed.                       *)
LEMMA ExecuteOkContract ==
  ASSUME IInv, NEW t \in Tasks, ExecuteOk(t)
  PROVE  Contract!Succeed(t)
<1>1. PICK followups \in Lists(Unborn) :
        pc' = [u \in Tasks |->
                    IF u = t THEN "spawning"
                    ELSE IF u \in Elements(followups) THEN "queued"
                    ELSE pc[u]]
  BY DEF ExecuteOk
<1>2. Elements(followups) \in SUBSET Unborn
  BY ListIsSeq DEF Elements
<1>3. /\ pc[t] = "executing" /\ outcome' = [outcome EXCEPT ![t] = "ok"]
      /\ outcome \in [Tasks -> {"none", "ok", "err"}]
      /\ collected' = collected /\ returned' = returned /\ callerErr' = callerErr
      /\ outcome[t] = "none"
  BY DEF ExecuteOk, call, IInv, TypeOK, OutcomeMatchesPc
<1>4. t \in ready /\ ready' = (ready \ {t}) \cup Elements(followups)
  <2>1. t \notin Elements(followups)
    BY <1>2, <1>3 DEF Unborn
  <2> QED
    BY <1>1, <1>2, <1>3, <2>1 DEF ready, Unborn
<1>5. succeeded' = succeeded \cup {t} /\ failed' = failed /\ delivered' = delivered
  BY <1>3 DEF succeeded, failed, delivered
<1>6. Elements(followups) \in SUBSET Contract!Unborn
  BY <1>2, Partition
<1> QED
  BY <1>3, <1>4, <1>5, <1>6 DEF Contract!Succeed, ready, succeeded, failed, delivered

(* A failed one is Fail, or ends the call of Execute with it.              *)
LEMMA ExecuteErrContract ==
  ASSUME IInv, NEW t \in Tasks, ExecuteErr(t)
  PROVE  Contract!Fail(t) \/ Contract!FailAndAnswer(t)
<1>1. /\ pc[t] = "executing" /\ outcome' = [outcome EXCEPT ![t] = "err"]
      /\ outcome \in [Tasks -> {"none", "ok", "err"}] /\ outcome[t] = "none"
      /\ collected' = collected
  BY DEF ExecuteErr, IInv, TypeOK, OutcomeMatchesPc
<1>2. /\ pc' = [pc EXCEPT ![t] = IF t \in inline THEN "done" ELSE "failed"]
      /\ pc \in [Tasks -> PcStates]
  BY DEF ExecuteErr, IInv, TypeOK
<1>3. t \in ready /\ ready' = ready \ {t}
  BY <1>1, <1>2 DEF ready
<1>4. succeeded' = succeeded /\ failed' = failed \cup {t} /\ delivered' = delivered
  BY <1>1 DEF succeeded, failed, delivered
<1>5. CASE t \in inline
  <2>1. returned' = TRUE /\ callerErr' = t /\ ~returned
    BY <1>1, <1>5 DEF ExecuteErr, IInv, ReturnedQuiet
  <2>2. \A u \in Tasks \ {t} : pc[u] = "unknown" /\ outcome[u] = "none"
    BY <1>1, <1>5 DEF IInv, InlineFirst, OutcomeMatchesPc
  <2>3. ready = {t}
    BY <1>3, <2>2 DEF ready
  <2>4. delivered = succeeded
    BY <1>1, <2>2, Partition DEF succeeded
  <2> QED
    BY <1>3, <1>4, <2>1, <2>3, <2>4
    DEF Contract!FailAndAnswer, ready, succeeded, failed, delivered
<1>6. CASE t \notin inline
  <2>1. returned' = returned /\ callerErr' = callerErr
    BY <1>6 DEF ExecuteErr, call
  <2> QED
    BY <1>3, <1>4, <2>1 DEF Contract!Fail, ready, succeeded, failed, delivered
<1> QED
  BY <1>5, <1>6

(* Collecting the outputs is Deliver, and happens before the answer.       *)
LEMMA AddOutputsContract ==
  ASSUME IInv, NEW t \in Tasks, AddOutputs(t)
  PROVE  Contract!Deliver(t)
<1>1. /\ pc[t] = "spawning" /\ collected' = [collected EXCEPT ![t] = @ + 1]
      /\ collected \in [Tasks -> Nat] /\ outcome[t] = "ok" /\ collected[t] = 0
      /\ outcome' = outcome /\ returned' = returned /\ callerErr' = callerErr
  BY DEF AddOutputs, IInv, TypeOK, OutcomeMatchesPc, ResultExact
<1>2. ~returned
  BY <1>1 DEF IInv, ReturnedQuiet, Members, Holders
<1>3. /\ pc' = [pc EXCEPT ![t] = IF t \in inline THEN "done" ELSE "exiting"]
      /\ pc \in [Tasks -> PcStates]
  BY DEF AddOutputs, IInv, TypeOK
<1>4. ready' = ready
  BY <1>1, <1>3 DEF ready
<1>5. /\ t \in succeeded \ delivered /\ delivered' = delivered \cup {t}
      /\ succeeded' = succeeded /\ failed' = failed
  BY <1>1 DEF succeeded, failed, delivered
<1> QED
  BY <1>1, <1>2, <1>4, <1>5 DEF Contract!Deliver, ready, succeeded, failed, delivered

(* Wait returns the group's error once nothing is ready or undelivered.    *)
LEMMA WaitContract ==
  ASSUME IInv, Wait
  PROVE  Contract!Answer
<1>1. /\ inline = {} /\ pending[Caller] = <<>> /\ wg = 0 /\ ~returned
      /\ returned' = TRUE /\ callerErr' = groupErr
      /\ pc' = pc /\ outcome' = outcome /\ collected' = collected
  BY DEF Wait
<1>2. Members = {}
  BY <1>1, FiniteTasks, FS_EmptySet DEF IInv, CountersExact, Members, Holders
<1>3. \A t \in Tasks : pc[t] \in {"unknown", "done"}
  BY <1>1, <1>2, NobodyLeft
<1>4. ready = {}
  BY <1>3 DEF ready
<1>5. delivered = succeeded
  BY <1>3, Partition DEF succeeded
<1>6. IF failed = {} THEN groupErr = NoError ELSE groupErr \in failed
  <2>1. groupErr # NoError => groupErr \in failed
    BY DEF IInv, TypeOK, ErrorsKept, failed
  <2>2. groupErr = NoError => failed = {}
    BY <1>1, <1>3 DEF IInv, ErrorsKept, failed
  <2> QED
    BY <2>1, <2>2
<1>7. /\ ready' = ready /\ succeeded' = succeeded /\ failed' = failed
      /\ delivered' = delivered
  BY <1>1 DEF ready, succeeded, failed, delivered
<1> QED
  BY <1>1, <1>4, <1>5, <1>6, <1>7
  DEF Contract!Answer, ready, succeeded, failed, delivered

(* Starting a task, recording an error and leaving the group are invisible. *)
LEMMA NextContract ==
  ASSUME IInv, [Next]_vars
  PROVE  [Contract!Next]_(Contract!forest)
<1> DEFINE Invisible ==
             /\ ready' = ready /\ outcome' = outcome /\ collected' = collected
             /\ returned' = returned /\ callerErr' = callerErr
<1>1. Invisible => UNCHANGED Contract!forest
  BY DEF Contract!forest, ready, succeeded, failed, delivered
<1>2. ASSUME NEW p \in Tasks \cup {Caller}, Go(p) PROVE Invisible
  <2>1. PICK c \in Tasks : pc[c] = "queued" /\ pc' = [pc EXCEPT ![c] = "executing"]
    <3>1. pending[p] \in Seq(Tasks) /\ pending[p] # <<>>
      BY <1>2 DEF Go, IInv, TypeOK
    <3>2. 1 \in 1..Len(pending[p]) /\ Head(pending[p]) = pending[p][1]
      BY <3>1, EmptySeq
    <3>3. pending[p][1] \in Tasks /\ pc[pending[p][1]] = "queued"
      BY <3>1, <3>2, PendingTyped DEF IInv, PendingQueued, Procs
    <3> QED
      BY <1>2, <3>2, <3>3 DEF Go
  <2> QED
    BY <1>2, <2>1 DEF Go, call, ready, IInv, TypeOK
<1>3. ASSUME NEW t \in Tasks, RecordError(t) \/ Release(t) \/ WgDone(t)
      PROVE  Invisible
  BY <1>3 DEF RecordError, Release, WgDone, call, ready, IInv, TypeOK
<1>4. ASSUME UNCHANGED vars PROVE Invisible
  BY <1>4 DEF vars, ready
<1>5. CASE Wait
  BY <1>5, WaitContract DEF Contract!Next
<1>6. ASSUME NEW t \in Tasks, Step(t) PROVE [Contract!Next]_(Contract!forest)
  BY <1>1, <1>3, <1>6, ExecuteOkContract, ExecuteErrContract, AddOutputsContract
  DEF Step, Contract!Next
<1> QED
  BY <1>1, <1>2, <1>4, <1>5, <1>6 DEF Next, Returned

(* The scheduler implements its contract, for every forest and every limit. *)
THEOREM ContractImplemented == Spec => Implements
  BY InitContract, NextContract, Inductive, PTL DEF Spec, Implements, Contract!Spec
=============================================================================
