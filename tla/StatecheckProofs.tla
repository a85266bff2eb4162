-------------------------- MODULE StatecheckProofs --------------------------
(***************************************************************************)
(* Proofs about Statecheck, for any tasks, files and requests, and any     *)
(* number of builds, crashes and edits, where every task has an output     *)
(* directory of its own and reads sources or what its parent made.         *)
(***************************************************************************)
EXTENDS Statecheck, TLAPS

(* No two tasks have one ID.                                               *)
DistinctIds == \A t, u \in Tasks : Id[t] = Id[u] => t = u

(* An input is a source file, which nobody changes during a build, or what *)
(* the parent has made, which is finished before its followup starts.      *)
InputsSettled ==
  \A t \in Tasks : \A a \in Asks[t] :
    a.input \in Sources \/ (Parent[t] # NoTask /\ a.input = Id[Parent[t]])

(* What the user leaves in an output directory is not what a task makes,   *)
(* and a torn state file is not a state.                                   *)
ValuesDistinct ==
  /\ \A a, c : Make(a, c) \notin {NoFile, Foreign}
  /\ \A e, a, n, c, o, r, f :
       Torn # [executor |-> e, args |-> a, input |-> n,
               in |-> c, out |-> o, result |-> r, followups |-> f]

-----------------------------------------------------------------------------
(* The inductive invariant.                                                *)

Truthful(r) ==
  LET made == Make([executor |-> r.executor, args |-> r.args, input |-> r.input], r.in)
  IN r.out = made /\ r.result = made

Whole(r) ==
  r = [executor |-> r.executor, args |-> r.args, input |-> r.input,
       in |-> r.in, out |-> r.out, result |-> r.result, followups |-> r.result]

Decodable(s) == s \notin {NoState, Torn}

Shape ==
  /\ source = [f \in Sources |-> source[f]]
  /\ out = [i \in Ids |-> out[i]] /\ st = [i \in Ids |-> st[i]]
  /\ ended = [i \in Ids |-> ended[i]]
  /\ ask = [t \in Tasks |-> ask[t]] /\ \A t \in Tasks : ask[t] \in Asks[t]
  /\ pc = [t \in Tasks |-> pc[t]] /\ rec = [t \in Tasks |-> rec[t]]
  /\ read = [t \in Tasks |-> read[t]] /\ got = [t \in Tasks |-> got[t]]
  /\ building \in BOOLEAN

Succeeded(t) == pc[t] \in {"skipped", "done"}

(* A task that has looked at its state has a parent that is finished, so   *)
(* that its input stays as it is until the build ends.                     *)
TaskOK(t) ==
  /\ pc[t] # "idle" /\ Parent[t] # NoTask => Succeeded(Parent[t])
  /\ pc[t] = "looked" => rec[t] = st[Id[t]]
  /\ pc[t] \in {"read", "writing"} => read[t] = Input(t)
  /\ pc[t] \in {"executed", "saving", "skipped", "done"} =>
       out[Id[t]] = Clean(t) /\ got[t] = Clean(t)

Working(t) == pc[t] \notin {"idle", "looked", "skipped", "done", "failed"}

(* After a success, and until the next attempt, a state file that is there *)
(* is whole, and the outputs are those it records or the user's.           *)
Kept(i) ==
  (/\ ended[i] = "succeeded"
   /\ st[i] # NoState
   /\ ~(building /\ \E t \in Tasks : Id[t] = i /\ Working(t)))
  => /\ Whole(st[i])
     /\ out[i] = st[i].out \/ out[i] \in {NoFile, Foreign}

IInv ==
  /\ Shape
  /\ \A i \in Ids : Decodable(st[i]) => Truthful(st[i])
  /\ \A t \in Tasks : Decodable(rec[t]) => Truthful(rec[t])
  /\ building => \A t \in Tasks : TaskOK(t)
  /\ \A i \in Ids : Kept(i)

LEMMA InitIInv == Init => IInv
<1> SUFFICES ASSUME Init PROVE IInv
  OBVIOUS
<1>1. Shape
  BY DEF Init, Shape
<1>2. \A i \in Ids : ~Decodable(st[i]) /\ ended[i] # "succeeded"
  BY DEF Init, Decodable
<1>3. \A t \in Tasks : ~Decodable(rec[t])
  BY DEF Init, Decodable
<1>4. ~building
  BY DEF Init
<1> QED
  BY <1>1, <1>2, <1>3, <1>4 DEF IInv, Kept

-----------------------------------------------------------------------------
(* Steps of one task.                                                      *)

LocalTo(t) ==
  /\ building /\ ~Over(t) /\ pc'[t] # "idle"
  /\ pc[t] # "idle" \/ Startable(t)
  /\ UNCHANGED <<source, building, ask>>
  /\ \A u \in Tasks \ {t} :
       pc'[u] = pc[u] /\ rec'[u] = rec[u] /\ read'[u] = read[u] /\ got'[u] = got[u]
  /\ \A i \in Ids \ {Id[t]} : out'[i] = out[i] /\ st'[i] = st[i] /\ ended'[i] = ended[i]

(* Tasks that have started keep their inputs, the one that steps included. *)
LEMMA InputKept ==
  ASSUME DistinctIds, InputsSettled, IInv,
         NEW t \in Tasks, LocalTo(t),
         NEW u \in Tasks, pc[u] # "idle" \/ u = t
  PROVE  Input(u)' = Input(u) /\ Clean(u)' = Clean(u)
<1>1. ask'[u] = ask[u] /\ source' = source /\ ask[u] \in Asks[u]
  BY DEF LocalTo, IInv, Shape
<1>2. CASE ask[u].input \in Sources
  BY <1>1, <1>2 DEF Input, Clean
<1>3. CASE ask[u].input \notin Sources
  <2>1. Parent[u] # NoTask /\ ask[u].input = Id[Parent[u]]
    BY <1>1, <1>3 DEF InputsSettled
  <2>2. Parent[u] \in Tasks /\ Id[Parent[u]] \in Ids
    BY <2>1, StatecheckAssumption
  <2>3. Succeeded(Parent[u])
    BY <2>1 DEF IInv, TaskOK, LocalTo, Startable, Succeeded
  <2>4. Parent[u] # t
    BY <2>3 DEF Succeeded, LocalTo, Over
  <2>5. Id[Parent[u]] # Id[t]
    BY <2>2, <2>4 DEF DistinctIds
  <2>6. out'[ask[u].input] = out[ask[u].input]
    BY <2>1, <2>2, <2>5 DEF LocalTo
  <2> QED
    BY <1>1, <2>6 DEF Input, Clean
<1> QED
  BY <1>2, <1>3

LEMMA OneTask ==
  ASSUME DistinctIds, InputsSettled, IInv, NEW t \in Tasks, LocalTo(t),
         Shape', TaskOK(t)', Kept(Id[t])',
         (Decodable(st[Id[t]]) => Truthful(st[Id[t]]))',
         (Decodable(rec[t]) => Truthful(rec[t]))'
  PROVE  IInv'
<1>1. Id[t] \in Ids
  BY StatecheckAssumption
<1>2. ASSUME NEW i \in Ids PROVE (Decodable(st[i]) => Truthful(st[i]))'
  BY <1>1 DEF IInv, LocalTo, Decodable, Truthful
<1>3. ASSUME NEW u \in Tasks PROVE (Decodable(rec[u]) => Truthful(rec[u]))'
  BY DEF IInv, LocalTo, Decodable, Truthful
<1>4. ASSUME NEW u \in Tasks PROVE TaskOK(u)'
  <2>1. CASE u = t
    BY <2>1
  <2>2. CASE u # t /\ pc[u] = "idle"
    BY <2>2 DEF LocalTo, TaskOK
  <2>3. CASE u # t /\ pc[u] # "idle"
    <3>1. Input(u)' = Input(u) /\ Clean(u)' = Clean(u)
      BY <2>3, InputKept
    <3>2. Id[u] \in Ids /\ Id[u] # Id[t]
      BY <2>3, StatecheckAssumption DEF DistinctIds
    <3>3. /\ pc'[u] = pc[u] /\ rec'[u] = rec[u] /\ read'[u] = read[u] /\ got'[u] = got[u]
          /\ out'[Id[u]] = out[Id[u]] /\ st'[Id[u]] = st[Id[u]]
      BY <2>3, <3>2 DEF LocalTo
    <3>4. TaskOK(u)
      BY DEF IInv, LocalTo
    <3>5. Parent[u] # NoTask => Succeeded(Parent[u])'
      <4> SUFFICES ASSUME Parent[u] # NoTask PROVE Succeeded(Parent[u])'
        OBVIOUS
      <4>1. Parent[u] \in Tasks /\ Succeeded(Parent[u])
        BY <2>3, <3>4, StatecheckAssumption DEF TaskOK
      <4>2. Parent[u] # t
        BY <4>1 DEF Succeeded, LocalTo, Over
      <4> QED
        BY <4>1, <4>2 DEF LocalTo, Succeeded
    <3> QED
      BY <3>1, <3>3, <3>4, <3>5 DEF TaskOK
  <2> QED
    BY <2>1, <2>2, <2>3
<1>5. ASSUME NEW i \in Ids PROVE Kept(i)'
  <2>1. CASE i = Id[t]
    BY <2>1
  <2>2. CASE i # Id[t]
    <3>1. out'[i] = out[i] /\ st'[i] = st[i] /\ ended'[i] = ended[i] /\ building' = building
      BY <2>2 DEF LocalTo
    <3>2. \A u \in Tasks : Id[u] = i => (Working(u)' <=> Working(u))
      BY <2>2 DEF LocalTo, Working
    <3>3. Kept(i)
      BY DEF IInv
    <3> QED
      BY <3>1, <3>2, <3>3 DEF Kept, Whole
  <2> QED
    BY <2>1, <2>2
<1> QED
  BY <1>2, <1>3, <1>4, <1>5 DEF IInv

(* A task that is at work vouches for nothing; one that is not has left its *)
(* files alone.                                                            *)
LEMMA KeptWorking ==
  ASSUME NEW t \in Tasks, Id[t] \in Ids, building', Working(t)'
  PROVE  Kept(Id[t])'
BY DEF Kept

LEMMA KeptIdle ==
  ASSUME IInv, NEW t \in Tasks, LocalTo(t), UNCHANGED <<files, ended>>, ~Working(t), ~Working(t)'
  PROVE  Kept(Id[t])'
<1>1. Id[t] \in Ids
  BY StatecheckAssumption
<1>2. Kept(Id[t])
  BY <1>1 DEF IInv
<1>3. \A u \in Tasks : Working(u)' <=> Working(u)
  BY DEF LocalTo, Working
<1> QED
  BY <1>2, <1>3 DEF Kept, Whole, files, LocalTo

LEMMA LookStep ==
  ASSUME DistinctIds, InputsSettled, IInv, building, NEW t \in Tasks, Look(t)
  PROVE  IInv'
<1>1. Id[t] \in Ids
  BY StatecheckAssumption
<1>2. LocalTo(t)
  BY DEF Look, LocalTo, Over, Startable, IInv, Shape, files
<1>3. Shape'
  BY DEF Look, IInv, Shape, files
<1>4. /\ pc[t] = "idle" /\ pc'[t] = "looked" /\ rec'[t] = st[Id[t]]
      /\ UNCHANGED <<files, ended>>
  BY DEF Look, Startable, IInv, Shape
<1>5. Parent[t] # NoTask => Succeeded(Parent[t])'
  <2> SUFFICES ASSUME Parent[t] # NoTask PROVE Succeeded(Parent[t])'
    OBVIOUS
  <2>1. Parent[t] \in Tasks /\ Succeeded(Parent[t])
    BY StatecheckAssumption DEF Look, Startable, Succeeded
  <2>2. Parent[t] # t
    BY <1>4, <2>1 DEF Succeeded
  <2> QED
    BY <1>2, <2>1, <2>2 DEF LocalTo, Succeeded
<1>6. TaskOK(t)'
  BY <1>4, <1>5 DEF TaskOK, files
<1>7. Kept(Id[t])'
  BY <1>2, <1>4, KeptIdle DEF Working
<1>8. (Decodable(st[Id[t]]) => Truthful(st[Id[t]]))' /\ (Decodable(rec[t]) => Truthful(rec[t]))'
  BY <1>1, <1>4 DEF IInv, Decodable, Truthful, files
<1> QED
  BY <1>2, <1>3, <1>6, <1>7, <1>8, OneTask

(* The parent of a task that has started is finished after the step, too.  *)
LEMMA ParentStays ==
  ASSUME IInv, NEW t \in Tasks, LocalTo(t), pc[t] # "idle"
  PROVE  Parent[t] # NoTask => Succeeded(Parent[t])'
<1> SUFFICES ASSUME Parent[t] # NoTask PROVE Succeeded(Parent[t])'
  OBVIOUS
<1>1. Parent[t] \in Tasks /\ Succeeded(Parent[t])
  BY StatecheckAssumption DEF IInv, TaskOK, LocalTo
<1>2. Parent[t] # t
  BY <1>1 DEF Succeeded, LocalTo, Over
<1> QED
  BY <1>1, <1>2 DEF LocalTo, Succeeded

(* A record that is truthful and matches is of the task as it would be     *)
(* executed now.                                                           *)
LEMMA MatchIsClean ==
  ASSUME IInv, NEW t \in Tasks, NEW r, Truthful(r), Matches(t, r)
  PROVE  out[Id[t]] = Clean(t) /\ r.result = Clean(t)
<1>1. ask[t] \in Asks[t]
  BY DEF IInv, Shape
<1>2. ask[t] = [executor |-> r.executor, args |-> r.args, input |-> r.input]
  BY <1>1, StatecheckAssumption DEF Matches
<1>3. r.in = Input(t) /\ r.out = out[Id[t]]
  BY DEF Matches
<1> QED
  BY <1>2, <1>3 DEF Truthful, Clean

LEMMA SkipStep ==
  ASSUME DistinctIds, InputsSettled, IInv, building, NEW t \in Tasks, Skip(t)
  PROVE  IInv'
<1>1. Id[t] \in Ids
  BY StatecheckAssumption
<1>2. LocalTo(t)
  BY DEF Skip, LocalTo, Over, IInv, Shape, files
<1>3. Shape'
  BY DEF Skip, IInv, Shape, files
<1>4. /\ pc[t] = "looked" /\ pc'[t] = "skipped" /\ got'[t] = rec[t].result /\ rec' = rec
      /\ UNCHANGED <<files, ended>>
  BY DEF Skip, IInv, Shape
<1>5. out[Id[t]] = Clean(t) /\ rec[t].result = Clean(t)
  BY MatchIsClean DEF Skip, UpToDate, IInv, Decodable
<1>6. Clean(t)' = Clean(t)
  BY <1>2, InputKept
<1>7. TaskOK(t)'
  BY <1>2, <1>4, <1>5, <1>6, ParentStays DEF TaskOK, files
<1>8. Kept(Id[t])'
  BY <1>2, <1>4, KeptIdle DEF Working
<1>9. (Decodable(st[Id[t]]) => Truthful(st[Id[t]]))' /\ (Decodable(rec[t]) => Truthful(rec[t]))'
  BY <1>1, <1>4 DEF IInv, Decodable, Truthful, files
<1> QED
  BY <1>2, <1>3, <1>7, <1>8, <1>9, OneTask

LEMMA MismatchStep ==
  ASSUME DistinctIds, InputsSettled, IInv, building, NEW t \in Tasks, Mismatch(t)
  PROVE  IInv'
<1>1. Id[t] \in Ids
  BY StatecheckAssumption
<1>2. LocalTo(t) /\ Shape'
  BY DEF Mismatch, LocalTo, Over, IInv, Shape, files
<1>3. pc[t] = "looked" /\ pc'[t] = "executing" /\ UNCHANGED <<files, rec, building>>
  BY DEF Mismatch, IInv, Shape
<1>4. TaskOK(t)'
  BY <1>2, <1>3, ParentStays DEF TaskOK
<1>5. Kept(Id[t])'
  BY <1>1, <1>3, KeptWorking DEF Working
<1>6. (Decodable(st[Id[t]]) => Truthful(st[Id[t]]))' /\ (Decodable(rec[t]) => Truthful(rec[t]))'
  BY <1>1, <1>3 DEF IInv, Decodable, Truthful, files
<1> QED
  BY <1>2, <1>4, <1>5, <1>6, OneTask

LEMMA ExecutorReadsStep ==
  ASSUME DistinctIds, InputsSettled, IInv, building, NEW t \in Tasks, ExecutorReads(t)
  PROVE  IInv'
<1>1. Id[t] \in Ids
  BY StatecheckAssumption
<1>2. LocalTo(t) /\ Shape'
  BY DEF ExecutorReads, LocalTo, Over, IInv, Shape, files
<1>3. /\ pc[t] = "executing" /\ pc'[t] = "read" /\ read'[t] = Input(t)
      /\ UNCHANGED <<files, rec, building>>
  BY DEF ExecutorReads, IInv, Shape
<1>4. TaskOK(t)'
  BY <1>2, <1>3, ParentStays, InputKept DEF TaskOK
<1>5. Kept(Id[t])'
  BY <1>1, <1>3, KeptWorking DEF Working
<1>6. (Decodable(st[Id[t]]) => Truthful(st[Id[t]]))' /\ (Decodable(rec[t]) => Truthful(rec[t]))'
  BY <1>1, <1>3 DEF IInv, Decodable, Truthful, files
<1> QED
  BY <1>2, <1>4, <1>5, <1>6, OneTask

LEMMA ExecutorWritesStep ==
  ASSUME DistinctIds, InputsSettled, IInv, building, NEW t \in Tasks, ExecutorWrites(t)
  PROVE  IInv'
<1>1. Id[t] \in Ids
  BY StatecheckAssumption
<1>2. LocalTo(t) /\ Shape'
  BY <1>1 DEF ExecutorWrites, LocalTo, Over, IInv, Shape
<1>3. /\ pc[t] = "read" /\ pc'[t] = "writing" /\ read' = read
      /\ UNCHANGED <<st, rec, building>>
  BY DEF ExecutorWrites, IInv, Shape
<1>4. TaskOK(t)'
  <2>1. read[t] = Input(t)
    BY <1>3 DEF IInv, TaskOK
  <2>2. Input(t)' = Input(t)
    BY <1>2, InputKept
  <2> QED
    BY <1>2, <1>3, <2>1, <2>2, ParentStays DEF TaskOK
<1>5. Kept(Id[t])'
  BY <1>1, <1>3, KeptWorking DEF Working
<1>6. (Decodable(st[Id[t]]) => Truthful(st[Id[t]]))' /\ (Decodable(rec[t]) => Truthful(rec[t]))'
  BY <1>1, <1>3 DEF IInv, Decodable, Truthful
<1> QED
  BY <1>2, <1>4, <1>5, <1>6, OneTask

LEMMA ExecutorReturnsStep ==
  ASSUME DistinctIds, InputsSettled, IInv, building, NEW t \in Tasks, ExecutorReturns(t)
  PROVE  IInv'
<1>1. Id[t] \in Ids
  BY StatecheckAssumption
<1>2. LocalTo(t) /\ Shape'
  BY <1>1 DEF ExecutorReturns, LocalTo, Over, IInv, Shape
<1>3. /\ pc[t] = "writing" /\ pc'[t] = "executed" /\ UNCHANGED <<st, rec, building>>
      /\ out'[Id[t]] = Make(ask[t], read[t]) /\ got'[t] = Make(ask[t], read[t])
  BY <1>1 DEF ExecutorReturns, IInv, Shape
<1>4. TaskOK(t)'
  <2>1. Make(ask[t], read[t]) = Clean(t)
    BY <1>3 DEF IInv, TaskOK, Clean
  <2>2. Clean(t)' = Clean(t)
    BY <1>2, InputKept
  <2> QED
    BY <1>2, <1>3, <2>1, <2>2, ParentStays DEF TaskOK
<1>5. Kept(Id[t])'
  BY <1>1, <1>3, KeptWorking DEF Working
<1>6. (Decodable(st[Id[t]]) => Truthful(st[Id[t]]))' /\ (Decodable(rec[t]) => Truthful(rec[t]))'
  BY <1>1, <1>3 DEF IInv, Decodable, Truthful
<1> QED
  BY <1>2, <1>4, <1>5, <1>6, OneTask

(* A failure, of the executor or of SaveState.                             *)
LEMMA FailStep ==
  ASSUME DistinctIds, InputsSettled, IInv, building, NEW t \in Tasks,
         ExecutorFails(t) \/ SaveFails(t)
  PROVE  IInv'
<1>1. Id[t] \in Ids
  BY StatecheckAssumption
<1>2. LocalTo(t) /\ Shape'
  BY <1>1 DEF ExecutorFails, SaveFails, LocalTo, Over, IInv, Shape, files
<1>3. /\ pc[t] # "idle" /\ pc'[t] = "failed" /\ UNCHANGED <<files, rec, building>>
      /\ ended'[Id[t]] = "failed"
  BY <1>1 DEF ExecutorFails, SaveFails, IInv, Shape
<1>4. TaskOK(t)'
  BY <1>2, <1>3, ParentStays DEF TaskOK
<1>5. Kept(Id[t])'
  BY <1>3 DEF Kept
<1>6. (Decodable(st[Id[t]]) => Truthful(st[Id[t]]))' /\ (Decodable(rec[t]) => Truthful(rec[t]))'
  BY <1>1, <1>3 DEF IInv, Decodable, Truthful, files
<1> QED
  BY <1>2, <1>4, <1>5, <1>6, OneTask

LEMMA TruncateStep ==
  ASSUME DistinctIds, InputsSettled, IInv, building, NEW t \in Tasks, Truncate(t)
  PROVE  IInv'
<1>1. Id[t] \in Ids
  BY StatecheckAssumption
<1>2. LocalTo(t) /\ Shape'
  BY <1>1 DEF Truncate, LocalTo, Over, IInv, Shape
<1>3. /\ pc[t] = "executed" /\ pc'[t] = "saving" /\ st'[Id[t]] = Torn
      /\ UNCHANGED <<out, got, rec, building>>
  BY <1>1 DEF Truncate, IInv, Shape
<1>4. TaskOK(t)'
  <2>1. out[Id[t]] = Clean(t) /\ got[t] = Clean(t)
    BY <1>3 DEF IInv, TaskOK
  <2>2. Clean(t)' = Clean(t)
    BY <1>2, InputKept
  <2> QED
    BY <1>2, <1>3, <2>1, <2>2, ParentStays DEF TaskOK
<1>5. Kept(Id[t])'
  BY <1>1, <1>3, KeptWorking DEF Working
<1>6. (Decodable(st[Id[t]]) => Truthful(st[Id[t]]))' /\ (Decodable(rec[t]) => Truthful(rec[t]))'
  BY <1>3 DEF IInv, Decodable, Truthful
<1> QED
  BY <1>2, <1>4, <1>5, <1>6, OneTask

LEMMA EncodeStep ==
  ASSUME DistinctIds, InputsSettled, IInv, building, NEW t \in Tasks, Encode(t)
  PROVE  IInv'
<1>1. Id[t] \in Ids
  BY StatecheckAssumption
<1>2. LocalTo(t) /\ Shape'
  BY <1>1 DEF Encode, LocalTo, Over, IInv, Shape
<1>3. /\ pc[t] = "saving" /\ pc'[t] = "done" /\ st'[Id[t]] = State(t)
      /\ UNCHANGED <<out, got, rec, ask, building>>
  BY <1>1 DEF Encode, IInv, Shape
<1>4. out[Id[t]] = Clean(t) /\ got[t] = Clean(t)
  BY <1>3 DEF IInv, TaskOK
<1>5. TaskOK(t)'
  <2>1. Clean(t)' = Clean(t)
    BY <1>2, InputKept
  <2> QED
    BY <1>2, <1>3, <1>4, <2>1, ParentStays DEF TaskOK
<1>6. /\ State(t).executor = ask[t].executor /\ State(t).args = ask[t].args
      /\ State(t).input = ask[t].input /\ State(t).in = Input(t)
      /\ State(t).out = out[Id[t]] /\ State(t).result = got[t]
      /\ State(t).followups = got[t]
  BY DEF State
<1>7. Truthful(State(t))
  <2>1. ask[t] = [executor |-> ask[t].executor, args |-> ask[t].args, input |-> ask[t].input]
    BY StatecheckAssumption DEF IInv, Shape
  <2> QED
    BY <1>4, <1>6, <2>1 DEF Truthful, Clean
<1>8. (Decodable(st[Id[t]]) => Truthful(st[Id[t]]))' /\ (Decodable(rec[t]) => Truthful(rec[t]))'
  BY <1>3, <1>7 DEF IInv, Decodable, Truthful
<1>9. Whole(State(t))
  BY DEF Whole, State
<1>10. Kept(Id[t])'
  BY <1>3, <1>6, <1>9 DEF Kept, Whole
<1> QED
  BY <1>2, <1>5, <1>8, <1>10, OneTask

-----------------------------------------------------------------------------
(* Builds and the user.                                                    *)

LEMMA TaskStep ==
  ASSUME DistinctIds, InputsSettled, IInv, building, NEW t \in Tasks, Execute(t)
  PROVE  IInv'
BY LookStep, SkipStep, MismatchStep, ExecutorReadsStep, ExecutorWritesStep,
   ExecutorReturnsStep, FailStep, TruncateStep, EncodeStep DEF Execute

LEMMA StartBuildStep == ASSUME IInv, StartBuild PROVE IInv'
<1>1. Shape'
  BY DEF IInv, Shape, StartBuild, files
<1>2. ~building /\ UNCHANGED <<files, ended>> /\ \A t \in Tasks : pc'[t] = "idle" /\ rec'[t] = NoState
  BY DEF StartBuild
<1>3. \A i \in Ids : (Decodable(st[i]) => Truthful(st[i]))'
  BY <1>2 DEF IInv, Decodable, Truthful, files
<1>4. \A t \in Tasks : ~Decodable(rec[t])'
  BY <1>2 DEF Decodable
<1>5. \A t \in Tasks : TaskOK(t)'
  BY <1>2 DEF TaskOK
<1>6. \A i \in Ids : Kept(i)'
  BY <1>2 DEF IInv, Kept, Whole, files
<1> QED
  BY <1>1, <1>3, <1>4, <1>5, <1>6 DEF IInv

LEMMA EndBuildStep == ASSUME IInv, EndBuild PROVE IInv'
<1>1. Shape'
  BY DEF IInv, Shape, EndBuild, files, locals
<1>2. ~building' /\ UNCHANGED <<files, locals, ended>> /\ \A t \in Tasks : ~Working(t)
  BY DEF EndBuild, Working, Over
<1>3. \A i \in Ids : (Decodable(st[i]) => Truthful(st[i]))'
  BY <1>2 DEF IInv, Decodable, Truthful, files
<1>4. \A t \in Tasks : (Decodable(rec[t]) => Truthful(rec[t]))'
  BY <1>2 DEF IInv, Decodable, Truthful, locals
<1>5. \A i \in Ids : Kept(i)'
  BY <1>2 DEF IInv, Kept, Whole, files
<1> QED
  BY <1>1, <1>2, <1>3, <1>4, <1>5 DEF IInv

(* The attempts that were under way have failed.                           *)
LEMMA DieStep == ASSUME IInv, Die PROVE IInv'
<1>1. Shape'
  BY DEF IInv, Shape, Die, files, locals
<1>2. ~building' /\ UNCHANGED <<files, locals>>
  BY DEF Die
<1>3. \A i \in Ids : (Decodable(st[i]) => Truthful(st[i]))'
  BY <1>2 DEF IInv, Decodable, Truthful, files
<1>4. \A t \in Tasks : (Decodable(rec[t]) => Truthful(rec[t]))'
  BY <1>2 DEF IInv, Decodable, Truthful, locals
<1>5. ASSUME NEW i \in Ids PROVE Kept(i)'
  <2> SUFFICES ASSUME ended'[i] = "succeeded", st[i] # NoState
               PROVE  Whole(st[i]) /\ (out[i] = st[i].out \/ out[i] \in {NoFile, Foreign})
    BY <1>2 DEF Kept, Whole, files
  <2>1. ended[i] = "succeeded" /\ ~\E t \in Tasks : Id[t] = i /\ Working(t)
    BY DEF Die, Working, Over
  <2> QED
    BY <2>1 DEF IInv, Kept
<1> QED
  BY <1>1, <1>2, <1>3, <1>4, <1>5 DEF IInv

LEMMA UserStep == ASSUME IInv, User PROVE IInv'
<1>1. ~building /\ UNCHANGED <<building, locals, ended>>
  BY DEF User, EditSource, EditOutputs, RemoveDirectory, UserChanges
<1>2. Shape'
  <2>1. source' = [f \in Sources |-> source'[f]] /\ out' = [i \in Ids |-> out'[i]]
        /\ st' = [i \in Ids |-> st'[i]]
    BY DEF IInv, Shape, User, EditSource, EditOutputs, RemoveDirectory
  <2> QED
    BY <1>1, <2>1 DEF IInv, Shape, locals
<1>3. \A i \in Ids : \/ st'[i] = st[i] /\ (out'[i] = out[i] \/ out'[i] \in {NoFile, Foreign})
                     \/ st'[i] = NoState
  BY DEF IInv, Shape, User, EditSource, EditOutputs, RemoveDirectory
<1>4. \A i \in Ids : (Decodable(st[i]) => Truthful(st[i]))'
  BY <1>3 DEF IInv, Decodable, Truthful
<1>5. \A t \in Tasks : (Decodable(rec[t]) => Truthful(rec[t]))'
  BY <1>1 DEF IInv, Decodable, Truthful, locals
<1>6. ASSUME NEW i \in Ids PROVE Kept(i)'
  <2>1. Kept(i)
    BY DEF IInv
  <2> QED
    BY <1>1, <1>3, <2>1 DEF Kept, Whole
<1> QED
  BY <1>1, <1>2, <1>4, <1>5, <1>6 DEF IInv

LEMMA StutterStep == ASSUME IInv, UNCHANGED vars PROVE IInv'
BY DEF IInv, Shape, TaskOK, Kept, Whole, Working, Succeeded, Decodable, Truthful, Clean, Input,
       vars, files, locals

LEMMA NextIInv ==
  ASSUME DistinctIds, InputsSettled, IInv, [Next]_vars
  PROVE  IInv'
BY TaskStep, StartBuildStep, EndBuildStep, DieStep, UserStep, StutterStep DEF Next

LEMMA IInvCorrect ==
  ASSUME DistinctIds, InputsSettled
  PROVE  Spec => []IInv
<1>1. IInv /\ [Next]_vars => IInv'
  BY NextIInv
<1> QED
  BY <1>1, InitIInv, PTL DEF Spec

-----------------------------------------------------------------------------
(* What follows.                                                           *)

(* Whatever crashed, failed or was edited before: a state file that can be *)
(* decoded records one execution as it was.                                *)
THEOREM RecordsTruthful ==
  ASSUME DistinctIds, InputsSettled
  PROVE  Spec => []TruthfulRecords
<1>1. IInv => TruthfulRecords
  BY DEF IInv, TruthfulRecords, Truthful, Decodable
<1> QED
  BY <1>1, IInvCorrect, PTL

(* Every task of a build that has succeeded, executed or skipped, leaves   *)
(* the outputs and the result that executing it now would.                 *)
THEOREM IncrementalIsClean ==
  ASSUME DistinctIds, InputsSettled
  PROVE  Spec => []SameAsCleanBuild
<1>1. IInv => SameAsCleanBuild
  BY DEF IInv, TaskOK, SameAsCleanBuild
<1> QED
  BY <1>1, IInvCorrect, PTL

(* A task that succeeded last time, whose outputs are those it would make, *)
(* is skipped: the record it left matches.                                 *)
LEMMA MismatchHasCause ==
  ASSUME DistinctIds, ValuesDistinct, IInv, NEW t \in Tasks, building, Mismatch(t)
  PROVE  ~(/\ ended[Id[t]] = "succeeded"
           /\ ask[t].executor \notin Structured
           /\ st[Id[t]] # NoState
           /\ out[Id[t]] = Clean(t))
<1> SUFFICES ASSUME ended[Id[t]] = "succeeded", ask[t].executor \notin Structured,
                    st[Id[t]] # NoState, out[Id[t]] = Clean(t)
             PROVE  UpToDate(t)
  BY DEF Mismatch
<1> DEFINE r == st[Id[t]]
<1>1. Id[t] \in Ids
  BY StatecheckAssumption
<1>2. pc[t] = "looked" /\ rec[t] = r
  BY DEF Mismatch, IInv, TaskOK
<1>3. \A u \in Tasks : Id[u] = Id[t] => ~Working(u)
  BY <1>2 DEF DistinctIds, Working
<1>4. Whole(r) /\ (out[Id[t]] = r.out \/ out[Id[t]] \in {NoFile, Foreign})
  BY <1>1, <1>3 DEF IInv, Kept
<1>5. out[Id[t]] = r.out
  BY <1>4 DEF ValuesDistinct, Clean
<1>6. Decodable(r)
  BY <1>4 DEF Whole, ValuesDistinct, Decodable
<1>7. Truthful(r)
  BY <1>1, <1>6 DEF IInv
<1>8. Make(ask[t], Input(t)) = Make([executor |-> r.executor, args |-> r.args, input |-> r.input], r.in)
  BY <1>5, <1>7 DEF Truthful, Clean
<1>9. ask[t] = [executor |-> r.executor, args |-> r.args, input |-> r.input] /\ Input(t) = r.in
  <2>1. \A a, b, c, d : Make(a, c) = Make(b, d) => a = b /\ c = d
    <3> SUFFICES ASSUME NEW a, NEW b, NEW c, NEW d, Make(a, c) = Make(b, d)
                 PROVE  a = b /\ c = d
      OBVIOUS
    <3>1. Make(a, c).by = Make(b, d).by /\ Make(a, c).from = Make(b, d).from
      OBVIOUS
    <3> QED
      BY <3>1 DEF Make
  <2> QED
    BY <1>8, <2>1
<1>10. r.followups = r.result
  BY <1>4 DEF Whole
<1> HIDE DEF r
<1>11. Matches(t, r)
  BY <1>5, <1>9, <1>10 DEF Matches, Decoded
<1> QED
  BY <1>2, <1>6, <1>11 DEF UpToDate, Decodable

(* Nothing that is up to date is executed again, except for followups that *)
(* do not survive JSON.                                                    *)
THEOREM UpToDateIsSkipped ==
  ASSUME DistinctIds, InputsSettled, ValuesDistinct
  PROVE  Spec => NeverAgain
<1> DEFINE Fresh(t) == /\ ended[Id[t]] = "succeeded"
                       /\ ask[t].executor \notin Structured
                       /\ st[Id[t]] # NoState
                       /\ out[Id[t]] = Clean(t)
<1> DEFINE Step == \A t \in Tasks : Mismatch(t) => ~Fresh(t)
<1>1. IInv /\ [Next]_vars => [Step]_vars
  <2> SUFFICES ASSUME IInv, Next, NEW t \in Tasks, Mismatch(t), ~UNCHANGED vars
               PROVE  ~Fresh(t)
    OBVIOUS
  <2>1. building
    <3>1. pc[t] = "looked" /\ pc'[t] = "executing" /\ building' = building
      BY DEF Mismatch, IInv, Shape
    <3> QED
      BY <3>1 DEF Next, StartBuild, EndBuild, Die, User, EditSource, EditOutputs,
                  RemoveDirectory, UserChanges, locals
  <2> QED
    BY <2>1, MismatchHasCause
<1>2. Spec => [][Step]_vars
  BY <1>1, IInvCorrect, PTL DEF Spec
<1>3. [][Step]_vars <=> NeverAgain
  BY DEF NeverAgain
<1> QED
  BY <1>2, <1>3, PTL
=============================================================================
