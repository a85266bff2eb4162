-------------------------- MODULE ObservableProofs --------------------------
(***************************************************************************)
(* Proofs about Observable and TaskTree, for any tasks, sessions, IDs and    *)
(* number of listeners.                                                    *)
(***************************************************************************)
EXTENDS TaskTree, FiniteSetTheorems, SequenceTheorems, TLAPS

-----------------------------------------------------------------------------
(* Counting messages.                                                      *)

Count(seq, m) == Cardinality({i \in DOMAIN seq : seq[i] = m})

LEMMA CountAppend ==
  ASSUME NEW S, NEW seq \in Seq(S), NEW x \in S, NEW m
  PROVE  /\ Count(seq, m) \in Nat
         /\ Count(Append(seq, x), m) = Count(seq, m) + IF x = m THEN 1 ELSE 0
<1> DEFINE at == {i \in DOMAIN seq : seq[i] = m}
<1>1. /\ Append(seq, x) \in Seq(S) /\ Len(seq) \in Nat /\ Len(Append(seq, x)) = Len(seq) + 1
      /\ \A i \in 1..Len(seq) : Append(seq, x)[i] = seq[i]
      /\ Append(seq, x)[Len(seq) + 1] = x
  OBVIOUS
<1>2. DOMAIN seq = 1..Len(seq) /\ DOMAIN Append(seq, x) = 1..Len(seq) + 1
  BY <1>1
<1>3. 1..Len(seq) + 1 = (1..Len(seq)) \cup {Len(seq) + 1} /\ Len(seq) + 1 \notin 1..Len(seq)
  BY <1>1
<1>4. IsFiniteSet(at) /\ Cardinality(at) \in Nat /\ Len(seq) + 1 \notin at
  <2>1. IsFiniteSet(1..Len(seq))
    BY <1>1, FS_Interval
  <2>2. at \subseteq 1..Len(seq)
    BY <1>2
  <2> QED
    BY <1>3, <2>1, <2>2, FS_Subset, FS_CardinalityType
<1>5. {i \in DOMAIN Append(seq, x) : Append(seq, x)[i] = m} =
        IF x = m THEN at \cup {Len(seq) + 1} ELSE at
  <2>1. {i \in DOMAIN Append(seq, x) : Append(seq, x)[i] = m} =
          {i \in 1..Len(seq) : Append(seq, x)[i] = m} \cup
          {i \in {Len(seq) + 1} : Append(seq, x)[i] = m}
    BY <1>2, <1>3, Zenon
  <2>2. {i \in 1..Len(seq) : Append(seq, x)[i] = m} = at
    BY <1>1, <1>2
  <2>3. {i \in {Len(seq) + 1} : Append(seq, x)[i] = m} = IF x = m THEN {Len(seq) + 1} ELSE {}
    BY <1>1
  <2> HIDE DEF at
  <2>4. CASE x = m
    BY <2>1, <2>2, <2>3, <2>4, Zenon
  <2>5. CASE x # m
    <3>1. at \cup {} = at
      OBVIOUS
    <3> QED
      BY <2>1, <2>2, <2>3, <2>5, <3>1, Zenon
  <2> QED
    BY <2>4, <2>5
<1>6. Cardinality(at \cup {Len(seq) + 1}) = Cardinality(at) + 1
  BY <1>4, FS_AddElement
<1> HIDE DEF at
<1>7. Count(seq, m) = Cardinality(at)
  BY DEF Count, at
<1>8. Count(Append(seq, x), m) = Cardinality(IF x = m THEN at \cup {Len(seq) + 1} ELSE at)
  BY <1>5 DEF Count
<1>9. CASE x = m
  BY <1>4, <1>6, <1>7, <1>8, <1>9
<1>10. CASE x # m
  BY <1>4, <1>7, <1>8, <1>10
<1> QED
  BY <1>9, <1>10

LEMMA CountEmpty == ASSUME NEW m PROVE Count(<<>>, m) = 0
<1>1. {i \in DOMAIN <<>> : <<>>[i] = m} = {}
  OBVIOUS
<1> QED
  BY <1>1, FS_EmptySet DEF Count

-----------------------------------------------------------------------------
(* The inductive invariant.                                                *)

(* A task executes in an open session, or is late.                         *)
Placed(t) ==
  Executing(t) =>
    \/ session[Home[t]] = "open"
    \/ session[Home[t]] \in {"closing", "waiting", "woken", "forgotten", "closed"} /\ t \in late

(* Once CloseSession has seen the wait group empty, only late tasks add to *)
(* it.                                                                     *)
Awaited(n) ==
  \/ session[Home[n.msg.task]] \in {"open", "closing", "waiting"}
  \/ session[Home[n.msg.task]] \in {"woken", "forgotten", "closed"} /\ n.msg.task \in late

OthersAreLate ==
  /\ \A t \in Tasks : Placed(t)
  /\ \A n \in inflight : Awaited(n)
  /\ panicked => late # {}

Progress ==
  \A t \in Tasks :
    /\ pc[t] \notin {"starting", "finishing"} => next[t] = 1
    /\ outcome[t] # "none" <=> pc[t] \in {"finishing", "done"}

(* Has trigger started the goroutine that tells listener l of status st?   *)
Sent(t, l, st) ==
  IF st = "running"
  THEN pc[t] \in {"executing", "finishing", "done"} \/ (pc[t] = "starting" /\ l < next[t])
  ELSE st = outcome[t] /\ (pc[t] = "done" \/ (pc[t] = "finishing" /\ l < next[t]))

Notice(t, l, st) == [to |-> l, msg |-> Msg(t, st)]

(* What was sent is on its way, or has arrived; not both, and once.        *)
SentOnce ==
  \A t \in Tasks, l \in 1..Listeners, st \in Status :
    Count(received[l], Msg(t, st)) + (IF Notice(t, l, st) \in inflight THEN 1 ELSE 0)
      = IF Sent(t, l, st) THEN 1 ELSE 0

ObsInv == TypeOK /\ OthersAreLate /\ Progress /\ SentOnce

LEMMA InitObsInv == Init => ObsInv
<1> SUFFICES ASSUME Init PROVE ObsInv
  OBVIOUS
<1>1. received \in [1..Listeners -> Seq(Msgs)]
  BY DEF Init
<1>2. next \in [Tasks -> 1..Listeners + 1]
  BY ObservableAssumption DEF Init
<1>3. TypeOK
  BY <1>1, <1>2 DEF Init, TypeOK
<1>4. SentOnce
  <2> SUFFICES ASSUME NEW t \in Tasks, NEW l \in 1..Listeners, NEW st \in Status
               PROVE  Count(received[l], Msg(t, st)) + (IF Notice(t, l, st) \in inflight THEN 1 ELSE 0)
                        = IF Sent(t, l, st) THEN 1 ELSE 0
    BY DEF SentOnce
  <2>1. received[l] = <<>> /\ inflight = {} /\ ~Sent(t, l, st)
    BY DEF Init, Sent, Status
  <2> QED
    BY <2>1, CountEmpty
<1> QED
  BY <1>3, <1>4 DEF Init, ObsInv, OthersAreLate, Placed, Progress, Executing

(* Steps of sessions: one moves from a status to the next.                 *)
Statuses == {"none", "opening", "open", "broken", "closing", "waiting", "woken", "forgotten", "closed"}

Moves ==
  {<<"none", "opening">>, <<"opening", "open">>, <<"opening", "broken">>, <<"open", "closing">>,
   <<"closing", "waiting">>, <<"closing", "forgotten">>, <<"woken", "woken">>,
   <<"woken", "forgotten">>, <<"forgotten", "closed">>}

LEMMA SessionsStep ==
  ASSUME ObsInv, NEW s \in Sessions,
         OpenSession(s) \/ CloseSession(s) \/ SessionStep(s)
  PROVE  ObsInv'
<1>1. UNCHANGED <<pc, outcome, next, inflight, received>>
  BY DEF OpenSession, CloseSession, SessionStep, InnerOpened, Wait, Woken, InnerClosed
<1>2. TypeOK /\ session[s] \in Statuses /\ \A t \in Tasks : Home[t] \in Sessions
  BY ObservableAssumption DEF ObsInv, TypeOK, Statuses
<1>3. PICK x \in Statuses :
        /\ session' = [session EXCEPT ![s] = x]
        /\ <<session[s], x>> \in Moves
        /\ x = "forgotten" => Waiter(s) = {}
        /\ IF x = "closing" THEN late' = late \cup {t \in Tasks : Home[t] = s /\ Executing(t)}
                            ELSE late' = late
        /\ panicked' = panicked \/ (panicked' = TRUE /\ session[s] = "woken" /\ Waiter(s) # {})
  <2>1. CASE OpenSession(s)
    BY <1>2, <2>1 DEF OpenSession, Moves, Statuses
  <2>2. CASE CloseSession(s)
    BY <1>2, <2>2 DEF CloseSession, Moves, Statuses
  <2>3. CASE InnerOpened(s)
    BY <1>2, <2>3 DEF InnerOpened, Moves, Statuses
  <2>4. CASE Wait(s)
    BY <1>2, <2>4 DEF Wait, Moves, Statuses
  <2>5. CASE Woken(s)
    <3>1. CASE Waiter(s) = {}
      BY <1>2, <2>5, <3>1 DEF Woken, Moves, Statuses
    <3>2. CASE Waiter(s) # {}
      <4>1. session' = [session EXCEPT ![s] = "woken"]
        BY <1>2, <2>5, <3>2 DEF Woken, TypeOK
      <4> QED
        BY <1>2, <2>5, <3>2, <4>1 DEF Woken, Moves, Statuses
    <3> QED
      BY <3>1, <3>2
  <2>6. CASE InnerClosed(s)
    BY <1>2, <2>6 DEF InnerClosed, Moves, Statuses
  <2> QED
    BY <2>1, <2>2, <2>3, <2>4, <2>5, <2>6 DEF SessionStep
<1>4. late \subseteq late' /\ late' \subseteq Tasks /\ panicked' \in BOOLEAN
  BY <1>2, <1>3 DEF TypeOK
<1>5. TypeOK'
  BY <1>1, <1>2, <1>3, <1>4 DEF TypeOK, Statuses
<1>6. session'[s] = x /\ \A r \in Sessions \ {s} : session'[r] = session[r]
  BY <1>2, <1>3 DEF TypeOK
<1>7. ASSUME NEW n \in inflight PROVE n.msg.task \in Tasks
  BY <1>2 DEF TypeOK, Notification, Msgs
<1>8. OthersAreLate'
  <2>1. ASSUME NEW t \in Tasks PROVE Placed(t)'
    <3>1. Placed(t)
      BY DEF ObsInv, OthersAreLate
    <3>2. CASE Home[t] # s
      BY <1>1, <1>2, <1>4, <1>6, <3>1, <3>2 DEF Placed, Executing
    <3>3. CASE Home[t] = s /\ x = "closing"
      BY <1>1, <1>3, <1>6, <3>3 DEF Placed, Executing
    <3>4. CASE Home[t] = s /\ x # "closing"
      BY <1>1, <1>3, <1>6, <3>1, <3>4 DEF Placed, Executing, Moves
    <3> QED
      BY <3>2, <3>3, <3>4
  <2>2. ASSUME NEW n \in inflight PROVE Awaited(n)'
    <3>1. Awaited(n) /\ Home[n.msg.task] \in Sessions
      BY <1>2, <1>7 DEF ObsInv, OthersAreLate
    <3>2. CASE Home[n.msg.task] # s
      BY <1>4, <1>6, <3>1, <3>2 DEF Awaited
    <3>3. CASE Home[n.msg.task] = s
      <4>1. x # "forgotten"
        BY <1>3, <3>3 DEF Waiter
      <4> QED
        BY <1>3, <1>4, <1>6, <3>1, <3>3, <4>1 DEF Awaited, Moves
    <3> QED
      BY <3>2, <3>3
  <2>3. panicked' => late' # {}
    <3>1. CASE panicked' = panicked
      BY <1>4, <3>1 DEF ObsInv, OthersAreLate
    <3>2. CASE session[s] = "woken" /\ Waiter(s) # {}
      <4>1. PICK n \in inflight : Home[n.msg.task] = s
        BY <3>2 DEF Waiter
      <4>2. Awaited(n)
        BY DEF ObsInv, OthersAreLate
      <4> QED
        BY <1>4, <3>2, <4>1, <4>2 DEF Awaited
    <3> QED
      BY <1>3, <3>1, <3>2
  <2> QED
    BY <1>1, <2>1, <2>2, <2>3 DEF OthersAreLate
<1>9. Progress'
  BY <1>1 DEF ObsInv, Progress
<1>10. SentOnce'
  BY <1>1 DEF ObsInv, SentOnce, Sent
<1> QED
  BY <1>5, <1>8, <1>9, <1>10 DEF ObsInv

(* A step of one task that sends nothing keeps what was sent.              *)
LEMMA NothingSent ==
  ASSUME ObsInv, NEW t \in Tasks, UNCHANGED <<session, inflight, received, panicked>>,
         late \subseteq late', late' \subseteq Tasks,
         pc' \in [Tasks -> {"idle", "starting", "executing", "finishing", "done", "rejected"}],
         outcome' \in [Tasks -> {"none", "success", "error"}],
         next' \in [Tasks -> 1..Listeners + 1],
         \A u \in Tasks \ {t} : pc'[u] = pc[u] /\ outcome'[u] = outcome[u] /\ next'[u] = next[u],
         Placed(t)',
         pc'[t] \notin {"starting", "finishing"} => next'[t] = 1,
         outcome'[t] # "none" <=> pc'[t] \in {"finishing", "done"},
         \A l \in 1..Listeners, st \in Status : Sent(t, l, st)' <=> Sent(t, l, st)
  PROVE  ObsInv'
<1>1. TypeOK'
  BY DEF ObsInv, TypeOK
<1>2. OthersAreLate'
  <2>1. ASSUME NEW u \in Tasks PROVE Placed(u)'
    <3>1. Placed(u)
      BY DEF ObsInv, OthersAreLate
    <3> QED
      BY <3>1 DEF Placed, Executing
  <2>2. ASSUME NEW n \in inflight PROVE Awaited(n)'
    <3>1. Awaited(n)
      BY DEF ObsInv, OthersAreLate
    <3> QED
      BY <3>1 DEF Awaited
  <2> QED
    BY <2>1, <2>2 DEF ObsInv, OthersAreLate
<1>3. Progress'
  BY DEF ObsInv, Progress
<1>4. SentOnce'
  <2> SUFFICES ASSUME NEW u \in Tasks, NEW l \in 1..Listeners, NEW st \in Status
               PROVE  Sent(u, l, st)' <=> Sent(u, l, st)
    BY DEF ObsInv, SentOnce
  <2>1. CASE u = t
    BY <2>1
  <2>2. CASE u # t
    BY <2>2 DEF Sent
  <2> QED
    BY <2>1, <2>2
<1> QED
  BY <1>1, <1>2, <1>3, <1>4 DEF ObsInv

LEMMA ExecuteStep ==
  ASSUME ObsInv, NEW t \in Tasks, Execute(t)
  PROVE  ObsInv'
<1>1. TypeOK /\ pc[t] = "idle" /\ next[t] = 1 /\ outcome[t] = "none" /\ Home[t] \in Sessions
  BY ObservableAssumption DEF ObsInv, Execute, Progress
<1>2. PICK x \in {"starting", "rejected"} :
        pc' = [pc EXCEPT ![t] = x] /\ (x = "starting" => Registered(Home[t]))
  BY DEF Execute
<1>3. /\ late \subseteq late' /\ late' \subseteq Tasks
      /\ x = "starting" =>
           \/ session[Home[t]] = "open"
           \/ session[Home[t]] \in {"closing", "waiting", "woken"} /\ t \in late'
  BY <1>1, <1>2 DEF Execute, Registered, TypeOK
<1>4. pc' \in [Tasks -> {"idle", "starting", "executing", "finishing", "done", "rejected"}]
      /\ pc'[t] = x /\ \A u \in Tasks \ {t} : pc'[u] = pc[u]
  BY <1>1, <1>2 DEF TypeOK
<1>5. UNCHANGED <<session, outcome, next, inflight, received, panicked>>
  BY DEF Execute
<1>6. \A l \in 1..Listeners, st \in Status : ~Sent(t, l, st) /\ ~Sent(t, l, st)'
  BY <1>1, <1>4, <1>5 DEF Sent, Status
<1>7. Placed(t)'
  BY <1>3, <1>4, <1>5 DEF Placed, Executing
<1>8. outcome' \in [Tasks -> {"none", "success", "error"}] /\ next' \in [Tasks -> 1..Listeners + 1]
      /\ next'[t] = 1 /\ outcome'[t] = "none"
      /\ \A u \in Tasks \ {t} : outcome'[u] = outcome[u] /\ next'[u] = next[u]
  BY <1>1, <1>5 DEF TypeOK
<1> QED
  BY <1>3, <1>4, <1>5, <1>6, <1>7, <1>8, NothingSent

LEMMA TriggeredStep ==
  ASSUME ObsInv, NEW t \in Tasks, Triggered(t)
  PROVE  ObsInv'
<1>1. TypeOK /\ pc[t] \in {"starting", "finishing"} /\ next[t] > Listeners /\ next[t] \in Nat
      /\ (outcome[t] # "none" <=> pc[t] = "finishing")
  BY ObservableAssumption DEF ObsInv, Triggered, Progress, TypeOK
<1>2. /\ pc' = [pc EXCEPT ![t] = IF pc[t] = "starting" THEN "executing" ELSE "done"]
      /\ next' = [next EXCEPT ![t] = 1]
      /\ UNCHANGED <<session, outcome, inflight, received, panicked, late>>
  BY <1>1 DEF Triggered, TypeOK
<1>3. pc' \in [Tasks -> {"idle", "starting", "executing", "finishing", "done", "rejected"}]
      /\ pc'[t] = (IF pc[t] = "starting" THEN "executing" ELSE "done")
      /\ \A u \in Tasks \ {t} : pc'[u] = pc[u]
  BY <1>1, <1>2 DEF TypeOK
<1>4. next' \in [Tasks -> 1..Listeners + 1] /\ next'[t] = 1 /\ \A u \in Tasks \ {t} : next'[u] = next[u]
  BY <1>1, <1>2, ObservableAssumption DEF TypeOK
<1>5. outcome' \in [Tasks -> {"none", "success", "error"}] /\ outcome' = outcome
  BY <1>1, <1>2 DEF TypeOK
<1>6. ASSUME NEW l \in 1..Listeners, NEW st \in Status PROVE Sent(t, l, st)' <=> Sent(t, l, st)
  <2>1. l < next[t]
    BY <1>1, ObservableAssumption
  <2> QED
    BY <1>1, <1>3, <1>5, <2>1 DEF Sent, Status
<1>7. Placed(t)' /\ late \subseteq Tasks
  BY <1>1, <1>2 DEF Placed, Executing, ObsInv, OthersAreLate, TypeOK
<1> QED
  BY <1>1, <1>2, <1>3, <1>4, <1>5, <1>6, <1>7, NothingSent

LEMMA InnerStep ==
  ASSUME ObsInv, NEW t \in Tasks, InnerExecuted(t)
  PROVE  ObsInv'
<1>1. TypeOK /\ pc[t] = "executing" /\ next[t] = 1 /\ outcome[t] = "none"
  BY DEF ObsInv, InnerExecuted, Progress
<1>2. PICK o \in {"success", "error"} : outcome' = [outcome EXCEPT ![t] = o]
  BY DEF InnerExecuted
<1>3. /\ pc' = [pc EXCEPT ![t] = "finishing"] /\ UNCHANGED <<session, next, inflight, received, panicked, late>>
  BY DEF InnerExecuted
<1>4. pc' \in [Tasks -> {"idle", "starting", "executing", "finishing", "done", "rejected"}]
      /\ pc'[t] = "finishing" /\ \A u \in Tasks \ {t} : pc'[u] = pc[u]
  BY <1>1, <1>3 DEF TypeOK
<1>5. outcome' \in [Tasks -> {"none", "success", "error"}]
      /\ outcome'[t] = o /\ \A u \in Tasks \ {t} : outcome'[u] = outcome[u]
  BY <1>1, <1>2 DEF TypeOK
<1>6. next' \in [Tasks -> 1..Listeners + 1] /\ next' = next
  BY <1>1, <1>3 DEF TypeOK
<1>7. ASSUME NEW l \in 1..Listeners, NEW st \in Status PROVE Sent(t, l, st)' <=> Sent(t, l, st)
  <2>1. ~(l < next[t])
    BY <1>1
  <2> QED
    BY <1>1, <1>4, <1>5, <1>6, <2>1 DEF Sent, Status
<1>8. Placed(t)' /\ late \subseteq Tasks
  BY <1>1, <1>3 DEF Placed, Executing, ObsInv, OthersAreLate, TypeOK
<1> QED
  BY <1>3, <1>4, <1>5, <1>6, <1>7, <1>8, NothingSent

LEMMA NotifyStep ==
  ASSUME ObsInv, NEW t \in Tasks, Notify(t)
  PROVE  ObsInv'
<1> DEFINE st0 == NewStatus(t)
           l0 == next[t]
<1>1. TypeOK /\ pc[t] \in {"starting", "finishing"} /\ l0 <= Listeners /\ l0 \in 1..Listeners
      /\ (outcome[t] # "none" <=> pc[t] = "finishing")
  BY ObservableAssumption DEF ObsInv, Notify, Progress, TypeOK
<1>2. /\ inflight' = inflight \cup {Notice(t, l0, st0)} /\ next' = [next EXCEPT ![t] = l0 + 1]
      /\ UNCHANGED <<session, pc, outcome, received, panicked, late>>
  BY <1>1 DEF Notify, Notice
<1>3. st0 \in Status /\ (pc[t] = "starting" => st0 = "running")
      /\ (pc[t] = "finishing" => st0 = outcome[t] /\ st0 # "running")
  BY <1>1 DEF NewStatus, Status, TypeOK
<1> HIDE DEF st0, l0
<1>4. Notice(t, l0, st0) \in Notification
  BY <1>1, <1>3 DEF Notice, Notification, Msg, Msgs
<1>5. next' \in [Tasks -> 1..Listeners + 1] /\ next'[t] = l0 + 1
      /\ \A u \in Tasks \ {t} : next'[u] = next[u]
  BY <1>1, <1>2, ObservableAssumption DEF TypeOK
<1>6. TypeOK'
  BY <1>1, <1>2, <1>4, <1>5 DEF TypeOK
<1>7. OthersAreLate'
  <2>1. Placed(t) /\ Executing(t) /\ Notice(t, l0, st0).msg.task = t
    BY <1>1 DEF ObsInv, OthersAreLate, Executing, Notice, Msg
  <2>2. Awaited(Notice(t, l0, st0))
    BY <2>1 DEF Placed, Awaited
  <2>3. ASSUME NEW n \in inflight' PROVE Awaited(n)'
    BY <1>2, <2>2 DEF ObsInv, OthersAreLate, Awaited
  <2>4. ASSUME NEW u \in Tasks PROVE Placed(u)'
    BY <1>2 DEF ObsInv, OthersAreLate, Placed, Executing
  <2> QED
    BY <1>2, <2>3, <2>4 DEF ObsInv, OthersAreLate
<1>8. Progress'
  BY <1>1, <1>2, <1>5 DEF ObsInv, Progress
<1>9. SentOnce'
  <2> SUFFICES ASSUME NEW u \in Tasks, NEW l \in 1..Listeners, NEW st \in Status
               PROVE  Count(received[l], Msg(u, st)) + (IF Notice(u, l, st) \in inflight' THEN 1 ELSE 0)
                        = IF Sent(u, l, st)' THEN 1 ELSE 0
    BY <1>2 DEF SentOnce
  <2>1. Count(received[l], Msg(u, st)) + (IF Notice(u, l, st) \in inflight THEN 1 ELSE 0)
          = IF Sent(u, l, st) THEN 1 ELSE 0
    BY DEF ObsInv, SentOnce
  <2>2. Count(received[l], Msg(u, st)) \in Nat
    <3>1. Msg(u, st) \in Msgs /\ received[l] \in Seq(Msgs)
      BY <1>1 DEF TypeOK, Msgs, Msg
    <3> QED
      BY <3>1, CountAppend
  <2>3. CASE u = t /\ l = l0 /\ st = st0
    <3>1. ~Sent(u, l, st)
      BY <1>1, <1>3, <2>3 DEF Sent, l0
    <3>2. Sent(u, l, st)'
      BY <1>1, <1>2, <1>3, <1>5, <2>3 DEF Sent
    <3> QED
      BY <1>2, <2>1, <2>2, <2>3, <3>1, <3>2
  <2>4. CASE ~(u = t /\ l = l0 /\ st = st0)
    <3>1. Notice(u, l, st) # Notice(t, l0, st0)
      BY <2>4 DEF Notice, Msg
    <3>2. Sent(u, l, st)' <=> Sent(u, l, st)
      <4>1. CASE u # t
        BY <1>2, <1>5, <4>1 DEF Sent
      <4>2. CASE u = t /\ st # st0
        BY <1>1, <1>2, <1>3, <4>2 DEF Sent
      <4>3. CASE u = t /\ l # l0
        <5>1. l < next[t] <=> l < next'[t]
          BY <1>1, <1>5, <4>3 DEF l0
        <5> QED
          BY <1>2, <4>3, <5>1 DEF Sent
      <4> QED
        BY <2>4, <4>1, <4>2, <4>3
    <3> QED
      BY <1>2, <2>1, <3>1, <3>2
  <2> QED
    BY <2>3, <2>4
<1> QED
  BY <1>6, <1>7, <1>8, <1>9 DEF ObsInv

LEMMA DeliverStep ==
  ASSUME ObsInv, NEW n \in Notification, Deliver(n)
  PROVE  ObsInv'
<1>1. /\ n \in inflight /\ inflight' = inflight \ {n}
      /\ received' = [received EXCEPT ![n.to] = Append(received[n.to], n.msg)]
      /\ UNCHANGED <<pc, outcome, next, panicked, late>>
  BY DEF Deliver
<1>2. TypeOK /\ n.to \in 1..Listeners /\ n.msg \in Msgs /\ Home[n.msg.task] \in Sessions
  BY ObservableAssumption DEF ObsInv, Notification, Msgs
<1>3. received[n.to] \in Seq(Msgs) /\ Append(received[n.to], n.msg) \in Seq(Msgs)
  BY <1>2 DEF TypeOK
<1>4. received' \in [1..Listeners -> Seq(Msgs)]
      /\ received'[n.to] = Append(received[n.to], n.msg)
      /\ \A l \in 1..Listeners : l # n.to => received'[l] = received[l]
  BY <1>1, <1>2, <1>3 DEF TypeOK
<1>5. /\ session' \in [Sessions -> Statuses]
      /\ \A r \in Sessions :
           \/ session'[r] = session[r]
           \/ session[r] = "waiting" /\ session'[r] = "woken" /\ Waiter(r) = {n}
  <2>1. session \in [Sessions -> Statuses]
    BY <1>2 DEF TypeOK, Statuses
  <2>2. CASE session[Home[n.msg.task]] = "waiting" /\ Waiter(Home[n.msg.task]) = {n}
    <3>1. session' = [session EXCEPT ![Home[n.msg.task]] = "woken"]
      BY <1>2, <2>1, <2>2 DEF Deliver
    <3> QED
      BY <1>2, <2>1, <2>2, <3>1 DEF Statuses
  <2>3. CASE ~(session[Home[n.msg.task]] = "waiting" /\ Waiter(Home[n.msg.task]) = {n})
    <3>1. session' = session
      BY <1>2, <2>1, <2>3 DEF Deliver
    <3> QED
      BY <2>1, <3>1
  <2> QED
    BY <2>2, <2>3
<1>6. TypeOK' /\ Progress' /\ OthersAreLate'
  <2>1. TypeOK'
    BY <1>1, <1>2, <1>4, <1>5 DEF TypeOK, Statuses
  <2>2. Progress'
    BY <1>1 DEF ObsInv, Progress
  <2>3. ASSUME NEW t \in Tasks PROVE Placed(t)'
    <3>1. Placed(t) /\ Home[t] \in Sessions
      BY ObservableAssumption DEF ObsInv, OthersAreLate
    <3> QED
      BY <1>1, <1>5, <3>1 DEF Placed, Executing
  <2>4. ASSUME NEW k \in inflight' PROVE Awaited(k)'
    <3>1. k \in inflight /\ k # n /\ Awaited(k) /\ Home[k.msg.task] \in Sessions
      BY <1>1, <1>2, ObservableAssumption DEF ObsInv, OthersAreLate, TypeOK, Notification, Msgs
    <3>2. Waiter(Home[k.msg.task]) # {n}
      BY <3>1 DEF Waiter
    <3>3. session'[Home[k.msg.task]] = session[Home[k.msg.task]]
      BY <1>5, <3>1, <3>2
    <3> QED
      BY <1>1, <3>1, <3>3 DEF Awaited
  <2> QED
    BY <1>1, <2>1, <2>2, <2>3, <2>4 DEF ObsInv, OthersAreLate
<1>7. SentOnce'
  <2> SUFFICES ASSUME NEW u \in Tasks, NEW l \in 1..Listeners, NEW st \in Status
               PROVE  Count(received'[l], Msg(u, st)) + (IF Notice(u, l, st) \in inflight' THEN 1 ELSE 0)
                        = IF Sent(u, l, st) THEN 1 ELSE 0
    BY <1>1 DEF SentOnce, Sent
  <2>1. Count(received[l], Msg(u, st)) + (IF Notice(u, l, st) \in inflight THEN 1 ELSE 0)
          = IF Sent(u, l, st) THEN 1 ELSE 0
    BY DEF ObsInv, SentOnce
  <2>2. n = Notice(u, l, st) <=> n.to = l /\ n.msg = Msg(u, st)
    BY DEF Notification, Notice
  <2>3. Count(received[l], Msg(u, st)) \in Nat
    BY <1>2, CountAppend DEF TypeOK
  <2>4. CASE n.to = l
    <3>1. Count(received'[l], Msg(u, st)) =
            Count(received[l], Msg(u, st)) + IF n.msg = Msg(u, st) THEN 1 ELSE 0
      <4>1. received[l] \in Seq(Msgs) /\ received'[l] = Append(received[l], n.msg)
        BY <1>3, <1>4, <2>4
      <4> QED
        BY <1>2, <4>1, CountAppend
    <3>2. CASE n.msg = Msg(u, st)
      <4>1. Notice(u, l, st) \in inflight /\ Notice(u, l, st) \notin inflight'
        BY <1>1, <2>2, <2>4, <3>2
      <4> QED
        BY <2>1, <2>3, <3>1, <3>2, <4>1
    <3>3. CASE n.msg # Msg(u, st)
      <4>1. Notice(u, l, st) \in inflight <=> Notice(u, l, st) \in inflight'
        BY <1>1, <2>2, <3>3
      <4> QED
        BY <2>1, <2>3, <3>1, <3>3, <4>1
    <3> QED
      BY <3>2, <3>3
  <2>5. CASE n.to # l
    <3>1. Notice(u, l, st) \in inflight <=> Notice(u, l, st) \in inflight'
      BY <1>1, <2>2, <2>5
    <3> QED
      BY <1>4, <2>1, <2>5, <3>1
  <2> QED
    BY <2>4, <2>5
<1> QED
  BY <1>6, <1>7 DEF ObsInv

LEMMA ObsInvStep == ObsInv /\ [Next]_vars => ObsInv'
<1> SUFFICES ASSUME ObsInv, [Next]_vars PROVE ObsInv'
  OBVIOUS
<1>1. CASE UNCHANGED vars
  BY <1>1 DEF vars, ObsInv, TypeOK, OthersAreLate, Placed, Awaited, Progress, SentOnce, Sent, Executing
<1> QED
  BY <1>1, SessionsStep, ExecuteStep, NotifyStep, TriggeredStep, InnerStep, DeliverStep
  DEF Next, Work, Call, TaskStep

LEMMA ObsInvCorrect == Spec => []ObsInv
BY InitObsInv, ObsInvStep, PTL DEF Spec

-----------------------------------------------------------------------------
(* The properties of Observable.                                           *)

(* Types; a trigger loop does not go past the last listener.               *)
THEOREM ObservableTyped == Spec => []TypeOK
<1>1. ObsInv => TypeOK
  BY DEF ObsInv
<1> QED
  BY <1>1, ObsInvCorrect, PTL

(* When CloseSession has let a session go, only tasks that were executing   *)
(* at its call, or accepted after it, still run or are still told of; and   *)
(* only then does the wait group panic.                                    *)
THEOREM ClosedQuiet == Spec => []ClosedIsQuiet
<1>1. ObsInv => ClosedIsQuiet
  BY DEF ObsInv, OthersAreLate, Placed, Awaited, ClosedIsQuiet, Gone, Waiter
<1> QED
  BY <1>1, ObsInvCorrect, PTL

(* A message is with a listener, or on its way to it, once if it was sent.  *)
LEMMA CountOfSent ==
  ASSUME ObsInv, NEW t \in Tasks, NEW l \in 1..Listeners, NEW st \in Status
  PROVE  /\ Received(l, Msg(t, st)) \in Nat
         /\ Received(l, Msg(t, st)) <= IF Sent(t, l, st) THEN 1 ELSE 0
         /\ Notice(t, l, st) \notin inflight =>
              Received(l, Msg(t, st)) = IF Sent(t, l, st) THEN 1 ELSE 0
<1>1. Msg(t, st) \in Msgs /\ received[l] \in Seq(Msgs)
  BY DEF ObsInv, TypeOK, Msgs, Msg
<1>2. Count(received[l], Msg(t, st)) \in Nat
  BY <1>1, CountAppend
<1>3. Count(received[l], Msg(t, st)) + (IF Notice(t, l, st) \in inflight THEN 1 ELSE 0)
        = IF Sent(t, l, st) THEN 1 ELSE 0
  BY DEF ObsInv, SentOnce
<1> QED
  BY <1>2, <1>3 DEF Received, Count

(* Each listener of a closed session was told just once that a task runs    *)
(* and just once how it ended, if the caller waited for the task, and no    *)
(* more than that of any other.                                            *)
THEOREM ToldOnce == Spec => []ToldExactly
<1>1. ObsInv => ToldExactly
  <2> SUFFICES ASSUME ObsInv, NEW s \in Sessions, Gone(s),
                      NEW t \in Tasks, NEW l \in 1..Listeners, Home[t] = s, NEW st \in Status
               PROVE  LET due == IF pc[t] \notin {"idle", "rejected"} /\ st \in {"running", outcome[t]} THEN 1 ELSE 0
                      IN IF t \in late THEN Received(l, Msg(t, st)) <= due
                                       ELSE Received(l, Msg(t, st)) = due
    BY DEF ToldExactly
  <2>1. Sent(t, l, st) => pc[t] \notin {"idle", "rejected"} /\ st \in {"running", outcome[t]}
    BY DEF Sent
  <2>2. CASE t \in late
    BY <2>1, <2>2, CountOfSent
  <2>3. CASE t \notin late
    <3>1. ~Executing(t)
      BY <2>3 DEF ObsInv, OthersAreLate, Placed, Gone
    <3>2. Notice(t, l, st) \notin inflight
      <4>1. ~Awaited(Notice(t, l, st))
        BY <2>3 DEF Awaited, Notice, Msg, Gone
      <4> QED
        BY <4>1 DEF ObsInv, OthersAreLate
    <3>3. pc[t] \in {"idle", "done", "rejected"}
      BY <3>1 DEF Executing, ObsInv, TypeOK
    <3>4. Sent(t, l, st) <=> pc[t] \notin {"idle", "rejected"} /\ st \in {"running", outcome[t]}
      BY <3>3 DEF Sent, Status
    <3> QED
      BY <2>3, <3>2, <3>4, CountOfSent
  <2> QED
    BY <2>2, <2>3
<1> QED
  BY <1>1, ObsInvCorrect, PTL

-----------------------------------------------------------------------------
(* The display.                                                            *)

(* What the tree of a listener that was given these messages is.           *)
Told(seq) == UNION {NodesTo(Path[seq[i].task]) : i \in DOMAIN seq}

Naming(seq, n) == {i \in DOMAIN seq : Path[seq[i].task] = n}

Says(seq, n, st) ==
  \/ Naming(seq, n) = {} /\ st = "none"
  \/ \E i \in Naming(seq, n) :
       (\A j \in Naming(seq, n) : j <= i) /\ st = seq[i].status

TreeOf(seq, nodes) ==
  /\ nodes = [n \in Told(seq) |-> nodes[n]]
  /\ \A n \in Told(seq) : Says(seq, n, nodes[n])

(* The messages that a listener's event loop has applied.                   *)
Applied(l) == SubSeq(received[l], 1, applied[l])

TreeInv ==
  /\ tree = [l \in 1..Listeners |-> tree[l]]
  /\ applied \in [1..Listeners -> Nat]
  /\ \A l \in 1..Listeners : applied[l] <= Len(received[l]) /\ TreeOf(Applied(l), tree[l])

LEMMA TreeStart == TreeInit => TreeInv
<1> SUFFICES ASSUME TreeInit PROVE TreeInv
  OBVIOUS
<1>1. /\ tree = [l \in 1..Listeners |-> NoTree] /\ received = [l \in 1..Listeners |-> <<>>]
      /\ applied = [l \in 1..Listeners |-> 0]
  BY DEF TreeInit, Init
<1>2. Told(<<>>) = {}
  BY DEF Told
<1>3. NoTree = [n \in Told(<<>>) |-> NoTree[n]]
  BY <1>2 DEF NoTree
<1>4. \A l \in 1..Listeners : Applied(l) = <<>>
  BY <1>1 DEF Applied
<1> QED
  BY <1>1, <1>2, <1>3, <1>4 DEF TreeInv, TreeOf

(* The first messages stay when another one comes.                         *)
LEMMA FirstOnesStay ==
  ASSUME NEW seq \in Seq(Msgs), NEW m \in Msgs, NEW k \in Nat, k <= Len(seq)
  PROVE  SubSeq(Append(seq, m), 1, k) = SubSeq(seq, 1, k) /\ k <= Len(Append(seq, m))
  OBVIOUS

LEMMA OneMoreApplied ==
  ASSUME NEW seq \in Seq(Msgs), NEW k \in Nat, k < Len(seq)
  PROVE  /\ SubSeq(seq, 1, k) \in Seq(Msgs) /\ seq[k + 1] \in Msgs
         /\ SubSeq(seq, 1, k + 1) = Append(SubSeq(seq, 1, k), seq[k + 1])
  OBVIOUS

(* One more message.                                                       *)
LEMMA OneMore ==
  ASSUME NEW seq \in Seq(Msgs), NEW m \in Msgs
  PROVE  /\ Told(Append(seq, m)) = Told(seq) \cup NodesTo(Path[m.task])
         /\ \A n : Naming(Append(seq, m), n) =
              Naming(seq, n) \cup IF Path[m.task] = n THEN {Len(seq) + 1} ELSE {}
         /\ \A i \in DOMAIN seq : Append(seq, m)[i] = seq[i] /\ i \in 1..Len(seq)
         /\ Append(seq, m)[Len(seq) + 1] = m
<1> DEFINE longer == Append(seq, m)
<1>1. /\ longer \in Seq(Msgs) /\ Len(seq) \in Nat /\ Len(longer) = Len(seq) + 1
      /\ \A i \in 1..Len(seq) : longer[i] = seq[i]
      /\ longer[Len(seq) + 1] = m
  BY AppendProperties
<1>2. DOMAIN seq = 1..Len(seq) /\ DOMAIN longer = 1..Len(seq) + 1
  BY <1>1
<1>3. DOMAIN longer = DOMAIN seq \cup {Len(seq) + 1}
  BY <1>1, <1>2
<1> HIDE DEF longer
<1>4. Told(longer) = Told(seq) \cup NodesTo(Path[m.task])
  <2>1. ASSUME NEW n PROVE n \in Told(longer) <=> \E i \in DOMAIN longer : n \in NodesTo(Path[longer[i].task])
    BY DEF Told
  <2>2. ASSUME NEW n PROVE n \in Told(seq) <=> \E i \in DOMAIN seq : n \in NodesTo(Path[seq[i].task])
    BY DEF Told
  <2>3. ASSUME NEW n PROVE n \in Told(longer) <=> n \in Told(seq) \cup NodesTo(Path[m.task])
    BY <1>1, <1>2, <1>3, <2>1, <2>2
  <2> QED
    BY <2>3
<1>5. ASSUME NEW n
      PROVE  Naming(longer, n) = Naming(seq, n) \cup IF Path[m.task] = n THEN {Len(seq) + 1} ELSE {}
  BY <1>1, <1>2, <1>3 DEF Naming
<1>6. \A i \in DOMAIN seq : longer[i] = seq[i] /\ i \in 1..Len(seq)
  BY <1>1, <1>2
<1> QED
  BY <1>1, <1>4, <1>5, <1>6 DEF longer

LEMMA OwnNode ==
  ASSUME NEW m \in Msgs
  PROVE  Path[m.task] \in NodesTo(Path[m.task]) /\ m.status \in Status
<1> DEFINE p == Path[m.task]
<1>1. p \in Seq(Parts) \ {<<>>} /\ m.status \in Status
  BY TaskTreeAssumption DEF Msgs
<1> HIDE DEF p
<1>2. Len(p) \in 1..Len(p)
  BY <1>1, EmptySeq
<1>3. SubSeq(p, 1, Len(p)) = p
  BY <1>1, SubSeqFull
<1> QED
  BY <1>1, <1>2, <1>3 DEF NodesTo, p

(* Update keeps the tree that of the messages.                             *)
LEMMA UpdateKeeps ==
  ASSUME NEW seq \in Seq(Msgs), NEW m \in Msgs, NEW nodes, TreeOf(seq, nodes)
  PROVE  TreeOf(Append(seq, m), Update(nodes, m))
<1> DEFINE longer == Append(seq, m)
           new == Update(nodes, m)
           p == Path[m.task]
<1>1. DOMAIN nodes = Told(seq)
  BY DEF TreeOf
<1>2. /\ Told(longer) = Told(seq) \cup NodesTo(p)
      /\ \A n : Naming(longer, n) = Naming(seq, n) \cup IF p = n THEN {Len(seq) + 1} ELSE {}
      /\ \A i \in DOMAIN seq : longer[i] = seq[i] /\ i \in 1..Len(seq)
      /\ longer[Len(seq) + 1] = m /\ Len(seq) \in Nat
  BY OneMore
<1>3. new = [n \in Told(longer) |-> IF n = p THEN m.status ELSE Node(nodes, n)]
  BY <1>1, <1>2 DEF Update
<1> HIDE DEF longer, new, p
<1>4. new = [n \in Told(longer) |-> new[n]]
  BY <1>3
<1>5. ASSUME NEW n \in Told(longer) PROVE Says(longer, n, new[n])
  <2>1. CASE n = p
    <3>1. new[n] = m.status /\ Len(seq) + 1 \in Naming(longer, n)
      BY <1>2, <1>3, <2>1
    <3>2. \A j \in Naming(longer, n) : j <= Len(seq) + 1
      <4>1. \A j \in Naming(seq, n) : j \in 1..Len(seq)
        BY <1>2 DEF Naming
      <4> QED
        BY <1>2, <4>1
    <3> QED
      BY <1>2, <3>1, <3>2 DEF Says
  <2>2. CASE n # p
    <3>1. new[n] = Node(nodes, n) /\ Naming(longer, n) = Naming(seq, n)
      BY <1>2, <1>3, <2>2
    <3>2. Says(seq, n, Node(nodes, n))
      <4>1. CASE n \in Told(seq)
        BY <1>1, <4>1 DEF TreeOf, Node
      <4>2. CASE n \notin Told(seq)
        <5>1. Naming(seq, n) = {}
          <6> SUFFICES ASSUME NEW i \in DOMAIN seq, Path[seq[i].task] = n PROVE FALSE
            BY DEF Naming
          <6>1. n \in NodesTo(Path[seq[i].task])
            <7>1. seq[i] \in Msgs
              OBVIOUS
            <7> QED
              BY <7>1, OwnNode
          <6> QED
            BY <4>2, <6>1 DEF Told
        <5> QED
          BY <1>1, <4>2, <5>1 DEF Says, Node
      <4> QED
        BY <4>1, <4>2
    <3>3. \A i \in Naming(seq, n) : longer[i] = seq[i]
      BY <1>2 DEF Naming
    <3> QED
      BY <3>1, <3>2, <3>3 DEF Says
  <2> QED
    BY <2>1, <2>2
<1> QED
  BY <1>4, <1>5 DEF TreeOf, longer, new

LEMMA WorkUnheard == Work => UNCHANGED received
BY DEF Work, Call, OpenSession, CloseSession, SessionStep, InnerOpened, Wait, Woken, InnerClosed,
       Execute, TaskStep, Notify, Triggered, InnerExecuted

LEMMA TreeStep == TypeOK /\ TreeInv /\ [TreeNext]_treeVars => TreeInv'
<1> SUFFICES ASSUME TypeOK, TreeInv, [TreeNext]_treeVars PROVE TreeInv'
  OBVIOUS
<1>1. received \in [1..Listeners -> Seq(Msgs)]
  BY DEF TypeOK
<1>2. CASE UNCHANGED <<received, tree, applied>>
  BY <1>2 DEF TreeInv, Applied
<1>3. ASSUME NEW n \in Notification, Deliver(n), UNCHANGED loopVars PROVE TreeInv'
  <2>1. /\ n.to \in 1..Listeners /\ n.msg \in Msgs /\ UNCHANGED <<tree, applied>>
        /\ received' = [received EXCEPT ![n.to] = Append(received[n.to], n.msg)]
    BY <1>3 DEF Notification, Deliver, loopVars
  <2>2. /\ received'[n.to] = Append(received[n.to], n.msg)
        /\ \A l \in 1..Listeners : l # n.to => received'[l] = received[l]
    BY <1>1, <2>1
  <2>3. ASSUME NEW l \in 1..Listeners
        PROVE  applied[l] <= Len(received'[l]) /\ SubSeq(received'[l], 1, applied[l]) = Applied(l)
    <3>1. received[l] \in Seq(Msgs) /\ applied[l] \in Nat /\ applied[l] <= Len(received[l])
      BY <1>1 DEF TreeInv
    <3>2. CASE l = n.to
      BY <2>1, <2>2, <3>1, <3>2, FirstOnesStay DEF Applied
    <3>3. CASE l # n.to
      BY <2>2, <3>1, <3>3 DEF Applied
    <3> QED
      BY <3>2, <3>3
  <2> QED
    BY <2>1, <2>3 DEF TreeInv, Applied
<1>4. ASSUME NEW l \in 1..Listeners, Apply(l) PROVE TreeInv'
  <2>1. /\ applied[l] < Len(received[l]) /\ UNCHANGED received
        /\ tree' = [tree EXCEPT ![l] = Update(tree[l], received[l][applied[l] + 1])]
        /\ applied' = [applied EXCEPT ![l] = applied[l] + 1]
    BY <1>4 DEF Apply, vars, TreeInv
  <2>2. applied[l] \in Nat /\ received[l] \in Seq(Msgs)
    BY <1>1 DEF TreeInv
  <2>3. /\ tree = [k \in 1..Listeners |-> tree[k]] /\ applied \in [1..Listeners -> Nat]
        /\ \A k \in 1..Listeners : applied[k] <= Len(received[k]) /\ TreeOf(Applied(k), tree[k])
    BY DEF TreeInv
  <2>4. DOMAIN tree = 1..Listeners
    BY <2>3
  <2>5. /\ tree' = [k \in 1..Listeners |-> tree'[k]] /\ applied' \in [1..Listeners -> Nat]
        /\ tree'[l] = Update(tree[l], received[l][applied[l] + 1]) /\ applied'[l] = applied[l] + 1
        /\ \A k \in 1..Listeners : k # l => tree'[k] = tree[k] /\ applied'[k] = applied[k]
    <3>1. /\ tree' = [k \in 1..Listeners |-> tree'[k]]
          /\ tree'[l] = Update(tree[l], received[l][applied[l] + 1])
          /\ \A k \in 1..Listeners : k # l => tree'[k] = tree[k]
      BY <2>1, <2>4
    <3>2. /\ applied' \in [1..Listeners -> Nat] /\ applied'[l] = applied[l] + 1
          /\ \A k \in 1..Listeners : k # l => applied'[k] = applied[k]
      BY <2>1, <2>2, <2>3
    <3> QED
      BY <3>1, <3>2
  <2>6. applied'[l] <= Len(received[l]) /\ TreeOf(SubSeq(received[l], 1, applied'[l]), tree'[l])
    <3>1. /\ Applied(l) \in Seq(Msgs) /\ received[l][applied[l] + 1] \in Msgs
          /\ SubSeq(received[l], 1, applied[l] + 1) = Append(Applied(l), received[l][applied[l] + 1])
      BY <2>1, <2>2, OneMoreApplied DEF Applied
    <3>2. TreeOf(Append(Applied(l), received[l][applied[l] + 1]), tree'[l])
      BY <2>3, <2>5, <3>1, UpdateKeeps
    <3>3. applied[l] + 1 <= Len(received[l])
      BY <2>1, <2>2
    <3> QED
      BY <2>5, <3>1, <3>2, <3>3
  <2>7. ASSUME NEW k \in 1..Listeners
        PROVE  applied'[k] <= Len(received[k]) /\ TreeOf(SubSeq(received[k], 1, applied'[k]), tree'[k])
    BY <2>3, <2>5, <2>6 DEF Applied
  <2> QED
    BY <2>1, <2>5, <2>7 DEF TreeInv, Applied
<1>5. ASSUME NEW l \in 1..Listeners, EndLoop(l) PROVE TreeInv'
  BY <1>2, <1>5 DEF EndLoop, vars
<1>6. CASE Work /\ UNCHANGED loopVars
  BY <1>2, <1>6, WorkUnheard DEF loopVars
<1>7. CASE UNCHANGED treeVars
  BY <1>2, <1>7 DEF treeVars, vars, loopVars
<1> QED
  BY <1>3, <1>4, <1>5, <1>6, <1>7 DEF TreeNext, Send, Take, Drop

(* The display adds nothing to the behaviours of Observable: what holds    *)
(* there holds of a build that is shown, whenever its event loop ends.     *)
THEOREM DisplayOnlyListens == TreeSpec => Spec
<1>1. TreeInit => Init
  BY DEF TreeInit
<1>2. [TreeNext]_treeVars => [Next]_vars
  <2>1. Work \/ (\E n \in Notification : Send(n)) => Next
    BY DEF Next, Send, Take, Drop
  <2>2. (\E l \in 1..Listeners : Apply(l) \/ EndLoop(l)) => UNCHANGED vars
    BY DEF Apply, EndLoop
  <2>3. UNCHANGED treeVars => UNCHANGED vars
    BY DEF treeVars
  <2> QED
    BY <2>1, <2>2, <2>3 DEF TreeNext
<1> QED
  BY <1>1, <1>2, PTL DEF TreeSpec, Spec

LEMMA TreeInvCorrect == TreeSpec => []TreeInv
<1>1. TreeSpec => []TypeOK
  BY DisplayOnlyListens, ObservableTyped, PTL
<1> QED
  BY <1>1, TreeStart, TreeStep, PTL DEF TreeSpec

(* The messages of a listener when nothing is under way.                   *)
LEMMA ToldOfExecuted ==
  ASSUME ObsInv, inflight = {}, NEW l \in 1..Listeners, NEW t \in Tasks, ~Executing(t)
  PROVE  pc[t] = "done" <=> \E i \in DOMAIN received[l] : received[l][i].task = t
<1>1. received[l] \in Seq(Msgs) /\ pc[t] \in {"idle", "done", "rejected"}
  BY DEF ObsInv, TypeOK, Executing
<1>2. \A st \in Status :
        Received(l, Msg(t, st)) = IF pc[t] = "done" /\ st \in {"running", outcome[t]} THEN 1 ELSE 0
  <2> TAKE st \in Status
  <2>1. Sent(t, l, st) <=> pc[t] = "done" /\ st \in {"running", outcome[t]}
    BY <1>1 DEF Sent, Status
  <2> QED
    BY <2>1, CountOfSent
<1>3. ASSUME pc[t] = "done" PROVE \E i \in DOMAIN received[l] : received[l][i].task = t
  <2> DEFINE at == {i \in DOMAIN received[l] : received[l][i] = Msg(t, "running")}
  <2>1. Cardinality(at) = 1
    BY <1>2, <1>3 DEF Received, Status
  <2>2. at # {}
    BY <2>1, FS_EmptySet
  <2> QED
    BY <2>2 DEF Msg
<1>4. ASSUME NEW i \in DOMAIN received[l], received[l][i].task = t PROVE pc[t] = "done"
  <2> DEFINE st == received[l][i].status
             at == {j \in DOMAIN received[l] : received[l][j] = Msg(t, st)}
  <2>1. received[l][i] \in Msgs
    BY <1>1
  <2>2. received[l][i] = Msg(t, st) /\ st \in Status
    BY <1>4, <2>1 DEF Msgs, Msg
  <2>3. i \in at
    BY <2>2
  <2>4. IsFiniteSet(at)
    <3>1. IsFiniteSet(1..Len(received[l])) /\ DOMAIN received[l] = 1..Len(received[l])
      BY <1>1, FS_Interval
    <3> QED
      BY <3>1, FS_Subset
  <2>5. Cardinality(at) # 0
    BY <2>3, <2>4, FS_EmptySet
  <2>6. Received(l, Msg(t, st)) # 0
    BY <2>5 DEF Received
  <2> QED
    BY <1>2, <2>2, <2>6
<1> QED
  BY <1>3, <1>4

LEMMA TreeInvRight == ObsInv /\ TreeInv => TreeIsRight
<1> SUFFICES ASSUME ObsInv, TreeInv PROVE TreeIsRight
  OBVIOUS
<1>1. ASSUME NEW l \in 1..Listeners
      PROVE  /\ received[l] \in Seq(Msgs) /\ applied[l] \in Nat /\ applied[l] <= Len(received[l])
             /\ DOMAIN tree[l] = Told(Applied(l))
             /\ \A n \in Told(Applied(l)) : Says(Applied(l), n, tree[l][n])
             /\ DOMAIN Applied(l) = 1..applied[l]
             /\ \A i \in 1..applied[l] : Applied(l)[i] = received[l][i]
             /\ \A n : About(l, n) = Naming(Applied(l), n)
  <2>1. /\ TreeOf(Applied(l), tree[l]) /\ received[l] \in Seq(Msgs)
        /\ applied[l] \in Nat /\ applied[l] <= Len(received[l])
    BY DEF TreeInv, ObsInv, TypeOK
  <2>2. DOMAIN tree[l] = Told(Applied(l)) /\ \A n \in Told(Applied(l)) : Says(Applied(l), n, tree[l][n])
    BY <2>1 DEF TreeOf
  <2>3. DOMAIN Applied(l) = 1..applied[l] /\ \A i \in 1..applied[l] : Applied(l)[i] = received[l][i]
    BY <2>1 DEF Applied
  <2> QED
    BY <2>1, <2>2, <2>3 DEF About, Naming
<1>2. NodesAreThose
  <2> SUFFICES ASSUME NEW l \in 1..Listeners
               PROVE  Told(Applied(l)) = UNION {NodesTo(Path[received[l][i].task]) : i \in 1..applied[l]}
    BY <1>1 DEF NodesAreThose
  <2>1. ASSUME NEW n
        PROVE  n \in Told(Applied(l)) <=> \E i \in 1..applied[l] : n \in NodesTo(Path[received[l][i].task])
    BY <1>1 DEF Told
  <2> QED
    BY <2>1
<1>3. NodesShowLatest
  <2> SUFFICES ASSUME NEW l \in 1..Listeners, NEW n \in DOMAIN tree[l]
               PROVE  tree[l][n] = LatestStatus(l, n)
    BY DEF NodesShowLatest
  <2> DEFINE at == About(l, n)
             last == CHOOSE i \in at : \A j \in at : j <= i
  <2>1. Says(Applied(l), n, tree[l][n]) /\ at = Naming(Applied(l), n)
    BY <1>1
  <2>2. at \subseteq Nat /\ \A i \in at : Applied(l)[i] = received[l][i]
    BY <1>1 DEF About
  <2>3. CASE at = {}
    BY <2>1, <2>3 DEF LatestStatus, Says
  <2>4. CASE at # {}
    <3>1. PICK i \in at : (\A j \in at : j <= i) /\ tree[l][n] = received[l][i].status
      BY <2>1, <2>2, <2>4 DEF Says
    <3>2. last \in at /\ \A j \in at : j <= last
      BY <3>1
    <3>3. i = last
      <4>1. i <= last /\ last <= i
        BY <3>1, <3>2
      <4>2. i \in Nat /\ last \in Nat
        BY <2>2, <3>1, <3>2
      <4> HIDE DEF last
      <4> QED
        BY <4>1, <4>2
    <3> QED
      BY <2>4, <3>1, <3>3 DEF LatestStatus
  <2> QED
    BY <2>3, <2>4
<1>4. EndShowsExecuted
  <2> SUFFICES ASSUME inflight = {}, \A t \in Tasks : ~Executing(t), NEW l \in 1..Listeners, Idle(l)
               PROVE  {n \in DOMAIN tree[l] : tree[l][n] # "none"}
                        = {Path[t] : t \in {u \in Tasks : pc[u] = "done"}}
    BY DEF EndShowsExecuted
  <2>1. Applied(l) = received[l] /\ \A i \in DOMAIN received[l] : received[l][i] \in Msgs
    BY <1>1 DEF Idle, Applied
  <2>2. ASSUME NEW n \in DOMAIN tree[l], tree[l][n] # "none"
        PROVE  \E t \in Tasks : pc[t] = "done" /\ n = Path[t]
    <3>1. PICK i \in Naming(received[l], n) : TRUE
      BY <1>1, <2>1, <2>2 DEF Says
    <3>2. i \in DOMAIN received[l] /\ Path[received[l][i].task] = n /\ received[l][i].task \in Tasks
      BY <2>1, <3>1 DEF Naming, Msgs
    <3> QED
      BY <3>2, ToldOfExecuted
  <2>3. ASSUME NEW t \in Tasks, pc[t] = "done"
        PROVE  Path[t] \in DOMAIN tree[l] /\ tree[l][Path[t]] # "none"
    <3>1. PICK i \in DOMAIN received[l] : received[l][i].task = t
      BY <2>3, ToldOfExecuted
    <3>2. Path[t] \in Told(received[l])
      BY <2>1, <3>1, OwnNode DEF Told
    <3>3. Naming(received[l], Path[t]) # {} /\ Says(received[l], Path[t], tree[l][Path[t]])
      BY <1>1, <2>1, <3>1, <3>2 DEF Naming
    <3>4. PICK j \in Naming(received[l], Path[t]) : tree[l][Path[t]] = received[l][j].status
      BY <3>3 DEF Says
    <3>5. received[l][j].status \in Status
      BY <2>1, <3>4, OwnNode DEF Naming
    <3> QED
      BY <1>1, <2>1, <3>2, <3>4, <3>5 DEF Status
  <2> QED
    BY <2>2, <2>3
<1> QED
  BY <1>2, <1>3, <1>4 DEF TreeIsRight

(* However messages are delivered and whenever event loops end, a tree has *)
(* a node for each task that an applied message told of and for its        *)
(* ancestors, a node shows the latest of them about exactly its task, and  *)
(* in the end a tree whose loop still runs shows the tasks executed.       *)
THEOREM TreeRight == TreeSpec => []TreeIsRight
<1>1. TreeSpec => []ObsInv
  BY DisplayOnlyListens, ObsInvCorrect, PTL
<1> QED
  BY <1>1, TreeInvCorrect, TreeInvRight, PTL
=============================================================================
