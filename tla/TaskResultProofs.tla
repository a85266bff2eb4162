-------------------------- MODULE TaskResultProofs --------------------------
(***************************************************************************)
(* Proofs about TaskResult, for any callers and results: the locks exclude *)
(* what they should, so that every call is atomic list by list, what was   *)
(* added stays, and followups are seen with the outputs after them.        *)
(***************************************************************************)
EXTENDS TaskResult, SequenceTheorems, FiniteSetTheorems, TLAPS

-----------------------------------------------------------------------------
(* The inductive invariant.                                                *)

(* Who waits inside of Lock, or is past it, has announced it.              *)
LockOwned ==
  \A c \in Callers : at[c] \in {"drain", "rlock", "copy", "store"} =>
    Adds(c) /\ writer[On(c)] = c

(* Past Lock there is no reader.                                           *)
WriterAlone ==
  \A c \in Callers : at[c] \in {"rlock", "copy", "store"} => readers[On(c)] = {}

(* Append keeps writers out of its source.                                 *)
SourceRead ==
  \A c \in Callers :
    /\ at[c] = "rlock" => Appending(c)
    /\ at[c] \in {"copy", "store"} /\ Appending(c) => c \in readers[From(c)]

ReaderIn == \A c \in Callers : at[c] = "read" => ~Adds(c) /\ c \in readers[On(c)]

(* What is about to be stored is what was there, and what is to be added.  *)
CopyIsFresh ==
  \A c \in Callers : at[c] = "store" =>
    \A l \in Lists : local[c][l] = lists[On(c)][l] \o More(c, l)

LockInv == TypeOK /\ LockOwned /\ WriterAlone /\ SourceRead /\ ReaderIn /\ CopyIsFresh

-----------------------------------------------------------------------------
(* Types.                                                                  *)

LEMMA ShortLists ==
  ASSUME NEW S, NEW a \in S, NEW b \in S
  PROVE  /\ <<a>> # <<>> /\ Head(<<a>>) = a /\ Tail(<<a>>) = <<>>
         /\ <<a, b>> # <<>> /\ Head(<<a, b>>) = a /\ Tail(<<a, b>>) = <<b>>
<1>1. <<a>> \in Seq(S) /\ Len(<<a>>) = 1 /\ <<a>>[1] = a
  OBVIOUS
<1>2. <<a, b>> \in Seq(S) /\ Len(<<a, b>>) = 2 /\ <<a, b>>[1] = a /\ <<a, b>>[2] = b
  OBVIOUS
<1>3. <<b>> \in Seq(S) /\ Len(<<b>>) = 1 /\ <<b>>[1] = b
  OBVIOUS
<1>4. <<a>> # <<>> /\ <<a, b>> # <<>>
  BY <1>1, <1>2
<1>5. Head(<<a>>) = a /\ Head(<<a, b>>) = a
  OBVIOUS
<1>6. Tail(<<a>>) = <<>>
  <2>1. Tail(<<a>>) \in Seq(S) /\ Len(Tail(<<a>>)) = 0
    BY <1>1, <1>4
  <2>2. \A seq \in Seq(S) : seq # <<>> => Len(seq) \in Nat \ {0}
    BY EmptySeq
  <2> QED
    BY <2>1, <2>2
<1>7. Tail(<<a, b>>) = <<b>>
  <2>1. /\ Tail(<<a, b>>) \in Seq(S) /\ Len(Tail(<<a, b>>)) = 1
        /\ Tail(<<a, b>>)[1] = b
    BY <1>2, <1>4
  <2>2. \A i \in 1..1 : Tail(<<a, b>>)[i] = <<b>>[i]
    BY <1>3, <2>1
  <2>3. \A s, t \in Seq(S) : Len(s) = 1 /\ Len(t) = 1 /\ (\A i \in 1..1 : s[i] = t[i]) => s = t
    BY SeqEqual
  <2> QED
    BY <1>3, <2>1, <2>2, <2>3
<1> QED
  BY <1>4, <1>5, <1>6, <1>7

(* What is next, and what is left after it.                                *)
LEMMA SectionsTyped ==
  ASSUME NEW w \in Sections
  PROVE  /\ w # <<>> /\ Head(w) \in Lists
         /\ Tail(w) \in Sections \cup {<<>>}
<1>1. "outputs" \in Lists /\ "followups" \in Lists
  BY DEF Lists
<1>2. CASE w = <<"outputs">>
  BY <1>1, <1>2, ShortLists, Zenon
<1>3. CASE w = <<"followups">>
  BY <1>1, <1>3, ShortLists, Zenon
<1>4. CASE w = <<"outputs", "followups">>
  <2>1. <<"followups">> \in Sections
    BY DEF Sections
  <2> QED
    BY <1>1, <1>4, <2>1, ShortLists, Zenon
<1> QED
  BY <1>2, <1>3, <1>4 DEF Sections

LEMMA TagTyped ==
  ASSUME TypeOK, NEW c \in Callers
  PROVE  Tag(c) \in [by : Callers, number : Nat, on : {On(c)}] /\ Tag(c) \in Tags
BY DEF TypeOK, Calls, Tag, Tags, On

LEMMA MoreTyped ==
  ASSUME TypeOK, NEW c \in Callers, NEW l \in Lists
  PROVE  More(c, l) \in Seq(Tags)
<1>1. CASE Appending(c)
  <2>1. From(c) \in Results
    BY <1>1 DEF TypeOK
  <2> QED
    BY <1>1, <2>1 DEF TypeOK, More
<1>2. CASE ~Appending(c)
  BY <1>2, TagTyped DEF More
<1> QED
  BY <1>1, <1>2

-----------------------------------------------------------------------------
(* The steps.                                                              *)

LEMMA InitLockInv == Init => LockInv
<1> SUFFICES ASSUME Init PROVE LockInv
  OBVIOUS
<1>1. PICK r \in Results : call = [c \in Callers |-> NoCall(r)]
  BY DEF Init
<1>2. NoCall(r) \in Calls /\ NoCall(r).todo = <<>> /\ NoCall(r).op = "Read"
  BY DEF NoCall, Calls, Kinds, Sections
<1>3. Empty \in [Lists -> Seq(Tags)]
  BY DEF Empty
<1>4. call \in [Callers -> Calls]
  BY <1>1, <1>2
<1>5. \A c \in Callers : at[c] = "idle" /\ call[c].todo = <<>> /\ ~Appending(c)
  BY <1>1, <1>2 DEF Init, Appending
<1>6. /\ lists \in [Results -> [Lists -> Seq(Tags)]]
      /\ local \in [Callers -> [Lists -> Seq(Tags)]]
  BY <1>3 DEF Init
<1>7. /\ writer \in [Results -> Callers \cup {Nobody}]
      /\ readers \in [Results -> SUBSET Callers]
      /\ at \in [Callers -> Stages] /\ calls \in Nat
  BY DEF Init, Stages
<1>8. TypeOK
  BY <1>4, <1>5, <1>6, <1>7 DEF TypeOK
<1> QED
  BY <1>5, <1>8 DEF LockInv, LockOwned, WriterAlone, SourceRead, ReaderIn, CopyIsFresh

LEMMA FreshKept ==
  ASSUME CopyIsFresh, UNCHANGED lists,
         \A d \in Callers : at'[d] = "store" =>
           at[d] = "store" /\ call'[d] = call[d] /\ local'[d] = local[d]
  PROVE  CopyIsFresh'
<1> SUFFICES ASSUME NEW d \in Callers, at'[d] = "store", NEW l \in Lists
             PROVE  local'[d][l] =
                      lists'[call'[d].on][l] \o
                        IF call'[d].op = "Append" THEN lists'[call'[d].from][l]
                        ELSE <<[by |-> d, number |-> call'[d].number, on |-> call'[d].on]>>
  BY DEF CopyIsFresh, On, From, Appending, More, Tag
<1>1. at[d] = "store" /\ call'[d] = call[d] /\ local'[d] = local[d] /\ lists' = lists
  OBVIOUS
<1>2. local[d][l] = lists[call[d].on][l] \o
                      IF call[d].op = "Append" THEN lists[call[d].from][l]
                      ELSE <<[by |-> d, number |-> call[d].number, on |-> call[d].on]>>
  BY <1>1 DEF CopyIsFresh, On, From, Appending, More, Tag
<1> QED
  BY <1>1, <1>2

(* A call begins where no other call is touched.                           *)
LEMMA BegunStep ==
  ASSUME LockInv, NEW c \in Callers, NEW op \in Kinds, NEW r \in Results,
         NEW other \in Results \cup {Nobody}, NEW whole \in Sections,
         op = "Append" => other \in Results \ {r},
         calls' = calls + 1, UNCHANGED <<lists, writer, readers>>,
         call' = [call EXCEPT ![c] = [op |-> op, on |-> r, from |-> other, whole |-> whole,
                                      todo |-> whole, number |-> calls]],
         at' = [at EXCEPT ![c] = "lock"],
         local' = [local EXCEPT ![c] = Empty]
  PROVE  LockInv'
<1> DEFINE new == [op |-> op, on |-> r, from |-> other, whole |-> whole,
                   todo |-> whole, number |-> calls]
<1>1. TypeOK /\ calls \in Nat
  BY DEF LockInv, TypeOK
<1>2. new \in Calls
  BY <1>1 DEF Calls
<1>3. new.todo # <<>> /\ new.op = op /\ new.on = r /\ new.from = other
  BY SectionsTyped
<1> HIDE DEF new
<1>4. call' = [call EXCEPT ![c] = new]
  BY DEF new
<1>5. call' \in [Callers -> Calls] /\ call'[c] = new
  BY <1>1, <1>2, <1>4 DEF TypeOK
<1>6. Empty \in [Lists -> Seq(Tags)]
  BY DEF Empty
<1>7. local' \in [Callers -> [Lists -> Seq(Tags)]]
  BY <1>1, <1>6 DEF TypeOK
<1>8. at' \in [Callers -> Stages] /\ at'[c] = "lock"
  BY <1>1 DEF TypeOK, Stages
<1>9. \A d \in Callers \ {c} : call'[d] = call[d] /\ at'[d] = at[d] /\ local'[d] = local[d]
  BY <1>1, <1>4 DEF TypeOK
<1>10. \A d \in Callers :
         /\ (at'[d] = "idle") <=> (call'[d].todo = <<>>)
         /\ call'[d].op = "Append" => call'[d].from \in Results \ {call'[d].on}
  BY <1>1, <1>3, <1>5, <1>8, <1>9 DEF TypeOK, Appending, From, On
<1>11. TypeOK'
  BY <1>1, <1>5, <1>7, <1>8, <1>10 DEF TypeOK, Appending, From, On
<1>12. LockOwned' /\ WriterAlone' /\ SourceRead' /\ ReaderIn'
  BY <1>8, <1>9 DEF LockInv, LockOwned, WriterAlone, SourceRead, ReaderIn, On, From, Appending, Adds
<1>13. CopyIsFresh'
  BY <1>8, <1>9, FreshKept DEF LockInv
<1> QED
  BY <1>11, <1>12, <1>13 DEF LockInv

LEMMA BeginStep ==
  ASSUME LockInv, NEW c \in Callers, Begin(c)
  PROVE  LockInv'
<1>1. calls' = calls + 1 /\ UNCHANGED <<lists, writer, readers>>
  BY DEF Begin
<1>2. CASE UNCHANGED <<at, call, local>>
  <2>1. calls' \in Nat
    BY <1>1 DEF LockInv, TypeOK
  <2>2. TypeOK'
    BY <1>1, <1>2, <2>1 DEF LockInv, TypeOK, Appending, From, On
  <2>3. CopyIsFresh'
    BY <1>1, <1>2, FreshKept DEF LockInv
  <2> QED
    BY <1>1, <1>2, <2>2, <2>3 DEF LockInv, LockOwned, WriterAlone, SourceRead, ReaderIn,
       On, From, Appending, Adds
<1>3. ASSUME NEW op \in Kinds, NEW r \in Results \cup {Nobody}, NEW other \in Results \cup {Nobody},
             op # "Append" => other = Nobody,
             Locks(op, r, other),
             \E whole \in IF op = "Append" THEN {<<"outputs", "followups">>} ELSE Sections :
               call' = [call EXCEPT ![c] = [op |-> op, on |-> r, from |-> other, whole |-> whole,
                                            todo |-> whole, number |-> calls]],
             at' = [at EXCEPT ![c] = "lock"],
             local' = [local EXCEPT ![c] = Empty]
      PROVE  LockInv'
  <2>1. PICK whole \in Sections :
               call' = [call EXCEPT ![c] = [op |-> op, on |-> r, from |-> other, whole |-> whole,
                                            todo |-> whole, number |-> calls]]
    BY <1>3 DEF Sections
  <2>2. r \in Results /\ (op = "Append" => other \in Results \ {r})
    BY <1>3 DEF Locks
  <2> QED
    BY <1>1, <1>3, <2>1, <2>2, BegunStep
<1> QED
  BY <1>2, <1>3 DEF Begin

LEMMA AnnounceStep ==
  ASSUME LockInv, NEW c \in Callers, Announce(c)
  PROVE  LockInv'
<1>1. /\ at[c] = "lock" /\ Adds(c) /\ writer[On(c)] = Nobody
      /\ writer' = [writer EXCEPT ![On(c)] = c] /\ at' = [at EXCEPT ![c] = "drain"]
      /\ UNCHANGED <<lists, readers, call, local, calls>>
  BY DEF Announce
<1>2. TypeOK /\ On(c) \in Results
  BY DEF LockInv, TypeOK, Calls, On
<1>3. TypeOK'
  BY <1>1, <1>2 DEF TypeOK, Stages, Appending, From, On
<1>4. writer'[On(c)] = c /\ \A r \in Results \ {On(c)} : writer'[r] = writer[r]
  BY <1>1, <1>2 DEF TypeOK
<1>5. at'[c] = "drain" /\ \A d \in Callers \ {c} : at'[d] = at[d]
  BY <1>1, <1>2 DEF TypeOK
<1>6. \A d \in Callers : On(d) \in Results
  BY <1>2 DEF TypeOK, Calls, On
<1>7. LockOwned'
  <2> SUFFICES ASSUME NEW d \in Callers, at'[d] \in {"drain", "rlock", "copy", "store"}
               PROVE  call'[d].op \in {"Add", "Append"} /\ writer'[call'[d].on] = d
    BY DEF LockOwned, Adds, On
  <2>1. CASE d = c
    BY <1>1, <1>4, <2>1 DEF Adds, On
  <2>2. CASE d # c
    BY <1>1, <1>4, <1>5, <1>6, <2>2, ResultAssumption DEF LockInv, LockOwned, Adds, On
  <2> QED
    BY <2>1, <2>2
<1>8. WriterAlone' /\ SourceRead' /\ ReaderIn'
  BY <1>1, <1>5 DEF LockInv, WriterAlone, SourceRead, ReaderIn, On, From, Appending, Adds
<1>9. CopyIsFresh'
  BY <1>1, <1>5, FreshKept DEF LockInv
<1> QED
  BY <1>3, <1>7, <1>8, <1>9 DEF LockInv

LEMMA AcquireStep ==
  ASSUME LockInv, NEW c \in Callers, Acquire(c)
  PROVE  LockInv'
<1>1. /\ at[c] = "drain" /\ readers[On(c)] = {}
      /\ at' = [at EXCEPT ![c] = IF Appending(c) THEN "rlock" ELSE "copy"]
      /\ UNCHANGED <<lists, writer, readers, call, local, calls>>
  BY DEF Acquire
<1>2. TypeOK
  BY DEF LockInv
<1>3. TypeOK'
  BY <1>1, <1>2 DEF TypeOK, Stages, Appending, From, On
<1>4. at'[c] = (IF Appending(c) THEN "rlock" ELSE "copy") /\ \A d \in Callers \ {c} : at'[d] = at[d]
  BY <1>1, <1>2 DEF TypeOK
<1>5. LockOwned' /\ WriterAlone' /\ SourceRead' /\ ReaderIn'
  BY <1>1, <1>4 DEF LockInv, LockOwned, WriterAlone, SourceRead, ReaderIn, On, From, Appending, Adds
<1>6. CopyIsFresh'
  BY <1>1, <1>4, FreshKept DEF LockInv
<1> QED
  BY <1>3, <1>5, <1>6 DEF LockInv

(* A reader enters where nobody has announced a Lock.                      *)
LEMMA ReaderEnters ==
  ASSUME LockInv, NEW c \in Callers, NEW r \in Results, writer[r] = Nobody,
         readers' = [readers EXCEPT ![r] = @ \cup {c}],
         UNCHANGED <<lists, writer, call, local, calls>>,
         \/ at[c] = "rlock" /\ r = From(c) /\ at' = [at EXCEPT ![c] = "copy"]
         \/ at[c] = "lock" /\ ~Adds(c) /\ r = On(c) /\ at' = [at EXCEPT ![c] = "read"]
  PROVE  LockInv'
<1>1. TypeOK
  BY DEF LockInv
<1>2. readers' \in [Results -> SUBSET Callers]
  BY <1>1 DEF TypeOK
<1>3. at' \in [Callers -> Stages] /\ \A d \in Callers \ {c} : at'[d] = at[d]
  BY <1>1 DEF TypeOK, Stages
<1>4. at[c] # "idle" /\ at'[c] # "idle"
  BY <1>1 DEF TypeOK
<1>5. TypeOK'
  BY <1>1, <1>2, <1>3, <1>4 DEF TypeOK, Appending, From, On
<1>6. c \in readers'[r] /\ \A q \in Results : readers[q] \subseteq readers'[q]
  BY <1>1 DEF TypeOK
<1>7. \A q \in Results \ {r} : readers'[q] = readers[q]
  BY <1>1 DEF TypeOK
<1>8. at'[c] = "copy" \/ at'[c] = "read"
  BY <1>1 DEF TypeOK
<1>9. LockOwned'
  BY <1>1, <1>3 DEF LockInv, LockOwned, TypeOK, On, Adds
<1>10. WriterAlone'
  <2> SUFFICES ASSUME NEW d \in Callers, at'[d] \in {"rlock", "copy", "store"}
               PROVE  readers'[call'[d].on] = {}
    BY DEF WriterAlone, On
  <2>1. at[d] \in {"rlock", "copy", "store"}
    BY <1>1, <1>3 DEF TypeOK
  <2>2. writer[On(d)] = d /\ readers[On(d)] = {}
    BY <2>1 DEF LockInv, LockOwned, WriterAlone
  <2>3. On(d) # r /\ On(d) \in Results
    BY <1>1, <2>2, ResultAssumption DEF TypeOK, Calls, On
  <2> QED
    BY <1>7, <2>2, <2>3 DEF On
<1>11. SourceRead'
  <2> SUFFICES ASSUME NEW d \in Callers
               PROVE  /\ at'[d] = "rlock" => call'[d].op = "Append"
                      /\ at'[d] \in {"copy", "store"} /\ call'[d].op = "Append" => d \in readers'[call'[d].from]
    BY DEF SourceRead, Appending, From
  <2>1. CASE d = c
    <3>1. at'[c] = "copy" => r = From(c)
      BY <1>1 DEF TypeOK
    <3>2. at'[c] = "read" => ~Adds(c)
      BY <1>1 DEF TypeOK
    <3> QED
      BY <1>6, <1>8, <2>1, <3>1, <3>2 DEF From
  <2>2. CASE d # c
    <3>1. Appending(d) => From(d) \in Results
      BY <1>1 DEF TypeOK
    <3> QED
      BY <1>3, <1>6, <2>2, <3>1 DEF LockInv, SourceRead, Appending, From
  <2> QED
    BY <2>1, <2>2
<1>12. ReaderIn'
  <2> SUFFICES ASSUME NEW d \in Callers, at'[d] = "read"
               PROVE  ~(call'[d].op \in {"Add", "Append"}) /\ d \in readers'[call'[d].on]
    BY DEF ReaderIn, Adds, On
  <2>1. CASE d = c
    <3>1. ~Adds(c) /\ r = On(c)
      BY <1>1, <2>1 DEF TypeOK
    <3> QED
      BY <1>6, <2>1, <3>1 DEF Adds, On
  <2>2. CASE d # c
    <3>1. On(d) \in Results
      BY <1>1 DEF TypeOK, Calls, On
    <3> QED
      BY <1>3, <1>6, <2>2, <3>1 DEF LockInv, ReaderIn, Adds, On
  <2> QED
    BY <2>1, <2>2
<1>13. CopyIsFresh'
  BY <1>3, <1>8, FreshKept DEF LockInv
<1> QED
  BY <1>5, <1>9, <1>10, <1>11, <1>12, <1>13 DEF LockInv

LEMMA EnterStep ==
  ASSUME LockInv, NEW c \in Callers, LockOther(c) \/ LockShort(c)
  PROVE  LockInv'
<1>1. CASE LockOther(c)
  <2>1. From(c) \in Results
    BY <1>1 DEF LockOther, LockInv, SourceRead, TypeOK
  <2> QED
    BY <1>1, <2>1, ReaderEnters DEF LockOther
<1>2. CASE LockShort(c)
  <2>1. On(c) \in Results
    BY DEF LockInv, TypeOK, Calls, On
  <2> QED
    BY <1>2, <2>1, ReaderEnters DEF LockShort
<1> QED
  BY <1>1, <1>2

LEMMA CopyStep ==
  ASSUME LockInv, NEW c \in Callers, Copy(c)
  PROVE  LockInv'
<1> DEFINE slices == [l \in Lists |-> lists[On(c)][l] \o More(c, l)]
<1>1. /\ at[c] = "copy" /\ local' = [local EXCEPT ![c] = slices] /\ at' = [at EXCEPT ![c] = "store"]
      /\ UNCHANGED <<lists, writer, readers, call, calls>>
  BY DEF Copy
<1>2. TypeOK /\ On(c) \in Results
  BY DEF LockInv, TypeOK, Calls, On
<1>3. \A l \in Lists : lists[On(c)][l] \in Seq(Tags)
  BY <1>2 DEF TypeOK
<1>4. slices \in [Lists -> Seq(Tags)]
  BY <1>2, <1>3, MoreTyped
<1> HIDE DEF slices
<1>5. local' \in [Callers -> [Lists -> Seq(Tags)]] /\ local'[c] = slices
      /\ \A d \in Callers \ {c} : local'[d] = local[d]
  BY <1>1, <1>2, <1>4 DEF TypeOK
<1>6. at' \in [Callers -> Stages] /\ at'[c] = "store" /\ \A d \in Callers \ {c} : at'[d] = at[d]
  BY <1>1, <1>2 DEF TypeOK, Stages
<1>7. TypeOK'
  BY <1>1, <1>2, <1>5, <1>6 DEF TypeOK, Appending, From, On
<1>8. LockOwned' /\ WriterAlone' /\ SourceRead' /\ ReaderIn'
  BY <1>1, <1>6 DEF LockInv, LockOwned, WriterAlone, SourceRead, ReaderIn, On, From, Appending, Adds
<1>9. CopyIsFresh'
  <2> SUFFICES ASSUME NEW d \in Callers, at'[d] = "store", NEW l \in Lists
               PROVE  local'[d][l] = lists[On(d)][l] \o More(d, l)
    BY <1>1 DEF CopyIsFresh, On, From, Appending, More, Tag
  <2>1. CASE d = c
    BY <1>5, <2>1 DEF slices
  <2>2. CASE d # c
    BY <1>5, <1>6, <2>2 DEF LockInv, CopyIsFresh
  <2> QED
    BY <2>1, <2>2
<1> QED
  BY <1>7, <1>8, <1>9 DEF LockInv

(* A section ends.                                                         *)
LEMMA SectionEnds ==
  ASSUME TypeOK, NEW c \in Callers, at[c] # "idle", NextSection(c)
  PROVE  /\ call' \in [Callers -> Calls] /\ at' \in [Callers -> Stages] /\ calls' = calls
         /\ at'[c] \in {"idle", "lock"}
         /\ (at'[c] = "idle") <=> (call'[c].todo = <<>>)
         /\ call'[c].op = call[c].op /\ call'[c].on = call[c].on /\ call'[c].from = call[c].from
         /\ call'[c].number = call[c].number
         /\ \A d \in Callers \ {c} : call'[d] = call[d] /\ at'[d] = at[d]
<1>1. call[c] \in Calls /\ call[c].todo \in Sections
  BY DEF TypeOK, Calls
<1>2. PICK rest \in Sections \cup {<<>>} :
        /\ call' = [call EXCEPT ![c].todo = rest]
        /\ at' = [at EXCEPT ![c] = IF rest = <<>> THEN "idle" ELSE "lock"]
        /\ calls' = calls
  BY <1>1, SectionsTyped DEF NextSection
<1>3. [call[c] EXCEPT !.todo = rest] \in Calls
  BY <1>1, <1>2 DEF Calls
<1>4. call' = [call EXCEPT ![c] = [call[c] EXCEPT !.todo = rest]]
  BY <1>2 DEF TypeOK
<1>5. call' \in [Callers -> Calls] /\ call'[c] = [call[c] EXCEPT !.todo = rest]
      /\ \A d \in Callers \ {c} : call'[d] = call[d]
  BY <1>3, <1>4 DEF TypeOK
<1>6. at' \in [Callers -> Stages] /\ at'[c] = (IF rest = <<>> THEN "idle" ELSE "lock")
      /\ \A d \in Callers \ {c} : at'[d] = at[d]
  BY <1>2 DEF TypeOK, Stages
<1>7. /\ call'[c].todo = rest /\ call'[c].op = call[c].op /\ call'[c].on = call[c].on
      /\ call'[c].from = call[c].from /\ call'[c].number = call[c].number
  BY <1>1, <1>5 DEF Calls
<1> QED
  BY <1>2, <1>5, <1>6, <1>7

LEMMA ReadStep ==
  ASSUME LockInv, NEW c \in Callers, Read(c)
  PROVE  LockInv'
<1> DEFINE seen == [l \in Lists |-> IF l \in Section(c) THEN lists[On(c)][l] ELSE local[c][l]]
<1>1. /\ at[c] = "read" /\ local' = [local EXCEPT ![c] = seen]
      /\ readers' = [readers EXCEPT ![On(c)] = @ \ {c}]
      /\ NextSection(c) /\ UNCHANGED <<lists, writer>>
  BY DEF Read
<1>2. TypeOK /\ On(c) \in Results
  BY DEF LockInv, TypeOK, Calls, On
<1>3. seen \in [Lists -> Seq(Tags)]
  BY <1>2 DEF TypeOK
<1> HIDE DEF seen
<1>4. local' \in [Callers -> [Lists -> Seq(Tags)]] /\ \A d \in Callers \ {c} : local'[d] = local[d]
  BY <1>1, <1>2, <1>3 DEF TypeOK
<1>5. readers' \in [Results -> SUBSET Callers]
      /\ \A r \in Results : readers'[r] = readers[r] \/ readers'[r] = readers[r] \ {c}
  BY <1>1, <1>2 DEF TypeOK
<1>6. /\ call' \in [Callers -> Calls] /\ at' \in [Callers -> Stages] /\ calls' = calls
      /\ at'[c] \in {"idle", "lock"}
      /\ (at'[c] = "idle") <=> (call'[c].todo = <<>>)
      /\ call'[c].op = call[c].op /\ call'[c].on = call[c].on /\ call'[c].from = call[c].from
      /\ \A d \in Callers \ {c} : call'[d] = call[d] /\ at'[d] = at[d]
  BY <1>1, <1>2, SectionEnds
<1>7. \A d \in Callers :
        /\ (at'[d] = "idle") <=> (call'[d].todo = <<>>)
        /\ call'[d].op = "Append" => call'[d].from \in Results \ {call'[d].on}
  BY <1>2, <1>6 DEF TypeOK, Appending, From, On
<1>8. TypeOK'
  BY <1>1, <1>2, <1>4, <1>5, <1>6, <1>7 DEF TypeOK, Appending, From, On
<1>9. \A d \in Callers : call'[d].on \in Results
  BY <1>6 DEF Calls
<1>10. LockOwned' /\ WriterAlone'
  BY <1>1, <1>5, <1>6, <1>9 DEF LockInv, LockOwned, WriterAlone, On, Adds
<1>11. SourceRead' /\ ReaderIn'
  BY <1>5, <1>6, <1>7, <1>9 DEF LockInv, SourceRead, ReaderIn, On, From, Appending, Adds
<1>12. CopyIsFresh'
  BY <1>1, <1>4, <1>6, FreshKept DEF LockInv
<1> QED
  BY <1>8, <1>10, <1>11, <1>12 DEF LockInv

LEMMA StoreStep ==
  ASSUME LockInv, NEW c \in Callers, Store(c)
  PROVE  LockInv'
<1> DEFINE stored == [l \in Lists |-> IF l \in Section(c) THEN local[c][l] ELSE lists[On(c)][l]]
<1>1. /\ at[c] = "store" /\ lists' = [lists EXCEPT ![On(c)] = stored]
      /\ writer' = [writer EXCEPT ![On(c)] = Nobody]
      /\ readers' = [r \in Results |-> readers[r] \ {c}]
      /\ NextSection(c) /\ UNCHANGED local
  BY DEF Store
<1>2. TypeOK /\ On(c) \in Results
  BY DEF LockInv, TypeOK, Calls, On
<1>3. stored \in [Lists -> Seq(Tags)]
  BY <1>2 DEF TypeOK
<1> HIDE DEF stored
<1>4. lists' \in [Results -> [Lists -> Seq(Tags)]] /\ \A r \in Results \ {On(c)} : lists'[r] = lists[r]
  BY <1>1, <1>2, <1>3 DEF TypeOK
<1>5. writer' \in [Results -> Callers \cup {Nobody}] /\ \A r \in Results \ {On(c)} : writer'[r] = writer[r]
  BY <1>1, <1>2 DEF TypeOK
<1>6. readers' \in [Results -> SUBSET Callers] /\ \A r \in Results : readers'[r] = readers[r] \ {c}
  BY <1>1, <1>2 DEF TypeOK
<1>7. /\ call' \in [Callers -> Calls] /\ at' \in [Callers -> Stages] /\ calls' = calls
      /\ at'[c] \in {"idle", "lock"}
      /\ (at'[c] = "idle") <=> (call'[c].todo = <<>>)
      /\ call'[c].op = call[c].op /\ call'[c].on = call[c].on /\ call'[c].from = call[c].from
      /\ \A d \in Callers \ {c} : call'[d] = call[d] /\ at'[d] = at[d]
  BY <1>1, <1>2, SectionEnds
<1>8. \A d \in Callers :
        /\ (at'[d] = "idle") <=> (call'[d].todo = <<>>)
        /\ call'[d].op = "Append" => call'[d].from \in Results \ {call'[d].on}
  BY <1>2, <1>7 DEF TypeOK, Appending, From, On
<1>9. TypeOK'
  BY <1>1, <1>2, <1>4, <1>5, <1>6, <1>7, <1>8 DEF TypeOK, Appending, From, On
<1>10. \A d \in Callers : call[d].on \in Results
  BY <1>2 DEF TypeOK, Calls
<1>11. writer[On(c)] = c /\ readers[On(c)] = {}
  BY <1>1 DEF LockInv, LockOwned, WriterAlone
<1>12. \A d \in Callers \ {c} : at[d] \in {"drain", "rlock", "copy", "store"} => call[d].on # On(c)
  BY <1>11 DEF LockInv, LockOwned, On
<1>13. LockOwned'
  BY <1>5, <1>7, <1>10, <1>12 DEF LockInv, LockOwned, On, Adds
<1>14. WriterAlone'
  BY <1>6, <1>7, <1>10 DEF LockInv, WriterAlone, On
<1>15. ReaderIn'
  BY <1>6, <1>7, <1>10 DEF LockInv, ReaderIn, On, Adds
<1>16. SourceRead'
  BY <1>2, <1>6, <1>7 DEF LockInv, SourceRead, TypeOK, From, Appending
<1>17. CopyIsFresh'
  <2> SUFFICES ASSUME NEW d \in Callers, at'[d] = "store", NEW l \in Lists
               PROVE  local'[d][l] =
                        lists'[call'[d].on][l] \o
                          IF call'[d].op = "Append" THEN lists'[call'[d].from][l]
                          ELSE <<[by |-> d, number |-> call'[d].number, on |-> call'[d].on]>>
    BY DEF CopyIsFresh, On, From, Appending, More, Tag
  <2>1. d # c /\ at[d] = "store" /\ call'[d] = call[d] /\ call[d].on # On(c)
    BY <1>7, <1>12
  <2>2. lists'[call[d].on] = lists[call[d].on]
    BY <1>4, <1>10, <2>1
  <2>3. call[d].op = "Append" => lists'[call[d].from] = lists[call[d].from]
    <3>1. call[d].op = "Append" => call[d].from \in Results /\ d \in readers[call[d].from]
      BY <1>2, <2>1 DEF LockInv, SourceRead, TypeOK, From, Appending
    <3> QED
      BY <1>4, <1>11, <3>1
  <2>4. local[d][l] = lists[call[d].on][l] \o
                        IF call[d].op = "Append" THEN lists[call[d].from][l]
                        ELSE <<[by |-> d, number |-> call[d].number, on |-> call[d].on]>>
    BY <2>1 DEF LockInv, CopyIsFresh, On, From, Appending, More, Tag
  <2> QED
    BY <1>1, <2>1, <2>2, <2>3, <2>4
<1> QED
  BY <1>9, <1>13, <1>14, <1>15, <1>16, <1>17 DEF LockInv

LEMMA LockInvStep == LockInv /\ [Next]_vars => LockInv'
<1> SUFFICES ASSUME LockInv, [Next]_vars PROVE LockInv'
  OBVIOUS
<1>1. ASSUME NEW c \in Callers, Begin(c) \/ Step(c) PROVE LockInv'
  BY <1>1, BeginStep, AnnounceStep, AcquireStep, EnterStep, CopyStep, StoreStep, ReadStep DEF Step
<1>2. CASE UNCHANGED vars
  <2>1. TypeOK'
    BY <1>2 DEF vars, LockInv, TypeOK, Appending, From, On
  <2>2. CopyIsFresh'
    BY <1>2, FreshKept DEF vars, LockInv
  <2> QED
    BY <1>2, <2>1, <2>2 DEF vars, LockInv, LockOwned, WriterAlone, SourceRead, ReaderIn,
       On, From, Appending, Adds
<1> QED
  BY <1>1, <1>2 DEF Next

(* sync.RWMutex as result.go uses it: writers exclude one another and the   *)
(* readers of their result, and Append keeps writers out of its source.    *)
THEOREM LocksExclude == Spec => []LockInv
BY InitLockInv, LockInvStep, PTL DEF Spec

-----------------------------------------------------------------------------
(* The refinement.                                                         *)

LEMMA InitImplements == Init => Atomic!Init
BY DEF Init, Atomic!Init, Empty, Lists, Atomic!Lists

LEMMA StoreImplements ==
  ASSUME LockInv, NEW c \in Callers, Store(c)
  PROVE  Atomic!Next
<1> DEFINE stored == [l \in Lists |-> IF l \in Section(c) THEN local[c][l] ELSE lists[On(c)][l]]
<1>1. at[c] = "store" /\ lists' = [lists EXCEPT ![On(c)] = stored] /\ NextSection(c)
  BY DEF Store
<1>2. TypeOK /\ On(c) \in Results
  BY DEF LockInv, TypeOK, Calls, On
<1>3. \A l \in Lists : local[c][l] = lists[On(c)][l] \o More(c, l)
  BY <1>1 DEF LockInv, CopyIsFresh
<1>4. CASE Appending(c)
  <2>1. From(c) \in Results \ {On(c)}
    BY <1>2, <1>4 DEF TypeOK
  <2>2. stored = [l \in Lists |-> lists[On(c)][l] \o lists[From(c)][l]]
    BY <1>3, <1>4 DEF Section, More
  <2>3. Atomic!AppendAll(On(c), From(c))
    BY <1>1, <2>2 DEF Atomic!AppendAll, Lists, Atomic!Lists
  <2> QED
    BY <1>2, <2>1, <2>3 DEF Atomic!Next
<1>5. CASE ~Appending(c)
  <2> DEFINE h == Head(call[c].todo)
  <2>1. call[c].todo \in Sections
    BY <1>1, <1>2 DEF TypeOK, Calls
  <2>2. h \in Lists
    BY <2>1, SectionsTyped
  <2>3. Section(c) = {h}
    BY <1>5 DEF Section
  <2> HIDE DEF h
  <2>4. lists[On(c)] \in [Lists -> Seq(Tags)]
    BY <1>2 DEF TypeOK
  <2>5. stored = [lists[On(c)] EXCEPT ![h] = lists[On(c)][h] \o <<Tag(c)>>]
    BY <1>3, <1>5, <2>2, <2>3, <2>4 DEF More
  <2>6. lists'[On(c)][h] = lists[On(c)][h] \o <<Tag(c)>>
    BY <1>1, <1>2, <2>2, <2>4, <2>5 DEF TypeOK
  <2>7. lists' = [lists EXCEPT ![On(c)][h] = lists'[On(c)][h]]
    BY <1>1, <1>2, <2>5, <2>6 DEF TypeOK
  <2>8. lists[On(c)][h] \in Seq(Tags) /\ <<Tag(c)>> \in Seq(Tags) /\ Len(<<Tag(c)>>) = 1
    BY <1>2, <2>2, <2>4, TagTyped
  <2>9. /\ Len(lists'[On(c)][h]) = Len(lists[On(c)][h]) + 1
        /\ \A i \in 1..Len(lists[On(c)][h]) : lists'[On(c)][h][i] = lists[On(c)][h][i]
        /\ lists'[On(c)][h][Len(lists[On(c)][h]) + 1] = Tag(c)
    BY <2>6, <2>8
  <2>10. Tag(c) \in [r \in Results |-> [by : Callers, number : Nat, on : {r}]][On(c)]
    BY <1>2, TagTyped
  <2>11. Atomic!Extends(lists'[On(c)][h], lists[On(c)][h])
    BY <2>8, <2>9 DEF Atomic!Extends
  <2>12. \A i \in Len(lists[On(c)][h]) + 1..Len(lists'[On(c)][h]) :
           lists'[On(c)][h][i] \in [r \in Results |-> [by : Callers, number : Nat, on : {r}]][On(c)]
    <3> SUFFICES ASSUME NEW i \in Len(lists[On(c)][h]) + 1..Len(lists'[On(c)][h])
                 PROVE  i = Len(lists[On(c)][h]) + 1
      BY <2>9, <2>10
    <3> QED
      BY <2>8, <2>9
  <2>13. Atomic!Add(On(c), h)
    BY <2>7, <2>11, <2>12 DEF Atomic!Add
  <2> QED
    BY <1>2, <2>2, <2>13 DEF Atomic!Next, Lists, Atomic!Lists
<1> QED
  BY <1>4, <1>5

(* However calls interleave, the lists of results change as if each call    *)
(* took place at one moment, or at one for each of its lists.              *)
THEOREM ResultsAtomic == Spec => Implements
<1>1. LockInv /\ [Next]_vars => [Atomic!Next]_lists
  <2> SUFFICES ASSUME LockInv, [Next]_vars PROVE Atomic!Next \/ UNCHANGED lists
    OBVIOUS
  <2>1. ASSUME NEW c \in Callers, Begin(c) \/ Step(c) PROVE Atomic!Next \/ UNCHANGED lists
    BY <2>1, StoreImplements DEF Begin, Step, Announce, Acquire, LockOther, Copy, LockShort, Read
  <2>2. CASE UNCHANGED vars
    BY <2>2 DEF vars
  <2> QED
    BY <2>1, <2>2 DEF Next
<1> QED
  BY <1>1, InitImplements, LocksExclude, PTL DEF Spec, Implements, Atomic!Spec

-----------------------------------------------------------------------------
(* Nothing is lost.                                                        *)

InList(w) == {w[k] : k \in DOMAIN w}

(* Every tag is of a call that has begun.                                  *)
TagsOld ==
  /\ \A r \in Results, l \in Lists : \A i \in DOMAIN lists[r][l] : lists[r][l][i].number < calls
  /\ \A c \in Callers : call[c].op = "Add" => call[c].number < calls

(* The lists that a call is past have its tag.                             *)
TagsThere ==
  \A c \in Callers : call[c].op = "Add" =>
    \A l \in InList(call[c].whole) \ InList(call[c].todo) : Positions(Tag(c), On(c), l) # {}

(* Those that it will come to have not, and none has it twice.             *)
TagsOnce ==
  Unmixed => \A c \in Callers : call[c].op = "Add" =>
    \A l \in Lists :
      /\ l \in InList(call[c].todo) => Positions(Tag(c), On(c), l) = {}
      /\ \A i, j \in Positions(Tag(c), On(c), l) : i = j

TagInv == TagsOld /\ TagsThere /\ TagsOnce

LEMMA SectionSets ==
  /\ InList(<<>>) = {}
  /\ \A w \in Sections :
       /\ InList(w) \subseteq Lists
       /\ InList(w) = InList(Tail(w)) \cup {Head(w)}
       /\ Head(w) \notin InList(Tail(w))
<1>1. InList(<<>>) = {}
  BY DEF InList
<1>2. ASSUME NEW S, NEW a \in S PROVE InList(<<a>>) = {a}
  BY DEF InList
<1>3. ASSUME NEW S, NEW a \in S, NEW b \in S PROVE InList(<<a, b>>) = {a, b}
  <2>1. DOMAIN <<a, b>> = {1, 2} /\ <<a, b>>[1] = a /\ <<a, b>>[2] = b
    OBVIOUS
  <2> QED
    BY <2>1 DEF InList
<1>4. ASSUME NEW w \in Sections
      PROVE  /\ InList(w) \subseteq Lists
             /\ InList(w) = InList(Tail(w)) \cup {Head(w)}
             /\ Head(w) \notin InList(Tail(w))
  <2>1. "outputs" \in Lists /\ "followups" \in Lists /\ "outputs" # "followups"
    BY DEF Lists
  <2>2. CASE w = <<"outputs">>
    <3>1. InList(w) = {"outputs"} /\ Head(w) = "outputs" /\ Tail(w) = <<>>
      BY <1>2, <2>1, <2>2, ShortLists, Zenon
    <3> QED
      BY <1>1, <2>1, <3>1
  <2>3. CASE w = <<"followups">>
    <3>1. InList(w) = {"followups"} /\ Head(w) = "followups" /\ Tail(w) = <<>>
      BY <1>2, <2>1, <2>3, ShortLists, Zenon
    <3> QED
      BY <1>1, <2>1, <3>1
  <2>4. CASE w = <<"outputs", "followups">>
    <3>1. /\ InList(w) = {"outputs", "followups"} /\ Head(w) = "outputs"
          /\ Tail(w) = <<"followups">>
      BY <1>3, <2>1, <2>4, ShortLists, Zenon
    <3>2. InList(<<"followups">>) = {"followups"}
      BY <1>2, <2>1, Zenon
    <3> QED
      BY <2>1, <3>1, <3>2
  <2> QED
    BY <2>2, <2>3, <2>4 DEF Sections
<1> QED
  BY <1>1, <1>4

(* A step that adds nothing, and changes no call that adds one list after   *)
(* the other.                                                              *)
LEMMA TagsKept ==
  ASSUME TagInv, UNCHANGED <<lists, calls>>,
         \A d \in Callers : call'[d] = call[d] \/ call'[d].op = "Read"
  PROVE  TagInv'
<1>1. Unmixed' <=> Unmixed
  BY DEF Unmixed
<1>2. ASSUME NEW d \in Callers, call'[d] = call[d], NEW l \in Lists
      PROVE  Positions(Tag(d), On(d), l)' = Positions(Tag(d), On(d), l)
  BY <1>2 DEF Positions, Tag, On
<1>3. ASSUME NEW d \in Callers, call'[d].op = "Add"
      PROVE  call'[d] = call[d]
  BY <1>3
<1>4. TagsOld'
  BY <1>3 DEF TagInv, TagsOld
<1>5. TagsThere'
  <2> SUFFICES ASSUME NEW d \in Callers, call'[d].op = "Add",
                      NEW l \in InList(call'[d].whole) \ InList(call'[d].todo)
               PROVE  Positions(Tag(d), On(d), l)' # {}
    BY DEF TagsThere
  <2>1. call'[d] = call[d]
    BY <1>3
  <2>2. Positions(Tag(d), On(d), l) # {}
    BY <2>1 DEF TagInv, TagsThere
  <2> QED
    BY <2>1, <2>2 DEF Positions, Tag, On
<1>6. TagsOnce'
  <2> SUFFICES ASSUME Unmixed', NEW d \in Callers, call'[d].op = "Add", NEW l \in Lists
               PROVE  /\ l \in InList(call'[d].todo) => Positions(Tag(d), On(d), l)' = {}
                      /\ \A i, j \in Positions(Tag(d), On(d), l)' : i = j
    BY DEF TagsOnce
  <2>1. call'[d] = call[d]
    BY <1>3
  <2> QED
    BY <1>1, <1>2, <2>1 DEF TagInv, TagsOnce
<1> QED
  BY <1>4, <1>5, <1>6 DEF TagInv

LEMMA TagsBegin ==
  ASSUME LockInv, TagInv, NEW c \in Callers, Begin(c)
  PROVE  TagInv'
<1>1. calls' = calls + 1 /\ UNCHANGED lists /\ calls \in Nat
  BY DEF Begin, LockInv, TypeOK
<1>2. \A d \in Callers \ {c} : call'[d] = call[d]
  BY DEF Begin, LockInv, TypeOK
<1>3. \/ call'[c] = call[c]
      \/ call'[c].number = calls /\ call'[c].todo = call'[c].whole
  <2>1. call \in [Callers -> Calls]
    BY DEF LockInv, TypeOK
  <2>2. CASE UNCHANGED <<at, call, local>>
    BY <2>2
  <2>3. CASE \E op \in Kinds, r, other \in Results \cup {Nobody} :
               \E whole \in IF op = "Append" THEN {<<"outputs", "followups">>} ELSE Sections :
                  call' = [call EXCEPT ![c] = [op |-> op, on |-> r, from |-> other, whole |-> whole,
                                               todo |-> whole, number |-> calls]]
    BY <2>1, <2>3
  <2> QED
    BY <2>2, <2>3 DEF Begin
<1>4. \A r \in Results, l \in Lists : \A i \in DOMAIN lists[r][l] :
        lists[r][l] \in Seq(Tags) /\ lists[r][l][i] \in Tags /\ lists[r][l][i].number \in Nat
  <2> SUFFICES ASSUME NEW r \in Results, NEW l \in Lists, NEW i \in DOMAIN lists[r][l]
               PROVE  lists[r][l] \in Seq(Tags) /\ lists[r][l][i] \in Tags /\ lists[r][l][i].number \in Nat
    OBVIOUS
  <2>1. lists[r][l] \in Seq(Tags)
    BY DEF LockInv, TypeOK
  <2>2. lists[r][l][i] \in Tags
    BY <2>1
  <2> QED
    BY <2>1, <2>2 DEF Tags
<1>5. \A d \in Callers : call[d].number \in Nat /\ call'[d].on \in Results
  <2>1. LockInv'
    BY BeginStep
  <2> QED
    BY <2>1 DEF LockInv, TypeOK, Calls
<1>6. TagsOld'
  BY <1>1, <1>2, <1>3, <1>4, <1>5 DEF TagInv, TagsOld
<1>7. ASSUME call'[c].number = calls, NEW l \in Lists
      PROVE  Positions(Tag(c), On(c), l)' = {}
  <2>1. \A i \in DOMAIN lists[call'[c].on][l] : lists[call'[c].on][l][i].number # calls
    BY <1>1, <1>4, <1>5 DEF TagInv, TagsOld
  <2> QED
    BY <1>1, <1>7, <2>1 DEF Positions, Tag, On
<1>8. TagsThere'
  <2> SUFFICES ASSUME NEW d \in Callers, call'[d].op = "Add",
                      NEW l \in InList(call'[d].whole) \ InList(call'[d].todo)
               PROVE  Positions(Tag(d), On(d), l)' # {}
    BY DEF TagsThere
  <2>1. call'[d] = call[d]
    BY <1>2, <1>3
  <2>2. Positions(Tag(d), On(d), l) # {}
    BY <2>1 DEF TagInv, TagsThere
  <2> QED
    BY <1>1, <2>1, <2>2 DEF Positions, Tag, On
<1>9. TagsOnce'
  <2> SUFFICES ASSUME Unmixed', NEW d \in Callers, call'[d].op = "Add", NEW l \in Lists
               PROVE  /\ l \in InList(call'[d].todo) => Positions(Tag(d), On(d), l)' = {}
                      /\ \A i, j \in Positions(Tag(d), On(d), l)' : i = j
    BY DEF TagsOnce
  <2>1. CASE call'[d] = call[d]
    <3>1. Unmixed
      BY <1>1 DEF Unmixed
    <3>2. Positions(Tag(d), On(d), l)' = Positions(Tag(d), On(d), l)
      BY <1>1, <2>1 DEF Positions, Tag, On
    <3> QED
      BY <2>1, <3>1, <3>2 DEF TagInv, TagsOnce
  <2>2. CASE call'[d] # call[d]
    <3>1. d = c /\ call'[c].number = calls
      BY <1>2, <1>3, <2>2
    <3>2. Positions(Tag(d), On(d), l)' = {}
      BY <1>7, <3>1
    <3> QED
      BY <3>2
  <2> QED
    BY <2>1, <2>2
<1> QED
  BY <1>6, <1>8, <1>9 DEF TagInv

(* What Store does to the lists, element by element.                       *)
LEMMA StoreGrows ==
  ASSUME LockInv, NEW c \in Callers, Store(c), NEW r \in Results, NEW l \in Lists
  PROVE  /\ lists[r][l] \in Seq(Tags) /\ lists'[r][l] \in Seq(Tags)
         /\ Len(lists[r][l]) <= Len(lists'[r][l])
         /\ \A i \in 1..Len(lists[r][l]) : lists'[r][l][i] = lists[r][l][i]
         /\ r # On(c) \/ l \notin Section(c) => lists'[r][l] = lists[r][l]
         /\ r = On(c) /\ l \in Section(c) =>
              /\ Len(lists'[r][l]) = Len(lists[r][l]) + Len(More(c, l))
              /\ \A i \in 1..Len(More(c, l)) : lists'[r][l][Len(lists[r][l]) + i] = More(c, l)[i]
<1>1. at[c] = "store" /\ TypeOK
      /\ lists' = [lists EXCEPT ![On(c)] =
                     [k \in Lists |-> IF k \in Section(c) THEN local[c][k] ELSE lists[On(c)][k]]]
  BY DEF Store, LockInv
<1>2. lists[r][l] \in Seq(Tags) /\ On(c) \in Results
  BY <1>1 DEF TypeOK, Calls, On
<1>3. CASE r # On(c) \/ l \notin Section(c)
  <2>1. lists'[r][l] = lists[r][l]
    BY <1>1, <1>2, <1>3 DEF TypeOK
  <2> QED
    BY <1>2, <1>3, <2>1
<1>4. CASE r = On(c) /\ l \in Section(c)
  <2>1. lists'[r][l] = local[c][l]
    BY <1>1, <1>2, <1>4 DEF TypeOK
  <2>2. lists'[r][l] = lists[r][l] \o More(c, l)
    BY <1>1, <1>4, <2>1 DEF LockInv, CopyIsFresh
  <2>3. More(c, l) \in Seq(Tags)
    BY <1>1, MoreTyped
  <2> HIDE DEF More
  <2> QED
    BY <1>2, <1>4, <2>2, <2>3
<1> QED
  BY <1>3, <1>4

LEMMA TagsStore ==
  ASSUME LockInv, TagInv, NEW c \in Callers, Store(c)
  PROVE  TagInv'
<1>1. /\ TypeOK /\ at[c] = "store" /\ NextSection(c) /\ call[c].todo \in Sections
      /\ Adds(c) /\ calls \in Nat /\ On(c) \in Results
  BY DEF Store, LockInv, LockOwned, TypeOK, Calls, On
<1>2. /\ calls' = calls /\ \A d \in Callers \ {c} : call'[d] = call[d]
      /\ call'[c].op = call[c].op /\ call'[c].on = call[c].on /\ call'[c].number = call[c].number
  BY <1>1, SectionEnds
<1>3. \A d \in Callers : On(d) \in Results /\ On(d)' = On(d) /\ Tag(d)' = Tag(d)
      /\ Tag(d).by = d /\ Tag(d).number = call[d].number
  BY <1>1, <1>2 DEF TypeOK, Calls, On, Tag
<1>4. call'[c].whole = call[c].whole /\ (~Appending(c) => call'[c].todo = Tail(call[c].todo))
  BY <1>1 DEF NextSection, TypeOK, Calls
<1> DEFINE h == Head(call[c].todo)
<1>5. /\ h \in Lists /\ InList(call[c].todo) = InList(Tail(call[c].todo)) \cup {h}
      /\ h \notin InList(Tail(call[c].todo))
  BY <1>1, SectionSets
<1>6. ~Appending(c) => Section(c) = {h} /\ call[c].op = "Add"
                       /\ \A l \in Lists : Len(More(c, l)) = 1 /\ More(c, l)[1] = Tag(c)
  BY <1>1 DEF Section, More, Adds, Appending
<1>7. Appending(c) => /\ call[c].op # "Add" /\ From(c) \in Results \ {On(c)}
                      /\ \A l \in Lists : More(c, l) = lists[From(c)][l]
  BY <1>1 DEF More, Appending, TypeOK
<1> HIDE DEF h
(* New elements, one by one.                                               *)
<1>8. ASSUME NEW r \in Results, NEW l \in Lists, NEW i \in DOMAIN lists'[r][l],
             i \notin DOMAIN lists[r][l]
      PROVE  /\ r = On(c)
             /\ ~Appending(c) => l = h /\ i = Len(lists[r][l]) + 1 /\ lists'[r][l][i] = Tag(c)
             /\ Appending(c) => \E j \in DOMAIN lists[From(c)][l] : lists'[r][l][i] = lists[From(c)][l][j]
  <2>1. /\ lists[r][l] \in Seq(Tags) /\ lists'[r][l] \in Seq(Tags)
        /\ r # On(c) \/ l \notin Section(c) => lists'[r][l] = lists[r][l]
    BY StoreGrows
  <2>2. r = On(c) /\ l \in Section(c)
    BY <1>8, <2>1
  <2>3. /\ Len(lists'[r][l]) = Len(lists[r][l]) + Len(More(c, l))
        /\ \A k \in 1..Len(More(c, l)) : lists'[r][l][Len(lists[r][l]) + k] = More(c, l)[k]
    BY <2>2, StoreGrows
  <2>4. More(c, l) \in Seq(Tags)
    BY <1>1, MoreTyped
  <2> HIDE DEF More
  <2>5. PICK k \in 1..Len(More(c, l)) : i = Len(lists[r][l]) + k
    <3>1. i \in Nat /\ Len(lists[r][l]) \in Nat /\ Len(More(c, l)) \in Nat
          /\ i > Len(lists[r][l]) /\ i <= Len(lists[r][l]) + Len(More(c, l))
      BY <1>8, <2>1, <2>3, <2>4
    <3>2. \A n, m \in Nat : \A j \in Nat : j > n /\ j <= n + m => \E k \in 1..m : j = n + k
      <4> SUFFICES ASSUME NEW n \in Nat, NEW m \in Nat, NEW j \in Nat, j > n, j <= n + m
                   PROVE  \E k \in 1..m : j = n + k
        OBVIOUS
      <4>1. j - n \in 1..m /\ j = n + (j - n)
        OBVIOUS
      <4> QED
        BY <4>1
    <3> QED
      BY <3>1, <3>2
  <2>6. lists'[r][l][i] = More(c, l)[k]
    BY <2>3, <2>5
  <2>7. CASE ~Appending(c)
    <3>1. Len(More(c, l)) = 1 /\ More(c, l)[1] = Tag(c) /\ Section(c) = {h}
      BY <1>6, <2>7
    <3>2. k = 1
      BY <2>5, <3>1
    <3> QED
      BY <2>2, <2>5, <2>6, <2>7, <3>1, <3>2
  <2>8. CASE Appending(c)
    <3>1. k \in DOMAIN lists[From(c)][l]
      BY <1>7, <2>4, <2>5, <2>8
    <3> QED
      BY <1>7, <2>2, <2>6, <2>8, <3>1
  <2> QED
    BY <2>7, <2>8
<1>9. \A r \in Results, l \in Lists :
        /\ DOMAIN lists[r][l] \subseteq DOMAIN lists'[r][l]
        /\ \A i \in DOMAIN lists[r][l] : lists'[r][l][i] = lists[r][l][i]
  BY StoreGrows
<1>10. TagsOld'
  <2> SUFFICES ASSUME NEW r \in Results, NEW l \in Lists, NEW i \in DOMAIN lists'[r][l]
               PROVE  lists'[r][l][i].number < calls
    BY <1>2 DEF TagInv, TagsOld
  <2>1. CASE i \in DOMAIN lists[r][l]
    BY <1>9, <2>1 DEF TagInv, TagsOld
  <2>2. CASE i \notin DOMAIN lists[r][l]
    BY <1>3, <1>6, <1>7, <1>8, <2>2 DEF TagInv, TagsOld
  <2> QED
    BY <2>1, <2>2
<1>11. Unmixed' => Unmixed
  BY <1>9 DEF Unmixed
<1>12. Unmixed' /\ Appending(c) => lists' = lists
  <2> SUFFICES ASSUME Unmixed', Appending(c) PROVE lists' = lists
    OBVIOUS
  <2>1. ASSUME NEW r \in Results, NEW l \in Lists, NEW i \in DOMAIN lists'[r][l],
               i \notin DOMAIN lists[r][l]
        PROVE  FALSE
    <3>1. r = On(c) /\ \E j \in DOMAIN lists[From(c)][l] : lists'[r][l][i] = lists[From(c)][l][j]
      BY <1>8, <2>1
    <3>2. lists'[r][l][i].on = From(c)
      BY <1>7, <1>11, <3>1 DEF Unmixed
    <3>3. lists'[r][l][i].on = On(c)
      BY <3>1 DEF Unmixed
    <3> QED
      BY <1>7, <3>2, <3>3
  <2>2. \A r \in Results, l \in Lists : lists'[r][l] = lists[r][l]
    <3> SUFFICES ASSUME NEW r \in Results, NEW l \in Lists PROVE lists'[r][l] = lists[r][l]
      OBVIOUS
    <3>1. /\ lists[r][l] \in Seq(Tags) /\ lists'[r][l] \in Seq(Tags)
          /\ Len(lists[r][l]) <= Len(lists'[r][l])
          /\ \A i \in 1..Len(lists[r][l]) : lists'[r][l][i] = lists[r][l][i]
      BY StoreGrows
    <3>2. \A i \in DOMAIN lists'[r][l] : i \in DOMAIN lists[r][l]
      BY <2>1
    <3>3. Len(lists[r][l]) = Len(lists'[r][l])
      BY <3>1, <3>2
    <3> QED
      BY <3>1, <3>3, SeqEqual
  <2>3. lists' \in [Results -> [Lists -> Seq(Tags)]] /\ lists \in [Results -> [Lists -> Seq(Tags)]]
    BY <1>1, StoreStep DEF LockInv, TypeOK
  <2> QED
    BY <2>2, <2>3
<1>13. TagsThere'
  <2> SUFFICES ASSUME NEW d \in Callers, call'[d].op = "Add",
                      NEW l \in InList(call'[d].whole) \ InList(call'[d].todo)
               PROVE  \E i \in DOMAIN lists'[On(d)][l] : lists'[On(d)][l][i] = Tag(d)
    BY <1>3 DEF TagsThere, Positions
  <2>1. call[d].op = "Add" /\ call[d].whole \in Sections /\ call'[d].whole = call[d].whole
    BY <1>1, <1>2, <1>4 DEF TypeOK, Calls
  <2>2. l \in Lists
    BY <2>1, SectionSets
  <2>3. CASE l \notin InList(call[d].todo)
    <3>1. Positions(Tag(d), On(d), l) # {}
      BY <2>1, <2>3 DEF TagInv, TagsThere
    <3>2. PICK i \in DOMAIN lists[On(d)][l] : lists[On(d)][l][i] = Tag(d)
      BY <3>1 DEF Positions
    <3> QED
      BY <1>3, <1>9, <2>2, <3>2
  <2>4. CASE l \in InList(call[d].todo)
    <3>1. d = c
      BY <1>2, <2>4
    <3>2. l = h /\ ~Appending(c)
      BY <1>4, <1>5, <1>7, <2>1, <2>4, <3>1 DEF Appending
    <3>3. /\ Len(lists'[On(c)][l]) = Len(lists[On(c)][l]) + Len(More(c, l))
          /\ \A i \in 1..Len(More(c, l)) : lists'[On(c)][l][Len(lists[On(c)][l]) + i] = More(c, l)[i]
          /\ lists[On(c)][l] \in Seq(Tags) /\ lists'[On(c)][l] \in Seq(Tags)
      BY <1>3, <1>6, <2>2, <3>2, StoreGrows
    <3>4. Len(lists[On(c)][l]) + 1 \in DOMAIN lists'[On(c)][l]
          /\ lists'[On(c)][l][Len(lists[On(c)][l]) + 1] = Tag(c)
      BY <1>6, <2>2, <3>2, <3>3
    <3> QED
      BY <3>1, <3>4
  <2> QED
    BY <2>3, <2>4
<1>14. TagsOnce'
  <2> SUFFICES ASSUME Unmixed', NEW d \in Callers, call'[d].op = "Add", NEW l \in Lists
               PROVE  /\ l \in InList(call'[d].todo) =>
                           \A i \in DOMAIN lists'[On(d)][l] : lists'[On(d)][l][i] # Tag(d)
                      /\ \A i, j \in DOMAIN lists'[On(d)][l] :
                           lists'[On(d)][l][i] = Tag(d) /\ lists'[On(d)][l][j] = Tag(d) => i = j
    BY <1>3 DEF TagsOnce, Positions
  <2>0. call[d].op = "Add" /\ Unmixed /\ On(d) \in Results
        /\ InList(call'[d].todo) \subseteq InList(call[d].todo)
    BY <1>2, <1>3, <1>4, <1>5, <1>7, <1>11
  <2>1. /\ l \in InList(call[d].todo) =>
             \A i \in DOMAIN lists[On(d)][l] : lists[On(d)][l][i] # Tag(d)
        /\ \A i, j \in DOMAIN lists[On(d)][l] :
             lists[On(d)][l][i] = Tag(d) /\ lists[On(d)][l][j] = Tag(d) => i = j
    BY <2>0 DEF TagInv, TagsOnce, Positions
  <2>2. CASE Appending(c)
    BY <1>12, <2>0, <2>1, <2>2
  <2>3. ASSUME ~Appending(c), NEW i \in DOMAIN lists'[On(d)][l],
               i \notin DOMAIN lists[On(d)][l], lists'[On(d)][l][i] = Tag(d)
        PROVE  d = c /\ l = h /\ i = Len(lists[On(d)][l]) + 1
    BY <1>3, <1>8, <2>0, <2>3
  <2>4. CASE ~Appending(c)
    <3>1. ASSUME l \in InList(call'[d].todo), NEW i \in DOMAIN lists'[On(d)][l],
                 lists'[On(d)][l][i] = Tag(d)
          PROVE  FALSE
      <4>1. i \notin DOMAIN lists[On(d)][l]
        BY <1>9, <2>0, <2>1, <3>1
      <4>2. d = c /\ l = h
        BY <2>3, <2>4, <3>1, <4>1
      <4> QED
        BY <1>4, <1>5, <2>4, <3>1, <4>2
    <3>2. ASSUME NEW i \in DOMAIN lists'[On(d)][l], NEW j \in DOMAIN lists'[On(d)][l],
                 lists'[On(d)][l][i] = Tag(d), lists'[On(d)][l][j] = Tag(d)
          PROVE  i = j
      <4>1. CASE i \in DOMAIN lists[On(d)][l] /\ j \in DOMAIN lists[On(d)][l]
        BY <1>9, <2>0, <2>1, <3>2, <4>1
      <4>2. CASE i \notin DOMAIN lists[On(d)][l] /\ j \notin DOMAIN lists[On(d)][l]
        BY <2>3, <2>4, <3>2, <4>2
      <4>3. ASSUME NEW m \in DOMAIN lists[On(d)][l], lists'[On(d)][l][m] = Tag(d),
                   NEW n \in DOMAIN lists'[On(d)][l],
                   n \notin DOMAIN lists[On(d)][l], lists'[On(d)][l][n] = Tag(d)
            PROVE  FALSE
        <5>1. d = c /\ l = h
          BY <2>3, <2>4, <4>3
        <5>2. l \in InList(call[d].todo)
          BY <1>5, <5>1
        <5> QED
          BY <1>9, <2>0, <2>1, <4>3, <5>2
      <4> QED
        BY <3>2, <4>1, <4>2, <4>3
    <3> QED
      BY <3>1, <3>2
  <2> QED
    BY <2>2, <2>4
<1> QED
  BY <1>10, <1>13, <1>14 DEF TagInv

LEMMA InitTagInv == Init => TagInv
<1> SUFFICES ASSUME Init PROVE TagInv
  OBVIOUS
<1>1. \A c \in Callers : call[c].op = "Read"
  BY DEF Init, NoCall
<1>2. \A r \in Results, l \in Lists : DOMAIN lists[r][l] = {}
  BY DEF Init, Empty
<1> QED
  BY <1>1, <1>2 DEF TagInv, TagsOld, TagsThere, TagsOnce

LEMMA TagInvStep == LockInv /\ TagInv /\ [Next]_vars => TagInv'
<1> SUFFICES ASSUME LockInv, TagInv, [Next]_vars PROVE TagInv'
  OBVIOUS
<1>1. ASSUME NEW c \in Callers, Announce(c) \/ Acquire(c) \/ LockOther(c) \/ Copy(c) \/ LockShort(c)
      PROVE  TagInv'
  <2>1. UNCHANGED <<lists, calls, call>>
    BY <1>1 DEF Announce, Acquire, LockOther, Copy, LockShort
  <2> QED
    BY <2>1, TagsKept
<1>2. ASSUME NEW c \in Callers, Read(c) PROVE TagInv'
  <2>1. /\ TypeOK /\ at[c] = "read" /\ ~Adds(c) /\ NextSection(c) /\ UNCHANGED lists
    BY <1>2 DEF Read, LockInv, ReaderIn
  <2>2. /\ calls' = calls /\ call'[c].op = call[c].op
        /\ \A d \in Callers \ {c} : call'[d] = call[d]
    BY <2>1, SectionEnds
  <2>3. call[c].op = "Read"
    BY <2>1 DEF TypeOK, Calls, Kinds, Adds
  <2> QED
    BY <2>1, <2>2, <2>3, TagsKept
<1>3. CASE UNCHANGED vars
  BY <1>3, TagsKept DEF vars
<1> QED
  BY <1>1, <1>2, <1>3, TagsBegin, TagsStore DEF Next, Step

(* Whatever AddOutputs, AddFollowupTasks and UnmarshalJSON have added by the *)
(* time they return is in the lists, and once where nothing was appended.  *)
THEOREM AddedStays == Spec => []NothingLost
<1>1. LockInv /\ TagInv => NothingLost
  <2> SUFFICES ASSUME LockInv, TagInv, NEW c \in Callers, at[c] = "idle", call[c].op = "Add",
                      NEW k \in DOMAIN call[c].whole
               PROVE  \E i \in Positions(Tag(c), On(c), call[c].whole[k]) :
                        Unmixed => Positions(Tag(c), On(c), call[c].whole[k]) = {i}
    BY DEF NothingLost, Returned
  <2> DEFINE l == call[c].whole[k]
  <2>1. call[c].whole \in Sections /\ call[c].todo = <<>>
    BY DEF LockInv, TypeOK, Calls
  <2>2. l \in InList(call[c].whole) \ InList(call[c].todo) /\ l \in Lists
    BY <2>1, SectionSets DEF InList
  <2> HIDE DEF l
  <2>3. Positions(Tag(c), On(c), l) # {}
    BY <2>2 DEF TagInv, TagsThere
  <2>4. Unmixed => \A i, j \in Positions(Tag(c), On(c), l) : i = j
    BY <2>2 DEF TagInv, TagsOnce
  <2>5. \E i \in Positions(Tag(c), On(c), l) : Unmixed => Positions(Tag(c), On(c), l) = {i}
    BY <2>3, <2>4
  <2> QED
    BY <2>5 DEF l
<1>2. Spec => []TagInv
  BY InitTagInv, TagInvStep, LocksExclude, PTL DEF Spec
<1> QED
  BY <1>1, <1>2, LocksExclude, PTL
-----------------------------------------------------------------------------
(* What a marshalled result has seen.                                      *)

(* A tag is of its caller's present call, or of one before it.             *)
Born(tag) == tag.number <= call[tag.by].number

BornBefore ==
  /\ \A c \in Callers : call[c].number <= calls
  /\ \A r \in Results, l \in Lists : \A tag \in InList(lists[r][l]) : Born(tag)
  /\ \A c \in Callers : call[c].op = "Read" =>
       \A l \in Lists : \A tag \in InList(local[c][l]) : Born(tag)

(* Append copies: what it adds is where it was added first.                *)
TagsHome ==
  \A r \in Results, l \in Lists : \A tag \in InList(lists[r][l]) :
    tag \in InList(lists[tag.on][l])

OutputsFirst ==
  \A c \in Callers : Len(call[c].whole) = 2 =>
    /\ call[c].whole = <<"outputs", "followups">>
    /\ call[c].todo \in {call[c].whole, <<"followups">>, <<>>}

(* After a call that has read both lists, no followup is added that is      *)
(* older than an output it has seen.                                       *)
Saw(c) ==
  \A output \in InList(local[c]["outputs"]), followup \in InList(lists[On(c)]["followups"]) :
    /\ output.by = followup.by /\ followup.number < output.number
    /\ followup.on = On(c)
    => followup \in InList(local[c]["followups"])

Reader(c) == call[c].op = "Read" /\ Len(call[c].whole) = 2

OrderInv ==
  /\ BornBefore /\ TagsHome /\ OutputsFirst
  /\ \A c \in Callers : at[c] = "idle" /\ Reader(c) => Saw(c)

LEMMA TagsTyped ==
  ASSUME TypeOK
  PROVE  /\ \A r \in Results, l \in Lists : InList(lists[r][l]) \subseteq Tags
         /\ \A c \in Callers, l \in Lists : InList(local[c][l]) \subseteq Tags
<1>1. ASSUME NEW s \in Seq(Tags) PROVE InList(s) \subseteq Tags
  BY DEF InList
<1> QED
  BY <1>1 DEF TypeOK

(* What Store does to the lists, as sets.                                  *)
LEMMA StoreAdds ==
  ASSUME LockInv, NEW c \in Callers, Store(c), NEW r \in Results, NEW l \in Lists
  PROVE  /\ InList(lists[r][l]) \subseteq InList(lists'[r][l])
         /\ \A tag \in InList(lists'[r][l]) \ InList(lists[r][l]) :
              /\ r = On(c) /\ l \in Section(c)
              /\ Appending(c) => tag \in InList(lists[From(c)][l])
              /\ ~Appending(c) => tag = Tag(c)
<1>1. lists[r][l] \in Seq(Tags) /\ lists'[r][l] \in Seq(Tags)
      /\ Len(lists[r][l]) <= Len(lists'[r][l])
      /\ \A i \in 1..Len(lists[r][l]) : lists'[r][l][i] = lists[r][l][i]
  BY StoreGrows
<1>2. InList(lists[r][l]) \subseteq InList(lists'[r][l])
  BY <1>1 DEF InList
<1>3. ASSUME NEW tag \in InList(lists'[r][l]) \ InList(lists[r][l])
      PROVE  /\ r = On(c) /\ l \in Section(c)
             /\ tag \in InList(More(c, l))
  <2>1. r = On(c) /\ l \in Section(c)
    BY <1>3, StoreGrows
  <2>2. /\ Len(lists'[r][l]) = Len(lists[r][l]) + Len(More(c, l))
        /\ \A i \in 1..Len(More(c, l)) : lists'[r][l][Len(lists[r][l]) + i] = More(c, l)[i]
    BY <2>1, StoreGrows
  <2>3. More(c, l) \in Seq(Tags)
    BY MoreTyped DEF LockInv
  <2> HIDE DEF More
  <2>4. PICK i \in 1..Len(lists'[r][l]) : tag = lists'[r][l][i]
    BY <1>1, <1>3 DEF InList
  <2>5. i \notin 1..Len(lists[r][l])
    BY <1>1, <1>3, <2>4 DEF InList
  <2> DEFINE k == i - Len(lists[r][l])
  <2>6. k \in 1..Len(More(c, l)) /\ i = Len(lists[r][l]) + k
    BY <1>1, <2>2, <2>3, <2>5
  <2>7. tag = More(c, l)[k]
    BY <2>2, <2>4, <2>6
  <2>8. k \in DOMAIN More(c, l)
    BY <2>3, <2>6
  <2> QED
    BY <2>1, <2>7, <2>8 DEF InList
<1>4. Appending(c) => More(c, l) = lists[From(c)][l]
  BY DEF More
<1>5. ~Appending(c) => InList(More(c, l)) = {Tag(c)}
  BY DEF More, InList
<1> QED
  BY <1>2, <1>3, <1>4, <1>5

LEMMA InitOrderInv == Init => OrderInv
<1> SUFFICES ASSUME Init PROVE OrderInv
  OBVIOUS
<1>1. \A r \in Results, l \in Lists : InList(lists[r][l]) = {}
  BY DEF Init, Empty, InList
<1>2. \A c \in Callers, l \in Lists : InList(local[c][l]) = {}
  BY DEF Init, Empty, InList
<1>3. \A c \in Callers : /\ call[c].number = 0 /\ call[c].whole = <<"outputs">>
                         /\ Len(call[c].whole) = 1
  BY DEF Init, NoCall
<1>4. calls = 0
  BY DEF Init
<1>5. BornBefore
  <2>1. \A c \in Callers : call[c].number <= calls
    BY <1>3, <1>4
  <2> QED
    BY <1>1, <1>2, <2>1 DEF BornBefore
<1>6. TagsHome
  BY <1>1 DEF TagsHome
<1>7. \A c \in Callers : Len(call[c].whole) # 2
  BY <1>3
<1> QED
  BY <1>5, <1>6, <1>7 DEF OrderInv, OutputsFirst, Reader

(* A step inside of a call that neither reads nor stores.                  *)
LEMMA OrderKept ==
  ASSUME OrderInv, UNCHANGED <<lists, call, calls>>,
         \A d \in Callers : call[d].op = "Read" => local'[d] = local[d],
         \A d \in Callers : at'[d] = "idle" => at[d] = "idle"
  PROVE  OrderInv'
<1>1. BornBefore'
  BY DEF OrderInv, BornBefore, Born
<1>2. TagsHome' /\ OutputsFirst'
  BY DEF OrderInv, TagsHome, OutputsFirst
<1>3. ASSUME NEW d \in Callers, at'[d] = "idle" /\ Reader(d)'
      PROVE  Saw(d)'
  <2>1. Reader(d) /\ Saw(d) /\ local'[d] = local[d]
    BY <1>3 DEF OrderInv, Reader
  <2> QED
    BY <2>1 DEF Saw, On
<1> QED
  BY <1>1, <1>2, <1>3 DEF OrderInv

(* The calls of a caller have growing numbers.                             *)
LEMMA BornKept ==
  ASSUME TypeOK, call' \in [Callers -> Calls],
         \A d \in Callers : call[d].number <= call'[d].number,
         NEW tag \in Tags, Born(tag)
  PROVE  Born(tag)'
<1>1. tag.by \in Callers /\ tag.number \in Nat
  BY DEF Tags
<1>2. call[tag.by].number \in Nat /\ call'[tag.by].number \in Nat
  BY <1>1 DEF TypeOK, Calls
<1> QED
  BY <1>1, <1>2 DEF Born

LEMMA OrderBegin ==
  ASSUME LockInv, OrderInv, NEW c \in Callers, Begin(c)
  PROVE  OrderInv'
<1>1. calls' = calls + 1 /\ UNCHANGED lists /\ calls \in Nat /\ TypeOK /\ TypeOK'
      /\ call \in [Callers -> Calls] /\ call' \in [Callers -> Calls]
  BY BeginStep DEF Begin, LockInv, TypeOK
<1>2. \A d \in Callers \ {c} : call'[d] = call[d] /\ local'[d] = local[d] /\ at'[d] = at[d]
  BY DEF Begin, LockInv, TypeOK
<1>3. \/ call'[c] = call[c] /\ local'[c] = local[c] /\ at'[c] = at[c]
      \/ /\ call'[c].number = calls /\ call'[c].todo = call'[c].whole
         /\ local'[c] = Empty /\ at'[c] = "lock"
  <2>1. CASE UNCHANGED <<at, call, local>>
    BY <2>1
  <2>2. CASE /\ \E op \in Kinds, r, other \in Results \cup {Nobody} :
                  \E whole \in IF op = "Append" THEN {<<"outputs", "followups">>} ELSE Sections :
                    call' = [call EXCEPT ![c] = [op |-> op, on |-> r, from |-> other, whole |-> whole,
                                                 todo |-> whole, number |-> calls]]
             /\ at' = [at EXCEPT ![c] = "lock"]
             /\ local' = [local EXCEPT ![c] = Empty]
    BY <1>1, <2>2 DEF TypeOK
  <2> QED
    BY <2>1, <2>2 DEF Begin
<1>4. \A d \in Callers : call[d].number <= call'[d].number /\ call'[d].number <= calls'
  <2>1. \A d \in Callers : call[d].number \in Nat /\ call[d].number <= calls
    BY <1>1 DEF Calls, OrderInv, BornBefore
  <2> QED
    BY <1>1, <1>2, <1>3, <2>1
<1>5. BornBefore'
  <2>1. ASSUME NEW r \in Results, NEW l \in Lists, NEW tag \in InList(lists'[r][l])
        PROVE  Born(tag)'
    <3>1. tag \in Tags /\ Born(tag)
      BY <1>1, <2>1, TagsTyped DEF OrderInv, BornBefore
    <3> QED
      BY <1>1, <1>4, <3>1, BornKept
  <2>2. ASSUME NEW d \in Callers, call'[d].op = "Read", NEW l \in Lists,
               NEW tag \in InList(local'[d][l])
        PROVE  Born(tag)'
    <3>1. InList(Empty[l]) = {}
      BY DEF Empty, InList
    <3>2. call'[d] = call[d] /\ local'[d] = local[d]
      BY <1>2, <1>3, <2>2, <3>1
    <3>3. tag \in Tags /\ Born(tag)
      BY <1>1, <2>2, <3>2, TagsTyped DEF OrderInv, BornBefore
    <3> QED
      BY <1>1, <1>4, <3>3, BornKept
  <2> QED
    BY <1>4, <2>1, <2>2 DEF BornBefore
<1>6. TagsHome'
  BY <1>1 DEF OrderInv, TagsHome
<1>7. OutputsFirst'
  <2> SUFFICES ASSUME NEW d \in Callers, Len(call'[d].whole) = 2
               PROVE  /\ call'[d].whole = <<"outputs", "followups">>
                      /\ call'[d].todo \in {call'[d].whole, <<"followups">>, <<>>}
    BY DEF OutputsFirst
  <2>1. call'[d].whole \in Sections
    BY <1>1 DEF Calls
  <2>2. call'[d].whole = <<"outputs", "followups">>
    BY <2>1 DEF Sections
  <2>3. CASE call'[d] = call[d]
    BY <2>2, <2>3 DEF OrderInv, OutputsFirst
  <2>4. CASE call'[d].todo = call'[d].whole
    BY <2>2, <2>4
  <2> QED
    BY <1>2, <1>3, <2>3, <2>4
<1>8. ASSUME NEW d \in Callers, at'[d] = "idle" /\ Reader(d)'
      PROVE  Saw(d)'
  <2>1. call'[d] = call[d] /\ local'[d] = local[d] /\ at'[d] = at[d]
    BY <1>2, <1>3, <1>8
  <2>2. Saw(d)
    BY <1>8, <2>1 DEF OrderInv, Reader
  <2> QED
    BY <1>1, <2>1, <2>2 DEF Saw, On
<1> QED
  BY <1>5, <1>6, <1>7, <1>8 DEF OrderInv

(* A section ends, and the two of a call come in their order.              *)
LEMMA OrderSection ==
  ASSUME TypeOK, OutputsFirst, NEW c \in Callers, at[c] # "idle", NextSection(c)
  PROVE  OutputsFirst'
<1>1. /\ call' \in [Callers -> Calls] /\ \A d \in Callers \ {c} : call'[d] = call[d]
  BY SectionEnds
<1>2. call[c].todo \in Sections /\ call'[c].whole = call[c].whole
      /\ call'[c].todo = IF Appending(c) THEN <<>> ELSE Tail(call[c].todo)
  BY DEF NextSection, TypeOK, Calls
<1>3. ASSUME Len(call[c].whole) = 2
      PROVE  /\ call[c].whole = <<"outputs", "followups">>
             /\ call'[c].todo \in {call[c].whole, <<"followups">>, <<>>}
  <2>1. /\ call[c].whole = <<"outputs", "followups">>
        /\ call[c].todo \in {call[c].whole, <<"followups">>, <<>>}
    BY <1>3 DEF OutputsFirst
  <2>2. <<>> \notin Sections
    BY SectionsTyped
  <2>3. /\ Tail(<<"outputs", "followups">>) = <<"followups">>
        /\ Tail(<<"followups">>) = <<>>
    <3>1. "outputs" \in Lists /\ "followups" \in Lists
      BY DEF Lists
    <3> QED
      BY <3>1, ShortLists, Zenon
  <2> QED
    BY <1>2, <2>1, <2>2, <2>3
<1> QED
  BY <1>1, <1>2, <1>3 DEF OutputsFirst

LEMMA OrderRead ==
  ASSUME LockInv, OrderInv, NEW c \in Callers, Read(c)
  PROVE  OrderInv'
<1>1. /\ TypeOK /\ at[c] = "read" /\ call[c].op = "Read" /\ NextSection(c) /\ UNCHANGED lists
      /\ On(c) \in Results
  BY DEF Read, LockInv, ReaderIn, TypeOK, Calls, Kinds, Adds, On
<1>2. /\ call' \in [Callers -> Calls] /\ calls' = calls
      /\ \A d \in Callers \ {c} : call'[d] = call[d] /\ at'[d] = at[d]
      /\ call'[c].op = call[c].op /\ call'[c].on = call[c].on /\ call'[c].number = call[c].number
      /\ (at'[c] = "idle") <=> (call'[c].todo = <<>>)
  BY <1>1, SectionEnds
<1>3. /\ \A d \in Callers \ {c} : local'[d] = local[d]
      /\ \A l \in Lists : local'[c][l] = IF l \in Section(c) THEN lists[On(c)][l] ELSE local[c][l]
  BY <1>1 DEF Read, TypeOK
<1>4. Section(c) = {Head(call[c].todo)} /\ call'[c].todo = Tail(call[c].todo)
      /\ call[c].todo \in Sections /\ call'[c].whole = call[c].whole
  BY <1>1 DEF Section, Appending, NextSection, TypeOK, Calls
<1>5. \A d \in Callers : call'[d].number = call[d].number /\ call'[d].op = call[d].op
      /\ call'[d].on = call[d].on /\ call'[d].number \in Nat
  BY <1>2 DEF Calls
<1>6. \A tag \in Tags : Born(tag) => Born(tag)'
  BY <1>5 DEF Born, Tags
<1>7. BornBefore'
  <2>1. ASSUME NEW r \in Results, NEW l \in Lists, NEW tag \in InList(lists'[r][l])
        PROVE  Born(tag)'
    BY <1>1, <1>6, <2>1, TagsTyped DEF OrderInv, BornBefore
  <2>2. ASSUME NEW d \in Callers, call'[d].op = "Read", NEW l \in Lists,
               NEW tag \in InList(local'[d][l])
        PROVE  Born(tag)'
    <3>1. CASE local'[d][l] = local[d][l]
      BY <1>1, <1>5, <1>6, <2>2, <3>1, TagsTyped DEF OrderInv, BornBefore
    <3>2. CASE local'[d][l] = lists[On(c)][l]
      BY <1>1, <1>6, <2>2, <3>2, TagsTyped DEF OrderInv, BornBefore
    <3> QED
      BY <1>3, <3>1, <3>2
  <2>3. \A d \in Callers : call'[d].number <= calls'
    BY <1>2, <1>5 DEF OrderInv, BornBefore
  <2> QED
    BY <2>1, <2>2, <2>3 DEF BornBefore
<1>8. TagsHome'
  BY <1>1 DEF OrderInv, TagsHome
<1>9. OutputsFirst'
  BY <1>1, OrderSection DEF OrderInv
<1>10. ASSUME NEW d \in Callers, at'[d] = "idle" /\ Reader(d)'
       PROVE  Saw(d)'
  <2>1. CASE d # c
    <3>1. Saw(d) /\ local'[d] = local[d] /\ call'[d] = call[d]
      BY <1>2, <1>3, <1>10, <2>1 DEF OrderInv, Reader
    <3> QED
      BY <1>1, <3>1 DEF Saw, On
  <2>2. CASE d = c
    <3>1. Len(call[c].whole) = 2 /\ Tail(call[c].todo) = <<>>
      BY <1>2, <1>4, <1>10, <2>2 DEF Reader
    <3>2. call[c].todo \in {<<"outputs", "followups">>, <<"followups">>, <<>>}
      BY <3>1 DEF OrderInv, OutputsFirst
    <3>3. /\ Tail(<<"outputs", "followups">>) = <<"followups">> /\ <<"followups">> # <<>>
          /\ Head(<<"followups">>) = "followups"
      <4>1. "outputs" \in Lists /\ "followups" \in Lists
        BY DEF Lists
      <4> QED
        BY <4>1, ShortLists, Zenon
    <3>4. Head(call[c].todo) = "followups"
      BY <1>4, <3>1, <3>2, <3>3, SectionsTyped
    <3>5. local'[c]["followups"] = lists[On(c)]["followups"]
      BY <1>3, <1>4, <3>4 DEF Lists
    <3> QED
      BY <1>1, <1>5, <2>2, <3>5 DEF Saw, On
  <2> QED
    BY <2>1, <2>2
<1> QED
  BY <1>7, <1>8, <1>9, <1>10 DEF OrderInv

LEMMA OrderStore ==
  ASSUME LockInv, OrderInv, NEW c \in Callers, Store(c)
  PROVE  OrderInv'
<1>1. /\ TypeOK /\ TypeOK' /\ at[c] = "store" /\ NextSection(c) /\ UNCHANGED local
      /\ Adds(c) /\ On(c) \in Results
  BY StoreStep DEF Store, LockInv, LockOwned, TypeOK, Calls, On
<1>2. /\ call' \in [Callers -> Calls] /\ calls' = calls
      /\ \A d \in Callers \ {c} : call'[d] = call[d] /\ at'[d] = at[d]
      /\ call'[c].op = call[c].op /\ call'[c].on = call[c].on /\ call'[c].number = call[c].number
  BY <1>1, SectionEnds
<1>3. \A d \in Callers : call'[d].number = call[d].number /\ call'[d].op = call[d].op
      /\ call'[d].on = call[d].on /\ call'[d].number \in Nat
  BY <1>2 DEF Calls
<1>4. \A tag \in Tags : Born(tag) => Born(tag)'
  BY <1>3 DEF Born, Tags
<1>5. Appending(c) => From(c) \in Results
  BY <1>1 DEF TypeOK
<1>6. Tag(c) \in Tags /\ Tag(c).by = c /\ Tag(c).on = On(c) /\ Tag(c).number = call[c].number
  BY <1>1, TagTyped DEF Tag
<1>7. ASSUME NEW tag, tag = Tag(c) PROVE Born(tag)'
  <2>1. tag.by = c /\ tag.number = call[c].number
    BY <1>6, <1>7
  <2> QED
    BY <1>3, <2>1 DEF Born
<1>8. BornBefore'
  <2>1. ASSUME NEW r \in Results, NEW l \in Lists, NEW tag \in InList(lists'[r][l])
        PROVE  Born(tag)'
    <3>1. CASE tag \in InList(lists[r][l])
      BY <1>1, <1>4, <3>1, TagsTyped DEF OrderInv, BornBefore
    <3>2. CASE tag \notin InList(lists[r][l]) /\ Appending(c)
      <4>1. tag \in InList(lists[From(c)][l])
        BY <2>1, <3>2, StoreAdds
      <4> QED
        BY <1>1, <1>4, <1>5, <3>2, <4>1, TagsTyped DEF OrderInv, BornBefore
    <3>3. CASE tag \notin InList(lists[r][l]) /\ ~Appending(c)
      BY <1>7, <2>1, <3>3, StoreAdds
    <3> QED
      BY <3>1, <3>2, <3>3
  <2>2. ASSUME NEW d \in Callers, call'[d].op = "Read", NEW l \in Lists,
               NEW tag \in InList(local'[d][l])
        PROVE  Born(tag)'
    BY <1>1, <1>3, <1>4, <2>2, TagsTyped DEF OrderInv, BornBefore
  <2>3. \A d \in Callers : call'[d].number <= calls'
    BY <1>2, <1>3 DEF OrderInv, BornBefore
  <2> QED
    BY <2>1, <2>2, <2>3 DEF BornBefore
<1>9. TagsHome'
  <2> SUFFICES ASSUME NEW r \in Results, NEW l \in Lists, NEW tag \in InList(lists'[r][l])
               PROVE  tag \in InList(lists'[tag.on][l])
    BY DEF TagsHome
  <2>1. ASSUME NEW s \in Results, tag \in InList(lists[s][l])
        PROVE  tag \in InList(lists'[tag.on][l])
    <3>1. tag \in InList(lists[tag.on][l]) /\ tag.on \in Results
      BY <1>1, <2>1, TagsTyped DEF OrderInv, TagsHome, Tags
    <3> QED
      BY <3>1, StoreAdds
  <2>2. CASE tag \notin InList(lists[r][l]) /\ Appending(c)
    <3>1. tag \in InList(lists[From(c)][l])
      BY <2>2, StoreAdds
    <3> QED
      BY <1>5, <2>1, <2>2, <3>1
  <2>3. CASE tag \notin InList(lists[r][l]) /\ ~Appending(c)
    BY <1>6, <2>3, StoreAdds
  <2> QED
    BY <2>1, <2>2, <2>3
<1>10. OutputsFirst'
  BY <1>1, OrderSection DEF OrderInv
<1>11. ASSUME NEW d \in Callers, at'[d] = "idle" /\ Reader(d)'
       PROVE  Saw(d)'
  <2>1. d # c /\ call'[d] = call[d] /\ On(d) \in Results
    BY <1>1, <1>2, <1>3, <1>11 DEF Reader, Adds, TypeOK, Calls, On
  <2>2. Saw(d) /\ call[d].op = "Read"
    BY <1>2, <1>11, <2>1 DEF OrderInv, Reader
  <2> SUFFICES ASSUME NEW output \in InList(local[d]["outputs"]),
                      NEW followup \in InList(lists'[On(d)]["followups"]),
                      output.by = followup.by, followup.number < output.number,
                      followup.on = On(d)
               PROVE  followup \in InList(local[d]["followups"])
    BY <1>1, <2>1 DEF Saw, On
  <2>3. "outputs" \in Lists /\ "followups" \in Lists
    BY DEF Lists
  <2>4. followup \in InList(lists[On(d)]["followups"])
    <3>1. CASE Appending(c) /\ followup \notin InList(lists[On(d)]["followups"])
      <4>1. followup \in InList(lists[From(c)]["followups"])
        BY <2>1, <2>3, <3>1, StoreAdds
      <4> QED
        BY <1>5, <2>3, <3>1, <4>1 DEF OrderInv, TagsHome
    <3>2. CASE ~Appending(c) /\ followup \notin InList(lists[On(d)]["followups"])
      <4>1. followup = Tag(c)
        BY <2>1, <2>3, <3>2, StoreAdds
      <4>2. output.by = c /\ call[c].number < output.number
        BY <1>6, <4>1
      <4>3. Born(output) /\ output \in Tags
        BY <1>1, <2>2, <2>3, TagsTyped DEF OrderInv, BornBefore
      <4>4. output.number <= call[c].number /\ output.number \in Nat /\ call[c].number \in Nat
        BY <1>3, <4>2, <4>3 DEF Born, Tags
      <4> QED
        BY <4>2, <4>4
    <3> QED
      BY <3>1, <3>2
  <2> QED
    BY <2>2, <2>4 DEF Saw
<1> QED
  BY <1>8, <1>9, <1>10, <1>11 DEF OrderInv

LEMMA OrderInvStep == LockInv /\ OrderInv /\ [Next]_vars => OrderInv'
<1> SUFFICES ASSUME LockInv, OrderInv, [Next]_vars PROVE OrderInv'
  OBVIOUS
<1>1. ASSUME NEW c \in Callers, Announce(c) \/ Acquire(c) \/ LockOther(c) \/ LockShort(c)
      PROVE  OrderInv'
  <2>1. UNCHANGED <<lists, call, calls, local>>
    BY <1>1 DEF Announce, Acquire, LockOther, LockShort
  <2>2. \A d \in Callers : at'[d] = "idle" => at[d] = "idle"
    BY <1>1 DEF Announce, Acquire, LockOther, LockShort, LockInv, TypeOK
  <2> QED
    BY <2>1, <2>2, OrderKept
<1>2. ASSUME NEW c \in Callers, Copy(c) PROVE OrderInv'
  <2>1. /\ UNCHANGED <<lists, call, calls>> /\ call[c].op # "Read"
        /\ \A d \in Callers \ {c} : local'[d] = local[d]
    BY <1>2 DEF Copy, LockInv, LockOwned, TypeOK, Adds
  <2>2. \A d \in Callers : at'[d] = "idle" => at[d] = "idle"
    BY <1>2 DEF Copy, LockInv, TypeOK
  <2> QED
    BY <2>1, <2>2, OrderKept
<1>3. CASE UNCHANGED vars
  BY <1>3, OrderKept DEF vars
<1> QED
  BY <1>1, <1>2, <1>3, OrderBegin, OrderRead, OrderStore DEF Next, Step

(* A marshalled result that has an output also has the followups that its   *)
(* caller added before it: outputs are read first, and what is added later *)
(* has a later number.                                                     *)
THEOREM OutputsAfterFollowups == Spec => []SeenInOrder
<1>1. LockInv /\ OrderInv => SeenInOrder
  <2> SUFFICES ASSUME LockInv, OrderInv,
                      NEW c \in Callers, at[c] = "idle", Reader(c),
                      NEW i \in DOMAIN local[c]["outputs"],
                      NEW j \in DOMAIN lists[On(c)]["followups"],
                      local[c]["outputs"][i].by = lists[On(c)]["followups"][j].by,
                      lists[On(c)]["followups"][j].number < local[c]["outputs"][i].number,
                      lists[On(c)]["followups"][j].on = On(c)
               PROVE  \E k \in DOMAIN local[c]["followups"] :
                        local[c]["followups"][k] = lists[On(c)]["followups"][j]
    BY DEF SeenInOrder, Returned, Reader
  <2>1. Saw(c)
    BY DEF OrderInv
  <2>2. /\ local[c]["outputs"][i] \in InList(local[c]["outputs"])
        /\ lists[On(c)]["followups"][j] \in InList(lists[On(c)]["followups"])
    BY DEF InList
  <2>3. lists[On(c)]["followups"][j] \in InList(local[c]["followups"])
    BY <2>1, <2>2 DEF Saw
  <2> QED
    BY <2>3 DEF InList
<1>2. Spec => []OrderInv
  BY InitOrderInv, OrderInvStep, LocksExclude, PTL DEF Spec
<1> QED
  BY <1>1, <1>2, LocksExclude, PTL
-----------------------------------------------------------------------------
(* What keeps calls from returning.                                        *)

(* Nobody keeps a lock that it does not need: who has one is in a section,  *)
(* or waits for its next lock.                                             *)
WriterHolds ==
  \A r \in Results : writer[r] # Nobody =>
    at[writer[r]] \in {"drain", "rlock", "copy", "store"} /\ On(writer[r]) = r

ReaderHolds ==
  \A r \in Results : \A d \in readers[r] :
    \/ at[d] = "read" /\ On(d) = r
    \/ at[d] \in {"copy", "store"} /\ Appending(d) /\ From(d) = r

HoldInv == WriterHolds /\ ReaderHolds

(* How a step of a caller changes the locks.                               *)
HoldFrame(c) ==
  /\ \A d \in Callers \ {c} :
       at'[d] = at[d] /\ call'[d] = call[d]
  /\ \A r \in Results :
       \/ writer'[r] = writer[r] /\ (writer[r] = c => at'[c] \in {"drain", "rlock", "copy", "store"}
                                                      /\ call'[c].on = r)
       \/ writer'[r] = Nobody
       \/ writer'[r] = c /\ at'[c] = "drain" /\ call'[c].on = r
  /\ \A r \in Results : readers'[r] \ {c} \subseteq readers[r]
  /\ \A r \in Results : c \in readers'[r] =>
       \/ at'[c] = "read" /\ call'[c].on = r
       \/ at'[c] \in {"copy", "store"} /\ call'[c].op = "Append" /\ call'[c].from = r

LEMMA HoldKept ==
  ASSUME TypeOK, HoldInv, NEW c \in Callers, HoldFrame(c)
  PROVE  HoldInv'
<1>1. ASSUME NEW r \in Results, writer'[r] # Nobody
      PROVE  at'[writer'[r]] \in {"drain", "rlock", "copy", "store"} /\ call'[writer'[r]].on = r
  <2>1. CASE writer'[r] = c
    BY <1>1, <2>1 DEF HoldFrame
  <2>2. CASE writer'[r] # c
    <3>1. writer'[r] = writer[r] /\ writer[r] \in Callers \ {c}
      BY <1>1, <2>2 DEF HoldFrame, TypeOK
    <3> QED
      BY <1>1, <3>1 DEF HoldFrame, HoldInv, WriterHolds, On
  <2> QED
    BY <2>1, <2>2
<1>2. ASSUME NEW r \in Results, NEW d \in readers'[r]
      PROVE  \/ at'[d] = "read" /\ call'[d].on = r
             \/ at'[d] \in {"copy", "store"} /\ call'[d].op = "Append" /\ call'[d].from = r
  <2>1. CASE d = c
    BY <2>1 DEF HoldFrame
  <2>2. CASE d # c
    <3>1. d \in readers[r] /\ d \in Callers \ {c}
      BY <2>2 DEF HoldFrame, TypeOK
    <3> QED
      BY <3>1 DEF HoldFrame, HoldInv, ReaderHolds, On, From, Appending
  <2> QED
    BY <2>1, <2>2
<1> QED
  BY <1>1, <1>2 DEF HoldInv, WriterHolds, ReaderHolds, On, From, Appending

(* A caller that holds nothing at its place in the code has no lock.       *)
LEMMA HoldsNothing ==
  ASSUME TypeOK, HoldInv, NEW c \in Callers
  PROVE  /\ at[c] \in {"idle", "lock", "read"} => \A r \in Results : writer[r] # c
         /\ at[c] \in {"idle", "lock", "drain", "rlock"} => \A r \in Results : c \notin readers[r]
         /\ at[c] = "read" => \A r \in Results : c \in readers[r] => r = On(c)
         /\ \A r \in Results : writer[r] = c => r = On(c)
<1>1. c # Nobody /\ HoldInv
  BY ResultAssumption
<1>2. at[c] \in {"idle", "lock", "read"} => \A r \in Results : writer[r] # c
  BY <1>1 DEF HoldInv, WriterHolds
<1>3. at[c] \in {"idle", "lock", "drain", "rlock"} => \A r \in Results : c \notin readers[r]
  BY <1>1 DEF HoldInv, ReaderHolds
<1>4. at[c] = "read" => \A r \in Results : c \in readers[r] => r = On(c)
  BY <1>1 DEF HoldInv, ReaderHolds
<1>5. \A r \in Results : writer[r] = c => r = On(c)
  BY <1>1 DEF HoldInv, WriterHolds
<1> QED
  BY <1>2, <1>3, <1>4, <1>5

LEMMA InitHoldInv == Init => HoldInv
BY DEF Init, HoldInv, WriterHolds, ReaderHolds

LEMMA HoldStep ==
  ASSUME LockInv, HoldInv, NEW c \in Callers, Begin(c) \/ Step(c)
  PROVE  HoldInv'
<1>1. TypeOK /\ On(c) \in Results /\ c # Nobody
  BY ResultAssumption DEF LockInv, TypeOK, Calls, On
<1> SUFFICES HoldFrame(c)
  BY <1>1, HoldKept
<1> USE DEF On, From, Appending
<1>2. CASE Begin(c)
  <2>1. at[c] = "idle" /\ UNCHANGED <<writer, readers>>
    BY <1>2 DEF Begin
  <2>2. \A d \in Callers \ {c} : at'[d] = at[d] /\ call'[d] = call[d]
    BY <1>1, <1>2 DEF Begin, TypeOK
  <2> QED
    BY <1>1, <2>1, <2>2, HoldsNothing DEF HoldFrame
<1>3. CASE Announce(c)
  BY <1>1, <1>3, HoldsNothing DEF Announce, HoldFrame, TypeOK
<1>4. CASE Acquire(c)
  BY <1>1, <1>4, HoldsNothing DEF Acquire, HoldFrame, TypeOK
<1>5. CASE LockOther(c)
  <2>1. Appending(c) /\ From(c) \in Results
    BY <1>1, <1>5 DEF LockOther, LockInv, SourceRead, TypeOK
  <2> QED
    BY <1>1, <1>5, <2>1, HoldsNothing DEF LockOther, HoldFrame, TypeOK
<1>6. CASE Copy(c)
  BY <1>1, <1>6, HoldsNothing DEF Copy, HoldFrame, HoldInv, ReaderHolds, TypeOK
<1>7. CASE Store(c)
  <2>1. /\ \A d \in Callers \ {c} : at'[d] = at[d] /\ call'[d] = call[d]
        /\ writer' = [writer EXCEPT ![On(c)] = Nobody]
        /\ readers' = [r \in Results |-> readers[r] \ {c}]
    BY <1>1, <1>7 DEF Store, NextSection, TypeOK
  <2> QED
    BY <1>1, <2>1, HoldsNothing DEF HoldFrame, TypeOK
<1>8. CASE LockShort(c)
  BY <1>1, <1>8, HoldsNothing DEF LockShort, HoldFrame, TypeOK
<1>9. CASE Read(c)
  <2>1. /\ \A d \in Callers \ {c} : at'[d] = at[d] /\ call'[d] = call[d]
        /\ readers' = [readers EXCEPT ![On(c)] = @ \ {c}] /\ writer' = writer /\ at[c] = "read"
    BY <1>1, <1>9 DEF Read, NextSection, TypeOK
  <2> QED
    BY <1>1, <2>1, HoldsNothing DEF HoldFrame, TypeOK
<1> QED
  BY <1>2, <1>3, <1>4, <1>5, <1>6, <1>7, <1>8, <1>9 DEF Step

LEMMA HoldInvCorrect == Spec => []HoldInv
<1>1. LockInv /\ HoldInv /\ [Next]_vars => HoldInv'
  <2>1. UNCHANGED vars /\ HoldInv => HoldInv'
    BY DEF vars, HoldInv, WriterHolds, ReaderHolds, On, From, Appending
  <2> QED
    BY <2>1, HoldStep DEF Next
<1> QED
  BY <1>1, InitHoldInv, LocksExclude, PTL DEF Spec

(* The next step of a call is not kept waiting by a lock.                  *)
CanStep(c) ==
  \/ at[c] = "lock" /\ writer[On(c)] = Nobody
  \/ at[c] = "drain" /\ readers[On(c)] = {}
  \/ at[c] = "rlock" /\ writer[From(c)] = Nobody
  \/ at[c] \in {"copy", "store", "read"}

StuckMeansDeadlock ==
  (\E c \in Callers : at[c] # "idle") => (\E c \in Callers : CanStep(c)) \/ Deadlocked

(* As long as there are calls one of them can go on, but for results that   *)
(* are appended to each other: neither readers that writers keep out, nor  *)
(* a writer that waits for readers, make callers wait for one another.     *)
THEOREM StuckOnlyByAppends == Spec => []StuckMeansDeadlock
<1> DEFINE S == {c \in Callers : at[c] = "rlock"}
<1>1. LockInv /\ HoldInv => StuckMeansDeadlock
  <2> SUFFICES ASSUME LockInv, HoldInv, NEW c \in Callers, at[c] # "idle",
                      \A d \in Callers : ~CanStep(d)
               PROVE  InCycle(S)
    BY DEF StuckMeansDeadlock, Deadlocked
  <2>1. TypeOK
    BY DEF LockInv
  <2>2. \A d \in Callers : at[d] \in {"idle", "lock", "drain", "rlock"}
    BY <2>1 DEF CanStep, TypeOK, Stages
  <2>3. \A r \in Results : readers[r] = {}
    BY <2>1, <2>2 DEF HoldInv, ReaderHolds, TypeOK
  <2>4. ASSUME NEW d \in Callers
        PROVE  at[d] # "drain" /\ On(d) \in Results
    <3>1. On(d) \in Results
      BY <2>1 DEF TypeOK, Calls, On
    <3> QED
      BY <2>3, <3>1 DEF CanStep
  <2>5. ASSUME NEW r \in Results, writer[r] # Nobody
        PROVE  writer[r] \in S /\ On(writer[r]) = r
    <3>1. writer[r] \in Callers
      BY <2>1, <2>5 DEF TypeOK
    <3> QED
      BY <2>2, <2>4, <2>5, <3>1 DEF HoldInv, WriterHolds
  <2>6. ASSUME NEW d \in S
        PROVE  writer[From(d)] \in S /\ writer[From(d)] # d
    <3>1. Appending(d) /\ From(d) \in Results \ {On(d)}
      BY <2>1 DEF LockInv, SourceRead, TypeOK
    <3>2. writer[From(d)] # Nobody
      BY DEF CanStep
    <3> QED
      BY <2>5, <3>1, <3>2
  <2>7. PICK d : d \in S
    <3>1. CASE at[c] = "rlock"
      BY <3>1
    <3>2. CASE at[c] = "lock"
      <4>1. writer[On(c)] # Nobody
        BY <3>2 DEF CanStep
      <4> QED
        BY <2>4, <2>5, <4>1
    <3> QED
      BY <2>2, <2>4, <3>1, <3>2
  <2>8. Cardinality(S) > 1
    <3>1. {d, writer[From(d)]} \subseteq S /\ d # writer[From(d)]
      BY <2>6, <2>7
    <3>2. IsFiniteSet(S)
      BY ResultAssumption, FS_Subset
    <3>3. Cardinality({d, writer[From(d)]}) = 2
      <4>1. IsFiniteSet({d}) /\ Cardinality({d}) = 1
        BY FS_Singleton
      <4>2. Cardinality({d} \cup {writer[From(d)]}) = Cardinality({d}) + 1
        BY <3>1, <4>1, FS_AddElement, Zenon
      <4>3. {d} \cup {writer[From(d)]} = {d, writer[From(d)]}
        OBVIOUS
      <4> QED
        BY <4>1, <4>2, <4>3
    <3>4. Cardinality({d, writer[From(d)]}) <= Cardinality(S) /\ Cardinality(S) \in Nat
      BY <3>1, <3>2, FS_Subset, FS_CardinalityType
    <3> QED
      BY <3>3, <3>4
  <2> QED
    BY <2>6, <2>8 DEF InCycle
<1> QED
  BY <1>1, LocksExclude, HoldInvCorrect, PTL

(* Calls that wait for one another do so for ever.                         *)
THEOREM DeadlockIsForever == Spec => [](Deadlocked => []Deadlocked)
<1>1. ASSUME LockInv, Deadlocked, [Next]_vars
      PROVE  Deadlocked'
  <2>1. PICK S \in SUBSET Callers : InCycle(S)
    BY <1>1 DEF Deadlocked
  <2>2. ASSUME NEW c \in S
        PROVE  c \in Callers /\ at[c] = "rlock" /\ From(c) \in Results /\ writer[From(c)] \in S
    <3>1. at[c] = "rlock" /\ writer[From(c)] \in S
      BY <2>1 DEF InCycle
    <3>2. From(c) \in Results
      BY <1>1, <3>1 DEF LockInv, SourceRead, TypeOK
    <3> QED
      BY <3>1, <3>2
  <2>3. CASE UNCHANGED vars
    BY <2>1, <2>3 DEF vars, InCycle, Deadlocked, From
  <2>4. ASSUME NEW d \in Callers, Begin(d) \/ Step(d)
        PROVE  InCycle(S)'
    <3>1. d \notin S
      <4>1. ASSUME d \in S PROVE FALSE
        <5>1. at[d] = "rlock" /\ writer[From(d)] # Nobody
          BY <2>2, <4>1, ResultAssumption
        <5> QED
          BY <2>4, <5>1 DEF Begin, Step, Announce, Acquire, LockOther, Copy, Store, LockShort, Read
      <4> QED
        BY <4>1
    <3>2. \A c \in Callers \ {d} : at'[c] = at[c] /\ call'[c] = call[c]
      BY <1>1, <2>4
      DEF Begin, Step, Announce, Acquire, LockOther, Copy, Store, LockShort, Read, NextSection,
          LockInv, TypeOK
    <3>3. ASSUME NEW c \in S PROVE writer'[From(c)] = writer[From(c)]
      <4>1. From(c) \in Results /\ writer[From(c)] \notin {Nobody, d} /\ at[writer[From(c)]] = "rlock"
        BY <2>2, <3>1, ResultAssumption
      <4>2. CASE Announce(d)
        BY <1>1, <4>1, <4>2 DEF Announce, LockInv, TypeOK
      <4>3. CASE Store(d)
        <5>1. writer[On(d)] = d
          BY <1>1, <4>3 DEF Store, LockInv, LockOwned
        <5> QED
          BY <1>1, <4>1, <4>3, <5>1 DEF Store, LockInv, TypeOK
      <4> QED
        BY <2>4, <4>2, <4>3 DEF Begin, Step, Acquire, LockOther, Copy, LockShort, Read
    <3> QED
      BY <2>1, <2>2, <3>1, <3>2, <3>3 DEF InCycle, From
  <2> QED
    BY <1>1, <2>3, <2>4 DEF Next, Deadlocked
<1> QED
  BY <1>1, LocksExclude, PTL DEF Spec

=============================================================================
