--------------------------- MODULE PluginsProofs ---------------------------
(***************************************************************************)
(* Proofs about Plugins, for any components, build plans and arguments:    *)
(* arguments arrive as they were created, followups come all or not at     *)
(* all, files hold what the platform says, and only nulls end a process.   *)
(***************************************************************************)
EXTENDS Plugins, SequenceTheorems, TLAPS

-----------------------------------------------------------------------------
(* Sequences.                                                              *)

LEMMA Cons ==
  ASSUME NEW S, NEW k \in S, NEW q \in Seq(S)
  PROVE  /\ <<k>> \o q \in Seq(S) /\ <<k>> \o q # <<>>
         /\ Head(<<k>> \o q) = k /\ Tail(<<k>> \o q) = q
<1>1. <<k>> \o q \in Seq(S)
  OBVIOUS
<1>2. Len(<<k>> \o q) = Len(q) + 1 /\ Len(q) \in Nat
  OBVIOUS
<1>3. <<k>> \o q # <<>>
  BY <1>2
<1>4. Head(<<k>> \o q) = k
  OBVIOUS
<1>5. Tail(<<k>> \o q) = q
  OBVIOUS
<1> QED
  BY <1>1, <1>3, <1>4, <1>5

LEMMA Uncons ==
  ASSUME NEW S, NEW p \in Seq(S), p # <<>>
  PROVE  Head(p) \in S /\ Tail(p) \in Seq(S) /\ <<Head(p)>> \o Tail(p) = p
OBVIOUS

LEMMA Tuples ==
  ASSUME NEW S, NEW a \in S, NEW b \in S, NEW c \in S
  PROVE  /\ <<a>> \in Seq(S) /\ Len(<<a>>) = 1
         /\ <<a, b>> \in Seq(S) /\ Len(<<a, b>>) = 2
         /\ <<a, b, c>> \in Seq(S) /\ Len(<<a, b, c>>) = 3
OBVIOUS

LEMMA PrefixOfCons ==
  ASSUME NEW S, NEW k \in S, NEW q \in Seq(S), NEW i \in 0..Len(q)
  PROVE  /\ SubSeq(q, 1, i) \in Seq(S)
         /\ SubSeq(<<k>> \o q, 1, i + 1) = <<k>> \o SubSeq(q, 1, i)
<1>1. /\ <<k>> \o q \in Seq(S) /\ Len(<<k>> \o q) = Len(q) + 1 /\ Len(q) \in Nat
      /\ (<<k>> \o q)[1] = k
      /\ \A j \in 1..Len(q) : (<<k>> \o q)[j + 1] = q[j]
  OBVIOUS
<1>2. /\ SubSeq(q, 1, i) \in Seq(S) /\ Len(SubSeq(q, 1, i)) = i
      /\ \A j \in 1..i : SubSeq(q, 1, i)[j] = q[j]
  OBVIOUS
<1>3. /\ SubSeq(<<k>> \o q, 1, i + 1) \in Seq(S) /\ Len(SubSeq(<<k>> \o q, 1, i + 1)) = i + 1
      /\ \A j \in 1..i + 1 : SubSeq(<<k>> \o q, 1, i + 1)[j] = (<<k>> \o q)[j]
  BY <1>1
<1>4. /\ <<k>> \o SubSeq(q, 1, i) \in Seq(S) /\ Len(<<k>> \o SubSeq(q, 1, i)) = i + 1
      /\ (<<k>> \o SubSeq(q, 1, i))[1] = k
      /\ \A j \in 1..i : (<<k>> \o SubSeq(q, 1, i))[j + 1] = SubSeq(q, 1, i)[j]
  BY <1>2
<1>5. ASSUME NEW j \in 1..i + 1
      PROVE  SubSeq(<<k>> \o q, 1, i + 1)[j] = (<<k>> \o SubSeq(q, 1, i))[j]
  <2>1. CASE j = 1
    BY <1>1, <1>3, <1>4, <2>1
  <2>2. CASE j # 1
    <3>1. j - 1 \in 1..i /\ j - 1 \in 1..Len(q) /\ (j - 1) + 1 = j
      BY <2>2
    <3> QED
      BY <1>1, <1>2, <1>3, <1>4, <3>1
  <2> QED
    BY <2>1, <2>2
<1> QED
  BY <1>2, <1>3, <1>4, <1>5, SeqEqual

-----------------------------------------------------------------------------
(* Identifiers and files.                                                  *)

LEMMA TaskIDs ==
  ASSUME NEW c, NEW d, NEW i, NEW j
  PROVE  /\ Component(c) = Component(d) => c = d
         /\ Generated(c, i) = Generated(d, j) => c = d /\ i = j
         /\ Component(c) # Generated(d, j)
         /\ Component(c) \notin UserTasks
         /\ Generated(c, i) \notin UserTasks
         /\ Component(c)[3] = c /\ Generated(c, i)[3] = c /\ Generated(c, i)[4] = i
BY DEF Component, Generated, UserTasks, Platform, TestTask, ResourcesTask, KustomizeTask

LEMMA UserTasksDiffer ==
  /\ Platform # TestTask /\ Platform # ResourcesTask /\ Platform # KustomizeTask
  /\ TestTask # ResourcesTask /\ TestTask # KustomizeTask /\ ResourcesTask # KustomizeTask
BY DEF Platform, TestTask, ResourcesTask, KustomizeTask

(* What generators of a component write goes to the same file, and nothing  *)
(* else does.                                                              *)
ResourcesFile(c) == OutputFS(Component(c) \o <<"resources", "resources.yaml">>)

(* The names that output directories are made of.                          *)
Dirs == {".bonk", "platform", "component", "Test", "Resources", "Kustomize",
         "resources", "resources.yaml", "kustomized.yaml"} \cup Components

LEMMA ResourcesFileIs ==
  ASSUME NEW c \in Components
  PROVE  Len(ResourcesFile(c)) = 6 /\ ResourcesFile(c)[4] = c
<1> DEFINE end == <<"resources", "resources.yaml">>
           top == <<".bonk">>
<1>1. /\ Component(c) \in Seq(Dirs) /\ Len(Component(c)) = 3 /\ Component(c)[3] = c
      /\ end \in Seq(Dirs) /\ Len(end) = 2
      /\ top \in Seq(Dirs) /\ Len(top) = 1
  <2>1. /\ c \in Dirs /\ "platform" \in Dirs /\ "component" \in Dirs /\ "resources" \in Dirs
        /\ "resources.yaml" \in Dirs /\ ".bonk" \in Dirs
    BY DEF Dirs
  <2>2. Component(c)[3] = c
    BY DEF Component
  <2> QED
    BY <2>1, <2>2, Tuples DEF Component
<1> HIDE DEF end, top
<1>2. /\ Component(c) \o end \in Seq(Dirs) /\ Len(Component(c) \o end) = 5
      /\ (Component(c) \o end)[3] = c
  <2> DEFINE id == Component(c)
  <2>1. id \in Seq(Dirs) /\ Len(id) = 3 /\ id[3] = c
    BY <1>1
  <2> HIDE DEF id
  <2>2. /\ id \o end \in Seq(Dirs) /\ Len(id \o end) = Len(id) + Len(end)
        /\ \A i \in 1..Len(id) + Len(end) :
             (id \o end)[i] = IF i <= Len(id) THEN id[i] ELSE end[i - Len(id)]
    BY <2>1, <1>1, ConcatProperties
  <2> QED
    BY <1>1, <2>1, <2>2 DEF id
<1>3. Len(top \o (Component(c) \o end)) = 6 /\ (top \o (Component(c) \o end))[4] = c
  BY <1>1, <1>2, ConcatProperties
<1> QED
  BY <1>3 DEF ResourcesFile, OutputFS, end, top

LEMMA OutputOfUserTask ==
  ASSUME NEW t \in {ResourcesTask, KustomizeTask}
  PROVE  Len(Output(t)) = 4
<1>1. ASSUME NEW name \in Dirs
      PROVE  Len(OutputFS(t \o <<name>>)) = 4
  <2>. /\ "Test" \in Dirs /\ "Resources" \in Dirs /\ "Kustomize" \in Dirs /\ ".bonk" \in Dirs
    BY DEF Dirs
  <2>1. t \in Seq(Dirs) /\ Len(t) = 2 /\ <<name>> \in Seq(Dirs) /\ Len(<<name>>) = 1
    BY Tuples DEF ResourcesTask, KustomizeTask
  <2>2. t \o <<name>> \in Seq(Dirs) /\ Len(t \o <<name>>) = 3
    BY <2>1, ConcatProperties
  <2>3. <<".bonk">> \in Seq(Dirs) /\ Len(<<".bonk">>) = 1
    BY Tuples
  <2> QED
    BY <2>2, <2>3, ConcatProperties DEF OutputFS
<1>2. t \notin GeneratedTasks
  BY TaskIDs DEF GeneratedTasks, UserTasks
<1>3. Output(t) \in {OutputFS(t \o <<"resources.yaml">>), OutputFS(t \o <<"kustomized.yaml">>)}
  BY <1>2 DEF Output
<1>4. "resources.yaml" \in Dirs /\ "kustomized.yaml" \in Dirs
  BY DEF Dirs
<1> QED
  BY <1>1, <1>3, <1>4

LEMMA Outputs ==
  ASSUME NEW c \in Components, NEW i \in Generators
  PROVE  /\ Output(Generated(c, i)) = ResourcesFile(c)
         /\ Output(Generated(c, i)) \in Files
         /\ \A t \in Writers : Output(t) = ResourcesFile(c) => \E j \in Generators : t = Generated(c, j)
<1>1. ASSUME NEW d \in Components, NEW j \in Generators
      PROVE  Output(Generated(d, j)) = ResourcesFile(d)
  <2>1. Generated(d, j) \in GeneratedTasks
    BY DEF GeneratedTasks
  <2>2. Output(Generated(d, j)) = OutputFS(Component(Generated(d, j)[3]) \o <<"resources", "resources.yaml">>)
    <3>. DEFINE t == Generated(d, j)
    <3>1. t \in GeneratedTasks /\ t # ResourcesTask
      BY <2>1, TaskIDs DEF UserTasks
    <3>. HIDE DEF t
    <3>2. Output(t) = OutputFS(Component(t[3]) \o <<"resources", "resources.yaml">>)
      BY <3>1 DEF Output
    <3>. QED
      BY <3>2 DEF t
  <2> QED
    BY <2>2, TaskIDs DEF ResourcesFile
<1>2. Generated(c, i) \in Writers
  BY DEF Writers, GeneratedTasks
<1>3. ASSUME NEW t \in Writers, Output(t) = ResourcesFile(c)
      PROVE  \E j \in Generators : t = Generated(c, j)
  <2>1. t \in GeneratedTasks
    BY <1>3, OutputOfUserTask, ResourcesFileIs DEF Writers
  <2>2. PICK d \in Components, j \in Generators : t = Generated(d, j)
    BY <2>1 DEF GeneratedTasks
  <2>3. d = c
    BY <1>1, <1>3, <2>2, ResourcesFileIs
  <2> QED
    BY <2>2, <2>3
<1> QED
  BY <1>1, <1>2, <1>3 DEF Files

-----------------------------------------------------------------------------
(* Values.                                                                 *)

(* What the lemmas need of a value; parts of a value have it too.           *)
Flat(v) ==
  /\ v = [p \in DOMAIN v |-> v[p]]
  /\ DOMAIN v \subseteq Seq(Names) /\ <<>> \in DOMAIN v
  /\ \A p \in DOMAIN v : \A i \in 0..Len(p) : SubSeq(p, 1, i) \in DOMAIN v
  /\ \A p \in DOMAIN v : v[p].kind = "num" => v[p] \in [kind : {"num"}, n : 0..2 * Exact]

LEMMA ValuesAreFlat ==
  ASSUME NEW v, IsValue(v)
  PROVE  Flat(v) /\ Kind(v) # "none"
BY DEF IsValue, Flat, Kind

LEMMA KeysAre ==
  ASSUME NEW v, Flat(v), NEW k
  PROVE  k \in Keys(v) <=> k \in Names /\ \E q \in Seq(Names) : <<k>> \o q \in DOMAIN v
<1>1. ASSUME k \in Keys(v)
      PROVE  k \in Names /\ \E q \in Seq(Names) : <<k>> \o q \in DOMAIN v
  <2>1. PICK p \in DOMAIN v \ {<<>>} : k = Head(p)
    BY <1>1 DEF Keys
  <2>2. p \in Seq(Names)
    BY <2>1 DEF Flat
  <2> QED
    BY <2>1, <2>2, Uncons
<1>2. ASSUME NEW q \in Seq(Names), k \in Names, <<k>> \o q \in DOMAIN v
      PROVE  k \in Keys(v)
  <2>1. <<k>> \o q # <<>> /\ Head(<<k>> \o q) = k
    BY <1>2, Cons
  <2> QED
    BY <1>2, <2>1 DEF Keys
<1> QED
  BY <1>1, <1>2

LEMMA Parts ==
  ASSUME NEW v, Flat(v), NEW k \in Keys(v)
  PROVE  /\ DOMAIN Part(v, k) = {q \in Seq(Names) : <<k>> \o q \in DOMAIN v}
         /\ \A q \in DOMAIN Part(v, k) : Part(v, k)[q] = v[<<k>> \o q]
         /\ Flat(Part(v, k))
<1> DEFINE D == {Tail(p) : p \in {r \in DOMAIN v \ {<<>>} : Head(r) = k}}
<1>1. k \in Names /\ DOMAIN v \subseteq Seq(Names)
  BY KeysAre DEF Flat
<1>2. ASSUME NEW q \in D
      PROVE  q \in Seq(Names) /\ <<k>> \o q \in DOMAIN v
  <2>1. PICK p \in DOMAIN v \ {<<>>} : Head(p) = k /\ q = Tail(p)
    BY <1>2
  <2>2. p \in Seq(Names)
    BY <1>1
  <2> QED
    BY <2>1, <2>2, Uncons
<1>3. ASSUME NEW q \in Seq(Names), <<k>> \o q \in DOMAIN v
      PROVE  q \in D
  <2>1. <<k>> \o q # <<>> /\ Head(<<k>> \o q) = k /\ Tail(<<k>> \o q) = q
    BY <1>1, Cons
  <2> QED
    BY <1>3, <2>1
<1>4. D = {q \in Seq(Names) : <<k>> \o q \in DOMAIN v}
  BY <1>2, <1>3
<1>5. Part(v, k) = [q \in D |-> v[<<k>> \o q]]
  BY DEF Part
<1> HIDE DEF D
<1>6. ASSUME NEW q \in D, NEW i \in 0..Len(q)
      PROVE  SubSeq(q, 1, i) \in D
  <2>1. q \in Seq(Names) /\ <<k>> \o q \in DOMAIN v
    BY <1>4
  <2>2. SubSeq(q, 1, i) \in Seq(Names) /\ SubSeq(<<k>> \o q, 1, i + 1) = <<k>> \o SubSeq(q, 1, i)
    BY <1>1, <2>1, PrefixOfCons
  <2>3. i + 1 \in 0..Len(<<k>> \o q)
    BY <1>1, <2>1
  <2>4. SubSeq(<<k>> \o q, 1, i + 1) \in DOMAIN v
    BY <2>1, <2>3 DEF Flat
  <2> QED
    BY <1>4, <2>2, <2>4
<1>7. \A q \in D : v[<<k>> \o q].kind = "num" => v[<<k>> \o q] \in [kind : {"num"}, n : 0..2 * Exact]
  BY <1>4 DEF Flat
<1>8. <<>> \in D
  <2>1. PICK q \in Seq(Names) : <<k>> \o q \in DOMAIN v
    BY KeysAre
  <2>2. q \in D /\ 0 \in 0..Len(q) /\ SubSeq(q, 1, 0) = <<>>
    BY <1>4, <2>1
  <2> QED
    BY <1>6, <2>2
<1> QED
  BY <1>4, <1>5, <1>6, <1>7, <1>8 DEF Flat

(* Values with the same parts at the same places are the same.             *)
LEMMA PartsEqual ==
  ASSUME NEW v, Flat(v), NEW k \in Keys(v), NEW w, Flat(w),
         \A q \in Seq(Names) : (q \in DOMAIN w) <=> (<<k>> \o q \in DOMAIN v),
         \A q \in DOMAIN w : w[q] = v[<<k>> \o q]
  PROVE  Part(v, k) = w
<1>1. DOMAIN w \subseteq Seq(Names)
  BY DEF Flat
<1>2. DOMAIN Part(v, k) = DOMAIN w
  BY <1>1, Parts
<1>3. \A q \in DOMAIN w : Part(v, k)[q] = w[q]
  BY <1>2, Parts
<1>4. Flat(Part(v, k))
  BY Parts
<1> QED
  BY <1>2, <1>3, <1>4 DEF Flat

LEMMA Composed ==
  ASSUME NEW node, node.kind # "num", NEW parts, DOMAIN parts \subseteq Names,
         \A k \in DOMAIN parts : Flat(parts[k])
  PROVE  /\ Flat(Compose(node, parts))
         /\ <<>> \in DOMAIN Compose(node, parts) /\ Compose(node, parts)[<<>>] = node
         /\ Keys(Compose(node, parts)) = DOMAIN parts
         /\ \A k \in DOMAIN parts : Part(Compose(node, parts), k) = parts[k]
<1> DEFINE v == Compose(node, parts)
           D == {<<>>} \cup UNION {{<<k>> \o q : q \in DOMAIN parts[k]} : k \in DOMAIN parts}
<1>1. v = [p \in D |-> IF p = <<>> THEN node ELSE parts[Head(p)][Tail(p)]]
  BY DEF Compose
<1>2. ASSUME NEW k \in DOMAIN parts, NEW q \in DOMAIN parts[k]
      PROVE  /\ k \in Names /\ q \in Seq(Names)
             /\ <<k>> \o q \in D /\ <<k>> \o q # <<>> /\ <<k>> \o q \in Seq(Names)
             /\ v[<<k>> \o q] = parts[k][q]
  <2>1. k \in Names /\ q \in Seq(Names)
    BY DEF Flat
  <2>2. <<k>> \o q # <<>> /\ <<k>> \o q \in Seq(Names) /\ Head(<<k>> \o q) = k /\ Tail(<<k>> \o q) = q
    BY <2>1, Cons
  <2>3. <<k>> \o q \in D
    OBVIOUS
  <2> HIDE DEF D, v
  <2> QED
    BY <1>1, <2>1, <2>2, <2>3
<1>3. ASSUME NEW p \in D, p # <<>>
      PROVE  \E k \in DOMAIN parts : \E q \in DOMAIN parts[k] : p = <<k>> \o q
  BY <1>3
<1>4. <<>> \in D /\ <<>> \in Seq(Names)
  OBVIOUS
<1> HIDE DEF D, v
<1>5. DOMAIN v = D /\ v[<<>>] = node
  BY <1>1, <1>4
<1>6. Flat(v)
  <2>1. ASSUME NEW p \in D
        PROVE  p \in Seq(Names)
    <3>1. CASE p = <<>>
      BY <1>4, <3>1
    <3>2. CASE p # <<>>
      <4>1. PICK k \in DOMAIN parts : \E q \in DOMAIN parts[k] : p = <<k>> \o q
        BY <1>3, <3>2
      <4>2. PICK q \in DOMAIN parts[k] : p = <<k>> \o q
        BY <4>1
      <4> QED
        BY <1>2, <4>2
    <3> QED
      BY <3>1, <3>2
  <2>2. ASSUME NEW p \in D, v[p].kind = "num"
        PROVE  v[p] \in [kind : {"num"}, n : 0..2 * Exact]
    <3>1. p # <<>>
      BY <1>5, <2>2
    <3>2. PICK k \in DOMAIN parts : \E q \in DOMAIN parts[k] : p = <<k>> \o q
      BY <1>3, <3>1
    <3>3. PICK q \in DOMAIN parts[k] : p = <<k>> \o q
      BY <3>2
    <3>4. v[p] = parts[k][q]
      BY <1>2, <3>3
    <3> QED
      BY <2>2, <3>4 DEF Flat
  <2>3. ASSUME NEW p \in D, NEW i \in 0..Len(p)
        PROVE  SubSeq(p, 1, i) \in D
    <3>1. CASE i = 0
      <4>1. p \in Seq(Names)
        BY <2>1
      <4>2. SubSeq(p, 1, 0) = <<>>
        BY <4>1
      <4> QED
        BY <1>4, <3>1, <4>2
    <3>2. CASE i # 0
      <4>1. p # <<>>
        BY <2>1, <3>2
      <4>2. PICK k \in DOMAIN parts : \E q \in DOMAIN parts[k] : p = <<k>> \o q
        BY <1>3, <4>1
      <4>3. PICK q \in DOMAIN parts[k] : p = <<k>> \o q
        BY <4>2
      <4>4. k \in Names /\ q \in Seq(Names)
        BY <1>2
      <4>5. i - 1 \in 0..Len(q) /\ (i - 1) + 1 = i
        BY <3>2, <4>3, <4>4
      <4>6. SubSeq(p, 1, i) = <<k>> \o SubSeq(q, 1, i - 1)
        BY <4>3, <4>4, <4>5, PrefixOfCons
      <4>7. SubSeq(q, 1, i - 1) \in DOMAIN parts[k]
        BY <4>5 DEF Flat
      <4> QED
        BY <1>2, <4>6, <4>7
    <3> QED
      BY <3>1, <3>2
  <2> QED
    BY <1>1, <1>4, <1>5, <2>1, <2>2, <2>3 DEF Flat
<1>7. ASSUME NEW k \in DOMAIN parts
      PROVE  k \in Keys(v) /\ Part(v, k) = parts[k]
  <2>1. PICK q0 : q0 \in DOMAIN parts[k]
    BY DEF Flat
  <2>2. k \in Keys(v)
    BY <1>2, <1>5, <1>6, <2>1, KeysAre
  <2>3. ASSUME NEW q \in Seq(Names), <<k>> \o q \in D
        PROVE  q \in DOMAIN parts[k]
    <3>1. k \in Names
      OBVIOUS
    <3>2. <<k>> \o q # <<>> /\ Head(<<k>> \o q) = k /\ Tail(<<k>> \o q) = q
      BY <3>1, Cons
    <3>3. PICK l \in DOMAIN parts : \E r \in DOMAIN parts[l] : <<k>> \o q = <<l>> \o r
      BY <1>3, <2>3, <3>2
    <3>4. PICK r \in DOMAIN parts[l] : <<k>> \o q = <<l>> \o r
      BY <3>3
    <3>5. l \in Names /\ r \in Seq(Names)
      BY <1>2
    <3>6. Head(<<l>> \o r) = l /\ Tail(<<l>> \o r) = r
      BY <3>5, Cons
    <3> QED
      BY <3>2, <3>6, <3>4
  <2>4. /\ \A q \in Seq(Names) : (q \in DOMAIN parts[k]) <=> (<<k>> \o q \in DOMAIN v)
        /\ \A q \in DOMAIN parts[k] : parts[k][q] = v[<<k>> \o q]
    BY <1>2, <1>5, <2>3
  <2> QED
    BY <1>6, <2>2, <2>4, PartsEqual
<1>8. ASSUME NEW k \in Keys(v)
      PROVE  k \in DOMAIN parts
  <2>1. PICK q \in Seq(Names) : <<k>> \o q \in D
    BY <1>5, <1>6, <1>8, KeysAre
  <2>2. k \in Names
    BY <1>6, <1>8, KeysAre
  <2>3. <<k>> \o q # <<>> /\ Head(<<k>> \o q) = k
    BY <2>2, Cons
  <2>4. PICK l \in DOMAIN parts : \E r \in DOMAIN parts[l] : <<k>> \o q = <<l>> \o r
    BY <1>3, <2>1, <2>3
  <2>5. PICK r \in DOMAIN parts[l] : <<k>> \o q = <<l>> \o r
    BY <2>4
  <2>6. l \in Names /\ r \in Seq(Names)
    BY <1>2
  <2>7. Head(<<l>> \o r) = l
    BY <2>6, Cons
  <2> QED
    BY <2>3, <2>7, <2>5
<1> QED
  BY <1>4, <1>5, <1>6, <1>7, <1>8 DEF v

-----------------------------------------------------------------------------
(* The protobuf value.                                                     *)

LEMMA FloatIs ==
  ASSUME NEW n \in 0..2 * Exact
  PROVE  /\ Float(n) \in 0..2 * Exact
         /\ Float(n) = n \/ (n > Exact /\ Float(n) \in {n - 1, n + 1})
         /\ Float(Float(n)) = Float(n)
<1>1. n \in Nat /\ Exact \in Nat /\ n <= 2 * Exact
  BY ExactAssumption
<1>2. CASE n <= Exact \/ n % 2 = 0
  BY <1>1, <1>2 DEF Float
<1>3. CASE n > Exact /\ n % 4 = 1
  <2>1. Float(n) = n - 1 /\ (n - 1) % 2 = 0 /\ n >= 1
    BY <1>1, <1>3 DEF Float
  <2> QED
    BY <1>1, <1>3, <2>1 DEF Float
<1>4. CASE n > Exact /\ n % 4 = 3
  <2>1. Float(n) = n + 1 /\ (n + 1) % 2 = 0 /\ n < 2 * Exact
    BY <1>1, <1>4 DEF Float
  <2> QED
    BY <1>1, <1>4, <2>1 DEF Float
<1>5. n <= Exact \/ n % 2 = 0 \/ n % 4 = 1 \/ n % 4 = 3
  BY <1>1
<1> QED
  BY <1>1, <1>2, <1>3, <1>4, <1>5

(* What a node becomes.                                                    *)
LEMMA WireNodeIs ==
  ASSUME NEW a, a.kind = "num" => a \in [kind : {"num"}, n : 0..2 * Exact]
  PROVE  /\ WireNode(a).kind = IF a.kind = "struct" THEN "map" ELSE a.kind
         /\ WireNode(a).kind = "num" => WireNode(a) \in [kind : {"num"}, n : 0..2 * Exact]
         /\ a.kind \notin {"num", "struct"} => WireNode(a) = a
         /\ WireNode(WireNode(a)) = WireNode(a)
         /\ AlikeNode(a, WireNode(a)) /\ AlikeNode(a, a)
<1>1. CASE a.kind = "num"
  <2>1. a.n \in 0..2 * Exact /\ a = [kind |-> "num", n |-> a.n]
    BY <1>1
  <2>2. WireNode(a) = [kind |-> "num", n |-> Float(a.n)]
    BY <1>1 DEF WireNode
  <2>3. Float(a.n) \in 0..2 * Exact /\ Float(Float(a.n)) = Float(a.n)
        /\ (Float(a.n) = a.n \/ (a.n > Exact /\ Float(a.n) \in {a.n - 1, a.n + 1}))
    BY <2>1, FloatIs
  <2>4. WireNode(WireNode(a)) = [kind |-> "num", n |-> Float(Float(a.n))]
    BY <2>2 DEF WireNode
  <2>5. AlikeNode(a, WireNode(a))
    BY <1>1, <2>1, <2>2, <2>3 DEF AlikeNode
  <2> QED
    BY <1>1, <2>2, <2>3, <2>4, <2>5 DEF AlikeNode
<1>2. CASE a.kind = "struct"
  BY <1>2 DEF WireNode, AlikeNode
<1>3. CASE a.kind \notin {"num", "struct"}
  BY <1>3 DEF WireNode, AlikeNode
<1> QED
  BY <1>1, <1>2, <1>3

LEMMA Wires ==
  ASSUME NEW v, Flat(v)
  PROVE  /\ Flat(Wire(v)) /\ DOMAIN Wire(v) = DOMAIN v
         /\ Keys(Wire(v)) = Keys(v)
         /\ Wire(Wire(v)) = Wire(v)
         /\ Wire(v) = Nil => v = Nil
         /\ Alike(v, v) /\ Alike(v, Wire(v))
         /\ HasNil(Wire(v)) => HasNil(v)
         /\ Kind(Wire(v)) = IF Kind(v) = "struct" THEN "map" ELSE Kind(v)
<1>1. /\ DOMAIN Wire(v) = DOMAIN v
      /\ Wire(v) = [p \in DOMAIN v |-> WireNode(v[p])]
      /\ \A p \in DOMAIN v : Wire(v)[p] = WireNode(v[p])
  BY DEF Wire
<1>2. ASSUME NEW p \in DOMAIN v
      PROVE  /\ WireNode(v[p]).kind = IF v[p].kind = "struct" THEN "map" ELSE v[p].kind
             /\ WireNode(v[p]).kind = "num" => WireNode(v[p]) \in [kind : {"num"}, n : 0..2 * Exact]
             /\ v[p].kind \notin {"num", "struct"} => WireNode(v[p]) = v[p]
             /\ WireNode(WireNode(v[p])) = WireNode(v[p])
             /\ AlikeNode(v[p], WireNode(v[p])) /\ AlikeNode(v[p], v[p])
  <2>1. v[p].kind = "num" => v[p] \in [kind : {"num"}, n : 0..2 * Exact]
    BY DEF Flat
  <2> QED
    BY <2>1, WireNodeIs
<1>3. Flat(Wire(v))
  BY <1>1, <1>2 DEF Flat
<1>4. Keys(Wire(v)) = Keys(v)
  BY <1>1 DEF Keys
<1>5. Wire(Wire(v)) = Wire(v)
  BY <1>1, <1>2 DEF Wire
<1>6. ASSUME Wire(v) = Nil
      PROVE  v = Nil
  <2>1. DOMAIN v = {<<>>} /\ WireNode(v[<<>>]) = [kind |-> "nil"]
    BY <1>1, <1>6 DEF Nil, Single
  <2>2. v[<<>>] = [kind |-> "nil"]
    BY <1>2, <2>1
  <2> QED
    BY <2>1, <2>2 DEF Nil, Single, Flat
<1>7. Alike(v, v) /\ Alike(v, Wire(v))
  BY <1>1, <1>2 DEF Alike
<1>8. HasNil(Wire(v)) => HasNil(v)
  BY <1>1, <1>2 DEF HasNil
<1>9. Kind(Wire(v)) = IF Kind(v) = "struct" THEN "map" ELSE Kind(v)
  BY <1>1, <1>2 DEF Kind, Flat
<1> QED
  BY <1>1, <1>3, <1>4, <1>5, <1>6, <1>7, <1>8, <1>9

(* What was encoded once is a value that can be encoded again and stays as  *)
(* it is: followups that pass through several processes lose what float64  *)
(* cannot say, and that structs had types, the first time only.            *)
THEOREM EncodedOnce ==
  ASSUME NEW v, IsValue(v)
  PROVE  /\ Wire(Wire(v)) = Wire(v)
         /\ Alike(v, Wire(v))
         /\ EncodeFails(v) = {} => EncodeFails(Wire(v)) = {}
<1>1. Flat(v)
  BY ValuesAreFlat
<1>2. \A p \in DOMAIN v : v[p].kind \in DOMAIN NodeFails <=> Wire(v)[p].kind \in DOMAIN NodeFails
  <2> SUFFICES ASSUME NEW p \in DOMAIN v
               PROVE  v[p].kind \in DOMAIN NodeFails <=> WireNode(v[p]).kind \in DOMAIN NodeFails
    BY DEF Wire
  <2>1. v[p].kind = "num" => v[p] \in [kind : {"num"}, n : 0..2 * Exact]
    BY <1>1 DEF Flat
  <2>2. WireNode(v[p]).kind = IF v[p].kind = "struct" THEN "map" ELSE v[p].kind
    BY <2>1, WireNodeIs
  <2>3. DOMAIN NodeFails = {"nil", "odd"}
    BY DEF NodeFails
  <2> QED
    BY <2>2, <2>3
<1>3. ASSUME EncodeFails(v) = {}
      PROVE  EncodeFails(Wire(v)) = {}
  <2>1. CASE v = Nil
    <3>1. Wire(v) = v
      BY <2>1 DEF Wire, WireNode, Nil, Single
    <3> QED
      BY <1>3, <3>1
  <2>2. CASE v # Nil
    <3>1. ToProtoFails(v) = {}
      BY <1>3, <2>2 DEF EncodeFails
    <3>2. \A p \in DOMAIN v : v[p].kind \notin DOMAIN NodeFails
      BY <3>1 DEF ToProtoFails
    <3>3. \A p \in DOMAIN Wire(v) : Wire(v)[p].kind \notin DOMAIN NodeFails
      BY <1>1, <1>2, <3>2, Wires
    <3>4. ToProtoFails(Wire(v)) = {}
      BY <3>3 DEF ToProtoFails
    <3> QED
      BY <3>4 DEF EncodeFails
  <2> QED
    BY <2>1, <2>2
<1> QED
  BY <1>1, <1>3, Wires

LEMMA PartOfWire ==
  ASSUME NEW v, Flat(v), NEW k \in Keys(v)
  PROVE  Part(Wire(v), k) = Wire(Part(v, k))
<1>1. /\ DOMAIN Part(v, k) = {q \in Seq(Names) : <<k>> \o q \in DOMAIN v}
      /\ \A q \in DOMAIN Part(v, k) : Part(v, k)[q] = v[<<k>> \o q]
      /\ Flat(Part(v, k))
  BY Parts
<1>2. Flat(Wire(v)) /\ k \in Keys(Wire(v)) /\ DOMAIN Wire(v) = DOMAIN v
  BY Wires
<1>3. Flat(Wire(Part(v, k))) /\ DOMAIN Wire(Part(v, k)) = DOMAIN Part(v, k)
  BY <1>1, Wires
<1>4. \A q \in DOMAIN Part(v, k) : Wire(Part(v, k))[q] = Wire(v)[<<k>> \o q]
  BY <1>1 DEF Wire
<1>5. /\ \A q \in Seq(Names) : (q \in DOMAIN Wire(Part(v, k))) <=> (<<k>> \o q \in DOMAIN Wire(v))
      /\ \A q \in DOMAIN Wire(Part(v, k)) : Wire(Part(v, k))[q] = Wire(v)[<<k>> \o q]
  BY <1>1, <1>2, <1>3, <1>4
<1> QED
  BY <1>2, <1>3, <1>5, PartsEqual

LEMMA NilInside ==
  ASSUME NEW v, Flat(v), NEW k \in Keys(v), HasNil(Part(v, k))
  PROVE  HasNil(v)
BY Parts DEF HasNil

-----------------------------------------------------------------------------
(* What executors are given.                                               *)

LEMMA OneNode ==
  ASSUME NEW node, node.kind = "num" => node \in [kind : {"num"}, n : 0..2 * Exact]
  PROVE  Flat(Single(node)) /\ Kind(Single(node)) = node.kind
<1>1. <<>> \in Seq(Names) /\ \A i \in 0..Len(<<>>) : SubSeq(<<>>, 1, i) = <<>>
  OBVIOUS
<1> QED
  BY <1>1 DEF Single, Flat, Kind

LEMMA ZerosAreFlat ==
  ASSUME NEW kind
  PROVE  Flat(Zero(kind))
<1>1. Flat(Num(0))
  BY OneNode, ExactAssumption DEF Num
<1>2. Flat(Text("")) /\ Flat(Nil)
  BY OneNode DEF Text, Nil
<1>3. Flat(List(NoParts))
  <2>1. DOMAIN NoParts = {}
    BY DEF NoParts
  <2>2. [kind |-> "list"].kind # "num"
    OBVIOUS
  <2> QED
    BY <2>1, <2>2, Composed DEF List
<1> QED
  BY <1>1, <1>2, <1>3 DEF Zero

LEMMA KindsOf ==
  /\ Kind(Nil) = "nil" /\ Kind(None) = "none" /\ Kind(Error) = "error"
  /\ \A s : Kind(Text(s)) = "text" /\ Text(s)[<<>>].text = s
BY DEF Kind, Nil, None, Error, Text, Single

(* Arguments a for an executor whose task is sent v.                       *)
Given(a, v, type) ==
  \/ a = Nil /\ (v = Nil \/ (Kind(v) = "struct" /\ ~OfType(v, type)))
  \/ /\ Kind(a) = "struct" /\ Flat(a) /\ Keys(a) = DOMAIN type.fields
     /\ Kind(v) = "map" \/ (OfType(v, type) /\ a = v)
     /\ \A k \in Keys(a) \cap Keys(v) :
          \/ Part(a, k) = Part(v, k)
          \/ Part(v, k) = Nil
          \/ Kind(Part(v, k)) = "odd" /\ type.fields[k] = "text" /\ Part(a, k) = Text(Part(v, k)[<<>>].text)

LEMMA DecodedField ==
  ASSUME NEW v, Flat(v), NEW kind
  PROVE  /\ Flat(DecodeField(v, kind))
         /\ \/ DecodeField(v, kind) = v \/ v = Nil
            \/ Kind(v) = "odd" /\ kind = "text" /\ DecodeField(v, kind) = Text(v[<<>>].text)
<1>1. CASE v = Nil
  BY <1>1, ZerosAreFlat DEF DecodeField
<1>2. CASE v # Nil /\ Kind(v) = "odd" /\ kind = "text"
  <2>1. DecodeField(v, kind) = Text(v[<<>>].text)
    BY <1>2 DEF DecodeField
  <2>2. Flat(Text(v[<<>>].text))
    BY OneNode DEF Text
  <2> QED
    BY <1>2, <2>1, <2>2
<1>3. CASE v # Nil /\ ~(Kind(v) = "odd" /\ kind = "text")
  BY <1>3 DEF DecodeField
<1> QED
  BY <1>1, <1>2, <1>3

LEMMA Decoded ==
  ASSUME NEW v, Flat(v), NEW type \in Declared
  PROVE  /\ Kind(Decode(v, type)) = "struct" /\ Flat(Decode(v, type))
         /\ Keys(Decode(v, type)) = DOMAIN type.fields
         /\ \A k \in DOMAIN type.fields : Part(Decode(v, type), k) =
              DecodeField(IF k \in Keys(v) THEN Part(v, k) ELSE Nil, type.fields[k])
<1> DEFINE node == [kind |-> "struct", type |-> type.name]
           parts == [k \in DOMAIN type.fields |->
                       DecodeField(IF k \in Keys(v) THEN Part(v, k) ELSE Nil, type.fields[k])]
<1>1. Decode(v, type) = Compose(node, parts)
  BY DEF Decode, Struct
<1>2. DOMAIN parts = DOMAIN type.fields /\ DOMAIN type.fields \subseteq Names
  BY PluginsAssumption
<1>3. ASSUME NEW k \in DOMAIN parts
      PROVE  Flat(parts[k])
  <2>1. Flat(Nil)
    BY ZerosAreFlat, OneNode DEF Nil
  <2>2. Flat(IF k \in Keys(v) THEN Part(v, k) ELSE Nil)
    BY <2>1, Parts
  <2> QED
    BY <2>2, DecodedField
<1>4. node.kind = "struct"
  OBVIOUS
<1>5. \A k \in DOMAIN type.fields :
        parts[k] = DecodeField(IF k \in Keys(v) THEN Part(v, k) ELSE Nil, type.fields[k])
  OBVIOUS
<1> HIDE DEF node, parts
<1>6. /\ Flat(Compose(node, parts)) /\ Compose(node, parts)[<<>>] = node
      /\ Keys(Compose(node, parts)) = DOMAIN parts
      /\ \A k \in DOMAIN parts : Part(Compose(node, parts), k) = parts[k]
  BY <1>2, <1>3, <1>4, Composed
<1> QED
  BY <1>1, <1>2, <1>4, <1>5, <1>6 DEF Kind

LEMMA Unboxed ==
  ASSUME NEW v, Flat(v), NEW type \in Declared, OfType(v, type) => Keys(v) = DOMAIN type.fields,
         NEW a \in UnboxArgs(v, type), a # Error
  PROVE  Given(a, v, type)
<1>1. CASE v = Nil
  <2>1. UnboxArgs(v, type) = {Nil}
    BY <1>1, KindsOf DEF UnboxArgs, OfType
  <2> QED
    BY <1>1, <2>1 DEF Given
<1>2. CASE v # Nil /\ OfType(v, type)
  <2>1. UnboxArgs(v, type) \subseteq {v, Error}
    BY <1>2 DEF UnboxArgs, OfType
  <2> QED
    BY <1>2, <2>1 DEF Given, OfType
<1>3. CASE v # Nil /\ Kind(v) = "struct" /\ ~OfType(v, type)
  <2>1. UnboxArgs(v, type) = {Nil, Error}
    BY <1>3 DEF UnboxArgs
  <2> QED
    BY <1>3, <2>1 DEF Given
<1>4. CASE v # Nil /\ Kind(v) = "map"
  <2>1. UnboxArgs(v, type) \subseteq {Decode(v, type), Error}
    BY <1>4 DEF UnboxArgs, OfType
  <2>2. a = Decode(v, type)
    BY <2>1
  <2>3. \A k \in Keys(a) \cap Keys(v) :
          \/ Part(a, k) = Part(v, k)
          \/ Part(v, k) = Nil
          \/ Kind(Part(v, k)) = "odd" /\ type.fields[k] = "text" /\ Part(a, k) = Text(Part(v, k)[<<>>].text)
    <3> SUFFICES ASSUME NEW k \in Keys(a) \cap Keys(v)
                 PROVE  \/ Part(a, k) = Part(v, k)
                        \/ Part(v, k) = Nil
                        \/ /\ Kind(Part(v, k)) = "odd" /\ type.fields[k] = "text"
                           /\ Part(a, k) = Text(Part(v, k)[<<>>].text)
      OBVIOUS
    <3>1. Part(a, k) = DecodeField(Part(v, k), type.fields[k])
      BY <2>2, Decoded
    <3>2. Flat(Part(v, k))
      BY Parts
    <3> QED
      BY <3>1, <3>2, DecodedField
  <2> QED
    BY <1>4, <2>2, <2>3, Decoded DEF Given
<1>5. CASE v # Nil /\ Kind(v) \notin {"struct", "map"}
  <2>1. UnboxArgs(v, type) = {Error}
    BY <1>5 DEF UnboxArgs, OfType
  <2> QED
    BY <2>1
<1> QED
  BY <1>1, <1>2, <1>3, <1>4, <1>5

(* The same, of a task whose arguments v may have been sent elsewhere.      *)
LEMMA Received ==
  ASSUME NEW v, Flat(v), NEW type \in Declared, OfType(v, type) => Keys(v) = DOMAIN type.fields,
         NEW a, a # Error, \E sent \in {v, Wire(v)} : a \in UnboxArgs(sent, type)
  PROVE  \/ a = Nil /\ (v = Nil \/ (Kind(v) = "struct" /\ ~OfType(v, type)))
         \/ /\ Kind(a) = "struct" /\ Flat(a) /\ Keys(a) = DOMAIN type.fields
            /\ \/ Kind(v) = "map"
               \/ Kind(v) = "struct" /\ ~OfType(v, type)
               \/ Keys(v) = DOMAIN type.fields
            /\ \A k \in Keys(a) \cap Keys(v) :
                 /\ \/ Alike(Part(v, k), Part(a, k))
                    \/ Part(v, k) = Nil
                    \/ Kind(Part(v, k)) = "odd" /\ Part(a, k) = Text(Part(v, k)[<<>>].text)
                 /\ Part(a, k) = Nil => Part(v, k) = Nil
<1>1. PICK sent \in {v, Wire(v)} : a \in UnboxArgs(sent, type)
  OBVIOUS
<1>2. /\ Flat(sent) /\ Keys(sent) = Keys(v)
      /\ sent = Nil => v = Nil
      /\ Kind(sent) = "struct" => sent = v
      /\ Kind(sent) = "map" => Kind(v) \in {"map", "struct"}
  BY Wires
<1>3. OfType(sent, type) => sent = v
  BY <1>2 DEF OfType
<1>4. Given(a, sent, type)
  BY <1>1, <1>2, <1>3, Unboxed
<1>5. CASE a = Nil /\ (sent = Nil \/ (Kind(sent) = "struct" /\ ~OfType(sent, type)))
  BY <1>2, <1>5
<1>6. CASE ~(a = Nil /\ (sent = Nil \/ (Kind(sent) = "struct" /\ ~OfType(sent, type))))
  <2>1. /\ Kind(a) = "struct" /\ Flat(a) /\ Keys(a) = DOMAIN type.fields
        /\ Kind(sent) = "map" \/ (OfType(sent, type) /\ a = sent)
        /\ \A k \in Keys(a) \cap Keys(sent) :
             \/ Part(a, k) = Part(sent, k)
             \/ Part(sent, k) = Nil
             \/ /\ Kind(Part(sent, k)) = "odd" /\ type.fields[k] = "text"
                /\ Part(a, k) = Text(Part(sent, k)[<<>>].text)
    BY <1>4, <1>6 DEF Given
  <2>2. ASSUME NEW k \in Keys(a) \cap Keys(v)
        PROVE  /\ \/ Alike(Part(v, k), Part(a, k))
                  \/ Part(v, k) = Nil
                  \/ Kind(Part(v, k)) = "odd" /\ Part(a, k) = Text(Part(v, k)[<<>>].text)
               /\ Part(a, k) = Nil => Part(v, k) = Nil
    <3> DEFINE had == Part(v, k)
               came == Part(sent, k)
               has == Part(a, k)
    <3>1. Flat(had) /\ came \in {had, Wire(had)}
      BY <1>1, PartOfWire, Parts
    <3>2. \/ has = came \/ came = Nil
          \/ Kind(came) = "odd" /\ has = Text(came[<<>>].text)
      BY <1>2, <2>1
    <3> HIDE DEF had, came, has
    <3>3. /\ Alike(had, came)
          /\ came = Nil => had = Nil
          /\ Kind(came) = "odd" => Kind(had) = "odd"
      BY <3>1, Wires
    <3>4. Kind(came) = "odd" => came[<<>>] = had[<<>>]
      BY <3>1, <3>3 DEF Wire, WireNode, Kind, Flat
    <3>5. \A t : Text(t) # Nil
      BY KindsOf
    <3>6. (Alike(had, has) \/ had = Nil \/ (Kind(had) = "odd" /\ has = Text(had[<<>>].text))) /\ (has = Nil => had = Nil)
      BY <3>2, <3>3, <3>4, <3>5
    <3> QED
      BY <3>6 DEF had, has
  <2>3. \/ Kind(v) = "map"
        \/ Kind(v) = "struct" /\ ~OfType(v, type)
        \/ Keys(v) = DOMAIN type.fields
    BY <1>2, <1>3, <2>1
  <2> QED
    BY <2>1, <2>2, <2>3
<1> QED
  BY <1>5, <1>6

(* A nil inside of what is composed is in one of the parts.                *)
LEMMA ComposedNil ==
  ASSUME NEW node, node.kind \notin {"num", "nil"}, NEW parts, DOMAIN parts \subseteq Names,
         \A k \in DOMAIN parts : Flat(parts[k]), HasNil(Compose(node, parts))
  PROVE  \E k \in DOMAIN parts : HasNil(parts[k])
<1> DEFINE v == Compose(node, parts)
<1>1. /\ Flat(v) /\ v[<<>>] = node /\ Keys(v) = DOMAIN parts
      /\ \A k \in DOMAIN parts : Part(v, k) = parts[k]
  BY Composed
<1>2. PICK p \in DOMAIN v : v[p].kind = "nil"
  BY DEF HasNil
<1> HIDE DEF v
<1>3. p # <<>> /\ p \in Seq(Names)
  BY <1>1, <1>2 DEF Flat
<1>4. PICK k \in Keys(v), q \in Seq(Names) : <<k>> \o q = p
  BY <1>2, <1>3, Uncons DEF Keys
<1>5. q \in DOMAIN Part(v, k) /\ Part(v, k)[q] = v[p]
  <2>1. DOMAIN Part(v, k) = {r \in Seq(Names) : <<k>> \o r \in DOMAIN v}
    BY <1>1, Parts
  <2>2. q \in DOMAIN Part(v, k)
    BY <1>2, <1>4, <2>1
  <2> QED
    BY <1>1, <1>4, <2>2, Parts
<1>6. k \in DOMAIN parts /\ HasNil(parts[k])
  BY <1>1, <1>2, <1>5 DEF HasNil
<1> QED
  BY <1>6

-----------------------------------------------------------------------------
(* The arguments that followups are created with.                          *)

ComponentArgs(c) == Struct("core.Component", [name |-> Text(c), path |-> Text("path")])
GeneratedArgs(r) == Map([resources |-> r])

LEMMA DeclaredNames ==
  "name" \in Names /\ "path" \in Names /\ "resources" \in Names
<1>1. ComponentParams \in Declared /\ ResourcesParams \in Declared
  BY DEF Declared
<1>2. DOMAIN ComponentParams.fields = {"name", "path"} /\ DOMAIN ResourcesParams.fields = {"resources"}
  BY DEF ComponentParams, ResourcesParams
<1> QED
  BY <1>1, <1>2, PluginsAssumption

LEMMA ComponentArgsAre ==
  ASSUME NEW c
  PROVE  /\ Flat(ComponentArgs(c)) /\ Kind(ComponentArgs(c)) = "struct"
         /\ OfType(ComponentArgs(c), ComponentParams)
         /\ Keys(ComponentArgs(c)) = DOMAIN ComponentParams.fields
         /\ Part(ComponentArgs(c), "name") = Text(c)
         /\ ~HasNil(ComponentArgs(c))
<1> DEFINE node == [kind |-> "struct", type |-> "core.Component"]
           parts == [name |-> Text(c), path |-> Text("path")]
<1>1. ComponentArgs(c) = Compose(node, parts)
  BY DEF ComponentArgs, Struct
<1>2. node.kind = "struct" /\ node.type = ComponentParams.name
  BY DEF ComponentParams
<1>3. DOMAIN parts = {"name", "path"} /\ parts["name"] = Text(c) /\ parts["path"] = Text("path")
  OBVIOUS
<1>4. ASSUME NEW s
      PROVE  Flat(Text(s)) /\ ~HasNil(Text(s))
  <2>1. [kind |-> "text", text |-> s].kind = "text"
    OBVIOUS
  <2>2. Flat(Text(s))
    BY <2>1, OneNode DEF Text
  <2> QED
    BY <2>1, <2>2 DEF HasNil, Text, Single
<1> HIDE DEF node, parts
<1>5. /\ DOMAIN parts \subseteq Names /\ \A k \in DOMAIN parts : Flat(parts[k]) /\ ~HasNil(parts[k])
  BY <1>3, <1>4, DeclaredNames
<1>6. /\ Flat(Compose(node, parts)) /\ Compose(node, parts)[<<>>] = node
      /\ Keys(Compose(node, parts)) = DOMAIN parts
      /\ \A k \in DOMAIN parts : Part(Compose(node, parts), k) = parts[k]
  BY <1>2, <1>5, Composed
<1>7. ~HasNil(Compose(node, parts))
  BY <1>2, <1>5, ComposedNil
<1>8. DOMAIN ComponentParams.fields = {"name", "path"}
  BY DEF ComponentParams
<1> QED
  BY <1>1, <1>2, <1>3, <1>6, <1>7, <1>8 DEF OfType, Kind

LEMMA GeneratedArgsAre ==
  ASSUME NEW r, Flat(r)
  PROVE  /\ Flat(GeneratedArgs(r)) /\ Kind(GeneratedArgs(r)) = "map"
         /\ Keys(GeneratedArgs(r)) = {"resources"} /\ Part(GeneratedArgs(r), "resources") = r
         /\ HasNil(GeneratedArgs(r)) => HasNil(r)
<1> DEFINE node == [kind |-> "map"]
           parts == [resources |-> r]
<1>1. GeneratedArgs(r) = Compose(node, parts)
  BY DEF GeneratedArgs, Map
<1>2. node.kind = "map"
  OBVIOUS
<1>3. DOMAIN parts = {"resources"} /\ parts["resources"] = r
  OBVIOUS
<1> HIDE DEF node, parts
<1>4. DOMAIN parts \subseteq Names /\ \A k \in DOMAIN parts : Flat(parts[k])
  BY <1>3, DeclaredNames
<1>5. /\ Flat(Compose(node, parts)) /\ Compose(node, parts)[<<>>] = node
      /\ Keys(Compose(node, parts)) = DOMAIN parts
      /\ \A k \in DOMAIN parts : Part(Compose(node, parts), k) = parts[k]
  BY <1>2, <1>4, Composed
<1>6. HasNil(Compose(node, parts)) => HasNil(r)
  BY <1>2, <1>3, <1>4, ComposedNil
<1> QED
  BY <1>1, <1>2, <1>3, <1>5, <1>6 DEF Kind

-----------------------------------------------------------------------------
(* Tasks.                                                                  *)

LEMMA PluginsOfTasks ==
  /\ \A t \in ComponentTasks : PluginOf(t) = "holos" /\ Params(t) = ComponentParams
  /\ \A t \in GeneratedTasks : PluginOf(t) = "resources" /\ Params(t) = ResourcesParams
  /\ \A t \in UserTasks : Params(t) \in Declared /\ (PluginOf(t) = "resources" => t = ResourcesTask)
  /\ \A t \in Tasks : Params(t) \in Declared /\ PluginOf(t) \in Plugin
  /\ PluginOf(ResourcesTask) = "resources" /\ Params(ResourcesTask) = ResourcesParams
<1>1. ASSUME NEW t \in ComponentTasks
      PROVE  PluginOf(t) = "holos" /\ Params(t) = ComponentParams
  <2>1. t \notin UserTasks /\ t \notin GeneratedTasks
    BY TaskIDs DEF ComponentTasks, GeneratedTasks
  <2>2. PluginOf(t) = "holos"
    BY <2>1 DEF PluginOf, UserTasks
  <2>3. t # Platform /\ t # KustomizeTask
    BY <2>1 DEF UserTasks
  <2> QED
    BY <2>2, <2>3 DEF Params
<1>2. ASSUME NEW t \in GeneratedTasks
      PROVE  PluginOf(t) = "resources" /\ Params(t) = ResourcesParams
  <2>1. t \notin UserTasks /\ t \notin ComponentTasks
    BY TaskIDs DEF ComponentTasks, GeneratedTasks
  <2>2. t # Platform /\ t # KustomizeTask
    BY <2>1 DEF UserTasks
  <2>3. PluginOf(t) = "resources"
    BY <2>1, <2>2 DEF PluginOf
  <2> QED
    BY <2>1, <2>2, <2>3 DEF Params
<1>3. ASSUME NEW t \in UserTasks
      PROVE  t \notin ComponentTasks /\ t \notin GeneratedTasks
  BY TaskIDs DEF ComponentTasks, GeneratedTasks
<1>4. PluginOf(Platform) = "holos" /\ Params(Platform) = PlatformParams
  <2>1. Platform \notin ComponentTasks /\ Platform \notin GeneratedTasks
    BY <1>3 DEF UserTasks
  <2>2. PluginOf(Platform) = "holos"
    BY <2>1, UserTasksDiffer DEF PluginOf
  <2> QED
    BY <2>1, <2>2, UserTasksDiffer DEF Params
<1>5. PluginOf(TestTask) = "test" /\ Params(TestTask) = TestParams
  <2>1. TestTask \notin ComponentTasks /\ TestTask \notin GeneratedTasks
    BY <1>3 DEF UserTasks
  <2>2. PluginOf(TestTask) = "test"
    BY <2>1, UserTasksDiffer DEF PluginOf
  <2> QED
    BY <2>1, <2>2, UserTasksDiffer DEF Params
<1>6. PluginOf(ResourcesTask) = "resources" /\ Params(ResourcesTask) = ResourcesParams
  <2>1. ResourcesTask \notin ComponentTasks /\ ResourcesTask \notin GeneratedTasks
    BY <1>3 DEF UserTasks
  <2>2. PluginOf(ResourcesTask) = "resources"
    BY <2>1, UserTasksDiffer DEF PluginOf
  <2> QED
    BY <2>1, <2>2, UserTasksDiffer DEF Params
<1>7. PluginOf(KustomizeTask) = "kustomize" /\ Params(KustomizeTask) = Kustomization
  <2>1. KustomizeTask \notin ComponentTasks /\ KustomizeTask \notin GeneratedTasks
    BY <1>3 DEF UserTasks
  <2>2. PluginOf(KustomizeTask) = "kustomize"
    BY <2>1, UserTasksDiffer DEF PluginOf
  <2> QED
    BY <2>1, <2>2, UserTasksDiffer DEF Params
<1>8. \A t \in UserTasks : /\ Params(t) \in Declared /\ PluginOf(t) \in Plugin
                           /\ PluginOf(t) = "resources" => t = ResourcesTask
  BY <1>4, <1>5, <1>6, <1>7 DEF UserTasks, Declared, Plugin
<1>9. ASSUME NEW t \in Tasks
      PROVE  Params(t) \in Declared /\ PluginOf(t) \in Plugin
  <2>1. CASE t \in ComponentTasks
    BY <1>1, <2>1 DEF Declared, Plugin
  <2>2. CASE t \in GeneratedTasks
    BY <1>2, <2>2 DEF Declared, Plugin
  <2>3. CASE t \in UserTasks
    BY <1>8, <2>3
  <2> QED
    BY <2>1, <2>2, <2>3 DEF Tasks
<1> QED
  BY <1>1, <1>2, <1>6, <1>8, <1>9

-----------------------------------------------------------------------------
(* The invariant.                                                          *)

StatusOf == [Tasks -> {"absent", "queued", "running", "created", "ok", "failed"}]

Typed ==
  /\ TypeOK
  /\ args = [t \in Tasks |-> args[t]]
  /\ got = [t \in Tasks |-> got[t]]
  /\ disk = [f \in Files |-> disk[f]]

Resources(c, i) == plan[c].generators[i].resources

(* Arguments are those of the command, or what a followup was created with *)
(* and may have been sent.                                                 *)
ArgsKnown ==
  /\ \A t \in UserTasks : status[t] # "absent" => args[t] \in UserArgs
  /\ \A c \in Components : status[Component(c)] # "absent" =>
        args[Component(c)] \in {ComponentArgs(c), Wire(ComponentArgs(c))}
  /\ \A c \in Components, i \in Generators : status[Generated(c, i)] # "absent" =>
        /\ i \in Rendered(plan[c])
        /\ args[Generated(c, i)] \in {GeneratedArgs(Resources(c, i)), Wire(GeneratedArgs(Resources(c, i)))}

(* What an executor was given are arguments that its task has still.       *)
GotKnown ==
  \A t \in Tasks :
    /\ status[t] \in {"absent", "queued"} => got[t] = None
    /\ status[t] \in {"running", "created"} => got[t] # None
    /\ got[t] # None => /\ got[t] # Error
                        /\ \E sent \in {args[t], Wire(args[t])} : got[t] \in UnboxArgs(sent, Params(t))

OnlyWritersCreate == \A t \in Tasks : status[t] = "created" => PluginOf(t) = "resources"

(* How the file of component c with build plan b comes to hold what it does *)
(* when tasks are as st says.                                              *)
FileIs(c, b, st, file) ==
  LET mine == {i \in Generators : st[Generated(c, i)] # "absent"} IN
  /\ mine = {} => file = NoFile
  /\ \/ \E i \in mine : st[Generated(c, i)] = "failed"
     \/ file = NoFile /\ \A i \in mine : st[Generated(c, i)] \notin {"created", "ok"}
     \/ file = Empty /\ \E i \in mine : st[Generated(c, i)] = "created"
     \/ \E i \in mine : st[Generated(c, i)] = "ok" /\ Alike(b.generators[i].resources, file)
     \/ file = Mixed /\ \E i, j \in mine : i # j

FileKnown ==
  \A c \in Components, k \in Generators :
    FileIs(c, plan[c], status, disk[Output(Generated(c, k))])

(* AllOrNone, with the followups of a component named.                     *)
Started ==
  /\ \A c \in Components : (status[Component(c)] # "absent") <=> (status[Platform] = "ok")
  /\ \A c \in Components : \A i \in Rendered(plan[c]) :
       (status[Generated(c, i)] # "absent") <=> (status[Component(c)] = "ok")

IInv == Typed /\ ArgsKnown /\ GotKnown /\ OnlyWritersCreate /\ Started /\ FileKnown

(* Arguments of tasks that there are.                                      *)
LEMMA ResourcesAre ==
  ASSUME TypeOK, NEW c \in Components, NEW i \in Rendered(plan[c])
  PROVE  /\ i \in DOMAIN plan[c].generators /\ i \in Generators
         /\ Flat(Resources(c, i)) /\ Kind(Resources(c, i)) = "list"
<1>1. plan[c] \in BuildPlans
  BY DEF TypeOK
<1>2. i \in DOMAIN plan[c].generators
  BY DEF Rendered
<1>3. IsValue(Resources(c, i)) /\ Kind(Resources(c, i)) = "list"
  BY <1>1, <1>2, PluginsAssumption DEF Resources
<1> QED
  BY <1>1, <1>2, <1>3, ValuesAreFlat DEF Generators

LEMMA ArgsAre ==
  ASSUME IInv, NEW t \in Tasks, status[t] # "absent"
  PROVE  /\ Flat(args[t]) /\ args[t] # None
         /\ OfType(args[t], Params(t)) => Keys(args[t]) = DOMAIN Params(t).fields
<1>1. CASE t \in UserTasks
  <2>1. args[t] \in UserArgs /\ Params(t) \in Declared
    BY <1>1, PluginsOfTasks DEF IInv, ArgsKnown
  <2>2. IsValue(args[t]) /\ (OfType(args[t], Params(t)) => Keys(args[t]) = DOMAIN Params(t).fields)
    BY <2>1, PluginsAssumption
  <2> QED
    BY <2>2, ValuesAreFlat, KindsOf
<1>2. CASE t \in ComponentTasks
  <2>1. PICK c \in Components : t = Component(c)
    BY <1>2 DEF ComponentTasks
  <2>2. args[t] \in {ComponentArgs(c), Wire(ComponentArgs(c))} /\ Params(t) = ComponentParams
    BY <1>2, <2>1, PluginsOfTasks DEF IInv, ArgsKnown
  <2> QED
    BY <2>2, ComponentArgsAre, Wires, KindsOf
<1>3. CASE t \in GeneratedTasks
  <2>1. PICK c \in Components, i \in Generators : t = Generated(c, i)
    BY <1>3 DEF GeneratedTasks
  <2>2. /\ i \in Rendered(plan[c])
        /\ args[t] \in {GeneratedArgs(Resources(c, i)), Wire(GeneratedArgs(Resources(c, i)))}
    BY <2>1 DEF IInv, ArgsKnown
  <2>3. Flat(Resources(c, i))
    BY <2>2, ResourcesAre DEF IInv, Typed
  <2>4. Flat(args[t]) /\ Kind(args[t]) = "map"
    BY <2>2, <2>3, GeneratedArgsAre, Wires
  <2> QED
    BY <2>4, KindsOf DEF OfType
<1> QED
  BY <1>1, <1>2, <1>3 DEF Tasks

LEMMA GotAre ==
  ASSUME IInv, NEW t \in Tasks, got[t] # None
  PROVE  /\ status[t] # "absent"
         /\ \/ /\ got[t] = Nil
               /\ args[t] = Nil \/ (Kind(args[t]) = "struct" /\ ~OfType(args[t], Params(t)))
            \/ /\ Kind(got[t]) = "struct" /\ Flat(got[t]) /\ Keys(got[t]) = DOMAIN Params(t).fields
               /\ \/ Kind(args[t]) = "map"
                  \/ Kind(args[t]) = "struct" /\ ~OfType(args[t], Params(t))
                  \/ Keys(args[t]) = DOMAIN Params(t).fields
               /\ \A k \in Keys(got[t]) \cap Keys(args[t]) :
                    /\ \/ Alike(Part(args[t], k), Part(got[t], k))
                       \/ Part(args[t], k) = Nil
                       \/ /\ Kind(Part(args[t], k)) = "odd"
                          /\ Part(got[t], k) = Text(Part(args[t], k)[<<>>].text)
                    /\ Part(got[t], k) = Nil => Part(args[t], k) = Nil
<1>1. /\ status[t] # "absent" /\ got[t] # Error
      /\ \E sent \in {args[t], Wire(args[t])} : got[t] \in UnboxArgs(sent, Params(t))
  BY DEF IInv, GotKnown
<1>2. Flat(args[t]) /\ (OfType(args[t], Params(t)) => Keys(args[t]) = DOMAIN Params(t).fields)
  BY <1>1, ArgsAre
<1>3. Params(t) \in Declared
  BY PluginsOfTasks
<1> QED
  BY <1>1, <1>2, <1>3, Received

LEMMA StartedIs ==
  ASSUME TypeOK
  PROVE  AllOrNone <=> Started
<1>1. ASSUME NEW c \in Components
      PROVE  Rendered(plan[c]) = {j \in Generators :
                     /\ ~plan[c].disabled /\ j \in DOMAIN plan[c].generators
                     /\ plan[c].generators[j].resources # Empty
                     /\ plan[c].generators[j].kind = "Resources"
                     /\ ~plan[c].generators[j].skip}
  <2>1. plan[c] \in BuildPlans
    BY DEF TypeOK
  <2>2. DOMAIN plan[c].generators \subseteq Generators
    BY <2>1 DEF Generators
  <2> QED
    BY <2>2 DEF Rendered
<1> QED
  BY <1>1 DEF AllOrNone, Started, ComponentTasks

-----------------------------------------------------------------------------
(* Steps.                                                                  *)

(* The status of t, and of others in its process, becomes failed.          *)
Down(t) ==
  /\ status' \in StatusOf /\ status'[t] = "failed"
  /\ \A u \in Tasks : \/ status'[u] = status[u]
                      \/ status'[u] = "failed" /\ status[u] \in {"queued", "running", "created"}

LEMMA Downs ==
  ASSUME TypeOK, NEW t \in Tasks, status[t] \in {"queued", "running", "created"},
         NEW p, Panics(p, t) \/ Fails(t)
  PROVE  Down(t)
<1>1. status \in StatusOf
  BY DEF TypeOK, StatusOf
<1>2. CASE Panics(p, t)
  <2>1. status' = [u \in Tasks |->
           IF u = t \/ (status[u] \in {"running", "created"} /\ Process(u) = p)
           THEN "failed" ELSE status[u]]
    BY <1>2 DEF Panics
  <2>2. \A u \in Tasks : status'[u] =
          IF u = t \/ (status[u] \in {"running", "created"} /\ Process(u) = p)
          THEN "failed" ELSE status[u]
    BY <2>1
  <2>3. status' \in StatusOf
    BY <1>1, <2>1 DEF StatusOf
  <2>4. status'[t] = "failed"
    BY <2>2
  <2>5. ASSUME NEW u \in Tasks
        PROVE  \/ status'[u] = status[u]
               \/ status'[u] = "failed" /\ status[u] \in {"queued", "running", "created"}
    BY <2>2
  <2> QED
    BY <2>3, <2>4, <2>5 DEF Down
<1>3. CASE Fails(t)
  <2>1. status' = [status EXCEPT ![t] = "failed"]
    BY <1>3 DEF Fails
  <2>2. status' \in StatusOf
    BY <1>1, <2>1 DEF StatusOf
  <2>3. \A u \in Tasks : status'[u] = IF u = t THEN "failed" ELSE status[u]
    BY <1>1, <2>1 DEF StatusOf
  <2> QED
    BY <2>2, <2>3 DEF Down
<1> QED
  BY <1>2, <1>3

LEMMA Processes ==
  ASSUME NEW t
  PROVE  Process(t) \in apart \cup {Bonk}
BY DEF Process

(* A task returned its followups, and is done.                             *)
Done(t, followups) ==
  /\ status' = [u \in Tasks |-> IF u = t THEN "ok"
                               ELSE IF u \in DOMAIN followups THEN "queued" ELSE status[u]]
  /\ args' = [u \in Tasks |-> IF u \in DOMAIN followups
                             THEN IF Remote(t) THEN Wire(followups[u]) ELSE followups[u]
                             ELSE args[u]]
  /\ UNCHANGED dead

LEMMA ReturnsIs ==
  ASSUME TypeOK, NEW t \in Tasks, status[t] \in {"running", "created"},
         NEW followups, Returns(t, followups)
  PROVE  \/ Done(t, followups)
         \/ /\ Down(t) /\ UNCHANGED args /\ dead' \subseteq dead \cup {Process(t)}
            /\ dead' # dead => \E u \in DOMAIN followups : "panic" \in EncodeFails(followups[u])
<1> DEFINE fails == IF Remote(t) THEN UNION {EncodeFails(followups[u]) : u \in DOMAIN followups}
                    ELSE {}
<1>1. \/ fails = {} /\ Done(t, followups)
      \/ "panic" \in fails /\ Panics(Process(t), t) /\ UNCHANGED args
      \/ "error" \in fails /\ Fails(t) /\ UNCHANGED <<dead, args>>
  BY DEF Returns, Done
<1>2. "panic" \in fails => \E u \in DOMAIN followups : "panic" \in EncodeFails(followups[u])
  OBVIOUS
<1> HIDE DEF fails
<1>3. CASE "panic" \in fails /\ Panics(Process(t), t) /\ UNCHANGED args
  <2>1. Down(t)
    BY <1>3, Downs
  <2>2. dead' = dead \cup {Process(t)}
    BY <1>3 DEF Panics
  <2> QED
    BY <1>2, <1>3, <2>1, <2>2
<1>4. CASE "error" \in fails /\ Fails(t) /\ UNCHANGED <<dead, args>>
  <2>1. Down(t)
    BY <1>4, Downs
  <2> QED
    BY <1>4, <2>1
<1> QED
  BY <1>1, <1>3, <1>4

LEMMA ReturnsNothing ==
  ASSUME TypeOK, args = [u \in Tasks |-> args[u]], NEW t \in Tasks, Returns(t, NoFollowups)
  PROVE  /\ status' = [status EXCEPT ![t] = "ok"]
         /\ UNCHANGED <<args, dead>>
<1>1. DOMAIN NoFollowups = {}
  BY DEF NoFollowups
<1>2. UNION {EncodeFails(NoFollowups[u]) : u \in DOMAIN NoFollowups} = {}
  BY <1>1
<1>3. Done(t, NoFollowups)
  BY <1>2 DEF Returns, Done
<1>4. status' = [u \in Tasks |-> IF u = t THEN "ok" ELSE status[u]] /\ args' = [u \in Tasks |-> args[u]]
  BY <1>1, <1>3 DEF Done
<1>5. status = [u \in Tasks |-> status[u]]
  BY DEF TypeOK
<1> QED
  BY <1>3, <1>4, <1>5 DEF Done

LEMMA InTasks ==
  /\ UserTasks \subseteq Tasks /\ Platform \in Tasks
  /\ \A c \in Components : Component(c) \in Tasks /\ Component(c) \in ComponentTasks
  /\ \A c \in Components, i \in Generators :
       Generated(c, i) \in Tasks /\ Generated(c, i) \in GeneratedTasks
  /\ GeneratedTasks \subseteq Tasks /\ ComponentTasks \subseteq Tasks /\ Writers \subseteq Tasks
BY DEF UserTasks, Tasks, ComponentTasks, GeneratedTasks, Writers

(* A file is what it was while tasks are delivered and fail.               *)
LEMMA FileStays ==
  ASSUME NEW c, NEW b, NEW st, NEW file, FileIs(c, b, st, file), NEW st2,
         \A i \in Generators :
           \/ st2[Generated(c, i)] = st[Generated(c, i)]
           \/ st[Generated(c, i)] # "absent" /\ st2[Generated(c, i)] = "failed"
           \/ st[Generated(c, i)] = "queued" /\ st2[Generated(c, i)] = "running"
  PROVE  FileIs(c, b, st2, file)
<1> DEFINE mine == {i \in Generators : st[Generated(c, i)] # "absent"}
           mine2 == {i \in Generators : st2[Generated(c, i)] # "absent"}
<1>1. mine2 = mine
  OBVIOUS
<1>2. /\ mine = {} => file = NoFile
      /\ \/ \E i \in mine : st[Generated(c, i)] = "failed"
         \/ file = NoFile /\ \A i \in mine : st[Generated(c, i)] \notin {"created", "ok"}
         \/ file = Empty /\ \E i \in mine : st[Generated(c, i)] = "created"
         \/ \E i \in mine : st[Generated(c, i)] = "ok" /\ Alike(b.generators[i].resources, file)
         \/ file = Mixed /\ \E i, j \in mine : i # j
  BY DEF FileIs
<1>3. CASE \E i \in Generators : st2[Generated(c, i)] = "failed"
  <2>1. \E i \in mine2 : st2[Generated(c, i)] = "failed"
    BY <1>3
  <2> QED
    BY <1>1, <1>2, <2>1 DEF FileIs
<1>4. CASE \A i \in Generators : st2[Generated(c, i)] # "failed"
  <2>1. \A i \in mine : /\ st[Generated(c, i)] # "failed"
                        /\ st[Generated(c, i)] \in {"created", "ok"} => st2[Generated(c, i)] = st[Generated(c, i)]
                        /\ st2[Generated(c, i)] \in {"created", "ok"} => st2[Generated(c, i)] = st[Generated(c, i)]
    BY <1>4
  <2>2. /\ mine2 = {} => file = NoFile
        /\ \/ file = NoFile /\ \A i \in mine2 : st2[Generated(c, i)] \notin {"created", "ok"}
           \/ file = Empty /\ \E i \in mine2 : st2[Generated(c, i)] = "created"
           \/ \E i \in mine2 : st2[Generated(c, i)] = "ok" /\ Alike(b.generators[i].resources, file)
           \/ file = Mixed /\ \E i, j \in mine2 : i # j
    BY <1>1, <1>2, <2>1
  <2> QED
    BY <2>2 DEF FileIs
<1> QED
  BY <1>3, <1>4

LEMMA FileOfFailed ==
  ASSUME NEW c, NEW b, NEW st, NEW file, NEW i \in Generators, st[Generated(c, i)] = "failed"
  PROVE  FileIs(c, b, st, file)
BY DEF FileIs

LEMMA FileCreated ==
  ASSUME NEW c, NEW b, NEW st, NEW i \in Generators, st[Generated(c, i)] = "created"
  PROVE  FileIs(c, b, st, Empty)
BY DEF FileIs

LEMMA FileQueued ==
  ASSUME NEW c, NEW b, NEW st,
         \A i \in Generators : st[Generated(c, i)] \in {"absent", "queued"}
  PROVE  FileIs(c, b, st, NoFile)
BY DEF FileIs

(* One that is written holds all of it, or another one wrote it too.       *)
LEMMA FileWritten ==
  ASSUME NEW c, NEW b, NEW st, NEW old, FileIs(c, b, st, old),
         NEW i \in Generators, st[Generated(c, i)] = "created", NEW st2,
         st2[Generated(c, i)] = "ok",
         \A j \in Generators \ {i} : st2[Generated(c, j)] = st[Generated(c, j)],
         NEW docs, Alike(b.generators[i].resources, docs), NEW content \in Written(old, docs)
  PROVE  FileIs(c, b, st2, content)
<1> DEFINE mine == {j \in Generators : st[Generated(c, j)] # "absent"}
           mine2 == {j \in Generators : st2[Generated(c, j)] # "absent"}
<1>1. mine2 = mine /\ i \in mine2
  OBVIOUS
<1>2. CASE content = docs
  <2>1. \E j \in mine2 : st2[Generated(c, j)] = "ok" /\ Alike(b.generators[j].resources, content)
    BY <1>1, <1>2
  <2> QED
    BY <1>1, <2>1 DEF FileIs
<1>3. CASE content = Mixed /\ old # Empty
  <2>1. \/ \E j \in mine : st[Generated(c, j)] = "failed"
        \/ old = NoFile /\ \A j \in mine : st[Generated(c, j)] \notin {"created", "ok"}
        \/ \E j \in mine : st[Generated(c, j)] = "ok" /\ Alike(b.generators[j].resources, old)
        \/ old = Mixed /\ \E j, k \in mine : j # k
    BY <1>3 DEF FileIs
  <2>2. \E j, k \in mine2 : j # k
    BY <1>1, <2>1
  <2> QED
    BY <1>1, <1>3, <2>2 DEF FileIs
<1> QED
  BY <1>2, <1>3 DEF Written

LEMMA ArgsKept ==
  ASSUME IInv, UNCHANGED <<plan, args>>,
         \A u \in Tasks : (status'[u] = "absent") <=> (status[u] = "absent")
  PROVE  ArgsKnown'
<1>1. \A t \in UserTasks : status'[t] # "absent" => args'[t] \in UserArgs
  BY InTasks DEF IInv, ArgsKnown
<1>2. ASSUME NEW c \in Components, status'[Component(c)] # "absent"
      PROVE  args'[Component(c)] \in {ComponentArgs(c), Wire(ComponentArgs(c))}
  BY <1>2, InTasks DEF IInv, ArgsKnown
<1>3. ASSUME NEW c \in Components, NEW i \in Generators, status'[Generated(c, i)] # "absent"
      PROVE  /\ i \in Rendered(plan[c])
             /\ args'[Generated(c, i)] \in {GeneratedArgs(Resources(c, i)), Wire(GeneratedArgs(Resources(c, i)))}
  BY <1>3, InTasks DEF IInv, ArgsKnown
<1>4. \A c, i : Resources(c, i)' = Resources(c, i)
  BY DEF Resources
<1> QED
  BY <1>1, <1>2, <1>3, <1>4 DEF ArgsKnown

LEMMA StartedKept ==
  ASSUME IInv, plan' = plan,
         \A u \in Tasks : (status'[u] = "absent") <=> (status[u] = "absent"),
         \A u \in ComponentTasks \cup {Platform} : (status'[u] = "ok") <=> (status[u] = "ok")
  PROVE  Started'
<1>1. ASSUME NEW c \in Components
      PROVE  (status'[Component(c)] # "absent") <=> (status'[Platform] = "ok")
  BY InTasks DEF IInv, Started
<1>2. ASSUME NEW c \in Components, NEW i \in Rendered(plan[c])
      PROVE  (status'[Generated(c, i)] # "absent") <=> (status'[Component(c)] = "ok")
  <2>1. i \in Generators
    BY ResourcesAre DEF IInv, Typed
  <2> QED
    BY <2>1, InTasks DEF IInv, Started
<1> QED
  BY <1>1, <1>2 DEF Started

LEMMA TypedKept ==
  ASSUME IInv, UNCHANGED <<plan, apart, args, got>>, status' \in StatusOf,
         \A u \in Tasks : (status'[u] = "absent") <=> (status[u] = "absent"),
         \A u \in Tasks : status'[u] \in {"running", "created", "ok"} => got[u] # None,
         dead' \subseteq apart \cup {Bonk}, disk' = [f \in Files |-> disk'[f]]
  PROVE  Typed'
BY DEF IInv, Typed, TypeOK, StatusOf

(* A step that only fails tasks.                                           *)
LEMMA KeptByDown ==
  ASSUME IInv, NEW t \in Tasks, Down(t), UNCHANGED <<plan, apart, args, got>>,
         dead' \subseteq apart \cup {Bonk}, disk' = [f \in Files |-> disk'[f]]
  PROVE  Typed' /\ ArgsKnown' /\ GotKnown' /\ OnlyWritersCreate' /\ Started'
<1>1. \A u \in Tasks : \/ status'[u] = status[u]
                       \/ status'[u] = "failed" /\ status[u] \in {"queued", "running", "created"}
  BY DEF Down
<1>2. \A u \in Tasks : /\ (status'[u] = "absent") <=> (status[u] = "absent")
                       /\ (status'[u] = "ok") <=> (status[u] = "ok")
  BY <1>1
<1>3. status' \in StatusOf
  BY DEF Down
<1>4. \A u \in Tasks : status'[u] \in {"running", "created", "ok"} => got[u] # None
  BY <1>1 DEF IInv, Typed, TypeOK
<1>5. Typed'
  BY <1>2, <1>3, <1>4, TypedKept
<1>6. ArgsKnown'
  BY <1>2, ArgsKept
<1>7. Started'
  BY <1>2, StartedKept, InTasks
<1>8. GotKnown'
  BY <1>1 DEF IInv, GotKnown
<1>9. OnlyWritersCreate'
  BY <1>1 DEF IInv, OnlyWritersCreate
<1> QED
  BY <1>5, <1>6, <1>7, <1>8, <1>9

LEMMA FilesKeptByDown ==
  ASSUME FileKnown, NEW t \in Tasks, Down(t), UNCHANGED <<plan, disk>>
  PROVE  FileKnown'
<1> SUFFICES ASSUME NEW c \in Components, NEW k \in Generators
             PROVE  FileIs(c, plan[c], status', disk[Output(Generated(c, k))])
  BY DEF FileKnown
<1>1. FileIs(c, plan[c], status, disk[Output(Generated(c, k))])
  BY DEF FileKnown
<1>2. \A i \in Generators :
        \/ status'[Generated(c, i)] = status[Generated(c, i)]
        \/ status[Generated(c, i)] # "absent" /\ status'[Generated(c, i)] = "failed"
  BY InTasks DEF Down
<1> QED
  BY <1>1, <1>2, FileStays

(* A task that fails may have written to its file.                         *)
LEMMA FilesOfDown ==
  ASSUME IInv, NEW t \in Writers, Down(t), plan' = plan,
         NEW content, disk' = [disk EXCEPT ![Output(t)] = content]
  PROVE  FileKnown'
<1> SUFFICES ASSUME NEW c \in Components, NEW k \in Generators
             PROVE  FileIs(c, plan[c], status', disk'[Output(Generated(c, k))])
  BY DEF FileKnown
<1>1. /\ Output(Generated(c, k)) = ResourcesFile(c) /\ ResourcesFile(c) \in Files
      /\ Output(t) = ResourcesFile(c) => \E j \in Generators : t = Generated(c, j)
  BY Outputs
<1>2. CASE Output(t) = ResourcesFile(c)
  BY <1>1, <1>2, FileOfFailed DEF Down
<1>3. CASE Output(t) # ResourcesFile(c)
  <2>1. disk'[Output(Generated(c, k))] = disk[Output(Generated(c, k))]
    BY <1>1, <1>3 DEF IInv, Typed
  <2>2. FileIs(c, plan[c], status, disk[Output(Generated(c, k))])
    BY DEF IInv, FileKnown
  <2>3. \A i \in Generators :
          \/ status'[Generated(c, i)] = status[Generated(c, i)]
          \/ status[Generated(c, i)] # "absent" /\ status'[Generated(c, i)] = "failed"
    BY InTasks DEF Down
  <2> QED
    BY <2>1, <2>2, <2>3, FileStays
<1> QED
  BY <1>2, <1>3

-----------------------------------------------------------------------------
(* Every step keeps the invariant.                                         *)

LEMMA Starts ==
  ASSUME Init
  PROVE  IInv
<1>1. PICK command \in {{Platform}, {TestTask, ResourcesTask, KustomizeTask}}, a \in UserArgs :
        /\ status = [t \in Tasks |-> IF t \in command THEN "queued" ELSE "absent"]
        /\ args = [t \in Tasks |-> IF t \in command THEN a ELSE None]
  BY DEF Init
<1>2. command \subseteq UserTasks /\ a # None
  <2>1. IsValue(a)
    BY PluginsAssumption
  <2> QED
    BY <2>1, ValuesAreFlat, KindsOf DEF UserTasks
<1>3. /\ \A c \in Components : status[Component(c)] = "absent"
      /\ \A c \in Components, i \in Generators : status[Generated(c, i)] = "absent"
      /\ \A t \in Tasks : status[t] \in {"absent", "queued"}
  BY <1>1, <1>2, InTasks, TaskIDs
<1>4. /\ plan \in [Components -> BuildPlans] /\ apart \subseteq Plugin /\ dead = {}
      /\ got = [t \in Tasks |-> None] /\ disk = [f \in Files |-> NoFile]
  BY DEF Init
<1>5. Typed
  BY <1>1, <1>2, <1>4 DEF Typed, TypeOK
<1>6. ArgsKnown
  BY <1>1, <1>2, <1>3, InTasks DEF ArgsKnown
<1>7. GotKnown /\ OnlyWritersCreate
  BY <1>3, <1>4 DEF GotKnown, OnlyWritersCreate
<1>8. Started
  <2>1. \A c \in Components : \A i \in Rendered(plan[c]) : i \in Generators
    BY <1>5, ResourcesAre DEF Typed
  <2> QED
    BY <1>3, <2>1, InTasks DEF Started
<1>9. FileKnown
  <2> SUFFICES ASSUME NEW c \in Components, NEW k \in Generators
               PROVE  FileIs(c, plan[c], status, disk[Output(Generated(c, k))])
    BY DEF FileKnown
  <2>1. disk[Output(Generated(c, k))] = NoFile
    BY <1>4, Outputs
  <2> QED
    BY <1>3, <2>1, FileQueued
<1> QED
  BY <1>5, <1>6, <1>7, <1>8, <1>9 DEF IInv

LEMMA DeliverKeeps ==
  ASSUME IInv, NEW t \in Tasks, Deliver(t)
  PROVE  IInv'
<1> DEFINE sent == IF Remote(t) THEN Wire(args[t]) ELSE args[t]
           fails == IF Remote(t) THEN EncodeFails(args[t]) ELSE {}
<1>1. /\ status[t] = "queued" /\ Bonk \notin dead
      /\ UNCHANGED <<plan, apart, args, disk>>
      /\ \/ Panics(Bonk, t) /\ UNCHANGED got
         \/ Fails(t) /\ UNCHANGED <<dead, got>>
         \/ /\ \E a \in UnboxArgs(sent, Params(t)) :
                 IF a = Error THEN Fails(t) /\ UNCHANGED got
                 ELSE /\ got' = [got EXCEPT ![t] = a]
                      /\ status' = [status EXCEPT ![t] = "running"]
            /\ UNCHANGED dead
  BY DEF Deliver, inputs
<1>2. TypeOK /\ dead \subseteq apart \cup {Bonk}
  BY DEF IInv, Typed, TypeOK
<1>3. CASE (Panics(Bonk, t) \/ (Fails(t) /\ UNCHANGED dead)) /\ UNCHANGED got
  <2>1. Down(t)
    BY <1>1, <1>2, <1>3, Downs
  <2>2. dead' \subseteq apart \cup {Bonk}
    BY <1>2, <1>3 DEF Panics
  <2>3. disk' = [f \in Files |-> disk'[f]]
    BY <1>1 DEF IInv, Typed
  <2>4. Typed' /\ ArgsKnown' /\ GotKnown' /\ OnlyWritersCreate' /\ Started'
    BY <1>1, <1>3, <2>1, <2>2, <2>3, KeptByDown
  <2>5. FileKnown'
    BY <1>1, <2>1, FilesKeptByDown DEF IInv
  <2> QED
    BY <2>4, <2>5 DEF IInv
<1>4. ASSUME NEW a \in UnboxArgs(sent, Params(t)), a # Error, UNCHANGED dead,
             got' = [got EXCEPT ![t] = a], status' = [status EXCEPT ![t] = "running"]
      PROVE  IInv'
  <2>1. /\ \A u \in Tasks : status'[u] = IF u = t THEN "running" ELSE status[u]
        /\ status' \in StatusOf
    BY <1>2, <1>4 DEF TypeOK, StatusOf
  <2>2. /\ \A u \in Tasks : got'[u] = IF u = t THEN a ELSE got[u]
        /\ got' = [u \in Tasks |-> got'[u]]
    BY <1>4 DEF IInv, Typed
  <2>3. sent \in {args[t], Wire(args[t])}
    OBVIOUS
  <2> HIDE DEF sent, fails
  <2>4. a # None
    <3>1. Flat(args[t]) /\ (OfType(args[t], Params(t)) => Keys(args[t]) = DOMAIN Params(t).fields)
      BY <1>1, ArgsAre
    <3>2. Params(t) \in Declared
      BY PluginsOfTasks
    <3>3. a = Nil \/ Kind(a) = "struct"
      BY <1>4, <2>3, <3>1, <3>2, Received
    <3> QED
      BY <3>3, KindsOf
  <2>5. \A u \in Tasks : /\ (status'[u] = "absent") <=> (status[u] = "absent")
                         /\ (status'[u] = "ok") <=> (status[u] = "ok")
    BY <1>1, <2>1
  <2>6. Typed'
    BY <1>1, <1>2, <1>4, <2>1, <2>2, <2>4, <2>5 DEF IInv, Typed, TypeOK, StatusOf
  <2>7. ArgsKnown'
    BY <1>1, <2>5, ArgsKept
  <2>8. Started'
    BY <1>1, <2>5, StartedKept, InTasks
  <2>9. GotKnown'
    <3> SUFFICES ASSUME NEW u \in Tasks
                 PROVE  /\ status'[u] \in {"absent", "queued"} => got'[u] = None
                        /\ status'[u] \in {"running", "created"} => got'[u] # None
                        /\ got'[u] # None =>
                             /\ got'[u] # Error
                             /\ \E s \in {args[u], Wire(args[u])} : got'[u] \in UnboxArgs(s, Params(u))
      BY <1>1 DEF GotKnown
    <3>1. CASE u = t
      BY <1>4, <2>1, <2>2, <2>3, <2>4, <3>1
    <3>2. CASE u # t
      BY <2>1, <2>2, <3>2 DEF IInv, GotKnown
    <3> QED
      BY <3>1, <3>2
  <2>10. OnlyWritersCreate'
    BY <2>1 DEF IInv, OnlyWritersCreate
  <2>11. FileKnown'
    <3> SUFFICES ASSUME NEW c \in Components, NEW k \in Generators
                 PROVE  FileIs(c, plan[c], status', disk[Output(Generated(c, k))])
      BY <1>1 DEF FileKnown
    <3>1. FileIs(c, plan[c], status, disk[Output(Generated(c, k))])
      BY DEF IInv, FileKnown
    <3>2. \A i \in Generators :
            \/ status'[Generated(c, i)] = status[Generated(c, i)]
            \/ status[Generated(c, i)] = "queued" /\ status'[Generated(c, i)] = "running"
      BY <1>1, <2>1, InTasks
    <3> QED
      BY <3>1, <3>2, FileStays
  <2> QED
    BY <2>6, <2>7, <2>8, <2>9, <2>10, <2>11 DEF IInv
<1> HIDE DEF sent, fails
<1> QED
  BY <1>1, <1>3, <1>4

(* The steps of executors that end in a panic, an error, or in nothing.    *)
LEMMA NilArgsKeeps ==
  ASSUME IInv, NEW t \in Tasks, NilArgs(t)
  PROVE  IInv'
<1>1. status[t] = "running" /\ Panics(Process(t), t) /\ UNCHANGED <<plan, apart, args, got, disk>>
  BY DEF NilArgs, Running, inputs
<1>2. Down(t)
  BY <1>1, Downs DEF IInv, Typed
<1>3. dead' \subseteq apart \cup {Bonk}
  BY <1>1, Processes DEF IInv, Typed, TypeOK, Panics
<1>4. disk' = [f \in Files |-> disk'[f]]
  BY <1>1 DEF IInv, Typed
<1>5. Typed' /\ ArgsKnown' /\ GotKnown' /\ OnlyWritersCreate' /\ Started'
  BY <1>1, <1>2, <1>3, <1>4, KeptByDown
<1>6. FileKnown'
  BY <1>1, <1>2, FilesKeptByDown DEF IInv
<1> QED
  BY <1>5, <1>6 DEF IInv

LEMMA FailsKeeps ==
  ASSUME IInv, NEW t \in Tasks, status[t] = "running", Fails(t),
         UNCHANGED <<plan, apart, dead, args, got, disk>>
  PROVE  IInv'
<1>1. Down(t)
  BY Downs DEF IInv, Typed
<1>2. dead' \subseteq apart \cup {Bonk} /\ disk' = [f \in Files |-> disk'[f]]
  BY DEF IInv, Typed, TypeOK
<1>3. Typed' /\ ArgsKnown' /\ GotKnown' /\ OnlyWritersCreate' /\ Started'
  BY <1>1, <1>2, KeptByDown
<1>4. FileKnown'
  BY <1>1, FilesKeptByDown DEF IInv
<1> QED
  BY <1>3, <1>4 DEF IInv

(* A task that is done and creates nothing: neither the platform nor one of *)
(* its components.                                                         *)
LEMMA LeafDone ==
  ASSUME IInv, NEW t \in Tasks, status[t] \in {"running", "created"},
         t \notin ComponentTasks \cup {Platform},
         status' = [status EXCEPT ![t] = "ok"], UNCHANGED <<plan, apart, dead, args, got>>,
         disk' = [f \in Files |-> disk'[f]]
  PROVE  Typed' /\ ArgsKnown' /\ GotKnown' /\ OnlyWritersCreate' /\ Started'
<1>1. /\ \A u \in Tasks : status'[u] = IF u = t THEN "ok" ELSE status[u]
      /\ status' \in StatusOf /\ dead' \subseteq apart \cup {Bonk}
  BY DEF IInv, Typed, TypeOK, StatusOf
<1>2. \A u \in Tasks : (status'[u] = "absent") <=> (status[u] = "absent")
  BY <1>1
<1>3. \A u \in Tasks : status'[u] \in {"running", "created", "ok"} => got[u] # None
  BY <1>1 DEF IInv, Typed, TypeOK
<1>4. Typed'
  BY <1>1, <1>2, <1>3, TypedKept
<1>5. ArgsKnown'
  BY <1>2, ArgsKept
<1>6. \A u \in ComponentTasks \cup {Platform} : (status'[u] = "ok") <=> (status[u] = "ok")
  BY <1>1, InTasks
<1>7. Started'
  BY <1>2, <1>6, StartedKept
<1>8. GotKnown'
  BY <1>1 DEF IInv, GotKnown
<1>9. OnlyWritersCreate'
  BY <1>1 DEF IInv, OnlyWritersCreate
<1> QED
  BY <1>4, <1>5, <1>7, <1>8, <1>9

LEMMA FilesElsewhere ==
  ASSUME IInv, plan' = plan,
         \A u \in GeneratedTasks : status'[u] = status[u],
         \A c \in Components, k \in Generators :
           disk'[Output(Generated(c, k))] = disk[Output(Generated(c, k))]
  PROVE  FileKnown'
<1> SUFFICES ASSUME NEW c \in Components, NEW k \in Generators
             PROVE  FileIs(c, plan[c], status', disk'[Output(Generated(c, k))])
  BY DEF FileKnown
<1>1. FileIs(c, plan[c], status, disk[Output(Generated(c, k))])
  BY DEF IInv, FileKnown
<1>2. \A i \in Generators : status'[Generated(c, i)] = status[Generated(c, i)]
  BY InTasks
<1> QED
  BY <1>1, <1>2, FileStays

(* What a task of the command writes is in another file.                   *)
LEMMA WrittenElsewhere ==
  ASSUME IInv, NEW t \in Writers \ GeneratedTasks, NEW content,
         disk' = [disk EXCEPT ![Output(t)] = content]
  PROVE  /\ disk' = [f \in Files |-> disk'[f]]
         /\ \A c \in Components, k \in Generators :
              disk'[Output(Generated(c, k))] = disk[Output(Generated(c, k))]
<1>1. disk' = [f \in Files |-> IF f = Output(t) THEN content ELSE disk[f]]
  BY DEF IInv, Typed
<1>2. ASSUME NEW c \in Components, NEW k \in Generators
      PROVE  Output(Generated(c, k)) \in Files /\ Output(Generated(c, k)) # Output(t)
  <2>1. Output(Generated(c, k)) = ResourcesFile(c) /\ ResourcesFile(c) \in Files
    BY Outputs
  <2>2. Output(t) # ResourcesFile(c)
    <3> SUFFICES ASSUME Output(t) = ResourcesFile(c)
                 PROVE  FALSE
      OBVIOUS
    <3>1. \E j \in Generators : t = Generated(c, j)
      BY Outputs
    <3> QED
      BY <3>1, InTasks
  <2> QED
    BY <2>1, <2>2
<1> QED
  BY <1>1, <1>2

LEMMA TestKeeps ==
  ASSUME IInv, NEW t \in Tasks, Test(t)
  PROVE  IInv'
<1>1. /\ status[t] = "running" /\ t = TestTask /\ Returns(t, NoFollowups)
      /\ UNCHANGED <<plan, apart, got, disk>>
  BY DEF Test, Running, inputs
<1>2. status' = [status EXCEPT ![t] = "ok"] /\ UNCHANGED <<args, dead>>
  BY <1>1, ReturnsNothing DEF IInv, Typed
<1>3. t \notin ComponentTasks \cup {Platform} /\ t \notin GeneratedTasks
  BY <1>1, UserTasksDiffer, TaskIDs DEF ComponentTasks, GeneratedTasks, UserTasks
<1>4. disk' = [f \in Files |-> disk'[f]]
  BY <1>1 DEF IInv, Typed
<1>5. Typed' /\ ArgsKnown' /\ GotKnown' /\ OnlyWritersCreate' /\ Started'
  BY <1>1, <1>2, <1>3, <1>4, LeafDone
<1>6. \A u \in GeneratedTasks : status'[u] = status[u]
  BY <1>2, <1>3, InTasks DEF IInv, Typed, TypeOK
<1>7. FileKnown'
  BY <1>1, <1>6, FilesElsewhere
<1> QED
  BY <1>5, <1>7 DEF IInv

LEMMA KustomizeKeeps ==
  ASSUME IInv, NEW t \in Tasks, Kustomize(t)
  PROVE  IInv'
<1>1. /\ status[t] = "running" /\ t = KustomizeTask /\ UNCHANGED <<plan, apart, got>>
      /\ \/ Fails(t) /\ UNCHANGED <<dead, args, disk>>
         \/ /\ disk' = [disk EXCEPT ![Output(t)] = disk[Output(ResourcesTask)]]
            /\ Returns(t, NoFollowups)
  BY DEF Kustomize, Running, inputs
<1>2. CASE Fails(t) /\ UNCHANGED <<dead, args, disk>>
  BY <1>1, <1>2, FailsKeeps
<1>3. CASE /\ disk' = [disk EXCEPT ![Output(t)] = disk[Output(ResourcesTask)]]
           /\ Returns(t, NoFollowups)
  <2>1. status' = [status EXCEPT ![t] = "ok"] /\ UNCHANGED <<args, dead>>
    BY <1>3, ReturnsNothing DEF IInv, Typed
  <2>2. t \notin ComponentTasks \cup {Platform} /\ t \notin GeneratedTasks /\ t \in Writers
    BY <1>1, UserTasksDiffer, TaskIDs DEF ComponentTasks, GeneratedTasks, UserTasks, Writers
  <2>3. /\ disk' = [f \in Files |-> disk'[f]]
        /\ \A c \in Components, k \in Generators :
             disk'[Output(Generated(c, k))] = disk[Output(Generated(c, k))]
    BY <1>3, <2>2, WrittenElsewhere
  <2>4. Typed' /\ ArgsKnown' /\ GotKnown' /\ OnlyWritersCreate' /\ Started'
    BY <1>1, <2>1, <2>2, <2>3, LeafDone
  <2>5. \A u \in GeneratedTasks : status'[u] = status[u]
    BY <2>1, <2>2, InTasks DEF IInv, Typed, TypeOK
  <2>6. FileKnown'
    BY <1>1, <2>3, <2>5, FilesElsewhere
  <2> QED
    BY <2>4, <2>6 DEF IInv
<1> QED
  BY <1>1, <1>2, <1>3

LEMMA WritersOfResources ==
  ASSUME NEW t \in Tasks, PluginOf(t) = "resources"
  PROVE  /\ t \in Writers /\ t \notin ComponentTasks \cup {Platform}
         /\ t \notin GeneratedTasks => t = ResourcesTask
<1>1. t \notin ComponentTasks
  BY PluginsOfTasks
<1>2. t \in UserTasks \/ t \in GeneratedTasks
  BY <1>1 DEF Tasks
<1>3. t \in UserTasks => t = ResourcesTask
  BY PluginsOfTasks
<1>4. t # Platform
  BY <1>2, <1>3, InTasks, UserTasksDiffer, TaskIDs DEF GeneratedTasks, UserTasks
<1> QED
  BY <1>1, <1>2, <1>3, <1>4 DEF Writers

LEMMA CreateResourcesKeeps ==
  ASSUME IInv, NEW t \in Tasks, CreateResources(t)
  PROVE  IInv'
<1>1. /\ status[t] = "running" /\ PluginOf(t) = "resources" /\ UNCHANGED <<plan, apart, args, got>>
      /\ \/ Fails(t) /\ UNCHANGED <<dead, disk>>
         \/ /\ disk' = [disk EXCEPT ![Output(t)] = Empty]
            /\ \/ Panics(Process(t), t)
               \/ status' = [status EXCEPT ![t] = "created"] /\ UNCHANGED dead
  BY DEF CreateResources, Running, inputs
<1>2. /\ t \in Writers /\ t \notin ComponentTasks \cup {Platform}
      /\ t \notin GeneratedTasks => t = ResourcesTask
  BY <1>1, WritersOfResources
<1>3. CASE Fails(t) /\ UNCHANGED <<dead, disk>>
  BY <1>1, <1>3, FailsKeeps
<1>4. ASSUME disk' = [disk EXCEPT ![Output(t)] = Empty]
      PROVE  disk' = [f \in Files |-> disk'[f]]
  BY <1>4 DEF IInv, Typed
<1>5. CASE disk' = [disk EXCEPT ![Output(t)] = Empty] /\ Panics(Process(t), t)
  <2>1. Down(t)
    BY <1>1, <1>5, Downs DEF IInv, Typed
  <2>2. dead' \subseteq apart \cup {Bonk}
    BY <1>5, Processes DEF IInv, Typed, TypeOK, Panics
  <2>3. Typed' /\ ArgsKnown' /\ GotKnown' /\ OnlyWritersCreate' /\ Started'
    BY <1>1, <1>4, <1>5, <2>1, <2>2, KeptByDown
  <2>4. FileKnown'
    BY <1>1, <1>2, <1>5, <2>1, FilesOfDown
  <2> QED
    BY <2>3, <2>4 DEF IInv
<1>6. CASE /\ disk' = [disk EXCEPT ![Output(t)] = Empty]
           /\ status' = [status EXCEPT ![t] = "created"] /\ UNCHANGED dead
  <2>1. /\ \A u \in Tasks : status'[u] = IF u = t THEN "created" ELSE status[u]
        /\ status' \in StatusOf /\ dead' \subseteq apart \cup {Bonk}
    BY <1>6 DEF IInv, Typed, TypeOK, StatusOf
  <2>2. \A u \in Tasks : (status'[u] = "absent") <=> (status[u] = "absent")
    BY <1>1, <2>1
  <2>3. \A u \in Tasks : status'[u] \in {"running", "created", "ok"} => got[u] # None
    BY <1>1, <2>1 DEF IInv, Typed, TypeOK
  <2>4. Typed'
    BY <1>1, <1>4, <1>6, <2>1, <2>2, <2>3, TypedKept
  <2>5. ArgsKnown'
    BY <1>1, <2>2, ArgsKept
  <2>6. \A u \in ComponentTasks \cup {Platform} : (status'[u] = "ok") <=> (status[u] = "ok")
    BY <1>2, <2>1, InTasks
  <2>7. Started'
    BY <1>1, <2>2, <2>6, StartedKept
  <2>8. GotKnown'
    BY <1>1, <2>1 DEF IInv, GotKnown
  <2>9. OnlyWritersCreate'
    BY <1>1, <2>1 DEF IInv, OnlyWritersCreate
  <2>10. FileKnown'
    <3> SUFFICES ASSUME NEW c \in Components, NEW k \in Generators
                 PROVE  FileIs(c, plan[c], status', disk'[Output(Generated(c, k))])
      BY <1>1 DEF FileKnown
    <3>1. /\ Output(Generated(c, k)) = ResourcesFile(c) /\ ResourcesFile(c) \in Files
          /\ Output(t) = ResourcesFile(c) => \E j \in Generators : t = Generated(c, j)
      BY <1>2, Outputs
    <3>2. disk'[ResourcesFile(c)] = IF Output(t) = ResourcesFile(c) THEN Empty ELSE disk[ResourcesFile(c)]
      BY <1>6, <3>1 DEF IInv, Typed
    <3>3. CASE Output(t) = ResourcesFile(c)
      <4>1. PICK j \in Generators : t = Generated(c, j)
        BY <3>1, <3>3
      <4>2. status'[Generated(c, j)] = "created"
        BY <2>1, <4>1
      <4> QED
        BY <3>1, <3>2, <3>3, <4>2, FileCreated
    <3>4. CASE Output(t) # ResourcesFile(c)
      <4>1. \A i \in Generators : t # Generated(c, i)
        BY <3>4, Outputs
      <4>2. \A i \in Generators : status'[Generated(c, i)] = status[Generated(c, i)]
        BY <2>1, <4>1, InTasks
      <4>3. FileIs(c, plan[c], status, disk[Output(Generated(c, k))])
        BY DEF IInv, FileKnown
      <4> QED
        BY <3>1, <3>2, <3>4, <4>2, <4>3, FileStays
    <3> QED
      BY <3>3, <3>4
  <2> QED
    BY <2>4, <2>5, <2>7, <2>8, <2>9, <2>10 DEF IInv
<1> QED
  BY <1>1, <1>3, <1>5, <1>6

(* Resources arrive as the platform has them, or as what they are sent as. *)
LEMMA GotGenerated ==
  ASSUME IInv, NEW c \in Components, NEW i \in Generators, got[Generated(c, i)] # None
  PROVE  /\ i \in Rendered(plan[c])
         /\ Part(got[Generated(c, i)], "resources") \in {Resources(c, i), Wire(Resources(c, i))}
         /\ Flat(Resources(c, i)) /\ Kind(Resources(c, i)) = "list"
<1> DEFINE t == Generated(c, i)
           r == Resources(c, i)
           a == got[t]
           v == GeneratedArgs(r)
<1>1. /\ status[t] # "absent" /\ a # Error
      /\ \E sent \in {args[t], Wire(args[t])} : a \in UnboxArgs(sent, Params(t))
  BY InTasks DEF IInv, GotKnown
<1>2. i \in Rendered(plan[c]) /\ args[t] \in {v, Wire(v)}
  BY <1>1 DEF IInv, ArgsKnown
<1>3. Flat(r) /\ Kind(r) = "list"
  BY <1>2, ResourcesAre DEF IInv, Typed
<1>4. Params(t) = ResourcesParams /\ ResourcesParams \in Declared
  BY PluginsOfTasks, InTasks DEF Declared
<1> HIDE DEF t, r, a, v
<1>5. /\ Flat(v) /\ Kind(v) = "map" /\ Keys(v) = {"resources"} /\ Part(v, "resources") = r
  BY <1>3, GeneratedArgsAre DEF v
<1>6. PICK sent \in {v, Wire(v)} : a \in UnboxArgs(sent, ResourcesParams)
  BY <1>1, <1>2, <1>4, <1>5, Wires
<1>7. /\ Flat(sent) /\ Kind(sent) = "map" /\ Keys(sent) = {"resources"}
      /\ Part(sent, "resources") \in {r, Wire(r)}
  BY <1>5, <1>6, Wires, PartOfWire
<1>8. Given(a, sent, ResourcesParams)
  BY <1>1, <1>4, <1>6, <1>7, Unboxed DEF OfType
<1>9. sent # Nil /\ r # Nil /\ Wire(r) # Nil /\ Kind(Wire(r)) = "list"
  BY <1>3, <1>7, Wires, KindsOf
<1>10. Keys(a) = {"resources"} /\ Part(a, "resources") = Part(sent, "resources")
  <2>1. DOMAIN ResourcesParams.fields = {"resources"}
    BY DEF ResourcesParams
  <2>2. ~(a = Nil /\ (sent = Nil \/ (Kind(sent) = "struct" /\ ~OfType(sent, ResourcesParams))))
    BY <1>7, <1>9
  <2>3. /\ Keys(a) = {"resources"}
        /\ \A k \in Keys(a) \cap Keys(sent) :
             \/ Part(a, k) = Part(sent, k)
             \/ Part(sent, k) = Nil
             \/ Kind(Part(sent, k)) = "odd"
    BY <1>8, <2>1, <2>2 DEF Given
  <2>4. Part(sent, "resources") # Nil /\ Kind(Part(sent, "resources")) # "odd"
    BY <1>3, <1>7, <1>9
  <2> QED
    BY <1>7, <2>3, <2>4
<1> QED
  BY <1>2, <1>3, <1>7, <1>10 DEF a, r, t

LEMMA AllDocuments ==
  ASSUME NEW r, Flat(r), Kind(r) = "list", NEW p \in {r, Wire(r)}
  PROVE  Documents(p) = p /\ Alike(r, Only(p, Keys(p)))
<1>1. Flat(p) /\ Kind(p) = "list" /\ Alike(r, p)
  BY Wires
<1>2. {q \in DOMAIN p : q = <<>> \/ Head(q) \in Keys(p)} = DOMAIN p
  BY DEF Keys
<1>3. Only(p, Keys(p)) = p
  BY <1>1, <1>2 DEF Only, Flat
<1> QED
  BY <1>1, <1>3 DEF Documents

LEMMA WriteResourcesKeeps ==
  ASSUME IInv, NEW t \in Tasks, WriteResources(t)
  PROVE  IInv'
<1> DEFINE docs == Documents(Part(got[t], "resources"))
<1>1. PICK places \in SUBSET Keys(docs) :
        \E content \in Written(disk[Output(t)], Only(docs, places)) :
          /\ disk' = [disk EXCEPT ![Output(t)] = content]
          /\ IF places = Keys(docs) THEN Returns(t, NoFollowups)
             ELSE Fails(t) /\ UNCHANGED <<dead, args>>
  BY DEF WriteResources
<1>2. PICK content \in Written(disk[Output(t)], Only(docs, places)) :
          /\ disk' = [disk EXCEPT ![Output(t)] = content]
          /\ IF places = Keys(docs) THEN Returns(t, NoFollowups)
             ELSE Fails(t) /\ UNCHANGED <<dead, args>>
  BY <1>1
<1>3. status[t] = "created" /\ UNCHANGED <<plan, apart, got>>
  BY DEF WriteResources, inputs
<1> HIDE DEF docs
<1>4. PluginOf(t) = "resources"
  BY <1>3 DEF IInv, OnlyWritersCreate
<1>5. /\ t \in Writers /\ t \notin ComponentTasks \cup {Platform}
      /\ t \notin GeneratedTasks => t = ResourcesTask
  BY <1>4, WritersOfResources
<1>6. disk' = [f \in Files |-> disk'[f]]
  BY <1>2 DEF IInv, Typed
<1>7. CASE places # Keys(docs)
  <2>1. Fails(t) /\ UNCHANGED <<dead, args>>
    BY <1>2, <1>7
  <2>2. Down(t)
    BY <1>3, <2>1, Downs DEF IInv, Typed
  <2>3. dead' \subseteq apart \cup {Bonk}
    BY <2>1 DEF IInv, Typed, TypeOK
  <2>4. Typed' /\ ArgsKnown' /\ GotKnown' /\ OnlyWritersCreate' /\ Started'
    BY <1>3, <1>6, <2>1, <2>2, <2>3, KeptByDown
  <2>5. FileKnown'
    BY <1>2, <1>3, <1>5, <2>2, FilesOfDown
  <2> QED
    BY <2>4, <2>5 DEF IInv
<1>8. CASE places = Keys(docs)
  <2>1. status' = [status EXCEPT ![t] = "ok"] /\ UNCHANGED <<args, dead>>
    BY <1>2, <1>8, ReturnsNothing DEF IInv, Typed
  <2>2. Typed' /\ ArgsKnown' /\ GotKnown' /\ OnlyWritersCreate' /\ Started'
    BY <1>3, <1>5, <1>6, <2>1, LeafDone
  <2>3. \A u \in Tasks : status'[u] = IF u = t THEN "ok" ELSE status[u]
    BY <2>1 DEF IInv, Typed, TypeOK
  <2>4. FileKnown'
    <3> SUFFICES ASSUME NEW c \in Components, NEW k \in Generators
                 PROVE  FileIs(c, plan[c], status', disk'[Output(Generated(c, k))])
      BY <1>3 DEF FileKnown
    <3>1. /\ Output(Generated(c, k)) = ResourcesFile(c) /\ ResourcesFile(c) \in Files
          /\ Output(t) = ResourcesFile(c) => \E j \in Generators : t = Generated(c, j)
      BY <1>5, Outputs
    <3>2. disk'[ResourcesFile(c)] = IF Output(t) = ResourcesFile(c) THEN content ELSE disk[ResourcesFile(c)]
      BY <1>2, <3>1 DEF IInv, Typed
    <3>3. FileIs(c, plan[c], status, disk[ResourcesFile(c)])
      BY <3>1 DEF IInv, FileKnown
    <3>4. CASE Output(t) = ResourcesFile(c)
      <4>1. PICK j \in Generators : t = Generated(c, j)
        BY <3>1, <3>4
      <4>2. got[t] # None
        BY <1>3 DEF IInv, GotKnown
      <4>3. /\ Part(got[t], "resources") \in {Resources(c, j), Wire(Resources(c, j))}
            /\ Flat(Resources(c, j)) /\ Kind(Resources(c, j)) = "list"
        BY <4>1, <4>2, GotGenerated
      <4>4. Alike(Resources(c, j), Only(docs, places))
        BY <1>8, <4>3, AllDocuments DEF docs
      <4>5. /\ status[Generated(c, j)] = "created" /\ status'[Generated(c, j)] = "ok"
            /\ \A i \in Generators \ {j} : status'[Generated(c, i)] = status[Generated(c, i)]
        BY <1>3, <2>3, <4>1, InTasks, TaskIDs
      <4>6. Alike(plan[c].generators[j].resources, Only(docs, places))
        BY <4>4 DEF Resources
      <4>7. content \in Written(disk[ResourcesFile(c)], Only(docs, places))
        BY <1>2, <3>4
      <4>8. FileIs(c, plan[c], status', content)
        BY <3>3, <4>5, <4>6, <4>7, FileWritten
      <4> QED
        BY <3>1, <3>2, <3>4, <4>8
    <3>5. CASE Output(t) # ResourcesFile(c)
      <4>1. \A i \in Generators : t # Generated(c, i)
        BY <3>5, Outputs
      <4>2. \A i \in Generators : status'[Generated(c, i)] = status[Generated(c, i)]
        BY <2>3, <4>1, InTasks
      <4> QED
        BY <3>1, <3>2, <3>3, <3>5, <4>2, FileStays
    <3> QED
      BY <3>4, <3>5
  <2> QED
    BY <2>2, <2>4 DEF IInv
<1> QED
  BY <1>7, <1>8

(* A task that is done and has followups, which there were not before.     *)
LEMMA DoneKeeps ==
  ASSUME IInv, NEW t \in Tasks, status[t] = "running", NEW f, DOMAIN f \subseteq Tasks \ {t},
         \A u \in DOMAIN f : status[u] = "absent" /\ Flat(f[u]) /\ Kind(f[u]) \in {"struct", "map"},
         Done(t, f), UNCHANGED <<plan, apart, got, disk>>
  PROVE  /\ Typed' /\ GotKnown' /\ OnlyWritersCreate'
         /\ \A u \in Tasks : status'[u] = IF u = t THEN "ok" ELSE IF u \in DOMAIN f THEN "queued" ELSE status[u]
         /\ \A u \in Tasks : IF u \in DOMAIN f THEN args'[u] \in {f[u], Wire(f[u])} ELSE args'[u] = args[u]
<1>1. /\ \A u \in Tasks : status'[u] = IF u = t THEN "ok" ELSE IF u \in DOMAIN f THEN "queued" ELSE status[u]
      /\ \A u \in Tasks : IF u \in DOMAIN f THEN args'[u] \in {f[u], Wire(f[u])} ELSE args'[u] = args[u]
      /\ args' = [u \in Tasks |-> args'[u]]
      /\ dead' = dead
  BY DEF Done
<1>2. status' \in StatusOf
  BY DEF Done, IInv, Typed, TypeOK, StatusOf
<1>3. \A u \in DOMAIN f : args'[u] # None
  <2> SUFFICES ASSUME NEW u \in DOMAIN f
               PROVE  args'[u] # None
    OBVIOUS
  <2>1. Kind(f[u]) # "none" /\ Kind(Wire(f[u])) # "none"
    BY Wires
  <2> QED
    BY <1>1, <2>1, KindsOf
<1>4. \A u \in Tasks : (args'[u] = None) <=> (status'[u] = "absent")
  BY <1>1, <1>3 DEF IInv, Typed, TypeOK
<1>5. \A u \in Tasks : status'[u] \in {"running", "created", "ok"} => got'[u] # None
  BY <1>1 DEF IInv, Typed, TypeOK
<1>6. Typed'
  BY <1>1, <1>2, <1>4, <1>5 DEF IInv, Typed, TypeOK, StatusOf
<1>7. GotKnown'
  <2> SUFFICES ASSUME NEW u \in Tasks
               PROVE  /\ status'[u] \in {"absent", "queued"} => got[u] = None
                      /\ status'[u] \in {"running", "created"} => got[u] # None
                      /\ got[u] # None =>
                           /\ got[u] # Error
                           /\ \E sent \in {args'[u], Wire(args'[u])} : got[u] \in UnboxArgs(sent, Params(u))
    BY DEF GotKnown
  <2>1. CASE u \in DOMAIN f
    BY <1>1, <2>1 DEF IInv, GotKnown
  <2>2. CASE u \notin DOMAIN f
    BY <1>1, <2>2 DEF IInv, GotKnown
  <2> QED
    BY <2>1, <2>2
<1>8. OnlyWritersCreate'
  BY <1>1 DEF IInv, OnlyWritersCreate
<1> QED
  BY <1>1, <1>6, <1>7, <1>8

(* A response that could not be encoded.                                   *)
LEMMA ResponseKeeps ==
  ASSUME IInv, NEW t \in Tasks, Down(t), UNCHANGED <<plan, apart, args, got, disk>>,
         dead' \subseteq dead \cup {Process(t)}
  PROVE  IInv'
<1>1. dead' \subseteq apart \cup {Bonk}
  BY Processes DEF IInv, Typed, TypeOK
<1>2. disk' = [f \in Files |-> disk'[f]]
  BY DEF IInv, Typed
<1>3. Typed' /\ ArgsKnown' /\ GotKnown' /\ OnlyWritersCreate' /\ Started'
  BY <1>1, <1>2, KeptByDown
<1>4. FileKnown'
  BY FilesKeptByDown DEF IInv
<1> QED
  BY <1>3, <1>4 DEF IInv

LEMMA RenderPlatformKeeps ==
  ASSUME IInv, NEW t \in Tasks, RenderPlatform(t)
  PROVE  IInv'
<1> DEFINE f == [u \in ComponentTasks |->
                   Struct("core.Component", [name |-> Text(u[3]), path |-> Text("path")])]
<1>1. /\ status[t] = "running" /\ t = Platform /\ UNCHANGED <<plan, apart, got, disk>>
      /\ \/ Fails(t) /\ UNCHANGED <<dead, args>>
         \/ Returns(t, f)
  BY DEF RenderPlatform, Running, inputs
<1>2. DOMAIN f = ComponentTasks
  OBVIOUS
<1>3. \A c \in Components : f[Component(c)] = ComponentArgs(c)
  BY InTasks, TaskIDs DEF ComponentArgs
<1> HIDE DEF f
<1>4. CASE Fails(t) /\ UNCHANGED <<dead, args>>
  BY <1>1, <1>4, FailsKeeps
<1>5. CASE Returns(t, f)
  <2>1. \/ Done(t, f)
        \/ Down(t) /\ UNCHANGED args /\ dead' \subseteq dead \cup {Process(t)}
    BY <1>1, <1>5, ReturnsIs DEF IInv, Typed
  <2>2. CASE Down(t) /\ UNCHANGED args /\ dead' \subseteq dead \cup {Process(t)}
    BY <1>1, <2>2, ResponseKeeps
  <2>3. CASE Done(t, f)
    <3>1. DOMAIN f \subseteq Tasks \ {t}
      BY <1>1, <1>2, InTasks, TaskIDs DEF ComponentTasks, UserTasks
    <3>2. \A c \in Components : status[Component(c)] = "absent"
      BY <1>1 DEF IInv, Started
    <3>3. \A u \in DOMAIN f : status[u] = "absent" /\ Flat(f[u]) /\ Kind(f[u]) \in {"struct", "map"}
      BY <1>2, <1>3, <3>2, ComponentArgsAre DEF ComponentTasks
    <3>4. /\ Typed' /\ GotKnown' /\ OnlyWritersCreate'
          /\ \A u \in Tasks : status'[u] = IF u = t THEN "ok" ELSE IF u \in DOMAIN f THEN "queued" ELSE status[u]
          /\ \A u \in Tasks : IF u \in DOMAIN f THEN args'[u] \in {f[u], Wire(f[u])} ELSE args'[u] = args[u]
      BY <1>1, <2>3, <3>1, <3>3, DoneKeeps
    <3>5. \A u \in GeneratedTasks : u # t /\ u \notin DOMAIN f /\ u \in Tasks
      BY <1>1, <1>2, InTasks, TaskIDs DEF ComponentTasks, GeneratedTasks, UserTasks
    <3>6. \A u \in UserTasks : u \notin DOMAIN f
      <4>1. \A c \in Components : Component(c) \notin UserTasks
        BY TaskIDs
      <4> QED
        BY <1>2, <4>1 DEF ComponentTasks
    <3>7. ArgsKnown'
      <4>1. \A u \in UserTasks : status'[u] # "absent" => args'[u] \in UserArgs
        BY <1>1, <3>4, <3>6, InTasks DEF IInv, ArgsKnown
      <4>2. \A c \in Components : args'[Component(c)] \in {ComponentArgs(c), Wire(ComponentArgs(c))}
        BY <1>2, <1>3, <3>4, InTasks
      <4>3. ASSUME NEW c \in Components, NEW i \in Generators, status'[Generated(c, i)] # "absent"
            PROVE  /\ i \in Rendered(plan[c])
                   /\ args'[Generated(c, i)] \in {GeneratedArgs(Resources(c, i)), Wire(GeneratedArgs(Resources(c, i)))}
        BY <3>4, <3>5, <4>3, InTasks DEF IInv, ArgsKnown
      <4>4. \A c, i : Resources(c, i)' = Resources(c, i)
        BY <1>1 DEF Resources
      <4> QED
        BY <1>1, <4>1, <4>2, <4>3, <4>4 DEF ArgsKnown
    <3>8. Started'
      <4>1. \A c \in Components : status'[Component(c)] = "queued" /\ status'[Platform] = "ok"
        BY <1>1, <1>2, <3>1, <3>4, InTasks
      <4>2. ASSUME NEW c \in Components, NEW i \in Rendered(plan[c])
            PROVE  status'[Generated(c, i)] = "absent"
        <5>1. i \in Generators
          BY ResourcesAre DEF IInv, Typed
        <5>2. status[Generated(c, i)] = "absent"
          BY <3>2 DEF IInv, Started
        <5> QED
          BY <3>4, <3>5, <5>1, <5>2, InTasks
      <4> QED
        BY <1>1, <4>1, <4>2 DEF Started
    <3>9. FileKnown'
      <4>1. \A u \in GeneratedTasks : status'[u] = status[u]
        BY <3>4, <3>5
      <4> QED
        BY <1>1, <4>1, FilesElsewhere
    <3> QED
      BY <3>4, <3>7, <3>8, <3>9 DEF IInv
  <2> QED
    BY <2>1, <2>2, <2>3
<1> QED
  BY <1>1, <1>4, <1>5

(* The executor of a component is given its name.                          *)
LEMMA GotName ==
  ASSUME IInv, NEW c \in Components, got[Component(c)] # None, got[Component(c)] # Nil
  PROVE  Part(got[Component(c)], "name")[<<>>].text = c
<1> DEFINE t == Component(c)
           a == got[t]
           v == ComponentArgs(c)
<1>1. /\ status[t] # "absent" /\ a # Error
      /\ \E sent \in {args[t], Wire(args[t])} : a \in UnboxArgs(sent, Params(t))
  BY InTasks DEF IInv, GotKnown
<1>2. args[t] \in {v, Wire(v)}
  BY <1>1 DEF IInv, ArgsKnown
<1>3. Params(t) = ComponentParams /\ ComponentParams \in Declared
  BY PluginsOfTasks, InTasks DEF Declared
<1>4. a # Nil
  OBVIOUS
<1> HIDE DEF t, a, v
<1>5. /\ Flat(v) /\ Keys(v) = DOMAIN ComponentParams.fields /\ Part(v, "name") = Text(c)
  BY ComponentArgsAre DEF v
<1>6. PICK sent \in {v, Wire(v)} : a \in UnboxArgs(sent, ComponentParams)
  BY <1>1, <1>2, <1>3, <1>5, Wires
<1>7. "name" \in DOMAIN ComponentParams.fields
  BY DEF ComponentParams
<1>8. Wire(Text(c)) = Text(c)
  BY DEF Wire, WireNode, Text, Single
<1>9. Flat(sent) /\ Keys(sent) = DOMAIN ComponentParams.fields /\ Part(sent, "name") = Text(c)
  BY <1>5, <1>6, <1>7, <1>8, Wires, PartOfWire
<1>10. Given(a, sent, ComponentParams)
  BY <1>1, <1>3, <1>6, <1>9, Unboxed
<1>11. \/ Part(a, "name") = Part(sent, "name")
       \/ Part(sent, "name") = Nil
       \/ Kind(Part(sent, "name")) = "odd"
  BY <1>4, <1>7, <1>9, <1>10 DEF Given
<1>12. Part(a, "name") = Text(c)
  BY <1>9, <1>11, KindsOf
<1> QED
  BY <1>12, KindsOf DEF a, t

LEMMA RenderComponentKeeps ==
  ASSUME IInv, NEW t \in Tasks, RenderComponent(t)
  PROVE  IInv'
<1>1. PICK c \in Components : t = Component(c)
  BY DEF RenderComponent, ComponentTasks
<1>2. Part(got[t], "name")[<<>>].text = c
  BY <1>1, GotName DEF IInv, GotKnown, RenderComponent, Running
<1> DEFINE f == [u \in {Generated(c, i) : i \in Rendered(plan[c])} |->
                   Map([resources |-> plan[c].generators[u[4]].resources])]
<1>3. /\ status[t] = "running" /\ UNCHANGED <<plan, apart, got, disk>>
      /\ \/ Fails(t) /\ UNCHANGED <<dead, args>>
         \/ Returns(t, f)
  BY <1>2 DEF RenderComponent, Running, inputs
<1>4. DOMAIN f = {Generated(c, i) : i \in Rendered(plan[c])}
  OBVIOUS
<1>5. ASSUME NEW i \in Rendered(plan[c])
      PROVE  f[Generated(c, i)] = GeneratedArgs(Resources(c, i))
  BY TaskIDs DEF GeneratedArgs, Resources
<1> HIDE DEF f
<1>6. CASE Fails(t) /\ UNCHANGED <<dead, args>>
  BY <1>3, <1>6, FailsKeeps
<1>7. CASE Returns(t, f)
  <2>1. \/ Done(t, f)
        \/ Down(t) /\ UNCHANGED args /\ dead' \subseteq dead \cup {Process(t)}
    BY <1>3, <1>7, ReturnsIs DEF IInv, Typed
  <2>2. CASE Down(t) /\ UNCHANGED args /\ dead' \subseteq dead \cup {Process(t)}
    BY <1>3, <2>2, ResponseKeeps
  <2>3. CASE Done(t, f)
    <3>1. \A i \in Rendered(plan[c]) :
            /\ i \in Generators /\ status[Generated(c, i)] = "absent"
            /\ Flat(Resources(c, i))
      BY <1>1, <1>3, ResourcesAre DEF IInv, Typed, Started
    <3>2. ASSUME NEW i
          PROVE  Generated(c, i) # t
      BY <1>1, TaskIDs
    <3>3. DOMAIN f \subseteq Tasks \ {t}
      BY <1>4, <3>1, <3>2, InTasks
    <3>4. \A u \in DOMAIN f : status[u] = "absent" /\ Flat(f[u]) /\ Kind(f[u]) \in {"struct", "map"}
      BY <1>4, <1>5, <3>1, GeneratedArgsAre
    <3>5. /\ Typed' /\ GotKnown' /\ OnlyWritersCreate'
          /\ \A u \in Tasks : status'[u] = IF u = t THEN "ok" ELSE IF u \in DOMAIN f THEN "queued" ELSE status[u]
          /\ \A u \in Tasks : IF u \in DOMAIN f THEN args'[u] \in {f[u], Wire(f[u])} ELSE args'[u] = args[u]
      BY <1>3, <2>3, <3>3, <3>4, DoneKeeps
    <3>6. \A u \in UserTasks : u # t /\ u \notin DOMAIN f
      <4>1. t \notin UserTasks /\ \A i : Generated(c, i) \notin UserTasks
        BY <1>1, TaskIDs
      <4> QED
        BY <1>4, <4>1
    <3>7. \A u \in ComponentTasks : u \notin DOMAIN f
      <4>1. \A d, i : Component(d) # Generated(c, i)
        BY TaskIDs
      <4> QED
        BY <1>4, <4>1 DEF ComponentTasks
    <3>8. \A d \in Components, i \in Generators :
            /\ Generated(d, i) # t
            /\ Generated(d, i) \in DOMAIN f <=> d = c /\ i \in Rendered(plan[c])
      <4>1. \A d, i, j : Generated(d, i) # t /\ (Generated(d, i) = Generated(c, j) => d = c /\ i = j)
        BY <1>1, TaskIDs
      <4> QED
        BY <1>4, <4>1
    <3>9. ArgsKnown'
      <4>1. \A u \in UserTasks : status'[u] # "absent" => args'[u] \in UserArgs
        BY <3>5, <3>6, InTasks DEF IInv, ArgsKnown
      <4>2. ASSUME NEW d \in Components, status'[Component(d)] # "absent"
            PROVE  args'[Component(d)] \in {ComponentArgs(d), Wire(ComponentArgs(d))}
        <5>1. status[Component(d)] # "absent" /\ args'[Component(d)] = args[Component(d)]
          BY <1>3, <3>5, <3>7, <4>2, InTasks
        <5> QED
          BY <5>1 DEF IInv, ArgsKnown
      <4>3. ASSUME NEW d \in Components, NEW i \in Generators, status'[Generated(d, i)] # "absent"
            PROVE  /\ i \in Rendered(plan[d])
                   /\ args'[Generated(d, i)] \in {GeneratedArgs(Resources(d, i)), Wire(GeneratedArgs(Resources(d, i)))}
        <5>1. CASE d = c /\ i \in Rendered(plan[c])
          BY <1>5, <3>5, <3>8, <5>1, InTasks
        <5>2. CASE ~(d = c /\ i \in Rendered(plan[c]))
          <6>1. status[Generated(d, i)] # "absent" /\ args'[Generated(d, i)] = args[Generated(d, i)]
            BY <3>5, <3>8, <4>3, <5>2, InTasks
          <6> QED
            BY <6>1 DEF IInv, ArgsKnown
        <5> QED
          BY <5>1, <5>2
      <4>4. \A d, i : Resources(d, i)' = Resources(d, i)
        BY <1>3 DEF Resources
      <4> QED
        BY <1>3, <4>1, <4>2, <4>3, <4>4 DEF ArgsKnown
    <3>10. Started'
      <4>1. ASSUME NEW d \in Components
            PROVE  (status'[Component(d)] # "absent") <=> (status'[Platform] = "ok")
        <5>1. status'[Platform] = status[Platform]
          BY <3>5, <3>6, InTasks DEF UserTasks
        <5>2. (status'[Component(d)] # "absent") <=> (status[Component(d)] # "absent")
          BY <1>3, <3>5, <3>7, InTasks
        <5> QED
          BY <5>1, <5>2 DEF IInv, Started
      <4>2. ASSUME NEW d \in Components, NEW i \in Rendered(plan[d])
            PROVE  (status'[Generated(d, i)] # "absent") <=> (status'[Component(d)] = "ok")
        <5>1. i \in Generators
          BY ResourcesAre DEF IInv, Typed
        <5>2. CASE d = c
          BY <1>1, <3>5, <3>8, <5>1, <5>2, InTasks
        <5>3. CASE d # c
          <6>1. Component(d) # t
            BY <1>1, <5>3, TaskIDs
          <6>2. status'[Component(d)] = status[Component(d)]
            BY <3>5, <3>7, <6>1, InTasks
          <6>3. status'[Generated(d, i)] = status[Generated(d, i)]
            BY <3>5, <3>8, <5>1, <5>3, InTasks
          <6> QED
            BY <6>2, <6>3 DEF IInv, Started
        <5> QED
          BY <5>2, <5>3
      <4> QED
        BY <1>3, <4>1, <4>2 DEF Started
    <3>11. FileKnown'
      <4> SUFFICES ASSUME NEW d \in Components, NEW k \in Generators
                   PROVE  FileIs(d, plan[d], status', disk[Output(Generated(d, k))])
        BY <1>3 DEF FileKnown
      <4>1. FileIs(d, plan[d], status, disk[Output(Generated(d, k))])
        BY DEF IInv, FileKnown
      <4>2. CASE d # c
        <5>1. \A i \in Generators : status'[Generated(d, i)] = status[Generated(d, i)]
          BY <3>5, <3>8, <4>2, InTasks
        <5> QED
          BY <4>1, <5>1, FileStays
      <4>3. CASE d = c
        <5>1. \A i \in Generators : status[Generated(d, i)] = "absent"
          BY <3>1, <4>3 DEF IInv, ArgsKnown
        <5>2. disk[Output(Generated(d, k))] = NoFile
          BY <4>1, <5>1 DEF FileIs
        <5>3. \A i \in Generators : status'[Generated(d, i)] \in {"absent", "queued"}
          BY <3>5, <3>8, <5>1, InTasks
        <5> QED
          BY <5>2, <5>3, FileQueued
      <4> QED
        BY <4>2, <4>3
    <3> QED
      BY <3>5, <3>9, <3>10, <3>11 DEF IInv
  <2> QED
    BY <2>1, <2>2, <2>3
<1> QED
  BY <1>3, <1>6, <1>7

LEMMA StepKeeps ==
  ASSUME IInv, [Next]_vars
  PROVE  IInv'
<1>1. CASE UNCHANGED vars
  <2>1. /\ plan' = plan /\ apart' = apart /\ dead' = dead /\ status' = status
        /\ args' = args /\ got' = got /\ disk' = disk
    BY <1>1 DEF vars
  <2>2. \A c, i : Resources(c, i)' = Resources(c, i)
    BY <2>1 DEF Resources
  <2>3. Typed' /\ GotKnown' /\ OnlyWritersCreate' /\ Started'
    BY <2>1 DEF IInv, Typed, TypeOK, GotKnown, OnlyWritersCreate, Started
  <2>4. ArgsKnown' /\ FileKnown'
    BY <2>1, <2>2 DEF IInv, ArgsKnown, FileKnown
  <2> QED
    BY <2>3, <2>4 DEF IInv
<1>2. ASSUME NEW t \in Tasks, \/ Deliver(t) \/ NilArgs(t) \/ Test(t) \/ RenderPlatform(t)
                              \/ RenderComponent(t) \/ CreateResources(t) \/ WriteResources(t)
                              \/ Kustomize(t)
      PROVE  IInv'
  BY <1>2, DeliverKeeps, NilArgsKeeps, TestKeeps, RenderPlatformKeeps, RenderComponentKeeps,
     CreateResourcesKeeps, WriteResourcesKeeps, KustomizeKeeps
<1> QED
  BY <1>1, <1>2 DEF Next

LEMMA Always == Spec => []IInv
<1>1. Init => IInv
  BY Starts
<1>2. IInv /\ [Next]_vars => IInv'
  BY StepKeeps
<1> QED
  BY <1>1, <1>2, PTL DEF Spec

-----------------------------------------------------------------------------
(* What follows.                                                           *)

(* Whatever happens, tasks have arguments from when they are created, and  *)
(* what an executor was called with is known.                              *)
THEOREM TypesHold == Spec => []TypeOK
<1>1. IInv => TypeOK
  BY DEF IInv, Typed
<1> QED
  BY <1>1, Always, PTL

(* Followups come all or not at all: grpcServer.ExecuteTask encodes all of *)
(* them before it answers.                                                 *)
THEOREM FollowupsTogether == Spec => []AllOrNone
<1>1. IInv => AllOrNone
  BY StartedIs DEF IInv, Typed
<1> QED
  BY <1>1, Always, PTL

(* Executors are given the arguments of their tasks, in the process of the *)
(* build and outside of it.                                                *)
THEOREM ArgsArrive == Spec => []GivenAsCreated
<1>1. ASSUME IInv
      PROVE  GivenAsCreated
  <2> SUFFICES ASSUME NEW t \in Tasks, got[t] # None
               PROVE  IF got[t] = Nil
                      THEN args[t] = Nil \/ (Kind(args[t]) = "struct" /\ ~OfType(args[t], Params(t)))
                      ELSE /\ Keys(got[t]) = DOMAIN Params(t).fields
                           /\ \A k \in Keys(got[t]) \cap Keys(args[t]) :
                                \/ Alike(Part(args[t], k), Part(got[t], k))
                                \/ Part(args[t], k) = Nil
                                \/ /\ Kind(Part(args[t], k)) = "odd"
                                   /\ Part(got[t], k) = Text(Part(args[t], k)[<<>>].text)
    BY DEF GivenAsCreated
  <2>1. Kind(got[t]) = "struct" => got[t] # Nil
    BY KindsOf
  <2> QED
    BY <1>1, <2>1, GotAre
<1> QED
  BY <1>1, Always, PTL

(* Files hold the resources of a generator, or what several of them wrote  *)
(* at once: ExecutorResources truncates the file before it writes.         *)
THEOREM FilesHoldResources == Spec => []ResourcesWritten
<1>1. ASSUME IInv
      PROVE  ResourcesWritten
  <2> SUFFICES ASSUME NEW c \in Components, NEW k \in Generators
               PROVE  LET mine == {i \in Generators : status[Generated(c, i)] # "absent"}
                          file == disk[Output(Generated(c, k))]
                      IN /\ mine = {} => file = NoFile
                         /\ (mine # {} /\ \A i \in mine : status[Generated(c, i)] = "ok") =>
                              \/ \E i \in mine :
                                   /\ ~plan[c].disabled /\ ~plan[c].generators[i].skip
                                   /\ Alike(plan[c].generators[i].resources, file)
                              \/ file = Mixed /\ \E i, j \in mine : i # j
    BY DEF ResourcesWritten
  <2> DEFINE mine == {i \in Generators : status[Generated(c, i)] # "absent"}
             file == disk[Output(Generated(c, k))]
  <2>1. /\ mine = {} => file = NoFile
        /\ \/ \E i \in mine : status[Generated(c, i)] = "failed"
           \/ file = NoFile /\ \A i \in mine : status[Generated(c, i)] \notin {"created", "ok"}
           \/ file = Empty /\ \E i \in mine : status[Generated(c, i)] = "created"
           \/ \E i \in mine : status[Generated(c, i)] = "ok" /\ Alike(plan[c].generators[i].resources, file)
           \/ file = Mixed /\ \E i, j \in mine : i # j
    BY <1>1 DEF IInv, FileKnown, FileIs
  <2>2. \A i \in mine : i \in Rendered(plan[c])
    BY <1>1 DEF IInv, ArgsKnown
  <2>3. \A i \in mine : ~plan[c].disabled /\ ~plan[c].generators[i].skip
    BY <2>2 DEF Rendered
  <2> HIDE DEF mine, file
  <2>4. /\ mine = {} => file = NoFile
        /\ (mine # {} /\ \A i \in mine : status[Generated(c, i)] = "ok") =>
             \/ \E i \in mine :
                  /\ ~plan[c].disabled /\ ~plan[c].generators[i].skip
                  /\ Alike(plan[c].generators[i].resources, file)
             \/ file = Mixed /\ \E i, j \in mine : i # j
    BY <2>1, <2>3
  <2> QED
    BY <2>4 DEF mine, file
<1> QED
  BY <1>1, Always, PTL

-----------------------------------------------------------------------------
(* Crashes.                                                                *)

LEMMA PanicMeansNil ==
  ASSUME NEW v, "panic" \in EncodeFails(v)
  PROVE  HasNil(v)
<1>1. "panic" \in {NodeFails[kind] : kind \in {v[p].kind : p \in DOMAIN v} \cap DOMAIN NodeFails}
  BY DEF EncodeFails, ToProtoFails
<1>2. PICK kind \in {v[p].kind : p \in DOMAIN v} \cap DOMAIN NodeFails : NodeFails[kind] = "panic"
  BY <1>1
<1>3. kind = "nil"
  BY <1>2 DEF NodeFails
<1> QED
  BY <1>2, <1>3 DEF HasNil

(* Arguments of a task do not change: only those that were not there before *)
(* are queued as followups.                                                *)
ArgsStay == \A t \in Tasks : args[t] # None => args'[t] = args[t]

LEMMA PlatformStep ==
  ASSUME IInv, NEW t \in Tasks, RenderPlatform(t)
  PROVE  ArgsStay /\ dead' = dead
<1> DEFINE f == [u \in ComponentTasks |->
                   Struct("core.Component", [name |-> Text(u[3]), path |-> Text("path")])]
<1>1. /\ status[t] = "running" /\ t = Platform
      /\ \/ Fails(t) /\ UNCHANGED <<dead, args>>
         \/ Returns(t, f)
  BY DEF RenderPlatform, Running
<1>2. \A c \in Components : f[Component(c)] = ComponentArgs(c)
  BY InTasks, TaskIDs DEF ComponentArgs
<1>3. DOMAIN f = ComponentTasks
  OBVIOUS
<1> HIDE DEF f
<1>4. \A u \in DOMAIN f : "panic" \notin EncodeFails(f[u])
  BY <1>2, <1>3, ComponentArgsAre, PanicMeansNil DEF ComponentTasks
<1>5. \A u \in DOMAIN f : args[u] = None
  BY <1>1, <1>3, InTasks DEF IInv, Typed, TypeOK, Started, ComponentTasks
<1>6. CASE Fails(t) /\ UNCHANGED <<dead, args>>
  BY <1>6 DEF ArgsStay
<1>7. CASE Returns(t, f)
  <2>1. \/ Done(t, f)
        \/ UNCHANGED args /\ (dead' # dead => \E u \in DOMAIN f : "panic" \in EncodeFails(f[u]))
    BY <1>1, <1>7, ReturnsIs DEF IInv, Typed
  <2> QED
    BY <1>4, <1>5, <2>1 DEF Done, ArgsStay
<1> QED
  BY <1>1, <1>6, <1>7

LEMMA ComponentStep ==
  ASSUME IInv, NEW t \in Tasks, RenderComponent(t)
  PROVE  /\ ArgsStay
         /\ dead' # dead =>
              \E c \in Components : \E i \in DOMAIN plan[c].generators : HasNil(Resources(c, i))
<1>1. PICK c \in Components : t = Component(c)
  BY DEF RenderComponent, ComponentTasks
<1>2. Part(got[t], "name")[<<>>].text = c
  BY <1>1, GotName DEF IInv, GotKnown, RenderComponent, Running
<1> DEFINE f == [u \in {Generated(c, i) : i \in Rendered(plan[c])} |->
                   Map([resources |-> plan[c].generators[u[4]].resources])]
<1>3. /\ status[t] = "running"
      /\ \/ Fails(t) /\ UNCHANGED <<dead, args>>
         \/ Returns(t, f)
  BY <1>2 DEF RenderComponent, Running
<1>4. DOMAIN f = {Generated(c, i) : i \in Rendered(plan[c])}
  OBVIOUS
<1>5. ASSUME NEW i \in Rendered(plan[c])
      PROVE  f[Generated(c, i)] = GeneratedArgs(Resources(c, i))
  BY TaskIDs DEF GeneratedArgs, Resources
<1> HIDE DEF f
<1>6. ASSUME NEW u \in DOMAIN f, "panic" \in EncodeFails(f[u])
      PROVE  \E i \in DOMAIN plan[c].generators : HasNil(Resources(c, i))
  <2>1. PICK i \in Rendered(plan[c]) : u = Generated(c, i)
    BY <1>4
  <2>2. i \in DOMAIN plan[c].generators /\ Flat(Resources(c, i))
    BY ResourcesAre DEF IInv, Typed
  <2>3. HasNil(GeneratedArgs(Resources(c, i)))
    BY <1>5, <1>6, <2>1, PanicMeansNil
  <2> QED
    BY <2>2, <2>3, GeneratedArgsAre
<1>7. \A u \in DOMAIN f : args[u] = None
  <2>1. \A i \in Rendered(plan[c]) : i \in Generators /\ status[Generated(c, i)] = "absent"
    BY <1>1, <1>3, ResourcesAre DEF IInv, Typed, Started
  <2> QED
    BY <1>4, <2>1, InTasks DEF IInv, Typed, TypeOK
<1>8. CASE Fails(t) /\ UNCHANGED <<dead, args>>
  BY <1>8 DEF ArgsStay
<1>9. CASE Returns(t, f)
  <2>1. \/ Done(t, f)
        \/ UNCHANGED args /\ (dead' # dead => \E u \in DOMAIN f : "panic" \in EncodeFails(f[u]))
    BY <1>3, <1>9, ReturnsIs DEF IInv, Typed
  <2> QED
    BY <1>6, <1>7, <2>1 DEF Done, ArgsStay
<1> QED
  BY <1>3, <1>8, <1>9

(* Of the other steps only two can end a process.                          *)
LEMMA OtherSteps ==
  ASSUME IInv, NEW t \in Tasks,
         \/ Deliver(t) \/ NilArgs(t) \/ Test(t) \/ CreateResources(t) \/ WriteResources(t) \/ Kustomize(t)
  PROVE  /\ ArgsStay
         /\ dead' # dead =>
              \/ status[t] # "absent" /\ HasNil(args[t])
              \/ got[t] # None /\ got[t] = Nil
              \/ /\ got[t] # None /\ PluginOf(t) = "resources"
                 /\ Part(got[t], "resources") = Nil
<1>1. TypeOK /\ args = [u \in Tasks |-> args[u]]
  BY DEF IInv, Typed
<1>2. ASSUME status[t] = "running"
      PROVE  got[t] # None
  BY <1>2 DEF IInv, GotKnown
<1>3. CASE Deliver(t)
  <2>1. status[t] # "absent" /\ UNCHANGED args
    BY <1>3 DEF Deliver
  <2>2. dead' # dead => "panic" \in EncodeFails(args[t])
    BY <1>3 DEF Deliver, Fails
  <2> QED
    BY <2>1, <2>2, PanicMeansNil DEF ArgsStay
<1>4. CASE NilArgs(t)
  BY <1>2, <1>4 DEF NilArgs, Running, ArgsStay
<1>5. CASE Test(t)
  BY <1>1, <1>5, ReturnsNothing DEF Test, ArgsStay
<1>6. CASE CreateResources(t)
  BY <1>2, <1>6 DEF CreateResources, Running, ArgsStay
<1>7. CASE WriteResources(t)
  <2>1. Returns(t, NoFollowups) \/ UNCHANGED <<dead, args>>
    BY <1>7 DEF WriteResources
  <2> QED
    BY <1>1, <2>1, ReturnsNothing DEF ArgsStay
<1>8. CASE Kustomize(t)
  BY <1>1, <1>8, ReturnsNothing DEF Kustomize, ArgsStay
<1> QED
  BY <1>3, <1>4, <1>5, <1>6, <1>7, <1>8

LEMMA ArgsStayAlways ==
  ASSUME IInv, [Next]_vars
  PROVE  ArgsStay
<1>1. CASE UNCHANGED vars
  BY <1>1 DEF vars, ArgsStay
<1>2. CASE Next
  BY <1>2, PlatformStep, ComponentStep, OtherSteps DEF Next
<1> QED
  BY <1>1, <1>2

(* Followups never replace the arguments of a task that is there already.  *)
THEOREM ArgsNeverChange == Spec => [][ArgsStay]_vars
<1>1. IInv /\ [Next]_vars => [ArgsStay]_vars
  BY ArgsStayAlways
<1> QED
  BY <1>1, Always, PTL DEF Spec

(* What CrashNeedsNil asks for.                                            *)
Cause ==
  \/ \E t \in Tasks : args[t] # None /\
       \/ HasNil(args[t])
       \/ Kind(args[t]) = "struct" /\ ~OfType(args[t], Params(t))
       \/ PluginOf(t) = "resources" /\ Kind(args[t]) = "map" /\ "resources" \notin Keys(args[t])
  \/ \E c \in Components : \E i \in DOMAIN plan[c].generators : HasNil(Resources(c, i))

LEMMA CauseStays ==
  ASSUME IInv, [Next]_vars, Cause
  PROVE  Cause'
<1>1. plan' = plan
  BY DEF Next, vars, inputs, Deliver, NilArgs, Test, RenderPlatform, RenderComponent,
         CreateResources, WriteResources, Kustomize
<1>2. \A t \in Tasks : args[t] # None => args'[t] = args[t]
  BY ArgsStayAlways DEF ArgsStay
<1>3. \A c, i : Resources(c, i)' = Resources(c, i)
  BY <1>1 DEF Resources
<1> QED
  BY <1>1, <1>2, <1>3 DEF Cause

LEMMA CrashHasCause ==
  ASSUME IInv, [Next]_vars, dead' # dead
  PROVE  Cause
<1>1. PICK t \in Tasks : \/ Deliver(t) \/ NilArgs(t) \/ Test(t) \/ RenderPlatform(t)
                         \/ RenderComponent(t) \/ CreateResources(t) \/ WriteResources(t)
                         \/ Kustomize(t)
  BY DEF Next, vars
<1>2. CASE RenderPlatform(t)
  BY <1>2, PlatformStep
<1>3. CASE RenderComponent(t)
  BY <1>3, ComponentStep DEF Cause
<1>4. ASSUME status[t] # "absent"
      PROVE  Flat(args[t]) /\ args[t] # None
  BY <1>4, ArgsAre
<1>5. CASE status[t] # "absent" /\ HasNil(args[t])
  BY <1>4, <1>5 DEF Cause
<1>6. CASE got[t] # None /\ got[t] = Nil
  <2>1. /\ status[t] # "absent"
        /\ args[t] = Nil \/ (Kind(args[t]) = "struct" /\ ~OfType(args[t], Params(t)))
    BY <1>6, GotAre, KindsOf
  <2>2. HasNil(Nil)
    BY DEF HasNil, Nil, Single
  <2> QED
    BY <1>4, <2>1, <2>2 DEF Cause
<1>7. CASE got[t] # None /\ got[t] # Nil /\ PluginOf(t) = "resources" /\ Part(got[t], "resources") = Nil
  <2>1. Params(t) = ResourcesParams /\ "resources" \in DOMAIN ResourcesParams.fields
    BY <1>7, WritersOfResources, PluginsOfTasks DEF ResourcesParams
  <2>2. /\ status[t] # "absent" /\ "resources" \in Keys(got[t])
        /\ \/ Kind(args[t]) = "map"
           \/ Kind(args[t]) = "struct" /\ ~OfType(args[t], Params(t))
           \/ "resources" \in Keys(args[t])
        /\ "resources" \in Keys(args[t]) => Part(args[t], "resources") = Nil
    BY <1>7, <2>1, GotAre
  <2>3. CASE "resources" \in Keys(args[t])
    <3>1. HasNil(Part(args[t], "resources"))
      BY <2>2, <2>3 DEF HasNil, Nil, Single
    <3>2. HasNil(args[t])
      BY <1>4, <2>2, <2>3, <3>1, NilInside
    <3> QED
      BY <1>4, <2>2, <3>2 DEF Cause
  <2>4. CASE "resources" \notin Keys(args[t])
    BY <1>4, <1>7, <2>2, <2>4 DEF Cause
  <2> QED
    BY <2>3, <2>4
<1> QED
  BY <1>1, <1>2, <1>3, <1>5, <1>6, <1>7, OtherSteps

(* A process ends only when something was nil: toProtoValue and the         *)
(* executors dereference what they are given.                              *)
THEOREM CrashesNeedNil == Spec => []CrashNeedsNil
<1>1. Cause <=> (\/ \E t \in Tasks : args[t] # None /\
                      \/ HasNil(args[t])
                      \/ Kind(args[t]) = "struct" /\ ~OfType(args[t], Params(t))
                      \/ PluginOf(t) = "resources" /\ Kind(args[t]) = "map" /\ "resources" \notin Keys(args[t])
                 \/ \E c \in Components : \E i \in DOMAIN plan[c].generators :
                      HasNil(plan[c].generators[i].resources))
  BY DEF Cause, Resources
<1>2. Init => (dead # {} => Cause)
  BY DEF Init
<1>3. IInv /\ (dead # {} => Cause) /\ [Next]_vars => (dead # {} => Cause)'
  <2> SUFFICES ASSUME IInv, dead # {} => Cause, [Next]_vars, dead' # {}
               PROVE  Cause'
    OBVIOUS
  <2>1. Cause
    BY CrashHasCause
  <2> QED
    BY <2>1, CauseStays
<1>4. (dead # {} => Cause) => CrashNeedsNil
  BY <1>1 DEF CrashNeedsNil
<1> QED
  BY <1>2, <1>3, <1>4, Always, PTL DEF Spec
=============================================================================
