---------------------------- MODULE RouterProofs ----------------------------
(***************************************************************************)
(* Proofs about Router, for any set of names: the tree stays a tree, and   *)
(* to those who register executors it is FlatRegistry's table.             *)
(***************************************************************************)
EXTENDS Router, SequenceTheorems, WellFoundedInduction, TLAPS

-----------------------------------------------------------------------------
(* Paths.                                                                  *)

LEMMA Prefix ==
  ASSUME NEW S, NEW path \in Seq(S), NEW i \in 0..Len(path)
  PROVE  /\ SubSeq(path, 1, i) \in Seq(S)
         /\ Len(SubSeq(path, 1, i)) = i
         /\ \A j \in 1..i : SubSeq(path, 1, i)[j] = path[j]
<1>1. Len(path) \in Nat /\ i \in Int
  OBVIOUS
<1>2. \A j \in 1..i : path[j] \in S
  BY <1>1, ElementOfSeq
<1>3. /\ SubSeq(path, 1, i) \in Seq(S)
      /\ Len(SubSeq(path, 1, i)) = IF 1 <= i THEN i - 1 + 1 ELSE 0
      /\ \A j \in 1..i - 1 + 1 : SubSeq(path, 1, i)[j] = path[1 + j - 1]
  BY <1>1, <1>2, SubSeqProperties
<1> QED
  BY <1>1, <1>3

LEMMA AboveIs ==
  ASSUME NEW S, NEW path \in Seq(S), NEW above
  PROVE  above \in Above(path) <=>
           /\ above \in Seq(S) /\ Len(above) < Len(path)
           /\ \A j \in 1..Len(above) : above[j] = path[j]
<1>1. ASSUME above \in Above(path)
      PROVE  /\ above \in Seq(S) /\ Len(above) < Len(path)
             /\ \A j \in 1..Len(above) : above[j] = path[j]
  <2>1. PICK i \in 0..Len(path) - 1 : above = SubSeq(path, 1, i)
    BY <1>1 DEF Above
  <2>2. Len(path) \in Nat /\ i \in 0..Len(path)
    OBVIOUS
  <2>3. above \in Seq(S) /\ Len(above) = i /\ \A j \in 1..i : above[j] = path[j]
    BY <2>1, <2>2, Prefix
  <2> QED
    BY <2>2, <2>3
<1>2. ASSUME above \in Seq(S), Len(above) < Len(path),
             \A j \in 1..Len(above) : above[j] = path[j]
      PROVE  above \in Above(path)
  <2>1. Len(above) \in 0..Len(path) - 1 /\ Len(above) \in 0..Len(path)
    BY <1>2
  <2> DEFINE n == Len(above)
             prefix == SubSeq(path, 1, n)
  <2>2. prefix \in Seq(S) /\ Len(prefix) = n /\ \A j \in 1..n : prefix[j] = path[j]
    BY <2>1, Prefix
  <2>3. above = prefix
    <3> HIDE DEF prefix
    <3> QED
      BY <1>2, <2>2, SeqEqual
  <2> QED
    BY <2>1, <2>3 DEF Above
<1> QED
  BY <1>1, <1>2

(* Paths above are a strict order.                                         *)
LEMMA AboveOrder ==
  ASSUME NEW S, NEW path \in Seq(S)
  PROVE  /\ Above(path) \subseteq Seq(S)
         /\ path \notin Above(path)
         /\ \A above \in Above(path) : Above(above) \subseteq Above(path)
<1>1. \A above : above \in Above(path) <=>
           /\ above \in Seq(S) /\ Len(above) < Len(path)
           /\ \A j \in 1..Len(above) : above[j] = path[j]
  BY AboveIs
<1>2. path \notin Above(path)
  BY <1>1
<1>3. ASSUME NEW above \in Above(path), NEW top \in Above(above)
      PROVE  top \in Above(path)
  <2>1. above \in Seq(S) /\ Len(above) < Len(path) /\ \A j \in 1..Len(above) : above[j] = path[j]
    BY <1>1
  <2>2. top \in Seq(S) /\ Len(top) < Len(above) /\ \A j \in 1..Len(top) : top[j] = above[j]
    BY <2>1, AboveIs
  <2>3. Len(top) < Len(path) /\ \A j \in 1..Len(top) : top[j] = path[j]
    BY <2>1, <2>2
  <2> QED
    BY <1>1, <2>2, <2>3
<1> QED
  BY <1>1, <1>2, <1>3

LEMMA AboveAppend ==
  ASSUME NEW S, NEW path \in Seq(S), NEW key \in S
  PROVE  Above(Append(path, key)) = Above(path) \cup {path}
<1> DEFINE longer == Append(path, key)
<1>1. /\ longer \in Seq(S) /\ Len(longer) = Len(path) + 1
      /\ \A j \in 1..Len(path) : longer[j] = path[j]
  BY AppendProperties
<1> HIDE DEF longer
<1>2. ASSUME NEW above \in Above(longer) PROVE above \in Above(path) \cup {path}
  <2>1. /\ above \in Seq(S) /\ Len(above) < Len(longer)
        /\ \A j \in 1..Len(above) : above[j] = longer[j]
    BY <1>1, AboveIs
  <2>2. \A j \in 1..Len(above) : above[j] = path[j]
    BY <1>1, <2>1
  <2>3. CASE Len(above) = Len(path)
    BY <2>1, <2>2, <2>3, SeqEqual
  <2>4. CASE Len(above) # Len(path)
    <3>1. Len(above) < Len(path)
      BY <1>1, <2>1, <2>4
    <3> QED
      BY <2>1, <2>2, <3>1, AboveIs
  <2> QED
    BY <2>3, <2>4
<1>3. path \in Above(longer)
  BY <1>1, AboveIs
<1>4. Above(path) \subseteq Above(longer)
  BY <1>1, <1>3, AboveOrder
<1> QED
  BY <1>2, <1>3, <1>4 DEF longer

LEMMA PlainOf ==
  ASSUME NEW name \in Seq(Segments)
  PROVE  /\ name \in Paths
         /\ name # <<>> => Plain(name) = name
         /\ Append(name, Nameless) \in Paths \ Seq(Segments)
         /\ Plain(Append(name, Nameless)) = name
<1> DEFINE longer == Append(name, Nameless)
<1>1. name \in Paths
  BY SeqMonotonic DEF Paths
<1>2. /\ longer \in Paths /\ Len(longer) = Len(name) + 1
      /\ \A j \in 1..Len(name) : longer[j] = name[j]
      /\ longer[Len(longer)] = Nameless
  BY <1>1, AppendProperties DEF Paths
<1> HIDE DEF longer
<1>3. longer \notin Seq(Segments)
  BY <1>2, ElementOfSeq, RouterAssumption
<1>4. ASSUME name # <<>> PROVE Plain(name) = name
  <2>1. name[Len(name)] \in Segments
    BY <1>4
  <2> QED
    BY <2>1, RouterAssumption DEF Plain
<1>5. Plain(longer) = name
  <2>1. Len(longer) - 1 = Len(name) /\ Len(name) \in 0..Len(longer)
    BY <1>2
  <2> DEFINE prefix == SubSeq(longer, 1, Len(longer) - 1)
  <2>2. /\ prefix \in Paths /\ Len(prefix) = Len(name)
        /\ \A j \in 1..Len(name) : prefix[j] = longer[j]
    BY <1>2, <2>1, Prefix DEF Paths
  <2>3. Plain(longer) = prefix
    BY <1>2 DEF Plain
  <2> HIDE DEF prefix
  <2>4. prefix = name
    BY <1>1, <1>2, <2>2, SeqEqual DEF Paths
  <2> QED
    BY <2>3, <2>4
<1> QED
  BY <1>1, <1>2, <1>3, <1>4, <1>5 DEF longer

(* Where the executor of a plain name can be.                              *)
LEMMA PathOfPlain ==
  ASSUME NEW path \in Paths, path # <<>>, Plain(path) \in Seq(Segments)
  PROVE  \/ path = Plain(path)
         \/ path = Append(Plain(path), Nameless)
<1>1. CASE path[Len(path)] # Nameless
  BY <1>1 DEF Plain
<1>2. CASE path[Len(path)] = Nameless
  <2> DEFINE name == SubSeq(path, 1, Len(path) - 1)
             longer == Append(name, Nameless)
  <2>1. Plain(path) = name
    BY <1>2 DEF Plain
  <2>2. Len(path) \in Nat \ {0} /\ Len(path) - 1 \in 0..Len(path)
    BY EmptySeq DEF Paths
  <2>3. name \in Paths /\ Len(name) = Len(path) - 1 /\ \A j \in 1..Len(path) - 1 : name[j] = path[j]
    BY <2>2, Prefix DEF Paths
  <2> HIDE DEF name
  <2>4. /\ longer \in Paths /\ Len(longer) = Len(name) + 1
        /\ \A j \in 1..Len(name) : longer[j] = name[j]
        /\ longer[Len(name) + 1] = Nameless
    BY <2>3, AppendProperties DEF Paths
  <2> HIDE DEF longer
  <2>5. \A j \in 1..Len(path) : longer[j] = path[j]
    BY <1>2, <2>2, <2>3, <2>4
  <2>6. longer = path
    BY <2>2, <2>3, <2>4, <2>5, SeqEqual DEF Paths
  <2> QED
    BY <2>1, <2>6 DEF longer
<1> QED
  BY <1>1, <1>2

-----------------------------------------------------------------------------
(* The type invariant.                                                     *)

LEMMA NameIs ==
  ASSUME NEW name \in Names
  PROVE  /\ name \in Seq(Segments) /\ name # <<>> /\ name \in Paths
         /\ Above(name) \subseteq Seq(Segments) /\ name \notin Above(name)
         /\ Plain(name) = name
         /\ Append(name, Nameless) \in Paths \ Seq(Segments)
         /\ Plain(Append(name, Nameless)) = name
         /\ Above(Append(name, Nameless)) = Above(name) \cup {name}
<1>1. name \in Seq(Segments) /\ name # <<>>
  BY RouterAssumption
<1>2. name \in Paths
  BY <1>1, PlainOf
<1>3. Nameless \in Segments \cup {Nameless}
  OBVIOUS
<1> QED
  BY <1>1, <1>2, <1>3, PlainOf, AboveOrder, AboveAppend DEF Paths

(* There is one place for the executor of a name.                          *)
LEMMA SlotIs ==
  ASSUME TypeOK, NEW name \in Names
  PROVE  /\ Slot(name) \in Paths \ routers
         /\ Plain(Slot(name)) = name
         /\ \A leaf \in leaves : leaf.path = Slot(name) <=> Plain(leaf.path) = name
<1>1. Slot(name) \in Paths \ routers /\ Plain(Slot(name)) = name
  BY NameIs DEF Slot, TypeOK
<1>2. ASSUME NEW leaf \in leaves, Plain(leaf.path) = name PROVE leaf.path = Slot(name)
  <2>1. leaf.path \in LeafPaths /\ leaf.path \in Paths /\ leaf.path # <<>>
    BY DEF TypeOK, LeafPaths
  <2>2. leaf.path = name \/ leaf.path = Append(name, Nameless)
    BY <1>2, <2>1, NameIs, PathOfPlain
  <2>3. CASE leaf.path = name
    BY <2>1, <2>3 DEF Slot, TypeOK
  <2>4. CASE leaf.path = Append(name, Nameless)
    <3>1. name \in routers
      BY <2>1, <2>4, NameIs DEF TypeOK, Nodes
    <3> QED
      BY <2>4, <3>1 DEF Slot
  <2> QED
    BY <2>2, <2>3, <2>4
<1> QED
  BY <1>1, <1>2

(* The executors that RegisterExecutor moves.                              *)
Moved(name, leaf) ==
  IF leaf.path \in Above(name) THEN [leaf EXCEPT !.path = Append(@, Nameless)] ELSE leaf

LEMMA MovedIs ==
  ASSUME TypeOK, NEW name \in Names, NEW leaf \in leaves
  PROVE  /\ Moved(name, leaf) \in [path : Paths, exec : Execs]
         /\ Moved(name, leaf).exec = leaf.exec
         /\ Plain(Moved(name, leaf).path) = Plain(leaf.path)
         /\ leaf.path \notin Above(name) => Moved(name, leaf) = leaf
         /\ leaf.path \in Above(name) =>
              /\ Moved(name, leaf).path = Append(leaf.path, Nameless)
              /\ Moved(name, leaf).path \notin Seq(Segments)
              /\ Above(Moved(name, leaf).path) = Above(leaf.path) \cup {leaf.path}
<1>1. leaf \in [path : Paths, exec : Execs] /\ leaf.path \in LeafPaths /\ leaf.path # <<>>
  BY DEF TypeOK, LeafPaths
<1>2. CASE leaf.path \notin Above(name)
  BY <1>1, <1>2 DEF Moved
<1>3. CASE leaf.path \in Above(name)
  <2>1. leaf.path \in Seq(Segments)
    BY <1>3, NameIs
  <2>2. /\ Append(leaf.path, Nameless) \in Paths \ Seq(Segments)
        /\ Plain(Append(leaf.path, Nameless)) = leaf.path /\ Plain(leaf.path) = leaf.path
    BY <1>1, <2>1, PlainOf
  <2>3. Above(Append(leaf.path, Nameless)) = Above(leaf.path) \cup {leaf.path}
    BY <1>1, AboveAppend DEF Paths
  <2> QED
    BY <1>1, <1>3, <2>2, <2>3 DEF Moved
<1> QED
  BY <1>2, <1>3

LEMMA RegisterStep ==
  ASSUME TypeOK, NEW name \in Names, NEW exec \in Execs, RegisterExecutor(name, exec)
  PROVE  TypeOK'
<1> DEFINE new == [path |-> Slot(name), exec |-> exec]
<1>1. /\ leaves' = {Moved(name, leaf) : leaf \in leaves} \cup {new}
      /\ routers' = routers \cup Above(name)
      /\ duplicate' = FALSE /\ todo' = todo
      /\ Slot(name) \notin LeafPaths
  BY DEF RegisterExecutor, Moved
<1>2. new.path = Slot(name) /\ new.exec = exec
  OBVIOUS
<1>3. new \in [path : Paths, exec : Execs]
  BY SlotIs
<1> HIDE DEF new
<1>4. leaves' \subseteq [path : Paths, exec : Execs]
  BY <1>1, <1>3, MovedIs
<1>5. routers' \subseteq Seq(Segments) /\ routers' \subseteq Paths /\ <<>> \in routers'
  BY <1>1, NameIs, PlainOf DEF TypeOK
<1>6. Slot(name) \notin routers'
  BY <1>1, <1>5, SlotIs, NameIs DEF Slot
<1>7. ASSUME NEW leaf \in leaves
      PROVE  /\ Moved(name, leaf).path \notin routers'
             /\ Above(Moved(name, leaf).path) \subseteq routers'
             /\ Moved(name, leaf).path # Slot(name)
             /\ Plain(Moved(name, leaf).path) \in Seq(Segments)
  <2>1. leaf.path \in LeafPaths
    BY DEF LeafPaths
  <2>2. leaf.path \notin routers /\ Above(leaf.path) \subseteq routers
        /\ Plain(leaf.path) \in Seq(Segments)
    BY <2>1 DEF TypeOK, Nodes
  <2>3. CASE leaf.path \notin Above(name)
    BY <1>1, <2>1, <2>2, <2>3, MovedIs
  <2>4. CASE leaf.path \in Above(name)
    <3>1. Moved(name, leaf).path \notin routers' /\ Above(Moved(name, leaf).path) \subseteq routers'
      <4>1. /\ Moved(name, leaf).path \notin Seq(Segments)
            /\ Above(Moved(name, leaf).path) = Above(leaf.path) \cup {leaf.path}
        BY <2>4, MovedIs
      <4> QED
        BY <1>1, <1>5, <2>2, <2>4, <4>1
    <3>2. Moved(name, leaf).path # Slot(name)
      <4>1. Plain(Moved(name, leaf).path) = leaf.path
        BY <2>4, NameIs, MovedIs, PlainOf, <2>1, <2>2 DEF TypeOK
      <4>2. Plain(Slot(name)) = name
        BY SlotIs
      <4> QED
        BY <2>4, <4>1, <4>2, NameIs
    <3> QED
      BY <2>2, <3>1, <3>2, MovedIs
  <2> QED
    BY <2>3, <2>4
<1>8. LeafPaths' = {Moved(name, leaf).path : leaf \in leaves} \cup {Slot(name)}
  BY <1>1, <1>2 DEF LeafPaths
<1>9. LeafPaths' \cap routers' = {}
  BY <1>6, <1>7, <1>8
<1>10. ASSUME NEW node \in Nodes' PROVE Above(node) \subseteq routers'
  <2>1. CASE node \in routers
    BY <1>1, <2>1 DEF TypeOK, Nodes
  <2>2. CASE node \in Above(name)
    BY <1>1, <2>2, NameIs, AboveOrder
  <2>3. CASE node = Slot(name)
    BY <1>1, <2>3, NameIs DEF Slot
  <2>4. CASE \E leaf \in leaves : node = Moved(name, leaf).path
    BY <1>7, <2>4
  <2> QED
    BY <1>1, <1>8, <2>1, <2>2, <2>3, <2>4 DEF Nodes
<1>11. ASSUME NEW l \in leaves, NEW m \in leaves, Moved(name, l).path = Moved(name, m).path
       PROVE  l = m
  <2>1. l.path \in LeafPaths /\ m.path \in LeafPaths
    BY DEF LeafPaths
  <2>2. Above(l.path) \subseteq routers /\ Above(m.path) \subseteq routers
        /\ l.path \notin routers /\ m.path \notin routers
        /\ l.path \in Paths /\ m.path \in Paths
    BY <2>1 DEF TypeOK, Nodes
  <2>3. l.path = m.path
    <3>1. CASE l.path \in Above(name) /\ m.path \in Above(name)
      <4>1. Append(l.path, Nameless) = Append(m.path, Nameless)
        BY <1>11, <3>1, MovedIs
      <4>2. Nameless \in Segments \cup {Nameless}
        OBVIOUS
      <4>3. \A p, q \in Seq(Segments \cup {Nameless}) :
              Append(p, Nameless) = Append(q, Nameless) => p = q
        BY <4>2, AppendInjective
      <4> QED
        BY <2>2, <4>1, <4>3 DEF Paths
    <3>2. CASE l.path \in Above(name) /\ m.path \notin Above(name)
      BY <1>11, <2>2, <3>2, MovedIs
    <3>3. CASE l.path \notin Above(name) /\ m.path \in Above(name)
      BY <1>11, <2>2, <3>3, MovedIs
    <3>4. CASE l.path \notin Above(name) /\ m.path \notin Above(name)
      BY <1>11, <3>4, MovedIs
    <3> QED
      BY <3>1, <3>2, <3>3, <3>4
  <2> QED
    BY <2>3 DEF TypeOK
<1>12. \A l, m \in leaves' : l.path = m.path => l = m
  BY <1>1, <1>2, <1>7, <1>11
<1>13. \A path \in LeafPaths' : Plain(path) \in Seq(Segments)
  BY <1>7, <1>8, SlotIs, NameIs
<1> QED
  BY <1>1, <1>4, <1>5, <1>9, <1>10, <1>12, <1>13 DEF TypeOK

(* What a turn of UnregisterExecutors removes.                             *)
LEMMA UnregisterIs ==
  ASSUME TypeOK, UnregisterName
  PROVE  \E gone :
           /\ \/ gone = {Slot(Head(todo))}
              \/ /\ gone = {Head(todo), Slot(Head(todo))}
                 /\ Below(Head(todo)) \subseteq {Slot(Head(todo))}
           /\ leaves' = {leaf \in leaves : leaf.path \notin gone}
           /\ routers' = routers \ gone
           /\ todo' \in {<<>>, Tail(todo)} /\ duplicate' = duplicate /\ Head(todo) \in Names
<1>1. Head(todo) \in Names
  BY DEF TypeOK, UnregisterName
<1> DEFINE name == Head(todo)
           gone == IF Below(name) \subseteq {Slot(name)} THEN {name, Slot(name)} ELSE {Slot(name)}
<1>2. /\ leaves' = {leaf \in leaves : leaf.path \notin gone}
      /\ routers' = routers \ gone
      /\ todo' \in {<<>>, Tail(todo)} /\ duplicate' = duplicate
  BY DEF UnregisterName
<1>3. gone = {Slot(name)} \/ (gone = {name, Slot(name)} /\ Below(name) \subseteq {Slot(name)})
  OBVIOUS
<1> QED
  BY <1>1, <1>2, <1>3

LEMMA UnregisterStep ==
  ASSUME TypeOK, UnregisterName
  PROVE  TypeOK'
<1> DEFINE name == Head(todo)
<1>1. PICK gone :
           /\ gone = {Slot(name)} \/ (gone = {name, Slot(name)} /\ Below(name) \subseteq {Slot(name)})
           /\ leaves' = {leaf \in leaves : leaf.path \notin gone}
           /\ routers' = routers \ gone
           /\ todo' \in {<<>>, Tail(todo)} /\ duplicate' = duplicate /\ name \in Names
  BY UnregisterIs
<1>2. todo' \in Seq(Names)
  BY <1>1 DEF TypeOK, UnregisterName
<1> HIDE DEF name
<1>3. LeafPaths' = LeafPaths \ gone /\ Nodes' = Nodes \ gone
  BY <1>1 DEF LeafPaths, Nodes
<1>4. Slot(name) \notin routers /\ name # <<>>
  BY <1>1, SlotIs, NameIs
<1>5. <<>> \in routers'
  BY <1>1, <1>4 DEF TypeOK
<1>6. ASSUME NEW node \in Nodes' PROVE Above(node) \subseteq routers'
  <2>1. node \in Nodes /\ node \notin gone /\ Above(node) \subseteq routers
    BY <1>3 DEF TypeOK
  <2>2. ASSUME name \in gone, name \in Above(node) PROVE FALSE
    <3>1. node \in Below(name)
      BY <2>1, <2>2 DEF Below
    <3> QED
      BY <1>1, <1>4, <2>1, <2>2, <3>1
  <2> QED
    BY <1>1, <1>4, <2>1, <2>2
<1> QED
  BY <1>1, <1>2, <1>3, <1>5, <1>6 DEF TypeOK

LEMMA InitTypeOK == Init => TypeOK
<1> SUFFICES ASSUME Init PROVE TypeOK
  OBVIOUS
<1>1. leaves = {} /\ routers = {<<>>} /\ duplicate = FALSE /\ todo = <<>>
  BY DEF Init
<1>2. LeafPaths = {} /\ Nodes = {<<>>}
  BY <1>1 DEF LeafPaths, Nodes
<1>3. <<>> \in Seq(Segments) /\ <<>> \in Paths /\ <<>> \in Seq(Names)
  BY DEF Paths
<1>4. Above(<<>>) = {}
  BY DEF Above
<1> QED
  BY <1>1, <1>2, <1>3, <1>4 DEF TypeOK

LEMMA TypeOKStays ==
  ASSUME TypeOK, UNCHANGED <<leaves, routers>>, duplicate' \in BOOLEAN, todo' \in Seq(Names)
  PROVE  TypeOK'
BY DEF TypeOK, LeafPaths, Nodes

LEMMA NextTypeOK == TypeOK /\ [Next]_vars => TypeOK'
<1> SUFFICES ASSUME TypeOK, [Next]_vars PROVE TypeOK'
  OBVIOUS
<1>1. CASE \E name \in Names, exec \in Execs : RegisterExecutor(name, exec)
  BY <1>1, RegisterStep
<1>2. CASE \E name \in Names : RefuseDuplicate(name)
  BY <1>2, TypeOKStays DEF RefuseDuplicate, TypeOK
<1>3. CASE \E n \in 1..MaxUnregister : \E names \in [1..n -> Names] : UnregisterExecutors(names)
  <2>1. PICK n \in 1..MaxUnregister : \E names \in [1..n -> Names] : UnregisterExecutors(names)
    BY <1>3
  <2>2. PICK names \in [1..n -> Names] : UnregisterExecutors(names)
    BY <2>1
  <2>3. names \in Seq(Names)
    BY RouterAssumption
  <2> QED
    BY <2>2, <2>3, TypeOKStays DEF UnregisterExecutors, TypeOK
<1>4. CASE UnregisterName
  BY <1>4, UnregisterStep
<1>5. CASE UNCHANGED vars
  BY <1>5, TypeOKStays DEF vars, TypeOK
<1> QED
  BY <1>1, <1>2, <1>3, <1>4, <1>5 DEF Next

(* The tree stays a tree: one node per path, with routers all the way down *)
(* to it, and the key "" only for executors.                               *)
THEOREM TreeStaysTree == Spec => []TypeOK
BY InitTypeOK, NextTypeOK, PTL DEF Spec

-----------------------------------------------------------------------------
(* The flat table.                                                         *)

LEMMA RegisteredIs ==
  \A name : name \in Contract!Registered <=> \E leaf \in leaves : Plain(leaf.path) = name
<1> SUFFICES ASSUME NEW name
             PROVE  name \in Contract!Registered <=> \E leaf \in leaves : Plain(leaf.path) = name
  OBVIOUS
<1> DEFINE Entry(leaf) == [name |-> Plain(leaf.path), exec |-> leaf.exec]
<1>1. name \in Contract!Registered <=> \E leaf \in leaves : name = Entry(leaf).name
  BY Zenon DEF Contract!Registered, registry
<1>2. \A leaf : Entry(leaf).name = Plain(leaf.path)
  OBVIOUS
<1> QED
  BY <1>1, <1>2

LEMMA InitContract == Init => Contract!Init
BY DEF Init, Contract!Init, registry

LEMMA RegisterContract ==
  ASSUME TypeOK, NEW name \in Names, NEW exec \in Execs, RegisterExecutor(name, exec)
  PROVE  Contract!Register(name, exec)
<1> DEFINE new == [path |-> Slot(name), exec |-> exec]
           Entry(leaf) == [name |-> Plain(leaf.path), exec |-> leaf.exec]
<1>1. leaves' = {Moved(name, leaf) : leaf \in leaves} \cup {new} /\ duplicate' = FALSE
  BY DEF RegisterExecutor, Moved
<1>2. Entry(new) = [name |-> name, exec |-> exec]
  BY SlotIs
<1>3. \A leaf \in leaves : Entry(Moved(name, leaf)) = Entry(leaf)
  BY MovedIs
<1>4. registry = {Entry(leaf) : leaf \in leaves} /\ registry' = {Entry(leaf) : leaf \in leaves'}
  BY DEF registry
<1>5. name \notin Contract!Registered
  BY SlotIs, RegisteredIs DEF RegisterExecutor, LeafPaths
<1> HIDE DEF Entry, new
<1>6. registry' = registry \cup {[name |-> name, exec |-> exec]}
  BY <1>1, <1>2, <1>3, <1>4
<1> QED
  BY <1>1, <1>5, <1>6 DEF Contract!Register

LEMMA RefuseContract ==
  ASSUME TypeOK, NEW name \in Names, RefuseDuplicate(name)
  PROVE  Contract!Refuse(name)
<1>1. name \in Contract!Registered
  BY SlotIs, RegisteredIs DEF RefuseDuplicate, LeafPaths
<1>2. UNCHANGED registry
  BY DEF RefuseDuplicate, registry
<1> QED
  BY <1>1, <1>2 DEF Contract!Refuse, RefuseDuplicate

LEMMA UnregisterContract ==
  ASSUME TypeOK, UnregisterName
  PROVE  Head(todo) \in Names /\ Contract!Unregister(Head(todo))
<1> DEFINE name == Head(todo)
<1>1. PICK gone :
           /\ gone = {Slot(name)} \/ (gone = {name, Slot(name)} /\ Below(name) \subseteq {Slot(name)})
           /\ leaves' = {leaf \in leaves : leaf.path \notin gone}
           /\ routers' = routers \ gone
           /\ todo' \in {<<>>, Tail(todo)} /\ duplicate' = duplicate /\ name \in Names
  BY UnregisterIs
<1> HIDE DEF name
<1>2. \A leaf \in leaves : leaf.path \in gone <=> Plain(leaf.path) = name
  BY <1>1, SlotIs, NameIs
<1>3. registry' = {entry \in registry : entry.name # name}
  <2>1. ASSUME NEW entry PROVE entry \in registry' <=> entry \in registry /\ entry.name # name
    BY <1>1, <1>2 DEF registry
  <2> QED
    BY <2>1
<1> QED
  BY <1>1, <1>3 DEF Contract!Unregister, name

(* No registration is lost or renamed by another, a second one for a name  *)
(* is refused, and unregistering takes one name away.                      *)
THEOREM RouterIsTable == Spec => Implements
<1>1. TypeOK /\ [Next]_vars => [Contract!Next]_<<registry, duplicate>>
  <2> SUFFICES ASSUME TypeOK, [Next]_vars
               PROVE  Contract!Next \/ UNCHANGED <<registry, duplicate>>
    OBVIOUS
  <2>1. CASE \E name \in Names, exec \in Execs : RegisterExecutor(name, exec)
    BY <2>1, RegisterContract DEF Contract!Next
  <2>2. CASE \E name \in Names : RefuseDuplicate(name)
    BY <2>2, RefuseContract DEF Contract!Next
  <2>3. CASE \E n \in 1..MaxUnregister : \E names \in [1..n -> Names] : UnregisterExecutors(names)
    BY <2>3 DEF UnregisterExecutors, registry
  <2>4. CASE UnregisterName
    BY <2>4, UnregisterContract DEF Contract!Next
  <2>5. CASE UNCHANGED vars
    BY <2>5 DEF vars, registry
  <2> QED
    BY <2>1, <2>2, <2>3, <2>4, <2>5 DEF Next
<1> QED
  BY <1>1, InitContract, TreeStaysTree, PTL DEF Spec, Implements, Contract!Spec

-----------------------------------------------------------------------------
(* Routing in any tree.                                                    *)

TreePaths(tree) == {other.path : other \in tree}

(* A tree with one node per path and routers all the way down.             *)
IsTree(tree, inner) ==
  /\ tree \subseteq [path : Paths, exec : Execs]
  /\ inner \subseteq Seq(Segments)
  /\ <<>> \in inner
  /\ TreePaths(tree) \cap inner = {}
  /\ \A node \in TreePaths(tree) \cup inner : Above(node) \subseteq inner
  /\ \A l, m \in tree : l.path = m.path => l = m
  /\ \A leaf \in tree : Plain(leaf.path) \in Seq(Segments)

(* The router above the i-th key of a path picks that key.                 *)
Picks(nodes, request, path, i) ==
  LET at == SubSeq(path, 1, i - 1)
  IN \/ path[i] = Segment(request, i)
     \/ /\ path[i] = Wildcard
        /\ Append(at, Segment(request, i)) \notin nodes
     \/ /\ path[i] = Nameless
        /\ Append(at, Segment(request, i)) \notin nodes
        /\ Append(at, Wildcard) \notin nodes

LEMMA ReachesIs ==
  ASSUME NEW nodes, NEW request, NEW path
  PROVE  Reaches(nodes, request, path) <=>
           \A i \in 1..Len(path) : Picks(nodes, request, path, i)
<1> SUFFICES ASSUME NEW i \in 1..Len(path)
             PROVE  (\E k \in DOMAIN SearchKeys(request, i) :
                       /\ path[i] = SearchKeys(request, i)[k]
                       /\ \A j \in 1..k - 1 :
                            Append(SubSeq(path, 1, i - 1), SearchKeys(request, i)[j]) \notin nodes)
                    <=> Picks(nodes, request, path, i)
  BY DEF Reaches
<1> DEFINE at == SubSeq(path, 1, i - 1)
           keys == SearchKeys(request, i)
           Free(k) == \A j \in 1..k - 1 : Append(at, keys[j]) \notin nodes
<1>1. /\ DOMAIN keys = {1, 2, 3}
      /\ keys[1] = Segment(request, i) /\ keys[2] = Wildcard /\ keys[3] = Nameless
  BY DEF SearchKeys
<1> HIDE DEF at, keys
<1>2. /\ Free(1)
      /\ Free(2) <=> Append(at, keys[1]) \notin nodes
      /\ Free(3) <=> Append(at, keys[1]) \notin nodes /\ Append(at, keys[2]) \notin nodes
  <2>1. 1..1 - 1 = {} /\ 1..2 - 1 = {1} /\ 1..3 - 1 = {1, 2}
    OBVIOUS
  <2> QED
    BY <2>1
<1> HIDE DEF Free
<1>3. (\E k \in DOMAIN keys : path[i] = keys[k] /\ Free(k)) <=> Picks(nodes, request, path, i)
  BY <1>1, <1>2 DEF Picks, at
<1> QED
  BY <1>3 DEF keys, at, Free

(* The keys of an executor's path are those of its name, and perhaps "".   *)
LEMMA LeafPathIs ==
  ASSUME NEW tree, NEW inner, IsTree(tree, inner), NEW leaf \in tree
  PROVE  /\ leaf.path \in Paths /\ Plain(leaf.path) \in Seq(Segments) /\ Plain(leaf.path) \in Paths
         /\ leaf.path # <<>>
         /\ \/ leaf.path = Plain(leaf.path)
            \/ /\ leaf.path = Append(Plain(leaf.path), Nameless)
               /\ Plain(leaf.path) \in inner
         /\ Len(leaf.path) \in {Len(Plain(leaf.path)), Len(Plain(leaf.path)) + 1}
         /\ Len(leaf.path) # Len(Plain(leaf.path)) => leaf.path[Len(leaf.path)] = Nameless
         /\ \A i \in 1..Len(Plain(leaf.path)) :
              leaf.path[i] = Plain(leaf.path)[i] /\ leaf.path[i] \in Segments
<1> DEFINE path == leaf.path
           name == Plain(path)
<1>1. path \in Paths /\ name \in Seq(Segments) /\ path # <<>> /\ path \in TreePaths(tree)
  BY DEF IsTree, TreePaths
<1>2. name \in Paths
  BY <1>1, PlainOf
<1>3. path = name \/ path = Append(name, Nameless)
  BY <1>1, PathOfPlain
<1>4. \A i \in 1..Len(name) : name[i] \in Segments
  BY <1>1, ElementOfSeq
<1>5. CASE path = name
  BY <1>1, <1>2, <1>4, <1>5
<1>6. CASE path = Append(name, Nameless)
  <2>1. /\ Len(path) = Len(name) + 1 /\ \A i \in 1..Len(name) : path[i] = name[i]
        /\ path[Len(name) + 1] = Nameless
    BY <1>2, <1>6, AppendProperties DEF Paths
  <2>2. Above(path) = Above(name) \cup {name}
    <3>1. Nameless \in Segments \cup {Nameless}
      OBVIOUS
    <3> HIDE DEF name, path
    <3> QED
      BY <1>2, <1>6, <3>1, AboveAppend DEF Paths
  <2>3. name \in inner
    BY <1>1, <2>2 DEF IsTree
  <2> HIDE DEF name, path
  <2> QED
    BY <1>1, <1>2, <1>4, <1>6, <2>1, <2>3 DEF name, path
<1> QED
  BY <1>3, <1>5, <1>6

(* Two paths of which neither is above the other part at some key.         *)
LEMMA FirstDifference ==
  ASSUME NEW S, NEW s \in Seq(S), NEW t \in Seq(S),
         s # t, s \notin Above(t), t \notin Above(s)
  PROVE  \E i \in 1..Len(s) :
           /\ i \in 1..Len(t)
           /\ s[i] # t[i]
           /\ SubSeq(s, 1, i - 1) = SubSeq(t, 1, i - 1)
<1> DEFINE differ == {i \in 1..Len(s) : i \in 1..Len(t) /\ s[i] # t[i]}
<1>1. differ # {}
  <2> SUFFICES ASSUME \A i \in 1..Len(s) : i \in 1..Len(t) => s[i] = t[i]
               PROVE  FALSE
    OBVIOUS
  <2>1. CASE Len(s) = Len(t)
    BY <2>1, SeqEqual
  <2>2. CASE Len(s) < Len(t)
    <3>1. \A j \in 1..Len(s) : s[j] = t[j]
      BY <2>2
    <3> QED
      BY <2>2, <3>1, AboveIs
  <2>3. CASE Len(t) < Len(s)
    <3>1. \A j \in 1..Len(t) : t[j] = s[j]
      BY <2>3
    <3> QED
      BY <2>3, <3>1, AboveIs
  <2> QED
    BY <2>1, <2>2, <2>3
<1>2. differ \subseteq Nat
  OBVIOUS
<1>3. PICK i \in differ : \A j \in differ : ~(<<j, i>> \in OpToRel(<, Nat))
  <2> HIDE DEF differ
  <2> QED
    BY <1>1, <1>2, NatLessThanWellFounded, WFMin
<1>4. \A j \in differ : ~(j < i)
  BY <1>2, <1>3 DEF OpToRel
<1>5. i \in 1..Len(s) /\ i \in 1..Len(t) /\ s[i] # t[i]
  BY <1>3
<1>6. \A j \in 1..i - 1 : s[j] = t[j]
  BY <1>4, <1>5
<1>7. i - 1 \in 0..Len(s) /\ i - 1 \in 0..Len(t)
  BY <1>5
<1>8. SubSeq(s, 1, i - 1) = SubSeq(t, 1, i - 1)
  <2> DEFINE u == SubSeq(s, 1, i - 1)
             v == SubSeq(t, 1, i - 1)
  <2>1. u \in Seq(S) /\ Len(u) = i - 1 /\ \A j \in 1..i - 1 : u[j] = s[j]
    BY <1>7, Prefix
  <2>2. v \in Seq(S) /\ Len(v) = i - 1 /\ \A j \in 1..i - 1 : v[j] = t[j]
    BY <1>7, Prefix
  <2> HIDE DEF u, v
  <2>3. u = v
    BY <1>6, <2>1, <2>2, SeqEqual
  <2> QED
    BY <2>3 DEF u, v
<1> QED
  BY <1>5, <1>8

(* A prefix of a node is a node.                                           *)
LEMMA NodeAt ==
  ASSUME NEW tree, NEW inner, IsTree(tree, inner),
         NEW path \in TreePaths(tree) \cup inner, path \in Paths, NEW i \in 1..Len(path)
  PROVE  /\ Append(SubSeq(path, 1, i - 1), path[i]) \in TreePaths(tree) \cup inner
         /\ SubSeq(path, 1, i - 1) \in inner
<1> DEFINE at == SubSeq(path, 1, i - 1)
           node == Append(at, path[i])
<1>1. i - 1 \in 0..Len(path) /\ path[i] \in Segments \cup {Nameless} /\ Len(path) \in Nat
  BY ElementOfSeq DEF Paths
<1>2. at \in Paths /\ Len(at) = i - 1 /\ \A j \in 1..i - 1 : at[j] = path[j]
  BY <1>1, Prefix DEF Paths
<1> HIDE DEF at
<1>3. /\ node \in Paths /\ Len(node) = i /\ node[i] = path[i]
      /\ \A j \in 1..i - 1 : node[j] = path[j]
  BY <1>1, <1>2, AppendProperties DEF Paths
<1> HIDE DEF node
<1>4. \A j \in 1..i : node[j] = path[j]
  BY <1>3
<1>5. at \in inner
  <2>1. at \in Above(path)
    BY <1>1, <1>2, AboveIs DEF Paths
  <2> QED
    BY <2>1 DEF IsTree
<1>6. node \in TreePaths(tree) \cup inner
  <2>1. CASE i = Len(path)
    BY <1>3, <1>4, <2>1, SeqEqual DEF Paths
  <2>2. CASE i # Len(path)
    <3>1. node \in Above(path)
      BY <1>1, <1>3, <1>4, <2>2, AboveIs DEF Paths
    <3> QED
      BY <3>1 DEF IsTree
  <2> QED
    BY <2>1, <2>2
<1> QED
  BY <1>5, <1>6 DEF node, at

(* A task comes to one executor at most.                                   *)
LEMMA OneReached ==
  ASSUME NEW tree, NEW inner, IsTree(tree, inner), NEW request,
         NEW l \in tree, NEW m \in tree,
         Reaches(TreePaths(tree) \cup inner, request, l.path),
         Reaches(TreePaths(tree) \cup inner, request, m.path)
  PROVE  l = m
<1> DEFINE nodes == TreePaths(tree) \cup inner
<1>1. /\ l.path \in Paths /\ m.path \in Paths
      /\ l.path \in TreePaths(tree) /\ m.path \in TreePaths(tree)
      /\ l.path \notin inner /\ m.path \notin inner
  BY DEF IsTree, TreePaths
<1>2. l.path \notin Above(m.path) /\ m.path \notin Above(l.path)
  BY <1>1 DEF IsTree
<1> SUFFICES ASSUME l.path # m.path PROVE FALSE
  BY DEF IsTree
<1>3. PICK i \in 1..Len(l.path) :
        /\ i \in 1..Len(m.path)
        /\ l.path[i] # m.path[i]
        /\ SubSeq(l.path, 1, i - 1) = SubSeq(m.path, 1, i - 1)
  BY <1>1, <1>2, FirstDifference DEF Paths
<1>4. Picks(nodes, request, l.path, i) /\ Picks(nodes, request, m.path, i)
  BY <1>3, ReachesIs
<1>5. /\ Append(SubSeq(l.path, 1, i - 1), l.path[i]) \in nodes
      /\ Append(SubSeq(m.path, 1, i - 1), m.path[i]) \in nodes
  BY <1>1, <1>3, NodeAt
<1> HIDE DEF nodes
<1> QED
  BY <1>3, <1>4, <1>5 DEF Picks

Given(leaf, request) ==
  [exec |-> leaf.exec, told |-> Remaining(request, leaf.path)]

LEMMA ExecuteIs ==
  ASSUME NEW tree, NEW inner, NEW request, NEW answer
  PROVE  answer \in Execute(tree, inner, request) <=>
           \E leaf \in tree :
             /\ Reaches(TreePaths(tree) \cup inner, request, leaf.path)
             /\ answer = Given(leaf, request)
BY DEF Execute, TreePaths, Given

(* A task that comes to an executor is given to it, and to no other.       *)
LEMMA OneAnswer ==
  ASSUME NEW tree, NEW inner, IsTree(tree, inner), NEW request, NEW leaf \in tree,
         Reaches(TreePaths(tree) \cup inner, request, leaf.path)
  PROVE  Execute(tree, inner, request)
           = {Given(leaf, request)}
<1>1. Given(leaf, request) \in Execute(tree, inner, request)
  BY ExecuteIs
<1>2. ASSUME NEW answer \in Execute(tree, inner, request)
      PROVE  answer = Given(leaf, request)
  <2>1. PICK other \in tree :
          /\ Reaches(TreePaths(tree) \cup inner, request, other.path)
          /\ answer = Given(other, request)
    BY DEF Execute, TreePaths, Given
  <2> QED
    BY <2>1, OneReached
<1> QED
  BY <1>1, <1>2

(* An executor gets the tasks that name it.                                *)
LEMMA OwnReached ==
  ASSUME NEW tree, NEW inner, IsTree(tree, inner), NEW leaf \in tree, NEW nodes
  PROVE  Reaches(nodes, Plain(leaf.path), leaf.path)
<1> DEFINE path == leaf.path
           name == Plain(path)
<1>1. /\ Len(name) \in Nat
      /\ Len(path) \in {Len(name), Len(name) + 1}
      /\ Len(path) # Len(name) => path[Len(path)] = Nameless
      /\ \A i \in 1..Len(name) : path[i] = name[i]
  BY LeafPathIs
<1> HIDE DEF path, name
<1>2. ASSUME NEW i \in 1..Len(path) PROVE path[i] = Segment(name, i)
  <2>1. CASE i <= Len(name)
    BY <1>1, <2>1 DEF Segment
  <2>2. CASE ~(i <= Len(name))
    <3>1. i = Len(path) /\ Len(path) # Len(name)
      BY <1>1, <2>2
    <3> QED
      BY <1>1, <2>2, <3>1 DEF Segment
  <2> QED
    BY <2>1, <2>2
<1>3. \A i \in 1..Len(path) : Picks(nodes, name, path, i)
  BY <1>2 DEF Picks
<1> QED
  BY <1>3, ReachesIs DEF path, name

(* The names of routers and executors that a task comes to cover it.       *)
LEMMA PickedCovers ==
  ASSUME NEW nodes, NEW request, NEW path, NEW i \in 1..Len(path),
         Picks(nodes, request, path, i), path[i] \in Segments
  PROVE  path[i] = Wildcard \/ (i <= Len(request) /\ path[i] = request[i])
BY RouterAssumption DEF Picks, Segment

LEMMA ReachedCovers ==
  ASSUME NEW tree, NEW inner, IsTree(tree, inner), NEW leaf \in tree, NEW nodes, NEW request,
         Reaches(nodes, request, leaf.path)
  PROVE  Covers(Plain(leaf.path), request)
<1> SUFFICES ASSUME NEW i \in 1..Len(Plain(leaf.path))
             PROVE  \/ Plain(leaf.path)[i] = Wildcard
                    \/ i <= Len(request) /\ Plain(leaf.path)[i] = request[i]
  BY DEF Covers
<1>1. /\ leaf.path[i] = Plain(leaf.path)[i] /\ leaf.path[i] \in Segments
      /\ i \in 1..Len(leaf.path)
  BY LeafPathIs
<1>2. Picks(nodes, request, leaf.path, i)
  BY <1>1, ReachesIs
<1> QED
  BY <1>1, <1>2, PickedCovers

-----------------------------------------------------------------------------
(* Routing in the router's tree.                                           *)

LEMMA LeavesTree == TypeOK => IsTree(leaves, routers)
<1>1. TreePaths(leaves) = LeafPaths
  BY DEF TreePaths, LeafPaths
<1>2. TypeOK => \A leaf \in leaves : Plain(leaf.path) \in Seq(Segments)
  BY DEF TypeOK, LeafPaths
<1> QED
  BY <1>1, <1>2 DEF TypeOK, IsTree, Nodes

LEMMA AnswerIs ==
  ASSUME NEW request, NEW answer
  PROVE  answer \in Answers(request) <=>
           \E leaf \in leaves :
             /\ Reaches(TreePaths(leaves) \cup routers, request, leaf.path)
             /\ answer = Given(leaf, request)
BY DEF Answers, Execute, TreePaths, Given

LEMMA TypedRoutesRight == TypeOK => RoutesRight
<1> SUFFICES ASSUME TypeOK PROVE RoutesRight
  OBVIOUS
<1> DEFINE nodes == TreePaths(leaves) \cup routers
<1>1. IsTree(leaves, routers)
  BY LeavesTree
<1>2. ASSUME NEW leaf \in leaves
      PROVE  Answers(Plain(leaf.path)) = {[exec |-> leaf.exec, told |-> <<>>]}
  <2> DEFINE name == Plain(leaf.path)
  <2>1. Reaches(nodes, name, leaf.path)
    BY <1>1, OwnReached
  <2>2. Remaining(name, leaf.path) = <<>>
    <3>1. Len(name) \in Nat
      BY <1>1, LeafPathIs
    <3>2. Len(name) + 1 \in Int /\ Len(name) \in Int /\ Len(name) < Len(name) + 1
      BY <3>1
    <3> HIDE DEF name
    <3>3. SubSeq(name, Len(name) + 1, Len(name)) = <<>>
      BY <3>2, SubSeqEmpty
    <3> QED
      BY <3>3 DEF Remaining, name
  <2>3. Answers(name) = {Given(leaf, name)}
    BY <1>1, <2>1, OneAnswer DEF Answers
  <2> QED
    BY <2>2, <2>3 DEF name, Given
<1>3. ASSUME NEW request \in Requests, NEW answer \in Answers(request)
      PROVE  \E entry \in registry :
               /\ entry.exec = answer.exec
               /\ Covers(entry.name, request)
               /\ answer.told = SubSeq(request, Len(entry.name) + 1, Len(request))
  <2>1. PICK leaf \in leaves :
          /\ Reaches(nodes, request, leaf.path)
          /\ answer = Given(leaf, request)
    BY AnswerIs
  <2> DEFINE entry == [name |-> Plain(leaf.path), exec |-> leaf.exec]
  <2>2. entry \in registry
    BY DEF registry
  <2>3. Covers(entry.name, request)
    BY <1>1, <2>1, ReachedCovers
  <2>4. answer.told = SubSeq(request, Len(entry.name) + 1, Len(request))
    BY <2>1 DEF Remaining, Given
  <2> QED
    BY <2>1, <2>2, <2>3, <2>4 DEF Given
<1> QED
  BY <1>2, <1>3 DEF RoutesRight

(* However names were registered and unregistered, an executor gets every  *)
(* task that names it, an executor that gets a task has a name that covers *)
(* it, and it is told what follows its name.                               *)
THEOREM RoutesAreRight == Spec => []RoutesRight
BY TreeStaysTree, TypedRoutesRight, PTL

-----------------------------------------------------------------------------
(* The tree that registering the present names afresh builds: every        *)
(* executor has a twin in it.                                              *)

Twin(leaf) ==
  [path |-> IF Plain(leaf.path) \in FreshRouters
            THEN Append(Plain(leaf.path), Nameless) ELSE Plain(leaf.path),
   exec |-> leaf.exec]

FreshNodes == TreePaths(FreshLeaves) \cup FreshRouters

LEMMA FreshLeavesIs == FreshLeaves = {Twin(leaf) : leaf \in leaves}
<1> DEFINE Entry(leaf) == [name |-> Plain(leaf.path), exec |-> leaf.exec]
           Fresh(entry) ==
             [path |-> IF entry.name \in FreshRouters
                       THEN Append(entry.name, Nameless) ELSE entry.name,
              exec |-> entry.exec]
<1>1. \A leaf : Fresh(Entry(leaf)) = Twin(leaf)
  BY DEF Twin
<1>2. FreshLeaves = {Fresh(entry) : entry \in registry} /\ registry = {Entry(leaf) : leaf \in leaves}
  BY DEF FreshLeaves, registry
<1> HIDE DEF Fresh, Entry
<1> QED
  BY <1>1, <1>2

LEMMA FreshRoutersIs ==
  ASSUME TypeOK
  PROVE  /\ FreshRouters \subseteq routers
         /\ <<>> \in FreshRouters
         /\ \A leaf \in leaves : Above(Plain(leaf.path)) \subseteq FreshRouters
         /\ \A path \in FreshRouters : Above(path) \subseteq FreshRouters
<1>1. \A path : path \in FreshRouters <=>
        path = <<>> \/ \E leaf \in leaves : path \in Above(Plain(leaf.path))
  <2>1. ASSUME NEW path
        PROVE  path \in UNION {Above(name) : name \in Contract!Registered} <=>
                 \E leaf \in leaves : path \in Above(Plain(leaf.path))
    <3>1. path \in UNION {Above(name) : name \in Contract!Registered} <=>
            \E name \in Contract!Registered : path \in Above(name)
      OBVIOUS
    <3> QED
      BY <3>1, RegisteredIs
  <2> QED
    BY <2>1 DEF FreshRouters
<1>2. ASSUME NEW leaf \in leaves
      PROVE  /\ Plain(leaf.path) \in Seq(Segments)
             /\ Above(Plain(leaf.path)) \subseteq Above(leaf.path)
             /\ Above(leaf.path) \subseteq routers
  <2>1. /\ Plain(leaf.path) \in Seq(Segments) /\ Plain(leaf.path) \in Paths
        /\ \/ leaf.path = Plain(leaf.path)
           \/ leaf.path = Append(Plain(leaf.path), Nameless)
    BY LeavesTree, LeafPathIs
  <2>2. Nameless \in Segments \cup {Nameless}
    OBVIOUS
  <2>3. Above(Append(Plain(leaf.path), Nameless)) = Above(Plain(leaf.path)) \cup {Plain(leaf.path)}
    BY <2>1, <2>2, AboveAppend DEF Paths
  <2>4. Above(leaf.path) \subseteq routers
    BY DEF TypeOK, Nodes, LeafPaths
  <2> QED
    BY <2>1, <2>3, <2>4
<1>3. Above(<<>>) = {}
  <2>1. 0..Len(<<>>) - 1 = {}
    OBVIOUS
  <2> QED
    BY <2>1 DEF Above
<1>4. ASSUME NEW leaf \in leaves, NEW path \in Above(Plain(leaf.path))
      PROVE  Above(path) \subseteq Above(Plain(leaf.path))
  BY <1>2, AboveOrder
<1>5. <<>> \in routers
  BY DEF TypeOK
<1> QED
  BY <1>1, <1>2, <1>3, <1>4, <1>5

LEMMA TwinIs ==
  ASSUME TypeOK, NEW leaf \in leaves
  PROVE  /\ Twin(leaf) \in FreshLeaves
         /\ Twin(leaf) \in [path : Paths, exec : Execs]
         /\ Plain(Twin(leaf).path) = Plain(leaf.path)
         /\ Twin(leaf).exec = leaf.exec
         /\ Twin(leaf).path \notin FreshRouters
         /\ Above(Twin(leaf).path) \subseteq FreshRouters
         /\ \/ Twin(leaf).path = leaf.path
            \/ /\ Twin(leaf).path = Plain(leaf.path)
               /\ leaf.path = Append(Plain(leaf.path), Nameless)
               /\ Plain(leaf.path) \in routers
<1> DEFINE name == Plain(leaf.path)
<1>1. /\ name \in Seq(Segments) /\ name \in Paths
      /\ leaf.path = name \/ (leaf.path = Append(name, Nameless) /\ name \in routers)
      /\ leaf.exec \in Execs /\ leaf.path \notin routers
  <2>1. leaf.path \in LeafPaths
    BY DEF LeafPaths
  <2> QED
    BY <2>1, LeavesTree, LeafPathIs DEF TypeOK
<1>2. /\ FreshRouters \subseteq routers /\ <<>> \in FreshRouters
      /\ Above(name) \subseteq FreshRouters
      /\ routers \subseteq Seq(Segments)
  BY FreshRoutersIs DEF TypeOK
<1>3. /\ name # <<>> => Plain(name) = name
      /\ Append(name, Nameless) \in Paths \ Seq(Segments)
      /\ Plain(Append(name, Nameless)) = name
  BY <1>1, PlainOf
<1>4. Above(Append(name, Nameless)) = Above(name) \cup {name}
  <2>1. Nameless \in Segments \cup {Nameless}
    OBVIOUS
  <2> QED
    BY <1>1, <2>1, AboveAppend DEF Paths
<1>5. Twin(leaf) \in FreshLeaves
  BY FreshLeavesIs
<1>6. Twin(leaf) = [path |-> IF name \in FreshRouters THEN Append(name, Nameless) ELSE name,
                    exec |-> leaf.exec]
  BY DEF Twin
<1> HIDE DEF name
<1>7. CASE name \in FreshRouters
  <2>1. Twin(leaf).path = Append(name, Nameless) /\ Twin(leaf).exec = leaf.exec
    BY <1>6, <1>7
  <2>2. Twin(leaf) \in [path : Paths, exec : Execs]
    BY <1>1, <1>3, <1>6, <1>7
  <2>3. leaf.path = Append(name, Nameless)
    BY <1>1, <1>2, <1>7
  <2>4. Append(name, Nameless) \notin FreshRouters
    BY <1>2, <1>3
  <2> QED
    BY <1>2, <1>3, <1>4, <1>5, <1>7, <2>1, <2>2, <2>3, <2>4 DEF name
<1>8. CASE name \notin FreshRouters
  <2>1. Twin(leaf).path = name /\ Twin(leaf).exec = leaf.exec
    BY <1>6, <1>8
  <2>2. Twin(leaf) \in [path : Paths, exec : Execs]
    BY <1>1, <1>6, <1>8
  <2> QED
    BY <1>1, <1>2, <1>3, <1>5, <1>8, <2>1, <2>2 DEF name
<1> QED
  BY <1>7, <1>8

LEMMA OnePerName ==
  ASSUME TypeOK, NEW l \in leaves, NEW m \in leaves, Plain(l.path) = Plain(m.path)
  PROVE  l = m
<1>1. /\ l.path \in LeafPaths /\ m.path \in LeafPaths
      /\ LeafPaths \cap routers = {}
      /\ l.path = m.path => l = m
  BY DEF TypeOK, LeafPaths
<1>2. /\ l.path = Plain(l.path) \/ (l.path = Append(Plain(l.path), Nameless) /\ Plain(l.path) \in routers)
      /\ m.path = Plain(m.path) \/ (m.path = Append(Plain(m.path), Nameless) /\ Plain(m.path) \in routers)
  BY LeavesTree, LeafPathIs
<1> QED
  BY <1>1, <1>2

LEMMA FreshTree == TypeOK => IsTree(FreshLeaves, FreshRouters)
<1> SUFFICES ASSUME TypeOK PROVE IsTree(FreshLeaves, FreshRouters)
  OBVIOUS
<1>1. \A new \in FreshLeaves : \E leaf \in leaves : new = Twin(leaf)
  BY FreshLeavesIs
<1>2. FreshLeaves \subseteq [path : Paths, exec : Execs]
  BY <1>1, TwinIs
<1>3. FreshRouters \subseteq Seq(Segments) /\ <<>> \in FreshRouters
  BY FreshRoutersIs DEF TypeOK
<1>4. \A path \in TreePaths(FreshLeaves) : path \notin FreshRouters /\ Above(path) \subseteq FreshRouters
  BY <1>1, TwinIs DEF TreePaths
<1>5. \A l, m \in FreshLeaves : l.path = m.path => l = m
  <2> SUFFICES ASSUME NEW l \in FreshLeaves, NEW m \in FreshLeaves, l.path = m.path
               PROVE  l = m
    OBVIOUS
  <2>1. PICK x \in leaves : l = Twin(x)
    BY <1>1
  <2>2. PICK y \in leaves : m = Twin(y)
    BY <1>1
  <2>3. Plain(x.path) = Plain(y.path)
    BY <2>1, <2>2, TwinIs
  <2> QED
    BY <2>1, <2>2, <2>3, OnePerName
<1>6. \A new \in FreshLeaves : Plain(new.path) \in Seq(Segments)
  BY <1>1, TwinIs, LeavesTree, LeafPathIs
<1> QED
  BY <1>2, <1>3, <1>4, <1>5, <1>6, FreshRoutersIs DEF IsTree

LEMMA FreshNodesKept == TypeOK => FreshNodes \subseteq Nodes
<1> SUFFICES ASSUME TypeOK, NEW path \in TreePaths(FreshLeaves) PROVE path \in Nodes
  BY FreshRoutersIs DEF FreshNodes, Nodes
<1>1. PICK leaf \in leaves : path = Twin(leaf).path
  BY FreshLeavesIs DEF TreePaths
<1>2. leaf.path \in LeafPaths
  BY DEF LeafPaths
<1> QED
  BY <1>1, <1>2, TwinIs DEF Nodes

(* The keys of a twin's path are keys of the executor's.                   *)
LEMMA TwinAbove ==
  ASSUME TypeOK, NEW leaf \in leaves
  PROVE  /\ Twin(leaf).path \in Paths /\ leaf.path \in Paths
         /\ Twin(leaf).path # leaf.path =>
              /\ Len(leaf.path) = Len(Twin(leaf).path) + 1
              /\ leaf.path[Len(leaf.path)] = Nameless
              /\ Twin(leaf).path \notin FreshRouters
              /\ SubSeq(leaf.path, 1, Len(Twin(leaf).path)) = Twin(leaf).path
         /\ Len(Twin(leaf).path) <= Len(leaf.path)
         /\ \A i \in 1..Len(Twin(leaf).path) :
              /\ Twin(leaf).path[i] = leaf.path[i]
              /\ SubSeq(Twin(leaf).path, 1, i - 1) = SubSeq(leaf.path, 1, i - 1)
<1> DEFINE twin == Twin(leaf).path
           path == leaf.path
<1>1. twin \in Paths /\ path \in Paths /\ Len(twin) \in Nat /\ twin \notin FreshRouters
  BY TwinIs, LeavesTree, LeafPathIs DEF Paths
<1>2. path = twin \/ path = Append(twin, Nameless)
  BY TwinIs
<1> HIDE DEF twin, path
<1>3. CASE path = twin
  BY <1>1, <1>3 DEF twin, path
<1>4. CASE path = Append(twin, Nameless)
  <2>1. /\ Len(path) = Len(twin) + 1 /\ \A i \in 1..Len(twin) : path[i] = twin[i]
        /\ path[Len(twin) + 1] = Nameless
    BY <1>1, <1>4, AppendProperties DEF Paths
  <2>2. ASSUME NEW n \in 0..Len(twin) PROVE SubSeq(path, 1, n) = SubSeq(twin, 1, n)
    <3> DEFINE u == SubSeq(path, 1, n)
               v == SubSeq(twin, 1, n)
    <3>1. n \in 0..Len(path) /\ n \in Nat
      BY <1>1, <2>1
    <3>2. u \in Paths /\ Len(u) = n /\ \A j \in 1..n : u[j] = path[j]
      BY <1>1, <3>1, Prefix DEF Paths
    <3>3. v \in Paths /\ Len(v) = n /\ \A j \in 1..n : v[j] = twin[j]
      BY <1>1, Prefix DEF Paths
    <3> HIDE DEF u, v
    <3>4. u = v
      BY <1>1, <2>1, <3>1, <3>2, <3>3, SeqEqual DEF Paths
    <3> QED
      BY <3>4 DEF u, v
  <2>3. SubSeq(twin, 1, Len(twin)) = twin
    BY <1>1, SubSeqFull DEF Paths
  <2>4. SubSeq(path, 1, Len(twin)) = twin
    BY <1>1, <2>2, <2>3
  <2>5. \A i \in 1..Len(twin) : SubSeq(twin, 1, i - 1) = SubSeq(path, 1, i - 1)
    <3> SUFFICES ASSUME NEW i \in 1..Len(twin) PROVE SubSeq(twin, 1, i - 1) = SubSeq(path, 1, i - 1)
      OBVIOUS
    <3>1. i - 1 \in 0..Len(twin)
      BY <1>1
    <3> QED
      BY <2>2, <3>1
  <2> QED
    BY <1>1, <2>1, <2>4, <2>5 DEF twin, path
<1> QED
  BY <1>2, <1>3, <1>4

(* What reaches an executor reaches its twin: fewer nodes hide it.         *)
LEMMA TwinReached ==
  ASSUME TypeOK, NEW leaf \in leaves, NEW request, Reaches(Nodes, request, leaf.path)
  PROVE  Reaches(FreshNodes, request, Twin(leaf).path)
<1> SUFFICES ASSUME NEW i \in 1..Len(Twin(leaf).path)
             PROVE  Picks(FreshNodes, request, Twin(leaf).path, i)
  BY ReachesIs
<1>1. /\ Twin(leaf).path[i] = leaf.path[i]
      /\ SubSeq(Twin(leaf).path, 1, i - 1) = SubSeq(leaf.path, 1, i - 1)
      /\ i \in 1..Len(leaf.path)
  BY TwinAbove DEF Paths
<1>2. Picks(Nodes, request, leaf.path, i)
  BY <1>1, ReachesIs
<1> QED
  BY <1>1, <1>2, FreshNodesKept DEF Picks

(* A node that registering afresh does not bring back is an emptied router.*)
LEMMA LostIsEmptied ==
  ASSUME TypeOK, NEW node \in Nodes \ FreshNodes, node \in Seq(Segments)
  PROVE  node \in Emptied
<1>1. node \notin FreshRouters /\ <<>> \in FreshRouters /\ node \notin TreePaths(FreshLeaves)
  BY FreshRoutersIs DEF FreshNodes
<1>2. ASSUME NEW leaf \in leaves PROVE Plain(leaf.path) # node
  BY <1>1, TwinIs DEF TreePaths, Twin
<1>3. node \notin LeafPaths
  <2> SUFFICES ASSUME NEW leaf \in leaves, leaf.path = node PROVE FALSE
    BY DEF LeafPaths
  <2> QED
    BY <1>1, <1>2, PlainOf
<1>4. ASSUME NEW leaf \in leaves PROVE node \notin Above(leaf.path)
  <2>1. /\ Plain(leaf.path) \in Paths
        /\ leaf.path = Plain(leaf.path) \/ leaf.path = Append(Plain(leaf.path), Nameless)
    BY LeavesTree, LeafPathIs
  <2>2. Nameless \in Segments \cup {Nameless}
    OBVIOUS
  <2>3. Above(Append(Plain(leaf.path), Nameless)) = Above(Plain(leaf.path)) \cup {Plain(leaf.path)}
    BY <2>1, <2>2, AboveAppend DEF Paths
  <2>4. node \notin Above(Plain(leaf.path))
    BY <1>1, FreshRoutersIs
  <2> QED
    BY <1>2, <2>1, <2>3, <2>4
<1>5. Below(node) \cap LeafPaths = {}
  BY <1>4 DEF Below, LeafPaths
<1> QED
  BY <1>1, <1>3, <1>5 DEF Emptied, Nodes

(* A task that comes to the twin and not to the executor was led astray by *)
(* an emptied router.                                                      *)
LEMMA HiddenByEmptied ==
  ASSUME TypeOK, NEW leaf \in leaves, NEW request \in Seq(Segments),
         Reaches(FreshNodes, request, Twin(leaf).path),
         ~Reaches(Nodes, request, leaf.path)
  PROVE  \E path \in Emptied : Covers(path, request)
<1> DEFINE path == leaf.path
           twin == Twin(leaf).path
<1>1. PICK i \in 1..Len(path) : ~Picks(Nodes, request, path, i)
  BY ReachesIs
<1> DEFINE at == SubSeq(path, 1, i - 1)
<1>2. /\ path \in Paths /\ twin \in Paths /\ path \in LeafPaths /\ twin \in TreePaths(FreshLeaves)
      /\ Len(path) \in Nat /\ Len(twin) \in Nat /\ i - 1 \in 0..Len(path)
  BY TwinAbove, TwinIs DEF Paths, LeafPaths, TreePaths
<1>3. at \in Paths /\ Len(at) = i - 1 /\ \A j \in 1..i - 1 : at[j] = path[j]
  BY <1>2, Prefix DEF Paths
<1>4. at \in routers /\ at \in Seq(Segments)
  <2>1. at \in routers
    BY <1>2, LeavesTree, NodeAt DEF LeafPaths, TreePaths
  <2> QED
    BY <2>1 DEF TypeOK
<1>5. /\ Len(twin) <= Len(path)
      /\ \A j \in 1..Len(twin) : twin[j] = path[j] /\ SubSeq(twin, 1, j - 1) = SubSeq(path, 1, j - 1)
      /\ twin # path =>
           /\ Len(path) = Len(twin) + 1 /\ path[Len(path)] = Nameless
           /\ twin \notin FreshRouters /\ SubSeq(path, 1, Len(twin)) = twin
  BY TwinAbove
<1>6. \A j \in 1..Len(twin) : Picks(FreshNodes, request, twin, j)
  BY ReachesIs
<1> HIDE DEF at, path, twin
<1>7. i - 1 <= Len(twin)
  BY <1>2, <1>5
<1>8. ASSUME NEW j \in 1..Len(at)
      PROVE  at[j] = Wildcard \/ (j <= Len(request) /\ at[j] = request[j])
  <2>1. j \in 1..Len(twin) /\ at[j] = twin[j] /\ at[j] \in Segments
    BY <1>2, <1>3, <1>4, <1>5, <1>7, ElementOfSeq
  <2>2. Picks(FreshNodes, request, twin, j)
    BY <1>6, <2>1
  <2> QED
    BY <2>1, <2>2, PickedCovers
<1>9. /\ path[i] # Segment(request, i)
      /\ i <= Len(twin) => SubSeq(twin, 1, i - 1) = at /\ twin[i] = path[i]
      /\ i > Len(twin) => path[i] = Nameless /\ at = twin /\ twin \notin FreshRouters
  <2>1. path[i] # Segment(request, i)
    BY <1>1 DEF Picks
  <2>2. ASSUME i <= Len(twin) PROVE SubSeq(twin, 1, i - 1) = at /\ twin[i] = path[i]
    BY <1>5, <2>2 DEF at
  <2>3. ASSUME i > Len(twin) PROVE path[i] = Nameless /\ at = twin /\ twin \notin FreshRouters
    <3>1. i = Len(path) /\ twin # path /\ i - 1 = Len(twin)
      BY <1>2, <1>5, <2>3
    <3> QED
      BY <1>5, <3>1 DEF at
  <2> QED
    BY <2>1, <2>2, <2>3
<1>10. PICK key \in {Segment(request, i), Wildcard} : Append(at, key) \in Nodes \ FreshNodes
  <2>1. CASE i <= Len(twin)
    <3>1. Picks(FreshNodes, request, twin, i)
      BY <1>2, <1>6, <2>1
    <3> QED
      BY <1>1, <1>9, <2>1, <3>1 DEF Picks, at
  <2>2. CASE i > Len(twin)
    <3>1. PICK key \in {Segment(request, i), Wildcard} : Append(at, key) \in Nodes
      BY <1>1, <1>9, <2>2 DEF Picks, at
    <3>2. key \in Segments \cup {Nameless}
      BY RouterAssumption, ElementOfSeq DEF Segment
    <3>3. at \in Above(Append(at, key))
      BY <1>3, <3>2, AboveAppend DEF Paths
    <3>4. Append(at, key) \notin FreshNodes
      BY <1>9, <2>2, <3>3, FreshTree DEF IsTree, FreshNodes
    <3> QED
      BY <3>1, <3>4
  <2> QED
    BY <1>2, <2>1, <2>2
<1>11. key \in Segments
  <2> SUFFICES ASSUME key \notin Segments PROVE FALSE
    OBVIOUS
  <2>1. key = Nameless /\ key = Segment(request, i)
    BY RouterAssumption, ElementOfSeq DEF Segment
  <2>2. i <= Len(twin)
    BY <1>2, <1>9, <2>1
  <2>3. /\ Append(at, Nameless) \in Paths \ Seq(Segments)
        /\ Plain(Append(at, Nameless)) = at
    BY <1>4, PlainOf
  <2>4. Append(at, key) \notin routers
    BY <2>1, <2>3 DEF TypeOK
  <2>5. PICK other \in leaves : other.path = Append(at, key)
    BY <1>10, <2>4 DEF Nodes, LeafPaths
  <2>6. at \in FreshRouters
    <3>1. i \in 1..Len(twin)
      BY <1>2, <2>2
    <3>2. SubSeq(twin, 1, i - 1) \in FreshRouters
      BY <1>2, <3>1, FreshTree, NodeAt
    <3> QED
      BY <1>9, <2>2, <3>2
  <2>7. Twin(other).path = Append(at, key) /\ Twin(other) \in FreshLeaves
    <3>1. Plain(other.path) = at
      BY <2>1, <2>3, <2>5
    <3> QED
      BY <2>1, <2>6, <3>1, TwinIs DEF Twin
  <2> QED
    BY <1>10, <2>7 DEF FreshNodes, TreePaths
<1> DEFINE hidden == Append(at, key)
<1>12. /\ hidden \in Seq(Segments) /\ Len(hidden) = i /\ hidden[i] = key
       /\ \A j \in 1..Len(at) : hidden[j] = at[j]
  BY <1>3, <1>4, <1>11, AppendProperties
<1>13. hidden \in Emptied
  BY <1>10, <1>12, LostIsEmptied
<1> HIDE DEF hidden
<1>14. ASSUME NEW j \in 1..Len(hidden)
       PROVE  hidden[j] = Wildcard \/ (j <= Len(request) /\ hidden[j] = request[j])
  <2>1. CASE j \in 1..Len(at)
    BY <1>8, <1>12, <2>1
  <2>2. CASE j \notin 1..Len(at)
    <3>1. j = i
      BY <1>3, <1>12, <2>2
    <3> QED
      BY <1>11, <1>12, <3>1, RouterAssumption DEF Segment
  <2> QED
    BY <2>1, <2>2
<1> QED
  BY <1>13, <1>14 DEF Covers

LEMMA TypedOnlyEmptiedHide == TypeOK => OnlyEmptiedHide
<1> SUFFICES ASSUME TypeOK, NEW request \in Requests
             PROVE  \/ Answers(request) = Execute(FreshLeaves, FreshRouters, request)
                    \/ /\ Answers(request) = {}
                       /\ \E path \in Emptied : Covers(path, request)
  BY DEF OnlyEmptiedHide
<1>1. IsTree(leaves, routers) /\ IsTree(FreshLeaves, FreshRouters)
  BY LeavesTree, FreshTree
<1>2. TreePaths(leaves) \cup routers = Nodes /\ request \in Seq(Segments)
  BY RouterAssumption DEF TreePaths, LeafPaths, Nodes
<1>3. CASE \E leaf \in leaves : Reaches(Nodes, request, leaf.path)
  <2>1. PICK leaf \in leaves : Reaches(Nodes, request, leaf.path)
    BY <1>3
  <2>2. Answers(request) = {Given(leaf, request)}
    BY <1>1, <1>2, <2>1, OneAnswer DEF Answers
  <2>3. Reaches(FreshNodes, request, Twin(leaf).path) /\ Twin(leaf) \in FreshLeaves
    BY <2>1, TwinReached, TwinIs
  <2>4. Execute(FreshLeaves, FreshRouters, request)
          = {Given(Twin(leaf), request)}
    BY <1>1, <2>3, OneAnswer DEF FreshNodes
  <2>5. Given(Twin(leaf), request) = Given(leaf, request)
    BY TwinIs DEF Given, Remaining
  <2> QED
    BY <2>2, <2>4, <2>5
<1>4. CASE \A leaf \in leaves : ~Reaches(Nodes, request, leaf.path)
  <2>1. Answers(request) = {}
    BY <1>2, <1>4, AnswerIs
  <2>2. CASE Execute(FreshLeaves, FreshRouters, request) = {}
    BY <2>1, <2>2
  <2>3. CASE Execute(FreshLeaves, FreshRouters, request) # {}
    <3>1. PICK answer : answer \in Execute(FreshLeaves, FreshRouters, request)
      BY <2>3
    <3>2. PICK new \in FreshLeaves : Reaches(FreshNodes, request, new.path)
      BY <3>1, ExecuteIs DEF FreshNodes
    <3>3. PICK leaf \in leaves : new = Twin(leaf)
      BY FreshLeavesIs
    <3> QED
      BY <1>2, <1>4, <2>1, <3>2, <3>3, HiddenByEmptied
  <2> QED
    BY <2>2, <2>3
<1> QED
  BY <1>3, <1>4

(* What was registered and unregistered before does not matter to a task,  *)
(* unless a router that was emptied and left behind hides from it what     *)
(* covers it.                                                              *)
THEOREM PastHidesByEmptied == Spec => []OnlyEmptiedHide
BY TreeStaysTree, TypedOnlyEmptiedHide, PTL
=============================================================================
