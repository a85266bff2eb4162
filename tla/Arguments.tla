----------------------------- MODULE Arguments -----------------------------
(***************************************************************************)
(* The arguments of a task on their way to its executor.                   *)
(*                                                                         *)
(* Task.Args is any Go value.  An executor of the same process is given it *)
(* as a pointer to the struct it declares (pkg/executor/argconv); between  *)
(* processes it goes through a protobuf value first (pkg/executor/rpc),    *)
(* which knows neither structs nor integers.                               *)
(***************************************************************************)
EXTENDS Naturals, Sequences

CONSTANTS
  Names,    \* what the keys of a value may be
  Exact     \* integers up to this one are float64 values: 2^53

ASSUME ExactAssumption == Exact \in Nat

(***************************************************************************)
(* A value is laid out flat: a function from the keys that lead to each of *)
(* its parts, <<>> for the whole, to the node there.  The keys are those of*)
(* a map, the names of fields, and the places of a list, as text.  The     *)
(* kinds are reflect's, as far as the code tells them apart; "odd" is a    *)
(* type that structpb does not know, such as a defined string type.        *)
(***************************************************************************)
Single(node) == [p \in {<<>>} |-> node]

Nil == Single([kind |-> "nil"])
Odd(s) == Single([kind |-> "odd", text |-> s])
Num(n) == Single([kind |-> "num", n |-> n])
Text(s) == Single([kind |-> "text", text |-> s])

(* A value of these parts, a function from their keys.                     *)
Compose(node, parts) ==
  [p \in {<<>>} \cup UNION {{<<k>> \o q : q \in DOMAIN parts[k]} : k \in DOMAIN parts} |->
     IF p = <<>> THEN node ELSE parts[Head(p)][Tail(p)]]

List(items) == Compose([kind |-> "list"], items)
Map(fields) == Compose([kind |-> "map"], fields)
Struct(type, fields) == Compose([kind |-> "struct", type |-> type], fields)

Kind(v) == v[<<>>].kind

Keys(v) == {Head(p) : p \in DOMAIN v \ {<<>>}}

Part(v, k) ==
  [q \in {Tail(p) : p \in {r \in DOMAIN v \ {<<>>} : Head(r) = k}} |-> v[<<k>> \o q]]

(* Values that the program can have: all parts of a part are there, only    *)
(* some kinds have parts, and numbers are those that Float rounds right.   *)
IsValue(v) ==
  /\ v = [p \in DOMAIN v |-> v[p]]
  /\ <<>> \in DOMAIN v
  /\ \A p \in DOMAIN v :
       /\ p \in Seq(Names)
       /\ \A i \in 0..Len(p) : SubSeq(p, 1, i) \in DOMAIN v
       /\ p # <<>> => v[SubSeq(p, 1, Len(p) - 1)].kind \in {"list", "map", "struct"}
       /\ v[p].kind \in {"nil", "odd", "num", "text", "list", "map", "struct"}
       /\ v[p].kind = "num" => v[p] \in [kind : {"num"}, n : 0..2 * Exact]

-----------------------------------------------------------------------------
(* The protobuf value.                                                     *)

(* The nearest float64 of an integer up to 2 * Exact, ties to even.        *)
Float(n) ==
  IF n <= Exact \/ n % 2 = 0 THEN n
  ELSE IF n % 4 = 1 THEN n - 1 ELSE n + 1

(* How toProtoValue can fail: reflect panics at the element of a nil        *)
(* pointer or interface, and structpb has an error for what it does not    *)
(* know.  With both in one value, either may come first.                   *)
NodeFails == [nil |-> "panic", odd |-> "error"]

ToProtoFails(v) == {NodeFails[kind] : kind \in {v[p].kind : p \in DOMAIN v} \cap DOMAIN NodeFails}

(* Mistake: an error of the conversion panics, as it does for log records. *)
EncodePanics(v) == IF v = Nil \/ ToProtoFails(v) = {} THEN {} ELSE {"panic"}

(* ToProtoValue tests for a nil that is not inside of anything.            *)
EncodeFails(v) == IF v = Nil THEN {} ELSE ToProtoFails(v)

(* Mistake: the values of a map are printed, like its keys.                *)
WirePrinted(v) ==
  IF Kind(v) \in {"map", "struct"} THEN Map([k \in Keys(v) |-> Text("?")]) ELSE v

WireNode(node) ==
  CASE node.kind = "num" -> [kind |-> "num", n |-> Float(node.n)]
    [] node.kind = "struct" -> [kind |-> "map"]
    [] OTHER -> node

(* What AsInterface gives on the other side.                               *)
Wire(v) == [p \in DOMAIN v |-> WireNode(v[p])]

-----------------------------------------------------------------------------
(* UnboxArgs, for the struct an executor declares: type has a name, the     *)
(* kind of each field ("any" for an interface) and the fields that a cue   *)
(* tag requires to be a list.                                              *)

NoParts == [k \in {} |-> Nil]

Zero(kind) ==
  CASE kind = "num" -> Num(0) [] kind = "text" -> Text("")
    [] kind = "list" -> List(NoParts) [] OTHER -> Nil

(* mapstructure sets the fields that the map has, if their kinds agree,     *)
(* leaves the others as they are, and ignores keys of no field.            *)
Fits(v, kind) ==
  kind = "any" \/ Kind(v) \in {"nil", kind} \/ (kind = "text" /\ Kind(v) = "odd")

Decodable(v, type) ==
  \A k \in Keys(v) \cap DOMAIN type.fields : Fits(Part(v, k), type.fields[k])

DecodeField(v, kind) ==
  CASE v = Nil -> Zero(kind)
    [] v # Nil /\ Kind(v) = "odd" /\ kind = "text" -> Text(v[<<>>].text)
    [] OTHER -> v

Decode(v, type) ==
  Struct(type.name,
    [k \in DOMAIN type.fields |->
       DecodeField(IF k \in Keys(v) THEN Part(v, k) ELSE Nil, type.fields[k])])

(* cuego.Complete.                                                         *)
Complete(v, type) == \A k \in type.lists : Kind(Part(v, k)) = "list"

Error == Single([kind |-> "error"])

OfType(v, type) == Kind(v) = "struct" /\ v[<<>>].type = type.name

(* A map is decoded and returned without being checked.  A struct of        *)
(* another type leaves the pointer nil, of which cuego may or may not      *)
(* complain.                                                               *)
UnboxArgs(v, type) ==
  CASE v = Nil -> {Nil}
    [] OfType(v, type) -> IF Complete(v, type) THEN {v} ELSE {Error}
    [] Kind(v) = "struct" /\ ~OfType(v, type) -> {Nil, Error}
    [] Kind(v) = "map" /\ Decodable(v, type) -> {Decode(v, type)}
    [] OTHER -> {Error}
=============================================================================
