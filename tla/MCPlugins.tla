----------------------------- MODULE MCPlugins -----------------------------
(***************************************************************************)
(* An instance of Plugins for TLC.  Numbers are exact up to 8; a platform  *)
(* has components that are disabled, have a generator of each kind, or     *)
(* two of resources, with a null, an unknown type and a large number.      *)
(***************************************************************************)
EXTENDS Plugins

AnyName == STRING

TwoComponents == {"c1", "c2"}

Doc(v) == Map([name |-> Text("r"), value |-> v])

(* Lists of one value and of two.                                          *)
One(v) == List([k \in {"0"} |-> v])
Two(v, w) == List([k \in {"0", "1"} |-> IF k = "0" THEN v ELSE w])

Generator(kind, resources) == [kind |-> kind, skip |-> FALSE, resources |-> resources]

Plan(generators) == [disabled |-> FALSE, generators |-> generators]

SomePlans ==
  { Plan(<<Generator("Resources", Two(Doc(Num(11)), Doc(Two(Num(1), Num(2)))))>>),
    Plan(<<Generator("Resources", Two(Doc(Num(13)), Doc(Num(0)))),
           Generator("Resources", One(Doc(Text("b"))))>>),
    Plan(<<Generator("Resources", One(Doc(Nil)))>>),
    Plan(<<Generator("Resources", One(Doc(Odd("o")))), Generator("Resources", One(Doc(Num(3))))>>),
    Plan(<<[Generator("Resources", One(Doc(Num(1)))) EXCEPT !.skip = TRUE],
           Generator("Helm", Empty)>>),
    [Plan(<<Generator("Resources", One(Doc(Num(1))))>>) EXCEPT !.disabled = TRUE] }

SomeArgs ==
  { Nil, Num(1), Map([platform |-> Text("p"), value |-> Num(9), resources |-> One(Doc(Num(9)))]),
    Map([platform |-> Odd("o"), value |-> Num(2)]), Map([value |-> Text("x"), resources |-> Nil]),
    Map([resources |-> Doc(Num(10))]),
    Struct("holos.Params", [platform |-> Text("p")]),
    Struct("resources.Params", [resources |-> One(Struct("R", [a |-> Num(1)]))]) }
=============================================================================
