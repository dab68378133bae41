-------------------------- MODULE MCSchemaJournal --------------------------
(***************************************************************************)
(* Two nodes, one after the other or side by side, a list or a set that    *)
(* has a default, what the user may have set beforehand, and how runs      *)
(* begin.  Three runs: in the third, a node is run whose old result was    *)
(* used before it was noticed that the node above it had failed in the     *)
(* second.                                                                 *)
(***************************************************************************)
EXTENDS SchemaJournal

CONSTANTS a, b, i1, i2

TwoNodes == <<a, b>>
TwoItems == {i1, i2}

Param(own, all) ==
  [node |-> [s \in Slots |-> IF s = Global THEN all ELSE own],
   lock |-> FALSE, beside |-> FALSE, present |-> TRUE]

ListOf(edges, how) ==
  [unique |-> FALSE, defvalue |-> <<>>, input |-> edges, param |-> Param(<<i1>>, Unset),
   begins |-> how]

SetOf(edges, how) ==
  [unique |-> TRUE, defvalue |-> <<i1>>, input |-> edges, param |-> Param(Unset, <<i2>>),
   begins |-> how]

Way(how, again) == [how |-> how, again |-> again]

SomeSetups ==
  {ListOf({<<a, b>>}, {Way("new", TRUE), Way("kept", FALSE)}),
   ListOf({}, {Way("reset", TRUE), Way("kept", TRUE)}),
   SetOf({}, {Way("reset", FALSE)})}
=============================================================================
