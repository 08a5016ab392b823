---------------------------- MODULE MCExecution ----------------------------
(***************************************************************************)
(* Small workflows for Execution on two ranks: a source S feeds D, either  *)
(* directly, or also through T.  Two ranks let progress and objects of the *)
(* ranks meet in every order.                                              *)
(***************************************************************************)
EXTENDS Execution

Both(x) == [r \in Ranks |-> x]
Each(x) == [m \in Modules |-> x]
For(m, x, y) == [n \in Modules |-> IF n = m THEN x ELSE y]

(* S -> D *)
PairModuleOf    == [p \in Ports |-> IF p = "s" THEN "S" ELSE "D"]
PairConnections == {<<"s", "d">>}

(* S -> T -> D, S -> D: one input of D is connected to S, one to T.        *)
DiamondModuleOf    == [p \in Ports |->
  CASE p = "s" -> "S" [] p \in {"t", "tIn"} -> "T" [] OTHER -> "D"]
DiamondConnections == {<<"s", "tIn">>, <<"s", "d1">>, <<"t", "d2">>}

SourceOnce  == For("S", 1, 0)
SourceTwice == For("S", 2, 0)
BothOnce    == Each(1)

Locally  == Each("Locally")
OverAllD == For("D", "OverAll", "Locally")
OverAllT == For("T", "OverAll", "Locally")
Single   == Each("Single")
GangD    == For("D", "Gang", "Single")
LazyD    == For("D", "LazyGang", "Single")

OneEach == Each(Both(1))
(* Rank 1 of the source has nothing to offer.                              *)
Uneven  == Each([r \in Ranks |-> IF r = 0 THEN 1 ELSE 0])
=============================================================================
