----------------------------- MODULE MCTransfer -----------------------------
(***************************************************************************)
(* Small object graphs for ObjectTransfer.  Two tasks of three are enough  *)
(* for two threads to meet in every table; the third lets the answer to a  *)
(* second request overtake both.                                           *)
(***************************************************************************)
EXTENDS ObjectTransfer, TLC

CONSTANTS o1, o2, o3, x1, x2, a1, a2, a3, i1, i2

TaskSymmetry == Permutations(Tasks)

(* Every name is referred to once, and every object refers to one name.    *)
ChainFields  == o1 :> <<o2>> @@ o2 :> <<x1>> @@ o3 :> <<>>
ChainCarries == a1 :> o1 @@ a2 :> o3
ChainPorts   == a1 :> <<i1>> @@ a2 :> <<i1>>

(* A shared object, two references in one object, an object announced to   *)
(* two ports and announced again.                                          *)
MixedFields  == o1 :> <<o2, x1>> @@ o2 :> <<>>
MixedCarries == a1 :> o1 @@ a2 :> o2 @@ a3 :> o1
MixedPorts   == a1 :> <<i1>> @@ a2 :> <<i1, i2>> @@ a3 :> <<i2>>

(* One object that refers to two arrays.                                   *)
TreeFields   == o1 :> <<x1, x2>>
OneCarries   == a1 :> o1
OnePort      == a1 :> <<i1>>

(* Two objects that refer to the same third one.                           *)
SharedFields  == o1 :> <<o3>> @@ o2 :> <<o3>> @@ o3 :> <<>>
SharedCarries == a1 :> o1 @@ a2 :> o2

(* An object for two input ports.                                          *)
LeafFields   == o1 :> <<x1>>
TwoPorts     == a1 :> <<i1, i2>>

(* An object announced twice.                                              *)
ResendCarries == a1 :> o1 @@ a2 :> o1
=============================================================================
