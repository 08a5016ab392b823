------------------------------ MODULE MCBarrier ------------------------------
(***************************************************************************)
(* Two hubs, or one of two ranks, with a few modules for Barrier.          *)
(***************************************************************************)
EXTENDS Barrier

OneRank  == [h \in Hubs |-> 1]
TwoRanks == [h \in Hubs |-> 2]
(* Modules s and t run at the slave, the others at the master.             *)
Spread   == [m \in Modules |-> IF m \in {"s", "t"} THEN "slave" ELSE "master"]
=============================================================================
