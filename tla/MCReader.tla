------------------------------ MODULE MCReader ------------------------------
(* Static data and two timesteps for Reader, on each of two ranks.       *)
EXTENDS Reader

MinusTwo == -2
=============================================================================
