---------------------------- MODULE MCModuleQueue ----------------------------
EXTENDS ModuleQueue

MCBlockers == {2, 4, 5, 7}
DistinctUuids == [m \in Msgs |-> m]
(* 4 and 5: the same object for two input ports of the module.             *)
SharedUuid == [m \in Msgs |-> IF m = 5 THEN 4 ELSE m]
=============================================================================
