SPECIFICATION Spec
CONSTANTS
  NumRanks = 2
  Modules = {"S", "D"}
  Outputs = {"s"}
  Inputs = {"d"}
  ModuleOf <- PairModuleOf
  Connections <- PairConnections
  NoCompute = {}
  ReducePolicy <- Locally
  SchedulingPolicy <- Single
  Produces <- OneEach
  Results = {1}
  MaxExecutes <- SourceTwice
  Overlap = TRUE
INVARIANTS FlagsAgree ModuleReady
