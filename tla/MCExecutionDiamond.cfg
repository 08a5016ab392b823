SPECIFICATION Spec
CONSTANTS
  NumRanks = 2
  Modules = {"S", "T", "D"}
  Outputs = {"s", "t"}
  Inputs = {"tIn", "d1", "d2"}
  ModuleOf <- DiamondModuleOf
  Connections <- DiamondConnections
  NoCompute = {}
  ReducePolicy <- OverAllT
  SchedulingPolicy <- Single
  Produces <- Uneven
  Results = {0, 1}
  MaxExecutes <- SourceTwice
  Overlap = FALSE
INVARIANTS TypeOK SameExecution ReduceHasAll
