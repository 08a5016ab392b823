SPECIFICATION FairSpec
CONSTANTS
  NumRanks = 2
  Modules = {"S", "D"}
  Outputs = {"s"}
  Inputs = {"d"}
  ModuleOf <- PairModuleOf
  Connections <- PairConnections
  NoCompute = {}
  ReducePolicy <- OverAllD
  SchedulingPolicy <- LazyD
  Produces <- OneEach
  Results = {1}
  MaxExecutes <- SourceTwice
  Overlap = FALSE
INVARIANT NothingLeft
PROPERTY EventuallyDone
