SPECIFICATION Spec
CONSTANTS
  NumRanks = 2
  Objects = {"x", "y"}
  SourceOf <- OneEach
  Fastest = {"Local", "Distribute"}
  Modes = {"LocalOnly", "MasterOnly", "AllRanks"}
  MaxSets = 1
  Limits = {2}
  Benchmark = TRUE
  PolicyChanges = FALSE
  Ends = {"Kill", "Quit"}
INVARIANTS TypeOK SameOrder SameCollective
PROPERTIES AlwaysAnotherBatch EveryObjectAdded
CHECK_DEADLOCK FALSE
