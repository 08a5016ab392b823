SPECIFICATION Spec
CONSTANTS
  NumRanks = 2
  FirstRank = 1
  Partitions = 3
  First = 2
  Last = 0
  Increment <- MinusTwo
  Concurrency = 3
  Modes = {"Serial", "Blocks", "AfterStatic", "TimeAndBlocks"}
  Handlings = {"Monolithic", "PartitionTimesteps"}
  Distribute = {TRUE}
  Ports = {"grid", "data"}
  Styles = {"Token", "Wait"}
  Failures = TRUE
INVARIANTS TypeOK AddsAlone FinishComplete
PROPERTIES AddedInOrder PrepareReturns
CHECK_DEADLOCK FALSE
