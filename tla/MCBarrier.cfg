SPECIFICATION Spec
CONSTANTS
  Hubs = {"master", "slave"}
  Master = "master"
  Size <- OneRank
  Modules = {"a", "s"}
  HubOf <- Spread
  Initial = {"a"}
  Renderers = {}
  Killable = {"s"}
  Crashable = {"s"}
  Talkers = {"s"}
  AfterCrash = FALSE
  Clients = 1
  MaxBarriers = 2
  MaxExecutions = 1
INVARIANTS TypeOK AsExpected NothingBefore
PROPERTIES EveryBarrierReleased NoneHeldForEver
CHECK_DEADLOCK FALSE
