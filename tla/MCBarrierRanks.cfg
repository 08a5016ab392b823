SPECIFICATION Spec
CONSTANTS
  Hubs = {"master"}
  Master = "master"
  Size <- TwoRanks
  Modules = {"a"}
  HubOf <- Spread
  Initial = {"a"}
  Renderers = {}
  Killable = {}
  Crashable = {}
  Talkers = {"a"}
  AfterCrash = FALSE
  Clients = 1
  MaxBarriers = 2
  MaxExecutions = 0
INVARIANTS ManagerAssertion
CHECK_DEADLOCK FALSE
