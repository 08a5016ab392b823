SPECIFICATION FairSpec
CONSTANTS
  NumMsgs = 8
  Capacity = 2
  Blockers <- MCBlockers
  Uuid <- DistinctUuids
INVARIANTS TypeOK InOrder UnblockFindsMessage
PROPERTY AllReceived
CHECK_DEADLOCK FALSE
