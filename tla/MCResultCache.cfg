SPECIFICATION FairSpec
CONSTANTS
  Threads = {t1, t2, t3}
  Keys = {k1}
  Abandoners = {t1}
  MaxClears = 2
INVARIANTS TypeOK BorrowsCounted EntriesAlive OneComputes ResultCurrent OldGenerationsPurged
PROPERTY ServedUnlessAbandoned
CHECK_DEADLOCK FALSE
