SPECIFICATION FairSpec
CONSTANTS
  o1 = o1
  o2 = o2
  o3 = o3
  x1 = x1
  x2 = x2
  a1 = a1
  a2 = a2
  a3 = a3
  i1 = i1
  i2 = i2
  Main = main
  Objects = {o1, o2, o3}
  Arrays = {x1}
  Adds = {a1, a2}
  Tasks = {t1, t2, t3}
  Fields <- ChainFields
  Carries <- ChainCarries
  Ports <- ChainPorts
INVARIANTS NoResolverMissing TransferAccounted CompletionFindsObject
PROPERTY DeliverySpec
CHECK_DEADLOCK FALSE
