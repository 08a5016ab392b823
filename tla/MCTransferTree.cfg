SPECIFICATION Spec
CONSTANTS
  o1 = o1
  o2 = o2
  o3 = o3
  x1 = x1
  x2 = x2
  a1 = a1
  a2 = a2
  a3 = a3
  i1 = i1
  i2 = i2
  Main = main
  Objects = {o1}
  Arrays = {x1, x2}
  Adds = {a1}
  Tasks = {t1, t2, t3}
  Fields <- TreeFields
  Carries <- OneCarries
  Ports <- OnePort
INVARIANT CompletionFindsObject
CHECK_DEADLOCK FALSE
