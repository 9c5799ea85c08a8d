SPECIFICATION OrderSpec
CONSTANTS
  w1 = w1  w2 = w2  w3 = w3  i1 = i1  i2 = i2  i3 = i3  q1 = q1  q2 = q2
  None = None
  Workers = {w1, w2}
  Items = {i1, i2}
  Sources = {q1, q2}
  Early = {q1, q2}
  Weak = {}
  Locking = {q2}
  PriorityOf <- MCPriorityOf
  TargetOf <- MCTargetOf
CHECK_DEADLOCK FALSE
SYMMETRY WorkerSymmetry
INVARIANTS NoLostWakeup DropReachesSleepers
PROPERTIES HigherBucketFirst ImplementsDispatch
