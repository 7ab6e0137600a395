\* Concurrent batches and deletes.
SPECIFICATION Spec
CONSTANTS
  c1 = c1  c2 = c2  a1 = a1  a2 = a2  a3 = a3  m1 = m1  m2 = m2
  Client <- TwoClients
  Operation <- SomeOperations
  MapOperation <- MapOperations
  Orders = {1, 3}
  MaxBatch = 2
  MaxRequests = 4
  StaleDeletes = FALSE
SYMMETRY Symmetry
INVARIANTS OrdersDistinct MapIsLast RanIsPrefix
PROPERTIES RelativeOrderKept
CHECK_DEADLOCK FALSE
