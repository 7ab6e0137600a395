\* One run, and an invocation that dies at its end.
SPECIFICATION Spec
CONSTANTS
  w1 = w1  w2 = w2  c1 = c1  c2 = c2  o1 = o1  o2 = o2  o3 = o3
  Worker <- TwoWorkers
  Client <- OneClient
  Operation <- TwoOperations
  MaxReceives = 1
  MaxRequests = 2
  Faults = {}
PROPERTIES OnlyClaimantFails
CHECK_DEADLOCK FALSE
