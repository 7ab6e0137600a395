\* Liveness: no message is lost for good.
SPECIFICATION FairSpec
CONSTANTS
  w1 = w1  w2 = w2  c1 = c1  c2 = c2  o1 = o1  o2 = o2  o3 = o3
  Worker <- TwoWorkers
  Client <- TwoClients
  Operation <- TwoOperations
  MaxReceives = 1
  MaxRequests = 3
  Faults = {"duplicate"}
PROPERTIES RunEnds
CHECK_DEADLOCK FALSE
