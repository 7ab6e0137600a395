\* Users who wait for each other and for the messages of earlier runs.
SPECIFICATION PatientSpec
CONSTANTS
  w1 = w1  w2 = w2  c1 = c1  c2 = c2  o1 = o1  o2 = o2  o3 = o3
  Worker <- TwoWorkers
  Client <- TwoClients
  Operation <- ThreeOperations
  MaxReceives = 2
  MaxRequests = 6
  Faults = {"duplicate", "publish_fails", "last_kill"}
SYMMETRY Symmetry
INVARIANTS ExclusiveRun RanWasExecuted
CHECK_DEADLOCK FALSE
