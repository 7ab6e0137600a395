\* One request at a time and none of the rare faults.
SPECIFICATION Spec
CONSTANTS
  w1 = w1  w2 = w2  c1 = c1  c2 = c2
  Worker <- TwoWorkers
  Client <- OneClient
  Target <- TwoTargets
  Contract <- TwoContracts
  ContractOf <- ContractOfEach
  Snapshot <- OwnersOf
  TargetBlock = 1
  MaxReceives = 1
  MaxRequests = 2
  TimeUp = 1
  LambdaLife = 1
  StaleAfter = 2
  Faults = {}
SYMMETRY Symmetry
INVARIANTS ExclusiveClaim UnfinishedLeavesNothing
PROPERTIES ImplementsSnapshotJob
CHECK_DEADLOCK FALSE
