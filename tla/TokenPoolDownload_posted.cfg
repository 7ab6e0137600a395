\* Every fault, under the fairness of lambdas, requests and time.
SPECIFICATION FairSpec
CONSTANTS
  w1 = w1  w2 = w2  c1 = c1  c2 = c2
  Worker <- TwoWorkers
  Client <- OneClient
  Target <- ThreeTargets
  Contract <- TwoContracts
  ContractOf <- ContractOfEach
  Snapshot <- OwnersOf
  TargetBlock = 1
  MaxReceives = 0
  MaxRequests = 2
  TimeUp = 1
  LambdaLife = 1
  StaleAfter = 2
  Faults = {"slow_execute", "commit_ack", "slow_queue", "readd", "reuse"}
INVARIANTS CompletedHasSnapshot StoredInWholeSnapshots ContinuationsAdvance
PROPERTIES EventuallySettled
ACTION_CONSTRAINT EarlyFirst
CHECK_DEADLOCK FALSE
