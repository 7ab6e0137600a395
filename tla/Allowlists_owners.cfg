\* Two simultaneous requests of two consolidated wallets, and two connections.
SPECIFICATION FairSpec
CONSTANTS
  r1 = r1  r2 = r2  first = first  second = second
  Request <- TwoRequests
  Wallet <- Wallets
  Group <- Consolidated
  Limit = 1
  Window = 0
  PoolSize = 2
  MaxLists <- ListsByTdh
  MaxTime = 1
  None = None
INVARIANTS CreationLimit OneOwner
PROPERTIES OnlyOwnersChange RequestsAreAnswered
