\* Two runs, one after the other, and a client that also counts a draft's wallets.
SPECIFICATION FairSpec
CONSTANTS
  MaxRuns = 2
  Rows <- ComputedRows
  Winner <- Winners
  PoolTokens <- Tokens
  Drafts <- CountedDrafts
  None = None
INVARIANTS TablesConsistent OthersAllOrNothing AnswersAreOneRun CountsAreOfOneRun
PROPERTIES InsertionEnds
CHECK_DEADLOCK FALSE
