\* One question at a time, to providers that differ, fail, repeat themselves and
\* never end.
SPECIFICATION FairQueriesSpec
CONSTANTS
  Token = {0, 1, 2, 3}
  Respelt = {1}
  TransposePage = 2
  AlchemyPage = 1
  MaxPages = 2
  MaxTokens = 4
  MaxHttpAttempts = 2
  None = None
INVARIANTS AnswersAreRight
PROPERTIES BoundsRefuseOnlyLarge QuestionsAreAnswered
