\* Three simultaneous requests over two windows of blocks.
SPECIFICATION FairSpec
CONSTANTS
  r1 = r1  r2 = r2  r3 = r3
  Request <- ThreeRequests
  Block = {9, 10}
  BucketSize = 10
  Lifetime = 1
  MaxAttempts = 2
  Countdown <- OneCountdown
  Timestamp = {1, 2, 4}
  Included = {1, 11}
  MaxTime = 1
  None = None
INVARIANTS PendingIsLive PredictionsAreRight MatchesHaveDigits
PROPERTIES SamplesLiveTheirTime RequestsAreAnswered
