SPECIFICATION FairSpec
CONSTANTS
  Canonicals = {c1}
  Backoff1 = 1
  BackoffCap = 2
  NakedCooldown = 3
  LossThreshold = 2
  RetryDelay = 1
  MaxRetries = 1
  RejectedCooldown = 2
  DedupWindow = 1
  Raises = TRUE
  QueueCap = 1
  MaxApproved = 1
  MaxCount = 2
INVARIANTS
  TypeOK
  LossStreakStops
  OneAfterHold
  OneExecution
PROPERTIES
  NakedMarketRests
  ConsumersReturn
