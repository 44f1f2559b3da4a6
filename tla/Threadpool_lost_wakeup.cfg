\* notify_one() between the predicate of finish() and its wait.
SPECIFICATION FairSpec
CONSTANTS
  HWCONC = 2
  MaxOps = 1
  QUEUE_SZ = 3
  EarlyFinish = TRUE
PROPERTIES
  FinishReturns
