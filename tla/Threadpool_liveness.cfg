\* Every operation gets resolved; finish() is called once, at the end.
SPECIFICATION FairSpec
CONSTANTS
  HWCONC = 2
  MaxOps = 2
  QUEUE_SZ = 3
  EarlyFinish = FALSE
PROPERTIES
  EveryOpResolved
