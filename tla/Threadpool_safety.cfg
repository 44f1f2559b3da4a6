\* Two workers, two operations, finish() between them or not.
SPECIFICATION Spec
CONSTANTS
  HWCONC = 2
  MaxOps = 2
  QUEUE_SZ = 3
  EarlyFinish = TRUE
INVARIANTS
  TypeOK
  IInv
  ResolveAfterTasks
  TokenInv
  ResnWake
  AllTasksDone
  FinishSafe
  ExitAssert
  TornByTwin
PROPERTIES
  ImplementsExecutor
