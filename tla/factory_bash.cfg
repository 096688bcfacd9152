SPECIFICATION Spec
CONSTANTS
  a = a
  b = b
  w1 = w1
  w2 = w2
  good = good
  leak = leak
  None = None
  Stages <- MCStages
  Position <- MCPosition
  DependsOn <- ChainDeps
  MaxAttempts <- MCAttempts
  Contents <- OnlyGood
  Leaks <- NoLeak
  AgentOutputs <- BashOutput
  ForeignWrites = TRUE
  Manifest = FALSE
  Workers <- OneWorker
  MaxCrashes = 1
INVARIANTS
  RetryAccounting
