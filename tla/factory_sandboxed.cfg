SPECIFICATION FairSpec
CONSTANTS
  a = a
  b = b
  w1 = w1
  w2 = w2
  good = good
  leak = leak
  None = None
  Stages <- MCStages
  Position <- MCPosition
  DependsOn <- ChainDeps
  MaxAttempts <- MCAttempts
  Contents <- GoodOrLeak
  Leaks <- OneLeak
  AgentOutputs <- AnyOutput
  ForeignWrites = TRUE
  Manifest = TRUE
  Workers <- MCWorkers
  MaxCrashes = 2
INVARIANTS
  RunAlwaysLoadable
  DependencyOrder
  LaunchesBounded
PROPERTIES
  ProgressNeverLost
  
