SPECIFICATION ASpec
CONSTANTS
  a = a
  b = b
  auto = auto
  good = good
  baseline = baseline
  None = None
  Driver = auto
  BarrierOf <- MCBarrier
  Stages <- MCStages
  Position <- MCPosition
  DependsOn <- MCDeps
  MaxAttempts <- MCAttempts
  Contents <- MCContents
  Leaks <- NoLeak
  AgentOutputs <- MCOutputs
  ForeignWrites = TRUE
  Manifest = FALSE
  Workers <- Alone
  MaxCrashes = 1

  
PROPERTIES
  AProgressNeverLost
