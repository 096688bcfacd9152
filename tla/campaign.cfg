SPECIFICATION Spec
CONSTANTS
  None = None
  ctl = ctl
  paid = paid
  w1 = w1
  w2 = w2
  Campaigns = {ctl, paid}
  Controls = {ctl}
  Workers = {w1, w2}
  MaxAttempts = 2
  MaxCrashes = 1
  Outages = {"kill", "power"}
  Faults = {"config", "snapshot"}
SYMMETRY WorkerSymmetry
CHECK_DEADLOCK FALSE
INVARIANTS ResultSound OneRuntime 
 
