SPECIFICATION Spec
CONSTANTS
  None = None
  p1 = p1
  p2 = p2
  Procs = {p1, p2}
  Configs <- MCConfigs
  Listings <- MCListings
  Https <- MCHttps
  Days = 2
  Stamps = {1}
INVARIANTS
  QueueExact
  BindingQueued
  
SYMMETRY Symmetry
CHECK_DEADLOCK FALSE
