SPECIFICATION RolloutSpec
CONSTANTS
  m1 = m1
  m2 = m2
  None = None
  Malformed = Malformed
  Requests <- MCRequests
  Outcomes <- MCOutcomes
CHECK_DEADLOCK FALSE
INVARIANTS
  RatesHonest
  PromisingSound
