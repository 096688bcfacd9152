SPECIFICATION FairSpec
CONSTANTS
  None = None
  p1 = p1
  p2 = p2
  d1 = d1
  d2 = d2
  Procs = {p1, p2}
  Derivation <- MCDerivation
  Files = {"f", "g"}
  Seeds <- MCSeeds
  Patches <- MCPatches
  Answers <- MCAnswers
  Reviewers = 2
  MaxRounds = 2
  SnapshotCap = 1
  MaxEdits = 1
INVARIANTS
  PromisingEarned
  ValidatedIsPatched
  
PROPERTIES
  InvocationEnds
CHECK_DEADLOCK FALSE
