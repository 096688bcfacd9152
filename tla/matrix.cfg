SPECIFICATION FairSpec
CONSTANTS
  frontier = frontier
  weak = weak
  w1 = w1
  w2 = w2
  None = None
  Models <- MCModels
  Order <- MCOrder
  MaxJobAttempts = 2
  Results = {"valid", "tainted", "invalid"}
  Workers <- Two
  MaxCrashes = 1
INVARIANTS
  ChargedBeforeLaunch
  ReceiptSound
PROPERTIES
  BundleBound
  ImplementsLedger
  MatrixResumable
