SPECIFICATION FairSpec
CONSTANTS
  w1 = w1
  w2 = w2
  NoReceipt = NoReceipt
  Workers <- Two
  MaxJobs = 4
  MaxFailures = 1
  MaxCrashes = 1
INVARIANTS
  OneProcessPerJob
  ReceiptSound
PROPERTIES
  ControlsResumable
