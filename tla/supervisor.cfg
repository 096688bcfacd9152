SPECIFICATION FairSpec
CONSTANTS
  None = None
  Configurations <- Both
  MaxExternalAttempts = 2
  MaxCrashes = 1
INVARIANTS
  LiabilityCapped
  PromotionSound
PROPERTIES
  PromotionStable
  Resumable
