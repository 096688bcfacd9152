SPECIFICATION CardsSpec
CONSTANTS
  m1 = m1
  m2 = m2
  None = None
  Torn = Torn
  Models <- MCModels
  Rollouts <- MCRollouts
  External = {"keep"}
  MaxTree = 2
  MaxReports = 3
INVARIANTS
  PromotionSound
  TrialsCounted
