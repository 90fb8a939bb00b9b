SPECIFICATION Spec
CONSTANTS
  static = static
  bandit = bandit
  scoring = scoring
  Nobody = Nobody
  WithBandit = TRUE
  Truths <- MCTruths
INVARIANTS TypeOK FullScanIsRight FailureOnlySoftens NotLookedIsTold RemovalIsTold
PROPERTY EveryScanEnds
