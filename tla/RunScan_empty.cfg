SPECIFICATION Spec
CONSTANTS
  static = static
  bandit = bandit
  scoring = scoring
  Nobody = Nobody
  WithBandit = TRUE
  Truths <- MCTruths
INVARIANT EmptyMeansAllLooked
