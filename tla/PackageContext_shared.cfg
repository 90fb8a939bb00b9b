SPECIFICATION Spec
CONSTANTS
  static = static
  bandit = bandit
  scoring = scoring
  Nobody = Nobody
  Readers <- MCReaders
  Scorers <- MCScorers
  Guarded <- MCGuarded
INVARIANT FailureIsShared
