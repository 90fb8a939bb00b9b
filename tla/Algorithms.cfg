SPECIFICATION Spec
CONSTANTS
  Absent = Absent
  Broken = Broken
  Functions = {"f", "g", "h"}
  Variables = {"v", "w"}
  MAX_ARTIFACT_BYTES = 5
  MAX_MEMBERS = 2
  MAX_UNCOMPRESSED_BYTES = 4
  MAX_BODY_BYTES = 4
  MAX_BANDIT_FILES = 2
  Budget = 2
INVARIANTS BurstIsDense TyposAreSeen ScopeIsWhatRuns DecodersAreFound LimitsHold SkippedIsTold GuardAccounts HooksAreGraded
CHECK_DEADLOCK FALSE
