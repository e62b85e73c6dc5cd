SPECIFICATION Spec
CONSTANTS
  NGates = 5
  Blockers = {1, 2, 3, 4, 5}
  AppliesTo <- MCAppliesTo
  MaybeNA = {4}
  Citations = 2
  Redactions = 5
  Determinism = 3
  MaxLog = 24
  MaxCalls = 2
PROPERTY FailureRecorded
CHECK_DEADLOCK FALSE
