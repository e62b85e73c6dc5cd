SPECIFICATION CommandSpec
CONSTANTS
  NGates = 5
  Blockers = {1, 2, 3, 4, 5}
  AppliesTo <- MCAppliesTo
  MaybeNA = {4}
  Citations = 2
  Redactions = 5
  Determinism = 3
  MaxLog = 24
  MaxCalls = 1
INVARIANT CommandTypeOK
INVARIANT OkIsKept
INVARIANT ErrorLeavesNothing
INVARIANT ForeignFileKept
CHECK_DEADLOCK FALSE
