SPECIFICATION Spec
CONSTANTS
  NGates = 5
  Blockers = {1, 2, 3, 4, 5}
  AppliesTo <- MCAppliesTo
  MaybeNA = {4}
  Citations = 2
  Redactions = 5
  Determinism = 3
  MaxLog = 24
  MaxCalls = 2
INVARIANT TypeOK
INVARIANT CompletedArchive
INVARIANT EmbeddedEvidence
INVARIANT GatesPermit
INVARIANT StateFollowsLog
INVARIANT FailureLeavesNothing
INVARIANT OutcomeHolds
INVARIANT RunEndsOnce
CHECK_DEADLOCK FALSE
