SPECIFICATION Spec
CONSTANTS
  Day = 2
  DesktopOrders <- MCOrders
  Policies = {"STRICT", "BALANCED", "DRAFT_ONLY"}
  MaxChanges = 2
INVARIANTS
  ReviewTypeOK
  EvaluationCarriesOver
  EditDetected
  AuthorizedMeansShipped
  PolicyMonotone
  NoLiveEgressClaimed
CHECK_DEADLOCK FALSE
