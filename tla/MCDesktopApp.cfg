SPECIFICATION FairSpec
CONSTANTS
  Loads <- MCLoads
  MaxRuns = 3
INVARIANTS
  OneExport
PROPERTIES
  ButtonReturns
