SPECIFICATION Spec
CONSTANTS
  w1 = w1
  w2 = w2
  w3 = w3
  e1 = e1
  e2 = e2
  Writers = {w1, w2, w3}
  Events = {e1, e2}
  MaxLen = 3
SYMMETRY Symmetry
INVARIANTS TypeOK ChainValid AckedKept
PROPERTIES TornNeverExtended StaleMeansOvertaken ImplementsTrail
