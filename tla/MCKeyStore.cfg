SPECIFICATION Spec
CONSTANTS
  c1 = c1
  c2 = c2
  c3 = c3
  k1 = k1
  k2 = k2
  k3 = k3
  NoKek = NoKek
  Callers = {c1, c2, c3}
  Keks = {k1, k2, k3}
  MaxCalls = 4
SYMMETRY Symmetry
INVARIANTS
  KeyTypeOK
  OneKek
PROPERTY
  WholeOrGone
CHECK_DEADLOCK FALSE
