SPECIFICATION Spec
CONSTANTS
  i1 = i1
  i2 = i2
  b1 = b1
  v1 = v1
  v2 = v2
  Instances = {i1, i2}
  Creators = {i1, i2}
  Rotators = {i1}
  Blobs = {b1}
  Values = {v1, v2}
  MaxGen = 3
  Encrypted = TRUE
  AtomicDowngrade = TRUE
  LockErrors = TRUE
SYMMETRY DataSymmetry
INVARIANTS TypeOK SoleOpenInstance NoLostBlob HandlesCurrent ActiveGenerationWhole
PROPERTIES KeyStateKept ImplementsStore
