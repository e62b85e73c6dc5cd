SPECIFICATION Spec
CONSTANTS
  i1 = i1
  i2 = i2
  b1 = b1
  v1 = v1
  v2 = v2
  Instances = {i1, i2}
  Creators = {i1, i2}
  Rotators = {i1, i2}
  Blobs = {b1}
  Values = {v1, v2}
  MaxGen = 4
  Encrypted = TRUE
  AtomicDowngrade = TRUE
  LockErrors = FALSE
SYMMETRY DataSymmetry
INVARIANTS NoLostBlob
