SPECIFICATION FairSpec
CONSTANTS
  i1 = i1
  i2 = i2
  b1 = b1
  v1 = v1
  Instances = {i1, i2}
  Creators = {i1}
  Rotators = {i1}
  Blobs = {b1}
  Values = {v1}
  MaxGen = 3
  Encrypted = FALSE
  AtomicDowngrade = FALSE
  LockErrors = FALSE
INVARIANT NoLostBlob
PROPERTY OpenReturns
