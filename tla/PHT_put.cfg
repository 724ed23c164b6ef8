\* put / get: updates that supersede a node in place, racing each other and readers.
CONSTANTS
  Threads = {t1, t2}
  Vals = {v1, v2}
  Null = Null
  NoVal = NoVal
  NoKey = NoKey
  NoRet = NoRet
  Keys <- MCKeys
  Buckets = {b0}
  Hash <- MCHash
  OpKinds = {"get", "put"}
  MaxOps = 3
SPECIFICATION Spec
SYMMETRY MCSymmetry
PROPERTY Linearizable
CHECK_DEADLOCK FALSE
