\* replace / insert: replace of present and absent keys racing inserts of the same key.
CONSTANTS
  Threads = {t1, t2}
  Vals = {v1, v2}
  Null = Null
  NoVal = NoVal
  NoKey = NoKey
  NoRet = NoRet
  Keys <- MCKeys
  Buckets = {b0}
  Hash <- MCHash
  OpKinds = {"insert", "replace"}
  MaxOps = 3
SPECIFICATION Spec
SYMMETRY MCSymmetry
PROPERTY Linearizable
CHECK_DEADLOCK FALSE
