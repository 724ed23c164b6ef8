\* put racing remove on one key, with clwb, sfence and one crash: is the
\* table durably linearizable?
CONSTANTS
  Threads = {t1, t2}
  Vals = {v1, v2}
  Null = Null
  NoVal = NoVal
  NoKey = NoKey
  NoRet = NoRet
  Keys <- MCKeys
  Buckets = {b0}
  Hash <- MCHash
  OpKinds = {"get", "put", "remove"}
  MaxOps = 3
  MaxCrashes = 1
SPECIFICATION DSpec
SYMMETRY MCSymmetry
PROPERTY DurablyLinearizable
CHECK_DEADLOCK FALSE
