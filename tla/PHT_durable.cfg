\* insert / remove / get with clwb, sfence, cache evictions and one crash.
CONSTANTS
  Threads = {t1, t2}
  Vals = {v1}
  Null = Null
  NoVal = NoVal
  NoKey = NoKey
  NoRet = NoRet
  Keys <- MCKeys
  Buckets = {b0}
  Hash <- MCHash
  OpKinds = {"get", "insert", "remove"}
  MaxOps = 3
  MaxCrashes = 1
SPECIFICATION DSpec
SYMMETRY MCSymmetry
INVARIANT TypeOK
INVARIANT ChainOrdered
INVARIANT RetiredUnreachable
INVARIANT NoUseAfterFree
INVARIANT PersistedNotFreed
INVARIANT GetFoundDurable
PROPERTY DurablyLinearizable
CHECK_DEADLOCK FALSE
