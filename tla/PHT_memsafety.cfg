\* Every operation racing every other, put and replace against remove
\* included: whatever they return, the chains stay sorted, only unlinked
\* nodes are retired, and nothing freed is dereferenced.
CONSTANTS
  Threads = {t1, t2}
  Vals = {v1}
  Null = Null
  NoVal = NoVal
  NoKey = NoKey
  NoRet = NoRet
  Keys <- MCKeys
  Buckets = {b0}
  Hash <- MCHash
  OpKinds = {"get", "insert", "put", "replace", "remove"}
  MaxOps = 3
SPECIFICATION Spec
SYMMETRY MCSymmetry
INVARIANT TypeOK
INVARIANT ChainOrdered
INVARIANT RetiredUnreachable
INVARIANT NoUseAfterFree
CHECK_DEADLOCK FALSE
