\* Every operation with clwb, sfence, evictions and one crash, all on one
\* key so that every CAS contends: lock-freedom of a finite workload under
\* weak fairness, and what is persisted stays safe to restart from.
CONSTANTS
  Threads = {t1, t2}
  Vals = {v1}
  Null = Null
  NoVal = NoVal
  NoKey = NoKey
  NoRet = NoRet
  Keys <- MCOneKey
  Buckets = {b0}
  Hash <- MCOneHash
  OpKinds = {"get", "insert", "put", "replace", "remove"}
  MaxOps = 2
  MaxCrashes = 1
SPECIFICATION DFairSpec
INVARIANT PersistedNotFreed
INVARIANT GetFoundDurable
PROPERTY AllOpsComplete
CHECK_DEADLOCK FALSE
