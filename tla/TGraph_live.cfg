\* every operation on two vertices under weak fairness: add_vertex (with
\* its neighbour sample) and edge calls racing remove_vertex stay
\* consistent and linearizable, free each object once, and every call returns.
CONSTANTS
  Threads = {t1, t2}
  N = 2
  K = 2
  SampleMax = 1
  OpKinds = {"add_edge", "remove_edge", "has_edge", "add_vertex", "remove_vertex"}
  MaxOps = 2
  None = None
  NoRet = NoRet
SPECIFICATION FairSpec
INVARIANT RelationsConsistent
INVARIANT NoAbort
INVARIANT HeapOwned
PROPERTY Linearizable
PROPERTY AllOpsComplete
CHECK_DEADLOCK FALSE
