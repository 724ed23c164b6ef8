\* add_vertex with the code's sample bound, uniform_int_distribution(0, numVertices).
CONSTANTS
  Threads = {t1, t2}
  N = 3
  K = 2
  SampleMax = 3
  OpKinds = {"add_vertex"}
  MaxOps = 1
  None = None
  NoRet = NoRet
SPECIFICATION Spec
INVARIANT LockInRange
CHECK_DEADLOCK FALSE
