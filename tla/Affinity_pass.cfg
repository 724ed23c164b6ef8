CONSTANTS
  Null = Null
  Topologies <- SocketTopologies
  Modes = {"dfs", "single"}
  TaskNums = {0, 1, 2, 3, 5}
SPECIFICATION Spec
INVARIANT PinningOrder PerCoreOrder
CHECK_DEADLOCK FALSE
