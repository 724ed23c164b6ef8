\* -a default on machines of sockets, cores and PUs.
CONSTANTS
  Null = Null
  Topologies <- SocketTopologies
  Modes = {"default"}
  TaskNums = {0, 1, 2, 3, 5}
SPECIFICATION Spec
INVARIANT PinningOrder
CHECK_DEADLOCK FALSE
