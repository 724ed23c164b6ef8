\* Topologies outside the socket/core/PU shape the default builder assumes:
\* cores of one socket with different PU counts, and machines with no socket.
CONSTANTS
  Null = Null
  Topologies <- UnsupportedTopologies
  Modes = {"dfs", "single", "default"}
  TaskNums = {0, 1, 2, 3, 5}
SPECIFICATION Spec
INVARIANT ThreadsPinned
CHECK_DEADLOCK FALSE
