\* The options with any number atoi can give, -1 included, and with or
\* without rideables and tests registered.
CONSTANTS
  Argvs <- NegArgvs
  Keys = {"k"}
  MaxReg = 2
  Topo <- MCTopo
  Defaults <- MCDefaults
  Null = Null
SPECIFICATION Spec
INVARIANT IndicesInRange
CHECK_DEADLOCK FALSE
