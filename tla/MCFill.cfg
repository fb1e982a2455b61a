\* The initial fill, begun again at will, with sets running beside it.
CONSTANTS
  a = a
  b = b
  Nil = Nil
  LastKey = 4
  Val = {a, b}
  Cmd <- SetsOf2
  Db0 <- Full
  Slave0 <- Empty
  Worker = {w1}
  Slot = {1}
  Mode = {"start", "stop"}
  PipelineSize = 3
  PortionSize = 1
  Orderly = TRUE
  MaxCmd = 2
  MaxConn = 3
SPECIFICATION Spec
INVARIANTS FillComplete NeverThrows
CHECK_DEADLOCK FALSE
