\* A key is deleted during the initial fill.
CONSTANTS
  a = a
  b = b
  Nil = Nil
  LastKey = 4
  Val = {a, b}
  Cmd <- DelOf2
  Db0 <- Full
  Slave0 <- Empty
  Worker = {w1}
  Slot = {1}
  Mode = {"start"}
  PipelineSize = 2
  PortionSize = 1
  Orderly = TRUE
  MaxCmd = 1
  MaxConn = 1
SPECIFICATION Spec
INVARIANT FillComplete
CHECK_DEADLOCK FALSE
