\* A confirmation of the connection before arrives after "continue".
CONSTANTS
  a = a
  b = b
  Nil = Nil
  LastKey = 2
  Val = {a, b}
  Cmd <- TwoCmds
  Db0 <- Full
  Slave0 <- Full
  Worker = {w1}
  Slot = {1, 2}
  Mode = {"continue"}
  PipelineSize = 2
  PortionSize = 1
  Orderly = FALSE
  MaxCmd = 2
  MaxConn = 2
SPECIFICATION Spec
INVARIANT NothingReturnsToEmptyQueue
CHECK_DEADLOCK FALSE
