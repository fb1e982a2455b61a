\* The update queue in the orderly environment: reconnections with "continue".
CONSTANTS
  a = a
  b = b
  Nil = Nil
  LastKey = 2
  Val = {a, b}
  Cmd <- MixedCmds
  Db0 <- Full
  Slave0 <- Full
  Worker = {w1}
  Slot = {1}
  Mode = {"continue"}
  PipelineSize = 2
  PortionSize = 1
  Orderly = TRUE
  MaxCmd = 3
  MaxConn = 3
SPECIFICATION FairSpec
INVARIANTS Converged Window
PROPERTIES Drains
CHECK_DEADLOCK FALSE
