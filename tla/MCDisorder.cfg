\* Connections that overlap and threads that outlive them.
CONSTANTS
  a = a
  b = b
  Nil = Nil
  LastKey = 2
  Val = {a, b}
  Cmd <- TwoCmds
  Db0 <- OneKey
  Slave0 <- Full
  Worker = {w1}
  Slot = {1, 2}
  Mode = {"start", "auto", "continue", "stop"}
  PipelineSize = 2
  PortionSize = 1
  Orderly = FALSE
  MaxCmd = 2
  MaxConn = 3
SPECIFICATION Spec
INVARIANTS TypeOK FillNeverFails PipelineBound
CHECK_DEADLOCK FALSE
