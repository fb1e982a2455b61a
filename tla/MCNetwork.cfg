SPECIFICATION FairSpec
CONSTANTS
  Desc = {1, 2, 3, 4}
  Room = 1
  None = None
  Conn = {11, 12}
  Client = {c}
  Server = Server
  Budgets <- AllBudgets
  MaxSwh = 2
INVARIANTS Registered Owned InOrder
PROPERTIES Rests Flushed StopEnds
CHECK_DEADLOCK FALSE
