SPECIFICATION FairSpec
CONSTANTS
  Conn = {1, 2}
  Pool = {1}
  Thread = {t1}
  PoolOf <- OnePool
  Front = front
  None = None
  MaxReq = 2
  MaxSess = 3
INVARIANTS Linked
PROPERTIES StartsAtHome Finishes
CHECK_DEADLOCK FALSE
