\* Every method, on keys of which two share a lock.
CONSTANTS
  f = f
  g = g
  Nil = Nil
  Text = Text
  Free = Free
  Key = {1, 2, 3}
  Field = {f, g}
  Lock = {1, 2}
  Cmd <- AllCmds
  Db0 <- Counters
  Hash <- TwoLocks
  Worker = {w1, w2}
  PutFails = TRUE
  MaxReq = 3
SPECIFICATION FairSpec
INVARIANTS TypeOK NoLostUpdate HandedOnInOrder
PROPERTIES AtomicPerKey Finishes
CHECK_DEADLOCK FALSE
