\* A set, which does not lock, beside an update_packed.
CONSTANTS
  f = f
  g = g
  Nil = Nil
  Text = Text
  Free = Free
  Key = {1, 2}
  Field = {f, g}
  Lock = {1, 2}
  Cmd <- SetAndPacked
  Db0 <- Counters
  Hash <- OneEach
  Worker = {w1, w2}
  PutFails = FALSE
  MaxReq = 2
SPECIFICATION Spec
INVARIANT UpdateIsAtomic
CHECK_DEADLOCK FALSE
