SPECIFICATION AwaitedFairSpec
CONSTANTS
  t1 = t1
  t2 = t2
  t3 = t3
  t4 = t4
  w1 = w1
  NoThread = NoThread
  Task = {t1, t2, t3, t4}
  Poster = {t1, t2, t3, t4}
  Waiter = {w1}
CHECK_DEADLOCK FALSE
INVARIANT LeaderIsLast
INVARIANT GroupInv
INVARIANT ReturnsAfterAll
PROPERTY WaiterReturns
