SPECIFICATION FairSpec
CONSTANTS
  Task = {t1, t2, t3}
  MaxThreads = 4
  NoTask = NoTask
  NumThreads = 2
  QueueCapacity = 1
  ChannelCapacity = 1
CHECK_DEADLOCK FALSE
INVARIANT TaskRunsOnce
INVARIANT PoolInv
INVARIANT JoinedThreadsGone
PROPERTY QueuedTaskRuns
PROPERTY StopJoinEnds
