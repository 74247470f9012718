SPECIFICATION FairSpec
CONSTANTS
  s1 = s1
  s2 = s2
  ev = ev
  Sender = {s1, s2, ev}
  EventThread = ev
  NoSender = NoSender
  Capacity = 2
  MaxSends = 2
INVARIANT NothingLost
INVARIANT NoLostWakeup
PROPERTY DrainRunsAll
CHECK_DEADLOCK FALSE
PROPERTY SentIsRun
