SPECIFICATION FairSpec
CONSTANTS
  s1 = s1
  Sender = {s1}
  Capacity = 2
  MaxSends = 5
INVARIANT WakeFindsMessage
PROPERTY SignalRunsOne
CHECK_DEADLOCK FALSE
