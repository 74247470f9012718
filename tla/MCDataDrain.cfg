SPECIFICATION Spec
CONSTANTS
  s1 = s1
  Sender = {s1}
  Capacity = 2
  MaxSends = 3
PROPERTY DrainRunsAll
CHECK_DEADLOCK FALSE
