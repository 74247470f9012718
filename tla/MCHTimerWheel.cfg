SPECIFICATION Spec
CONSTANTS
  Timer = {t1, t2}
  Resolution <- ThreeLevels
  Slots <- SlotsPerLevel
  Interval = {0, 7, 12, 25}
  NoTime = NoTime
  MaxAdd = 8
  MaxTime = 60
  MaxLag = 1
SYMMETRY TimerSymmetry
CHECK_DEADLOCK FALSE
INVARIANT EntryKept
INVARIANT NotTooEarly
INVARIANT NotTooLate
