SPECIFICATION FairSpec
CONSTANTS
  w1 = w1
  w2 = w2
  k1 = k1
  k2 = k2
  NoOwner = NoOwner
  NoTime = NoTime
  NoCounter = NoCounter
  NoItem = NoItem
  NoLease = NoLease
  NoCall = NoCall
  NoTake = NoTake
  Worker = {w1}
  Key = {k1, k2}
  LeaseDuration = 0
  MaxLeaseAge = 100
  ClockModulus = 1000
  ScanLimit = 100
  ScanRank <- TwoRanks
  MaxTime = 1
  MaxCounter = 1
  MaxLate = 0
  ClockMayStepBack = FALSE
  RenewSlots = 2
  Round = {1}
  MaxLeasesToStealAtOnce = 2
  MayStart = {w1}
  MayCrash = {}
  MayStop = {}
  MayCheckpoint = {w1}
CHECK_DEADLOCK FALSE
PROPERTY StaleCopyResolved
PROPERTY InitializeEnds
PROPERTY RoundEnds
