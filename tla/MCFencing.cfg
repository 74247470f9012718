SPECIFICATION Spec
CONSTANTS
  w1 = w1
  w2 = w2
  k1 = k1
  k2 = k2
  NoOwner = NoOwner
  NoTime = NoTime
  NoCounter = NoCounter
  NoItem = NoItem
  NoLease = NoLease
  NoCall = NoCall
  NoTake = NoTake
  Worker = {w1, w2}
  Key = {k1}
  LeaseDuration = 0
  MaxLeaseAge = 100
  ClockModulus = 1000
  ScanLimit = 100
  ScanRank <- OneRank
  MaxTime = 1
  MaxCounter = 2
  MaxLate = 0
  ClockMayStepBack = FALSE
  RenewSlots = 1
  Round = {1}
  MaxLeasesToStealAtOnce = 1
  MayStart = {w1, w2}
  MayCrash = {}
  MayStop = {}
  MayCheckpoint = {}
SYMMETRY WorkerSymmetry
CHECK_DEADLOCK FALSE
INVARIANT TypeOK
INVARIANT CurrentHolderUnique
INVARIANT FencingInv
INVARIANT StampsSound
PROPERTY NoEarlyTake
PROPERTY WritesAreCounted
