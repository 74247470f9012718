SPECIFICATION Spec
CONSTANTS
  c1 = c1
  c2 = c2
  o1 = o1
  o2 = o2
  k1 = k1
  k2 = k2
  NoOwner = NoOwner
  NoTime = NoTime
  NoCounter = NoCounter
  NoItem = NoItem
  NoLease = NoLease
  NoCopy = NoCopy
  NoCall = NoCall
  Client = {c1, c2}
  Worker = {o1}
  Key = {k1}
  LeaseDuration = 1
  MaxLeaseAge = 1
  ClockModulus = 2
  ScanLimit = 100
  ScanRank <- KeyRank
  MaxBorn = 2
  FirstCounter = {1}
  MaxWrites = 2
SYMMETRY ManagerSymmetry
INVARIANT CopiesTrue
 
PROPERTY EvictedIsLost
