SPECIFICATION FairSpec
CONSTANTS
  r1 = r1
  r2 = r2
  s1 = s1
  s2 = s2
  Runner = {r1, r2}
  Stopper = {s1, s2}
  Renewal = Renewal
  Nobody = Nobody
  StackLimit = 3
CHECK_DEADLOCK FALSE
INVARIANT CleanUseSurvives
PROPERTY QuietAfterShutdown
PROPERTY ShutdownEnds
PROPERTY RunEnds
