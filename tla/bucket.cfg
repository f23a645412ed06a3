CONSTANTS
  t1 = t1  t2 = t2
  None = None
  Threads <- TwoThreads
  Lengths <- Fitting
  BurstSize = 3
  TimePerToken = 1
  Word = 64
  Boot = 3
  MaxNow = 7
SPECIFICATION Spec
INVARIANTS RateBound FullBucketGrants
PROPERTIES GrantsAccounted
