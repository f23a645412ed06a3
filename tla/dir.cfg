CONSTANTS
  v1 = v1  v2 = v2  h1 = h1  h2 = h2
  None = None
  VIPs <- TwoVips
  Hosts <- TwoHosts
  MaxChanges = 2
  MaxCrashes = 1
SPECIFICATION FairSpec
INVARIANTS MemoryIsStore CaughtUp
PROPERTY ConvergesUnlessMissed
