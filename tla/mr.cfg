CONSTANTS
  a = a  b = b  t1 = t1  t2 = t2  k1 = k1  k2 = k2  r1 = r1  r2 = r2
  None = None
  Hosts <- TwoHosts
  Threads <- TwoThreads
  HostOf <- HostSame
  KeysOf <- KeysTwo
  Regions <- TwoRegions
  HOST_LIST <- WithEtcdKey
  Copies <- Lossy
  CanFail = TRUE
  MaxFds = 3
SPECIFICATION FairSpec
CHECK_DEADLOCK FALSE
 
PROPERTY ReturnsUnlessAbandoned
