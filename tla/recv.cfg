CONSTANTS
  t1 = t1  t2 = t2  c1 = c1  c2 = c2  q1 = q1  q2 = q2  s1 = s1
  b1 = b1  b2 = b2  b3 = b3
  None = None
  Threads <- MCThreads
  Bufs <- MCBufs
  Layouts <- Supported
  MaxWr = 2
  RqDepth = 3
  MaxSends = 1
  IndexMod = 4
  QueueSize = 6
SPECIFICATION Spec
SYMMETRY Symmetry
INVARIANTS  RingInCriticalSection
 
