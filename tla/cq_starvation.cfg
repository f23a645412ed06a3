CONSTANTS
  t1 = t1  t2 = t2  q1 = q1  q2 = q2  c1 = c1  c2 = c2  s1 = s1
  None = None
  Threads <- MCThreads
  ShmVec <- PollOnly
  MaxWr = 1
  CqDepth = 1
SPECIFICATION FairSpec
PROPERTIES RequestAnswered
