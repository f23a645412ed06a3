CONSTANTS
  r1 = r1  r2 = r2  h1 = h1  h2 = h2
  o1 = o1  o2 = o2  o3 = o3  o4 = o4  o5 = o5
  s1 = s1  s2 = s2  s3 = s3  s4 = s4
  None = None
  Handlers <- TwoHandlers
  Handles <- TwoHandles
  Objs <- MCObjs
  Segs <- MCSegs
  Kinds <- AllKinds
  MaxCreates = 3
  MaxCount = 1
SPECIFICATION FairSpec
INVARIANTS OwnedIsServed LoopPieceAlive ServedQueueKnown
 
