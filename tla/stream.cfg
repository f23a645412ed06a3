CONSTANTS
  e1 = e1
  e2 = e2
  Ends = {e1, e2}
  RbufSize = 4
  SbufSize = 2
  RqSize = 2
  SqSize = 3
  CtrlSize = 1
  SeqSpace = 8
  SndLowat = 1
  MaxTransfer = 4
  Uses <- SafetyUses
SPECIFICATION Spec
INVARIANTS TypeOK RbufConserved QueuesFit EofMeansAll
PROPERTIES BuffersKept SglUsedUp ImplementsByteStream
CHECK_DEADLOCK FALSE
