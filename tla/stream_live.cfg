CONSTANTS
  e1 = e1
  e2 = e2
  Ends = {e1, e2}
  RbufSize = 4
  SbufSize = 3
  RqSize = 2
  SqSize = 4
  CtrlSize = 2
  SeqSpace = 8
  SndLowat = 2
  MaxTransfer = 4
  Uses <- LiveUses
SPECIFICATION Spec
PROPERTIES EverythingArrives CallsReturn
CHECK_DEADLOCK FALSE
