SPECIFICATION Spec
CONSTANTS
  w1 = w1
  w2 = w2
  Worker = {w1, w2}
  NPackage = 2
  Size = 2
  MaxId = 2
  MaxCtl = 1
  MaxSending = 2
SYMMETRY Symmetry
INVARIANTS OneHand Unmixed InOrder AssertsHold CloseOnce
CHECK_DEADLOCK FALSE
