SPECIFICATION FairSpec
CONSTANTS
  Worker = {"w1", "w2"}
  NPackage = 2
  Size = 2
  MaxId = 1
  MaxCtl = 1
  MaxSending = 1
PROPERTIES EverySettled
CHECK_DEADLOCK FALSE
