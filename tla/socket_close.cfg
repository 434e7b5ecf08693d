SPECIFICATION FairSpec
CONSTANTS
  Worker = {"w1", "w2"}
  NPackage = 1
  Size = 2
  MaxId = 1
  MaxCtl = 1
  MaxSending = 2
CHECK_DEADLOCK FALSE
PROPERTIES CloseCompletes
