SPECIFICATION FairSpec
CONSTANTS
  f1 = f1
  f2 = f2
  Forms = {f1, f2}
  PageSize = 2
  MaxPages = 2
  MaxFaults = 0
  MaxLost = 0
PROPERTIES
  CatchesUp
CHECK_DEADLOCK FALSE
