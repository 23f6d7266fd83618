SPECIFICATION FairSpec
CONSTANTS
  f1 = f1
  f2 = f2
  Forms = {f1, f2}
  PageSize = 2
  MaxPages = 2
  MaxFaults = 1
  MaxLost = 1
INVARIANTS
  NoEventLostSilently
  
PROPERTIES
  PrintedStaysPrinted
  OnlyUnknownCancelStops
CHECK_DEADLOCK FALSE
