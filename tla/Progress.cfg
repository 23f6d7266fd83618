SPECIFICATION FairBoth
CONSTANTS
  o1 = o1
  w1 = w1
  p1 = p1
  p2 = p2
  Agent = agent
  Sched = sched
  None = None
  Orders = {o1}
  Web = {w1}
  Moves <- Short
  Enabled <- Transport
  MaxWeb = 1
  MaxFaults = 0
  Pages = {p1, p2}
  MaxRequests = 1
  MaxFailures = 1
PROPERTIES
  DeliveredIsShown
  GoodsComeBack
CHECK_DEADLOCK FALSE
