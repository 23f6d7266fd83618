SPECIFICATION SpecBoth
CONSTANTS
  s1 = s1
  s2 = s2
  o1 = o1
  o2 = o2
  r1 = r1
  r2 = r2
  p1 = p1
  p2 = p2
  None = None
  Sessions = {s1, s2}
  Orders = {o1, o2}
  OrderQty <- BigAndSmall
  Returns = {r1, r2}
  ReturnOf <- OneByOne
  Pieces = {2}
  Targets = {0, 3}
  Prices = {5, 10}
  MaxTxns = 5
  Pages = {p1, p2}
  MaxClaims <- Claims
  MaxRequests = 2
  MaxFaults = 1
INVARIANTS
  EmptyIsAlwaysWorthless
CHECK_DEADLOCK FALSE
