SPECIFICATION FairSpec
CONSTANTS
  a1 = a1
  w1 = w1
  p1 = p1
  None = None
  Agent = agent
  Allegro = {a1}
  Woo = {w1}
  Pages = {p1}
  MaxErrors = 2
  MaxFaults = 2
  MaxPages = 1
INVARIANTS
  ShipmentsPaid
  TracksOwnParcel
  RememberedIsPrinted
PROPERTIES
  OrdersGetLabels
CHECK_DEADLOCK FALSE
