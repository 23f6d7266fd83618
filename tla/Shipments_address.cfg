SPECIFICATION Spec
CONSTANTS
  a1 = a1
  w1 = w1
  p1 = p1
  None = None
  Agent = agent
  Allegro = {a1}
  Woo = {w1}
  Pages = {p1}
  MaxErrors = 3
  MaxFaults = 1
  MaxPages = 1
INVARIANTS
  AddressedToBuyer
CHECK_DEADLOCK FALSE
