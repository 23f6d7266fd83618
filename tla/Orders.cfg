SPECIFICATION SpecAll
CONSTANTS
  o1 = o1
  w1 = w1
  w2 = w2
  x = x
  y = y
  z = z
  Agent = thread
  Sched = scheduler
  None = None
  Orders = {o1}
  Web = {w1, w2}
  Moves <- Short
  Enabled <- Warehouse
  MaxWeb = 2
  MaxFaults = 1
  Names = {x, y}
  Variants = {x, y, z}
  InStock <- OneAndTwo
  Barcoded = {x, y}
  OnSale = {x}
  MaxRequests = 3
  MaxImports = 1
  Counted = {x, y}
  Takes = {1, 2}
  Shelf <- OneEach
  Books <- TwoOfX
  Coded = {x}
  MaxScans = 5
  MaxMoves = 1
SYMMETRY WebSymmetry
INVARIANTS
  RefundOnce
  PapersFollow
  BooksMatchShelves
PROPERTIES
  FollowsLife
  PollersLeaveCancelled
  AppliedBooksAreTrue
CHECK_DEADLOCK FALSE
