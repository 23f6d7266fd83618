SPECIFICATION FairBoth
CONSTANTS
  o1 = o1
  l1 = l1
  l2 = l2
  i1 = i1
  i2 = i2
  None = None
  Orders = {o1}
  Labels = {l1, l2}
  Items = {i1, i2}
  MaxQueueRetries = 2
  MaxPrintErrors = 2
  MaxFaults = 3
  MaxQuiet = 1
  MaxCancels = 1
  w3 = w3
  Workers = {w1, w2, w3}
  MaxExits = 3
INVARIANTS
  SalesCoveredByPaper
  PrintsPaidByFaults
  NoSilentLoss
  ExtraAgentsAreStolen
  AgentsHoldTheirFiles
PROPERTIES
  StoredUntilDone
  Fulfils
  QueueDrains
  OrdersDelivered
  AgentComesBack
