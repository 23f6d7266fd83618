SPECIFICATION FairSpec
CONSTANTS
  low = low
  high = high
  Agent = agent
  Page = page
  Sched = sched
  Web = web
  Refresher = refresher
  Writers = {agent, page}
  Workers = {sched, web}
  Callers = {web}
  Writes <- WritesOf
  MaxFaults = 1
  MaxExpiries = 2
  MaxOthers = 1
  Procs = {sched, web}
  Offers = {low, high}
  Cheaper <- Undercut
  BatchSize = 1
  Found = {"rival"}
  MaxReports = 2
  MaxEvents = 2
INVARIANTS
  RepeatsAreAccounted
  RefreshTokenKept
  GapsExplained
PROPERTIES
  BuyerIsTold
  TokensWatched
  ResultsKept
  ResumedIsDone
CHECK_DEADLOCK FALSE
