SPECIFICATION Spec
CONSTANTS
  a = a
  b = b
  c = c
  Sched = sched
  Procs = {sched, web}
  Offers = {a, b, c}
  Cheaper <- Undercut
  BatchSize = 2
  Found = {"rival"}
  MaxReports = 2
  MaxEvents = 1
INVARIANTS
  RestartRechecks
CHECK_DEADLOCK FALSE
