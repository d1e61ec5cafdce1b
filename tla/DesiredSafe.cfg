CONSTANTS
  c1 = c1
  c2 = c2
  Caller <- MCCaller
  Client <- MCClient
  Watcher = Watcher
  Initial = Initial
  Shutdown = Shutdown
  Nobody = Nobody
  JobController = FALSE
  DiesWithService = TRUE
  MaxSession = 2
  MaxPid = 3
  MaxExits = 1
  MaxStopCalls = 2
  MaxFailures = 1
  MaxRequests = 2
  MaxSetFailures = 1
  MaxCrashes = 1
  TakeoverTries = 1
  NotifyBuffer = 1
SPECIFICATION DesiredSpec
CHECK_DEADLOCK FALSE
SYMMETRY ClientSymmetry
INVARIANTS DesiredSound ReconcileWantsCore
