CONSTANTS
  c1 = c1
  c2 = c2
  Caller <- MCCallerOne
  Client <- MCClientOne
  Watcher = Watcher
  Initial = Initial
  Shutdown = Shutdown
  Nobody = Nobody
  JobController = FALSE
  DiesWithService = TRUE
  MaxSession = 7
  MaxPid = 8
  MaxExits = 1
  MaxStopCalls = 0
  MaxFailures = 1
  MaxRequests = 1
  MaxSetFailures = 0
  MaxCrashes = 1
  TakeoverTries = 1
  NotifyBuffer = 1
SPECIFICATION DesiredFairSpec
CHECK_DEADLOCK FALSE
PROPERTIES DesiredIsMaintained
